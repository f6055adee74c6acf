---------------------------- MODULE Notifications ----------------------------
(***************************************************************************)
(* E-mail notifications (src/certify/api.py: notification_preferences,     *)
(* change_email, update_user, send_notification; src/certify/mailer.py) as *)
(* audited operations: the recipients are read once, the relay is handed   *)
(* one mail after the other, and only then the mailing is audited.         *)
(***************************************************************************)
EXTENDS AuditedOperations

CONSTANTS
    Users,
    None                \* the thread sends no mails; the mailing is not requested

ASSUME NoneAssumption == \A set \in SUBSET Users : set # None

VARIABLES
    users,              \* users.active, email (given or NULL) and notify_level
    sending,            \* threads in send_notification: mailing, recipients left
    delivered,          \* whom the relay has a mail of each mailing for
    subscribers         \* ghost: who subscribed to it when it was requested

mailVars == <<sending, delivered, subscribers>>
notifyVars == <<opVars, users, mailVars>>

Levels == {"none", "errors", "expiry", "all"}
Categories == {"errors", "expiry", "issued"}
User == [active : BOOLEAN, email : BOOLEAN, level : Levels]

(* The levels that accept each category, as the handler lists them. *)
Accepted ==
    [errors |-> {"errors", "expiry", "all"},
     expiry |-> {"expiry", "all"},
     issued |-> {"all"}]

(* SELECT email FROM users WHERE active=1 AND email IS NOT NULL AND ... *)
Recipients(category) ==
    {u \in Users : /\ users[u].active /\ users[u].email
                   /\ users[u].level \in Accepted[category]}

(* What the levels mean: each includes the ones before it. *)
Rank == [none |-> 0, errors |-> 1, expiry |-> 2, all |-> 3, issued |-> 3]
Subscribes(u, category) ==
    /\ users[u].active /\ users[u].email
    /\ Rank[users[u].level] >= Rank[category]

(* create_user: active, with the default level of the column. *)
Created(email) == [active |-> TRUE, email |-> email, level |-> "errors"]

NotifyInit ==
    /\ OpInit
    /\ users \in [Users -> {Created(email) : email \in BOOLEAN}]
    /\ sending = [w \in Writers |-> None]
    /\ delivered = [m \in Mailings |-> {}]
    /\ subscribers = [m \in Mailings |-> None]

(* The user's own preferences: a level needs an address. *)
SetPreferences(u, email, level) ==
    /\ level # "none" => email
    /\ users' = [users EXCEPT ![u] =
        [active |-> users[u].active, email |-> email, level |-> level]]

(* PUT /users/{id}: the level stays, with or without an address. *)
UpdateUser(u, email, active) ==
    users' = [users EXCEPT ![u] =
        [active |-> active, email |-> email, level |-> users[u].level]]

(* A handler with a transaction of its own: one of these or any other.     *)
OrdinaryRequest(w, e) ==
    /\ sending[w] = None
    /\ e \notin Mailings
    /\ Operate(w, e)
    /\ \/ \E u \in Users, email \in BOOLEAN :
             \/ \E level \in Levels : SetPreferences(u, email, level)
             \/ \E active \in BOOLEAN : UpdateUser(u, email, active)
       \/ UNCHANGED users
    /\ UNCHANGED mailVars

(* A request to queue an update, which is audited first. *)
QueueRequest(w, e) ==
    /\ sending[w] = None
    /\ Announce(w, e)
    /\ UNCHANGED <<users, mailVars>>

(* send_notification begins: the recipients are read. *)
ReadRecipients(w, m, category) ==
    /\ pc[w] = "idle" /\ sending[w] = None
    /\ subscribers[m] = None
    /\ sending' = [sending EXCEPT ![w] =
          [mailing |-> m, left |-> Recipients(category)]]
    /\ subscribers' = [subscribers EXCEPT ![m] =
          {u \in Users : Subscribes(u, category)}]
    /\ UNCHANGED <<opVars, users, delivered>>

(* send_local_mail: the relay takes one mail. *)
SendOne(w, u) ==
    /\ sending[w] # None /\ u \in sending[w].left
    /\ delivered' = [delivered EXCEPT ![sending[w].mailing] = @ \cup {u}]
    /\ sending' = [sending EXCEPT ![w] =
          [mailing |-> sending[w].mailing, left |-> sending[w].left \ {u}]]
    /\ UNCHANGED <<opVars, users, subscribers>>

(* The relay refuses, or answers too late for a mail it has taken; or the  *)
(* process dies.  The request ends, with the mails sent so far.            *)
SendFails(w) ==
    /\ sending[w] # None
    /\ \E taken \in SUBSET sending[w].left :
          /\ Cardinality(taken) <= 1
          /\ delivered' =
                [delivered EXCEPT ![sending[w].mailing] = @ \cup taken]
    /\ sending' = [sending EXCEPT ![w] = None]
    /\ UNCHANGED <<opVars, users, subscribers>>

(* Mutant: the audit entry is written before the mails. *)
MailedAtOnce(w) ==
    /\ sending[w] # None
    /\ Operate(w, sending[w].mailing)
    /\ sending' = [sending EXCEPT ![w] = None]
    /\ UNCHANGED <<users, delivered, subscribers>>

(* All mails are with the relay; the mailing is audited. *)
Mailed(w) ==
    /\ sending[w] # None /\ sending[w].left = {}
    /\ Operate(w, sending[w].mailing)
    /\ sending' = [sending EXCEPT ![w] = None]
    /\ UNCHANGED <<users, delivered, subscribers>>

NotifyNext ==
    \/ \E w \in Writers :
          \/ \E e \in Events : OrdinaryRequest(w, e) \/ QueueRequest(w, e)
          \/ \E m \in Mailings, c \in Categories : ReadRecipients(w, m, c)
          \/ \E u \in Users : SendOne(w, u)
          \/ SendFails(w) \/ Mailed(w)
          \/ Finish(w) /\ UNCHANGED <<users, mailVars>>
    \/ Continue /\ UNCHANGED <<users, mailVars>>

NotifySpec == NotifyInit /\ [][NotifyNext]_notifyVars

FairNotifySpec == NotifySpec /\ Fairness

-------------------------------------------------------------------------------
NotifyTypeOK ==
    /\ TypeOK
    /\ users \in [Users -> User]
    /\ sending \in [Writers -> {None} \cup
                       [mailing : Mailings, left : SUBSET Users]]
    /\ delivered \in [Mailings -> SUBSET Users]
    /\ subscribers \in [Mailings -> {None} \cup SUBSET Users]

(* A mail goes to nobody who had not subscribed when the mailing was       *)
(* requested; and a mailing in the audit log reached every subscriber, so  *)
(* one that failed half-way is not in it.                                  *)
AuditedIsDelivered ==
    \A m \in Mailings : subscribers[m] # None =>
        /\ delivered[m] \subseteq subscribers[m]
        /\ m \in Audited => delivered[m] = subscribers[m]
===============================================================================
