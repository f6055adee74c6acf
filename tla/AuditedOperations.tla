-------------------------- MODULE AuditedOperations --------------------------
(***************************************************************************)
(* The pattern of the API's writing handlers in src/certify/api.py.  Most  *)
(* (create_user, update_user, revoke_api_key, ...) commit a transaction of *)
(* their own, then call audit.append, which opens a second one, and then   *)
(* answer.  request_update and request_update_check call append first and  *)
(* file the request afterwards, which may still fail.  The writers of      *)
(* AuditLog are the request threads.  An event is one request.             *)
(***************************************************************************)
EXTENDS AuditLog

CONSTANTS
    Mailings,           \* the requests whose effect is outside the database
    Announced           \* the requests that are audited before their effect

ASSUME MailingsAssumption == Mailings \subseteq Events
ASSUME AnnouncedAssumption == Announced \subseteq Events \ Mailings

VARIABLES
    effective,          \* requests that took effect
    answered            \* requests that were answered with success

opVars == <<vars, effective, answered>>

Audited == {rows[i].event : i \in DOMAIN rows}

OpInit == Init /\ effective = {} /\ answered = {}

(* with database.connect(): the operation's transaction, on its own (only  *)
(* send_notification has none that writes); after it the handler calls     *)
(* append.                                                                 *)
Operate(w, e) ==
    /\ e \notin effective \cup Announced
    /\ e \notin Mailings => lock = NoWriter
    /\ effective' = effective \cup {e}
    /\ Call(w, e)
    /\ UNCHANGED answered

(* The handlers that queue a request for systemd call append first, ...    *)
Announce(w, e) ==
    /\ e \in Announced \ Audited
    /\ \A v \in Writers : pc[v] # "idle" => event[v] # e
    /\ Call(w, e)
    /\ UNCHANGED <<effective, answered>>

(* Mutant: the handler goes on when append has failed. *)
CarryOutAnyway(w) ==
    /\ pc[w] \in {"begin", "return"} /\ event[w] \in Announced
    /\ pc' = [pc EXCEPT ![w] = "idle"]
    /\ effective' = effective \cup {event[w]}
    /\ UNCHANGED <<rows, lock, event, previous, returned, answered>>

(* ... then write_text, chmod and replace put the request in place, and    *)
(* the client is answered if it is still there and so is the process, ...  *)
CarryOut(w) ==
    /\ Return(w)
    /\ event[w] \in Announced
    /\ effective' = effective \cup {event[w]}
    /\ \/ answered' = answered \cup {event[w]}
       \/ UNCHANGED answered

(* ... or one of the three fails, behind the audit entry. *)
CarryOutFails(w) ==
    /\ Return(w)
    /\ event[w] \in Announced
    /\ UNCHANGED <<effective, answered>>

(* Mutant: the response does not wait for append. *)
AnswerInAdvance(w) ==
    /\ pc[w] \in {"begin", "select", "insert"}
    /\ answered' = answered \cup {event[w]}
    /\ UNCHANGED <<vars, effective>>

(* append has returned and the handler sends its response. *)
Answer(w) ==
    /\ Return(w)
    /\ event[w] \notin Announced
    /\ answered' = answered \cup {event[w]}
    /\ UNCHANGED effective

(* Everything else is AuditLog's: an exception of append (a timeout, a     *)
(* full disk, the death of the process) is an error for the client.        *)
Continue ==
    /\ \/ \E w \in Writers : \/ BeginImmediate(w) \/ SelectTip(w)
                             \/ InsertAndCommit(w)
                             \/ BeginTimeout(w) \/ Abort(w)
       \/ HandlerBegins \/ HandlerEnds
    /\ UNCHANGED <<effective, answered>>

(* The ends of a request whose append has returned. *)
Finish(w) == Answer(w) \/ CarryOut(w) \/ CarryOutFails(w)

OpNext ==
    \/ \E w \in Writers :
          Finish(w) \/ \E e \in Events : Operate(w, e) \/ Announce(w, e)
    \/ Continue

OpSpec == OpInit /\ [][OpNext]_opVars

FairOpSpec == OpSpec /\ Fairness

-------------------------------------------------------------------------------
(* A client that was told "done" finds its operation in the audit log. *)
AnsweredIsAudited == answered \subseteq Audited

(* The audit log claims nothing twice, and of the operations that are      *)
(* audited when they are done, none that did not happen.  The two that are *)
(* audited first may fail behind their entry; but none of them happens     *)
(* without one.                                                            *)
AuditedHappenedOnce ==
    /\ Audited \ Announced \subseteq effective
    /\ effective \cap Announced \subseteq Audited
    /\ \A i, j \in DOMAIN rows : rows[i].event = rows[j].event => i = j
===============================================================================
