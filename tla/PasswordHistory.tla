---------------------------- MODULE PasswordHistory ----------------------------
(***************************************************************************)
(* change_password (src/certify/api.py): one account, several requests of  *)
(* its sessions.  A request verifies the current password and the history  *)
(* with SELECTs in autocommit mode, hashes the new password with scrypt    *)
(* and only then opens its write transaction (the first INSERT), so other  *)
(* requests may change the account in between.  A stored hash is modelled  *)
(* by the password it verifies.                                            *)
(***************************************************************************)
EXTENDS Integers, Sequences, SequencesExt

CONSTANTS
    Requests,           \* threads serving PUT /users/me/password
    Passwords,          \* passwords that satisfy the policy
    HistoryLimit,       \* 20 in the code
    MaxChanges          \* bound on the successful changes

ASSUME LimitAssumption == HistoryLimit \in Nat \ {0} /\ MaxChanges \in Nat

VARIABLES
    current,            \* users.password_hash
    history,            \* password_history of the account, oldest row first
    past,               \* ghost: every password the account ever had, in order
    pc,                 \* where a request is
    new,                \* its new password
    seen,               \* the password_hash it read and verified
    overlapped          \* ghost: two requests were under way at once

account == <<current, history, past>>
vars == <<account, pc, new, seen, overlapped>>

(* The last n elements, or all if there are fewer. *)
LastOf(s, n) == SubSeq(s, IF Len(s) > n THEN Len(s) - n + 1 ELSE 1, Len(s))

(* A new account has its password in the history; accounts of databases    *)
(* from before the table do not.                                           *)
Init ==
    /\ current \in Passwords
    /\ history \in {<<>>, <<current>>}
    /\ past = <<current>>
    /\ pc = [r \in Requests |-> "idle"]
    /\ new \in [Requests -> {current}]
    /\ seen \in [Requests -> {current}]
    /\ overlapped = FALSE

(* SELECT password_hash and verify_password(current_password), for a       *)
(* request that gives the right one: all others end here (401).            *)
VerifyCurrent(r, p) ==
    /\ pc[r] = "idle"
    /\ Len(past) <= MaxChanges
    /\ seen' = [seen EXCEPT ![r] = current]
    /\ new' = [new EXCEPT ![r] = p]
    /\ pc' = [pc EXCEPT ![r] = "history"]
    /\ UNCHANGED account

(* Mutant: only the history is asked, not the current password. *)
BlockedByHistory(r) == ToSet(LastOf(history, HistoryLimit))

(* SELECT of the newest HistoryLimit rows; a password that verifies        *)
(* against one of them or against the hash read before is refused (422).   *)
Blocked(r) == {seen[r]} \cup ToSet(LastOf(history, HistoryLimit))

CheckHistory(r) ==
    /\ pc[r] = "history"
    /\ pc' = [pc EXCEPT ![r] = IF new[r] \in Blocked(r) THEN "idle" ELSE "write"]
    /\ UNCHANGED <<account, new, seen>>

(* Mutant: the history is never pruned. *)
WriteUnpruned(r) ==
    /\ pc[r] = "write"
    /\ Len(past) <= MaxChanges
    /\ history' = Append(history, seen[r])
    /\ current' = new[r]
    /\ past' = Append(past, new[r])
    /\ pc' = [pc EXCEPT ![r] = "idle"]
    /\ UNCHANGED <<new, seen>>

(* The write transaction: the replaced hash, as it was read, goes into the *)
(* history, the new one into the account, and the history is pruned.       *)
Write(r) ==
    /\ pc[r] = "write"
    /\ Len(past) <= MaxChanges
    /\ history' = LastOf(Append(history, seen[r]), HistoryLimit)
    /\ current' = new[r]
    /\ past' = Append(past, new[r])
    /\ pc' = [pc EXCEPT ![r] = "idle"]
    /\ UNCHANGED <<new, seen>>

(* "database is locked", or the end of the process. *)
Fail(r) ==
    /\ pc[r] # "idle"
    /\ pc' = [pc EXCEPT ![r] = "idle"]
    /\ UNCHANGED <<account, new, seen>>

Step(r) ==
    \/ \E p \in Passwords : VerifyCurrent(r, p)
    \/ CheckHistory(r)
    \/ Write(r)
    \/ Fail(r)

UnderWay == {r \in Requests : pc[r] # "idle"}
Overlap == \E r, q \in UnderWay : r # q

Next ==
    /\ \E r \in Requests : Step(r)
    /\ overlapped' = (overlapped \/ Overlap')

Spec == Init /\ [][Next]_vars

-------------------------------------------------------------------------------
TypeOK ==
    /\ current \in Passwords
    /\ history \in Seq(Passwords)
    /\ past \in Seq(Passwords)
    /\ pc \in [Requests -> {"idle", "history", "write"}]
    /\ new \in [Requests -> Passwords]
    /\ seen \in [Requests -> Passwords]
    /\ overlapped \in BOOLEAN

(* README.md and docs/architecture.md: the last HistoryLimit passwords     *)
(* cannot be used again.  So it is as long as no two changes overlap: the  *)
(* limits of the check and of the pruning, failed requests, and accounts   *)
(* whose first password is missing from the history add up to it.          *)
Reuses == past' # past /\ current' \in ToSet(LastOf(past, HistoryLimit))
RecentNotReused == [][Reuses => overlapped]_vars

(* Whatever overlaps: the history never outgrows its limit and holds only  *)
(* passwords the account really had.                                       *)
HistoryIsGenuine ==
    Len(history) <= HistoryLimit /\ ToSet(history) \subseteq ToSet(past)
===============================================================================
