---------------------------- MODULE TotpEnrollment ----------------------------
(***************************************************************************)
(* The second factor of one account (src/certify/api.py: setup_totp,       *)
(* cancel_totp_setup, confirm_totp, reset_totp), used by several requests  *)
(* at once: the dialog of app.js sends the cancellation when it is closed, *)
(* also while its confirmation is still on the way.  setup and confirm     *)
(* read in autocommit mode and write later; cancel and reset are one       *)
(* UPDATE.  A code is modelled by the secret whose code it is: verify_totp *)
(* accepts it for that secret only.                                        *)
(***************************************************************************)
EXTENDS Naturals, FiniteSets

CONSTANTS
    Requests,           \* threads serving the account's requests
    Secrets,            \* what new_totp_secret can draw
    NoSecret            \* SQL NULL, and a missing code

ASSUME NoSecretAssumption == NoSecret \notin Secrets

VARIABLES
    active,             \* users.totp_secret
    pending,            \* users.totp_pending_secret
    drawn,              \* secrets drawn so far: no secret is drawn twice
    pc,                 \* where a request is
    seen,               \* the secret it has read and checked the code against
    confirmed,          \* ghost: secrets confirmed with one of their codes
    released,           \* ghost: secrets given up with one of their codes
    overlapped          \* ghost: two requests were under way at once

ghosts == <<confirmed, released>>
vars == <<active, pending, drawn, pc, seen, ghosts, overlapped>>

Init ==
    /\ active = NoSecret
    /\ pending = NoSecret
    /\ drawn = {}
    /\ pc = [r \in Requests |-> "idle"]
    /\ seen = [r \in Requests |-> NoSecret]
    /\ confirmed = {}
    /\ released = {}
    /\ overlapped = FALSE

(* Mutant: a new setup does not ask for a code of the active secret. *)
CheckNothing(r, c) ==
    /\ pc[r] = "idle"
    /\ released' = released \cup ({c} \cap {active} \cap Secrets)
    /\ seen' = [seen EXCEPT ![r] = active]
    /\ pc' = [pc EXCEPT ![r] = "setup"]
    /\ UNCHANGED <<active, pending, drawn, confirmed>>

(* SELECT totp_secret: an active one needs a current code (else 401). *)
CheckCurrent(r, c) ==
    /\ pc[r] = "idle"
    /\ active # NoSecret => c = active
    /\ released' = released \cup ({c} \cap {active} \cap Secrets)
    /\ seen' = [seen EXCEPT ![r] = active]
    /\ pc' = [pc EXCEPT ![r] = "setup"]
    /\ UNCHANGED <<active, pending, drawn, confirmed>>

(* Mutant: the column gets the request's id. *)
StoreWrongValue(r, s) ==
    /\ pc[r] = "setup"
    /\ s \notin drawn
    /\ drawn' = drawn \cup {s}
    /\ pending' = r
    /\ pc' = [pc EXCEPT ![r] = "idle"]
    /\ UNCHANGED <<active, seen, ghosts>>

(* UPDATE users SET totp_pending_secret=? with the secret just drawn. *)
StorePending(r, s) ==
    /\ pc[r] = "setup"
    /\ s \notin drawn
    /\ drawn' = drawn \cup {s}
    /\ pending' = s
    /\ pc' = [pc EXCEPT ![r] = "idle"]
    /\ UNCHANGED <<active, seen, ghosts>>

(* DELETE .../totp/setup *)
CancelSetup(r) ==
    /\ pc[r] = "idle"
    /\ pending # NoSecret
    /\ pending' = NoSecret
    /\ UNCHANGED <<active, drawn, pc, seen, ghosts>>

(* Mutant: the code is not compared. *)
CheckAnyCode(r, c) ==
    /\ pc[r] = "idle"
    /\ pending # NoSecret
    /\ confirmed' = confirmed \cup {c}
    /\ seen' = [seen EXCEPT ![r] = pending]
    /\ pc' = [pc EXCEPT ![r] = "confirm"]
    /\ UNCHANGED <<active, pending, drawn, released>>

(* SELECT totp_pending_secret: there must be one (else 409), and the code  *)
(* must be one of its codes (else 422).                                    *)
CheckCode(r, c) ==
    /\ pc[r] = "idle"
    /\ pending # NoSecret
    /\ c = pending
    /\ confirmed' = confirmed \cup {c}
    /\ seen' = [seen EXCEPT ![r] = pending]
    /\ pc' = [pc EXCEPT ![r] = "confirm"]
    /\ UNCHANGED <<active, pending, drawn, released>>

(* Mutant: the secret that was checked is written, cancelled or not. *)
ActivateSeen(r) ==
    /\ pc[r] = "confirm"
    /\ active' = seen[r]
    /\ pending' = NoSecret
    /\ pc' = [pc EXCEPT ![r] = "idle"]
    /\ UNCHANGED <<drawn, seen, ghosts>>

(* UPDATE users SET totp_secret=totp_pending_secret: the value of the      *)
(* column now, not the one that was checked.                               *)
Activate(r) ==
    /\ pc[r] = "confirm"
    /\ active' = pending
    /\ pending' = NoSecret
    /\ pc' = [pc EXCEPT ![r] = "idle"]
    /\ UNCHANGED <<drawn, seen, ghosts>>

(* DELETE /users/{id}/totp by an administrator. *)
ResetTotp ==
    /\ active # NoSecret \/ pending # NoSecret
    /\ active' = NoSecret
    /\ pending' = NoSecret
    /\ UNCHANGED <<drawn, pc, seen, ghosts>>

(* The request dies or does not get the write lock. *)
Fail(r) ==
    /\ pc[r] # "idle"
    /\ pc' = [pc EXCEPT ![r] = "idle"]
    /\ UNCHANGED <<active, pending, drawn, seen, ghosts>>

Step(r) ==
    \/ \E c \in Secrets \cup {NoSecret} : CheckCurrent(r, c)
    \/ \E s \in Secrets : StorePending(r, s)
    \/ \E c \in Secrets : CheckCode(r, c)
    \/ CancelSetup(r) \/ Activate(r) \/ Fail(r)

(* A request that is one UPDATE overlaps with those already under way.     *)
UnderWay == {r \in Requests : pc[r] # "idle"}
Meets(r) == UnderWay \ {r} # {}

Next ==
    \/ ResetTotp /\ UNCHANGED overlapped
    \/ \E r \in Requests : Step(r) /\ overlapped' = (overlapped \/ Meets(r))

Spec == Init /\ [][Next]_vars

-------------------------------------------------------------------------------
TypeOK ==
    /\ {active, pending} \subseteq Secrets \cup {NoSecret}
    /\ drawn \subseteq Secrets
    /\ pc \in [Requests -> {"idle", "setup", "confirm"}]
    /\ seen \in [Requests -> Secrets \cup {NoSecret}]
    /\ confirmed \subseteq Secrets /\ released \subseteq Secrets
    /\ overlapped \in BOOLEAN

(* README.md: only the successful confirmation with a code activates TOTP. *)
ActiveIsConfirmed == active # NoSecret => active \in confirmed

(* It is so, administrators resetting or not, as long as the account's own *)
(* requests come one after the other.                                      *)
AloneActiveIsConfirmed == overlapped \/ ActiveIsConfirmed

(* app.js, "Zum Neueinrichten bestätigen Sie zuerst einen Code der         *)
(* bisherigen Authenticator-App", and README.md: it is administrators who  *)
(* remove a second factor.  One request of the account after the other,    *)
(* successful or failing, an active secret gives way to another one only   *)
(* after one of its own codes was presented, and to none only in a reset.  *)
Replaces == active # NoSecret /\ active' \notin {NoSecret, active}
Disables == active # NoSecret /\ active' = NoSecret
ActiveIsProtected ==
    [][overlapped' \/ /\ Replaces => active \in released
                      /\ Disables => ResetTotp]_vars

(* README.md: an aborted setup discards its secret.  However requests      *)
(* overlap, a secret that was cancelled, replaced or reset never comes     *)
(* back into use.                                                          *)
InUse == {active, pending} \ {NoSecret}
DiscardedStaysDiscarded == [][InUse' \subseteq InUse \cup (drawn' \ drawn)]_vars
===============================================================================
