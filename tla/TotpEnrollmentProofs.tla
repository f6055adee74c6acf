-------------------------- MODULE TotpEnrollmentProofs --------------------------
(***************************************************************************)
(* Proofs about the second factor, for any requests and secrets.  While    *)
(* the account's requests come one after the other, what a request read    *)
(* still tells about the columns when it writes: that is what CheckedInv   *)
(* keeps from the read to the write, and across resets in between.         *)
(***************************************************************************)
EXTENDS TotpEnrollment, TLAPS

(* What is known of the columns while no two requests have overlapped. *)
CheckedInv ==
    ~overlapped =>
        /\ \A r, q \in Requests : pc[r] # "idle" /\ pc[q] # "idle" => r = q
        /\ active # NoSecret => active \in confirmed
        /\ active # NoSecret /\ pending # NoSecret => active \in released
        /\ \A r \in Requests :
              /\ pc[r] = "setup" /\ active # NoSecret => active \in released
              /\ pc[r] = "confirm" => \/ pending \in confirmed
                                      \/ pending = NoSecret /\ active = NoSecret

TotpInv == TypeOK /\ CheckedInv

-------------------------------------------------------------------------------
USE NoSecretAssumption

LEMMA TotpInit == Init => TotpInv
BY DEF Init, TotpInv, TypeOK, CheckedInv

(* Types, whoever does the step. *)
LEMMA TypeStep ==
    ASSUME TypeOK, Next
    PROVE  TypeOK'
<1>1. CASE ResetTotp /\ UNCHANGED overlapped
  BY <1>1 DEF TypeOK, ResetTotp, ghosts
<1>2. ASSUME NEW r \in Requests, Step(r), overlapped' = (overlapped \/ Meets(r))
      PROVE  TypeOK'
  <2>1. overlapped' \in BOOLEAN
    BY <1>2, Zenon DEF TypeOK, Meets
  <2>2. ASSUME NEW c \in Secrets \cup {NoSecret}, CheckCurrent(r, c)
        PROVE  TypeOK'
    BY <2>1, <2>2 DEF TypeOK, CheckCurrent
  <2>3. ASSUME NEW s \in Secrets, StorePending(r, s)
        PROVE  TypeOK'
    BY <2>1, <2>3 DEF TypeOK, StorePending, ghosts
  <2>4. ASSUME NEW c \in Secrets, CheckCode(r, c)
        PROVE  TypeOK'
    BY <2>1, <2>4 DEF TypeOK, CheckCode
  <2>5. CASE CancelSetup(r)
    BY <2>1, <2>5 DEF TypeOK, CancelSetup, ghosts
  <2>6. CASE Activate(r)
    BY <2>1, <2>6 DEF TypeOK, Activate, ghosts
  <2>7. CASE Fail(r)
    BY <2>1, <2>7 DEF TypeOK, Fail, ghosts
  <2> QED BY <1>2, <2>2, <2>3, <2>4, <2>5, <2>6, <2>7 DEF Step
<1> QED BY <1>1, <1>2 DEF Next

(* A step of a request that met no other: it alone is under way. *)
LEMMA Alone ==
    ASSUME CheckedInv, NEW r \in Requests,
           overlapped' = (overlapped \/ Meets(r)), ~overlapped'
    PROVE  ~overlapped /\ \A q \in Requests \ {r} : pc[q] = "idle"
BY DEF Meets, UnderWay

LEMMA CheckedStep ==
    ASSUME TotpInv, Next
    PROVE  CheckedInv'
<1>1. CASE ResetTotp /\ UNCHANGED overlapped
  BY <1>1 DEF TotpInv, CheckedInv, ResetTotp, ghosts
<1>2. ASSUME NEW r \in Requests, Step(r), overlapped' = (overlapped \/ Meets(r)),
             ~overlapped'
      PROVE  CheckedInv'
  <2>1. ~overlapped /\ \A q \in Requests \ {r} : pc[q] = "idle"
    BY <1>2, Alone DEF TotpInv
  <2>2. TypeOK /\ CheckedInv
    BY DEF TotpInv
  <2>3. ASSUME NEW c \in Secrets \cup {NoSecret}, CheckCurrent(r, c)
        PROVE  CheckedInv'
    BY <2>1, <2>2, <2>3 DEF CheckedInv, TypeOK, CheckCurrent
  <2>4. ASSUME NEW s \in Secrets, StorePending(r, s)
        PROVE  CheckedInv'
    BY <2>1, <2>2, <2>4 DEF CheckedInv, TypeOK, StorePending, ghosts
  <2>5. ASSUME NEW c \in Secrets, CheckCode(r, c)
        PROVE  CheckedInv'
    BY <2>1, <2>2, <2>5 DEF CheckedInv, TypeOK, CheckCode
  <2>6. CASE CancelSetup(r)
    BY <2>1, <2>2, <2>6 DEF CheckedInv, TypeOK, CancelSetup, ghosts
  <2>7. CASE Activate(r)
    BY <2>1, <2>2, <2>7 DEF CheckedInv, TypeOK, Activate, ghosts
  <2>8. CASE Fail(r)
    BY <2>1, <2>2, <2>8 DEF CheckedInv, TypeOK, Fail, ghosts
  <2> QED BY <1>2, <2>3, <2>4, <2>5, <2>6, <2>7, <2>8 DEF Step
<1>3. CASE overlapped'
  BY <1>3 DEF CheckedInv
<1> QED BY <1>1, <1>2, <1>3 DEF Next

THEOREM TotpInvariant == Spec => []TotpInv
<1>1. TotpInv /\ [Next]_vars => TotpInv'
  <2>1. TotpInv /\ Next => TotpInv'
    BY TypeStep, CheckedStep DEF TotpInv
  <2>2. TotpInv /\ UNCHANGED vars => TotpInv'
    BY DEF TotpInv, TypeOK, CheckedInv, vars, ghosts
  <2> QED BY <2>1, <2>2
<1> QED BY <1>1, TotpInit, PTL DEF Spec

(* Every variable of the second factor keeps its type. *)
THEOREM TotpTypeCorrect == Spec => []TypeOK
<1>1. TotpInv => TypeOK
  BY DEF TotpInv
<1> QED BY <1>1, TotpInvariant, PTL

(* Unless two requests of the account overlapped, the active secret was    *)
(* confirmed with one of its codes.                                        *)
THEOREM ConfirmedCorrect == Spec => []AloneActiveIsConfirmed
<1>1. TotpInv => AloneActiveIsConfirmed
  BY DEF TotpInv, CheckedInv, AloneActiveIsConfirmed, ActiveIsConfirmed
<1> QED BY <1>1, TotpInvariant, PTL

(* Unless two requests of the account overlapped, an active secret gives   *)
(* way to another only after one of its codes was presented, and to none   *)
(* only in a reset.                                                        *)
THEOREM ProtectedCorrect == Spec => ActiveIsProtected
<1>1. TotpInv /\ [Next]_vars =>
        [overlapped' \/ /\ Replaces => active \in released
                        /\ Disables => ResetTotp]_vars
  <2> SUFFICES ASSUME TotpInv, Next, ~overlapped'
               PROVE  /\ Replaces => active \in released
                      /\ Disables => ResetTotp
    OBVIOUS
  <2>1. CASE ResetTotp
    BY <2>1 DEF ResetTotp, Replaces
  <2>2. ASSUME NEW r \in Requests, Step(r), overlapped' = (overlapped \/ Meets(r))
        PROVE  (Replaces => active \in released) /\ (Disables => ResetTotp)
    <3>1. CheckedInv /\ ~overlapped
      BY <2>2 DEF TotpInv
    <3>2. CASE Activate(r)
      BY <3>1, <3>2 DEF CheckedInv, TotpInv, TypeOK, Activate, Replaces, Disables
    <3>3. CASE ~Activate(r)
      <4>1. active' = active
        BY <2>2, <3>3 DEF Step, CheckCurrent, StorePending, CheckCode, CancelSetup, Fail
      <4> QED BY <4>1 DEF Replaces, Disables
    <3> QED BY <3>2, <3>3
  <2> QED BY <2>1, <2>2 DEF Next
<1> QED BY <1>1, TotpInvariant, PTL DEF Spec, ActiveIsProtected

(* However requests overlap, a secret that went out of use stays out. *)
THEOREM DiscardedCorrect == Spec => DiscardedStaysDiscarded
<1>1. TotpInv /\ [Next]_vars => [InUse' \subseteq InUse \cup (drawn' \ drawn)]_vars
  <2> SUFFICES ASSUME Next
               PROVE  InUse' \subseteq InUse \cup (drawn' \ drawn)
    OBVIOUS
  <2>1. CASE ResetTotp
    BY <2>1 DEF ResetTotp, InUse
  <2>2. ASSUME NEW r \in Requests, NEW s \in Secrets, StorePending(r, s)
        PROVE  InUse' \subseteq InUse \cup (drawn' \ drawn)
    BY <2>2 DEF StorePending, InUse
  <2>3. ASSUME NEW r \in Requests, Activate(r)
        PROVE  InUse' \subseteq InUse \cup (drawn' \ drawn)
    BY <2>3 DEF Activate, InUse
  <2>4. ASSUME NEW r \in Requests, CancelSetup(r)
        PROVE  InUse' \subseteq InUse \cup (drawn' \ drawn)
    BY <2>4 DEF CancelSetup, InUse
  <2>5. CASE UNCHANGED <<active, pending>>
    BY <2>5 DEF InUse
  <2> QED BY <2>1, <2>2, <2>3, <2>4, <2>5
      DEF Next, Step, CheckCurrent, CheckCode, Fail
<1> QED BY <1>1, TotpInvariant, PTL DEF Spec, DiscardedStaysDiscarded
===============================================================================
