------------------------------ MODULE AuditProofs ------------------------------
(***************************************************************************)
(* Proofs about AuditLog, AuditedOperations and Notifications for every    *)
(* set of writers, events and users and every bound: the hash chain and    *)
(* the durability of returned digests, append-only, the refinement of      *)
(* AuditTrail; the handlers use the audit log as AuditLog says, what they  *)
(* answered is audited and what is audited happened, once; and a mailing   *)
(* is an audited operation, audited only when its subscribers have it.     *)
(***************************************************************************)
EXTENDS Notifications, SequenceTheorems, FiniteSetTheorems, TLAPS

(* The inductive invariant.  ChainLinked alone is not inductive: a writer  *)
(* about to insert must hold the tip, which it does because only the lock  *)
(* holder is between SELECT and INSERT.  The last two parts say which      *)
(* prefix of the events a digest stands for.                               *)
LockInv == \A w \in Writers : pc[w] \in {"select", "insert"} <=> lock = w

TipInv == \A w \in Writers : pc[w] = "insert" => previous[w] = Tip

DigestInv == \A i \in DOMAIN rows :
                 rows[i].hash = History(rows, i)

CommittedInv ==
    \A w \in Writers : pc[w] = "return" =>
        \E i \in DOMAIN rows : rows[i].hash = Hmac(event[w], previous[w])

IInv == TypeOK /\ LockInv /\ TipInv /\ ChainLinked /\ DigestInv
        /\ CommittedInv /\ ReturnedIsDurable

-------------------------------------------------------------------------------
USE DEF Entry, TipOf, History

Rows == [event : Events, previous : Digests, hash : Digests]

(* The digest of an event is a digest, and the chain tip always is one. *)
LEMMA DigestTypes ==
    ASSUME TypeOK
    PROVE  /\ Genesis \in Digests
           /\ Tip \in Digests
           /\ \A e \in Events, d \in Digests : Hmac(e, d) \in Digests
<1>1. Genesis \in Digests
  BY DEF Genesis, Digests
<1>2. Tip \in Digests
  <2>1. CASE rows = <<>>
    BY <1>1, <2>1 DEF Tip
  <2>2. CASE rows # <<>>
    <3>1. Len(rows) \in 1..Len(rows)
      BY <2>2, EmptySeq DEF TypeOK
    <3>2. rows[Len(rows)] \in Rows
      BY <3>1, ElementOfSeq DEF TypeOK, Rows
    <3>. QED  BY <2>2, <3>2 DEF Tip, Rows
  <2>. QED  BY <2>1, <2>2
<1>3. \A e \in Events, d \in Digests : Hmac(e, d) \in Digests
  BY AppendProperties DEF Hmac, Digests
<1>. QED  BY <1>1, <1>2, <1>3

(* Every variable keeps its type. *)
LEMMA TypeStep == TypeOK /\ [Next]_vars => TypeOK'
<1>. SUFFICES ASSUME TypeOK, [Next]_vars PROVE TypeOK'
  OBVIOUS
<1>. USE DEF TypeOK, Steps
<1>1. ASSUME NEW w \in Writers, NEW e \in Events, Call(w, e) PROVE TypeOK'
  BY <1>1 DEF Call
<1>2. ASSUME NEW w \in Writers, BeginImmediate(w) PROVE TypeOK'
  BY <1>2 DEF BeginImmediate
<1>3. ASSUME NEW w \in Writers, SelectTip(w) PROVE TypeOK'
  BY <1>3, DigestTypes DEF SelectTip
<1>4. ASSUME NEW w \in Writers, InsertAndCommit(w) PROVE TypeOK'
  <2>1. Entry(event[w], previous[w]) \in Rows
    BY DigestTypes DEF Rows
  <2>2. rows' \in Seq(Rows)
    BY <1>4, <2>1, AppendProperties DEF InsertAndCommit, Rows
  <2>. QED  BY <1>4, <2>2 DEF InsertAndCommit, Rows
<1>5. ASSUME NEW w \in Writers, Return(w) PROVE TypeOK'
  BY <1>5, DigestTypes DEF Return
<1>6. ASSUME NEW w \in Writers, BeginTimeout(w) PROVE TypeOK'
  BY <1>6 DEF BeginTimeout
<1>7. ASSUME NEW w \in Writers, Abort(w) PROVE TypeOK'
  BY <1>7 DEF Abort
<1>8. CASE HandlerBegins
  BY <1>8 DEF HandlerBegins
<1>9. CASE HandlerEnds
  BY <1>9 DEF HandlerEnds
<1>10. CASE UNCHANGED vars
  BY <1>10 DEF vars
<1>. QED  BY <1>1, <1>2, <1>3, <1>4, <1>5, <1>6, <1>7, <1>8, <1>9, <1>10 DEF Next, Step

(* Every variable of the audit log always has its type, whoever calls      *)
(* append, times out or dies.                                              *)
THEOREM TypeCorrect == Spec => []TypeOK
<1>1. Init => TypeOK
  BY EmptySeq DEF Init, TypeOK, Steps, Digests, Genesis
<1>. QED  BY <1>1, TypeStep, PTL DEF Spec

-------------------------------------------------------------------------------
(* Appending the row of the lock holder extends the chain by one link. *)
LEMMA InsertKeepsChain ==
    ASSUME IInv, NEW w \in Writers, InsertAndCommit(w)
    PROVE  /\ ChainLinked' /\ DigestInv'
           /\ rows'[Len(rows')].hash = Hmac(event[w], previous[w])
           /\ Len(rows') = Len(rows) + 1
           /\ \A i \in DOMAIN rows : i \in DOMAIN rows' /\ rows'[i] = rows[i]
<1>. DEFINE n == Len(rows)
            row == Entry(event[w], previous[w])
<1>1. /\ rows \in Seq(Rows) /\ row \in Rows /\ rows' = Append(rows, row)
  BY DigestTypes DEF IInv, TypeOK, InsertAndCommit, Rows
<1>2. /\ n \in Nat /\ DOMAIN rows = 1..n /\ DOMAIN rows' = 1..(n + 1)
      /\ Len(rows') = n + 1 /\ rows'[n + 1] = row
      /\ \A i \in 1..n : rows'[i] = rows[i]
  BY <1>1, AppendProperties, LenProperties
<1>3. previous[w] = IF n = 0 THEN Genesis ELSE rows[n].hash
  BY <1>1, EmptySeq DEF IInv, TipInv, Tip, InsertAndCommit
<1>4. ChainLinked'
  <2>. SUFFICES ASSUME NEW i \in 1..(n + 1)
                PROVE  /\ rows'[i].previous =
                            IF i = 1 THEN Genesis ELSE rows'[i - 1].hash
                       /\ rows'[i].hash = Hmac(rows'[i].event, rows'[i].previous)
    BY <1>2 DEF ChainLinked, Hmac, Genesis
  <2>1. CASE i = n + 1
    BY <1>2, <1>3, <2>1
  <2>2. CASE i # n + 1
    <3>1. i \in 1..n /\ (i # 1 => i - 1 \in 1..n)
      BY <1>2, <2>2
    <3>. QED  BY <1>2, <3>1 DEF IInv, ChainLinked
  <2>. QED  BY <2>1, <2>2
<1>5. DigestInv'
  <2>. SUFFICES ASSUME NEW i \in 1..(n + 1)
                PROVE  rows'[i].hash = [j \in 1..i |-> rows'[j].event]
    BY <1>2 DEF DigestInv
  <2>1. CASE i # n + 1
    <3>1. i \in 1..n /\ 1..i \subseteq 1..n
      BY <1>2, <2>1
    <3>. QED  BY <1>2, <3>1 DEF IInv, DigestInv
  <2>2. CASE i = n + 1
    <3>1. previous[w] = [j \in 1..n |-> rows[j].event]
      <4>1. CASE n = 0
        BY <1>2, <1>3, <4>1 DEF Genesis
      <4>2. CASE n # 0
        BY <1>2, <1>3, <4>2 DEF IInv, DigestInv
      <4>. QED  BY <4>1, <4>2
    <3>2. /\ previous[w] \in Seq(Events) /\ event[w] \in Events
          /\ Len(previous[w]) = n
      BY <1>2, <3>1, LenProperties DEF IInv, TypeOK, Digests
    <3>3. /\ row.hash \in Seq(Events) /\ Len(row.hash) = n + 1
          /\ row.hash[n + 1] = event[w]
          /\ \A j \in 1..n : row.hash[j] = previous[w][j]
      BY <3>2, AppendProperties DEF Hmac
    <3>4. /\ row.hash = [j \in 1..(n + 1) |-> row.hash[j]]
      BY <3>3, LenProperties
    <3>5. \A j \in 1..(n + 1) : row.hash[j] = rows'[j].event
      BY <1>2, <3>1, <3>3
    <3>. QED  BY <1>2, <2>2, <3>4, <3>5
  <2>. QED  BY <2>1, <2>2
<1>. QED  BY <1>2, <1>4, <1>5

(* The inductive step, one case per action. *)
LEMMA IInvStep == IInv /\ [Next]_vars => IInv'
<1>. SUFFICES ASSUME IInv, [Next]_vars PROVE IInv'
  OBVIOUS
<1>. USE SentinelAssumption
<1>0. TypeOK /\ TypeOK'
  BY TypeStep DEF IInv
<1>1. ASSUME NEW w \in Writers, NEW e \in Events, Call(w, e) PROVE IInv'
  BY <1>0, <1>1 DEF Call, IInv, TypeOK, LockInv, TipInv, Tip, ChainLinked,
                    DigestInv, CommittedInv, ReturnedIsDurable
<1>2. ASSUME NEW w \in Writers, BeginImmediate(w) PROVE IInv'
  BY <1>0, <1>2 DEF BeginImmediate, IInv, TypeOK, LockInv, TipInv, Tip, ChainLinked,
                    DigestInv, CommittedInv, ReturnedIsDurable
<1>3. ASSUME NEW w \in Writers, SelectTip(w) PROVE IInv'
  BY <1>0, <1>3 DEF SelectTip, IInv, TypeOK, LockInv, TipInv, Tip, ChainLinked,
                    DigestInv, CommittedInv, ReturnedIsDurable
<1>4. ASSUME NEW w \in Writers, InsertAndCommit(w) PROVE IInv'
  <2>1. LockInv' /\ TipInv'
    <3>1. lock = w /\ \A v \in Writers \ {w} : pc[v] \notin {"select", "insert"}
      BY <1>4 DEF InsertAndCommit, IInv, LockInv
    <3>. QED  BY <1>0, <1>4, <3>1 DEF InsertAndCommit, TypeOK, LockInv, TipInv
  <2>2. Len(rows') \in DOMAIN rows'
    BY <1>0, <1>4, InsertKeepsChain, LenProperties DEF TypeOK
  <2>3. CommittedInv'
    <3>. SUFFICES ASSUME NEW v \in Writers, pc'[v] = "return"
                  PROVE  \E i \in DOMAIN rows' :
                            rows'[i].hash = Hmac(event[v], previous[v])
      BY <1>4 DEF CommittedInv, InsertAndCommit, Hmac
    <3>1. CASE v = w
      BY <1>4, <2>2, <3>1, InsertKeepsChain
    <3>2. CASE v # w
      <4>1. pc[v] = "return"
        BY <1>0, <1>4, <3>2 DEF InsertAndCommit, TypeOK
      <4>. QED  BY <1>4, <4>1, InsertKeepsChain DEF IInv, CommittedInv
    <3>. QED  BY <3>1, <3>2
  <2>4. ReturnedIsDurable'
    <3>1. returned' = returned
      BY <1>4 DEF InsertAndCommit
    <3>. QED  BY <1>4, <3>1, InsertKeepsChain DEF IInv, ReturnedIsDurable
  <2>. QED  BY <1>0, <1>4, <2>1, <2>3, <2>4, InsertKeepsChain DEF IInv
<1>5. ASSUME NEW w \in Writers, Return(w) PROVE IInv'
  <2>1. ReturnedIsDurable'
    BY <1>5 DEF Return, IInv, CommittedInv, ReturnedIsDurable, Hmac
  <2>. QED  BY <1>0, <1>5, <2>1 DEF Return, IInv, TypeOK, LockInv, TipInv, Tip,
                                    ChainLinked, DigestInv, CommittedInv
<1>6. ASSUME NEW w \in Writers, BeginTimeout(w) PROVE IInv'
  BY <1>0, <1>6 DEF BeginTimeout, IInv, TypeOK, LockInv, TipInv, Tip, ChainLinked,
                    DigestInv, CommittedInv, ReturnedIsDurable
<1>7. ASSUME NEW w \in Writers, Abort(w) PROVE IInv'
  BY <1>0, <1>7 DEF Abort, IInv, TypeOK, LockInv, TipInv, Tip, ChainLinked,
                    DigestInv, CommittedInv, ReturnedIsDurable
<1>8. CASE HandlerBegins
  BY <1>0, <1>8 DEF HandlerBegins, IInv, LockInv, TipInv, Tip, ChainLinked,
                    DigestInv, CommittedInv, ReturnedIsDurable
<1>9. CASE HandlerEnds
  BY <1>0, <1>9 DEF HandlerEnds, IInv, LockInv, TipInv, Tip, ChainLinked,
                    DigestInv, CommittedInv, ReturnedIsDurable
<1>10. CASE UNCHANGED vars
  BY <1>0, <1>10 DEF vars, IInv, LockInv, TipInv, Tip, ChainLinked,
                     DigestInv, CommittedInv, ReturnedIsDurable, Hmac
<1>. QED  BY <1>1, <1>2, <1>3, <1>4, <1>5, <1>6, <1>7, <1>8, <1>9, <1>10 DEF Next, Step

LEMMA IInvInvariant == Spec => []IInv
<1>1. Init => IInv
  BY EmptySeq, SentinelAssumption
     DEF Init, IInv, TypeOK, Steps, Digests, Genesis, LockInv, TipInv, ChainLinked,
         DigestInv, CommittedInv, ReturnedIsDurable
<1>. QED  BY <1>1, IInvStep, PTL DEF Spec

(* Concurrent appends never fork or break the hash chain. *)
THEOREM ChainCorrect == Spec => []ChainLinked
BY IInvInvariant, PTL DEF IInv

(* The tip a writer selected is still the tip when it inserts. *)
THEOREM TipCorrect == Spec => []SelectedTipIsCurrent
<1>1. IInv => SelectedTipIsCurrent
  BY DEF IInv, LockInv, TipInv, SelectedTipIsCurrent
<1>. QED  BY <1>1, IInvInvariant, PTL

(* What append returned stays the digest of a row. *)
THEOREM ReturnedCorrect == Spec => []ReturnedIsDurable
BY IInvInvariant, PTL DEF IInv

-------------------------------------------------------------------------------
(* No step changes or drops a row of the table. *)
THEOREM AppendOnlyCorrect == Spec => AppendOnly
<1>1. TypeOK /\ [Next]_vars => [Extends]_vars
  <2>. SUFFICES ASSUME TypeOK, [Next]_vars PROVE Extends
    OBVIOUS
  <2>1. ASSUME NEW w \in Writers, InsertAndCommit(w) PROVE Extends
    <3>. DEFINE row == Entry(event[w], previous[w])
    <3>1. rows \in Seq(Rows) /\ row \in Rows /\ rows' = Append(rows, row)
      BY <2>1, DigestTypes DEF TypeOK, InsertAndCommit, Rows
    <3>. HIDE DEF row
    <3>2. /\ rows' \in Seq(Rows) /\ Len(rows') = Len(rows) + 1
          /\ \A i \in 1..Len(rows) : rows'[i] = rows[i]
      BY <3>1, AppendProperties, LenProperties
    <3>3. SubSeq(rows', 1, Len(rows)) = rows
      <4>1. /\ SubSeq(rows', 1, Len(rows)) \in Seq(Rows)
            /\ Len(SubSeq(rows', 1, Len(rows))) = Len(rows)
            /\ \A i \in 1..Len(rows) : SubSeq(rows', 1, Len(rows))[i] = rows'[i]
        BY <3>1, <3>2, LenProperties, SubSeqProperties
      <4>. QED  BY <3>1, <3>2, <4>1, SeqEqual
    <3>. QED  BY <3>2, <3>3 DEF Extends
  <2>2. CASE \A w \in Writers : ~InsertAndCommit(w)
    BY <2>2 DEF Next, Step, vars, Call, BeginImmediate, BeginTimeout, SelectTip,
                Return, Abort, HandlerBegins, HandlerEnds, Extends
  <2>. QED  BY <2>1, <2>2
<1>. QED  BY <1>1, TypeCorrect, PTL DEF Spec, AppendOnly

(* The trail that the refinement mapping shows to callers. *)
LEMMA TrailTypes ==
    ASSUME TypeOK
    PROVE  LET trail == [i \in DOMAIN rows |-> rows[i].event]
           IN  trail \in Seq(Events) /\ Len(trail) = Len(rows)
<1>1. \A i \in DOMAIN rows : rows[i].event \in Events
  <2>1. rows \in Seq(Rows) /\ DOMAIN rows = 1..Len(rows)
    BY LenProperties DEF TypeOK, Rows
  <2>2. \A i \in DOMAIN rows : rows[i] \in Rows
    BY <2>1, ElementOfSeq
  <2>. QED  BY <2>2 DEF Rows
<1>2. DOMAIN rows = 1..Len(rows) /\ Len(rows) \in Nat
  BY LenProperties DEF TypeOK
<1>. QED  BY <1>1, <1>2, IsASeq, LenProperties

(* The hash chain, with its transactions, its lock and its failures, does  *)
(* nothing an append-only trail of acknowledged events would not do.       *)
THEOREM RefinesTrail == Spec => ImplementsTrail
<1>1. Init => Trail!Init
  <2>. SUFFICES ASSUME Init PROVE Trail!Init
    OBVIOUS
  <2>1. rows = <<>> /\ DOMAIN rows = {} /\ returned = {}
    BY EmptySeq DEF Init
  <2>. QED  BY <2>1 DEF Trail!Init
<1>2. IInv /\ [Next]_vars => [Trail!Next]_Trail!vars
  <2>. SUFFICES ASSUME IInv, [Next]_vars PROVE [Trail!Next]_Trail!vars
    OBVIOUS
  <2>. DEFINE trail == [i \in DOMAIN rows |-> rows[i].event]
  <2>0. /\ TypeOK /\ trail \in Seq(Events) /\ Len(trail) = Len(rows)
        /\ rows \in Seq(Rows)
    BY TrailTypes DEF IInv, TypeOK, Rows
  <2>1. ASSUME NEW w \in Writers, InsertAndCommit(w) PROVE Trail!Record(event[w])
    <3>. DEFINE row == Entry(event[w], previous[w])
    <3>1. row \in Rows /\ rows' = Append(rows, row) /\ returned' = returned
          /\ event[w] \in Events
      BY <2>0, <2>1, DigestTypes DEF TypeOK, InsertAndCommit, Rows
    <3>2. row.event = event[w]
      OBVIOUS
    <3>. HIDE DEF row
    <3>3. /\ DOMAIN rows' = 1..(Len(rows) + 1) /\ rows'[Len(rows) + 1] = row
          /\ DOMAIN rows = 1..Len(rows) /\ Len(rows) \in Nat
          /\ \A i \in 1..Len(rows) : rows'[i] = rows[i]
      BY <2>0, <3>1, AppendProperties, LenProperties
    <3>4. trail' = [i \in 1..(Len(rows) + 1) |->
                       IF i = Len(rows) + 1 THEN event[w] ELSE trail[i]]
      BY <3>2, <3>3
    <3>5. Append(trail, event[w]) =
             [i \in 1..(Len(rows) + 1) |->
                       IF i = Len(rows) + 1 THEN event[w] ELSE trail[i]]
      <4>. HIDE DEF trail
      <4>1. /\ Append(trail, event[w]) \in Seq(Events)
            /\ Len(Append(trail, event[w])) = Len(rows) + 1
            /\ Append(trail, event[w])[Len(rows) + 1] = event[w]
            /\ \A i \in 1..Len(rows) : Append(trail, event[w])[i] = trail[i]
        BY <2>0, <3>1, AppendProperties
      <4>. QED  BY <4>1, <3>3, LenProperties
    <3>. QED  BY <3>1, <3>4, <3>5 DEF Trail!Record
  <2>2. ASSUME NEW w \in Writers, Return(w) PROVE Trail!Next
    <3>1. PICK i \in DOMAIN rows : rows[i].hash = Hmac(event[w], previous[w])
      BY <2>2 DEF Return, IInv, CommittedInv
    <3>2. DOMAIN rows = 1..Len(rows) /\ Len(rows) \in Nat
      BY <2>0, LenProperties
    <3>3. Hmac(event[w], previous[w]) = [j \in 1..i |-> trail[j]]
      <4>1. \A j \in 1..i : j \in DOMAIN rows
        BY <3>2
      <4>. QED  BY <3>1, <4>1 DEF IInv, DigestInv
    <3>4. SubSeq(trail, 1, i) = [j \in 1..i |-> trail[j]]
      <4>. HIDE DEF trail
      <4>1. /\ SubSeq(trail, 1, i) \in Seq(Events)
            /\ Len(SubSeq(trail, 1, i)) = i
            /\ \A j \in 1..i : SubSeq(trail, 1, i)[j] = trail[j]
        BY <2>0, <3>2, SubSeqProperties, LenProperties
      <4>. QED  BY <4>1, <3>2, LenProperties
    <3>5. /\ returned' = returned \cup {SubSeq(trail, 1, i)}
          /\ trail' = trail
      BY <2>2, <3>3, <3>4 DEF Return
    <3>6. i \in 1..Len(trail)
      BY <2>0, <3>2
    <3>. QED  BY <3>5, <3>6 DEF Trail!Next, Trail!Acknowledge
  <2>3. CASE \A w \in Writers : ~InsertAndCommit(w) /\ ~Return(w)
    <3>1. rows' = rows /\ returned' = returned
      BY <2>3 DEF Next, Step, vars, Call, BeginImmediate, BeginTimeout, SelectTip,
                  Abort, HandlerBegins, HandlerEnds
    <3>. QED  BY <3>1 DEF Trail!vars
  <2>4. ASSUME NEW w \in Writers, InsertAndCommit(w) PROVE Trail!Next
    <3>1. event[w] \in Events
      BY <2>0 DEF TypeOK
    <3>2. Trail!Record(event[w])
      BY <2>1, <2>4
    <3>. QED  BY <3>1, <3>2 DEF Trail!Next, Trail!Record
  <2>. QED  BY <2>2, <2>3, <2>4
<1>. QED  BY <1>1, <1>2, IInvInvariant, PTL DEF Spec, ImplementsTrail, Trail!Spec

-------------------------------------------------------------------------------
(* The appends in flight and the rows fit into the bound: a writer that    *)
(* commits leaves the flight as its row comes.                             *)
CapacityInv == Len(rows) + Cardinality(InFlight) <= MaxEntries

LEMMA InFlightFinite == IsFiniteSet(InFlight) /\ Cardinality(InFlight) \in Nat
<1>1. InFlight \in SUBSET Writers
  BY DEF InFlight
<1>. QED  BY <1>1, WritersAssumption, FS_Subset, FS_CardinalityType

LEMMA CapacityStep == TypeOK /\ CapacityInv /\ [Next]_vars => CapacityInv'
<1>. SUFFICES ASSUME TypeOK, CapacityInv, [Next]_vars PROVE CapacityInv'
  OBVIOUS
<1>0. /\ Len(rows) \in Nat /\ MaxEntries \in Nat
      /\ IsFiniteSet(InFlight) /\ Cardinality(InFlight) \in Nat
  BY LenProperties, InFlightFinite, BoundAssumption DEF TypeOK
<1>1. ASSUME NEW w \in Writers, NEW e \in Events, Call(w, e) PROVE CapacityInv'
  <2>1. InFlight' = InFlight \cup {w}
    BY <1>1 DEF Call, InFlight, TypeOK
  <2>2. Cardinality(InFlight') <= Cardinality(InFlight) + 1
    BY <1>0, <2>1, FS_AddElement
  <2>3. Cardinality(InFlight') \in Nat
    BY <1>0, <2>1, FS_AddElement, FS_CardinalityType
  <2>. QED  BY <1>0, <1>1, <2>2, <2>3 DEF Call, CapacityInv
<1>2. ASSUME NEW w \in Writers, InsertAndCommit(w) PROVE CapacityInv'
  <2>1. InFlight' = InFlight \ {w} /\ w \in InFlight
    BY <1>2 DEF InsertAndCommit, InFlight, TypeOK
  <2>2. Cardinality(InFlight') = Cardinality(InFlight) - 1
    BY <1>0, <2>1, FS_RemoveElement
  <2>3. Len(rows') = Len(rows) + 1
    <3>1. Entry(event[w], previous[w]) \in Rows
      BY DigestTypes DEF TypeOK, Rows
    <3>. QED  BY <1>2, <3>1, AppendProperties DEF InsertAndCommit, TypeOK, Rows
  <2>. QED  BY <1>0, <2>2, <2>3 DEF CapacityInv
<1>3. CASE \A w \in Writers : ~InsertAndCommit(w) /\ \A e \in Events : ~Call(w, e)
  <2>1. rows' = rows /\ InFlight' \subseteq InFlight
    BY <1>3 DEF Next, Step, vars, BeginImmediate, BeginTimeout, SelectTip, Return,
                Abort, HandlerBegins, HandlerEnds, InFlight, TypeOK
  <2>2. InFlight' \in SUBSET InFlight
    BY <2>1
  <2>3. IsFiniteSet(InFlight') /\ Cardinality(InFlight') <= Cardinality(InFlight)
    BY <1>0, <2>2, FS_Subset
  <2>4. Cardinality(InFlight') \in Nat
    BY <2>3, FS_CardinalityType
  <2>. QED  BY <1>0, <2>1, <2>3, <2>4 DEF CapacityInv
<1>. QED  BY <1>1, <1>2, <1>3

LEMMA CapacityInvariant == Spec => []CapacityInv
<1>1. Init => CapacityInv
  <2>. SUFFICES ASSUME Init PROVE CapacityInv
    OBVIOUS
  <2>1. InFlight = {} /\ Len(rows) = 0
    BY EmptySeq DEF Init, InFlight
  <2>. QED  BY <2>1, FS_EmptySet, BoundAssumption DEF CapacityInv
<1>. QED  BY <1>1, CapacityStep, TypeCorrect, PTL DEF Spec

(* AuditVerification takes an append for a single step.                    *)
Verified == INSTANCE AuditVerification WITH
               issued <- {rows[i].hash : i \in DOMAIN rows}, tampers <- 0,
               MaxTampers <- 0, Forged <- NoWriter, vpc <- "idle", snapshot <- <<>>,
               row <- 1, expected <- Genesis, verdict <- TRUE
ImplementsAtomicAppend == Verified!Spec

(* It may: begin, select, insert and commit of all writers, with their     *)
(* timeouts and failures, change the table as these single steps do, so    *)
(* that verify meets no other tables than AuditVerification shows it.      *)
THEOREM AppendIsAtomic == Spec => ImplementsAtomicAppend
<1>1. Init => Verified!Init
  <2>. SUFFICES ASSUME Init PROVE Verified!Init
    OBVIOUS
  <2>1. rows = <<>> /\ DOMAIN rows = {}
    BY EmptySeq DEF Init
  <2>. QED  BY <2>1 DEF Verified!Init, Verified!Genesis, Genesis
<1>2. IInv /\ CapacityInv /\ [Next]_vars => [Verified!Next]_Verified!vars
  <2>. SUFFICES ASSUME IInv, CapacityInv, [Next]_vars
                PROVE  [Verified!Next]_Verified!vars
    OBVIOUS
  <2>. DEFINE issued == {rows[i].hash : i \in DOMAIN rows}
  <2>1. ASSUME NEW w \in Writers, InsertAndCommit(w) PROVE Verified!Next
    <3>. DEFINE entry == Entry(event[w], previous[w])
    <3>1. /\ rows \in Seq(Rows) /\ entry \in Rows /\ rows' = Append(rows, entry)
          /\ previous[w] = Tip /\ event[w] \in Events /\ w \in InFlight
      BY <2>1, DigestTypes
         DEF IInv, TypeOK, TipInv, InsertAndCommit, InFlight, Rows
    <3>2. entry.hash = Hmac(event[w], Tip)
      BY <3>1
    <3>3. rows' = Append(rows, Entry(event[w], Tip))
      BY <3>1
    <3>. HIDE DEF entry
    <3>4. /\ DOMAIN rows' = 1..(Len(rows) + 1) /\ rows'[Len(rows) + 1] = entry
          /\ DOMAIN rows = 1..Len(rows) /\ Len(rows) \in Nat
          /\ \A i \in 1..Len(rows) : rows'[i] = rows[i]
      BY <3>1, AppendProperties, LenProperties
    <3>5. issued' = issued \cup {Hmac(event[w], Tip)}
      BY <3>2, <3>4
    <3>6. Len(rows) < MaxEntries
      <4>1. Cardinality(InFlight) # 0
        BY <3>1, InFlightFinite, FS_EmptySet
      <4>. QED  BY <3>4, <4>1, InFlightFinite, BoundAssumption DEF CapacityInv
    <3>7. Verified!AppendRow(event[w])
      BY <3>3, <3>5, <3>6
         DEF Verified!AppendRow, Verified!verifyVars, Verified!Entry, Verified!TipOf,
             Verified!Hmac, Verified!Genesis, Tip, Hmac, Genesis
    <3>. QED  BY <3>1, <3>7 DEF Verified!Next, Verified!AppendRow
  <2>2. CASE \A w \in Writers : ~InsertAndCommit(w)
    <3>1. rows' = rows
      BY <2>2 DEF Next, Step, vars, Call, BeginImmediate, BeginTimeout, SelectTip,
                  Return, Abort, HandlerBegins, HandlerEnds
    <3>. QED  BY <3>1 DEF Verified!vars, Verified!tableVars, Verified!verifyVars
  <2>. QED  BY <2>1, <2>2
<1>. QED  BY <1>1, <1>2, IInvInvariant, CapacityInvariant, PTL
          DEF Spec, ImplementsAtomicAppend, Verified!Spec

-------------------------------------------------------------------------------
(* The writing handlers (AuditedOperations).                               *)

Open == {"begin", "select", "insert"}

(* The inductive invariant: a request is in the hands of one thread until  *)
(* its row is committed, and is audited afterwards; one that is not among  *)
(* the announced ones is effective all the time.                           *)
HeldInv ==
    \A w \in Writers :
        /\ pc[w] # "idle" /\ event[w] \notin Announced => event[w] \in effective
        /\ pc[w] = "return" => event[w] \in Audited
        /\ pc[w] \in Open => event[w] \notin Audited

ApartInv ==
    \A v, w \in Writers :
        v # w /\ pc[v] \in Open /\ pc[w] \in Open => event[v] # event[w]

OpInv == HeldInv /\ ApartInv /\ AnsweredIsAudited /\ AuditedHappenedOnce

-------------------------------------------------------------------------------
(* A commit adds exactly the event of the writer to what is audited. *)
LEMMA CommitAudits ==
    ASSUME TypeOK, NEW w \in Writers, InsertAndCommit(w)
    PROVE  /\ Audited' = Audited \cup {event[w]}
           /\ AuditedHappenedOnce /\ event[w] \notin Audited =>
                 \A i, j \in DOMAIN rows' :
                     rows'[i].event = rows'[j].event => i = j
<1>. DEFINE n == Len(rows)
            row == Entry(event[w], previous[w])
<1>1. /\ rows \in Seq(Rows) /\ row \in Rows /\ rows' = Append(rows, row)
  BY DigestTypes DEF TypeOK, InsertAndCommit, Rows
<1>2. row.event = event[w]
  OBVIOUS
<1>. HIDE DEF row
<1>3. /\ n \in Nat /\ DOMAIN rows = 1..n /\ DOMAIN rows' = 1..(n + 1)
      /\ rows'[n + 1] = row
      /\ \A i \in 1..n : rows'[i] = rows[i]
  BY <1>1, AppendProperties, LenProperties
<1>4. Audited' = Audited \cup {event[w]}
  BY <1>2, <1>3 DEF Audited
<1>5. ASSUME AuditedHappenedOnce, event[w] \notin Audited,
             NEW i \in DOMAIN rows', NEW j \in DOMAIN rows',
             rows'[i].event = rows'[j].event
      PROVE  i = j
  <2>1. \A k \in 1..n : rows[k].event # event[w]
    BY <1>3, <1>5 DEF Audited
  <2>. QED  BY <1>2, <1>3, <1>5, <2>1 DEF AuditedHappenedOnce
<1>. QED  BY <1>4, <1>5

(* Every step of the handlers is a step of the audit log or leaves it alone. *)
LEMMA OpStepIsLogStep == [OpNext]_opVars => [Next]_vars
BY DEF OpNext, opVars, vars, Next, Step, Finish, Answer, CarryOut, CarryOutFails,
       Operate, Announce, Continue

(* The handlers use the audit log as its specification says, so that all   *)
(* its theorems hold for them.                                             *)
THEOREM OperationsUseLog == OpSpec => Spec
<1>1. OpInit => Init
  BY DEF OpInit
<1>. QED  BY <1>1, OpStepIsLogStep, PTL DEF OpSpec, Spec

LEMMA OpInvInit == OpInit => OpInv
BY EmptySeq DEF OpInit, Init, OpInv, HeldInv, ApartInv, AnsweredIsAudited,
                AuditedHappenedOnce, Audited, Open

(* The inductive step, one case per action. *)
LEMMA OpInvStep == TypeOK /\ OpInv /\ [OpNext]_opVars => OpInv'
<1>. SUFFICES ASSUME TypeOK, OpInv, [OpNext]_opVars PROVE OpInv'
  OBVIOUS
<1>. USE DEF Open
<1>1. ASSUME NEW w \in Writers, NEW e \in Events, Operate(w, e) PROVE OpInv'
  <2>1. e \notin Audited /\ e \notin Announced /\ e \notin effective
    BY <1>1 DEF Operate, OpInv, AuditedHappenedOnce
  <2>2. Audited' = Audited
    BY <1>1 DEF Operate, Call, Audited
  <2>3. HeldInv'
    BY <1>1, <2>1, <2>2 DEF Operate, Call, TypeOK, OpInv, HeldInv
  <2>4. ApartInv'
    BY <1>1, <2>1 DEF Operate, Call, TypeOK, OpInv, HeldInv, ApartInv
  <2>5. AnsweredIsAudited' /\ AuditedHappenedOnce'
    BY <1>1, <2>1, <2>2
       DEF Operate, Call, OpInv, AnsweredIsAudited, AuditedHappenedOnce
  <2>. QED  BY <2>3, <2>4, <2>5 DEF OpInv
<1>2. ASSUME NEW w \in Writers, Answer(w) PROVE OpInv'
  <2>1. Audited' = Audited /\ event[w] \in Audited
    BY <1>2 DEF Answer, Return, Audited, OpInv, HeldInv
  <2>. QED  BY <1>2, <2>1 DEF Answer, Return, TypeOK, OpInv, HeldInv, ApartInv,
                              AnsweredIsAudited, AuditedHappenedOnce
<1>3. ASSUME NEW w \in Writers, InsertAndCommit(w), UNCHANGED <<effective, answered>>
      PROVE  OpInv'
  <2>1. pc[w] \in Open /\ pc' = [pc EXCEPT ![w] = "return"] /\ event' = event
    BY <1>3 DEF InsertAndCommit
  <2>2. /\ event[w] \notin Audited
        /\ event[w] \in effective \/ event[w] \in Announced
    BY <2>1 DEF OpInv, HeldInv
  <2>3. Audited' = Audited \cup {event[w]}
    BY <1>3, CommitAudits
  <2>4. HeldInv'
    BY <1>3, <2>1, <2>2, <2>3 DEF TypeOK, OpInv, HeldInv, ApartInv
  <2>5. ApartInv'
    BY <2>1 DEF TypeOK, OpInv, ApartInv
  <2>6. AnsweredIsAudited'
    BY <1>3, <2>3 DEF OpInv, AnsweredIsAudited
  <2>7. AuditedHappenedOnce'
    BY <1>3, <2>2, <2>3, CommitAudits DEF OpInv, AuditedHappenedOnce
  <2>. QED  BY <2>4, <2>5, <2>6, <2>7 DEF OpInv
<1>4. ASSUME NEW w \in Writers,
             BeginImmediate(w) \/ SelectTip(w) \/ BeginTimeout(w) \/ Abort(w),
             UNCHANGED <<effective, answered>>
      PROVE  OpInv'
  <2>1. /\ Audited' = Audited /\ rows' = rows /\ event' = event
        /\ \A v \in Writers : pc'[v] = pc[v] \/ pc'[v] = "idle"
                              \/ (pc[v] \in Open /\ pc'[v] \in Open)
    BY <1>4 DEF BeginImmediate, SelectTip, BeginTimeout, Abort, TypeOK, Audited
  <2>. QED  BY <1>4, <2>1 DEF OpInv, HeldInv, ApartInv, AnsweredIsAudited,
                              AuditedHappenedOnce
<1>5. ASSUME HandlerBegins \/ HandlerEnds \/ UNCHANGED vars,
             UNCHANGED <<effective, answered>>
      PROVE  OpInv'
  BY <1>5 DEF HandlerBegins, HandlerEnds, vars, OpInv, HeldInv, ApartInv,
              AnsweredIsAudited, AuditedHappenedOnce, Audited
<1>6. ASSUME NEW w \in Writers, NEW e \in Events, Announce(w, e) PROVE OpInv'
  <2>1. /\ e \notin Audited /\ Audited' = Audited /\ rows' = rows
        /\ effective' = effective /\ answered' = answered
    BY <1>6 DEF Announce, Call, Audited
  <2>2. HeldInv'
    BY <1>6, <2>1 DEF Announce, Call, TypeOK, OpInv, HeldInv
  <2>3. ApartInv'
    BY <1>6 DEF Announce, Call, TypeOK, OpInv, ApartInv
  <2>. QED  BY <2>1, <2>2, <2>3
            DEF OpInv, AnsweredIsAudited, AuditedHappenedOnce
<1>7. ASSUME NEW w \in Writers, CarryOut(w) \/ CarryOutFails(w) PROVE OpInv'
  <2>1. /\ Audited' = Audited /\ rows' = rows /\ event[w] \in Audited
        /\ event[w] \in Announced /\ effective \subseteq effective'
        /\ effective' \subseteq effective \cup {event[w]}
        /\ answered' \subseteq answered \cup {event[w]}
    BY <1>7 DEF CarryOut, CarryOutFails, Return, Audited, OpInv, HeldInv
  <2>2. HeldInv' /\ ApartInv'
    BY <1>7, <2>1
       DEF CarryOut, CarryOutFails, Return, TypeOK, OpInv, HeldInv, ApartInv
  <2>3. AuditedHappenedOnce'
    BY <2>1 DEF OpInv, AuditedHappenedOnce
  <2>. QED  BY <2>1, <2>2, <2>3 DEF OpInv, AnsweredIsAudited
<1>. QED  BY <1>1, <1>2, <1>3, <1>4, <1>5, <1>6, <1>7
          DEF OpNext, Finish, Continue, opVars

LEMMA OpInvInvariant == OpSpec => []OpInv
<1>1. OpSpec => []TypeOK
  BY OperationsUseLog, TypeCorrect
<1>. QED  BY <1>1, OpInvInit, OpInvStep, PTL DEF OpSpec

(* An operation that was answered with success is in the audit log, for    *)
(* any number of threads, requests, timeouts and failures.                 *)
THEOREM AnsweredCorrect == OpSpec => []AnsweredIsAudited
BY OpInvInvariant, PTL DEF OpInv

(* What is audited when it is done happened, what is audited first does    *)
(* not happen without its entry, and nothing is claimed twice.             *)
THEOREM AuditedOnceCorrect == OpSpec => []AuditedHappenedOnce
BY OpInvInvariant, PTL DEF OpInv

-------------------------------------------------------------------------------
(* Mailings (Notifications).                                               *)

(* The inductive invariant: a mailing is requested once, in one thread;    *)
(* what it has sent and what it has left are its subscribers.              *)
SendingInv ==
    \A w \in Writers : sending[w] # None =>
        LET m == sending[w].mailing IN
        /\ subscribers[m] # None /\ m \notin effective
        /\ delivered[m] \cup sending[w].left = subscribers[m]
        /\ \A v \in Writers :
              v # w /\ sending[v] # None => sending[v].mailing # m

DeliveredInv ==
    \A m \in Mailings :
        /\ subscribers[m] # None => delivered[m] \subseteq subscribers[m]
        /\ subscribers[m] = None => delivered[m] = {}
        /\ m \in effective => subscribers[m] # None /\ delivered[m] = subscribers[m]

MailTypes ==
    /\ sending \in [Writers -> {None} \cup [mailing : Mailings, left : SUBSET Users]]
    /\ delivered \in [Mailings -> SUBSET Users]
    /\ subscribers \in [Mailings -> {None} \cup SUBSET Users]

MailInv == MailTypes /\ SendingInv /\ DeliveredInv

-------------------------------------------------------------------------------
LEMMA MailTypesInit == NotifyInit => MailTypes
BY DEF NotifyInit, MailTypes

LEMMA MailTypesStep == MailTypes /\ [NotifyNext]_notifyVars => MailTypes'
<1>. SUFFICES ASSUME MailTypes, [NotifyNext]_notifyVars PROVE MailTypes'
  OBVIOUS
<1>. USE DEF MailTypes
<1>1. ASSUME NEW w \in Writers, NEW m \in Mailings, NEW c \in Categories,
             ReadRecipients(w, m, c)
      PROVE  MailTypes'
  BY <1>1 DEF ReadRecipients, Recipients
<1>2. ASSUME NEW w \in Writers, NEW u \in Users, SendOne(w, u) PROVE MailTypes'
  BY <1>2 DEF SendOne
<1>3. ASSUME NEW w \in Writers, SendFails(w) PROVE MailTypes'
  BY <1>3 DEF SendFails
<1>4. ASSUME NEW w \in Writers, Mailed(w) PROVE MailTypes'
  BY <1>4 DEF Mailed
<1>. QED  BY <1>1, <1>2, <1>3, <1>4 DEF NotifyNext, OrdinaryRequest, QueueRequest,
                                         mailVars, notifyVars

LEMMA MailTypesInvariant == NotifySpec => []MailTypes
BY MailTypesInit, MailTypesStep, PTL DEF NotifySpec

LEMMA NotifyStepIsOpStep == MailTypes /\ [NotifyNext]_notifyVars => [OpNext]_opVars
BY MailingsAssumption
   DEF MailTypes, NotifyNext, notifyVars, mailVars, OrdinaryRequest, QueueRequest,
       ReadRecipients, SendOne, SendFails, Mailed, OpNext

(* A mailing is an operation that is audited like every other, so that all *)
(* theorems about the audited operations hold for it.                      *)
THEOREM MailingsAreOperations == NotifySpec => OpSpec
<1>1. NotifyInit => OpInit
  BY DEF NotifyInit
<1>. QED  BY <1>1, MailTypesInvariant, NotifyStepIsOpStep, PTL DEF NotifySpec, OpSpec

(* The handler's lists of accepted levels are what the levels mean. *)
LEMMA RecipientsSubscribe ==
    ASSUME users \in [Users -> User], NEW c \in Categories
    PROVE  Recipients(c) = {u \in Users : Subscribes(u, c)}
<1>. SUFFICES ASSUME NEW u \in Users
              PROVE  users[u].level \in Accepted[c] <=> Rank[users[u].level] >= Rank[c]
  BY DEF Recipients, Subscribes
<1>1. users[u].level \in Levels
  BY DEF User
<1>. QED  BY <1>1 DEF Levels, Categories, Accepted, Rank

LEMMA UsersTyped == NotifySpec => [](users \in [Users -> User])
<1>1. NotifyInit => users \in [Users -> User]
  <2>1. \A email \in BOOLEAN : Created(email) \in User
    BY DEF Created, User, Levels
  <2>2. {Created(email) : email \in BOOLEAN} \subseteq User
    BY <2>1
  <2>. QED  BY <2>2 DEF NotifyInit
<1>2. users \in [Users -> User] /\ [NotifyNext]_notifyVars => (users \in [Users -> User])'
  <2>1. ASSUME users \in [Users -> User], NEW u \in Users, NEW email \in BOOLEAN,
               NEW level \in Levels, SetPreferences(u, email, level)
        PROVE  users' \in [Users -> User]
    BY <2>1 DEF SetPreferences, User
  <2>2. ASSUME users \in [Users -> User], NEW u \in Users, NEW email \in BOOLEAN,
               NEW active \in BOOLEAN, UpdateUser(u, email, active)
        PROVE  users' \in [Users -> User]
    BY <2>2 DEF UpdateUser, User
  <2>. QED  BY <2>1, <2>2 DEF NotifyNext, notifyVars, OrdinaryRequest, QueueRequest, mailVars,
               ReadRecipients, SendOne, SendFails, Mailed
<1>. QED  BY <1>1, <1>2, PTL DEF NotifySpec

LEMMA MailInvInit == NotifyInit => MailInv
BY MailTypesInit DEF NotifyInit, OpInit, MailInv, SendingInv, DeliveredInv

LEMMA MailInvStep ==
    users \in [Users -> User] /\ MailInv /\ [NotifyNext]_notifyVars => MailInv'
<1>. SUFFICES ASSUME users \in [Users -> User], MailInv, [NotifyNext]_notifyVars
              PROVE  SendingInv' /\ DeliveredInv'
  BY MailTypesStep DEF MailInv
<1>. USE DEF MailInv, MailTypes, SendingInv, DeliveredInv
<1>1. ASSUME NEW w \in Writers, NEW e \in Events, OrdinaryRequest(w, e)
      PROVE  SendingInv' /\ DeliveredInv'
  BY <1>1 DEF OrdinaryRequest, Operate, mailVars
<1>2. ASSUME NEW w \in Writers, NEW m \in Mailings, NEW c \in Categories,
             ReadRecipients(w, m, c)
      PROVE  SendingInv' /\ DeliveredInv'
  <2>1. /\ m \in Mailings /\ subscribers[m] = None /\ delivered[m] = {}
        /\ m \notin effective
        /\ \A v \in Writers : sending[v] # None => sending[v].mailing # m
    BY <1>2 DEF ReadRecipients
  <2>2. PICK to \in SUBSET Users :
            /\ sending' = [sending EXCEPT ![w] = [mailing |-> m, left |-> to]]
            /\ subscribers' = [subscribers EXCEPT ![m] = to]
            /\ UNCHANGED <<effective, delivered>>
    <3>1. Recipients(c) \in SUBSET Users
      BY DEF Recipients
    <3>2. Recipients(c) = {u \in Users : Subscribes(u, c)}
      BY RecipientsSubscribe
    <3>. QED  BY <1>2, <3>1, <3>2 DEF ReadRecipients, opVars
  <2>3. sending'[w].mailing = m /\ sending'[w].left = to
        /\ \A v \in Writers : v # w => sending'[v] = sending[v]
    BY <2>2
  <2>4. subscribers'[m] = to /\ to # None
        /\ \A k \in Mailings : k # m => subscribers'[k] = subscribers[k]
    BY <2>1, <2>2, NoneAssumption
  <2>5. SendingInv'
    BY <2>1, <2>2, <2>3, <2>4
  <2>. QED  BY <2>1, <2>2, <2>4, <2>5
<1>3. ASSUME NEW w \in Writers, NEW u \in Users, SendOne(w, u)
      PROVE  SendingInv' /\ DeliveredInv'
  <2>. DEFINE m == sending[w].mailing
              left == sending[w].left
  <2>1. /\ m \in Mailings /\ subscribers[m] # None /\ m \notin effective
        /\ delivered[m] \cup left = subscribers[m] /\ u \in left
        /\ \A v \in Writers : v # w /\ sending[v] # None => sending[v].mailing # m
    BY <1>3 DEF SendOne
  <2>2. /\ delivered' = [delivered EXCEPT ![m] = delivered[m] \cup {u}]
        /\ sending' = [sending EXCEPT ![w] = [mailing |-> m, left |-> left \ {u}]]
        /\ UNCHANGED <<effective, subscribers>>
    BY <1>3 DEF SendOne, opVars
  <2>. HIDE DEF m, left
  <2>3. SendingInv'
    <3>1. sending'[w].mailing = m /\ sending'[w].left = left \ {u}
      BY <2>2
    <3>2. \A v \in Writers : v # w => sending'[v] = sending[v]
      BY <2>2
    <3>3. delivered'[m] = delivered[m] \cup {u}
          /\ \A k \in Mailings : k # m => delivered'[k] = delivered[k]
      BY <2>1, <2>2
    <3>. QED  BY <2>1, <2>2, <3>1, <3>2, <3>3
  <2>. QED  BY <2>1, <2>2, <2>3
<1>4. ASSUME NEW w \in Writers, SendFails(w)
      PROVE  SendingInv' /\ DeliveredInv'
  <2>. DEFINE m == sending[w].mailing
  <2>1. PICK taken \in SUBSET sending[w].left :
            delivered' = [delivered EXCEPT ![m] = delivered[m] \cup taken]
    BY <1>4 DEF SendFails
  <2>2. /\ m \in Mailings /\ subscribers[m] # None /\ m \notin effective
        /\ delivered[m] \cup taken \subseteq subscribers[m]
        /\ \A v \in Writers : v # w /\ sending[v] # None => sending[v].mailing # m
    BY <1>4 DEF SendFails
  <2>3. sending' = [sending EXCEPT ![w] = None] /\ UNCHANGED <<effective, subscribers>>
    BY <1>4 DEF SendFails, opVars
  <2>. HIDE DEF m
  <2>4. \A k \in Mailings : k # m => delivered'[k] = delivered[k]
    BY <2>1
  <2>5. SendingInv'
    BY <2>2, <2>3, <2>4
  <2>. QED  BY <2>1, <2>2, <2>3, <2>5
<1>5. ASSUME NEW w \in Writers, Mailed(w)
      PROVE  SendingInv' /\ DeliveredInv'
  BY <1>5 DEF Mailed, Operate
<1>6. ASSUME effective' = effective, UNCHANGED mailVars
      PROVE  SendingInv' /\ DeliveredInv'
  BY <1>6 DEF mailVars
<1>7. ASSUME NEW w \in Writers, CarryOut(w), UNCHANGED mailVars
      PROVE  SendingInv' /\ DeliveredInv'
  <2>1. \A m \in Mailings : m \in effective' <=> m \in effective
    BY <1>7, AnnouncedAssumption DEF CarryOut
  <2>. QED  BY <1>7, <2>1 DEF mailVars
<1>. QED  BY <1>1, <1>2, <1>3, <1>4, <1>5, <1>6, <1>7
          DEF NotifyNext, notifyVars, opVars, Finish, Answer, CarryOutFails,
              Continue, QueueRequest, Announce

LEMMA MailInvInvariant == NotifySpec => []MailInv
BY UsersTyped, MailInvInit, MailInvStep, PTL DEF NotifySpec

(* Every audited mailing reached the users who had subscribed when it was  *)
(* requested, and no mail went to anybody else, for any number of them.    *)
THEOREM DeliveredCorrect == NotifySpec => []AuditedIsDelivered
<1>1. MailInv /\ AuditedHappenedOnce => AuditedIsDelivered
  BY AnnouncedAssumption
     DEF MailInv, DeliveredInv, AuditedHappenedOnce, AuditedIsDelivered
<1>2. NotifySpec => []AuditedHappenedOnce
  BY MailingsAreOperations, AuditedOnceCorrect
<1>. QED  BY <1>1, <1>2, MailInvInvariant, PTL

(* Every variable keeps its type. *)
THEOREM NotifyTypeCorrect == NotifySpec => []NotifyTypeOK
<1>1. NotifySpec => []TypeOK
  BY MailingsAreOperations, OperationsUseLog, TypeCorrect
<1>2. TypeOK /\ users \in [Users -> User] /\ MailTypes => NotifyTypeOK
  BY DEF MailTypes, NotifyTypeOK
<1>. QED  BY <1>1, <1>2, UsersTyped, MailTypesInvariant, PTL
===============================================================================
