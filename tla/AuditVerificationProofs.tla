------------------------ MODULE AuditVerificationProofs ------------------------
(***************************************************************************)
(* Proofs about AuditVerification for every set of events and every bound: *)
(* what verify calls valid the program wrote, a log nobody touched is      *)
(* valid, and the row it names is the first broken one.                    *)
(***************************************************************************)
EXTENDS AuditVerification, SequenceTheorems, TLAPS

(* A row whose digest the program issued, or one that is worthless.        *)
KnownRow == [event : Events, previous : AnyDigest, hash : Known]

(* The inductive invariant.  No digest appears in the table that is not    *)
(* known; what the loop has passed is a history, and `expected` its        *)
(* digest; and without an outside change every row continues the history   *)
(* of the rows before it.                                                  *)
RowsInv == rows \in Seq(KnownRow) /\ snapshot \in Seq(KnownRow)

PassedInv ==
    /\ \A i \in 1..(row - 1) : snapshot[i].hash = History(snapshot, i)
    /\ expected = History(snapshot, row - 1)

VerdictInv ==
    /\ vpc # "done" => verdict = TRUE
    /\ Reported(TRUE) => row = Len(snapshot) + 1
    /\ Reported(FALSE) => row \in DOMAIN snapshot /\ ~Intact(snapshot[row], expected)

Genuine(table) ==
    \A i \in DOMAIN table :
        /\ table[i].previous = History(table, i - 1)
        /\ table[i].hash = History(table, i)

UntouchedInv == tampers = 0 => Genuine(rows) /\ Genuine(snapshot)

IInv == TypeOK /\ RowsInv /\ PassedInv /\ VerdictInv /\ UntouchedInv

-------------------------------------------------------------------------------
(* One more event after a history is the history that is one row longer.   *)
LEMMA HistoryGrows ==
    ASSUME NEW table, NEW n \in Nat, \A i \in 1..(n + 1) : table[i].event \in Events
    PROVE  /\ History(table, n) \in Seq(Events)
           /\ Hmac(table[n + 1].event, History(table, n)) = History(table, n + 1)
<1>1. \A i \in 1..n : i \in 1..(n + 1)
  OBVIOUS
<1>2. n + 1 \in 1..(n + 1)
  OBVIOUS
<1>. DEFINE h == History(table, n)
            e == table[n + 1].event
<1>3. h \in Seq(Events) /\ Len(h) = n /\ \A i \in 1..n : h[i] = table[i].event
  <2>1. \A i \in 1..n : table[i].event \in Events
    BY <1>1
  <2>2. h \in Seq(Events)
    BY <2>1, IsASeq DEF History
  <2>. QED  BY <2>2, LenProperties DEF History
<1>4. e \in Events
  BY <1>2
<1>5. Hmac(e, h) = History(table, n + 1)
  <2>. HIDE DEF h, e
  <2>1. /\ Append(h, e) \in Seq(Events) /\ Len(Append(h, e)) = n + 1
        /\ Append(h, e)[n + 1] = e
        /\ \A i \in 1..n : Append(h, e)[i] = h[i]
    BY <1>3, <1>4, AppendProperties
  <2>2. Append(h, e) = [i \in 1..(n + 1) |-> Append(h, e)[i]]
    BY <2>1, LenProperties
  <2>3. \A i \in 1..(n + 1) : Append(h, e)[i] = table[i].event
    BY <1>2, <1>3, <2>1 DEF e
  <2>. QED  BY <2>2, <2>3 DEF Hmac, History
<1>. QED  BY <1>3, <1>5

LEMMA EmptyHistory == \A table : History(table, 0) = Genesis
<1>. SUFFICES ASSUME NEW table PROVE History(table, 0) = Genesis
  OBVIOUS
<1>1. 1..0 = {}
  OBVIOUS
<1>2. History(table, 0) \in [1..0 -> {}]
  BY <1>1 DEF History
<1>3. History(table, 0) \in Seq({})
  BY <1>2, SeqDef
<1>. QED  BY <1>2, <1>3, EmptySeq, LenProperties, SeqEqual DEF Genesis, History

(* Known digests are digests, and so is what an append adds to them.       *)
LEMMA KnownDigests ==
    ASSUME TypeOK
    PROVE  /\ Known \subseteq AnyDigest
           /\ \A e \in Events, d \in AnyDigest : Hmac(e, d) \in AnyDigest
<1>1. Genesis \in AnyDigest
  BY EmptySeq DEF Genesis, AnyDigest
<1>2. <<Forged>> \in AnyDigest
  BY DEF AnyDigest
<1>3. \A e \in Events, d \in AnyDigest : Hmac(e, d) \in AnyDigest
  BY AppendProperties DEF Hmac, AnyDigest
<1>. QED  BY <1>1, <1>2, <1>3 DEF Known, TypeOK

(* A table of known rows is a table, and stays one when more is known.     *)
LEMMA KnownRows ==
    ASSUME TypeOK, NEW table \in Seq(KnownRow)
    PROVE  /\ table \in Seq([event : Events, previous : AnyDigest, hash : AnyDigest])
           /\ Known \subseteq Known' => table \in Seq(KnownRow')
<1>1. KnownRow \subseteq [event : Events, previous : AnyDigest, hash : AnyDigest]
  BY KnownDigests DEF KnownRow
<1>2. Known \subseteq Known' => KnownRow \subseteq KnownRow'
  BY DEF KnownRow, AnyDigest
<1>. QED  BY <1>1, <1>2, SeqMonotonic

(* The tip of a table of known rows is known.                              *)
LEMMA TipIsKnown == ASSUME RowsInv PROVE TipOf(rows) \in Known
<1>1. CASE rows = <<>>
  BY <1>1 DEF TipOf, Known
<1>2. CASE rows # <<>>
  <2>1. Len(rows) \in 1..Len(rows)
    BY <1>2, EmptySeq DEF RowsInv
  <2>2. rows[Len(rows)] \in KnownRow
    BY <2>1, ElementOfSeq DEF RowsInv
  <2>. QED  BY <1>2, <2>2 DEF TipOf, KnownRow
<1>. QED  BY <1>1, <1>2

(* ... and the digest of all its rows, if they are a history.              *)
LEMMA TipIsHistory ==
    ASSUME RowsInv, Genuine(rows)
    PROVE  TipOf(rows) = History(rows, Len(rows))
<1>1. CASE rows = <<>>
  BY <1>1, EmptySeq, EmptyHistory DEF TipOf
<1>2. CASE rows # <<>>
  <2>1. Len(rows) \in DOMAIN rows
    BY <1>2, EmptySeq, LenProperties DEF RowsInv
  <2>. QED  BY <1>2, <2>1 DEF TipOf, Genuine
<1>. QED  BY <1>1, <1>2

-------------------------------------------------------------------------------
(* An append to a history is a history.                                    *)
LEMMA AppendStep ==
    ASSUME TypeOK, RowsInv, NEW e \in Events, AppendRow(e)
    PROVE  /\ TypeOK' /\ RowsInv'
           /\ Genuine(rows) => Genuine(rows)'
<1>. DEFINE entry == Entry(e, TipOf(rows))
            n == Len(rows)
<1>1. TipOf(rows) \in Known /\ TipOf(rows) \in AnyDigest
  BY TipIsKnown, KnownDigests
<1>2. Hmac(e, TipOf(rows)) \in AnyDigest
  BY <1>1, KnownDigests
<1>3. Known \subseteq Known' /\ Hmac(e, TipOf(rows)) \in Known'
  BY DEF AppendRow, Known, Genesis
<1>4. entry \in KnownRow'
  BY <1>1, <1>2, <1>3 DEF Entry, KnownRow, AnyDigest
<1>5. rows \in Seq(KnownRow') /\ snapshot \in Seq(KnownRow')
  BY <1>3, KnownRows DEF RowsInv
<1>6. rows' = Append(rows, entry) /\ snapshot' = snapshot
  BY DEF AppendRow, verifyVars
<1>. HIDE DEF entry
<1>7. /\ rows' \in Seq(KnownRow') /\ n \in Nat
      /\ DOMAIN rows = 1..n /\ DOMAIN rows' = 1..(n + 1)
      /\ rows'[n + 1] = entry /\ \A i \in 1..n : rows'[i] = rows[i]
  BY <1>4, <1>5, <1>6, AppendProperties, LenProperties
<1>8. RowsInv'
  BY <1>5, <1>6, <1>7 DEF RowsInv
<1>9. TypeOK'
  <2>1. entry \in [event : Events, previous : AnyDigest, hash : AnyDigest]
    BY <1>1, <1>2 DEF entry, Entry
  <2>2. rows' \in Seq([event : Events, previous : AnyDigest, hash : AnyDigest])
    BY <1>6, <2>1, AppendProperties DEF TypeOK
  <2>. QED  BY <1>2, <2>2 DEF AppendRow, verifyVars, TypeOK, AnyDigest
<1>10. ASSUME Genuine(rows) PROVE Genuine(rows)'
  <2>1. \A k \in 0..n : History(rows', k) = History(rows, k)
    BY <1>7 DEF History
  <2>2. \A i \in 1..n : i - 1 \in 0..n /\ i \in 0..n
    BY <1>7
  <2>3. \A i \in 1..n : /\ rows'[i].previous = History(rows', i - 1)
                        /\ rows'[i].hash = History(rows', i)
    BY <1>7, <1>10, <2>1, <2>2 DEF Genuine
  <2>4. entry.event = e /\ entry.previous = TipOf(rows) /\ entry.hash = Hmac(e, TipOf(rows))
    BY DEF entry, Entry
  <2>5. TipOf(rows) = History(rows', n)
    BY <1>7, <1>10, <2>1, TipIsHistory
  <2>6. entry.hash = History(rows', n + 1)
    <3>1. \A i \in 1..(n + 1) : rows'[i].event \in Events
      <4>1. \A i \in 1..(n + 1) : rows'[i] \in KnownRow'
        BY <1>7
      <4>. QED  BY <4>1 DEF KnownRow
    <3>2. Hmac(rows'[n + 1].event, History(rows', n)) = History(rows', n + 1)
      BY <1>7, <3>1, HistoryGrows
    <3>. QED  BY <1>7, <2>4, <2>5, <3>2
  <2>7. \A i \in 1..(n + 1) : /\ rows'[i].previous = History(rows', i - 1)
                              /\ rows'[i].hash = History(rows', i)
    <3>. TAKE i \in 1..(n + 1)
    <3>1. CASE i = n + 1
      BY <1>7, <2>4, <2>5, <2>6, <3>1
    <3>2. CASE i # n + 1
      BY <1>7, <2>3, <3>2
    <3>. QED  BY <3>1, <3>2
  <2>. QED  BY <1>7, <2>7 DEF Genuine, History
<1>. QED  BY <1>8, <1>9, <1>10

(* Whatever is done to the table from outside, its rows stay known.        *)
LEMMA TamperStep ==
    ASSUME TypeOK, RowsInv, NEW i \in DOMAIN rows, Tamper(i)
    PROVE  TypeOK' /\ RowsInv' /\ tampers' # 0
<1>1. /\ rows \in Seq(KnownRow) /\ Len(rows) \in Nat /\ i \in 1..Len(rows)
      /\ \A j \in 1..Len(rows) : rows[j] \in KnownRow
  BY ElementOfSeq, LenProperties DEF RowsInv
<1>2. rows' \in Seq(KnownRow)
  <2>1. ASSUME Delete(i) PROVE rows' \in Seq(KnownRow)
    <3>1. /\ i - 1 \in Int /\ i + 1 \in Int /\ Len(rows) \in Int
          /\ \A j \in 1..(i - 1) : rows[j] \in KnownRow
          /\ \A j \in (i + 1)..Len(rows) : rows[j] \in KnownRow
      BY <1>1
    <3>2. /\ SubSeq(rows, 1, i - 1) \in Seq(KnownRow)
          /\ SubSeq(rows, i + 1, Len(rows)) \in Seq(KnownRow)
      BY <3>1, SubSeqProperties
    <3>. QED  BY <2>1, <3>2, ConcatProperties DEF Delete
  <2>2. ASSUME NEW e \in Events, Alter(i, [rows[i] EXCEPT !.event = e])
        PROVE  rows' \in Seq(KnownRow)
    <3>1. [rows[i] EXCEPT !.event = e] \in KnownRow
      BY <1>1 DEF KnownRow
    <3>. QED  BY <1>1, <2>2, <3>1, ExceptSeq DEF Alter
  <2>3. ASSUME NEW p \in Known, NEW h \in Known,
               Alter(i, [rows[i] EXCEPT !.previous = p, !.hash = h])
        PROVE  rows' \in Seq(KnownRow)
    <3>1. [rows[i] EXCEPT !.previous = p, !.hash = h] \in KnownRow
      BY <1>1, KnownDigests DEF KnownRow
    <3>. QED  BY <1>1, <2>3, <3>1, ExceptSeq DEF Alter
  <2>. QED  BY <2>1, <2>2, <2>3 DEF Tamper
<1>3. /\ issued' = issued /\ UNCHANGED verifyVars
      /\ tampers < MaxTampers /\ tampers' = tampers + 1
  BY DEF Tamper, Delete, Alter
<1>4. KnownRow' = KnownRow
  BY <1>3 DEF KnownRow, Known, AnyDigest, Genesis
<1>5. rows' \in Seq([event : Events, previous : AnyDigest, hash : AnyDigest])
  BY <1>2, KnownRows
<1>6. tampers' \in 0..MaxTampers /\ tampers' # 0
  BY <1>3, TamperBoundAssumption DEF TypeOK
<1>7. TypeOK'
  BY <1>3, <1>5, <1>6 DEF TypeOK, verifyVars, AnyDigest
<1>8. RowsInv'
  BY <1>2, <1>3, <1>4 DEF RowsInv, verifyVars
<1>. QED  BY <1>6, <1>7, <1>8

(* One row passed: one more row of the history.                            *)
LEMMA CheckStep ==
    ASSUME TypeOK, RowsInv, PassedInv, CheckRow
    PROVE  TypeOK' /\ PassedInv'
<1>1. /\ row \in Nat \ {0} /\ row <= Len(snapshot) /\ Len(snapshot) \in Nat
      /\ row' = row + 1 /\ snapshot' = snapshot /\ expected' = snapshot[row].hash
  BY LenProperties DEF CheckRow, TypeOK, RowsInv
<1>2. \A i \in 1..row : snapshot[i] \in KnownRow
  BY <1>1, ElementOfSeq DEF RowsInv
<1>3. snapshot[row].hash = Hmac(snapshot[row].event, expected)
  BY DEF CheckRow, Intact
<1>4. snapshot[row].hash = History(snapshot, row)
  <2>1. \A i \in 1..((row - 1) + 1) : snapshot[i].event \in Events
    BY <1>1, <1>2 DEF KnownRow
  <2>2. row - 1 \in Nat /\ (row - 1) + 1 = row
    BY <1>1
  <2>3. Hmac(snapshot[row].event, History(snapshot, row - 1)) = History(snapshot, row)
    BY <2>1, <2>2, HistoryGrows
  <2>. QED  BY <1>3, <2>3 DEF PassedInv
<1>5. snapshot[row].hash \in AnyDigest
  BY <1>1, <1>2, KnownDigests DEF KnownRow
<1>6. PassedInv'
  BY <1>1, <1>4 DEF PassedInv, History
<1>7. row' \in 1..(Len(snapshot') + 1)
  BY <1>1
<1>. QED  BY <1>1, <1>5, <1>6, <1>7 DEF CheckRow, tableVars, TypeOK, AnyDigest

-------------------------------------------------------------------------------
LEMMA IInvInit == Init => IInv
<1>. SUFFICES ASSUME Init PROVE IInv
  OBVIOUS
<1>1. \A S : <<>> \in Seq(S)
  BY EmptySeq
<1>2. Len(snapshot) = 0 /\ DOMAIN snapshot = {} /\ DOMAIN rows = {}
  BY EmptySeq, LenProperties DEF Init
<1>3. TypeOK
  BY <1>1, <1>2, TamperBoundAssumption DEF Init, TypeOK, AnyDigest, Genesis
<1>4. RowsInv
  BY <1>1 DEF Init, RowsInv
<1>5. PassedInv
  BY EmptyHistory DEF Init, PassedInv
<1>6. VerdictInv
  BY DEF Init, VerdictInv, Reported
<1>7. UntouchedInv
  BY <1>2 DEF UntouchedInv, Genuine
<1>. QED  BY <1>3, <1>4, <1>5, <1>6, <1>7 DEF IInv

(* The inductive step, one case per action. *)
LEMMA IInvStep == IInv /\ [Next]_vars => IInv'
<1>. SUFFICES ASSUME IInv, [Next]_vars PROVE IInv'
  OBVIOUS
<1>. USE DEF IInv
<1>1. ASSUME NEW e \in Events, AppendRow(e) PROVE IInv'
  <2>1. PassedInv' /\ VerdictInv'
    BY <1>1 DEF AppendRow, verifyVars, PassedInv, VerdictInv, Reported, History, Intact, Hmac
  <2>2. UntouchedInv'
    <3>1. tampers' = tampers /\ snapshot' = snapshot
      BY <1>1 DEF AppendRow, verifyVars
    <3>2. Genuine(snapshot)' = Genuine(snapshot)
      BY <3>1 DEF Genuine, History
    <3>. QED  BY <1>1, <3>1, <3>2, AppendStep DEF UntouchedInv
  <2>. QED  BY <1>1, <2>1, <2>2, AppendStep
<1>2. ASSUME NEW i \in DOMAIN rows, Tamper(i) PROVE IInv'
  <2>1. UNCHANGED verifyVars
    BY <1>2 DEF Tamper, Delete, Alter
  <2>2. PassedInv' /\ VerdictInv'
    BY <2>1 DEF verifyVars, PassedInv, VerdictInv, Reported, History, Intact, Hmac
  <2>3. TypeOK' /\ RowsInv' /\ tampers' # 0
    BY <1>2, TamperStep
  <2>. QED  BY <2>2, <2>3 DEF UntouchedInv
<1>3. CASE Fetch
  <2>1. /\ snapshot' = rows /\ expected' = Genesis /\ row' = 1
        /\ verdict' = TRUE /\ vpc' = "checking" /\ UNCHANGED tableVars
    BY <1>3 DEF Fetch
  <2>2. row' \in 1..(Len(snapshot') + 1)
    BY <2>1, LenProperties DEF RowsInv
  <2>3. Genesis \in AnyDigest
    BY EmptySeq DEF Genesis, AnyDigest
  <2>4. TypeOK'
    BY <2>1, <2>2, <2>3 DEF tableVars, TypeOK, AnyDigest, Genesis
  <2>5. RowsInv'
    BY <2>1 DEF tableVars, RowsInv, KnownRow, Known, AnyDigest, Genesis
  <2>6. PassedInv'
    <3>1. 1..(row' - 1) = {} /\ row' - 1 = 0
      BY <2>1
    <3>2. History(snapshot', 0) = Genesis
      BY EmptyHistory
    <3>. QED  BY <2>1, <3>1, <3>2 DEF PassedInv, History
  <2>7. VerdictInv'
    BY <2>1 DEF VerdictInv, Reported
  <2>8. UntouchedInv'
    BY <2>1 DEF tableVars, UntouchedInv, Genuine, History
  <2>. QED  BY <2>4, <2>5, <2>6, <2>7, <2>8
<1>4. CASE CheckRow
  <2>1. UNCHANGED <<tableVars, vpc, snapshot, verdict>> /\ vpc = "checking"
    BY <1>4 DEF CheckRow
  <2>2. RowsInv' /\ UntouchedInv'
    BY <2>1 DEF tableVars, RowsInv, KnownRow, Known, AnyDigest, Genesis,
                UntouchedInv, Genuine, History
  <2>3. VerdictInv'
    BY <2>1 DEF VerdictInv, Reported
  <2>. QED  BY <1>4, <2>2, <2>3, CheckStep
<1>5. CASE ReportBroken
  <2>1. /\ UNCHANGED <<tableVars, snapshot, row, expected>>
        /\ verdict' = FALSE /\ vpc' = "done"
        /\ row <= Len(snapshot) /\ ~Intact(snapshot[row], expected)
    BY <1>5 DEF ReportBroken
  <2>2. row \in DOMAIN snapshot
    BY <2>1, LenProperties DEF RowsInv, TypeOK
  <2>3. VerdictInv'
    BY <2>1, <2>2 DEF VerdictInv, Reported, Intact, Hmac
  <2>4. RowsInv' /\ UntouchedInv' /\ PassedInv'
    BY <2>1 DEF tableVars, RowsInv, KnownRow, Known, AnyDigest, Genesis,
                UntouchedInv, Genuine, History, PassedInv
  <2>5. TypeOK'
    BY <2>1 DEF tableVars, TypeOK, AnyDigest
  <2>. QED  BY <2>3, <2>4, <2>5
<1>6. CASE ReportValid
  <2>1. /\ UNCHANGED <<tableVars, snapshot, row, expected, verdict>>
        /\ vpc = "checking" /\ vpc' = "done" /\ row > Len(snapshot)
    BY <1>6 DEF ReportValid
  <2>2. row = Len(snapshot) + 1
    BY <2>1, LenProperties DEF RowsInv, TypeOK
  <2>3. VerdictInv'
    BY <2>1, <2>2 DEF VerdictInv, Reported
  <2>4. RowsInv' /\ UntouchedInv' /\ PassedInv'
    BY <2>1 DEF tableVars, RowsInv, KnownRow, Known, AnyDigest, Genesis,
                UntouchedInv, Genuine, History, PassedInv
  <2>5. TypeOK'
    BY <2>1 DEF tableVars, TypeOK, AnyDigest
  <2>. QED  BY <2>3, <2>4, <2>5
<1>7. CASE UNCHANGED vars
  <2>1. VerdictInv' /\ PassedInv'
    BY <1>7 DEF vars, verifyVars, VerdictInv, Reported, Intact, Hmac, PassedInv, History
  <2>2. RowsInv' /\ UntouchedInv'
    BY <1>7 DEF vars, tableVars, verifyVars, RowsInv, KnownRow, Known, AnyDigest,
                Genesis, UntouchedInv, Genuine, History
  <2>3. TypeOK'
    BY <1>7 DEF vars, tableVars, verifyVars, TypeOK, AnyDigest
  <2>. QED  BY <2>1, <2>2, <2>3
<1>8. CASE RaiseAtBroken
  <2>1. /\ UNCHANGED <<tableVars, snapshot, row, expected, verdict>>
        /\ vpc = "checking" /\ vpc' = "idle"
    BY <1>8 DEF RaiseAtBroken
  <2>2. VerdictInv'
    BY <2>1 DEF VerdictInv, Reported
  <2>3. RowsInv' /\ UntouchedInv' /\ PassedInv'
    BY <2>1 DEF tableVars, RowsInv, KnownRow, Known, AnyDigest, Genesis,
                UntouchedInv, Genuine, History, PassedInv
  <2>4. TypeOK'
    BY <2>1 DEF tableVars, TypeOK, AnyDigest
  <2>. QED  BY <2>2, <2>3, <2>4
<1>. QED  BY <1>1, <1>2, <1>3, <1>4, <1>5, <1>6, <1>7, <1>8 DEF Next

LEMMA IInvInvariant == Spec => []IInv
BY IInvInit, IInvStep, PTL DEF Spec

-------------------------------------------------------------------------------
(* Every variable keeps its type, whatever is appended, altered or deleted *)
(* and wherever verify is.                                                 *)
THEOREM TypeCorrect == Spec => []TypeOK
BY IInvInvariant, PTL DEF IInv

(* What verify calls valid ends in a digest the program issued for exactly *)
(* the events of these rows, for any number of outside changes.            *)
THEOREM ValidCorrect == Spec => []ValidMeansWritten
<1>1. IInv => ValidMeansWritten
  <2>. SUFFICES ASSUME IInv, Reported(TRUE), snapshot # <<>>
                PROVE  /\ snapshot[Len(snapshot)].hash \in issued
                       /\ snapshot[Len(snapshot)].hash = History(snapshot, Len(snapshot))
    BY DEF ValidMeansWritten
  <2>. DEFINE n == Len(snapshot)
              last == snapshot[n].hash
  <2>1. n \in Nat /\ n \in 1..n /\ 1 \in 1..n /\ snapshot \in Seq(KnownRow)
    BY EmptySeq DEF IInv, RowsInv
  <2>2. snapshot[n] \in KnownRow /\ snapshot[1] \in KnownRow
    BY <2>1, ElementOfSeq
  <2>3. row - 1 = n
    BY <2>1 DEF IInv, VerdictInv
  <2>4. last = History(snapshot, n)
    BY <2>1, <2>3 DEF IInv, PassedInv
  <2>5. last[1] \in Events /\ DOMAIN last = 1..n
    BY <2>1, <2>2, <2>4 DEF History, KnownRow
  <2>6. last # Genesis
    BY <2>1, <2>5, EmptySeq DEF Genesis
  <2>7. last # <<Forged>>
    BY <2>5, ForgedAssumption
  <2>8. last \in Known
    BY <2>2 DEF KnownRow
  <2>. QED  BY <2>4, <2>6, <2>7, <2>8 DEF Known
<1>. QED  BY <1>1, IInvInvariant, PTL

(* Appends alone, however they fall between the steps of verify, never     *)
(* make it report a broken chain.                                          *)
THEOREM UntouchedCorrect == Spec => []UntouchedIsValid
<1>1. IInv => UntouchedIsValid
  <2>. SUFFICES ASSUME IInv, tampers = 0, Reported(FALSE) PROVE FALSE
    BY DEF UntouchedIsValid
  <2>1. /\ row \in DOMAIN snapshot /\ ~Intact(snapshot[row], expected)
        /\ Genuine(snapshot) /\ expected = History(snapshot, row - 1)
    BY DEF IInv, VerdictInv, UntouchedInv, PassedInv
  <2>2. row - 1 \in Nat /\ (row - 1) + 1 = row /\ row \in 1..Len(snapshot)
        /\ Len(snapshot) \in Nat
    BY <2>1, LenProperties DEF IInv, RowsInv
  <2>3. \A i \in 1..((row - 1) + 1) : snapshot[i].event \in Events
    <3>1. \A i \in 1..Len(snapshot) : snapshot[i] \in KnownRow
      BY ElementOfSeq DEF IInv, RowsInv
    <3>. QED  BY <2>2, <3>1 DEF KnownRow
  <2>4. Hmac(snapshot[row].event, History(snapshot, row - 1)) = History(snapshot, row)
    BY <2>2, <2>3, HistoryGrows
  <2>5. snapshot[row].previous = expected /\ snapshot[row].hash = History(snapshot, row)
    BY <2>1 DEF Genuine
  <2>. QED  BY <2>1, <2>4, <2>5 DEF Intact
<1>. QED  BY <1>1, IInvInvariant, PTL

(* The row named is the first at which the chain is broken.                *)
THEOREM BrokenRowCorrect == Spec => []BrokenRowIsFirst
<1>1. IInv => BrokenRowIsFirst
  <2>. SUFFICES ASSUME IInv, Reported(FALSE),
                       snapshot[row].hash = History(snapshot, row),
                       snapshot[row].previous = History(snapshot, row - 1)
                PROVE  FALSE
    BY DEF BrokenRowIsFirst, IInv, VerdictInv, PassedInv
  <2>1. /\ row \in DOMAIN snapshot /\ ~Intact(snapshot[row], expected)
        /\ expected = History(snapshot, row - 1)
    BY DEF IInv, VerdictInv, PassedInv
  <2>2. row - 1 \in Nat /\ (row - 1) + 1 = row /\ row \in 1..Len(snapshot)
        /\ Len(snapshot) \in Nat
    BY <2>1, LenProperties DEF IInv, RowsInv
  <2>3. \A i \in 1..((row - 1) + 1) : snapshot[i].event \in Events
    <3>1. \A i \in 1..Len(snapshot) : snapshot[i] \in KnownRow
      BY ElementOfSeq DEF IInv, RowsInv
    <3>. QED  BY <2>2, <3>1 DEF KnownRow
  <2>4. Hmac(snapshot[row].event, History(snapshot, row - 1)) = History(snapshot, row)
    BY <2>2, <2>3, HistoryGrows
  <2>. QED  BY <2>1, <2>4 DEF Intact
<1>. QED  BY <1>1, IInvInvariant, PTL
===============================================================================
