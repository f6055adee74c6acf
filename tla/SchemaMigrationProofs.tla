------------------------- MODULE SchemaMigrationProofs -------------------------
(***************************************************************************)
(* Proofs about password changes and migrations of the schema, for any     *)
(* requests, passwords, history limit and migrators.  The rows of the      *)
(* history, read from the newest, are the passwords before the current     *)
(* one: that is why looking at the limit's number of rows and at the       *)
(* current password covers the last passwords, and why pruning to the      *)
(* limit loses none that is still needed.                                  *)
(***************************************************************************)
EXTENDS SchemaMigration, SequenceTheorems, TLAPS

AccountInv ==
    /\ Len(past) > 0 /\ current = past[Len(past)]
    /\ \A r \in Requests : seen[r] \in ToSet(past)
    /\ HistoryIsGenuine

(* The row that is j-th from the newest is the password j before this one. *)
Aligned ==
    /\ Len(history) >= HistoryLimit \/ Len(history) >= Len(past) - 1
    /\ \A j \in 1..Len(history) : j < Len(past) =>
          history[Len(history) + 1 - j] = past[Len(past) - j]

AloneInv ==
    ~overlapped =>
        /\ Aligned
        /\ \A r, q \in UnderWay : r = q
        /\ \A r \in UnderWay : seen[r] = current
        /\ \A r \in Requests : pc[r] = "write" => new[r] \notin Blocked(r)

HistoryInv == TypeOK /\ AccountInv /\ AloneInv

(* Which columns a migrator may rely on. *)
Progress(m) ==
    /\ at[m] = "users" => found[m] \subseteq columns
    /\ at[m] \in {"fill", "filled", "targets"} => UserColumns \subseteq columns
    /\ at[m] = "targets" =>
          found[m] \subseteq columns \cup (IF writer = m THEN added[m] ELSE {})
    /\ at[m] = "done" => columns = Columns
    /\ writer = m => at[m] \in {"filled", "targets"}

ChangedInv ==
    /\ createdAt \in Nat /\ dated \in {0, 1}
    /\ EffectiveChange = IF Len(past) = 1 THEN dated ELSE Len(past)

MigrationInv ==
    MigrationTypeOK /\ HistoryInv /\ ChangedInv /\ \A m \in Migrators : Progress(m)

-------------------------------------------------------------------------------
USE LimitAssumption

(* LastOf keeps the end of a sequence: counted from there, its elements    *)
(* are those of the sequence.                                              *)
LEMMA LastOfProperties ==
    ASSUME NEW S, NEW s \in Seq(S), NEW n \in Nat \ {0}
    PROVE  /\ LastOf(s, n) \in Seq(S)
           /\ Len(LastOf(s, n)) = (IF Len(s) > n THEN n ELSE Len(s))
           /\ \A j \in 1..Len(LastOf(s, n)) :
                 LastOf(s, n)[Len(LastOf(s, n)) + 1 - j] = s[Len(s) + 1 - j]
<1> DEFINE ls == Len(s)
           from == IF ls > n THEN ls - n + 1 ELSE 1
           t == LastOf(s, n)
           lt == Len(t)
<1>1. ls \in Nat /\ t = SubSeq(s, from, ls)
  BY LenProperties DEF LastOf
<1>2. from \in 1..(ls + 1) /\ (ls > n => from = ls - n + 1) /\ (ls <= n => from = 1)
  <2> HIDE DEF ls
  <2> QED BY <1>1
<1>3. \A i \in from..ls : s[i] \in S
  <2> HIDE DEF from
  <2> QED BY <1>1, <1>2, ElementOfSeq
<1> HIDE DEF from
<1>4. /\ t \in Seq(S)
      /\ lt = IF from <= ls THEN ls - from + 1 ELSE 0
      /\ \A i \in 1..(ls - from + 1) : t[i] = s[from + i - 1]
  <2> HIDE DEF ls, t
  <2>1. from \in Int /\ ls \in Int
    BY <1>1, <1>2
  <2>2. /\ SubSeq(s, from, ls) \in Seq(S)
        /\ Len(SubSeq(s, from, ls)) = IF from <= ls THEN ls - from + 1 ELSE 0
        /\ \A i \in 1..(ls - from + 1) : SubSeq(s, from, ls)[i] = s[from + i - 1]
    BY <2>1, <1>3, SubSeqProperties
  <2> QED BY <1>1, <2>2, Zenon DEF lt
<1> HIDE DEF ls, t, lt
<1>5. lt = ls - from + 1
  BY <1>1, <1>2, <1>4
<1>6. lt = IF ls > n THEN n ELSE ls
  BY <1>1, <1>2, <1>5
<1>7. ASSUME NEW j \in 1..lt
      PROVE  t[lt + 1 - j] = s[ls + 1 - j]
  <2> DEFINE i == lt + 1 - j
  <2>1. i \in 1..(ls - from + 1) /\ from + i - 1 = ls + 1 - j
    BY <1>1, <1>2, <1>5
  <2> HIDE DEF i
  <2>2. t[i] = s[from + i - 1]
    BY <1>4, <2>1
  <2> QED BY <2>1, <2>2 DEF i
<1> QED BY <1>4, <1>6, <1>7 DEF ls, t, lt

LEMMA ToSetOfSeq ==
    ASSUME NEW S, NEW s \in Seq(S)
    PROVE  /\ ToSet(s) = {s[i] : i \in 1..Len(s)}
           /\ ToSet(s) \subseteq S
BY LenProperties, ElementOfSeq DEF ToSet

(* Elements at the end of a sequence are elements of it. *)
LEMMA LastOfSubset ==
    ASSUME NEW S, NEW s \in Seq(S), NEW n \in Nat \ {0}
    PROVE  ToSet(LastOf(s, n)) \subseteq ToSet(s)
<1> DEFINE t == LastOf(s, n)
<1>1. /\ t \in Seq(S) /\ Len(t) <= Len(s) /\ Len(s) \in Nat /\ Len(t) \in Nat
      /\ \A j \in 1..Len(t) : t[Len(t) + 1 - j] = s[Len(s) + 1 - j]
  BY LastOfProperties, LenProperties
<1> HIDE DEF t
<1>2. ASSUME NEW i \in 1..Len(t)
      PROVE  \E k \in 1..Len(s) : t[i] = s[k]
  <2> DEFINE j == Len(t) + 1 - i
  <2>1. j \in 1..Len(t) /\ Len(t) + 1 - j = i /\ Len(s) + 1 - j \in 1..Len(s)
    BY <1>1
  <2> HIDE DEF j
  <2> QED BY <1>1, <2>1
<1>3. ToSet(t) = {t[i] : i \in 1..Len(t)}
  BY <1>1, ToSetOfSeq
<1>4. ToSet(s) = {s[i] : i \in 1..Len(s)}
  BY ToSetOfSeq
<1>5. ToSet(t) \subseteq ToSet(s)
  BY <1>2, <1>3, <1>4
<1> QED BY <1>5 DEF t

(* As long as requests come one by one, the passwords a change must refuse *)
(* are the current one and the ones in the history.                        *)
LEMMA RecentIsBlocked ==
    ASSUME TypeOK, AccountInv, Aligned
    PROVE  ToSet(LastOf(past, HistoryLimit)) \subseteq
              {current} \cup ToSet(LastOf(history, HistoryLimit))
<1> DEFINE t == LastOf(past, HistoryLimit)
           h == LastOf(history, HistoryLimit)
<1>1. /\ t \in Seq(Passwords) /\ Len(t) \in Nat /\ Len(t) <= HistoryLimit
      /\ Len(t) <= Len(past) /\ Len(past) \in Nat
      /\ \A j \in 1..Len(t) : t[Len(t) + 1 - j] = past[Len(past) + 1 - j]
  BY LastOfProperties, LenProperties DEF TypeOK
<1>2. /\ h \in Seq(Passwords) /\ Len(h) = Len(history) /\ Len(history) \in Nat
      /\ \A j \in 1..Len(h) : h[Len(h) + 1 - j] = history[Len(history) + 1 - j]
  <2>1. history \in Seq(Passwords) /\ Len(history) \in Nat /\ ~(Len(history) > HistoryLimit)
    BY LenProperties DEF TypeOK, AccountInv, HistoryIsGenuine
  <2> QED BY <2>1, LastOfProperties
<1> HIDE DEF t, h
<1>3. ASSUME NEW i \in 1..Len(t)
      PROVE  t[i] \in {current} \cup ToSet(h)
  <2> DEFINE j == Len(t) + 1 - i
  <2>1. j \in 1..Len(t) /\ Len(t) + 1 - j = i
    BY <1>1
  <2> HIDE DEF j
  <2>2. t[i] = past[Len(past) + 1 - j]
    BY <1>1, <2>1
  <2>3. CASE j = 1
    <3>1. Len(past) + 1 - j = Len(past)
      BY <1>1, <2>3
    <3> QED BY <2>2, <3>1 DEF AccountInv
  <2>4. CASE j # 1
    <3> DEFINE k == j - 1
    <3>1. /\ k \in 1..Len(history) /\ k < Len(past)
          /\ Len(past) + 1 - j = Len(past) - k
      BY <1>1, <1>2, <2>1, <2>4 DEF Aligned
    <3> HIDE DEF k
    <3>2. t[i] = history[Len(history) + 1 - k]
      BY <2>2, <3>1 DEF Aligned
    <3>3. t[i] = h[Len(h) + 1 - k]
      BY <1>2, <3>1, <3>2
    <3>4. Len(h) + 1 - k \in 1..Len(h)
      BY <1>2, <3>1
    <3> QED BY <1>2, <3>3, <3>4, ToSetOfSeq
  <2> QED BY <2>3, <2>4
<1>4. ToSet(t) = {t[i] : i \in 1..Len(t)}
  BY <1>1, ToSetOfSeq
<1> QED BY <1>3, <1>4 DEF t, h

LEMMA ToSetOfAppend ==
    ASSUME NEW S, NEW s \in Seq(S), NEW e \in S
    PROVE  ToSet(Append(s, e)) = ToSet(s) \cup {e}
<1>1. /\ Append(s, e) \in Seq(S) /\ Len(Append(s, e)) = Len(s) + 1 /\ Len(s) \in Nat
      /\ \A i \in 1..Len(s) : Append(s, e)[i] = s[i]
      /\ Append(s, e)[Len(s) + 1] = e
  BY AppendProperties, LenProperties
<1> DEFINE a == Append(s, e)
<1> HIDE DEF a
<1>2. ToSet(s) = {s[i] : i \in 1..Len(s)} /\ ToSet(a) = {a[i] : i \in 1..Len(a)}
  BY <1>1, ToSetOfSeq DEF a
<1>3. 1..Len(a) = 1..Len(s) \cup {Len(s) + 1}
  BY <1>1 DEF a
<1>4. \A i \in 1..Len(s) : a[i] = s[i]
  BY <1>1 DEF a
<1>5. a[Len(s) + 1] = e
  BY <1>1 DEF a
<1>6. \A x : x \in ToSet(a) <=> x \in ToSet(s) \cup {e}
  BY <1>2, <1>3, <1>4, <1>5
<1> QED BY <1>6 DEF a

(* Appending the password that is replaced, and pruning, keeps the rows    *)
(* and the passwords aligned.                                              *)
LEMMA WriteAligned ==
    ASSUME TypeOK, AccountInv, Aligned, NEW x \in Passwords,
           history' = LastOf(Append(history, current), HistoryLimit),
           past' = Append(past, x)
    PROVE  Aligned'
<1> DEFINE a == Append(history, current)
           lh == Len(history)
           lp == Len(past)
           h == history'
           l == Len(h)
<1>1. /\ lh \in Nat /\ lp \in Nat /\ lp > 0 /\ lh <= HistoryLimit
      /\ current = past[lp] /\ HistoryLimit \in Nat \ {0}
  BY LenProperties DEF TypeOK, AccountInv, HistoryIsGenuine
<1>2. /\ a \in Seq(Passwords) /\ Len(a) = lh + 1 /\ a[lh + 1] = current
      /\ \A i \in 1..lh : a[i] = history[i]
  BY AppendProperties DEF TypeOK
<1>3. /\ Len(past') = lp + 1
      /\ \A i \in 1..lp : past'[i] = past[i]
  BY AppendProperties DEF TypeOK
<1>4. /\ l = IF Len(a) > HistoryLimit THEN HistoryLimit ELSE Len(a)
      /\ \A j \in 1..l : h[l + 1 - j] = a[Len(a) + 1 - j]
  <2> HIDE DEF a
  <2> QED BY <1>2, LastOfProperties DEF a
<1>5. lh >= HistoryLimit \/ lh >= lp - 1
  BY DEF Aligned
<1>6. \A k \in 1..lh : k < lp => history[lh + 1 - k] = past[lp - k]
  BY DEF Aligned
<1> HIDE DEF a, lh, lp, h, l
<1>7. l >= HistoryLimit \/ l >= (lp + 1) - 1
  BY <1>1, <1>2, <1>4, <1>5
<1>8. ASSUME NEW j \in 1..l, j < lp + 1
      PROVE  h[l + 1 - j] = past'[lp + 1 - j]
  <2>1. h[l + 1 - j] = a[(lh + 1) + 1 - j]
    BY <1>2, <1>4
  <2>2. lp + 1 - j \in 1..lp
    BY <1>1, <1>2, <1>4, <1>8
  <2>3. past'[lp + 1 - j] = past[lp + 1 - j]
    BY <1>3, <2>2
  <2>4. CASE j = 1
    <3>1. (lh + 1) + 1 - j = lh + 1 /\ lp + 1 - j = lp
      BY <1>1, <2>4
    <3> QED BY <1>1, <1>2, <2>1, <2>3, <3>1
  <2>5. CASE j # 1
    <3> DEFINE k == j - 1
    <3>1. /\ k \in 1..lh /\ k < lp
          /\ (lh + 1) + 1 - j = lh + 1 - k /\ lp + 1 - j = lp - k
          /\ lh + 1 - k \in 1..lh
      BY <1>1, <1>2, <1>4, <1>8, <2>5
    <3> HIDE DEF k
    <3>2. a[lh + 1 - k] = history[lh + 1 - k]
      BY <1>2, <3>1
    <3>3. history[lh + 1 - k] = past[lp - k]
      BY <1>6, <3>1
    <3> QED BY <2>1, <2>3, <3>1, <3>2, <3>3
  <2> QED BY <2>4, <2>5
<1> QED BY <1>3, <1>7, <1>8 DEF Aligned, h, l, lp

-------------------------------------------------------------------------------
(* The steps of a request. *)
LEMMA RequestStep ==
    ASSUME HistoryInv, NEW r \in Requests, Step(r),
           overlapped' = (overlapped \/ Overlap')
    PROVE  HistoryInv'
<1>1. /\ TypeOK /\ AccountInv
      /\ pc \in [Requests -> {"idle", "history", "write"}]
      /\ seen \in [Requests -> Passwords] /\ new \in [Requests -> Passwords]
      /\ current \in Passwords /\ history \in Seq(Passwords) /\ past \in Seq(Passwords)
      /\ Len(past) \in Nat
  BY LenProperties DEF HistoryInv, TypeOK
<1>2. overlapped' \in BOOLEAN
  BY DEF Overlap
<1>3. /\ \A q \in Requests \ {r} : pc'[q] = pc[q] /\ seen'[q] = seen[q] /\ new'[q] = new[q]
      /\ pc' \in [Requests -> {"idle", "history", "write"}]
  BY <1>1 DEF Step, VerifyCurrent, CheckHistory, Write, Fail
<1>4. ~overlapped' => \A q, w \in UnderWay' : q = w
  BY DEF Overlap
<1>5. ~overlapped' =>
        /\ ~overlapped /\ Aligned
        /\ \A q, w \in UnderWay : q = w
        /\ \A q \in UnderWay : seen[q] = current
        /\ \A q \in Requests : pc[q] = "write" => new[q] \notin Blocked(q)
  BY DEF HistoryInv, AloneInv
<1>6. ASSUME NEW p \in Passwords, VerifyCurrent(r, p)
      PROVE  HistoryInv'
  <2>1. /\ UNCHANGED <<current, history, past>>
        /\ seen' = [seen EXCEPT ![r] = current] /\ new' = [new EXCEPT ![r] = p]
        /\ pc' = [pc EXCEPT ![r] = "history"]
    BY <1>6 DEF VerifyCurrent, account
  <2>2. TypeOK'
    BY <1>1, <1>2, <1>3, <2>1 DEF TypeOK
  <2>3. current \in ToSet(past)
    BY <1>1, ToSetOfSeq DEF AccountInv
  <2>4. AccountInv'
    BY <1>1, <2>1, <2>3 DEF AccountInv, HistoryIsGenuine
  <2>5. AloneInv'
    BY <1>1, <1>3, <1>4, <1>5, <2>1 DEF AloneInv, Aligned, UnderWay, Blocked
  <2> QED BY <2>2, <2>4, <2>5 DEF HistoryInv
<1>7. CASE CheckHistory(r)
  <2>1. /\ UNCHANGED <<current, history, past, seen, new>>
        /\ pc[r] = "history"
        /\ pc' = [pc EXCEPT ![r] = IF new[r] \in Blocked(r) THEN "idle" ELSE "write"]
    BY <1>7 DEF CheckHistory, account
  <2>2. TypeOK'
    BY <1>1, <1>2, <1>3, <2>1 DEF TypeOK
  <2>3. AccountInv'
    BY <1>1, <2>1 DEF AccountInv, HistoryIsGenuine
  <2>4. \A q \in Requests : Blocked(q)' = Blocked(q)
    BY <2>1 DEF Blocked
  <2>5. UnderWay' \subseteq UnderWay
    BY <1>1, <1>3, <2>1 DEF UnderWay
  <2>6. pc'[r] = "write" => new[r] \notin Blocked(r)
    BY <1>1, <2>1
  <2>7. AloneInv'
    BY <1>3, <1>4, <1>5, <2>1, <2>4, <2>5, <2>6 DEF AloneInv, Aligned
  <2> QED BY <2>2, <2>3, <2>7 DEF HistoryInv
<1>8. CASE Fail(r)
  <2>1. /\ UNCHANGED <<current, history, past, seen, new>>
        /\ pc' = [pc EXCEPT ![r] = "idle"]
    BY <1>8 DEF Fail, account
  <2>2. TypeOK'
    BY <1>1, <1>2, <1>3, <2>1 DEF TypeOK
  <2>3. AccountInv'
    BY <1>1, <2>1 DEF AccountInv, HistoryIsGenuine
  <2>4. \A q \in Requests : Blocked(q)' = Blocked(q)
    BY <2>1 DEF Blocked
  <2>5. UnderWay' \subseteq UnderWay
    BY <1>1, <1>3, <2>1 DEF UnderWay
  <2>6. \A q \in Requests : pc'[q] = "write" => pc[q] = "write"
    BY <1>1, <2>1
  <2>7. AloneInv'
    BY <1>3, <1>4, <1>5, <2>1, <2>4, <2>5, <2>6 DEF AloneInv, Aligned
  <2> QED BY <2>2, <2>3, <2>7 DEF HistoryInv
<1>9. CASE Write(r)
  <2> DEFINE a == Append(history, seen[r])
  <2>1. /\ UNCHANGED <<seen, new>> /\ pc[r] = "write"
        /\ pc' = [pc EXCEPT ![r] = "idle"]
        /\ history' = LastOf(a, HistoryLimit)
        /\ current' = new[r] /\ past' = Append(past, new[r])
    BY <1>9 DEF Write
  <2>2. /\ a \in Seq(Passwords) /\ ToSet(a) = ToSet(history) \cup {seen[r]}
        /\ past' \in Seq(Passwords) /\ ToSet(past') = ToSet(past) \cup {new[r]}
        /\ Len(past') = Len(past) + 1 /\ past'[Len(past) + 1] = new[r]
    BY <1>1, <2>1, AppendProperties, ToSetOfAppend
  <2> HIDE DEF a
  <2>3. /\ history' \in Seq(Passwords) /\ Len(history') <= HistoryLimit
        /\ ToSet(history') \subseteq ToSet(a)
    <3>1. Len(LastOf(a, HistoryLimit)) = IF Len(a) > HistoryLimit THEN HistoryLimit ELSE Len(a)
      BY <2>2, LastOfProperties
    <3>2. Len(a) \in Nat
      BY <2>2, LenProperties
    <3>3. Len(LastOf(a, HistoryLimit)) <= HistoryLimit
      BY <3>1, <3>2
    <3> QED BY <2>1, <2>2, <3>3, LastOfProperties, LastOfSubset
  <2>4. TypeOK'
    BY <1>1, <1>2, <1>3, <2>1, <2>2, <2>3 DEF TypeOK
  <2>5. ToSet(history') \subseteq ToSet(past')
    BY <1>1, <2>2, <2>3 DEF AccountInv, HistoryIsGenuine
  <2>6. Len(past') > 0 /\ current' = past'[Len(past')]
    BY <1>1, <2>1, <2>2
  <2>7. AccountInv'
    BY <1>1, <2>1, <2>2, <2>3, <2>5, <2>6 DEF AccountInv, HistoryIsGenuine
  <2>8. ASSUME ~overlapped'
        PROVE  seen[r] = current /\ UnderWay' = {}
    BY <1>1, <1>3, <1>5, <2>1, <2>8 DEF UnderWay
  <2>9. ASSUME ~overlapped'
        PROVE  Aligned'
    BY <1>1, <1>5, <2>1, <2>8, <2>9, WriteAligned DEF a
  <2>10. \A q \in Requests : pc'[q] = "write" => q \in UnderWay'
    BY DEF UnderWay
  <2>11. AloneInv'
    BY <2>8, <2>9, <2>10 DEF AloneInv
  <2> QED BY <2>4, <2>7, <2>11 DEF HistoryInv
<1> QED BY <1>6, <1>7, <1>8, <1>9 DEF Step

-------------------------------------------------------------------------------
USE FreeAssumption DEF schema, migrators

(* Columns only come, so what the other migrators rely on stays. *)
LEMMA OthersProgress ==
    ASSUME NEW m \in Migrators, NEW q \in Migrators \ {m}, Progress(q),
           columns \subseteq columns', columns' \subseteq Columns,
           at'[q] = at[q], found'[q] = found[q], added'[q] = added[q],
           writer' = writer \/ {writer, writer'} \subseteq {m, Free}
    PROVE  Progress(q)'
<1>1. writer' = q <=> writer = q
  OBVIOUS
<1> QED BY <1>1 DEF Progress

(* The steps of a migrator. *)
LEMMA MigrateStep ==
    ASSUME MigrationInv, NEW m \in Migrators, Migrate(m), UNCHANGED <<vars, birth>>
    PROVE  MigrationInv'
<1>1. /\ TypeOK /\ HistoryInv /\ ChangedInv /\ Progress(m)
      /\ columns \subseteq Columns /\ changedAt \in Nat \cup {Null}
      /\ writer \in Migrators \cup {Free}
      /\ at \in [Migrators -> {"idle", "users", "fill", "filled", "targets", "done"}]
      /\ found \in [Migrators -> SUBSET Columns]
      /\ added \in [Migrators -> SUBSET LaterColumns]
  BY DEF MigrationInv, MigrationTypeOK
<1>2. UNCHANGED <<current, history, past, pc, new, seen, overlapped, createdAt, dated>>
  BY DEF vars, account, birth
<1>3. HistoryInv'
  BY <1>1, <1>2 DEF HistoryInv, TypeOK, AccountInv, HistoryIsGenuine, AloneInv,
                    Aligned, UnderWay, Blocked
<1>4. UserColumns = {"email", "password_changed_at"} /\ Columns = UserColumns \cup LaterColumns
  BY DEF UserColumns, Columns
<1>5. ASSUME columns' \subseteq Columns, columns \subseteq columns',
             changedAt' \in Nat \cup {Null}, ChangedInv', Progress(m)',
             NEW x \in {"idle", "users", "fill", "filled", "targets", "done"},
             at' = [at EXCEPT ![m] = x],
             NEW f \in SUBSET Columns, found' = [found EXCEPT ![m] = f],
             NEW d \in SUBSET LaterColumns, added' = [added EXCEPT ![m] = d],
             writer' = writer \/ {writer, writer'} \subseteq {m, Free}
      PROVE  MigrationInv'
  <2>1. MigrationTypeOK'
    BY <1>1, <1>2, <1>3, <1>5 DEF MigrationTypeOK, HistoryInv, ChangedInv
  <2>2. \A q \in Migrators \ {m} : Progress(q)'
    BY <1>1, <1>5, OthersProgress DEF MigrationInv
  <2> QED BY <1>3, <1>5, <2>1, <2>2 DEF MigrationInv
<1>6. ASSUME UNCHANGED changedAt PROVE ChangedInv'
  BY <1>1, <1>2, <1>6 DEF ChangedInv, EffectiveChange
<1>7. found = [found EXCEPT ![m] = found[m]] /\ added = [added EXCEPT ![m] = added[m]]
      /\ at = [at EXCEPT ![m] = at[m]]
      /\ found[m] \in SUBSET Columns /\ added[m] \in SUBSET LaterColumns
  BY <1>1
<1>15. ASSUME columns' \subseteq Columns, columns \subseteq columns',
              changedAt' \in Nat \cup {Null}, ChangedInv', Progress(m)',
              at' = [at EXCEPT ![m] = "done"], UNCHANGED <<found, added>>,
              writer' = writer \/ {writer, writer'} \subseteq {m, Free}
       PROVE  MigrationInv'
  BY <1>5, <1>7, <1>15
<1>8. CASE ReadUsers(m)
  <2>1. Progress(m)'
    BY <1>1, <1>8 DEF ReadUsers, Goto, Progress
  <2>2. /\ at' = [at EXCEPT ![m] = "users"]
        /\ found' = [found EXCEPT ![m] = columns \cap UserColumns]
        /\ UNCHANGED <<columns, changedAt, writer, added>>
    BY <1>8 DEF ReadUsers, Goto, schema
  <2>3. columns \cap UserColumns \in SUBSET Columns /\ ChangedInv'
    BY <1>4, <1>6, <2>2
  <2> QED BY <1>1, <1>5, <1>7, <2>1, <2>2, <2>3
<1>9. ASSUME NEW c \in Columns, AddUserColumn(m, c)
      PROVE  MigrationInv'
  <2>1. Progress(m)'
    BY <1>1, <1>4, <1>9 DEF AddUserColumn, Goto, Progress
  <2>2. found' = [found EXCEPT ![m] = found[m] \cup {c}] /\ found[m] \cup {c} \in SUBSET Columns
    BY <1>1, <1>9 DEF AddUserColumn
  <2> QED BY <1>1, <1>5, <1>6, <1>7, <1>9, <2>1, <2>2 DEF AddUserColumn, Goto
<1>10. CASE Fill(m)
  <2>1. Progress(m)'
    BY <1>1, <1>10 DEF Fill, Goto, Progress
  <2> QED BY <1>1, <1>5, <1>6, <1>7, <1>10, <2>1 DEF Fill, Goto
<1>11. CASE ReadTargets(m)
  <2>1. Progress(m)'
    BY <1>1, <1>11 DEF ReadTargets, Goto, Progress
  <2>2. /\ at' = [at EXCEPT ![m] = "targets"]
        /\ found' = [found EXCEPT ![m] = columns \cap LaterColumns]
        /\ UNCHANGED <<columns, changedAt, writer, added>>
    BY <1>11 DEF ReadTargets, Goto, schema
  <2>3. columns \cap LaterColumns \in SUBSET Columns /\ ChangedInv'
    BY <1>4, <1>6, <2>2
  <2> QED BY <1>1, <1>5, <1>7, <2>1, <2>2, <2>3
<1>12. ASSUME NEW c \in Columns, AddLaterColumn(m, c)
       PROVE  MigrationInv'
  <2>1. found' = [found EXCEPT ![m] = found[m] \cup {c}] /\ c \in LaterColumns
        /\ found[m] \cup {c} \in SUBSET Columns /\ at[m] = "targets"
    BY <1>1, <1>12 DEF AddLaterColumn
  <2>2. CASE writer = m
    <3>1. columns' = columns /\ added' = [added EXCEPT ![m] = added[m] \cup {c}]
          /\ UNCHANGED <<changedAt, writer, at>>
      BY <1>12, <2>2 DEF AddLaterColumn
    <3>2. added[m] \cup {c} \in SUBSET LaterColumns
      BY <1>1, <2>1
    <3>3. Progress(m)'
      BY <1>1, <2>1, <2>2, <3>1 DEF Progress
    <3> QED BY <1>1, <1>5, <1>6, <1>7, <2>1, <3>1, <3>2, <3>3
  <2>3. CASE writer # m
    <3>1. columns' = columns \cup {c} /\ UNCHANGED <<added, changedAt, writer, at>>
      BY <1>12, <2>3 DEF AddLaterColumn
    <3>2. Progress(m)'
      BY <1>1, <2>1, <2>3, <3>1 DEF Progress
    <3> QED BY <1>1, <1>4, <1>5, <1>6, <1>7, <2>1, <3>1, <3>2
  <2> QED BY <2>2, <2>3
<1>13. CASE Complete(m)
  <2>1. /\ at[m] = "targets" /\ LaterColumns \subseteq found[m]
        /\ at' = [at EXCEPT ![m] = "done"] /\ UNCHANGED <<found, added>>
    BY <1>13 DEF Complete, Goto
  <2>2. CASE writer = m
    <3>1. columns' = columns \cup added[m] /\ changedAt' = Filled(changedAt) /\ writer' = Free
      BY <1>13, <2>2 DEF Complete
    <3>2. columns' = Columns
      BY <1>1, <1>4, <2>1, <2>2, <3>1 DEF Progress
    <3>3. changedAt' \in Nat \cup {Null} /\ ChangedInv'
      BY <1>1, <1>2, <3>1 DEF Filled, EffectiveChange, ChangedInv
    <3>4. Progress(m)'
      BY <1>1, <2>1, <3>1, <3>2 DEF Progress
    <3>5. columns \subseteq columns' /\ columns' \subseteq Columns
      BY <1>1, <3>2
    <3>6. {writer, writer'} \subseteq {m, Free}
      BY <2>2, <3>1
    <3> QED BY <1>15, <2>1, <3>3, <3>4, <3>5, <3>6
  <2>3. CASE writer # m
    <3>1. UNCHANGED <<columns, changedAt, writer>>
      BY <1>13, <2>3 DEF Complete
    <3>2. columns = Columns
      BY <1>1, <1>4, <2>1, <2>3 DEF Progress
    <3>3. Progress(m)'
      BY <1>1, <2>1, <2>3, <3>1, <3>2 DEF Progress
    <3>4. columns' = columns /\ columns \subseteq Columns /\ changedAt' \in Nat \cup {Null}
          /\ ChangedInv' /\ writer' = writer
      BY <1>1, <1>6, <3>1
    <3> QED BY <1>15, <2>1, <3>3, <3>4
  <2> QED BY <2>2, <2>3
<1>14. CASE Interrupted(m)
  <2>1. Progress(m)'
    BY <1>1, <1>14 DEF Interrupted, Goto, Progress
  <2>2. /\ at' = [at EXCEPT ![m] = "idle"] /\ added' = [added EXCEPT ![m] = {}]
        /\ writer' = (IF writer = m THEN Free ELSE writer)
        /\ UNCHANGED <<columns, changedAt, found>>
    BY <1>14 DEF Interrupted, Goto, schema
  <2>3. writer' = writer \/ {writer, writer'} \subseteq {m, Free}
    BY <2>2
  <2>4. ChangedInv' /\ {} \in SUBSET LaterColumns
    BY <1>6, <2>2
  <2> QED BY <1>1, <1>5, <1>7, <2>1, <2>2, <2>3, <2>4
<1> QED BY <1>8, <1>9, <1>10, <1>11, <1>12, <1>13, <1>14 DEF Migrate

(* A change of the password adds one to those the account had. *)
LEMMA ChangeIsLonger ==
    ASSUME HistoryInv, NEW r \in Requests, Step(r), past' # past
    PROVE  Len(past') # 1
<1>1. Write(r)
  BY DEF Step, VerifyCurrent, CheckHistory, Fail, account
<1>2. past \in Seq(Passwords) /\ new[r] \in Passwords /\ Len(past) > 0
  BY DEF HistoryInv, TypeOK, AccountInv
<1>3. Len(past') = Len(past) + 1 /\ Len(past) \in Nat
  BY <1>1, <1>2, AppendProperties, LenProperties DEF Write
<1> QED BY <1>2, <1>3

(* The steps of a request beside migrations. *)
LEMMA ChangeStep ==
    ASSUME MigrationInv, NEW r \in Requests, Change(r)
    PROVE  MigrationInv'
<1>1. HistoryInv'
  BY RequestStep DEF MigrationInv, Change
<1>2. Len(past') \in Nat
  BY <1>1, LenProperties DEF HistoryInv, TypeOK
<1>3. ChangedInv' /\ changedAt' \in Nat \cup {Null}
  <2>1. CASE past' = past
    BY <2>1 DEF Change, birth, MigrationInv, MigrationTypeOK, ChangedInv, EffectiveChange
  <2>2. CASE past' # past
    <3>1. /\ changedAt' = Len(past') /\ changedAt' # Null /\ past' # past
          /\ createdAt' \in Nat /\ dated' \in {0, 1}
      BY <1>2, <2>2 DEF Change, birth, MigrationInv, ChangedInv
    <3>2. Len(past') # 1
      BY <2>2, ChangeIsLonger DEF Change, MigrationInv
    <3> QED BY <1>2, <3>1, <3>2 DEF ChangedInv, EffectiveChange
  <2> QED BY <2>1, <2>2
<1>4. UNCHANGED <<columns, writer, at, found, added>>
  BY DEF Change
<1>5. MigrationTypeOK'
  BY <1>1, <1>3, <1>4 DEF MigrationInv, MigrationTypeOK, HistoryInv, ChangedInv
<1>6. \A m \in Migrators : Progress(m)'
  BY <1>4 DEF MigrationInv, Progress
<1> QED BY <1>1, <1>3, <1>5, <1>6 DEF MigrationInv

LEMMA MigrationInitInv == MigrationInit => MigrationInv
<1> SUFFICES ASSUME MigrationInit PROVE MigrationInv
  OBVIOUS
<1>1. /\ current \in Passwords /\ past = <<current>> /\ overlapped = FALSE
      /\ history = <<>> \/ history = <<current>>
      /\ pc = [r \in Requests |-> "idle"]
      /\ new \in [Requests -> {current}] /\ seen \in [Requests -> {current}]
  BY DEF MigrationInit, Init
<1>2. /\ past \in Seq(Passwords) /\ Len(past) = 1 /\ past[1] = current
      /\ history \in Seq(Passwords) /\ Len(history) \in {0, 1}
      /\ Len(history) = 1 => history[1] = current
  <2>1. past \in Seq(Passwords) /\ Len(past) = 1 /\ past[1] = current
    BY <1>1
  <2>2. CASE history = <<>>
    BY <2>1, <2>2
  <2>3. CASE history = <<current>>
    BY <1>1, <2>1, <2>3
  <2> QED BY <1>1, <2>2, <2>3
<1>3. ToSet(past) = {current} /\ ToSet(history) \subseteq {current}
  BY <1>2, ToSetOfSeq
<1>4. TypeOK
  BY <1>1, <1>2 DEF TypeOK
<1>5. AccountInv
  BY <1>1, <1>2, <1>3 DEF AccountInv, HistoryIsGenuine
<1>6. AloneInv
  <2>1. Aligned
    BY <1>2 DEF Aligned
  <2>2. UnderWay = {} /\ \A r \in Requests : pc[r] # "write"
    BY <1>1 DEF UnderWay
  <2> QED BY <2>1, <2>2 DEF AloneInv
<1>7. /\ columns \in {{}, {"email"}, UserColumns, Columns}
      /\ createdAt \in {0, 1} /\ changedAt \in {Null, createdAt, 1}
      /\ dated = EffectiveChange
      /\ writer = Free /\ at = [m \in Migrators |-> "idle"]
      /\ found = [m \in Migrators |-> {}] /\ added = [m \in Migrators |-> {}]
  BY DEF MigrationInit
<1>8. columns \subseteq Columns
  BY <1>7 DEF Columns, UserColumns
<1>9. MigrationTypeOK
  BY <1>4, <1>7, <1>8 DEF MigrationTypeOK, EffectiveChange
<1>10. ChangedInv
  BY <1>2, <1>7 DEF ChangedInv, EffectiveChange
<1>11. \A m \in Migrators : Progress(m)
  BY <1>7 DEF Progress
<1> QED BY <1>4, <1>5, <1>6, <1>9, <1>10, <1>11 DEF MigrationInv, HistoryInv

LEMMA MigrationStep == MigrationInv /\ [MigrationNext]_migrationVars => MigrationInv'
<1> SUFFICES ASSUME MigrationInv, [MigrationNext]_migrationVars PROVE MigrationInv'
  OBVIOUS
<1>1. CASE UNCHANGED migrationVars
  BY <1>1 DEF migrationVars, birth, vars, account, MigrationInv, MigrationTypeOK, HistoryInv,
     TypeOK, AccountInv, HistoryIsGenuine, AloneInv, Aligned, UnderWay, Blocked,
     ChangedInv, EffectiveChange, Progress
<1>2. CASE MigrationNext
  BY <1>2, MigrateStep, ChangeStep DEF MigrationNext
<1> QED BY <1>1, <1>2

THEOREM MigrationInvariant == MigrationSpec => []MigrationInv
BY MigrationInitInv, MigrationStep, PTL DEF MigrationSpec

(* Every variable of password changes and migrations keeps its type. *)
THEOREM MigrationTypeCorrect == MigrationSpec => []MigrationTypeOK
<1>1. MigrationInv => MigrationTypeOK
  BY DEF MigrationInv
<1> QED BY <1>1, MigrationInvariant, PTL

(* The history never outgrows its limit and holds only passwords the       *)
(* account really had, whatever overlaps or fails.                         *)
THEOREM HistoryCorrect == MigrationSpec => []HistoryIsGenuine
<1>1. MigrationInv => HistoryIsGenuine
  BY DEF MigrationInv, HistoryInv, AccountInv
<1> QED BY <1>1, MigrationInvariant, PTL

(* A password set since the beginning has its own age and the first one    *)
(* the age it came with, through every migration, failure and change.      *)
THEOREM AgeCorrect == MigrationSpec => []AgeIsOfPassword
<1>1. MigrationInv => AgeIsOfPassword
  <2> SUFFICES ASSUME MigrationInv PROVE EffectiveChange <= Len(past)
    BY DEF MigrationInv, ChangedInv, AgeIsOfPassword
  <2>1. Len(past) > 0 /\ Len(past) \in Nat
    BY LenProperties DEF MigrationInv, HistoryInv, TypeOK, AccountInv
  <2> QED BY <2>1 DEF MigrationInv, ChangedInv
<1> QED BY <1>1, MigrationInvariant, PTL

(* Who returned from a migration has the whole schema. *)
THEOREM CompleteCorrect == MigrationSpec => []SuccessMeansComplete
<1>1. MigrationInv => SuccessMeansComplete
  BY DEF MigrationInv, Progress, SuccessMeansComplete
<1> QED BY <1>1, MigrationInvariant, PTL

(* None of the last HistoryLimit passwords is used again, as long as no    *)
(* two changes of the account overlap.                                     *)
THEOREM RecentCorrect == MigrationSpec => RecentNotReused
<1>1. MigrationInv /\ [MigrationNext]_migrationVars => [Reuses => overlapped]_vars
  <2> SUFFICES ASSUME MigrationInv, [MigrationNext]_migrationVars, Reuses, ~overlapped
               PROVE  FALSE
    OBVIOUS
  <2>1. past' # past
    BY DEF Reuses
  <2>2. PICK r \in Requests : Step(r)
    BY <2>1 DEF MigrationNext, migrationVars, vars, account, Change
  <2>3. Write(r)
    BY <2>1, <2>2 DEF Step, VerifyCurrent, CheckHistory, Fail, account
  <2>4. current' = new[r] /\ pc[r] = "write"
    BY <2>3 DEF Write
  <2>5. r \in UnderWay
    BY <2>4 DEF UnderWay
  <2>6. TypeOK /\ AccountInv /\ Aligned
    BY DEF MigrationInv, HistoryInv, AloneInv
  <2>7. new[r] \notin Blocked(r) /\ seen[r] = current
    BY <2>4, <2>5 DEF MigrationInv, HistoryInv, AloneInv
  <2>8. new[r] \notin ToSet(LastOf(past, HistoryLimit))
    BY <2>6, <2>7, RecentIsBlocked DEF Blocked
  <2> QED BY <2>4, <2>8 DEF Reuses
<1> QED BY <1>1, MigrationInvariant, PTL DEF MigrationSpec, RecentNotReused
===============================================================================
