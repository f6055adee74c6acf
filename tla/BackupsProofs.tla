----------------------------- MODULE BackupsProofs -----------------------------
(***************************************************************************)
(* Proofs about backups, for every value of the constants: restorations of *)
(* the database, by any number of requests under any handlers at work      *)
(* (BackupRestore), and the automatic backups of any number of threads     *)
(* (AutomaticBackup).                                                      *)
(***************************************************************************)
EXTENDS AutomaticBackup, BackupRestore, FiniteSetTheorems, WellFoundedInduction, TLAPS

-------------------------------------------------------------------------------
(* Restorations. *)

(* The log beside the database is its own, or there is none, and nobody    *)
(* has lost it or applied another one.                                     *)
Fresh == ~Stale /\ ~exposed
Exchanging == \E q \in Restorers : pc[q] \in {"replace", "unlink", "initialize"}

(* What had been answered when an upload came in is certain to be found,   *)
(* and in a snapshot by the time the files are exchanged.                  *)
ToldInv ==
    "restoration" \in overlapped \/
        \A r \in Restorers :
            /\ told[r] \subseteq Certain
            /\ Exchanging => told[r] \subseteq Safe

(* As long as no restoration has met anybody, handlers work on the file    *)
(* that has the name, with its own log, and what a restoration exchanges   *)
(* is what it has made a snapshot of.                                      *)
HandlersApart ==
    /\ \A w \in Writers :
          /\ conn[w] \in {None, current}
          /\ wrote[w] \subseteq disk[current]
          /\ wrote[w] # {} => conn[w] # None
    /\ Fresh
    /\ ~Connected => wal = None
    /\ answered \subseteq Kept
RestorersApart ==
    \A q \in Restorers : pc[q] = "replace" => disk[current] \subseteq Safe

(* Whatever handlers do with the old file, the new one is left alone until *)
(* the log is removed, and from then on gets only what they commit to it.  *)
Exchanged(q) ==
    /\ pc[q] = "unlink" =>
          /\ disk[current] = upload[q] /\ since = {}
          /\ \A w \in Writers : conn[w] # current
    /\ pc[q] = "initialize" =>
          /\ ~Stale
          /\ upload[q] \subseteq disk[current] /\ disk[current] \subseteq upload[q] \cup since
ExchangeInv ==
    /\ \A w \in Writers : conn[w] # None => conn[w] <= current
    /\ exposed \/ "restoration" \in overlapped \/ \A q \in Restorers : Exchanged(q)

RestoreInv ==
    /\ TypeOK
    /\ Meetings \subseteq overlapped
    /\ ToldInv
    /\ ExchangeInv
    /\ overlapped = {} => HandlersApart /\ RestorersApart

-------------------------------------------------------------------------------
USE BoundAssumption, NoneAssumption

LEMMA MeetingsAre ==
    /\ "handler" \in Meetings <=> Connected /\ Restoring
    /\ "restoration" \in Meetings <=> Together
    /\ Meetings \subseteq {"handler", "restoration"}
BY DEF Meetings

LEMMA OpenedAre ==
    ASSUME TypeOK
    PROVE  /\ Fresh => Opened = {disk[current]}
           /\ ~Fresh => {} \in Opened
           /\ \A o \in Opened : o \subseteq Changes
BY DEF Opened, Fresh, Stale, TypeOK

(* Opening and closing the database as it should be changes nothing in it. *)
LEMMA VisitIs ==
    ASSUME TypeOK, UNCHANGED current, NEW c \in Opened, Visit(c)
    PROVE  /\ disk' \in [1..MaxFiles -> SUBSET Changes] /\ disk'[current] = c
           /\ wal' \in (1..MaxFiles) \cup {None} /\ exposed' \in BOOLEAN
           /\ Fresh => Fresh' /\ disk' = disk
<1>1. c \subseteq Changes /\ disk' = [disk EXCEPT ![current] = c]
  BY OpenedAre DEF Visit
<1>2. disk' \in [1..MaxFiles -> SUBSET Changes] /\ disk'[current] = c
  BY <1>1 DEF TypeOK
<1>3. wal' \in (1..MaxFiles) \cup {None} /\ exposed' \in BOOLEAN
  BY DEF Visit, TypeOK
<1>4. ASSUME Fresh PROVE Fresh' /\ disk' = disk
  <2>1. c = disk[current]
    BY <1>4, OpenedAre
  <2>2. disk' = disk
    BY <1>1, <2>1 DEF TypeOK
  <2>3. Fresh'
    BY <1>4 DEF Fresh, Stale, Visit
  <2>. QED  BY <2>2, <2>3
<1>. QED  BY <1>2, <1>3, <1>4

Sure == Safe \cup (IF Fresh THEN disk[current] ELSE {})

LEMMA CertainIs == TypeOK => Certain = Sure
<1> SUFFICES ASSUME TypeOK PROVE Certain = Sure
  OBVIOUS
<1>1. CASE Fresh
  BY <1>1, OpenedAre DEF Certain, Kept, Sure
<1>2. CASE ~Fresh
  BY <1>2, OpenedAre DEF Certain, Kept, Sure
<1>. QED  BY <1>1, <1>2

LEMMA CertainIsNext == TypeOK' => Certain' = Sure'
<1>1. (TypeOK => Certain = Sure)'
  BY CertainIs, PTL
<1>. QED  BY <1>1

LEMMA SafeSame == UNCHANGED snapshots => Safe' = Safe
BY DEF snapshots, Safe, Snapshots

LEMMA SafeGrows ==
    ASSUME TypeOK, NEW r \in Restorers, SafetySnapshot(r)
    PROVE  Safe \subseteq Safe' /\ disk'[current] \subseteq Safe'
<1>0. PICK o \in Opened : Visit(o) /\ safety' = [safety EXCEPT ![second] = o]
  BY DEF SafetySnapshot
<1>1. /\ safety' = [safety EXCEPT ![second] = disk'[current]]
      /\ overwritten' = overwritten \cup
                           (IF safety[second] = None THEN {} ELSE safety[second])
      /\ second \in 0..MaxSecond
      /\ safety \in [0..MaxSecond -> {None} \cup SUBSET Changes]
      /\ disk'[current] \in SUBSET Changes
  BY <1>0, OpenedAre DEF SafetySnapshot, Visit, TypeOK
<1>2. \A c : c \in Snapshots <=>
             \E t \in 0..MaxSecond : safety[t] # None /\ c \in safety[t]
  BY DEF Snapshots
<1>3. \A c : c \in Snapshots' <=>
             \E t \in 0..MaxSecond : safety'[t] # None /\ c \in safety'[t]
  BY DEF Snapshots
<1>4. disk'[current] \subseteq Snapshots'
  BY <1>1, <1>3
<1>5. ASSUME NEW c \in Snapshots PROVE c \in Snapshots' \cup overwritten'
  <2>1. PICK t \in 0..MaxSecond : safety[t] # None /\ c \in safety[t]
    BY <1>2
  <2>2. CASE t = second
    BY <1>1, <2>1, <2>2
  <2>3. CASE t # second
    BY <1>1, <1>3, <2>1, <2>3
  <2>. QED  BY <2>2, <2>3
<1>. QED  BY <1>1, <1>4, <1>5 DEF Safe

LEMMA RestoreInitial == Init => RestoreInv
<1> SUFFICES ASSUME Init PROVE RestoreInv
  OBVIOUS
<1>1. TypeOK
  <2>1. exposed \in BOOLEAN
    BY DEF Init
  <2>2. {upload, told} \subseteq [Restorers -> SUBSET Changes]
    BY DEF Init
  <2>. QED  BY <2>1, <2>2 DEF Init, TypeOK
<1>2. Meetings = {}
  BY DEF Init, Meetings, Connected, Together
<1>3. ToldInv
  BY DEF Init, ToldInv
<1>4. HandlersApart /\ RestorersApart
  BY DEF Init, HandlersApart, RestorersApart, Fresh, Stale
<1>5. ExchangeInv
  BY DEF Init, ExchangeInv, Exchanged
<1>. QED  BY <1>1, <1>2, <1>3, <1>4, <1>5 DEF RestoreInv

-------------------------------------------------------------------------------
LEMMA RestoreTypeStep ==
    ASSUME TypeOK, Next
    PROVE  TypeOK'
<1>. USE DEF TypeOK, snapshots, files, handlers, restorers
<1>1. overlapped' \subseteq {"handler", "restoration"}
  BY DEF Next, Meetings
<1>2. ASSUME NEW w \in Writers, Connect(w) PROVE TypeOK'
  <2>1. PICK c \in Opened : disk' = [disk EXCEPT ![current] = c]
    BY <1>2 DEF Connect
  <2>2. c \subseteq Changes
    BY OpenedAre
  <2>. QED  BY <1>1, <1>2, <2>1, <2>2 DEF Connect
<1>3. ASSUME NEW w \in Writers, Close(w) PROVE TypeOK'
  BY <1>1, <1>3 DEF Close
<1>4. ASSUME NEW w \in Writers, NEW c \in Changes, Commit(w, c) PROVE TypeOK'
  BY <1>1, <1>4 DEF Commit
<1>5. ASSUME NEW r \in Restorers, NEW a \in archives \cup {Damaged}, Validate(r, a)
      PROVE  TypeOK'
  <2>1. a \in SUBSET Changes
    BY <1>5 DEF Validate, Acceptable
  <2>2. answered \cap Certain \in SUBSET Changes
    OBVIOUS
  <2>3. /\ upload' = [upload EXCEPT ![r] = a]
        /\ told' = [told EXCEPT ![r] = answered \cap Certain]
        /\ pc' = [pc EXCEPT ![r] = "safety"]
        /\ UNCHANGED <<files, handlers, archives, second>>
    BY <1>5 DEF Validate
  <2>. QED  BY <1>1, <2>1, <2>2, <2>3
<1>6. ASSUME NEW r \in Restorers, SafetySnapshot(r) PROVE TypeOK'
  <2>1. PICK c \in Opened : Visit(c) /\ safety' = [safety EXCEPT ![second] = c]
    BY <1>6 DEF SafetySnapshot
  <2>2. c \subseteq Changes /\ UNCHANGED current
    BY <1>6, OpenedAre DEF SafetySnapshot
  <2>3. /\ disk' \in [1..MaxFiles -> SUBSET Changes]
        /\ wal' \in (1..MaxFiles) \cup {None} /\ exposed' \in BOOLEAN
    BY <2>1, <2>2, VisitIs
  <2>. QED  BY <1>1, <1>6, <2>1, <2>2, <2>3 DEF SafetySnapshot
<1>7. ASSUME NEW r \in Restorers, Replace(r) PROVE TypeOK'
  <2>1. exposed' \in BOOLEAN /\ since' \subseteq Changes
    BY <1>7 DEF Replace
  <2>2. disk' \in [1..MaxFiles -> SUBSET Changes] /\ current' \in 1..MaxFiles
    BY <1>7 DEF Replace
  <2>3. pc' \in [Restorers -> {"idle", "safety", "replace", "unlink", "initialize"}]
    BY <1>7 DEF Replace
  <2>. QED  BY <1>1, <1>7, <2>1, <2>2, <2>3 DEF Replace
<1>8. ASSUME NEW r \in Restorers, UnlinkLog(r) PROVE TypeOK'
  BY <1>1, <1>8 DEF UnlinkLog
<1>9. ASSUME NEW r \in Restorers, Initialize(r) PROVE TypeOK'
  <2>1. PICK c \in Opened : Visit(c)
    BY <1>9 DEF Initialize
  <2>2. UNCHANGED current
    BY <1>9 DEF Initialize
  <2>3. /\ disk' \in [1..MaxFiles -> SUBSET Changes]
        /\ wal' \in (1..MaxFiles) \cup {None} /\ exposed' \in BOOLEAN
    BY <2>1, <2>2, VisitIs
  <2>. QED  BY <1>1, <1>9, <2>2, <2>3 DEF Initialize, Leave
<1>10. ASSUME NEW r \in Restorers, Fail(r) PROVE TypeOK'
  BY <1>1, <1>10 DEF Fail, Leave
<1>11. CASE DownloadBackup
  <2>1. PICK c \in Opened : Visit(c) /\ archives' = archives \cup {c}
    BY <1>11 DEF DownloadBackup
  <2>2. c \subseteq Changes /\ UNCHANGED current
    BY <1>11, OpenedAre DEF DownloadBackup
  <2>3. /\ disk' \in [1..MaxFiles -> SUBSET Changes]
        /\ wal' \in (1..MaxFiles) \cup {None} /\ exposed' \in BOOLEAN
    BY <2>1, <2>2, VisitIs
  <2>. QED  BY <1>1, <1>11, <2>1, <2>2, <2>3 DEF DownloadBackup
<1>12. CASE Crash
  <2>1. PICK c \in Opened : disk' = [disk EXCEPT ![current] = c]
    BY <1>12 DEF Crash
  <2>2. c \subseteq Changes
    BY OpenedAre
  <2>. QED  BY <1>1, <1>12, <2>1, <2>2 DEF Crash
<1>13. CASE Tick
  BY <1>1, <1>13 DEF Tick
<1>. QED  BY <1>2, <1>3, <1>4, <1>5, <1>6, <1>7, <1>8, <1>9, <1>10, <1>11, <1>12, <1>13
       DEF Next, Step

(* Nothing certain is lost by a step that loses no snapshot and, beside    *)
(* its own log, nothing of the database.                                   *)
LEMMA CertainStays ==
    ASSUME TypeOK, TypeOK', Safe \subseteq Safe',
           Fresh => Fresh' /\ disk[current] \subseteq disk'[current']
    PROVE  Certain \subseteq Certain'
BY CertainIs, CertainIsNext DEF Sure

LEMMA ToldStep ==
    ASSUME RestoreInv, Next, TypeOK'
    PROVE  ToldInv'
<1> SUFFICES ASSUME "restoration" \notin overlapped'
             PROVE  \A r \in Restorers : /\ told'[r] \subseteq Certain'
                                         /\ Exchanging' => told'[r] \subseteq Safe'
  BY DEF ToldInv
<1>1. /\ TypeOK
      /\ \A r \in Restorers : /\ told[r] \subseteq Certain
                              /\ Exchanging => told[r] \subseteq Safe
      /\ ~Together'
  <2>1. "restoration" \notin overlapped /\ "restoration" \notin Meetings'
    BY DEF Next
  <2>2. ~Together'
    BY <2>1 DEF Meetings
  <2>. QED  BY <2>1, <2>2 DEF RestoreInv, ToldInv
<1>2. Certain = Safe \cup (IF Fresh THEN disk[current] ELSE {})
  BY <1>1, CertainIs DEF Sure
<1>3. ASSUME told' = told, Exchanging' => Exchanging, UNCHANGED snapshots,
             Exchanging \/ (Fresh => Fresh' /\ disk[current] \subseteq disk'[current'])
      PROVE  \A r \in Restorers : /\ told'[r] \subseteq Certain'
                                  /\ Exchanging' => told'[r] \subseteq Safe'
  <2>1. Safe' = Safe
    BY <1>3, SafeSame
  <2>2. CASE Exchanging
    BY <1>1, <1>3, <2>1, <2>2, CertainIsNext DEF Sure
  <2>3. CASE Fresh => Fresh' /\ disk[current] \subseteq disk'[current']
    <3>1. Certain \subseteq Certain'
      BY <1>1, <2>1, <2>3, CertainStays
    <3>. QED  BY <1>1, <1>3, <2>1, <3>1
  <2>. QED  BY <1>3, <2>2, <2>3
<1>4. ASSUME UNCHANGED pc PROVE Exchanging' => Exchanging
  BY <1>4 DEF Exchanging
<1>5. ASSUME NEW c \in Opened, disk' = [disk EXCEPT ![current] = c], UNCHANGED current
      PROVE  Fresh => disk[current] \subseteq disk'[current']
  BY <1>1, <1>5, OpenedAre DEF TypeOK
<1>6. ASSUME NEW w \in Writers, Connect(w)
      PROVE  /\ UNCHANGED <<told, pc, snapshots>>
             /\ Exchanging \/ (Fresh => Fresh' /\ disk[current] \subseteq disk'[current'])
  <2>1. Exchanging \/ (Fresh => Fresh')
    BY <1>6 DEF Connect, Fresh, Stale, Exchanging
  <2>. QED  BY <1>5, <1>6, <2>1 DEF Connect, restorers
<1>7. ASSUME NEW w \in Writers, Close(w)
      PROVE  /\ UNCHANGED <<told, pc, snapshots>>
             /\ Fresh => Fresh' /\ disk[current] \subseteq disk'[current']
  BY <1>7 DEF Close, Fresh, Stale, restorers
<1>8. ASSUME NEW w \in Writers, NEW c \in Changes, Commit(w, c)
      PROVE  /\ UNCHANGED <<told, pc, snapshots>>
             /\ Fresh => Fresh' /\ disk[current] \subseteq disk'[current']
  BY <1>1, <1>8 DEF Commit, Fresh, Stale, restorers, TypeOK
<1>9. CASE DownloadBackup \/ Tick
  <2>1. UNCHANGED <<told, pc, snapshots, current>>
    BY <1>9 DEF DownloadBackup, Tick, files, restorers
  <2>2. Fresh => Fresh' /\ disk' = disk
    BY <1>1, <1>9, VisitIs DEF DownloadBackup, Tick, files, Fresh, Stale
  <2>. QED  BY <1>3, <1>4, <2>1, <2>2
<1>10. CASE Crash
  <2>1. /\ UNCHANGED <<told, snapshots, current>> /\ wal' = None /\ exposed' = FALSE
        /\ pc' = [r \in Restorers |-> "idle"]
        /\ \E c \in Opened : disk' = [disk EXCEPT ![current] = c]
    BY <1>10 DEF Crash
  <2>2. ~Exchanging' /\ Fresh'
    BY <2>1 DEF Exchanging, Fresh, Stale
  <2>. QED  BY <1>3, <1>5, <2>1, <2>2
<1>11. ASSUME NEW r \in Restorers, UnlinkLog(r) \/ Initialize(r) \/ Fail(r)
      PROVE  /\ UNCHANGED <<told, snapshots>> /\ (Exchanging' => Exchanging)
             /\ Fresh => Fresh' /\ disk[current] \subseteq disk'[current']
  <2>1. UNCHANGED <<told, snapshots, current>>
    BY <1>11 DEF UnlinkLog, Initialize, Fail
  <2>2. Exchanging' => Exchanging
    BY <1>1, <1>11 DEF UnlinkLog, Initialize, Fail, Leave, Exchanging, TypeOK
  <2>3. Fresh => Fresh' /\ disk' = disk
    BY <1>1, <1>11, <2>1, VisitIs DEF UnlinkLog, Initialize, Fail, Fresh, Stale
  <2>. QED  BY <2>1, <2>2, <2>3
<1>12. ASSUME NEW r \in Restorers, Replace(r)
      PROVE  \A q \in Restorers : told'[q] \subseteq Safe' /\ Safe' \subseteq Certain'
  <2>1. Exchanging /\ told' = told /\ UNCHANGED snapshots
    BY <1>12 DEF Replace, Exchanging
  <2>2. Safe' \subseteq Certain'
    BY CertainIsNext DEF Sure
  <2>. QED  BY <1>1, <2>1, <2>2, SafeSame
<1>13. ASSUME NEW r \in Restorers, SafetySnapshot(r)
      PROVE  \A q \in Restorers : told'[q] \subseteq Safe' /\ Safe' \subseteq Certain'
  <2>1. told' = told
    BY <1>13 DEF SafetySnapshot
  <2>2. Safe' \subseteq Certain'
    BY CertainIsNext DEF Sure
  <2>3. Fresh => disk' = disk
    BY <1>1, <1>13, VisitIs DEF SafetySnapshot
  <2>. QED  BY <1>1, <1>2, <1>13, <2>1, <2>2, <2>3, SafeGrows
<1>14. ASSUME NEW r \in Restorers, NEW a \in archives \cup {Damaged}, Validate(r, a)
      PROVE  \A q \in Restorers : /\ told'[q] \subseteq Certain'
                                  /\ Exchanging' => told'[q] \subseteq Safe'
  <2>1. /\ told' = [told EXCEPT ![r] = answered \cap Certain]
        /\ pc' = [pc EXCEPT ![r] = "safety"]
        /\ UNCHANGED <<disk, current, wal, snapshots>>
    BY <1>14 DEF Validate, files
  <2>2. ~Exchanging'
    BY <1>1, <2>1 DEF Together, Exchanging, TypeOK
  <2>3. Certain \subseteq Certain'
    BY <1>1, <1>14, <2>1, SafeSame, CertainStays DEF Fresh, Stale, Validate, files
  <2>4. ASSUME NEW q \in Restorers PROVE told'[q] \subseteq Certain
    <3>1. told'[q] = IF q = r THEN answered \cap Certain ELSE told[q]
      BY <1>1, <2>1 DEF TypeOK
    <3>. QED  BY <1>1, <3>1
  <2>5. \A q \in Restorers : told'[q] \subseteq Certain'
    BY <2>3, <2>4
  <2>. QED  BY <2>2, <2>5
<1>15. CASE \E w \in Writers :
               Connect(w) \/ Close(w) \/ \E c \in Changes : Commit(w, c)
  <2>1. /\ UNCHANGED <<told, pc, snapshots>>
        /\ Exchanging \/ (Fresh => Fresh' /\ disk[current] \subseteq disk'[current'])
    BY <1>6, <1>7, <1>8, <1>15
  <2>. QED  BY <1>3, <1>4, <2>1
<1>16. CASE \E r \in Restorers : UnlinkLog(r) \/ Initialize(r) \/ Fail(r)
  <2>1. /\ UNCHANGED <<told, snapshots>> /\ (Exchanging' => Exchanging)
        /\ Fresh => Fresh' /\ disk[current] \subseteq disk'[current']
    BY <1>11, <1>16
  <2>. QED  BY <1>3, <2>1
<1>17. CASE \E r \in Restorers : Replace(r) \/ SafetySnapshot(r)
  BY <1>12, <1>13, <1>17
<1>18. CASE \E r \in Restorers : \E a \in archives \cup {Damaged} : Validate(r, a)
  BY <1>14, <1>18
<1>. QED  BY <1>9, <1>10, <1>15, <1>16, <1>17, <1>18 DEF Next, Step

-------------------------------------------------------------------------------
Apart == HandlersApart /\ RestorersApart

LEMMA ApartHandlers ==
    ASSUME TypeOK, TypeOK', Apart, ~(Connected /\ Restoring), ~(Connected /\ Restoring)',
           NEW w \in Writers,
           Connect(w) \/ Close(w) \/ \E c \in Changes : Commit(w, c)
    PROVE  Apart'
<1>. USE DEF Apart
<1>1. CASE Connect(w)
  <2>1. Opened = {disk[current]}
    BY OpenedAre DEF HandlersApart
  <2>2. disk' = disk
    BY <1>1, <2>1 DEF Connect, TypeOK
  <2>3. /\ conn' = [conn EXCEPT ![w] = current] /\ wal' \in {wal, current}
        /\ UNCHANGED <<current, wrote, answered, snapshots, pc>>
        /\ current # None
    BY <1>1 DEF Connect, restorers, TypeOK
  <2>4. Connected'
    BY <2>3 DEF Connected, TypeOK
  <2>5. Kept' = Kept
    BY <2>2, <2>3, SafeSame DEF Kept
  <2>6. ~exposed'
    BY <1>1, <2>3, <2>4 DEF Connect, HandlersApart, Fresh, Restoring
  <2>7. HandlersApart'
    BY <2>2, <2>3, <2>4, <2>5, <2>6 DEF HandlersApart, Fresh, Stale, TypeOK
  <2>8. RestorersApart'
    BY <2>4 DEF RestorersApart, Restoring
  <2>. QED  BY <2>7, <2>8
<1>2. CASE Close(w)
  <2>1. /\ conn[w] = current /\ current # None
        /\ conn' = [conn EXCEPT ![w] = None]
        /\ wrote' = [wrote EXCEPT ![w] = {}]
        /\ answered' = answered \cup wrote[w]
        /\ UNCHANGED <<disk, current, exposed, snapshots, pc>>
        /\ wal' = IF \A v \in Writers \ {w} : conn[v] # current THEN None ELSE wal
    BY <1>2 DEF Close, HandlersApart, restorers
  <2>2. ~Restoring'
    BY <2>1 DEF Connected, Restoring
  <2>3. ~Connected' => wal' = None
    BY <2>1 DEF Connected, HandlersApart, TypeOK
  <2>4. Kept' = Kept
    BY <2>1, SafeSame DEF Kept
  <2>5. answered' \subseteq Kept'
    BY <2>1, <2>4 DEF HandlersApart, Kept
  <2>6. HandlersApart'
    BY <2>1, <2>3, <2>5 DEF HandlersApart, Fresh, Stale, TypeOK
  <2>7. RestorersApart'
    BY <2>2 DEF RestorersApart, Restoring
  <2>. QED  BY <2>6, <2>7
<1>3. ASSUME NEW c \in Changes, Commit(w, c) PROVE Apart'
  <2>1. /\ conn[w] = current /\ conn[w] # None
        /\ disk' = [disk EXCEPT ![current] = @ \cup {c}]
        /\ wrote' = [wrote EXCEPT ![w] = {c}]
        /\ UNCHANGED <<current, wal, exposed, conn, answered, snapshots, pc>>
    BY <1>3 DEF Commit, HandlersApart, restorers
  <2>2. disk'[current] = disk[current] \cup {c}
    BY <2>1 DEF TypeOK
  <2>3. Connected'
    BY <2>1 DEF Connected
  <2>4. Kept \subseteq Kept'
    BY <2>1, <2>2, SafeSame DEF Kept
  <2>5. HandlersApart'
    BY <2>1, <2>2, <2>3, <2>4 DEF HandlersApart, Fresh, Stale, TypeOK
  <2>6. RestorersApart'
    BY <2>3 DEF RestorersApart, Restoring
  <2>. QED  BY <2>5, <2>6
<1>. QED  BY <1>1, <1>2, <1>3

LEMMA ApartRestorers ==
    ASSUME TypeOK, TypeOK', Apart, ~(Connected /\ Restoring), ~(Connected /\ Restoring)',
           ~Together', NEW r \in Restorers,
           \/ \E a \in archives \cup {Damaged} : Validate(r, a)
           \/ SafetySnapshot(r) \/ Replace(r) \/ UnlinkLog(r) \/ Initialize(r) \/ Fail(r)
    PROVE  Apart'
<1>. USE DEF Apart
<1>1. /\ UNCHANGED <<conn, wrote, answered>>
      /\ \A q \in Restorers \ {r} : pc'[q] = pc[q]
  BY DEF Validate, SafetySnapshot, Replace, UnlinkLog, Initialize, Fail, Leave, handlers, TypeOK
<1>2. ASSUME UNCHANGED <<disk, current>>, Fresh', wal' = wal \/ wal' = None \/ Connected,
             Safe \subseteq Safe'
      PROVE  HandlersApart'
  <2>1. Kept \subseteq Kept'
    BY <1>2 DEF Kept
  <2>2. Connected' = Connected
    BY <1>1 DEF Connected
  <2>. QED  BY <1>1, <1>2, <2>1, <2>2 DEF HandlersApart
<1>3. ASSUME NEW a \in archives \cup {Damaged}, Validate(r, a) PROVE Apart'
  <2>1. UNCHANGED <<disk, current, wal, exposed, snapshots>> /\ pc'[r] = "safety"
    BY <1>3 DEF Validate, files, TypeOK
  <2>2. RestorersApart'
    BY <1>1, <2>1, SafeSame DEF RestorersApart
  <2>. QED  BY <1>2, <2>1, <2>2, SafeSame DEF HandlersApart, Fresh, Stale
<1>4. CASE SafetySnapshot(r)
  <2>1. UNCHANGED current /\ pc'[r] = "replace"
    BY <1>4 DEF SafetySnapshot, TypeOK
  <2>2. Safe \subseteq Safe' /\ disk'[current] \subseteq Safe'
    BY <1>4, SafeGrows
  <2>3. Fresh' /\ disk' = disk
    BY <1>4, <2>1, VisitIs DEF SafetySnapshot, HandlersApart
  <2>4. wal' = None \/ Connected
    BY <1>4 DEF SafetySnapshot, Visit, Connected, TypeOK
  <2>5. RestorersApart'
    BY <1>1, <2>1, <2>2, <2>3 DEF RestorersApart
  <2>. QED  BY <1>2, <2>1, <2>2, <2>3, <2>4, <2>5
<1>5. CASE Replace(r)
  <2>1. /\ pc[r] = "replace" /\ pc'[r] = "unlink"
        /\ current' = current + 1 /\ current < MaxFiles
        /\ exposed' = FALSE
        /\ UNCHANGED <<wal, snapshots, upload>>
    BY <1>5 DEF Replace, TypeOK
  <2>3. ~Connected
    BY <2>1 DEF Restoring
  <2>4. answered \subseteq Safe /\ Safe' = Safe
    BY <2>1, SafeSame DEF HandlersApart, RestorersApart, Kept
  <2>5. answered' \subseteq Kept'
    BY <1>1, <2>4 DEF Kept
  <2>6. HandlersApart'
    BY <1>1, <2>1, <2>3, <2>5 DEF HandlersApart, Fresh, Stale, Connected
  <2>7. \A q \in Restorers \ {r} : pc'[q] = "idle"
    BY <2>1 DEF Together
  <2>8. RestorersApart'
    BY <2>1, <2>7 DEF RestorersApart
  <2>. QED  BY <2>6, <2>8
<1>6. CASE UnlinkLog(r)
  <2>1. /\ pc[r] = "unlink" /\ pc'[r] = "initialize" /\ wal' = None
        /\ UNCHANGED <<disk, current, exposed, snapshots, upload>>
    BY <1>6 DEF UnlinkLog, TypeOK
  <2>2. RestorersApart'
    BY <1>1, <2>1, SafeSame DEF RestorersApart
  <2>. QED  BY <1>2, <2>1, <2>2, SafeSame DEF HandlersApart, Fresh, Stale
<1>7. CASE Initialize(r) \/ Fail(r)
  <2>1. pc'[r] = "idle" /\ UNCHANGED <<current, snapshots>>
    BY <1>7 DEF Initialize, Fail, Leave, TypeOK
  <2>2. Fresh' /\ disk' = disk
    BY <1>7, <2>1, VisitIs DEF Initialize, Fail, HandlersApart, Fresh, Stale
  <2>3. wal' = wal \/ wal' = None \/ Connected
    BY <1>7 DEF Initialize, Fail, Visit, Connected, TypeOK
  <2>4. RestorersApart'
    BY <1>1, <2>1, <2>2, SafeSame DEF RestorersApart
  <2>. QED  BY <1>2, <2>1, <2>2, <2>3, <2>4, SafeSame
<1>. QED  BY <1>3, <1>4, <1>5, <1>6, <1>7

LEMMA ApartCrash ==
    ASSUME TypeOK, TypeOK', Apart, Crash
    PROVE  Apart'
<1>1. Opened = {disk[current]}
  BY OpenedAre DEF Apart, HandlersApart
<1>2. disk' = disk
  BY <1>1 DEF Crash, TypeOK
<1>3. Kept' = Kept
  BY <1>2, SafeSame DEF Crash, Kept
<1>4. HandlersApart'
  BY <1>2, <1>3 DEF Apart, Crash, HandlersApart, Fresh, Stale
<1>5. RestorersApart'
  BY DEF Crash, RestorersApart
<1>. QED  BY <1>4, <1>5 DEF Apart

LEMMA ApartStep ==
    ASSUME RestoreInv, Next, TypeOK', overlapped' = {}
    PROVE  Apart'
<1>1. overlapped = {} /\ Meetings' = {} /\ Meetings = {}
  BY DEF Next, RestoreInv
<1>2. /\ ~(Connected /\ Restoring) /\ ~(Connected /\ Restoring)' /\ ~Together'
      /\ TypeOK /\ Apart
  BY <1>1 DEF Meetings, RestoreInv, Apart
<1>3. CASE DownloadBackup \/ Tick
  <2>1. UNCHANGED <<current, conn, wrote, answered, snapshots, pc>>
    BY <1>3 DEF DownloadBackup, Tick, files, handlers, restorers
  <2>2. Fresh' /\ disk' = disk
    BY <1>2, <1>3, <2>1, VisitIs
       DEF DownloadBackup, Tick, files, Apart, HandlersApart, Fresh, Stale
  <2>3. ~Connected' => wal' = None
    BY <1>2, <1>3, <2>1
       DEF DownloadBackup, Visit, Tick, files, Connected, Apart, HandlersApart, TypeOK
  <2>4. Kept' = Kept /\ Safe' = Safe
    BY <2>1, <2>2, SafeSame DEF Kept
  <2>. QED  BY <1>2, <2>1, <2>2, <2>3, <2>4 DEF Apart, HandlersApart, RestorersApart
<1>. QED  BY <1>2, <1>3, ApartHandlers, ApartRestorers, ApartCrash DEF Next, Step

(* Only one restoration is at work, or it has met another one.             *)
LEMMA ExchangeStep ==
    ASSUME RestoreInv, Next, TypeOK'
    PROVE  ExchangeInv'
<1>1. /\ TypeOK
      /\ \A w \in Writers : conn[w] # None => conn[w] <= current
  BY DEF RestoreInv, ExchangeInv
<1>2. \A w \in Writers : conn'[w] # None => conn'[w] <= current'
  <2>1. \A w \in Writers : conn'[w] \in {conn[w], None, current}
    BY <1>1 DEF Next, Step, Connect, Close, Commit, Validate, SafetySnapshot, Replace,
                UnlinkLog, Initialize, Fail, DownloadBackup, Crash, Tick, handlers, TypeOK
  <2>2. current' = current \/ current' = current + 1
    BY DEF Next, Step, Connect, Close, Commit, Validate, SafetySnapshot, Replace,
           UnlinkLog, Initialize, Fail, DownloadBackup, Crash, Tick, files
  <2>3. ASSUME NEW w \in Writers, conn'[w] # None PROVE conn'[w] <= current'
    <3>1. /\ conn[w] \in 1..MaxFiles \cup {None} /\ current \in 1..MaxFiles
          /\ conn[w] # None => conn[w] <= current
      BY <1>1 DEF TypeOK
    <3>2. conn'[w] \in 1..current
      BY <2>1, <2>3, <3>1
    <3>. QED  BY <2>2, <3>1, <3>2
  <2>. QED  BY <2>3
<1>3. SUFFICES ASSUME ~exposed', "restoration" \notin overlapped',
                      NEW q \in Restorers
               PROVE  Exchanged(q)'
  BY <1>2 DEF ExchangeInv
<1>4. ~Together /\ ~Together' /\ "restoration" \notin overlapped
  BY <1>3 DEF Next, Meetings, RestoreInv
<1>5. exposed \/ Exchanged(q)
  BY <1>4 DEF RestoreInv, ExchangeInv
<1>6. ASSUME NEW r \in Restorers, r # q, pc[r] # "idle" \/ pc'[r] # "idle",
             pc'[q] = pc[q]
      PROVE  Exchanged(q)'
  <2>1. pc'[q] = "idle"
    BY <1>4, <1>6 DEF Together
  <2>. QED  BY <2>1 DEF Exchanged
<1>7. ASSUME NEW c \in Opened, ~Stale, ~exposed, disk' = [disk EXCEPT ![current] = c]
      PROVE  disk' = disk
  BY <1>1, <1>7, OpenedAre DEF Fresh, TypeOK
<1>8. ASSUME NEW w \in Writers, Connect(w) PROVE Exchanged(q)'
  <2>1. ~Stale /\ ~exposed /\ pc[q] # "unlink" /\ UNCHANGED <<pc, upload, since, current>>
    BY <1>3, <1>8 DEF Connect, restorers
  <2>2. disk' = disk
    BY <1>7, <1>8, <2>1 DEF Connect
  <2>3. ~Stale'
    BY <1>8, <2>1 DEF Connect, Stale
  <2>. QED  BY <1>5, <2>1, <2>2, <2>3 DEF Exchanged
<1>9. ASSUME NEW w \in Writers, Close(w) PROVE Exchanged(q)'
  <2>1. /\ UNCHANGED <<pc, upload, since, current, disk, exposed>>
        /\ conn' = [conn EXCEPT ![w] = None] /\ wal' \in {wal, None}
    BY <1>9 DEF Close, restorers
  <2>. QED  BY <1>1, <1>3, <1>5, <2>1 DEF Exchanged, Stale, TypeOK
<1>10. ASSUME NEW w \in Writers, NEW c \in Changes, Commit(w, c) PROVE Exchanged(q)'
  <2>1. /\ UNCHANGED <<pc, upload, current, wal, exposed, conn>> /\ conn[w] # None
        /\ disk' = [disk EXCEPT ![conn[w]] = @ \cup {c}]
        /\ since' = IF conn[w] = current /\ Restoring THEN since \cup {c} ELSE since
    BY <1>10 DEF Commit, restorers
  <2>2. CASE conn[w] # current
    <3>1. disk'[current] = disk[current] /\ since' = since
      BY <1>1, <2>1, <2>2 DEF TypeOK
    <3>. QED  BY <1>3, <1>5, <2>1, <3>1 DEF Exchanged, Stale
  <2>3. CASE conn[w] = current
    <3>1. disk'[current] = disk[current] \cup {c}
      BY <1>1, <2>1, <2>3 DEF TypeOK
    <3>2. pc[q] = "initialize" => since' = since \cup {c}
      BY <2>1, <2>3 DEF Restoring
    <3>. QED  BY <1>3, <1>5, <2>1, <2>3, <3>1, <3>2 DEF Exchanged, Stale
  <2>. QED  BY <2>2, <2>3
<1>11. ASSUME NEW r \in Restorers, Replace(r) PROVE Exchanged(q)'
  <2>1. /\ pc' = [pc EXCEPT ![r] = "unlink"] /\ current' = current + 1 /\ current < MaxFiles
        /\ disk' = [disk EXCEPT ![current'] = upload[r]]
        /\ since' = {} /\ UNCHANGED <<conn, upload>>
    BY <1>11 DEF Replace, handlers
  <2>2. CASE q = r
    <3>1. disk'[current'] = upload[r] /\ pc'[q] = "unlink"
      BY <1>1, <2>1, <2>2 DEF TypeOK
    <3>2. \A w \in Writers : conn'[w] # current'
      BY <1>1, <2>1 DEF TypeOK
    <3>. QED  BY <2>1, <2>2, <3>1, <3>2 DEF Exchanged
  <2>3. CASE q # r
    BY <1>1, <1>6, <2>1, <2>3 DEF TypeOK
  <2>. QED  BY <2>2, <2>3
<1>12. ASSUME NEW r \in Restorers, UnlinkLog(r) PROVE Exchanged(q)'
  <2>1. /\ pc[r] = "unlink" /\ pc' = [pc EXCEPT ![r] = "initialize"] /\ wal' = None
        /\ UNCHANGED <<disk, current, exposed, since, conn, upload>>
    BY <1>12 DEF UnlinkLog, handlers
  <2>2. CASE q = r
    BY <1>1, <1>3, <1>5, <2>1, <2>2 DEF Exchanged, Stale, TypeOK
  <2>3. CASE q # r
    BY <1>1, <1>6, <2>1, <2>3 DEF TypeOK
  <2>. QED  BY <2>2, <2>3
<1>13. ASSUME NEW r \in Restorers,
              \/ SafetySnapshot(r) \/ Initialize(r) \/ Fail(r)
              \/ \E a \in archives \cup {Damaged} : Validate(r, a)
       PROVE  Exchanged(q)'
  <2>1. PICK x \in {"safety", "replace", "idle"} :
           pc' = [pc EXCEPT ![r] = x] /\ (pc[r] # "idle" \/ x # "idle")
    BY <1>13 DEF SafetySnapshot, Initialize, Fail, Leave, Validate
  <2>2. CASE q = r
    BY <1>1, <2>1, <2>2 DEF Exchanged, TypeOK
  <2>3. CASE q # r
    BY <1>1, <1>6, <2>1, <2>3 DEF TypeOK
  <2>. QED  BY <2>2, <2>3
<1>14. CASE DownloadBackup
  <2>1. PICK c \in Opened : Visit(c)
    BY <1>14 DEF DownloadBackup
  <2>2. UNCHANGED <<current, since, conn, pc, upload>> /\ ~Stale /\ ~exposed
    BY <1>3, <1>14, <2>1 DEF DownloadBackup, Visit, handlers, restorers
  <2>3. disk' = disk /\ ~Stale'
    BY <1>1, <2>1, <2>2, VisitIs DEF Fresh
  <2>. QED  BY <1>5, <2>2, <2>3 DEF Exchanged
<1>15. CASE Tick
  BY <1>3, <1>5, <1>15 DEF Tick, files, handlers, restorers, Exchanged, Stale
<1>16. CASE Crash
  BY <1>16 DEF Crash, Exchanged
<1>. QED  BY <1>8, <1>9, <1>10, <1>11, <1>12, <1>13, <1>14, <1>15, <1>16 DEF Next, Step

LEMMA RestoreStep ==
    ASSUME RestoreInv, [Next]_vars
    PROVE  RestoreInv'
<1>1. CASE Next
  <2>1. TypeOK'
    BY <1>1, RestoreTypeStep DEF RestoreInv
  <2>2. Meetings' \subseteq overlapped'
    BY <1>1 DEF Next
  <2>. QED  BY <1>1, <2>1, <2>2, ToldStep, ExchangeStep, ApartStep DEF RestoreInv, Apart
<1>2. CASE UNCHANGED vars
  <2>1. /\ UNCHANGED <<disk, current, wal, conn, wrote, answered, archives, second>>
        /\ UNCHANGED <<exposed, since>>
        /\ UNCHANGED <<safety, overwritten, pc, upload, told, overlapped>>
    BY <1>2 DEF vars, files, handlers, restorers, snapshots
  <2>2. TypeOK'
    BY <2>1 DEF RestoreInv, TypeOK
  <2>3. Meetings' = Meetings
    BY <2>1 DEF Meetings, Connected, Restoring, Together
  <2>4. Safe' = Safe /\ Kept' = Kept /\ Certain' = Certain
    BY <2>1 DEF Safe, Kept, Certain, Opened, Snapshots, Stale
  <2>5. ToldInv'
    BY <2>1, <2>4 DEF RestoreInv, ToldInv, Exchanging
  <2>6. overlapped = {} => HandlersApart' /\ RestorersApart'
    BY <2>1, <2>4 DEF RestoreInv, HandlersApart, RestorersApart, Fresh, Stale, Connected
  <2>7. ExchangeInv'
    BY <2>1 DEF RestoreInv, ExchangeInv, Exchanged, Stale
  <2>. QED  BY <2>1, <2>2, <2>3, <2>5, <2>6, <2>7 DEF RestoreInv
<1>. QED  BY <1>1, <1>2

(* Every state a restoration can leave satisfies the invariant. *)
THEOREM RestoreInvariant == Spec => []RestoreInv
BY RestoreInitial, RestoreStep, PTL DEF Spec

(* Files, connections, snapshots and restorations keep their types. *)
THEOREM RestoreTypeCorrect == Spec => []TypeOK
<1>1. RestoreInv => TypeOK
  BY DEF RestoreInv
<1>. QED  BY <1>1, RestoreInvariant, PTL

(* However many requests restore, however often one fails or the process   *)
(* dies: what was answered is kept, if nobody was met; and what was        *)
(* answered before an upload is kept whatever handlers do meanwhile.       *)
THEOREM AnsweredCorrect == Spec => []AnsweredSurvives
<1>1. RestoreInv => AnsweredSurvives
  BY DEF RestoreInv, AnsweredSurvives, ToldInv, HandlersApart, Certain
<1>. QED  BY <1>1, RestoreInvariant, PTL

LEMMA ExactStep ==
    ASSUME RestoreInv, Next, NEW r \in Restorers, pc[r] = "initialize", pc'[r] = "idle",
           ~exposed, "restoration" \notin overlapped
    PROVE  disk' = disk
<1>1. TypeOK /\ Fresh
  BY DEF RestoreInv, ExchangeInv, Exchanged, Fresh
<1>2. Opened = {disk[current]}
  BY <1>1, OpenedAre
<1>3. ASSUME NEW c \in Opened, disk' = [disk EXCEPT ![current] = c] PROVE disk' = disk
  BY <1>1, <1>2, <1>3 DEF TypeOK
<1>4. CASE Crash
  BY <1>1, <1>3, <1>4 DEF Crash
<1>5. ASSUME NEW q \in Restorers, Initialize(q) PROVE disk' = disk
  BY <1>3, <1>5 DEF Initialize, Visit
<1>6. ASSUME NEW q \in Restorers,
             \/ \E a \in archives \cup {Damaged} : Validate(q, a)
             \/ SafetySnapshot(q) \/ Replace(q) \/ UnlinkLog(q) \/ Fail(q)
      PROVE  disk' = disk
  BY <1>1, <1>6 DEF Validate, SafetySnapshot, Replace, UnlinkLog, Fail, files, TypeOK
<1>7. CASE DownloadBackup \/ Tick
  BY <1>7 DEF DownloadBackup, Tick, restorers
<1>8. ASSUME NEW w \in Writers, Connect(w) \/ Close(w) \/ \E c \in Changes : Commit(w, c)
      PROVE  FALSE
  BY <1>8 DEF Connect, Close, Commit, restorers
<1>. QED  BY <1>1, <1>4, <1>5, <1>6, <1>7, <1>8 DEF Next, Step

(* A restoration that ends after the exchange leaves the uploaded state    *)
(* and what was committed on top of it, however busy the handlers were on  *)
(* the old file; unless one had opened the new file before the log was     *)
(* removed, or another restoration was met.                                *)
THEOREM ExactCorrect == Spec => RestoredExactly
<1>. DEFINE Exact == \A r \in Restorers :
          pc[r] = "initialize" /\ pc'[r] = "idle" =>
              \/ upload[r] \subseteq disk'[current]
                 /\ disk'[current] \subseteq upload[r] \cup since
              \/ exposed \/ "restoration" \in overlapped
<1>1. ASSUME RestoreInv, [Next]_vars PROVE [Exact]_vars
  <2>. SUFFICES ASSUME Next, NEW r \in Restorers, pc[r] = "initialize", pc'[r] = "idle",
                       ~exposed, "restoration" \notin overlapped
                PROVE  /\ upload[r] \subseteq disk'[current]
                       /\ disk'[current] \subseteq upload[r] \cup since
    BY <1>1
  <2>1. disk' = disk
    BY <1>1, ExactStep
  <2>. QED  BY <1>1, <2>1 DEF RestoreInv, ExchangeInv, Exchanged
<1>. HIDE DEF Exact
<1>2. Spec => [][Exact]_vars
  BY <1>1, RestoreInvariant, PTL DEF Spec
<1>. QED  BY <1>2 DEF RestoredExactly, Exact

-------------------------------------------------------------------------------
(* Automatic backups. *)

(* Backups newer than b, and the backups and runs that matter to pruning.  *)
Newer(b) == {c \in backups : c > b}
Older(b) == {c \in backups : c < b}
IsTop(m, set) == m \in set /\ \A e \in set : e <= m
Prunes(w, m) == rpc[w] = "prune" /\ IsTop(m, expired[w])

(* Where savers, runs and the files they hold are.                         *)
PlaceInv ==
    /\ \A s \in Savers : fd[s] # Absent => spc[s] = "write"
    /\ \A s \in Savers : spc[s] = "write" => fd[s] \in Files
    /\ \A s \in Savers : spc[s] # "run" => rpc[s] = "idle"
    /\ \A x \in Runners : rpc[x] # "prune" => expired[x] = {}

(* What a run is about to unlink is outdated, whatever the others unlink,  *)
(* and it is all of the backups from some point downwards.                 *)
ExpiredInv ==
    \A x \in Runners : \A b \in expired[x] :
        /\ Cardinality(Newer(b)) >= Keep
        /\ \A c \in Older(b) : c \in expired[x]

(* Where a run finds a backup gone, the one who unlinked it goes on below. *)
HandedOver ==
    \A x \in Runners : \A e \in expired[x] \ backups : \A m \in backups :
        IsTop(m, Older(e)) => \E w \in Runners : Prunes(w, m)

(* Unless a run has yet to look, somebody is at work on what is outdated.  *)
AtWorkInv ==
    (\A x \in Runners : rpc[x] # "list") =>
        \A m \in backups : IsTop(m, Outdated) => \E w \in Runners : Prunes(w, m)

(* Unless saves overlap, a saver has the temporary file for itself.        *)
FileInv == setTmp = Absent \/ setTmp # setFile
Own(s) ==
    /\ spc[s] = "write" => fd[s] = setTmp /\ setTmp \in Files /\ fd[s] \notin filled
    /\ spc[s] = "replace" => setTmp \in Files /\ content[setTmp] = want[s]
    /\ Saving(s) /\ Config.password # Absent => want[s].password # Absent
AloneInv ==
    /\ Clash => clashed
    /\ clashed \/ \A s \in Savers : Own(s)

AutoInv == AutoTypeOK /\ PlaceInv /\ ExpiredInv /\ HandedOver /\ AtWorkInv
           /\ FileInv /\ AloneInv

LEMMA LeastExists ==
    ASSUME NEW T \in SUBSET Nat, T # {}
    PROVE  \E n \in T : \A m \in T : n <= m
<1>. DEFINE Less == OpToRel(<, Nat)
<1>1. IsWellFoundedOn(Less, Nat)
  BY NatLessThanWellFounded
<1>2. \A m, n \in Nat : m < n => <<m, n>> \in Less
  BY DEF OpToRel
<1>. HIDE DEF Less
<1>3. PICK n \in T : \A m \in T : ~(<<m, n>> \in Less)
  BY <1>1, WFMin, Zenon
<1>4. ASSUME NEW m \in T PROVE n <= m
  <2>1. m \in Nat /\ n \in Nat
    OBVIOUS
  <2>2. ~(m < n)
    BY <1>2, <1>3, <2>1, Zenon
  <2>. QED  BY <2>1, <2>2
<1>. QED  BY <1>4

LEMMA TopExists ==
    ASSUME NEW n \in Nat, NEW S \in SUBSET (0..n), S # {}
    PROVE  \E m \in S : IsTop(m, S)
<1>. DEFINE T == {k \in Nat : n - k \in S}
<1>1. PICK x \in S : TRUE
  OBVIOUS
<1>2. n - x \in T
  BY <1>1
<1>3. PICK k \in T : \A j \in T : k <= j
  BY <1>2, LeastExists
<1>4. n - k \in S /\ k \in Nat
  BY <1>3
<1>5. ASSUME NEW e \in S PROVE e <= n - k
  <2>1. e \in 0..n /\ n - (n - e) = e
    OBVIOUS
  <2>2. n - e \in T
    BY <2>1
  <2>3. k <= n - e
    BY <1>3, <2>2
  <2>. QED  BY <1>4, <2>1, <2>3
<1>. QED  BY <1>4, <1>5 DEF IsTop

LEMMA MaxIsTop ==
    ASSUME NEW n \in Nat, NEW S \in SUBSET (0..n), S # {}
    PROVE  IsTop(Max(S), S)
<1>1. \E m \in S : \A e \in S : m >= e
  BY TopExists DEF IsTop
<1>. QED  BY <1>1 DEF Max, IsTop

LEMMA BottomExists ==
    ASSUME NEW n \in Nat, NEW S \in SUBSET (0..n), S # {}
    PROVE  \E m \in S : \A e \in S : m <= e
BY LeastExists

(* Sets of times are finite, and their cardinalities natural numbers. *)
LEMMA TimesFinite ==
    ASSUME NEW n \in Nat, NEW S \in SUBSET (0..n)
    PROVE  IsFiniteSet(S) /\ Cardinality(S) \in Nat
<1>1. IsFiniteSet(0..n)
  BY FS_Interval
<1>2. IsFiniteSet(S)
  BY <1>1, FS_Subset
<1>. QED  BY <1>2, FS_CardinalityType

LEMMA TimesCount ==
    ASSUME NEW n \in Nat, NEW S \in SUBSET (0..n), NEW T \in SUBSET S
    PROVE  Cardinality(T) <= Cardinality(S)
BY TimesFinite, FS_Subset

LEMMA FileFree ==
    ASSUME NEW s \in Savers
    PROVE  fd \in [Savers -> Files \cup {Absent}] =>
           \E f \in Files : f # setFile /\ \A v \in Savers \ {s} : fd[v] # f
<1>. DEFINE Others == Savers \ {s}
            Open == {fd[v] : v \in Others}
            Used == Open \cup {setFile}
            N == Cardinality(Savers)
<1>1. IsFiniteSet(Savers) /\ N \in Nat /\ IsFiniteSet(Others) /\ Cardinality(Others) = N - 1
  BY SaversAssumption, FS_CardinalityType, FS_RemoveElement
<1>2. IsFiniteSet(Open) /\ Cardinality(Open) <= N - 1 /\ Cardinality(Open) \in Nat
  <2>. DEFINE open == [v \in Others |-> fd[v]]
  <2>1. open \in Surjection(Others, Open)
    BY DEF Surjection
  <2>. HIDE DEF open
  <2>2. IsFiniteSet(Open) /\ Cardinality(Open) <= Cardinality(Others)
    BY <2>1, <1>1, FS_Surjection
  <2>. QED  BY <2>2, <1>1, FS_CardinalityType
<1>3. IsFiniteSet(Used) /\ Cardinality(Used) <= N /\ Cardinality(Used) \in Nat
  <2>. HIDE DEF Open
  <2>1. IsFiniteSet(Open \cup {setFile})
        /\ (Cardinality(Open \cup {setFile}) = Cardinality(Open)
            \/ Cardinality(Open \cup {setFile}) = Cardinality(Open) + 1)
    BY <1>2, FS_AddElement
  <2>. QED  BY <1>1, <1>2, <2>1
<1>4. Cardinality(Files) = N + 1
  BY <1>1, FS_Interval DEF Files
<1>5. ASSUME Files \subseteq Used PROVE FALSE
  <2>1. Cardinality(Files) <= Cardinality(Used)
    BY <1>3, <1>5, FS_Subset
  <2>. QED  BY <1>1, <1>3, <1>4, <2>1
<1>. QED  BY <1>5

-------------------------------------------------------------------------------
HIDE NoneAssumption
HIDE BoundAssumption
USE SaversAssumption, AutoBoundAssumption, AbsentAssumption
USE DEF Runners

AutoPlace == AutoTypeOK /\ PlaceInv

LEMMA AutoInitial == AutoInit => AutoInv
<1> SUFFICES ASSUME AutoInit PROVE AutoInv
  OBVIOUS
<1>1. AutoTypeOK
  <2>1. NoSettings \in Setting
    BY DEF Setting, NoSettings
  <2>2. MaxTime \in Nat
    OBVIOUS
  <2>3. now \in 0..MaxTime
    BY <2>2 DEF AutoInit
  <2>. QED  BY <2>1, <2>3 DEF AutoInit, AutoTypeOK
<1>2. PlaceInv
  BY DEF AutoInit, PlaceInv
<1>3. ExpiredInv /\ HandedOver
  BY DEF AutoInit, ExpiredInv, HandedOver
<1>4. AtWorkInv
  BY DEF AutoInit, AtWorkInv
<1>5. FileInv /\ AloneInv
  BY DEF AutoInit, FileInv, AloneInv, Clash, Saving, Own
<1>. QED  BY <1>1, <1>2, <1>3, <1>4, <1>5 DEF AutoInv

LEMMA SettingsPlace ==
    ASSUME AutoPlace, NEW s \in Savers, SaveStep(s), clashed' \in BOOLEAN
    PROVE  AutoPlace'
<1>. USE DEF AutoPlace, AutoTypeOK, PlaceInv
<1>1. CASE OpenSettings(s)
  <2>1. setTmp' \in Files
    <3>1. CASE setTmp # Absent
      BY <1>1, <3>1 DEF OpenSettings
    <3>2. CASE setTmp = Absent
      <4>1. fd[s] = Absent
        BY <1>1 DEF OpenSettings
      <4>2. \E f \in Files : f # setFile /\ \A v \in Savers : fd[v] # f
        BY <4>1, FileFree
      <4>. QED  BY <1>1, <3>2, <4>2, Zenon DEF OpenSettings
    <3>. QED  BY <3>1, <3>2
  <2>2. NoSettings \in Setting
    BY DEF Setting, NoSettings
  <2>3. /\ content' = [content EXCEPT ![setTmp'] = NoSettings]
        /\ fd' = [fd EXCEPT ![s] = setTmp']
        /\ filled' = filled \ {setTmp'}
        /\ spc' = [spc EXCEPT ![s] = "write"]
        /\ spc[s] = "open"
        /\ UNCHANGED <<now, setFile, want, backups, rpc, expired>>
    BY <1>1 DEF OpenSettings, runs
  <2>4. AutoTypeOK'
    BY <2>1, <2>2, <2>3
  <2>5. PlaceInv'
    BY <2>1, <2>3
  <2>. QED  BY <2>4, <2>5
<1>2. CASE WriteSettings(s)
  <2>1. NoSettings \in Setting
    BY DEF Setting, NoSettings
  <2>. QED  BY <1>2, <2>1 DEF WriteSettings, runs
<1>3. CASE ReplaceSettings(s)
  BY <1>3 DEF ReplaceSettings
<1>4. CASE ReplaceFails(s)
  BY <1>4 DEF ReplaceFails, runs
<1>. QED  BY <1>1, <1>2, <1>3, <1>4 DEF SaveStep

LEMMA RunPlace ==
    ASSUME AutoPlace, NEW x \in Runners, RunStep(x) \/ (x = Worker /\ Wake),
           clashed' \in BOOLEAN
    PROVE  AutoPlace'
<1>. USE DEF AutoPlace, AutoTypeOK, PlaceInv
<1>1. ASSUME End(x), rpc[x] # "idle", UNCHANGED <<now, notSpc, backups>>
      PROVE  AutoPlace'
  BY <1>1 DEF End, notSpc
<1>2. ASSUME NEW where \in {"read", "due", "create", "list"}, Go(x, where),
             rpc[x] # "idle" \/ x = Worker, rpc[x] # "prune",
             backups' \subseteq 0..now, UNCHANGED <<now, notSpc>>
      PROVE  AutoPlace'
  BY <1>2 DEF Go, notSpc
<1>3. CASE ReadConfig(x)
  BY <1>1, <1>2, <1>3 DEF ReadConfig
<1>4. CASE CheckDue(x)
  BY <1>1, <1>2, <1>4 DEF CheckDue
<1>5. CASE StatFails(x)
  BY <1>1, <1>5 DEF StatFails
<1>6. CASE Create(x)
  <2>1. now \in 0..now /\ backups' = backups \cup {now} /\ rpc[x] = "create"
        /\ Go(x, "list") /\ UNCHANGED <<now, notSpc>>
    BY <1>6 DEF Create
  <2>. QED  BY <1>2, <2>1
<1>7. CASE CreateFails(x)
  BY <1>1, <1>7 DEF CreateFails
<1>8. CASE ListBackups(x)
  BY <1>8 DEF ListBackups, Outdated, notSpc
<1>9. CASE Prune(x)
  BY <1>9 DEF Prune, notSpc
<1>10. CASE PruneEnds(x)
  BY <1>1, <1>10 DEF PruneEnds
<1>11. CASE x = Worker /\ Wake
  BY <1>2, <1>11 DEF Wake
<1>. QED  BY <1>3, <1>4, <1>5, <1>6, <1>7, <1>8, <1>9, <1>10, <1>11 DEF RunStep

LEMMA PlaceStep ==
    ASSUME AutoPlace, AutoNext
    PROVE  AutoPlace'
<1>1. clashed' \in BOOLEAN
  BY DEF AutoPlace, AutoTypeOK, AutoNext
<1>2. ASSUME NEW s \in Savers, NEW e \in BOOLEAN, NEW p \in Passwords \cup {Absent},
             ReadSettings(s, e, p)
      PROVE  AutoPlace'
  <2>1. Config.password \in Passwords \cup {Absent}
    BY DEF AutoPlace, AutoTypeOK, Config, Setting, NoSettings
  <2>2. Merged(e, p) \in Setting
    BY <2>1 DEF Merged, Setting
  <2>. QED  BY <1>1, <1>2, <2>2
         DEF AutoPlace, AutoTypeOK, PlaceInv, ReadSettings, runs
<1>3. CASE AutoTick
  BY <1>1, <1>3 DEF AutoPlace, AutoTypeOK, PlaceInv, AutoTick, settings, runs
<1>. QED  BY <1>1, <1>2, <1>3, SettingsPlace, RunPlace DEF AutoNext, AutoStep

(* Saving and reading the settings. *)
AutoFiles == AutoPlace /\ FileInv /\ AloneInv

LEMMA RunFiles ==
    ASSUME AutoFiles, NEW x \in Runners, RunStep(x) \/ (x = Worker /\ Wake),
           clashed' = (clashed \/ Clash')
    PROVE  FileInv' /\ AloneInv' /\ Config' = Config
<1>1. UNCHANGED notSpc
  BY DEF RunStep, ReadConfig, CheckDue, StatFails, Create, CreateFails, ListBackups,
         Prune, PruneEnds, Wake
<1>2. \A s \in Savers : spc'[s] = spc[s] \/ (spc'[s] = "idle" /\ s = x)
  BY DEF RunStep, ReadConfig, CheckDue, StatFails, Create, CreateFails, ListBackups,
         Prune, PruneEnds, Wake, End, Go, AutoFiles, AutoPlace, AutoTypeOK
<1>3. Config' = Config
  BY <1>1 DEF notSpc, Config
<1>4. FileInv'
  BY <1>1 DEF notSpc, FileInv, AutoFiles
<1>5. \A s \in Savers : spc'[s] \in {"write", "replace", "open"} => spc'[s] = spc[s]
  BY <1>2
<1>6. AloneInv'
  BY <1>1, <1>3, <1>5 DEF notSpc, AloneInv, AutoFiles, Saving, Clash, Own
<1>. QED  BY <1>3, <1>4, <1>6

(* Where two requests save at once, clashed is set. *)
LEMMA SaverAlone ==
    ASSUME AutoFiles, clashed' = (clashed \/ Clash'), ~clashed',
           NEW s \in Savers, Saving(s) \/ Saving(s)',
           \A v \in Savers \ {s} : spc'[v] = spc[v]
    PROVE  /\ ~clashed
           /\ \A v \in Savers \ {s} : ~Saving(v) /\ ~Saving(v)'
BY DEF AutoFiles, AloneInv, Clash, Saving

LEMMA SaveFiles ==
    ASSUME AutoFiles, NEW s \in Savers,
           SaveStep(s) \/ \E e \in BOOLEAN, p \in Passwords \cup {Absent} :
                              ReadSettings(s, e, p),
           clashed' = (clashed \/ Clash')
    PROVE  /\ FileInv' /\ AloneInv'
           /\ clashed' \/ Config' = Config
                \/ /\ spc[s] = "replace" /\ Config' = want[s]
                   /\ Config.password # Absent => Config'.password # Absent
<1>. USE DEF AutoFiles, AutoPlace, AutoTypeOK
<1>1. \A v \in Savers \ {s} : spc'[v] = spc[v]
  BY DEF SaveStep, ReadSettings, OpenSettings, WriteSettings, ReplaceSettings,
         ReplaceFails
<1>2. Saving(s) \/ Saving(s)'
  BY DEF SaveStep, ReadSettings, OpenSettings, WriteSettings, ReplaceSettings,
         ReplaceFails, Saving
<1>3. ASSUME FileInv', clashed' \/ (~clashed => Own(s)'),
             clashed' \/ Config' = Config
                \/ /\ spc[s] = "replace" /\ Config' = want[s]
                   /\ Config.password # Absent => Config'.password # Absent
      PROVE  /\ FileInv' /\ AloneInv'
             /\ clashed' \/ Config' = Config
                  \/ /\ spc[s] = "replace" /\ Config' = want[s]
                     /\ Config.password # Absent => Config'.password # Absent
  <2>1. ASSUME ~clashed', NEW v \in Savers \ {s} PROVE Own(v)'
    <3>1. ~Saving(v)'
      BY <1>1, <1>2, <2>1, SaverAlone
    <3>. QED  BY <3>1 DEF Own, Saving
  <2>2. clashed' \/ \A v \in Savers : Own(v)'
    BY <1>3, <2>1
  <2>. QED  BY <1>3, <2>2 DEF AloneInv
<1>4. ~clashed' => ~clashed /\ Own(s)
  BY DEF AloneInv
<1>5. ASSUME NEW e \in BOOLEAN, NEW p \in Passwords \cup {Absent}, ReadSettings(s, e, p)
      PROVE  FileInv' /\ Config' = Config /\ Own(s)'
  <2>1. want'[s].password = IF p # Absent THEN p ELSE Config.password
    BY <1>5 DEF ReadSettings, Merged
  <2>2. Config' = Config /\ FileInv' /\ spc'[s] = "open"
    BY <1>5 DEF ReadSettings, Config, FileInv
  <2>. QED  BY <2>1, <2>2 DEF Own
<1>6. ASSUME OpenSettings(s)
      PROVE  FileInv' /\ Config' = Config /\ (~clashed' => Own(s)')
  <2>1. setTmp' \in Files /\ setTmp' # setFile
    <3>1. CASE setTmp # Absent
      BY <1>6, <3>1 DEF OpenSettings, FileInv
    <3>2. CASE setTmp = Absent
      <4>1. fd[s] = Absent
        BY <1>6 DEF OpenSettings, PlaceInv
      <4>2. \E f \in Files : f # setFile /\ \A v \in Savers : fd[v] # f
        BY <4>1, FileFree
      <4>. QED  BY <1>6, <3>2, <4>2, Zenon DEF OpenSettings
    <3>. QED  BY <3>1, <3>2
  <2>2. /\ content' = [content EXCEPT ![setTmp'] = NoSettings]
        /\ setFile' = setFile /\ want' = want
        /\ fd'[s] = setTmp' /\ setTmp' \notin filled' /\ spc'[s] = "write"
        /\ spc[s] = "open"
    BY <1>6 DEF OpenSettings
  <2>3. Config' = Config
    BY <2>1, <2>2 DEF Config
  <2>4. FileInv'
    BY <2>1, <2>2 DEF FileInv
  <2>. QED  BY <1>4, <2>1, <2>2, <2>3, <2>4 DEF Own, Saving
<1>7. ASSUME WriteSettings(s)
      PROVE  FileInv' /\ (~clashed' => Config' = Config /\ Own(s)')
  <2>1. FileInv'
    BY <1>7 DEF WriteSettings, FileInv
  <2>2. ASSUME ~clashed' PROVE Config' = Config /\ Own(s)'
    <3>1. fd[s] = setTmp /\ setTmp \in Files /\ setTmp \notin filled /\ setTmp # setFile
      BY <1>4, <1>7, <2>2 DEF WriteSettings, Own, FileInv
    <3>2. content' = [content EXCEPT ![setTmp] = want[s]]
      BY <1>7, <3>1 DEF WriteSettings
    <3>3. Config' = Config
      BY <1>7, <3>1, <3>2 DEF WriteSettings, Config
    <3>. QED  BY <1>4, <1>7, <2>2, <3>1, <3>2, <3>3 DEF WriteSettings, Own, Saving
  <2>. QED  BY <2>1, <2>2
<1>8. ASSUME ReplaceSettings(s)
      PROVE  /\ FileInv' /\ Own(s)'
             /\ ~clashed' => /\ Config' = want[s]
                             /\ Config.password # Absent => Config'.password # Absent
  <2>1. FileInv' /\ Own(s)'
    BY <1>8 DEF ReplaceSettings, FileInv, Own, Saving
  <2>2. Config' = content[setTmp]
    BY <1>8 DEF ReplaceSettings, Config
  <2>. QED  BY <1>4, <1>8, <2>1, <2>2 DEF ReplaceSettings, Own, Saving
<1>9. ASSUME ReplaceFails(s)
      PROVE  FileInv' /\ Config' = Config /\ Own(s)'
  BY <1>9 DEF ReplaceFails, FileInv, Own, Saving, Config
<1>10. CASE ReplaceSettings(s)
  <2>1. spc[s] = "replace"
    BY <1>10 DEF ReplaceSettings
  <2>. QED  BY <1>3, <1>8, <1>10, <2>1
<1>11. CASE OpenSettings(s) \/ WriteSettings(s) \/ ReplaceFails(s)
  BY <1>3, <1>6, <1>7, <1>9, <1>11
<1>. QED  BY <1>3, <1>5, <1>10, <1>11 DEF SaveStep

LEMMA FilesStep ==
    ASSUME AutoFiles, AutoNext
    PROVE  /\ AutoFiles'
           /\ clashed' \/ Config' = Config
                \/ \E s \in Savers :
                     /\ spc[s] = "replace" /\ Config' = want[s]
                     /\ Config.password # Absent => Config'.password # Absent
<1>1. AutoPlace'
  BY PlaceStep DEF AutoFiles
<1>2. clashed' = (clashed \/ Clash')
  BY DEF AutoNext
<1>3. CASE AutoTick
  <2>1. UNCHANGED settings
    BY <1>3 DEF AutoTick
  <2>2. Config' = Config /\ FileInv' /\ AloneInv'
    BY <1>2, <2>1 DEF AutoFiles, settings, Config, FileInv, AloneInv, Own, Clash, Saving
  <2>. QED  BY <1>1, <2>2 DEF AutoFiles
<1>4. ASSUME NEW x \in Runners, RunStep(x) \/ (x = Worker /\ Wake)
      PROVE  AutoFiles' /\ Config' = Config
  BY <1>1, <1>2, <1>4, RunFiles DEF AutoFiles
<1>5. ASSUME NEW s \in Savers,
             SaveStep(s) \/ \E e \in BOOLEAN, p \in Passwords \cup {Absent} :
                                ReadSettings(s, e, p)
      PROVE  /\ AutoFiles'
             /\ clashed' \/ Config' = Config
                  \/ /\ spc[s] = "replace" /\ Config' = want[s]
                     /\ Config.password # Absent => Config'.password # Absent
  BY <1>1, <1>2, <1>5, SaveFiles DEF AutoFiles
<1>. QED  BY <1>3, <1>4, <1>5 DEF AutoNext, AutoStep

-------------------------------------------------------------------------------
(* Pruning. *)
PruneInv == AutoPlace /\ ExpiredInv /\ HandedOver /\ AtWorkInv

LEMMA PruneTypes ==
    ASSUME AutoPlace
    PROVE  /\ now \in Nat /\ backups \in SUBSET (0..now)
           /\ \A x \in Runners : expired[x] \in SUBSET (0..now)
           /\ \A b : Newer(b) \in SUBSET (0..now) /\ Cardinality(Newer(b)) \in Nat
           /\ Keep \in Nat \ {0}
<1>1. /\ now \in Nat /\ backups \in SUBSET (0..now)
      /\ \A x \in Runners : expired[x] \in SUBSET (0..now)
      /\ Keep \in Nat \ {0}
  BY DEF AutoPlace, AutoTypeOK
<1>2. \A b : Newer(b) \in SUBSET (0..now)
  BY <1>1 DEF Newer
<1>. QED  BY <1>1, <1>2, TimesFinite

(* A backup older than an outdated one is outdated. *)
LEMMA MoreNewer ==
    ASSUME AutoPlace, NEW b, NEW c \in Older(b), b \in 0..now, Cardinality(Newer(b)) >= Keep
    PROVE  Cardinality(Newer(c)) >= Keep
<1>1. Newer(b) \subseteq Newer(c)
  BY PruneTypes DEF Newer, Older
<1>2. Cardinality(Newer(b)) <= Cardinality(Newer(c))
  BY <1>1, PruneTypes, TimesCount
<1>. QED  BY <1>2, PruneTypes

(* A step that neither creates, lists nor unlinks, and what is to be shown *)
(* of every step.                                                          *)
Quiet ==
    /\ UNCHANGED <<backups, expired>>
    /\ \A x \in Runners :
          \/ rpc'[x] = rpc[x]
          \/ rpc[x] \notin {"list", "prune"} /\ rpc'[x] \notin {"list", "prune"}
PrunedWell ==
    /\ ExpiredInv' /\ HandedOver' /\ AtWorkInv'
    /\ \A b \in backups \ backups' : Cardinality(Newer(b)') >= Keep

LEMMA QuietStep ==
    ASSUME PruneInv, Quiet
    PROVE  ExpiredInv' /\ HandedOver' /\ AtWorkInv'
<1>. USE DEF Quiet
<1>1. \A w \in Runners : \A m : Prunes(w, m) => Prunes(w, m)'
  BY DEF Prunes, IsTop
<1>2. ExpiredInv'
  BY DEF PruneInv, ExpiredInv, Newer, Older
<1>3. HandedOver'
  BY <1>1 DEF PruneInv, HandedOver, Older, IsTop
<1>4. AtWorkInv'
  BY <1>1 DEF PruneInv, AtWorkInv, Outdated, IsTop
<1>. QED  BY <1>2, <1>3, <1>4

LEMMA CreateStep ==
    ASSUME PruneInv, NEW x \in Runners, Create(x), AutoPlace'
    PROVE  ExpiredInv' /\ HandedOver' /\ AtWorkInv'
<1>1. backups' = backups \cup {now} /\ expired' = expired /\ rpc' = [rpc EXCEPT ![x] = "list"]
      /\ rpc[x] = "create" /\ rpc' \in [Runners -> {"idle", "read", "due", "create", "list", "prune"}]
  BY DEF Create, Go, AutoPlace, AutoTypeOK
<1>2. \A y \in Runners : \A b \in expired[y] : Older(b)' = Older(b)
  BY <1>1, PruneTypes DEF PruneInv, Older
<1>3. ASSUME NEW y \in Runners, NEW b \in expired[y]
      PROVE  Cardinality(Newer(b)') >= Keep
  <2>1. Newer(b) \subseteq Newer(b)' /\ Newer(b)' \in SUBSET (0..now)
    BY <1>1, PruneTypes DEF PruneInv, Newer
  <2>2. Cardinality(Newer(b)) <= Cardinality(Newer(b)') /\ Cardinality(Newer(b)') \in Nat
    BY <2>1, PruneTypes, TimesCount, TimesFinite DEF PruneInv
  <2>. QED  BY <2>2, PruneTypes DEF PruneInv, ExpiredInv
<1>4. ExpiredInv'
  BY <1>1, <1>2, <1>3 DEF PruneInv, ExpiredInv
<1>5. \A w \in Runners : \A m : Prunes(w, m) => Prunes(w, m)'
  BY <1>1 DEF Prunes, IsTop, PruneInv, AutoPlace, AutoTypeOK
<1>6. ASSUME NEW y \in Runners, NEW e \in expired'[y] \ backups', NEW m \in backups',
             IsTop(m, Older(e))'
      PROVE  \E w \in Runners : Prunes(w, m)'
  <2>1. e \in expired[y] \ backups /\ IsTop(m, Older(e)) /\ m \in backups
    BY <1>1, <1>2, <1>6 DEF IsTop, Older
  <2>. QED  BY <1>5, <2>1 DEF PruneInv, HandedOver
<1>7. HandedOver'
  BY <1>6 DEF HandedOver
<1>8. AtWorkInv'
  BY <1>1 DEF AtWorkInv, PruneInv, AutoPlace, AutoTypeOK
<1>. QED  BY <1>4, <1>7, <1>8

LEMMA ListStep ==
    ASSUME PruneInv, NEW x \in Runners, ListBackups(x)
    PROVE  ExpiredInv' /\ HandedOver' /\ AtWorkInv'
<1>1. /\ rpc[x] = "list" /\ rpc'[x] = "prune" /\ expired'[x] = Outdated
      /\ \A y \in Runners \ {x} : rpc'[y] = rpc[y] /\ expired'[y] = expired[y]
      /\ backups' = backups
  BY DEF ListBackups, PruneInv, AutoPlace, AutoTypeOK
<1>2. Outdated' = Outdated /\ Outdated \subseteq backups
      /\ \A b : Newer(b)' = Newer(b) /\ Older(b)' = Older(b)
  BY <1>1 DEF Outdated, Newer, Older
<1>3. \A b \in Outdated : Cardinality(Newer(b)) >= Keep
  BY DEF Outdated, Newer
<1>4. ASSUME NEW b \in Outdated, NEW c \in Older(b)
      PROVE  c \in Outdated
  <2>1. Cardinality(Newer(c)) >= Keep
    BY <1>2, <1>3, MoreNewer, PruneTypes DEF PruneInv
  <2>. QED  BY <2>1 DEF Outdated, Older, Newer
<1>5. ExpiredInv'
  BY <1>1, <1>2, <1>3, <1>4 DEF PruneInv, ExpiredInv
<1>6. ASSUME NEW w \in Runners, NEW m, Prunes(w, m)
      PROVE  Prunes(w, m)'
  BY <1>1, <1>6 DEF Prunes, IsTop
<1>7. HandedOver'
  BY <1>1, <1>2, <1>6 DEF PruneInv, HandedOver, IsTop
<1>8. AtWorkInv'
  BY <1>1, <1>2 DEF AtWorkInv, Prunes, IsTop
<1>. QED  BY <1>5, <1>7, <1>8

LEMMA PruneStep ==
    ASSUME PruneInv, NEW x \in Runners, Prune(x)
    PROVE  /\ ExpiredInv' /\ HandedOver' /\ AtWorkInv'
           /\ \A b \in backups \ backups' : Cardinality(Newer(b)') >= Keep
<1>0. PICK d : d = Max(expired[x])
  OBVIOUS
<1>1. /\ rpc[x] = "prune" /\ d \in backups /\ backups' = backups \ {d} /\ rpc' = rpc
      /\ expired'[x] = expired[x] \ {d}
      /\ \A y \in Runners \ {x} : expired'[y] = expired[y]
      /\ expired[x] # {}
  BY <1>0 DEF Prune, PruneInv, AutoPlace, AutoTypeOK
<1>2. IsTop(d, expired[x]) /\ d \in expired[x]
  <2>1. IsTop(d, expired[x])
    BY <1>0, <1>1, PruneTypes, MaxIsTop DEF PruneInv
  <2>. QED  BY <2>1 DEF IsTop
<1>3. d \in Nat /\ backups \subseteq Nat /\ \A y \in Runners : expired[y] \subseteq Nat
  BY <1>2, PruneTypes DEF PruneInv
<1>4. Newer(d)' = Newer(d) /\ Older(d)' = Older(d) /\ Cardinality(Newer(d)) >= Keep
      /\ Older(d) \subseteq expired[x]
  <2>1. Newer(d)' = Newer(d)
    BY <1>1, <1>3 DEF Newer
  <2>2. Older(d)' = Older(d)
    BY <1>1, <1>3 DEF Older
  <2>3. Cardinality(Newer(d)) >= Keep /\ \A c \in Older(d) : c \in expired[x]
    BY <1>2 DEF PruneInv, ExpiredInv
  <2>. QED  BY <2>1, <2>2, <2>3
<1>5. \A b \in Nat : /\ Older(b)' = Older(b) \ {d}
                     /\ b >= d => Newer(b)' = Newer(b)
                     /\ Newer(b)' \subseteq Newer(b)
                     /\ b < d => Newer(d) \subseteq Newer(b)'
  <2>. TAKE b \in Nat
  <2>1. Older(b)' = Older(b) \ {d}
    BY <1>1 DEF Older
  <2>2. Newer(b)' = Newer(b) \ {d}
    BY <1>1 DEF Newer
  <2>3. b >= d => d \notin Newer(b)
    BY <1>3 DEF Newer
  <2>4. b < d => \A c \in Newer(d) : c \in Newer(b) /\ c # d
    <3>1. \A c \in backups : b < d /\ c > d => c > b /\ c # d
      BY <1>3
    <3>. QED  BY <3>1 DEF Newer
  <2>. QED  BY <2>1, <2>2, <2>3, <2>4
<1>6. ASSUME NEW b \in Nat, Cardinality(Newer(b)) >= Keep
      PROVE  Cardinality(Newer(b)') >= Keep
  <2>1. CASE b >= d
    BY <1>5, <1>6, <2>1
  <2>2. CASE b < d
    <3>1. Newer(d) \subseteq Newer(b)' /\ Newer(b)' \in SUBSET (0..now)
      BY <1>5, <2>2, PruneTypes DEF PruneInv
    <3>2. Cardinality(Newer(d)) <= Cardinality(Newer(b)') /\ Cardinality(Newer(b)') \in Nat
      BY <3>1, PruneTypes, TimesCount, TimesFinite DEF PruneInv
    <3>. QED  BY <1>4, <3>2, PruneTypes DEF PruneInv
  <2>. QED  BY <1>3, <2>1, <2>2
<1>7. ExpiredInv'
  <2>1. ASSUME NEW y \in Runners, NEW b \in expired'[y]
        PROVE  /\ Cardinality(Newer(b)') >= Keep
               /\ \A c \in Older(b)' : c \in expired'[y]
    <3>1. b \in expired[y] /\ b \in Nat
      BY <1>1, <1>3
    <3>2. \A c \in Older(b) : c \in expired[y]
      BY <3>1 DEF PruneInv, ExpiredInv
    <3>3. Cardinality(Newer(b)) >= Keep
      BY <3>1 DEF PruneInv, ExpiredInv
    <3>. QED  BY <1>1, <1>5, <1>6, <3>1, <3>2, <3>3
  <2>. QED  BY <2>1 DEF ExpiredInv
<1>8. ASSUME NEW w \in Runners, NEW m \in backups', Prunes(w, m)
      PROVE  Prunes(w, m)'
  <2>1. w # x
    BY <1>1, <1>2, <1>3, <1>8 DEF Prunes, IsTop
  <2>. QED  BY <1>1, <1>8, <2>1 DEF Prunes, IsTop
<1>9. ASSUME NEW m \in backups', IsTop(m, Older(d))
      PROVE  \E w \in Runners : Prunes(w, m)'
  <2>1. m \in expired[x] /\ m < d /\ m \in backups /\ m \in Nat
    BY <1>3, <1>4, <1>9 DEF IsTop, Older
  <2>2. CASE \A e \in expired[x] \ {d} : e <= m
    BY <1>1, <2>1, <2>2 DEF Prunes, IsTop
  <2>3. ASSUME NEW e \in expired[x] \ {d}, ~(e <= m)
        PROVE  \E w \in Runners : Prunes(w, m)'
    <3>1. e \in Nat /\ m < e /\ e < d
      BY <1>2, <1>3, <2>1, <2>3 DEF IsTop
    <3>2. e \notin backups
      BY <1>9, <2>1, <3>1 DEF IsTop, Older
    <3>3. IsTop(m, Older(e))
      BY <1>3, <1>9, <2>1, <3>1 DEF IsTop, Older
    <3>. QED  BY <1>8, <2>1, <3>2, <3>3 DEF PruneInv, HandedOver
  <2>. QED  BY <2>2, <2>3
<1>10. HandedOver'
  <2>1. ASSUME NEW y \in Runners, NEW e \in expired'[y] \ backups', NEW m \in backups',
               IsTop(m, Older(e))'
        PROVE  \E w \in Runners : Prunes(w, m)'
    <3>1. e \in expired[y] /\ e \in Nat /\ m \in backups /\ m # d /\ m \in Nat
      BY <1>1, <1>3
    <3>2. IsTop(m, Older(e) \ {d})
      BY <1>5, <2>1, <3>1 DEF IsTop
    <3>3. CASE e = d
      <4>1. d \notin Older(d)
        BY <1>3 DEF Older
      <4>2. IsTop(m, Older(d))
        BY <3>2, <3>3, <4>1 DEF IsTop
      <4>. QED  BY <1>9, <4>2
    <3>4. CASE e # d /\ IsTop(m, Older(e))
      BY <1>1, <1>8, <3>1, <3>4 DEF PruneInv, HandedOver
    <3>5. CASE ~IsTop(m, Older(e))
      <4>1. d \in Older(e) /\ m < d
        BY <1>3, <3>1, <3>2, <3>5 DEF IsTop
      <4>2. IsTop(m, Older(d))
        BY <1>3, <3>1, <3>2, <4>1 DEF IsTop, Older
      <4>. QED  BY <1>9, <4>2
    <3>. QED  BY <3>3, <3>4, <3>5
  <2>. QED  BY <2>1 DEF HandedOver
<1>11. Outdated' = Outdated \ {d}
  <2>1. \A b \in backups' : Cardinality(Newer(b)') >= Keep => Cardinality(Newer(b)) >= Keep
    <3>1. ASSUME NEW b \in backups' PROVE Cardinality(Newer(b)') <= Cardinality(Newer(b))
      <4>1. Newer(b)' \in SUBSET Newer(b)
        BY <1>1, <1>3, <1>5
      <4>. QED  BY <4>1, PruneTypes, TimesCount DEF PruneInv
    <3>2. ASSUME NEW b \in backups' PROVE Cardinality(Newer(b)') \in Nat
      <4>1. Newer(b)' \in SUBSET (0..now)
        BY <1>1, <1>3, <1>5, PruneTypes DEF PruneInv
      <4>. QED  BY <4>1, PruneTypes, TimesFinite DEF PruneInv
    <3>. QED  BY <3>1, <3>2, PruneTypes DEF PruneInv
  <2>2. Outdated = {b \in backups : Cardinality(Newer(b)) >= Keep}
    BY DEF Outdated, Newer
  <2>3. Outdated' = {b \in backups' : Cardinality(Newer(b)') >= Keep}
    BY DEF Outdated, Newer
  <2>. QED  BY <1>1, <1>3, <1>6, <2>1, <2>2, <2>3
<1>12. AtWorkInv'
  <2>1. ASSUME \A y \in Runners : rpc'[y] # "list", NEW m \in backups',
               IsTop(m, Outdated')
        PROVE  \E w \in Runners : Prunes(w, m)'
    <3>1. m \in Nat /\ m # d /\ m \in backups /\ \A y \in Runners : rpc[y] # "list"
      BY <1>1, <1>3, <2>1
    <3>2. CASE IsTop(m, Outdated)
      BY <1>8, <3>1, <3>2 DEF PruneInv, AtWorkInv
    <3>3. CASE ~IsTop(m, Outdated)
      <4>1. m < d
        <5>1. m \in Outdated /\ \A e \in Outdated \ {d} : e <= m
          BY <1>11, <2>1 DEF IsTop
        <5>2. ~(d <= m)
          BY <3>3, <5>1 DEF IsTop
        <5>. QED  BY <1>3, <3>1, <5>2
      <4>2. ASSUME NEW c \in Older(d) PROVE c \in Outdated'
        <5>1. Cardinality(Newer(c)) >= Keep /\ c \in backups /\ c # d
          BY <1>2, <1>3, <1>4, MoreNewer, PruneTypes DEF PruneInv, Older
        <5>. QED  BY <1>11, <5>1 DEF Outdated, Newer
      <4>3. IsTop(m, Older(d))
        BY <2>1, <3>1, <4>1, <4>2 DEF IsTop, Older
      <4>. QED  BY <1>9, <4>3
    <3>. QED  BY <3>2, <3>3
  <2>. QED  BY <2>1 DEF AtWorkInv
<1>13. \A b \in backups \ backups' : Cardinality(Newer(b)') >= Keep
  BY <1>1, <1>4
<1>. QED  BY <1>7, <1>10, <1>12, <1>13

LEMMA PruneEndsStep ==
    ASSUME PruneInv, NEW x \in Runners, PruneEnds(x)
    PROVE  ExpiredInv' /\ HandedOver' /\ AtWorkInv'
<1>1. /\ rpc[x] = "prune" /\ rpc'[x] = "idle" /\ expired'[x] = {}
      /\ \A y \in Runners \ {x} : rpc'[y] = rpc[y] /\ expired'[y] = expired[y]
      /\ backups' = backups
      /\ expired[x] # {} => Max(expired[x]) \notin backups
  BY DEF PruneEnds, End, PruneInv, AutoPlace, AutoTypeOK
<1>2. ASSUME NEW w \in Runners, NEW m \in backups, Prunes(w, m)
      PROVE  Prunes(w, m)'
  <2>1. ASSUME w = x PROVE FALSE
    <3>1. expired[x] # {} /\ IsTop(m, expired[x])
      BY <1>2, <2>1 DEF Prunes, IsTop
    <3>2. IsTop(Max(expired[x]), expired[x])
      BY <3>1, MaxIsTop, PruneTypes DEF PruneInv
    <3>3. m = Max(expired[x])
      BY <3>1, <3>2, PruneTypes DEF IsTop, PruneInv
    <3>. QED  BY <1>1, <3>1, <3>3
  <2>. QED  BY <1>1, <1>2, <2>1 DEF Prunes, IsTop
<1>3. ExpiredInv'
  BY <1>1 DEF PruneInv, ExpiredInv, Newer, Older
<1>4. HandedOver'
  BY <1>1, <1>2 DEF PruneInv, HandedOver, IsTop, Older
<1>5. AtWorkInv'
  BY <1>1, <1>2 DEF PruneInv, AtWorkInv, IsTop, Outdated
<1>. QED  BY <1>3, <1>4, <1>5

LEMMA PruningStep ==
    ASSUME PruneInv, AutoNext, AutoPlace'
    PROVE  PrunedWell
<1>1. ASSUME Quiet
      PROVE  PrunedWell
  <2>1. \A b \in backups \ backups' : Cardinality(Newer(b)') >= Keep
    BY <1>1 DEF Quiet
  <2>. QED  BY <1>1, <2>1, QuietStep DEF PrunedWell
<1>2. ASSUME NEW x \in Runners, UNCHANGED backups, rpc[x] \notin {"list", "prune"},
             End(x) \/ \E where \in {"read", "due", "create"} : Go(x, where)
      PROVE  PrunedWell
  <2>1. CASE End(x)
    <3>1. expired[x] = {} /\ rpc'[x] = "idle"
      BY <1>2, <2>1 DEF End, PruneInv, AutoPlace, PlaceInv, AutoTypeOK
    <3>2. expired' = expired /\ \A y \in Runners \ {x} : rpc'[y] = rpc[y]
      BY <1>2, <2>1, <3>1 DEF End, PruneInv, AutoPlace, AutoTypeOK
    <3>. QED  BY <1>1, <1>2, <3>1, <3>2 DEF Quiet
  <2>2. ASSUME NEW where \in {"read", "due", "create"}, Go(x, where)
        PROVE  /\ UNCHANGED expired /\ rpc'[x] = where
               /\ \A y \in Runners \ {x} : rpc'[y] = rpc[y]
    BY <2>2 DEF Go, PruneInv, AutoPlace, AutoTypeOK
  <2>. QED  BY <1>1, <1>2, <2>1, <2>2 DEF Quiet
<1>3. CASE AutoTick
  <2>1. UNCHANGED <<backups, expired, rpc>>
    BY <1>3 DEF AutoTick, runs
  <2>. QED  BY <1>1, <2>1 DEF Quiet
<1>4. CASE Wake
  BY <1>2, <1>4 DEF Wake
<1>5. ASSUME NEW s \in Savers,
             SaveStep(s) \/ \E e \in BOOLEAN, p \in Passwords \cup {Absent} :
                                ReadSettings(s, e, p)
      PROVE  Quiet
  <2>1. CASE ReplaceSettings(s)
    <3>1. rpc[s] = "idle" /\ rpc' = [rpc EXCEPT ![s] = "read"]
          /\ UNCHANGED <<backups, expired>>
      BY <2>1 DEF ReplaceSettings, PruneInv, AutoPlace, PlaceInv
    <3>. QED  BY <3>1 DEF Quiet, PruneInv, AutoPlace, AutoTypeOK
  <2>2. CASE ~ReplaceSettings(s)
    <3>1. UNCHANGED runs
      BY <1>5, <2>2 DEF SaveStep, ReadSettings, OpenSettings, WriteSettings,
           ReplaceFails
    <3>. QED  BY <3>1 DEF runs, Quiet
  <2>. QED  BY <2>1, <2>2
<1>6. ASSUME NEW x \in Runners,
             ReadConfig(x) \/ CheckDue(x) \/ StatFails(x) \/ CreateFails(x)
      PROVE  PrunedWell
  BY <1>2, <1>6 DEF ReadConfig, CheckDue, StatFails, CreateFails
<1>7. ASSUME NEW x \in Runners, Create(x) \/ ListBackups(x) \/ PruneEnds(x)
      PROVE  PrunedWell
  <2>1. backups \subseteq backups'
    BY <1>7 DEF Create, ListBackups, PruneEnds
  <2>. QED  BY <1>7, <2>1, CreateStep, ListStep, PruneEndsStep DEF PrunedWell
<1>8. ASSUME NEW x \in Runners, Prune(x)
      PROVE  PrunedWell
  BY <1>8, PruneStep DEF PrunedWell
<1>9. ASSUME NEW x \in Runners, RunStep(x)
      PROVE  PrunedWell
  BY <1>6, <1>7, <1>8, <1>9 DEF RunStep
<1>. QED  BY <1>1, <1>3, <1>4, <1>5, <1>9 DEF AutoNext, AutoStep

LEMMA AutoStepInv ==
    ASSUME AutoInv, [AutoNext]_autoVars
    PROVE  AutoInv'
<1>1. CASE UNCHANGED autoVars
  BY <1>1 DEF autoVars, settings, runs, AutoInv, AutoTypeOK, PlaceInv, ExpiredInv,
       HandedOver, AtWorkInv, FileInv, AloneInv, Clash, Saving, Own, Config, Newer,
       Older, IsTop, Prunes, Outdated
<1>2. CASE AutoNext
  BY <1>2, PlaceStep, FilesStep, PruningStep
     DEF AutoInv, AutoFiles, AutoPlace, PruneInv, PrunedWell
<1>. QED  BY <1>1, <1>2

(* Saves and runs, however interleaved, preserve the invariant. *)
THEOREM AutoInvariant == AutoSpec => []AutoInv
<1>. QED  BY AutoInitial, AutoStepInv, PTL DEF AutoSpec

(* The state keeps its types: the settings and the directory are what the  *)
(* runs leave there.                                                       *)
THEOREM AutoTypeCorrect == AutoSpec => []AutoTypeOK
<1>1. AutoInv => AutoTypeOK
  BY DEF AutoInv
<1>. QED  BY <1>1, AutoInvariant, PTL

LEMMA IdleMeansKept == AutoInv => RetentionKept
<1> SUFFICES ASSUME AutoInv, \A x \in Runners : rpc[x] = "idle",
                    ~(Cardinality(backups) <= Keep)
             PROVE  FALSE
  BY DEF RetentionKept
<1>. DEFINE N == Cardinality(backups)
<1>1. /\ now \in Nat /\ backups \in SUBSET (0..now) /\ Keep \in Nat \ {0}
      /\ IsFiniteSet(backups) /\ N \in Nat /\ N > Keep
  <2>1. now \in Nat /\ backups \in SUBSET (0..now) /\ Keep \in Nat \ {0}
    BY PruneTypes DEF AutoInv, AutoPlace
  <2>2. IsFiniteSet(backups) /\ N \in Nat
    BY <2>1, TimesFinite
  <2>. QED  BY <2>1, <2>2
<1>2. backups # {}
  BY <1>1, FS_EmptySet
<1>3. PICK m \in backups : \A b \in backups : m <= b
  BY <1>1, <1>2, BottomExists
<1>4. {c \in backups : c > m} = backups \ {m}
  <2>1. \A c \in backups : c > m <=> c # m
    BY <1>1, <1>3
  <2>2. ~(m > m)
    BY <1>1, <1>3
  <2>. QED  BY <2>1, <2>2
<1>5. Cardinality(backups \ {m}) = N - 1
  BY <1>1, <1>3, FS_RemoveElement
<1>6. m \in Outdated
  <2>1. N - 1 >= Keep
    BY <1>1
  <2>2. Cardinality({c \in backups : c > m}) >= Keep
    BY <1>4, <1>5, <2>1, Zenon
  <2>. QED  BY <1>3, <2>2, Zenon DEF Outdated
<1>7. PICK t \in Outdated : IsTop(t, Outdated)
  <2>1. Outdated \in SUBSET (0..now)
    BY <1>1 DEF Outdated
  <2>. QED  BY <1>1, <1>6, <2>1, TopExists
<1>8. \E w \in Runners : Prunes(w, t)
  BY <1>7 DEF AutoInv, AtWorkInv, Outdated
<1>. QED  BY <1>8 DEF Prunes

(* However many runs overlap, fail or give up because another one has      *)
(* unlinked the next backup, when all have ended no more than Keep are     *)
(* left.                                                                   *)
THEOREM RetentionCorrect == AutoSpec => []RetentionKept
BY IdleMeansKept, AutoInvariant, PTL

LEMMA RemovedAreOutdated ==
    AutoInv /\ [AutoNext]_autoVars =>
        [\A b \in backups \ backups' :
            Cardinality({c \in backups' : c > b}) >= Keep]_autoVars
<1>1. ASSUME AutoInv, AutoNext
      PROVE  \A b \in backups \ backups' : Cardinality(Newer(b)') >= Keep
  <2>1. AutoPlace'
    BY <1>1, PlaceStep DEF AutoInv, AutoPlace
  <2>. QED  BY <1>1, <2>1, PruningStep DEF AutoInv, AutoPlace, PruneInv, PrunedWell
<1>2. \A b : Newer(b)' = {c \in backups' : c > b}
  BY DEF Newer
<1>. QED  BY <1>1, <1>2

(* No run unlinks a backup unless Keep newer ones stay, however outdated   *)
(* its list is by then.                                                    *)
THEOREM OutdatedCorrect == AutoSpec => OnlyOutdatedRemoved
BY RemovedAreOutdated, AutoInvariant, PTL DEF AutoSpec, OnlyOutdatedRemoved

LEMMA SurvivalStep ==
    AutoInv /\ [AutoNext]_autoVars =>
        [\/ clashed'
         \/ Config' = Config
         \/ /\ \E s \in Savers : spc[s] = "replace" /\ Config' = want[s]
            /\ Config.password # Absent => Config'.password # Absent]_autoVars
<1>1. ASSUME AutoInv, AutoNext
      PROVE  clashed' \/ Config' = Config
                \/ \E s \in Savers :
                     /\ spc[s] = "replace" /\ Config' = want[s]
                     /\ Config.password # Absent => Config'.password # Absent
  BY <1>1, FilesStep DEF AutoInv, AutoPlace, AutoFiles
<1>. QED  BY <1>1

(* Unless requests overlap, a save puts its own settings in force, whole,  *)
(* and never loses the password of the backups.                            *)
THEOREM SettingsCorrect == AutoSpec => SettingsSurvive
BY SurvivalStep, AutoInvariant, PTL DEF AutoSpec, SettingsSurvive
================================================================================
