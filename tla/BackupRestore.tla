----------------------------- MODULE BackupRestore -----------------------------
(***************************************************************************)
(* Backups and their restoration (download_backup and upload_backup of     *)
(* src/certify/api.py, restore_backup of src/certify/maintenance.py).  The *)
(* restoration exchanges the database file under the running service; the  *)
(* connections of Database.connect keep the file they have opened and the  *)
(* write-ahead log beside it.  A database is modelled by the set of        *)
(* changes committed to it.                                                *)
(***************************************************************************)
EXTENDS Naturals, FiniteSets

CONSTANTS
    Writers,            \* threads of the handlers that change the database
    Restorers,          \* threads serving POST /maintenance/restore
    Changes,            \* what the handlers commit, each once
    Damaged,            \* an upload that is no valid archive of a database
    MaxFiles,           \* bound: database files, one more than restorations
    MaxArchives,        \* bound: different backups downloaded
    MaxSecond,          \* bound of the clock, in seconds
    None

ASSUME BoundAssumption ==
    MaxFiles \in Nat \ {0} /\ {MaxArchives, MaxSecond} \subseteq Nat
ASSUME NoneAssumption == None \notin 1..MaxFiles /\ \A s \in SUBSET Changes : s # None

VARIABLES
    disk,               \* the content of each file that was ever certify.db
    current,            \* the one that has the name now
    wal,                \* the file that certify.db-wal belongs to, or None
    exposed,            \* the current file was opened beside another file's log,
                        \* or with a log that is then unlinked
    since,              \* ghost: committed to it since a restoration at work
                        \* has given it the name
    conn,               \* the file a handler has open, or None
    wrote,              \* the changes of its open connection
    answered,           \* ghost: changes whose clients got their answer
    archives,           \* downloaded backups
    safety,             \* certify.pre-restore-<second>.db
    overwritten,        \* ghost: what was in snapshots of a name used twice
    second,             \* the clock
    pc, upload,         \* where a restoration is, and what was uploaded
    told,               \* ghost: answered and certain when the upload came in
    overlapped          \* ghost: whom a restoration has met, see Meetings

snapshots == <<safety, overwritten>>
files == <<disk, current, wal, exposed, since, snapshots>>
handlers == <<conn, wrote, answered>>
restorers == <<pc, upload, told>>
vars == <<files, handlers, archives, second, restorers, overlapped>>

Init ==
    /\ disk = [f \in 1..MaxFiles |-> {}]
    /\ current = 1
    /\ wal = None /\ exposed = FALSE
    /\ since = {}
    /\ conn = [w \in Writers |-> None]
    /\ wrote = [w \in Writers |-> {}]
    /\ answered = {}
    /\ archives = {}
    /\ safety = [s \in 0..MaxSecond |-> None]
    /\ overwritten = {}
    /\ second = 0
    /\ pc = [r \in Restorers |-> "idle"]
    /\ upload = [r \in Restorers |-> {}]
    /\ told = [r \in Restorers |-> {}]
    /\ overlapped = {}

Connected == \E w \in Writers : conn[w] # None
Restoring == \E r \in Restorers : pc[r] # "idle"
Together == \E r, q \in Restorers : r # q /\ pc[r] # "idle" /\ pc[q] # "idle"
Meetings == {m \in {"handler", "restoration"} :
                IF m = "handler" THEN Connected /\ Restoring ELSE Together}

(* What a connection finds in certify.db: its content; or, beside the log  *)
(* of an exchanged file, what is left when SQLite has applied frames that  *)
(* do not belong to it.                                                    *)
Stale == wal \notin {None, current}
Opened ==
    IF ~Stale /\ ~exposed THEN {disk[current]}
    ELSE SUBSET (disk[current] \cup IF Stale THEN disk[wal] ELSE {})

(* A connection that is opened, reads c and is closed: if it was the only  *)
(* one, its close checkpoints and removes the log.                         *)
Visit(c) ==
    /\ disk' = [disk EXCEPT ![current] = c]
    /\ exposed' = (exposed \/ Stale)
    /\ wal' = IF \A w \in Writers : conn[w] # current THEN None
              ELSE IF wal = None THEN current ELSE wal

(* Ghosts: the changes still in the database or in a safety snapshot, and  *)
(* those of them that the next connection will certainly find.             *)
Snapshots == UNION {safety[s] : s \in {t \in 0..MaxSecond : safety[t] # None}}
Safe == Snapshots \cup overwritten
Kept == disk[current] \cup Safe
Certain == {c \in Kept : \A o \in Opened : c \in o \cup Safe}

-------------------------------------------------------------------------------
(* Database.connect: opens the file and its log. *)
Connect(w) ==
    /\ conn[w] = None
    /\ conn' = [conn EXCEPT ![w] = current]
    /\ \E c \in Opened : disk' = [disk EXCEPT ![current] = c]
    /\ wal' = IF wal = None THEN current ELSE wal
    /\ exposed' = (exposed \/ Stale \/ \E r \in Restorers : pc[r] = "unlink")
    /\ UNCHANGED <<current, since, wrote, answered, archives, snapshots, second, restorers>>

(* connection.commit(): goes to the file that was opened. *)
Commit(w, c) ==
    /\ conn[w] # None
    /\ wrote[w] = {}
    /\ \A f \in 1..MaxFiles : c \notin disk[f]
    /\ \A v \in Writers : c \notin wrote[v]
    /\ c \notin answered
    /\ disk' = [disk EXCEPT ![conn[w]] = @ \cup {c}]
    /\ since' = IF conn[w] = current /\ Restoring THEN since \cup {c} ELSE since
    /\ wrote' = [wrote EXCEPT ![w] = {c}]
    /\ UNCHANGED <<current, wal, exposed, conn, answered, archives, snapshots, second, restorers>>

(* connection.close(), then the answer.  The last connection to certify.db *)
(* checkpoints and removes the log; an exchanged file keeps its own.       *)
Close(w) ==
    /\ conn[w] # None
    /\ wal' = IF conn[w] = current /\ \A v \in Writers \ {w} : conn[v] # current
              THEN None ELSE wal
    /\ conn' = [conn EXCEPT ![w] = None]
    /\ answered' = answered \cup wrote[w]
    /\ wrote' = [wrote EXCEPT ![w] = {}]
    /\ UNCHANGED <<disk, current, exposed, since, archives, snapshots, second, restorers>>

(* create_backup: a consistent snapshot through SQLite's backup interface. *)
DownloadBackup ==
    /\ Cardinality(archives) < MaxArchives
    /\ \E c \in Opened : Visit(c) /\ archives' = archives \cup {c}
    /\ UNCHANGED <<current, since, snapshots, handlers, second, restorers>>

-------------------------------------------------------------------------------
(* Decryption, archive, integrity check and tables: an upload that fails   *)
(* one of them is refused (422).                                           *)
Acceptable(a) == a # Damaged

Validate(r, a) ==
    /\ pc[r] = "idle"
    /\ current < MaxFiles
    /\ Acceptable(a)
    /\ upload' = [upload EXCEPT ![r] = a]
    /\ told' = [told EXCEPT ![r] = answered \cap Certain]
    /\ pc' = [pc EXCEPT ![r] = "safety"]
    /\ UNCHANGED <<files, handlers, archives, second>>

(* Mutant: no safety snapshot is made. *)
NoSnapshot(r) ==
    /\ pc[r] = "safety"
    /\ pc' = [pc EXCEPT ![r] = "replace"]
    /\ UNCHANGED <<files, handlers, archives, second, upload, told>>

(* Mutant: the snapshot gets the name of the file, not its content. *)
SnapshotOfName(r) ==
    /\ pc[r] = "safety"
    /\ safety' = [safety EXCEPT ![second] = {current}]
    /\ pc' = [pc EXCEPT ![r] = "replace"]
    /\ UNCHANGED <<disk, current, wal, exposed, since, overwritten, handlers, archives, second, upload, told>>

(* The safety snapshot, named by the second: an older one of that name is  *)
(* overwritten.                                                            *)
SafetySnapshot(r) ==
    /\ pc[r] = "safety"
    /\ \E c \in Opened : Visit(c) /\ safety' = [safety EXCEPT ![second] = c]
    /\ overwritten' = overwritten \cup
                         (IF safety[second] = None THEN {} ELSE safety[second])
    /\ pc' = [pc EXCEPT ![r] = "replace"]
    /\ UNCHANGED <<current, since, handlers, archives, second, upload, told>>

(* os.replace(temporary, database_path) *)
Replace(r) ==
    /\ pc[r] = "replace"
    /\ current < MaxFiles
    /\ current' = current + 1
    /\ disk' = [disk EXCEPT ![current'] = upload[r]]
    /\ exposed' = FALSE /\ since' = {}
    /\ pc' = [pc EXCEPT ![r] = "unlink"]
    /\ UNCHANGED <<wal, handlers, archives, snapshots, second, upload, told>>

(* Mutant: the log of the exchanged file stays. *)
KeepLog(r) ==
    /\ pc[r] = "unlink"
    /\ pc' = [pc EXCEPT ![r] = "initialize"]
    /\ UNCHANGED <<files, handlers, archives, second, upload, told>>

(* Removes -wal and -shm, whosever they are. *)
UnlinkLog(r) ==
    /\ pc[r] = "unlink"
    /\ wal' = None
    /\ pc' = [pc EXCEPT ![r] = "initialize"]
    /\ UNCHANGED <<disk, current, exposed, since, handlers, archives, snapshots, second, upload, told>>

Leave(r) ==
    /\ pc' = [pc EXCEPT ![r] = "idle"]
    /\ upload' = [upload EXCEPT ![r] = {}]

(* database.initialize(), the audit entry and 200. *)
Initialize(r) ==
    /\ pc[r] = "initialize"
    /\ \E c \in Opened : Visit(c)
    /\ since' = {}
    /\ Leave(r)
    /\ UNCHANGED <<current, handlers, archives, snapshots, second, told>>

(* An exception: the staged file is removed, what was done stays. *)
Fail(r) ==
    /\ pc[r] # "idle"
    /\ Leave(r)
    /\ since' = {}
    /\ UNCHANGED <<disk, current, wal, exposed, snapshots, handlers, archives, second, told>>

(* The process dies; on its restart lifespan calls database.initialize. *)
Crash ==
    /\ Connected \/ Restoring
    /\ conn' = [w \in Writers |-> None]
    /\ wrote' = [w \in Writers |-> {}]
    /\ pc' = [r \in Restorers |-> "idle"]
    /\ \E c \in Opened : disk' = [disk EXCEPT ![current] = c]
    /\ wal' = None /\ exposed' = FALSE
    /\ since' = {}
    /\ upload' = [r \in Restorers |-> {}]
    /\ UNCHANGED <<current, answered, archives, snapshots, second, told>>

(* A second passes; it makes no difference before a snapshot has its name. *)
Tick ==
    /\ second < MaxSecond /\ safety[second] # None
    /\ second' = second + 1
    /\ UNCHANGED <<files, handlers, archives, restorers>>

Step ==
    \/ \E w \in Writers :
        \/ Connect(w) \/ Close(w)
        \/ \E c \in Changes : Commit(w, c)
    \/ \E r \in Restorers :
        \/ \E a \in archives \cup {Damaged} : Validate(r, a)
        \/ SafetySnapshot(r) \/ Replace(r) \/ UnlinkLog(r) \/ Initialize(r)
        \/ Fail(r)
    \/ DownloadBackup \/ Crash \/ Tick

Next == Step /\ overlapped' = overlapped \cup Meetings'

Spec == Init /\ [][Next]_vars

-------------------------------------------------------------------------------
TypeOK ==
    /\ current \in 1..MaxFiles
    /\ disk \in [1..MaxFiles -> SUBSET Changes]
    /\ wal \in (1..MaxFiles) \cup {None} /\ exposed \in BOOLEAN
    /\ since \subseteq Changes
    /\ conn \in [Writers -> (1..MaxFiles) \cup {None}]
    /\ wrote \in [Writers -> SUBSET Changes]
    /\ answered \subseteq Changes
    /\ archives \subseteq SUBSET Changes
    /\ safety \in [0..MaxSecond -> {None} \cup SUBSET Changes]
    /\ second \in 0..MaxSecond
    /\ {upload, told} \subseteq [Restorers -> SUBSET Changes]
    /\ pc \in [Restorers -> {"idle", "safety", "replace", "unlink", "initialize"}]
    /\ overwritten \subseteq Changes
    /\ overlapped \subseteq {"handler", "restoration"}

(* README.md: before the exchange a safety snapshot is made.  What a       *)
(* client was told to be saved is in the database or in a snapshot, at     *)
(* every step of one restoration after another and after any failure or    *)
(* crash: all of it, if no handler was at work meanwhile; and also when    *)
(* handlers commit during the exchange, to the old file or to the new one, *)
(* what was answered before the upload came in, unless an earlier failure  *)
(* in an overlapped one had put it at risk, or two restorations were under *)
(* way at once.  The one exception is a snapshot whose name, a second, was *)
(* used again.                                                             *)
AnsweredSurvives ==
    /\ answered \subseteq Kept \/ overlapped # {}
    /\ \A r \in Restorers : told[r] \subseteq Kept \/ "restoration" \in overlapped

(* A restoration that was answered with success left the uploaded state,   *)
(* and what handlers have committed on top of it since: nothing of the old *)
(* file's log is applied to it, though handlers may have had the old file  *)
(* open and committed to it all the time.  Two exceptions: a handler that  *)
(* opened the new file before the log was removed, and two restorations    *)
(* under way at once.                                                      *)
RestoredExactly ==
    [][\A r \in Restorers :
          pc[r] = "initialize" /\ pc'[r] = "idle" =>
              \/ upload[r] \subseteq disk'[current]
                 /\ disk'[current] \subseteq upload[r] \cup since
              \/ exposed \/ "restoration" \in overlapped]_vars
===============================================================================
