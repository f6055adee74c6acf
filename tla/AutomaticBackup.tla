---------------------------- MODULE AutomaticBackup ----------------------------
(***************************************************************************)
(* Automatic backups (src/certify/api.py: automatic_config,                *)
(* run_automatic_backup_if_due, automatic_backup_worker,                   *)
(* configure_automatic_backup; src/certify/maintenance.py:                 *)
(* create_automatic_backup).  The worker of the service and the requests   *)
(* that save the settings run the same code in different threads, without  *)
(* a lock: they share the settings file, its temporary name and the        *)
(* directory of backups.                                                   *)
(***************************************************************************)
EXTENDS Integers, FiniteSets, FiniteSetsExt

CONSTANTS
    Savers,             \* threads serving PUT /maintenance/backup/automatic
    Worker,             \* the thread of automatic_backup_worker
    Passwords,
    Keep,               \* retention, the same in all settings
    Interval,           \* interval_hours, in ticks
    MaxTime,            \* bound of the clock
    MaxFailures,        \* bound on the backups that cannot be written
    MaxSaves,           \* bound on the settings saved
    Absent              \* no file, no password

ASSUME SaversAssumption == IsFiniteSet(Savers) /\ Worker \notin Savers
ASSUME AutoBoundAssumption ==
    /\ {Keep, Interval} \subseteq Nat \ {0}
    /\ {MaxTime, MaxFailures, MaxSaves} \subseteq Nat

VARIABLES
    now,                \* the clock, in the seconds of a backup's name
    setFile, setTmp,    \* automatic-backup.json and .tmp: which file has the name
    content, fd,        \* what is in the files, and which one a saver has open
    filled,             \* files written to since they were last emptied
    spc, want,          \* where a saver is, and what it saves
    backups,            \* the directory: seconds of the names
    rpc, expired,       \* where a run is, and what it still has to unlink
    left,               \* failures and saves left
    clashed             \* ghost: two requests have saved settings at once

settings == <<setFile, setTmp, content, fd, filled, spc, want>>
runs == <<backups, rpc, expired>>
autoVars == <<now, settings, runs, left, clashed>>

Runners == Savers \cup {Worker}
Files == 1..(Cardinality(Savers) + 1)

ASSUME AbsentAssumption == Absent \notin Files \cup Passwords

Setting == [enabled : BOOLEAN, password : Passwords \cup {Absent}]
NoSettings == [enabled |-> FALSE, password |-> Absent]

(* automatic_config(): a missing file, or one that is no JSON, is {}. *)
Config == IF setFile = Absent THEN NoSettings ELSE content[setFile]

AutoInit ==
    /\ now = 0
    /\ setFile = Absent /\ setTmp = Absent
    /\ content = [f \in Files |-> NoSettings]
    /\ fd = [s \in Savers |-> Absent]
    /\ filled = {}
    /\ spc = [s \in Savers |-> "idle"]
    /\ want = [s \in Savers |-> NoSettings]
    /\ backups = {}
    /\ rpc = [x \in Runners |-> "idle"]
    /\ expired = [x \in Runners |-> {}]
    /\ left = [failures |-> MaxFailures, saves |-> MaxSaves]
    /\ clashed = FALSE

-------------------------------------------------------------------------------
(* Mutant: a save without a password drops the one in force. *)
MergedNothing(enabled, p) == [enabled |-> enabled, password |-> p]

(* The password given, else the one in force. *)
Merged(enabled, p) ==
    [enabled |-> enabled, password |-> IF p # Absent THEN p ELSE Config.password]

(* current = automatic_config(), the check (else 422) and the new value.   *)
ReadSettings(s, enabled, p) ==
    /\ spc[s] = "idle"
    /\ left.saves > 0
    /\ enabled => p # Absent \/ Config.password # Absent
    /\ want' = [want EXCEPT ![s] = Merged(enabled, p)]
    /\ left' = [left EXCEPT !.saves = @ - 1]
    /\ spc' = [spc EXCEPT ![s] = "open"]
    /\ UNCHANGED <<now, setFile, setTmp, content, fd, filled, runs>>

(* write_text opens the temporary file: it is created or emptied, ...      *)
OpenSettings(s) ==
    /\ spc[s] = "open"
    /\ setTmp' = IF setTmp # Absent THEN setTmp
                 ELSE CHOOSE f \in Files : f # setFile /\ \A v \in Savers : fd[v] # f
    /\ content' = [content EXCEPT ![setTmp'] = NoSettings]
    /\ fd' = [fd EXCEPT ![s] = setTmp']
    /\ filled' = filled \ {setTmp'}
    /\ spc' = [spc EXCEPT ![s] = "write"]
    /\ UNCHANGED <<now, setFile, want, runs, left>>

(* ... and writes it; of a longer text that another request has put there  *)
(* since, the tail stays, and the file is no JSON.                         *)
WriteSettings(s) ==
    /\ spc[s] = "write"
    /\ \E c \in {want[s]} \cup (IF fd[s] \in filled THEN {NoSettings} ELSE {}) :
          content' = [content EXCEPT ![fd[s]] = c]
    /\ filled' = filled \cup {fd[s]}
    /\ fd' = [fd EXCEPT ![s] = Absent]
    /\ spc' = [spc EXCEPT ![s] = "replace"]
    /\ UNCHANGED <<now, setFile, setTmp, want, runs, left>>

(* temporary.replace(automatic_config_file); the request goes on with      *)
(* run_automatic_backup_if_due.                                            *)
ReplaceSettings(s) ==
    /\ spc[s] = "replace"
    /\ setTmp # Absent
    /\ setFile' = setTmp
    /\ setTmp' = Absent
    /\ spc' = [spc EXCEPT ![s] = "run"]
    /\ rpc' = [rpc EXCEPT ![s] = "read"]
    /\ UNCHANGED <<now, content, fd, filled, want, backups, expired, left>>

(* Another request has moved the temporary file away (500). *)
ReplaceFails(s) ==
    /\ spc[s] = "replace"
    /\ setTmp = Absent
    /\ spc' = [spc EXCEPT ![s] = "idle"]
    /\ UNCHANGED <<now, setFile, setTmp, content, fd, filled, want, runs, left>>

-------------------------------------------------------------------------------
(* A run ends; for a saver that is the end of its request too. *)
End(x) ==
    /\ rpc' = [rpc EXCEPT ![x] = "idle"]
    /\ expired' = [expired EXCEPT ![x] = {}]
    /\ spc' = [s \in Savers |-> IF s = x THEN "idle" ELSE spc[s]]

Go(x, where) ==
    /\ rpc' = [rpc EXCEPT ![x] = where]
    /\ UNCHANGED <<expired, spc>>

notSpc == <<setFile, setTmp, content, fd, filled, want>>

(* Mutant: the worker ends with its first exception. *)
WakeUntilFailure ==
    /\ rpc[Worker] = "idle"
    /\ left.failures = MaxFailures
    /\ Go(Worker, "read")
    /\ UNCHANGED <<now, notSpc, backups, left>>

(* The worker wakes up: every sixty seconds, whatever happened before. *)
Wake ==
    /\ rpc[Worker] = "idle"
    /\ Go(Worker, "read")
    /\ UNCHANGED <<now, notSpc, backups, left>>

ReadConfig(x) ==
    /\ rpc[x] = "read"
    /\ IF Config.enabled /\ Config.password # Absent THEN Go(x, "due") ELSE End(x)
    /\ UNCHANGED <<now, notSpc, backups, left>>

(* The newest backup is old enough, or there is none. *)
IsDue == backups = {} \/ now - Max(backups) >= Interval

CheckDue(x) ==
    /\ rpc[x] = "due"
    /\ IF IsDue THEN Go(x, "create") ELSE End(x)
    /\ UNCHANGED <<now, notSpc, backups, left>>

(* A file vanishes between glob and stat: FileNotFoundError. *)
StatFails(x) ==
    /\ rpc[x] = "due"
    /\ \E y \in Runners \ {x} : rpc[y] = "prune"
    /\ End(x)
    /\ UNCHANGED <<now, notSpc, backups, left>>

(* Mutant: the name is the time of the next backup. *)
CreateAhead(x) ==
    /\ rpc[x] = "create"
    /\ backups' = backups \cup {now + Interval}
    /\ Go(x, "list")
    /\ UNCHANGED <<now, notSpc, left>>

(* The snapshot, encrypted, under a temporary name of its own and then     *)
(* under that of the second, which another run may have used as well.      *)
Create(x) ==
    /\ rpc[x] = "create"
    /\ backups' = backups \cup {now}
    /\ Go(x, "list")
    /\ UNCHANGED <<now, notSpc, left>>

(* The disk is full, the database locked. *)
CreateFails(x) ==
    /\ rpc[x] = "create"
    /\ left.failures > 0
    /\ left' = [left EXCEPT !.failures = @ - 1]
    /\ End(x)
    /\ UNCHANGED <<now, notSpc, backups>>

(* Mutant: off by one in the slice. *)
OutdatedOneMore == {b \in backups : Cardinality({c \in backups : c > b}) > Keep}

(* Mutant: sorted the wrong way round. *)
OutdatedNewest == {b \in backups : Cardinality({c \in backups : c < b}) >= Keep}

(* sorted(..., reverse=True)[max(1, keep):] *)
Outdated == {b \in backups : Cardinality({c \in backups : c > b}) >= Keep}

ListBackups(x) ==
    /\ rpc[x] = "list"
    /\ expired' = [expired EXCEPT ![x] = Outdated]
    /\ rpc' = [rpc EXCEPT ![x] = "prune"]
    /\ UNCHANGED <<now, spc, notSpc, backups, left>>

(* expired.unlink(), the newest of them first. *)
Prune(x) ==
    /\ rpc[x] = "prune"
    /\ expired[x] # {}
    /\ Max(expired[x]) \in backups
    /\ backups' = backups \ {Max(expired[x])}
    /\ expired' = [expired EXCEPT ![x] = @ \ {Max(@)}]
    /\ UNCHANGED <<now, spc, notSpc, rpc, left>>

(* All are gone; or another run has already removed the next one           *)
(* (FileNotFoundError), and this one gives up.                             *)
PruneEnds(x) ==
    /\ rpc[x] = "prune"
    /\ expired[x] # {} => Max(expired[x]) \notin backups
    /\ End(x)
    /\ UNCHANGED <<now, notSpc, backups, left>>

AutoTick ==
    /\ now < MaxTime
    /\ now' = now + 1
    /\ UNCHANGED <<settings, runs, left>>

RunStep(x) ==
    \/ ReadConfig(x) \/ CheckDue(x) \/ StatFails(x) \/ Create(x) \/ CreateFails(x)
    \/ ListBackups(x) \/ Prune(x) \/ PruneEnds(x)

SaveStep(s) ==
    OpenSettings(s) \/ WriteSettings(s) \/ ReplaceSettings(s) \/ ReplaceFails(s)

AutoStep ==
    \/ \E s \in Savers :
        \/ \E e \in BOOLEAN, p \in Passwords \cup {Absent} : ReadSettings(s, e, p)
        \/ SaveStep(s)
    \/ \E x \in Runners : RunStep(x)
    \/ Wake \/ AutoTick

Saving(s) == spc[s] \in {"open", "write", "replace"}
Clash == \E s, q \in Savers : s # q /\ Saving(s) /\ Saving(q)

AutoNext == AutoStep /\ clashed' = (clashed \/ Clash')

AutoSpec == AutoInit /\ [][AutoNext]_autoVars

(* The worker is rescheduled after every run, also a failed one, and the   *)
(* threads run on.                                                         *)
FairAutoSpec ==
    /\ AutoSpec
    /\ WF_autoVars(Wake /\ AutoNext)
    /\ \A x \in Runners : WF_autoVars(RunStep(x) /\ AutoNext)
    /\ \A s \in Savers : WF_autoVars(SaveStep(s) /\ AutoNext)

-------------------------------------------------------------------------------
AutoTypeOK ==
    /\ now \in 0..MaxTime
    /\ {setFile, setTmp} \subseteq Files \cup {Absent}
    /\ content \in [Files -> Setting]
    /\ fd \in [Savers -> Files \cup {Absent}]
    /\ filled \subseteq Files
    /\ spc \in [Savers -> {"idle", "open", "write", "replace", "run"}]
    /\ want \in [Savers -> Setting]
    /\ backups \subseteq 0..now
    /\ rpc \in [Runners -> {"idle", "read", "due", "create", "list", "prune"}]
    /\ expired \in [Runners -> SUBSET (0..now)]
    /\ clashed \in BOOLEAN

(* Unless requests overlap, the settings in force only ever become the     *)
(* ones a request saves, whole, and one without a password keeps the       *)
(* password the backups are encrypted with: reading, merging and replacing *)
(* the file lose nothing.                                                  *)
SettingsSurvive ==
    [][\/ clashed'
       \/ Config' = Config
       \/ /\ \E s \in Savers : spc[s] = "replace" /\ Config' = want[s]
          /\ Config.password # Absent => Config'.password # Absent]_autoVars

(* However runs overlap, only backups with Keep newer ones beside them are *)
(* removed: pruning never shortens what the retention promises.            *)
OnlyOutdatedRemoved ==
    [][\A b \in backups \ backups' :
          Cardinality({c \in backups' : c > b}) >= Keep]_autoVars

(* ... and no run that gives up leaves more than the retention behind.     *)
RetentionKept ==
    (\A x \in Runners : rpc[x] = "idle") => Cardinality(backups) <= Keep

(* While backups are enabled, one that is due is made, also after failures *)
(* ("A failed backup must not terminate the web service or scheduler").    *)
Overdue == Config.enabled /\ IsDue
DueIsMade == Overdue ~> ~Overdue
===============================================================================
