----------------------------- MODULE ServiceUpdate -----------------------------
(***************************************************************************)
(* certify_update (packaging/update-common.sh), run by update-online.sh    *)
(* and update-offline.sh, from the command line or for the web interface.  *)
(* It builds a new Python environment next to the active one, swaps the    *)
(* two by renaming directories, restarts the service and rolls back when   *)
(* /health does not answer with the new version.  The scripts run with     *)
(* `set -e`: a failing command that is not tested ends them on the spot.   *)
(***************************************************************************)
EXTENDS Naturals, FiniteSets

CONSTANTS
    Updaters,           \* runs of an updater that may overlap
    Versions,           \* releases of Certify, numbered in their order
    Broken,             \* those that install and import but never get healthy
    Installed,          \* the release installed first
    CandidateHomes,     \* "any": the console script finds its interpreter after
                        \* the directory was renamed; "candidate": it only does
                        \* under the path at which pip installed it
    Faults,             \* subset of {"command", "kill", "slow", "tls"}
    MaxRuns,            \* bound on the updates started
    None                \* no such directory, file, package or holder

ASSUME HomeAssumption == CandidateHomes \subseteq {"any", "candidate"}
ASSUME FaultAssumption == Faults \subseteq {"command", "kill", "slow", "tls"}
ASSUME RunsAssumption == MaxRuns \in Nat /\ None \notin Updaters

VARIABLES
    active,             \* /opt/certify/venv
    candidate,          \* /opt/certify/venv.new
    previous,           \* /opt/certify/venv.previous
    sharedTree,         \* release in the git checkout the online updates share
    files,              \* release of certify.service and configure-tls on disk
    saved,              \* their copies in /opt/certify
    loaded,             \* release of the unit that systemd has loaded
    service,            \* release of the running process, None when it is down
    disturbed,          \* ghost: it was not stopped for the exchange of directories
    lock,               \* holder of update.lock
    pc,                 \* where an updater is,
    package,            \* the release of its package, None for an online update,
    target,             \* and the expected_version it has installed
    moved,              \* ghost: the checkout moved between pip and the units
    before,             \* ghost: what was installed when it took the lock
    result,             \* ghost: who has just ended, and how
    runs                \* updates started

dirs == <<active, candidate, previous>>
units == <<files, saved, loaded>>
process == <<service, disturbed>>
sources == <<sharedTree, moved>>
control == <<lock, package, target, before, runs, sources>>
vars == <<dirs, units, process, control, pc, result>>

Env == [version : Versions, home : {"active"} \cup CandidateHomes]

ASSUME VersionAssumption ==
    /\ Versions \subseteq Nat
    /\ Installed \in Versions \ Broken /\ None \notin Versions \cup Env

Phases == {"idle", "preflight", "lock", "prepare", "files", "stop", "remove", "away", "in",
           "reload", "start", "health", "undo", "undoAway", "undoIn",
           "undoFiles", "undoStart"}
Holding == Phases \ {"idle", "preflight", "lock"}

Init ==
    /\ active = [version |-> Installed, home |-> "active"]
    /\ candidate = None
    /\ previous = None
    /\ files = Installed /\ saved = None /\ loaded = Installed
    /\ service = Installed /\ disturbed = FALSE
    /\ sharedTree = Installed /\ moved = FALSE
    /\ lock = None
    /\ pc = [u \in Updaters |-> "idle"]
    /\ package = [u \in Updaters |-> None]
    /\ target = [u \in Updaters |-> Installed]
    /\ before = [u \in Updaters |-> None]
    /\ result = None
    /\ runs = 0

Goto(u, phase) ==
    /\ pc' = [pc EXCEPT ![u] = phase]
    /\ result' = None

(* Leaves the script: its variables are gone, and the descriptor of        *)
(* update.lock closes.                                                     *)
End(u, how) ==
    /\ pc' = [pc EXCEPT ![u] = "idle"]
    /\ result' = [by |-> u, how |-> how]
    /\ lock' = IF lock = u THEN None ELSE lock
    /\ target' = [target EXCEPT ![u] = Installed]
    /\ before' = [before EXCEPT ![u] = None]
    /\ package' = [package EXCEPT ![u] = None]
    /\ UNCHANGED <<runs, sources>>

(* update-online.sh brings the checkout forward, holding no lock. *)
MergeSources(u, v) ==
    /\ pc[u] = "idle" /\ runs < MaxRuns
    /\ v >= sharedTree
    /\ sharedTree' = v
    /\ moved' = (moved \/ (v # sharedTree /\ \E w \in Updaters : pc[w] = "files"))
    /\ runs' = runs + 1
    /\ Goto(u, "preflight")
    /\ UNCHANGED <<dirs, units, process, lock, package, target, before>>

(* update-offline.sh has a package of its own, and verifies it. *)
VerifyPackage(u, v) ==
    /\ pc[u] = "idle" /\ runs < MaxRuns
    /\ package' = [package EXCEPT ![u] = v]
    /\ runs' = runs + 1
    /\ Goto(u, "preflight")
    /\ UNCHANGED <<dirs, units, process, lock, target, before, sources>>

(* The preflight: there is an installation to update. *)
Preflight(u) ==
    /\ pc[u] = "preflight"
    /\ active # None
    /\ Goto(u, "lock")
    /\ UNCHANGED <<dirs, units, process, control>>

NotInstalled(u) ==
    /\ pc[u] = "preflight"
    /\ active = None
    /\ End(u, "refused")
    /\ UNCHANGED <<dirs, units, process>>

(* Mutant: the result of flock -n is not looked at. *)
TakeAnyLock(u) ==
    /\ pc[u] = "lock"
    /\ lock' = u
    /\ before' = [before EXCEPT ![u] = [env |-> active, files |-> files, service |-> service]]
    /\ Goto(u, "prepare")
    /\ UNCHANGED <<dirs, units, process, package, target, runs, sources>>

(* flock -n: whoever does not get it gives up. *)
TakeLock(u) ==
    /\ pc[u] = "lock"
    /\ lock = None
    /\ lock' = u
    /\ before' = [before EXCEPT ![u] = [env |-> active, files |-> files, service |-> service]]
    /\ Goto(u, "prepare")
    /\ UNCHANGED <<dirs, units, process, package, target, runs, sources>>

GiveUp(u) ==
    /\ pc[u] = "lock"
    /\ lock # None
    /\ End(u, "refused")
    /\ UNCHANGED <<dirs, units, process>>

(* What install_source and files_root hold at the moment. *)
Source(u) == IF package[u] = None THEN sharedTree ELSE package[u]

(* rm -rf venv.new, python3 -m venv, pip install and the import self-test, *)
(* which tells the version.                                                *)
Prepare(u) ==
    /\ pc[u] = "prepare"
    /\ target' = [target EXCEPT ![u] = Source(u)]
    /\ \E h \in CandidateHomes : candidate' = [version |-> Source(u), home |-> h]
    /\ moved' = FALSE
    /\ Goto(u, "files")
    /\ UNCHANGED <<active, previous, units, process,
                   lock, package, before, runs, sharedTree>>

(* pip or the self-test failed: the candidate goes, nothing else changed. *)
NotPrepared(u) ==
    /\ pc[u] = "prepare"
    /\ candidate' = None
    /\ End(u, "unchanged")
    /\ UNCHANGED <<active, previous, units, process>>

(* Copies of the unit and the TLS helper, then the new ones, which are     *)
(* read from the source again.                                             *)
InstallFiles(u) ==
    /\ pc[u] = "files"
    /\ saved' = files
    /\ files' = Source(u)
    /\ Goto(u, "stop")
    /\ UNCHANGED <<dirs, loaded, process, control>>

(* systemctl stop certify *)
StopService(u) ==
    /\ pc[u] = "stop"
    /\ service' = None /\ disturbed' = FALSE
    /\ Goto(u, "remove")
    /\ UNCHANGED <<dirs, units, control>>

(* systemctl stop certify || true: the failure is ignored, and what runs   *)
(* goes on while its environment is moved.                                 *)
StopIgnored(u) ==
    /\ "command" \in Faults
    /\ pc[u] = "stop"
    /\ disturbed' = TRUE
    /\ Goto(u, "remove")
    /\ UNCHANGED <<dirs, units, service, control>>

(* rm -rf venv.previous; mv venv venv.previous; mv venv.new venv *)
RemovePrevious(u) ==
    /\ pc[u] = "remove"
    /\ previous' = None
    /\ Goto(u, "away")
    /\ UNCHANGED <<active, candidate, units, process, control>>

MoveActiveAway(u) ==
    /\ pc[u] = "away"
    /\ active # None
    /\ previous' = active
    /\ active' = None
    /\ Goto(u, "in")
    /\ UNCHANGED <<candidate, units, process, control>>

MoveCandidateIn(u) ==
    /\ pc[u] = "in"
    /\ candidate # None
    /\ active' = candidate
    /\ candidate' = None
    /\ Goto(u, "reload")
    /\ UNCHANGED <<previous, units, process, control>>

(* systemctl daemon-reload, and enable --now of the path and timer units. *)
Reload(u) ==
    /\ pc[u] = "reload"
    /\ loaded' = files
    /\ Goto(u, "start")
    /\ UNCHANGED <<dirs, files, saved, process, control>>

(* ExecStart=/opt/certify/venv/bin/certify: the process that comes up. *)
Launched ==
    IF active # None /\ active.home \in {"active", "any"}
    THEN active.version ELSE None

(* systemctl restart; the process ends at once if it cannot use the TLS    *)
(* files.                                                                  *)
Restart ==
    /\ service' \in {Launched} \cup IF "tls" \in Faults THEN {None} ELSE {}
    /\ disturbed' = FALSE

(* systemctl reports a process that cannot be executed, or only the health *)
(* check notices (Type=simple).                                            *)
StartService(u) ==
    /\ pc[u] = "start"
    /\ Restart
    /\ \/ Goto(u, "health")
       \/ service' = None /\ Goto(u, "undo")
    /\ UNCHANGED <<dirs, units, control>>

(* systemctl fails and has done nothing. *)
StartFails(u) ==
    /\ "command" \in Faults
    /\ pc[u] = "start"
    /\ Goto(u, "undo")
    /\ UNCHANGED <<dirs, units, process, control>>

(* Mutant: it is enough that systemd has started a process. *)
AnyHealth(u) == service # None

(* /health answers with the new version within the thirty attempts. *)
Healthy(u) == service = target[u] /\ service \notin Broken

Succeed(u) ==
    /\ pc[u] = "health"
    /\ Healthy(u)
    /\ saved' = None
    /\ End(u, "success")
    /\ UNCHANGED <<dirs, files, loaded, process>>

(* Thirty attempts without the right answer. *)
Unhealthy(u) ==
    /\ pc[u] = "health"
    /\ ~Healthy(u) \/ "slow" \in Faults
    /\ Goto(u, "undo")
    /\ UNCHANGED <<dirs, units, process, control>>

(* The rollback: stop the service, rm -rf venv.new, ... *)
UndoStop(u) ==
    /\ pc[u] = "undo"
    /\ service' = None /\ disturbed' = FALSE
    /\ candidate' = None
    /\ Goto(u, "undoAway")
    /\ UNCHANGED <<active, previous, units, control>>

UndoStopIgnored(u) ==
    /\ "command" \in Faults
    /\ pc[u] = "undo"
    /\ disturbed' = TRUE
    /\ candidate' = None
    /\ Goto(u, "undoAway")
    /\ UNCHANGED <<active, previous, units, service, control>>

(* ... mv venv venv.new; mv venv.previous venv, ... *)
UndoAway(u) ==
    /\ pc[u] = "undoAway"
    /\ active # None
    /\ candidate' = active
    /\ active' = None
    /\ Goto(u, "undoIn")
    /\ UNCHANGED <<previous, units, process, control>>

UndoIn(u) ==
    /\ pc[u] = "undoIn"
    /\ previous # None
    /\ active' = previous
    /\ previous' = None
    /\ Goto(u, "undoFiles")
    /\ UNCHANGED <<candidate, units, process, control>>

(* Mutant: the rollback does not reload the unit. *)
UndoWithoutReload(u) ==
    /\ pc[u] = "undoFiles"
    /\ saved # None
    /\ files' = saved
    /\ saved' = None
    /\ Goto(u, "undoStart")
    /\ UNCHANGED <<dirs, loaded, process, control>>

(* ... the saved unit and helper, daemon-reload, ...  (The other units and *)
(* scripts were not saved; they stay those of the new release.)            *)
UndoFiles(u) ==
    /\ pc[u] = "undoFiles"
    /\ saved # None
    /\ files' = saved
    /\ saved' = None
    /\ loaded' = files'
    /\ Goto(u, "undoStart")
    /\ UNCHANGED <<dirs, process, control>>

(* ... restart the service, rm -rf venv.new, return 1. *)
UndoStart(u) ==
    /\ pc[u] = "undoStart"
    /\ Restart
    /\ candidate' = None
    /\ End(u, "rolledback")
    /\ UNCHANGED <<active, previous, units>>

(* (|| true: also when systemctl fails and has done nothing.) *)
UndoStartFails(u) ==
    /\ "command" \in Faults
    /\ pc[u] = "undoStart"
    /\ candidate' = None
    /\ End(u, "rolledback")
    /\ UNCHANGED <<active, previous, units, process>>

(* A command that the script does not test fails (a full disk, a rename of *)
(* a directory that is gone, systemctl without a bus): `set -e`.  "stop"   *)
(* is a failure behind the first of the copied files, "start" that of      *)
(* systemctl enable; the stop and the restart themselves are tested.       *)
Untested == {"files", "stop", "remove", "away", "in", "reload", "start",
             "undoAway", "undoIn", "undoFiles"}

CannotGoOn(u) ==
    \/ pc[u] \in {"away", "undoAway"} /\ active = None
    \/ pc[u] = "in" /\ candidate = None
    \/ pc[u] = "undoIn" /\ previous = None
    \/ pc[u] = "undoFiles" /\ saved = None

AbortRun(u) ==
    /\ pc[u] \in Untested
    /\ "command" \in Faults \/ CannotGoOn(u)
    /\ End(u, "aborted")
    /\ UNCHANGED <<dirs, units, process>>

(* The updater is killed or the machine loses power. *)
Kill(u) ==
    /\ "kill" \in Faults
    /\ pc[u] # "idle"
    /\ End(u, "killed")
    /\ UNCHANGED <<dirs, units, process>>

Starts(u) == StartService(u) \/ UndoStart(u)
Stops(u) == StopService(u) \/ UndoStop(u)

(* What neither starts nor stops the service. *)
Works(u) ==
    \/ \E v \in Versions : MergeSources(u, v) \/ VerifyPackage(u, v)
    \/ Preflight(u) \/ NotInstalled(u)
    \/ TakeLock(u) \/ GiveUp(u) \/ Prepare(u) \/ NotPrepared(u)
    \/ InstallFiles(u) \/ StopIgnored(u)
    \/ RemovePrevious(u) \/ MoveActiveAway(u) \/ MoveCandidateIn(u)
    \/ Reload(u) \/ StartFails(u) \/ Succeed(u) \/ Unhealthy(u)
    \/ UndoStopIgnored(u) \/ UndoAway(u) \/ UndoIn(u) \/ UndoFiles(u)
    \/ UndoStartFails(u) \/ AbortRun(u) \/ Kill(u)

Next == \E u \in Updaters : Starts(u) \/ Stops(u) \/ Works(u)

Spec == Init /\ [][Next]_vars

-------------------------------------------------------------------------------
TypeOK ==
    /\ {active, candidate, previous} \subseteq Env \cup {None}
    /\ {files, loaded, sharedTree} \subseteq Versions
    /\ {saved, service} \subseteq Versions \cup {None}
    /\ lock \in Updaters \cup {None}
    /\ pc \in [Updaters -> Phases]
    /\ package \in [Updaters -> Versions \cup {None}]
    /\ target \in [Updaters -> Versions]
    /\ disturbed \in BOOLEAN /\ moved \in BOOLEAN
    /\ before \in [Updaters ->
                [env : Env \cup {None}, files : Versions,
                 service : Versions \cup {None}] \cup {None}]
    /\ result \in {None} \cup
          [by : Updaters, how : {"refused", "unchanged", "success",
                                 "rolledback", "aborted", "killed"}]
    /\ runs \in 0..MaxRuns

(* Parallel updates are kept apart: only the holder of update.lock touches *)
(* the installation.                                                       *)
OneUpdater == \A u \in Updaters : pc[u] \in Holding <=> lock = u

(* The service never runs on an environment that is being moved away from  *)
(* under it: what runs is what is installed.                               *)
ServiceRunsActive == service # None => active # None /\ active.version = service

Ends(u, how) ==
    pc[u] # "idle" /\ pc'[u] = "idle" /\ result' = [by |-> u, how |-> how]

(* README.md: after a successful update the service runs, checked, on the  *)
(* new version, with one fallback environment and the unit on disk loaded. *)
(* The unit is the new version's, unless another run has brought the       *)
(* shared checkout forward between the build and the copy of the unit.     *)
SuccessIsReal ==
    [][\A u \in Updaters : Ends(u, "success") =>
          /\ service' = target[u] /\ target[u] \notin Broken
          /\ active'.version = target[u]
          /\ loaded' = files'
          /\ files' = target[u] \/ (moved /\ package[u] = None)
          /\ previous' = before[u].env]_vars

(* README.md: a failed start rolls environment and unit back to what was   *)
(* installed before, and starts that again; also when that update followed *)
(* one that was killed half-way.  Only a process that could not be stopped *)
(* may still run another release.                                          *)
RollbackRestores ==
    [][\A u \in Updaters : Ends(u, "rolledback") =>
          /\ active' = before[u].env
          /\ files' = before[u].files /\ loaded' = before[u].files
          /\ disturbed' \/ service' \in {before[u].env.version, None}
          /\ candidate' = None]_vars

(* README.md: on an error environment and unit are rolled back and the     *)
(* previous service is started.                                            *)
FailureRestoresService ==
    [][\A u \in Updaters : \A how \in {"aborted", "rolledback", "unchanged"} :
          Ends(u, how) => service' = before[u].service]_vars
===============================================================================
