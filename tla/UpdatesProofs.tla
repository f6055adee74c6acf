----------------------------- MODULE UpdatesProofs -----------------------------
(***************************************************************************)
(* Proofs about what keeps an installation current, for every value of the *)
(* constants: updates of the service and activations of its certificate    *)
(* (ServiceUpdate, TlsActivation), and the requests that start updates     *)
(* (UpdateRequests).  The holder of update.lock is the only one in a phase *)
(* that touches the installation, so what it knows at one phase it still   *)
(* knows at the next one.                                                  *)
(***************************************************************************)
EXTENDS TlsActivation, UpdateRequests, TLAPS

(* What the updater u, if it holds the lock, has left where. *)
Stage(u) ==
    /\ pc[u] \in {"prepare", "files", "stop", "remove", "away", "undoFiles", "undoStart"}
          => active = before[u].env
    /\ pc[u] \in {"in", "reload", "start", "health", "undo", "undoAway", "undoIn"}
          => previous = before[u].env
    /\ pc[u] \in {"prepare", "files"} => files = before[u].files
    /\ pc[u] \in Holding \ {"prepare", "files", "undoStart"}
          => saved = before[u].files
    /\ pc[u] = "files" => target[u] = Source(u) \/ (moved /\ package[u] = None)
    /\ pc[u] \in {"stop", "remove", "away", "in", "reload", "start", "health"}
          => files = target[u] \/ (moved /\ package[u] = None)
    /\ pc[u] \in {"files", "stop", "remove", "away", "in"}
          => candidate.version = target[u]
    /\ pc[u] \in {"reload", "start", "health"} => active.version = target[u]
    /\ pc[u] \in {"start", "health"} => loaded = files
    /\ pc[u] = "undoStart" => files = before[u].files /\ loaded = before[u].files

Stages == \A u \in Updaters : Stage(u)

(* Between a stop and the next start nothing runs and systemd starts       *)
(* nothing, unless the stop has failed or an activation has come in        *)
(* between.                                                                *)
Stopped == {"remove", "away", "in", "reload", "start",
            "undoAway", "undoIn", "undoFiles", "undoStart"}
ServiceInv ==
    disturbed \/ /\ ServiceRunsActive
                 /\ \A u \in Updaters : pc[u] \in Stopped => service = None /\ ~wanted

(* An activation that is neither cut nor overlapped is the only one at     *)
(* work, and the files it has renamed are its own.                         *)
PairInv ==
    ~spoiled =>
        /\ \A a, b \in Activations : AtWork(a) /\ AtWork(b) => a = b
        /\ \A a \in Activations :
              /\ AtWork(a) => cert = a
              /\ tls[a] \in {"check", "restart"} => key = a
        /\ (\A a \in Activations : ~AtWork(a))
              => Fits /\ (service # None => used = cert)

UpdateInv == TypeOK /\ OneUpdater /\ Stages
IInv == TlsTypeOK /\ UpdateInv /\ ServiceInv /\ PairInv

-------------------------------------------------------------------------------
USE VersionAssumption, HomeAssumption, FaultAssumption, RunsAssumption
USE DEF dirs, units, process, sources, control

(* Nothing is said of an updater that does not hold the lock. *)
LEMMA VacuousStage ==
    ASSUME NEW v \in Updaters, pc'[v] \notin Holding
    PROVE  Stage(v)'
BY DEF Stage, Holding, Phases

(* While one updater holds the lock or takes it, the others are not in any *)
(* phase that touches the installation.                                    *)
LEMMA AloneStages ==
    ASSUME UpdateInv, NEW u \in Updaters, NEW x \in Phases,
           pc[u] \in Holding \/ lock = None,
           pc' = [pc EXCEPT ![u] = x],
           lock' = (IF x \in Holding THEN u ELSE None),
           Stage(u)'
    PROVE  OneUpdater' /\ Stages'
<1>1. pc \in [Updaters -> Phases] /\ u \notin {None}
  BY DEF UpdateInv, TypeOK
<1>2. ASSUME NEW v \in Updaters, v # u
      PROVE  pc'[v] \notin Holding /\ v # lock'
  <2>1. pc[v] \notin Holding
    BY <1>2, RunsAssumption DEF UpdateInv, OneUpdater
  <2>2. pc'[v] = pc[v]
    BY <1>1, <1>2
  <2> QED BY <1>2, <2>1, <2>2
<1>3. OneUpdater'
  BY <1>1, <1>2 DEF OneUpdater
<1>4. Stages'
  BY <1>2, VacuousStage DEF Stages
<1> QED BY <1>3, <1>4

(* Steps of an updater that does not hold the lock and does not get it.    *)
LEMMA OutsideStages ==
    ASSUME UpdateInv, NEW u \in Updaters, NEW x \in {"idle", "preflight", "lock"},
           pc[u] \in {"idle", "preflight", "lock"},
           pc' = [pc EXCEPT ![u] = x], lock' = lock,
           UNCHANGED <<dirs, units>>,
           sharedTree' = sharedTree \/ \A v \in Updaters : pc[v] = "files" => moved',
           moved => moved',
           \A v \in Updaters \ {u} : /\ package'[v] = package[v]
                                     /\ target'[v] = target[v] /\ before'[v] = before[v]
    PROVE  OneUpdater' /\ Stages'
<1>1. pc \in [Updaters -> Phases]
  BY DEF UpdateInv, TypeOK
<1>2. pc[u] \notin Holding /\ pc'[u] \notin Holding
  BY <1>1 DEF Holding
<1>3. OneUpdater'
  BY <1>1, <1>2 DEF UpdateInv, OneUpdater
<1>4. ASSUME NEW v \in Updaters \ {u}
      PROVE  Stage(v)'
  <2>1. pc'[v] = pc[v] /\ Stage(v)
    BY <1>1 DEF UpdateInv, Stages
  <2> QED BY <2>1 DEF Stage, Source
<1>5. Stage(u)'
  BY <1>2, VacuousStage
<1> QED BY <1>3, <1>4, <1>5 DEF Stages

LEMMA UpdateInvStep ==
    ASSUME UpdateInv, NEW u \in Updaters,
           Starts(u) \/ Stops(u) \/ Works(u)
    PROVE  UpdateInv'
<1>1. TypeOK /\ OneUpdater /\ Stage(u)
  BY DEF UpdateInv, Stages
<1>2. /\ pc \in [Updaters -> Phases] /\ u # None
      /\ target \in [Updaters -> Versions]
      /\ before \in [Updaters ->
            [env : Env \cup {None}, files : Versions,
             service : Versions \cup {None}] \cup {None}]
      /\ lock = u <=> pc[u] \in Holding
  BY <1>1 DEF TypeOK, OneUpdater
<1>3. ASSUME NEW how, End(u, how),
             how \in {"unchanged", "success", "rolledback", "aborted", "killed"},
             pc[u] \in Holding
      PROVE  OneUpdater' /\ Stages'
  <2>1. pc' = [pc EXCEPT ![u] = "idle"] /\ lock' = None
    BY <1>2, <1>3 DEF End
  <2>2. "idle" \notin Holding /\ "idle" \in Phases
    BY DEF Holding, Phases
  <2>3. Stage(u)'
    BY <1>2, <2>1, <2>2, VacuousStage
  <2> QED BY <1>3, <2>1, <2>2, <2>3, AloneStages
<1>4. ASSUME NEW v \in Versions, MergeSources(u, v) \/ VerifyPackage(u, v)
      PROVE  UpdateInv'
  <2>0. disturbed' \in BOOLEAN /\ moved' \in BOOLEAN
    BY <1>1, <1>4 DEF TypeOK, MergeSources, VerifyPackage
  <2>1. TypeOK'
    BY <1>1, <1>4, <2>0 DEF TypeOK, MergeSources, VerifyPackage, Goto, Phases
  <2>2. /\ pc[u] = "idle" /\ pc' = [pc EXCEPT ![u] = "preflight"] /\ lock' = lock
        /\ UNCHANGED <<dirs, units, target, before>>
        /\ \A w \in Updaters \ {u} : package'[w] = package[w]
        /\ sharedTree' = sharedTree \/ \A w \in Updaters : pc[w] = "files" => moved'
        /\ moved => moved'
    BY <1>1, <1>4 DEF MergeSources, VerifyPackage, Goto, TypeOK
  <2>3. OneUpdater' /\ Stages'
    BY <2>2, OutsideStages
  <2> QED BY <2>1, <2>3 DEF UpdateInv
<1>25. CASE Preflight(u) \/ NotInstalled(u)
  <2>1. TypeOK'
    BY <1>1, <1>25 DEF TypeOK, Preflight, NotInstalled, Goto, End, Phases
  <2>2. PICK x \in {"idle", "lock"} :
           /\ pc[u] = "preflight" /\ pc' = [pc EXCEPT ![u] = x] /\ lock' = lock
           /\ UNCHANGED <<dirs, units, sources>>
           /\ \A w \in Updaters \ {u} : /\ package'[w] = package[w]
                                         /\ target'[w] = target[w] /\ before'[w] = before[w]
    BY <1>1, <1>2, <1>25 DEF Preflight, NotInstalled, Goto, End, Holding, TypeOK
  <2>3. OneUpdater' /\ Stages'
    BY <2>2, OutsideStages
  <2> QED BY <2>1, <2>3 DEF UpdateInv
<1>5. CASE TakeLock(u)
  <2>1. TypeOK'
    BY <1>1, <1>5 DEF TypeOK, TakeLock, Goto, Phases, Env
  <2>2. /\ pc' = [pc EXCEPT ![u] = "prepare"] /\ lock' = u /\ lock = None
        /\ "prepare" \in Phases /\ "prepare" \in Holding
    BY <1>2, <1>5 DEF TakeLock, Goto, Holding, Phases
  <2>3. Stage(u)'
    BY <1>1, <1>2, <1>5, <2>2 DEF Stage, TakeLock, Goto, Holding, Phases
  <2> QED BY <1>2, <2>1, <2>2, <2>3, AloneStages DEF UpdateInv
<1>6. CASE GiveUp(u)
  <2>1. TypeOK'
    BY <1>1, <1>6 DEF TypeOK, GiveUp, End, Phases
  <2>2. pc[u] \notin Holding /\ lock' = lock
    BY <1>2, <1>6 DEF GiveUp, End, Holding
  <2>3. OneUpdater' /\ Stages'
    BY <1>1, <1>2, <1>6, <2>2, OutsideStages DEF GiveUp, End, TypeOK
  <2> QED BY <2>1, <2>3 DEF UpdateInv
<1>7. CASE Prepare(u)
  <2>0. disturbed' \in BOOLEAN /\ moved' \in BOOLEAN
    BY <1>1, <1>7 DEF TypeOK, Prepare
  <2>1. TypeOK'
    BY <1>1, <1>7, <2>0 DEF TypeOK, Prepare, Source, Goto, Phases, Env
  <2>2. /\ pc' = [pc EXCEPT ![u] = "files"] /\ lock' = u /\ pc[u] \in Holding
        /\ "files" \in Phases /\ "files" \in Holding
    BY <1>2, <1>7 DEF Prepare, Goto, Holding, Phases
  <2>3. Stage(u)'
    BY <1>1, <1>2, <1>7, <2>2 DEF Stage, Prepare, Source, Goto, Holding, Phases
  <2> QED BY <1>2, <2>1, <2>2, <2>3, AloneStages DEF UpdateInv
<1>8. CASE NotPrepared(u)
  <2>1. TypeOK'
    BY <1>1, <1>8 DEF TypeOK, NotPrepared, End, Phases, Env
  <2>2. OneUpdater' /\ Stages'
    BY <1>3, <1>8 DEF NotPrepared, Holding, Phases
  <2> QED BY <2>1, <2>2 DEF UpdateInv
<1>9. CASE InstallFiles(u)
  <2>1. TypeOK'
    BY <1>1, <1>9 DEF TypeOK, InstallFiles, Source, Goto, Phases, Env
  <2>2. /\ pc' = [pc EXCEPT ![u] = "stop"] /\ lock' = u /\ pc[u] \in Holding
        /\ "stop" \in Phases /\ "stop" \in Holding
    BY <1>2, <1>9 DEF InstallFiles, Goto, Holding, Phases
  <2>3. Stage(u)'
    BY <1>1, <1>2, <1>9, <2>2 DEF Stage, InstallFiles, Source, Goto, Holding, Phases
  <2> QED BY <1>2, <2>1, <2>2, <2>3, AloneStages DEF UpdateInv
<1>10. CASE StopService(u) \/ StopIgnored(u)
  <2>0. disturbed' \in BOOLEAN /\ moved' \in BOOLEAN
    BY <1>1, <1>10 DEF TypeOK, StopService, StopIgnored
  <2>1. TypeOK'
    BY <1>1, <1>10, <2>0 DEF TypeOK, StopService, StopIgnored, Goto, Phases, Env
  <2>2. /\ pc' = [pc EXCEPT ![u] = "remove"] /\ lock' = u /\ pc[u] \in Holding
        /\ "remove" \in Phases /\ "remove" \in Holding
    BY <1>2, <1>10 DEF StopService, StopIgnored, Goto, Holding, Phases
  <2>3. Stage(u)'
    BY <1>1, <1>2, <1>10, <2>2 DEF Stage, StopService, StopIgnored, Goto, Holding, Phases
  <2> QED BY <1>2, <2>1, <2>2, <2>3, AloneStages DEF UpdateInv
<1>11. CASE RemovePrevious(u)
  <2>1. TypeOK'
    BY <1>1, <1>11 DEF TypeOK, RemovePrevious, Goto, Phases, Env
  <2>2. /\ pc' = [pc EXCEPT ![u] = "away"] /\ lock' = u /\ pc[u] \in Holding
        /\ "away" \in Phases /\ "away" \in Holding
    BY <1>2, <1>11 DEF RemovePrevious, Goto, Holding, Phases
  <2>3. Stage(u)'
    BY <1>1, <1>2, <1>11, <2>2 DEF Stage, RemovePrevious, Goto, Holding, Phases
  <2> QED BY <1>2, <2>1, <2>2, <2>3, AloneStages DEF UpdateInv
<1>12. CASE MoveActiveAway(u)
  <2>1. TypeOK'
    BY <1>1, <1>12 DEF TypeOK, MoveActiveAway, Goto, Phases, Env
  <2>2. /\ pc' = [pc EXCEPT ![u] = "in"] /\ lock' = u /\ pc[u] \in Holding
        /\ "in" \in Phases /\ "in" \in Holding
    BY <1>2, <1>12 DEF MoveActiveAway, Goto, Holding, Phases
  <2>3. Stage(u)'
    BY <1>1, <1>2, <1>12, <2>2 DEF Stage, MoveActiveAway, Goto, Holding, Phases
  <2> QED BY <1>2, <2>1, <2>2, <2>3, AloneStages DEF UpdateInv
<1>13. CASE MoveCandidateIn(u)
  <2>1. TypeOK'
    BY <1>1, <1>13 DEF TypeOK, MoveCandidateIn, Goto, Phases, Env
  <2>2. /\ pc' = [pc EXCEPT ![u] = "reload"] /\ lock' = u /\ pc[u] \in Holding
        /\ "reload" \in Phases /\ "reload" \in Holding
    BY <1>2, <1>13 DEF MoveCandidateIn, Goto, Holding, Phases
  <2>3. Stage(u)'
    BY <1>1, <1>2, <1>13, <2>2 DEF Stage, MoveCandidateIn, Goto, Holding, Phases
  <2> QED BY <1>2, <2>1, <2>2, <2>3, AloneStages DEF UpdateInv
<1>14. CASE Reload(u)
  <2>1. TypeOK'
    BY <1>1, <1>14 DEF TypeOK, Reload, Goto, Phases, Env
  <2>2. /\ pc' = [pc EXCEPT ![u] = "start"] /\ lock' = u /\ pc[u] \in Holding
        /\ "start" \in Phases /\ "start" \in Holding
    BY <1>2, <1>14 DEF Reload, Goto, Holding, Phases
  <2>3. Stage(u)'
    BY <1>1, <1>2, <1>14, <2>2 DEF Stage, Reload, Goto, Holding, Phases
  <2> QED BY <1>2, <2>1, <2>2, <2>3, AloneStages DEF UpdateInv
<1>15. CASE StartService(u) \/ StartFails(u)
  <2>0. disturbed' \in BOOLEAN /\ moved' \in BOOLEAN
    BY <1>1, <1>15 DEF TypeOK, StartService, StartFails, Restart
  <2>1. TypeOK'
    BY <1>1, <1>15, <2>0 DEF TypeOK, StartService, StartFails, Goto, Phases, Env, Launched, Restart
  <2>2. PICK x \in {"health", "undo"} : pc' = [pc EXCEPT ![u] = x]
    BY <1>15 DEF StartService, StartFails, Goto
  <2>3. lock' = u /\ pc[u] \in Holding /\ x \in Phases /\ x \in Holding
    BY <1>2, <1>15 DEF StartService, StartFails, Holding, Phases
  <2>4. Stage(u)'
    BY <1>1, <1>2, <1>15, <2>2 DEF Stage, StartService, StartFails, Holding, Phases
  <2> QED BY <1>2, <2>1, <2>2, <2>3, <2>4, AloneStages DEF UpdateInv
<1>16. CASE Succeed(u)
  <2>1. TypeOK'
    BY <1>1, <1>16 DEF TypeOK, Succeed, End, Phases, Env
  <2>2. OneUpdater' /\ Stages'
    BY <1>3, <1>16 DEF Succeed, Holding, Phases
  <2> QED BY <2>1, <2>2 DEF UpdateInv
<1>17. CASE Unhealthy(u)
  <2>1. TypeOK'
    BY <1>1, <1>17 DEF TypeOK, Unhealthy, Goto, Phases, Env
  <2>2. /\ pc' = [pc EXCEPT ![u] = "undo"] /\ lock' = u /\ pc[u] \in Holding
        /\ "undo" \in Phases /\ "undo" \in Holding
    BY <1>2, <1>17 DEF Unhealthy, Goto, Holding, Phases
  <2>3. Stage(u)'
    BY <1>1, <1>2, <1>17, <2>2 DEF Stage, Unhealthy, Goto, Holding, Phases
  <2> QED BY <1>2, <2>1, <2>2, <2>3, AloneStages DEF UpdateInv
<1>18. CASE UndoStop(u) \/ UndoStopIgnored(u)
  <2>0. disturbed' \in BOOLEAN /\ moved' \in BOOLEAN
    BY <1>1, <1>18 DEF TypeOK, UndoStop, UndoStopIgnored
  <2>1. TypeOK'
    BY <1>1, <1>18, <2>0 DEF TypeOK, UndoStop, UndoStopIgnored, Goto, Phases, Env
  <2>2. /\ pc' = [pc EXCEPT ![u] = "undoAway"] /\ lock' = u /\ pc[u] \in Holding
        /\ "undoAway" \in Phases /\ "undoAway" \in Holding
    BY <1>2, <1>18 DEF UndoStop, UndoStopIgnored, Goto, Holding, Phases
  <2>3. Stage(u)'
    BY <1>1, <1>2, <1>18, <2>2 DEF Stage, UndoStop, UndoStopIgnored, Goto, Holding, Phases
  <2> QED BY <1>2, <2>1, <2>2, <2>3, AloneStages DEF UpdateInv
<1>19. CASE UndoAway(u)
  <2>1. TypeOK'
    BY <1>1, <1>19 DEF TypeOK, UndoAway, Goto, Phases, Env
  <2>2. /\ pc' = [pc EXCEPT ![u] = "undoIn"] /\ lock' = u /\ pc[u] \in Holding
        /\ "undoIn" \in Phases /\ "undoIn" \in Holding
    BY <1>2, <1>19 DEF UndoAway, Goto, Holding, Phases
  <2>3. Stage(u)'
    BY <1>1, <1>2, <1>19, <2>2 DEF Stage, UndoAway, Goto, Holding, Phases
  <2> QED BY <1>2, <2>1, <2>2, <2>3, AloneStages DEF UpdateInv
<1>20. CASE UndoIn(u)
  <2>1. TypeOK'
    BY <1>1, <1>20 DEF TypeOK, UndoIn, Goto, Phases, Env
  <2>2. /\ pc' = [pc EXCEPT ![u] = "undoFiles"] /\ lock' = u /\ pc[u] \in Holding
        /\ "undoFiles" \in Phases /\ "undoFiles" \in Holding
    BY <1>2, <1>20 DEF UndoIn, Goto, Holding, Phases
  <2>3. Stage(u)'
    BY <1>1, <1>2, <1>20, <2>2 DEF Stage, UndoIn, Goto, Holding, Phases
  <2> QED BY <1>2, <2>1, <2>2, <2>3, AloneStages DEF UpdateInv
<1>21. CASE UndoFiles(u)
  <2>1. TypeOK'
    BY <1>1, <1>21 DEF TypeOK, UndoFiles, Goto, Phases, Env
  <2>2. /\ pc' = [pc EXCEPT ![u] = "undoStart"] /\ lock' = u /\ pc[u] \in Holding
        /\ "undoStart" \in Phases /\ "undoStart" \in Holding
    BY <1>2, <1>21 DEF UndoFiles, Goto, Holding, Phases
  <2>3. Stage(u)'
    BY <1>1, <1>2, <1>21, <2>2 DEF Stage, UndoFiles, Goto, Holding, Phases
  <2> QED BY <1>2, <2>1, <2>2, <2>3, AloneStages DEF UpdateInv
<1>22. CASE UndoStart(u) \/ UndoStartFails(u)
  <2>0. disturbed' \in BOOLEAN /\ moved' \in BOOLEAN
    BY <1>1, <1>22 DEF TypeOK, UndoStart, UndoStartFails, Restart, End
  <2>8. service' \in Versions \cup {None}
    BY <1>1, <1>22 DEF TypeOK, UndoStart, UndoStartFails, Launched, Restart, Env
  <2>1. TypeOK'
    BY <1>1, <1>22, <2>8, <2>0 DEF TypeOK, UndoStart, UndoStartFails, End, Phases, Env
  <2>2. OneUpdater' /\ Stages'
    BY <1>3, <1>22 DEF UndoStart, UndoStartFails, Holding, Phases
  <2> QED BY <2>1, <2>2 DEF UpdateInv
<1>23. CASE AbortRun(u)
  <2>1. TypeOK'
    BY <1>1, <1>23 DEF TypeOK, AbortRun, End, Phases, Env
  <2>2. OneUpdater' /\ Stages'
    BY <1>3, <1>23 DEF AbortRun, Holding, Phases, Untested
  <2> QED BY <2>1, <2>2 DEF UpdateInv
<1>24. CASE Kill(u)
  <2>1. TypeOK'
    BY <1>1, <1>24 DEF TypeOK, Kill, End, Phases
  <2>2. CASE pc[u] \in Holding
    BY <1>3, <1>24, <2>1, <2>2 DEF Kill, UpdateInv
  <2>3. CASE pc[u] \notin Holding
    <3>1. lock' = lock /\ pc[u] \in {"idle", "preflight", "lock"}
      BY <1>2, <1>24, <2>3 DEF Kill, End, Holding
    <3>2. /\ pc' = [pc EXCEPT ![u] = "idle"]
          /\ UNCHANGED <<dirs, units, sources>>
          /\ \A v \in Updaters \ {u} : /\ package'[v] = package[v]
                                        /\ target'[v] = target[v] /\ before'[v] = before[v]
      BY <1>1, <1>24 DEF Kill, End, TypeOK
    <3>3. OneUpdater' /\ Stages'
      BY <3>1, <3>2, OutsideStages
    <3> QED BY <2>1, <3>3 DEF UpdateInv
  <2> QED BY <2>2, <2>3
<1> QED
  BY <1>4, <1>5, <1>6, <1>7, <1>8, <1>9, <1>10, <1>11, <1>12, <1>13, <1>14, <1>15, <1>16, <1>17, <1>18, <1>19, <1>20, <1>21, <1>22, <1>23, <1>24, <1>25
     DEF Starts, Stops, Works

-------------------------------------------------------------------------------
(* Only a start and a stop change the process, and only between a stop and *)
(* a start is the active environment moved.                                *)
LEMMA QuietStep ==
    ASSUME UpdateInv, NEW u \in Updaters, Works(u)
    PROVE  /\ service' = service
           /\ disturbed' \/ disturbed' = disturbed
           /\ pc'[u] \in Stopped => pc[u] \in Stopped \/ disturbed'
           /\ active' # active => pc[u] \in Stopped
           /\ \A v \in Updaters \ {u} : pc'[v] = pc[v]
<1>1. pc \in [Updaters -> Phases]
  BY DEF UpdateInv, TypeOK
<1>2. CASE Preflight(u) \/ NotInstalled(u)
           \/ \E v \in Versions : MergeSources(u, v) \/ VerifyPackage(u, v)
  BY <1>1, <1>2
     DEF MergeSources, VerifyPackage, Preflight, NotInstalled, Goto, End, Stopped
<1>3. CASE TakeLock(u) \/ Prepare(u) \/ InstallFiles(u) \/ Unhealthy(u)
  BY <1>1, <1>3 DEF TakeLock, Prepare, InstallFiles, Unhealthy, Goto, Stopped
<1>4. CASE RemovePrevious(u) \/ MoveActiveAway(u) \/ MoveCandidateIn(u) \/ Reload(u)
  BY <1>1, <1>4 DEF RemovePrevious, MoveActiveAway, MoveCandidateIn, Reload, Goto, Stopped
<1>5. CASE UndoAway(u) \/ UndoIn(u) \/ UndoFiles(u)
  BY <1>1, <1>5 DEF UndoAway, UndoIn, UndoFiles, Goto, Stopped
<1>6. CASE GiveUp(u) \/ NotPrepared(u) \/ Succeed(u) \/ AbortRun(u) \/ Kill(u)
  BY <1>1, <1>6 DEF GiveUp, NotPrepared, Succeed, AbortRun, Kill, End, Stopped
<1>7. CASE StopIgnored(u) \/ UndoStopIgnored(u)
  BY <1>1, <1>7 DEF StopIgnored, UndoStopIgnored, Goto, Stopped
<1>8. CASE StartFails(u) \/ UndoStartFails(u)
  BY <1>1, <1>8 DEF StartFails, UndoStartFails, Goto, End, Stopped
<1> QED BY <1>2, <1>3, <1>4, <1>5, <1>6, <1>7, <1>8 DEF Works

LEMMA LaunchedRuns ==
    ASSUME UpdateInv
    PROVE  Launched # None => active # None /\ active.version = Launched
BY DEF Launched

LEMMA ServiceStep ==
    ASSUME UpdateInv, UpdateInv', TlsTypeOK, ServiceInv, NEW u \in Updaters, Update(u)
    PROVE  ServiceInv'
<1>1. pc \in [Updaters -> Phases]
  BY DEF UpdateInv, TypeOK
<1>2. \/ Starts(u) /\ service' = Comes
      \/ Stops(u) /\ wanted' = FALSE
      \/ Works(u) /\ wanted' = wanted
  BY DEF Update
<1>3. CASE Starts(u) /\ service' = Comes
  <2>1. /\ pc'[u] \notin Stopped /\ active' = active /\ pc[u] \in Holding
        /\ \A v \in Updaters \ {u} : pc'[v] = pc[v]
    BY <1>1, <1>3 DEF Starts, StartService, UndoStart, Goto, End, Stopped, Holding, Phases
  <2>2. \A v \in Updaters \ {u} : pc[v] \notin Holding
    BY <2>1, RunsAssumption DEF UpdateInv, OneUpdater
  <2>3. Stopped \subseteq Holding
    BY DEF Stopped, Holding, Phases
  <2>4. service' = None \/ service' = Launched
    BY <1>3 DEF Comes
  <2>5. ServiceRunsActive'
    BY <2>1, <2>4, LaunchedRuns DEF ServiceRunsActive
  <2> QED BY <2>1, <2>2, <2>3, <2>5 DEF ServiceInv
<1>4. CASE Stops(u) /\ wanted' = FALSE
  <2>1. service' = None
    BY <1>4 DEF Stops, StopService, UndoStop
  <2> QED BY <1>4, <2>1 DEF ServiceInv, ServiceRunsActive
<1>5. CASE Works(u) /\ wanted' = wanted
  <2>1. /\ service' = service
        /\ disturbed' \/ disturbed' = disturbed
        /\ pc'[u] \in Stopped => pc[u] \in Stopped \/ disturbed'
        /\ active' # active => pc[u] \in Stopped
        /\ \A v \in Updaters \ {u} : pc'[v] = pc[v]
    BY <1>5, QuietStep
  <2>2. SUFFICES ASSUME ~disturbed' PROVE ServiceInv'
    BY DEF ServiceInv
  <2>3. /\ ServiceRunsActive
        /\ \A v \in Updaters : pc[v] \in Stopped => service = None /\ ~wanted
    BY <2>1, <2>2 DEF ServiceInv
  <2>4. ServiceRunsActive'
    BY <2>1, <2>3 DEF ServiceRunsActive
  <2>5. \A v \in Updaters : pc'[v] \in Stopped => service' = None /\ ~wanted'
    BY <1>5, <2>1, <2>2, <2>3
  <2> QED BY <2>4, <2>5 DEF ServiceInv
<1> QED BY <1>2, <1>3, <1>4, <1>5

LEMMA PairStep ==
    ASSUME UpdateInv, PairInv, NEW u \in Updaters, Update(u)
    PROVE  PairInv'
<1>1. UNCHANGED <<cert, key, tls, spoiled>>
  BY DEF Update
<1>2. service' # None => used' = cert \/ (service' = service /\ used' = used)
  <2>1. CASE used' = cert
    BY <2>1
  <2>2. CASE Stops(u)
    BY <2>2 DEF Stops, StopService, UndoStop
  <2>3. CASE Works(u) /\ used' = used
    BY <2>3, QuietStep
  <2> QED BY <2>1, <2>2, <2>3 DEF Update
<1> QED BY <1>1, <1>2 DEF PairInv, AtWork, Fits

(* The steps of the activations. *)
LEMMA ActivationStep ==
    ASSUME IInv, NEW a \in Activations,
           \/ MoveCert(a) \/ MoveKey(a) \/ CheckActive(a)
           \/ RestartActive(a) \/ Cut(a)
    PROVE  IInv'
<1>1. /\ TlsTypeOK /\ TypeOK /\ UpdateInv /\ ServiceInv /\ PairInv
      /\ tls \in [Activations -> {"new", "key", "check", "restart", "done"}]
  BY DEF IInv, TlsTypeOK, UpdateInv
<1>2. UNCHANGED <<active, candidate, previous, files, saved, loaded, lock,
                  pc, package, target, before, result, runs, sharedTree, moved>>
  BY DEF MoveCert, MoveKey, CheckActive, RestartActive, Cut, vars
<1>3. service' \in {service, None, Launched}
  BY DEF MoveCert, MoveKey, CheckActive, RestartActive, Cut, Comes, vars
<1>4. Launched \in Versions \cup {None}
  BY <1>1 DEF TypeOK, Launched, Env
<1>9. disturbed' \in BOOLEAN
  BY <1>1 DEF TypeOK, MoveCert, MoveKey, CheckActive, RestartActive, Cut, vars, Exchanging
<1>5. UpdateInv'
  BY <1>1, <1>2, <1>3, <1>4, <1>9
     DEF UpdateInv, TypeOK, OneUpdater, Stages, Stage, Source
<1>6. TlsTypeOK'
  <2>1. TypeOK'
    BY <1>5 DEF UpdateInv
  <2>2. wanted' \in BOOLEAN /\ spoiled' \in BOOLEAN
    BY <1>1 DEF TlsTypeOK, MoveCert, MoveKey, CheckActive, RestartActive, Cut
  <2>3. {cert, key, used}' \subseteq Activations \cup {None}
    BY <1>1 DEF TlsTypeOK, MoveCert, MoveKey, CheckActive, RestartActive, Cut, vars
  <2>4. tls' \in [Activations -> {"new", "key", "check", "restart", "done"}]
    BY <1>1 DEF MoveCert, MoveKey, CheckActive, RestartActive, Cut, vars
  <2> QED BY <2>1, <2>2, <2>3, <2>4 DEF TlsTypeOK
<1>7. ServiceInv'
  <2>1. CASE UNCHANGED <<service, wanted, disturbed>>
    BY <1>1, <1>2, <2>1 DEF ServiceInv, ServiceRunsActive
  <2>2. ASSUME service' = Comes PROVE ServiceRunsActive'
    BY <1>1, <1>2, <2>2, LaunchedRuns DEF Comes, ServiceRunsActive
  <2>3. CASE RestartActive(a)
    <3>1. Stopped \subseteq Holding \ {"prepare", "files", "stop"}
      BY DEF Stopped, Holding, Phases
    <3>2. disturbed' \/ \A u \in Updaters : pc[u] \notin Stopped
      BY <2>3, <3>1 DEF RestartActive, Exchanging
    <3>3. ServiceRunsActive'
      BY <2>2, <2>3 DEF RestartActive
    <3> QED BY <1>2, <3>2, <3>3 DEF ServiceInv
  <2> QED BY <2>1, <2>3 DEF MoveCert, MoveKey, CheckActive, Cut, vars
<1>8. PairInv'
  <2>1. CASE MoveCert(a)
    <3>1. /\ spoiled' = \E b \in Activations : AtWork(b)
          /\ cert' = a /\ tls' = [tls EXCEPT ![a] = "key"]
      BY <2>1 DEF MoveCert
    <3>2. SUFFICES ASSUME ~spoiled'
                   PROVE  /\ \A b \in Activations \ {a} : ~AtWork(b)'
                          /\ AtWork(a)' /\ tls'[a] = "key"
      BY <3>1 DEF PairInv, AtWork
    <3>3. \A b \in Activations : ~AtWork(b)
      BY <3>1, <3>2
    <3> QED BY <1>1, <3>1, <3>3 DEF AtWork
  <2>2. CASE MoveKey(a)
    BY <1>1, <2>2 DEF MoveKey, PairInv, AtWork
  <2>3. CASE CheckActive(a)
    <3>1. tls[a] = "check" /\ UNCHANGED <<cert, key, used, service, spoiled>>
      BY <2>3 DEF CheckActive, vars
    <3>2. CASE service = None
      <4>1. tls' = [tls EXCEPT ![a] = "done"]
        BY <2>3, <3>2 DEF CheckActive
      <4> QED BY <1>1, <3>1, <3>2, <4>1 DEF PairInv, AtWork, Fits
    <3>3. CASE service # None
      <4>1. tls' = [tls EXCEPT ![a] = "restart"]
        BY <2>3, <3>3 DEF CheckActive
      <4> QED BY <1>1, <3>1, <4>1 DEF PairInv, AtWork, Fits
    <3> QED BY <3>2, <3>3
  <2>4. CASE RestartActive(a)
    <3>1. /\ tls[a] = "restart" /\ UNCHANGED <<cert, key, spoiled>>
          /\ tls' = [tls EXCEPT ![a] = "done"] /\ used' = cert
      BY <2>4 DEF RestartActive
    <3> QED BY <1>1, <3>1 DEF PairInv, AtWork, Fits
  <2>5. CASE Cut(a)
    BY <2>5 DEF Cut, PairInv
  <2> QED BY <2>1, <2>2, <2>3, <2>4, <2>5
<1> QED BY <1>5, <1>6, <1>7, <1>8 DEF IInv

(* What systemd starts again is what is installed, with the pair in place. *)
LEMMA AutoRestartStep ==
    ASSUME IInv, AutoRestart
    PROVE  IInv'
<1>1. TlsTypeOK /\ TypeOK /\ UpdateInv /\ ServiceInv /\ PairInv
  BY DEF IInv, UpdateInv
<1>2. /\ UNCHANGED <<active, candidate, previous, files, saved, loaded, lock,
                     pc, package, target, before, result, runs, sharedTree, moved>>
      /\ UNCHANGED <<cert, key, tls, wanted, disturbed, spoiled>>
      /\ wanted /\ used' = cert /\ (service' = None \/ service' = Launched)
  BY DEF AutoRestart, Comes
<1>3. Launched \in Versions \cup {None}
  BY <1>1 DEF TypeOK, Launched, Env
<1>4. UpdateInv'
  BY <1>1, <1>2, <1>3 DEF UpdateInv, TypeOK, OneUpdater, Stages, Stage, Source
<1>5. TlsTypeOK'
  BY <1>1, <1>2, <1>4 DEF UpdateInv, TlsTypeOK
<1>6. ServiceInv'
  <2>1. ServiceRunsActive'
    BY <1>1, <1>2, LaunchedRuns DEF ServiceRunsActive
  <2> QED BY <1>1, <1>2, <2>1 DEF ServiceInv
<1>7. PairInv'
  BY <1>1, <1>2 DEF PairInv, AtWork, Fits
<1> QED BY <1>4, <1>5, <1>6, <1>7 DEF IInv

-------------------------------------------------------------------------------
LEMMA TlsInitInv == TlsInit => IInv
<1> SUFFICES ASSUME TlsInit PROVE IInv
  OBVIOUS
<1> USE DEF TlsInit, Init
<1>1. TypeOK
  <2>1. active \in Env
    BY DEF Env
  <2>2. pc \in [Updaters -> Phases]
    BY DEF Phases
  <2>3. disturbed \in BOOLEAN /\ moved \in BOOLEAN
    OBVIOUS
  <2> QED BY <2>1, <2>2, <2>3 DEF TypeOK
<1>2. TlsTypeOK
  <2>1. {wanted, spoiled} \subseteq BOOLEAN
    OBVIOUS
  <2>2. {cert, key, used} \subseteq Activations \cup {None}
    OBVIOUS
  <2>3. tls \in [Activations -> {"new", "key", "check", "restart", "done"}]
    OBVIOUS
  <2> QED BY <1>1, <2>1, <2>2, <2>3 DEF TlsTypeOK
<1>3. OneUpdater /\ Stages
  BY DEF OneUpdater, Stages, Stage, Holding, Phases
<1>4. ServiceInv
  <2>1. active \in Env /\ active.version = service
    BY DEF Env
  <2>2. ServiceRunsActive
    BY <2>1 DEF ServiceRunsActive
  <2> QED BY <2>2 DEF ServiceInv, Stopped
<1>5. PairInv
  BY DEF PairInv, AtWork, Fits
<1> QED BY <1>1, <1>2, <1>3, <1>4, <1>5 DEF IInv, UpdateInv

LEMMA TlsStep == IInv /\ [TlsNext]_allVars => IInv'
<1> SUFFICES ASSUME IInv, [TlsNext]_allVars PROVE IInv'
  OBVIOUS
<1>1. CASE UNCHANGED allVars
  BY <1>1 DEF allVars, vars, tlsVars, IInv, TlsTypeOK, UpdateInv, TypeOK, OneUpdater,
              Stages, Stage, Source, ServiceInv, ServiceRunsActive, PairInv, AtWork, Fits
<1>2. ASSUME NEW u \in Updaters, Update(u)
      PROVE  IInv'
  <2>1. UpdateInv'
    BY <1>2, UpdateInvStep DEF Update, IInv
  <2>2. TlsTypeOK'
    BY <1>2, <2>1 DEF IInv, UpdateInv, TlsTypeOK, Update
  <2>3. ServiceInv' /\ PairInv'
    BY <1>2, <2>1, ServiceStep, PairStep DEF IInv
  <2> QED BY <2>1, <2>2, <2>3 DEF IInv
<1>3. ASSUME NEW a \in Activations,
             MoveCert(a) \/ MoveKey(a) \/ CheckActive(a) \/ RestartActive(a) \/ Cut(a)
      PROVE  IInv'
  BY <1>3, ActivationStep
<1>4. CASE AutoRestart
  BY <1>4, AutoRestartStep
<1> QED BY <1>1, <1>2, <1>3, <1>4 DEF TlsNext

THEOREM TlsInvariant == TlsSpec => []IInv
BY TlsInitInv, TlsStep, PTL DEF TlsSpec

(* Every variable of updates and activations keeps its type. *)
THEOREM TlsTypeCorrect == TlsSpec => []TlsTypeOK
<1>1. IInv => TlsTypeOK
  BY DEF IInv
<1> QED BY <1>1, TlsInvariant, PTL

(* Whatever is killed or fails, only the holder of update.lock is in a     *)
(* phase that touches the installation.                                    *)
THEOREM OneUpdaterCorrect == TlsSpec => []OneUpdater
<1>1. IInv => OneUpdater
  BY DEF IInv, UpdateInv
<1> QED BY <1>1, TlsInvariant, PTL

(* The service runs what is installed, unless a stop failed and was        *)
(* ignored, or an activation restarts it in the middle of an update.       *)
THEOREM RunsActiveCorrect == TlsSpec => []RunsActive
<1>1. IInv => RunsActive
  BY DEF IInv, ServiceInv, RunsActive
<1> QED BY <1>1, TlsInvariant, PTL

(* Certificate and key belong together, and are the ones in use, after     *)
(* every activation that was neither cut nor overlapped.                   *)
THEOREM PairCorrect == TlsSpec => []PairIsServed
<1>1. IInv => PairIsServed
  BY DEF IInv, PairInv, PairIsServed
<1> QED BY <1>1, TlsInvariant, PTL

(* The end of a run is the step of one updater, and tells how it ended. *)
LEMMA EndingStep ==
    ASSUME IInv, [TlsNext]_allVars, NEW u \in Updaters, NEW how, Ends(u, how)
    PROVE  /\ how = "success" => Succeed(u)
           /\ how = "rolledback" => UndoStart(u) \/ UndoStartFails(u)
<1>1. pc \in [Updaters -> Phases] /\ pc[u] # "idle" /\ pc'[u] = "idle"
  BY DEF IInv, UpdateInv, TypeOK, Ends
<1>2. PICK w \in Updaters : Update(w)
  <2>1. pc' # pc
    BY <1>1
  <2> QED BY <2>1 DEF TlsNext, allVars, vars, MoveCert, MoveKey, CheckActive,
                      RestartActive, Cut, AutoRestart
<1>3. ASSUME NEW x \in Phases \ {"idle"}, pc' = [pc EXCEPT ![w] = x]
      PROVE  FALSE
  BY <1>1, <1>3
<1>4. ASSUME NEW as, End(w, as)
      PROVE  w = u /\ as = how
  <2>1. w = u
    BY <1>1, <1>4 DEF End
  <2>2. [by |-> w, how |-> as] = [by |-> u, how |-> how]
    BY <1>4 DEF End, Ends
  <2>3. [by |-> w, how |-> as].how = [by |-> u, how |-> how].how
    BY <2>2
  <2>4. as = how
    BY <2>3
  <2> QED BY <2>1, <2>4
<1> USE DEF Goto, Phases
<1>5. ~Stops(w) /\ ~StopIgnored(w) /\ ~UndoStopIgnored(w)
      /\ ~StartService(w) /\ ~StartFails(w)
  BY <1>3 DEF Stops, StopService, UndoStop, StopIgnored, UndoStopIgnored,
              StartService, StartFails
<1>6. /\ \A v \in Versions : ~MergeSources(w, v) /\ ~VerifyPackage(w, v)
      /\ ~Preflight(w)
      /\ ~TakeLock(w) /\ ~Prepare(w) /\ ~InstallFiles(w) /\ ~Unhealthy(w)
  BY <1>3 DEF MergeSources, VerifyPackage, Preflight, TakeLock, Prepare,
              InstallFiles, Unhealthy
<1>7. ~RemovePrevious(w) /\ ~MoveActiveAway(w) /\ ~MoveCandidateIn(w) /\ ~Reload(w)
  BY <1>3 DEF RemovePrevious, MoveActiveAway, MoveCandidateIn, Reload
<1>8. ~UndoAway(w) /\ ~UndoIn(w) /\ ~UndoFiles(w)
  BY <1>3 DEF UndoAway, UndoIn, UndoFiles
<1>9. CASE NotInstalled(w) \/ GiveUp(w) \/ NotPrepared(w) \/ AbortRun(w) \/ Kill(w)
  BY <1>4, <1>9 DEF NotInstalled, GiveUp, NotPrepared, AbortRun, Kill
<1>10. CASE Succeed(w)
  BY <1>4, <1>10 DEF Succeed
<1>11. CASE UndoStart(w) \/ UndoStartFails(w)
  BY <1>4, <1>11 DEF UndoStart, UndoStartFails
<1> QED BY <1>2, <1>5, <1>6, <1>7, <1>8, <1>9, <1>10, <1>11
        DEF Update, Starts, Stops, Works

(* A successful update left the service on the release it had built,       *)
(* healthy, with the old environment as the fallback and the unit on disk  *)
(* loaded, which is that release's unless the shared checkout moved.       *)
THEOREM SuccessCorrect == TlsSpec => SuccessIsReal
<1> DEFINE Real == \A u \in Updaters : Ends(u, "success") =>
          /\ service' = target[u] /\ target[u] \notin Broken
          /\ active'.version = target[u]
          /\ loaded' = files'
          /\ files' = target[u] \/ (moved /\ package[u] = None)
          /\ previous' = before[u].env
<1>1. IInv /\ [TlsNext]_allVars => Real
  <2> SUFFICES ASSUME IInv, [TlsNext]_allVars, NEW u \in Updaters, Ends(u, "success")
               PROVE  /\ service' = target[u] /\ target[u] \notin Broken
                      /\ active'.version = target[u]
                      /\ loaded' = files'
                      /\ files' = target[u] \/ (moved /\ package[u] = None)
                      /\ previous' = before[u].env
    OBVIOUS
  <2>1. Succeed(u)
    BY EndingStep
  <2>2. Stage(u) /\ pc[u] = "health"
    BY <2>1 DEF IInv, UpdateInv, Stages, Succeed
  <2> QED BY <2>1, <2>2 DEF Succeed, Healthy, Stage, Holding, Phases
<1>2. IInv /\ [TlsNext]_allVars => [Real]_vars
  BY <1>1
<1> HIDE DEF Real
<1>3. TlsSpec => [][Real]_vars
  BY <1>2, TlsInvariant, PTL DEF TlsSpec
<1> QED BY <1>3 DEF SuccessIsReal, Real

(* A rollback restored the environment and the unit that were there when   *)
(* the updater took the lock, and nothing else runs but a process that     *)
(* could not be stopped.                                                   *)
THEOREM RollbackCorrect == TlsSpec => RollbackRestores
<1> DEFINE Restored == \A u \in Updaters : Ends(u, "rolledback") =>
          /\ active' = before[u].env
          /\ files' = before[u].files /\ loaded' = before[u].files
          /\ disturbed' \/ service' \in {before[u].env.version, None}
          /\ candidate' = None
<1>1. IInv /\ [TlsNext]_allVars => Restored
  <2> SUFFICES ASSUME IInv, [TlsNext]_allVars, NEW u \in Updaters, Ends(u, "rolledback")
               PROVE  /\ active' = before[u].env
                      /\ files' = before[u].files /\ loaded' = before[u].files
                      /\ disturbed' \/ service' \in {before[u].env.version, None}
                      /\ candidate' = None
    OBVIOUS
  <2>1. UndoStart(u) \/ UndoStartFails(u)
    BY EndingStep
  <2>2. Stage(u) /\ pc[u] = "undoStart"
    BY <2>1 DEF IInv, UpdateInv, Stages, UndoStart, UndoStartFails
  <2>3. disturbed' \/ service' \in {Launched, None}
    <3>1. disturbed \/ service = None
      BY <2>2 DEF IInv, ServiceInv, Stopped
    <3> QED BY <2>1, <3>1 DEF UndoStart, UndoStartFails, Restart
  <2>4. Launched \in {active.version, None}
    BY DEF Launched
  <2> QED BY <2>1, <2>2, <2>3, <2>4 DEF UndoStart, UndoStartFails, Stage
<1>2. IInv /\ [TlsNext]_allVars => [Restored]_vars
  BY <1>1
<1> HIDE DEF Restored
<1>3. TlsSpec => [][Restored]_vars
  BY <1>2, TlsInvariant, PTL DEF TlsSpec
<1> QED BY <1>3 DEF RollbackRestores, Restored

-------------------------------------------------------------------------------
(* Update requests and checks (UpdateRequests).  The inductive invariant:  *)
(* SuccessIsCurrent is about a step, so what the check announced has to be *)
(* carried from its comparison to the installation.                        *)

(* A status file is open only while its run prints and moves it.           *)
OpenInv == \A r \in Runs : fd[r] # NoFile => check[r] \in {"print", "move"}

(* Releases are merged before they are installed, and only those there are. *)
ReleaseInv == installed <= checkout /\ checkout <= latest

(* Only web-update.sh's check step runs its check-update.sh.               *)
NestedInv == web # "check" => check["web"] = "inactive"

(* What the check of the run at work has announced is still to come, and   *)
(* from the merge on it is in the checkout.                                *)
Checked == web = "check" /\ check["web"] \in {"open", "print", "move", "inactive"}
AnnouncedInv ==
    /\ web \in {"merge", "install"} => status = "running"
    /\ (Checked \/ web \in {"merge", "install"}) /\ verdict["web"] = "available"
          => current["web"] < latest
    /\ web = "install" /\ verdict["web"] = "available" => current["web"] < checkout

RequestInv == RequestTypeOK /\ OpenInv /\ ReleaseInv /\ NestedInv /\ AnnouncedInv

LEMMA RequestInvInit == RequestInit => RequestInv
BY RequestBoundAssumption, FileAssumption
   DEF RequestInit, RequestInv, RequestTypeOK, OpenInv, ReleaseInv, NestedInv,
       AnnouncedInv, Checked, Runs, Files, Verdicts

(* The handlers of the web service only file requests.                     *)
LEMMA AskStepKeeps ==
    ASSUME RequestInv, NEW t \in Threads, AskStep(t), cut' \subseteq cut
    PROVE  RequestInv'
<1>. USE DEF RequestInv, RequestTypeOK, OpenInv, ReleaseInv, NestedInv, AnnouncedInv,
             Checked, checks, world, api, Runs
<1>1. kind[t] \in Kinds /\ kind[t] \in {"update", "check"}
  BY KindAssumption
<1>2. ASSUME NEW k \in Kinds, Ask(t, k) PROVE RequestInv'
  BY <1>2, KindAssumption DEF Ask
<1>3. CASE WriteTemporary(t)
  BY <1>1, <1>3 DEF WriteTemporary
<1>4. CASE Publish(t)
  <2>1. RequestTypeOK'
    BY <1>1, <1>4 DEF Publish
  <2>. QED  BY <1>4, <2>1 DEF Publish
<1>5. CASE PublishFails(t)
  BY <1>5 DEF PublishFails
<1>. QED  BY <1>2, <1>3, <1>4, <1>5 DEF AskStep

(* web-update.sh, from its request to its last status.                     *)
LEMMA UpdateStepKeeps ==
    ASSUME RequestInv, UpdateStep, cut' \subseteq cut
    PROVE  RequestInv'
<1>. USE DEF RequestInv, RequestTypeOK, OpenInv, ReleaseInv, NestedInv, AnnouncedInv,
             Checked, checks, world, api, Runs
<1>1. CASE UpdateUnit
  BY <1>1 DEF UpdateUnit
<1>2. CASE RemoveRequest
  BY <1>2 DEF RemoveRequest
<1>3. CASE NoSource
  BY <1>3 DEF NoSource, Report
<1>4. CASE BeginCheck
  BY <1>4 DEF BeginCheck
<1>5. CASE NothingToDo
  BY <1>5 DEF NothingToDo, Report
<1>6. CASE Proceed
  BY <1>6 DEF Proceed
<1>7. CASE Merge
  BY <1>7 DEF Merge
<1>8. CASE UpdateInstalled
  BY <1>8 DEF UpdateInstalled, Report
<1>9. CASE UpdateNotInstalled
  BY <1>9 DEF UpdateNotInstalled, LeftInstalled, Report
<1>. QED BY <1>1, <1>2, <1>3, <1>4, <1>5, <1>6, <1>7, <1>8, <1>9 DEF UpdateStep
(* check-update.sh, whoever runs it: a free file is left for its status.   *)
LEMMA CheckStepKeeps ==
    ASSUME RequestInv, NEW r \in Runs, CheckStep(r), cut' \subseteq cut
    PROVE  RequestInv'
<1>. USE DEF RequestInv, RequestTypeOK, OpenInv, ReleaseInv, NestedInv, AnnouncedInv,
             Checked, world, api, Runs
<1>1. CASE StartCheck(r)
  BY <1>1 DEF StartCheck
<1>2. CASE Compare(r)
  <2>1. PICK v \in Verdicts : /\ verdict' = [verdict EXCEPT ![r] = v]
                              /\ v = "available" => current[r] < latest
    BY <1>2 DEF Compare, Verdicts
  <2>. QED  BY <1>2, <2>1 DEF Compare
<1>3. CASE OpenStatus(r)
  <2>1. fd[r] = NoFile
    BY <1>3 DEF OpenStatus
  <2>2. \E f \in Files : f \notin {checkFile, fd["unit"], fd["web"]}
    BY <2>1, FileAssumption DEF Files
  <2>3. checkTmp' \in Files
    BY <1>3, <2>2 DEF OpenStatus
  <2>4. /\ content' = [content EXCEPT ![checkTmp'] = "empty"]
        /\ fd' = [fd EXCEPT ![r] = checkTmp']
        /\ check[r] = "open" /\ check' = [check EXCEPT ![r] = "print"]
        /\ UNCHANGED <<api, request, owed, world, web, status, current, verdict,
                       checkFile>>
    BY <1>3 DEF OpenStatus
  <2>5. /\ content' \in [Files -> Verdicts \cup {"empty", "garbled"}]
        /\ fd' \in [Runs -> Files \cup {NoFile}]
    BY <2>3, <2>4
  <2>. QED  BY <2>3, <2>4, <2>5
<1>4. CASE PrintStatus(r)
  <2>1. content' \in [Files -> Verdicts \cup {"empty", "garbled"}]
    BY <1>4 DEF PrintStatus
  <2>. QED  BY <1>4, <2>1 DEF PrintStatus
<1>5. CASE MoveStatus(r)
  BY <1>5 DEF MoveStatus, Moved, Verdicts
<1>. QED  BY <1>1, <1>2, <1>3, <1>4, <1>5 DEF CheckStep

(* A kill, a release and the timer. *)
LEMMA OutsideStepKeeps ==
    ASSUME RequestInv,
           \/ (CheckUnit \/ Release) /\ cut' \subseteq cut
           \/ KillCheck \/ KillUpdate
    PROVE  RequestInv'
<1>. USE DEF RequestInv, RequestTypeOK, OpenInv, ReleaseInv, NestedInv, AnnouncedInv,
             Checked, world, api, Runs, checks
<1>1. ASSUME CheckUnit, cut' \subseteq cut PROVE RequestInv'
  BY <1>1 DEF CheckUnit
<1>2. ASSUME Release, cut' \subseteq cut PROVE RequestInv'
  BY <1>2, RequestBoundAssumption DEF Release
<1>3. CASE KillCheck
  BY <1>3 DEF KillCheck
<1>4. CASE KillUpdate
  BY <1>4 DEF KillUpdate, LeftInstalled
<1>. QED  BY <1>1, <1>2, <1>3, <1>4

(* The inductive step. *)
LEMMA RequestInvStep == RequestInv /\ [RequestNext]_requestVars => RequestInv'
<1>. SUFFICES ASSUME RequestInv, [RequestNext]_requestVars PROVE RequestInv'
  OBVIOUS
<1>1. CASE Work
  <2>1. cut' \subseteq cut
    BY <1>1 DEF Work
  <2>. QED  BY <1>1, <2>1, AskStepKeeps, CheckStepKeeps, UpdateStepKeeps,
               OutsideStepKeeps DEF Work
<1>2. CASE KillCheck \/ KillUpdate
  BY <1>2, OutsideStepKeeps
<1>3. CASE UNCHANGED requestVars
  BY <1>3 DEF requestVars, system, api, world, checks, RequestInv, RequestTypeOK, OpenInv,
              ReleaseInv, NestedInv, AnnouncedInv, Checked
<1>. QED  BY <1>1, <1>2, <1>3 DEF RequestNext

LEMMA RequestInvInvariant == RequestSpec => []RequestInv
BY RequestInvInit, RequestInvStep, PTL DEF RequestSpec

(* Every variable of the requests, the scripts and their status files      *)
(* keeps its type; a status file always finds a file to be written to.     *)
THEOREM RequestTypeCorrect == RequestSpec => []RequestTypeOK
BY RequestInvInvariant, PTL DEF RequestInv

(* A success brought what the check before it announced, for any number of *)
(* releases, requests and kills in between.                                *)
THEOREM RequestSuccessCorrect == RequestSpec => SuccessIsCurrent
<1>. DEFINE Announced ==
        status' = "success" /\ web = "install" =>
          /\ installed' >= installed
          /\ verdict["web"] = "available" => installed' > current["web"]
<1>1. RequestInv /\ [RequestNext]_requestVars => [Announced]_requestVars
  <2>. SUFFICES ASSUME RequestInv, RequestNext, status' = "success", web = "install"
                PROVE  /\ installed' >= installed
                       /\ verdict["web"] = "available" => installed' > current["web"]
    OBVIOUS
  <2>1. status = "running"
    BY DEF RequestInv, AnnouncedInv
  <2>2. UpdateInstalled
    <3>1. CASE KillCheck \/ KillUpdate
      BY <2>1, <3>1 DEF KillCheck, KillUpdate
    <3>2. ASSUME NEW t \in Threads, AskStep(t) PROVE FALSE
      BY <2>1, <3>2 DEF AskStep, Ask, WriteTemporary, Publish, PublishFails
    <3>3. ASSUME NEW r \in Runs, CheckStep(r) PROVE FALSE
      BY <2>1, <3>3 DEF CheckStep, StartCheck, Compare, OpenStatus, PrintStatus,
                        MoveStatus
    <3>4. CASE CheckUnit \/ Release
      BY <2>1, <3>4 DEF CheckUnit, Release
    <3>5. CASE UpdateStep
      BY <2>1, <3>5 DEF UpdateStep, UpdateUnit, RemoveRequest, NoSource, BeginCheck,
                        NothingToDo, Proceed, Merge, UpdateNotInstalled, Report
    <3>. QED  BY <3>1, <3>2, <3>3, <3>4, <3>5 DEF RequestNext, Work
  <2>3. /\ {installed, checkout, current["web"]} \subseteq Nat
        /\ installed <= checkout
        /\ verdict["web"] = "available" => current["web"] < checkout
    BY RequestBoundAssumption
       DEF RequestInv, RequestTypeOK, ReleaseInv, AnnouncedInv, Runs
  <2>. QED  BY <2>2, <2>3 DEF UpdateInstalled
<1>. QED  BY <1>1, RequestInvInvariant, PTL DEF RequestSpec, SuccessIsCurrent
===============================================================================
