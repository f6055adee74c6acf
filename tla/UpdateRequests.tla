---------------------------- MODULE UpdateRequests ----------------------------
(***************************************************************************)
(* Updates and update checks asked for in the web interface: request_update *)
(* and request_update_check (src/certify/api.py) leave a file, a systemd   *)
(* path unit starts packaging/web-update.sh or packaging/check-update.sh,  *)
(* which remove the file first, and the outcome comes back in status       *)
(* files.  web-update.sh runs check-update.sh itself, so that script may   *)
(* run twice at a time, for its own unit (a request or the daily timer)    *)
(* and for the update.  What update-online.sh installs is ServiceUpdate's  *)
(* subject; here it ends well or badly.                                    *)
(***************************************************************************)
EXTENDS Naturals, FiniteSets

CONSTANTS
    Threads,            \* threads of the web service
    Kinds,              \* requests made: subset of {"update", "check"}
    MaxRequests,        \* bound on the requests
    MaxTimers,          \* bound on the firings of the daily timer
    MaxKills,           \* bound on the scripts killed
    MaxVersion,         \* the releases are 1..MaxVersion
    NoFile              \* no file

ASSUME KindAssumption == Kinds \subseteq {"update", "check"}
ASSUME RequestBoundAssumption ==
    {MaxRequests, MaxTimers, MaxKills} \subseteq Nat /\ MaxVersion \in Nat \ {0}

VARIABLES
    asking, kind,       \* where a thread is, and in which of the two handlers
    request, tmp,       \* whether <kind>.request and its .tmp exist
    owed,               \* ghost: kinds answered 202 and not yet taken up
    cut,                \* ghost: kinds whose run was killed, not asked for since
    budget,             \* requests, timer firings and kills left
    latest, checkout,   \* release upstream, and in the update source
    installed,          \* release in /opt/certify/venv
    web,                \* where certify-update.service is
    status,             \* update_status in update-status.json
    check,              \* where each check-update.sh is
    current, verdict,   \* the release it compares with, and what it found
    checkTmp, checkFile,\* update-check-status.json.tmp and the file itself ...
    content, fd         \* ... their content, and who has which file open

api == <<asking, kind, tmp>>
world == <<latest, checkout, installed, budget>>
checks == <<check, current, verdict, checkTmp, checkFile, content, fd>>
system == <<api, request, owed, world, web, status, checks>>
requestVars == <<system, cut>>

Runs == {"unit", "web"}             \* who runs check-update.sh
Files == {1, 2, 3}                  \* enough: one per run and the one in place
Verdicts == {"available", "current", "failed"}

ASSUME FileAssumption == NoFile \notin Files

RequestInit ==
    /\ asking = [t \in Threads |-> "idle"]
    /\ kind \in [Threads -> Kinds]
    /\ request = [k \in {"update", "check"} |-> FALSE]
    /\ tmp = request
    /\ owed = {} /\ cut = {}
    /\ budget = [requests |-> MaxRequests, timers |-> MaxTimers, kills |-> MaxKills]
    /\ installed = 1 /\ checkout = 1
    /\ latest \in 1..MaxVersion
    /\ web = "inactive"
    /\ status = "idle"
    /\ check = [r \in Runs |-> "inactive"]
    /\ current = [r \in Runs |-> 1]
    /\ verdict = [r \in Runs |-> "failed"]
    /\ checkTmp = NoFile /\ checkFile = NoFile
    /\ content = [f \in Files |-> "empty"]
    /\ fd = [r \in Runs |-> NoFile]

-------------------------------------------------------------------------------
(* request_file.exists() was false (else 409); the audit entry is written. *)
Ask(t, k) ==
    /\ asking[t] = "idle"
    /\ budget.requests > 0
    /\ ~request[k]
    /\ budget' = [budget EXCEPT !.requests = @ - 1]
    /\ kind' = [kind EXCEPT ![t] = k]
    /\ asking' = [asking EXCEPT ![t] = "write"]
    /\ UNCHANGED <<tmp, request, owed, latest, checkout, installed, web, status, checks>>

(* temporary.write_text: all threads share one name. *)
WriteTemporary(t) ==
    /\ asking[t] = "write"
    /\ tmp' = [tmp EXCEPT ![kind[t]] = TRUE]
    /\ asking' = [asking EXCEPT ![t] = "replace"]
    /\ UNCHANGED <<kind, request, owed, world, web, status, checks>>

(* temporary.replace(request_file) and 202. *)
Publish(t) ==
    /\ asking[t] = "replace"
    /\ tmp[kind[t]]
    /\ tmp' = [tmp EXCEPT ![kind[t]] = FALSE]
    /\ request' = [request EXCEPT ![kind[t]] = TRUE]
    /\ owed' = owed \cup {kind[t]}
    /\ asking' = [asking EXCEPT ![t] = "idle"]
    /\ UNCHANGED <<kind, world, web, status, checks>>

(* Another thread has moved the file away: chmod or replace fails (500). *)
PublishFails(t) ==
    /\ asking[t] = "replace"
    /\ ~tmp[kind[t]]
    /\ asking' = [asking EXCEPT ![t] = "idle"]
    /\ UNCHANGED <<kind, tmp, request, owed, world, web, status, checks>>

(* A release is published upstream. *)
Release ==
    /\ latest < MaxVersion
    /\ latest' = latest + 1
    /\ UNCHANGED <<api, request, owed, checkout, installed, budget, web, status, checks>>

-------------------------------------------------------------------------------
(* check-update.sh removes the request, then asks which release runs here. *)
StartCheck(r) ==
    /\ check[r] = "start"
    /\ request' = [request EXCEPT !["check"] = FALSE]
    /\ current' = [current EXCEPT ![r] = installed]
    /\ check' = [check EXCEPT ![r] = "fetch"]
    /\ UNCHANGED <<api, owed, world, web, status, verdict, checkTmp, checkFile, content, fd>>

(* git fetch and the comparison; a source that is missing, cannot be       *)
(* reached or makes no sense is a failed check.                            *)
Compare(r) ==
    /\ check[r] = "fetch"
    /\ \E v \in {"failed", IF current[r] < latest THEN "available" ELSE "current"} :
          verdict' = [verdict EXCEPT ![r] = v]
    /\ owed' = owed \ {"check"}
    /\ check' = [check EXCEPT ![r] = "open"]
    /\ UNCHANGED <<api, request, world, web, status, current, checkTmp, checkFile, content, fd>>

(* write_status: `python3 ... >"$temporary"` creates the file or empties   *)
(* the one that is there, ...                                              *)
OpenStatus(r) ==
    /\ check[r] = "open"
    /\ checkTmp' = IF checkTmp # NoFile THEN checkTmp
                   ELSE CHOOSE f \in Files : f \notin {checkFile, fd["unit"], fd["web"]}
    /\ content' = [content EXCEPT ![checkTmp'] = "empty"]
    /\ fd' = [fd EXCEPT ![r] = checkTmp']
    /\ check' = [check EXCEPT ![r] = "print"]
    /\ UNCHANGED <<api, request, owed, world, web, status, current, verdict, checkFile>>

(* ... writes into the file it has open (over what another run may have    *)
(* written meanwhile, of which a tail can remain) ...                      *)
PrintStatus(r) ==
    /\ check[r] = "print"
    /\ \/ content' = [content EXCEPT ![fd[r]] = verdict[r]]
       \/ content[fd[r]] # "empty" /\ content' = [content EXCEPT ![fd[r]] = "garbled"]
    /\ check' = [check EXCEPT ![r] = "move"]
    /\ UNCHANGED <<api, request, owed, world, web, status, current, verdict, checkTmp, checkFile, fd>>

(* ... and mv puts into place whatever has the temporary name by then.     *)
Moved == IF checkTmp = NoFile THEN checkFile ELSE checkTmp

MoveStatus(r) ==
    /\ check[r] = "move"
    /\ checkFile' = Moved
    /\ checkTmp' = NoFile
    /\ fd' = [fd EXCEPT ![r] = NoFile]
    /\ check' = [check EXCEPT ![r] = "inactive"]
    /\ verdict' = [verdict EXCEPT ![r] = IF checkTmp = NoFile THEN "failed" ELSE @]
    /\ UNCHANGED <<api, request, owed, world, web, status, current, content>>

(* The path unit, or the timer, starts the unit of check-update.sh. *)
CheckUnit ==
    /\ check["unit"] = "inactive"
    /\ \/ request["check"] /\ UNCHANGED budget
       \/ budget.timers > 0 /\ budget' = [budget EXCEPT !.timers = @ - 1]
    /\ check' = [check EXCEPT !["unit"] = "start"]
    /\ UNCHANGED <<api, request, owed, latest, checkout, installed, web, status,
                   current, verdict, checkTmp, checkFile, content, fd>>

-------------------------------------------------------------------------------
(* certify-update.path: PathExists=.../update.request *)
UpdateUnit ==
    /\ web = "inactive"
    /\ request["update"]
    /\ web' = "start"
    /\ UNCHANGED <<api, request, owed, world, status, checks>>

RemoveRequest ==
    /\ web = "start"
    /\ request' = [request EXCEPT !["update"] = FALSE]
    /\ web' = "source"
    /\ UNCHANGED <<api, owed, world, status, checks>>

(* Mutant: the request file is removed when the run is over. *)
ReportAndRemove(how) ==
    /\ status' = how
    /\ web' = "inactive"
    /\ request' = [request EXCEPT !["update"] = FALSE]

(* The last write_status of a run, and its end. *)
Report(how) ==
    /\ status' = how
    /\ web' = "inactive"
    /\ UNCHANGED request

(* The update source is missing or not executable. *)
NoSource ==
    /\ web = "source"
    /\ owed' = owed \ {"update"}
    /\ Report("failed")
    /\ UNCHANGED <<api, world, checks>>

(* Calls certify-update-check ... *)
BeginCheck ==
    /\ web = "source"
    /\ owed' = owed \ {"update"}
    /\ check' = [check EXCEPT !["web"] = "start"]
    /\ web' = "check"
    /\ UNCHANGED <<api, request, world, status,
                   current, verdict, checkTmp, checkFile, content, fd>>

(* ... and, if it exits with 0, reads the verdict back from the file; a    *)
(* file that is no JSON counts like "no update".                           *)
CheckFailed == verdict["web"] = "failed"
ReadsAvailable == checkFile # NoFile /\ content[checkFile] = "available"

NothingToDo ==
    /\ web = "check" /\ check["web"] = "inactive"
    /\ ~CheckFailed /\ ~ReadsAvailable
    /\ Report("idle")
    /\ UNCHANGED <<api, owed, world, checks>>

(* write_status running: an update is available, or the check failed. *)
Proceed ==
    /\ web = "check" /\ check["web"] = "inactive"
    /\ CheckFailed \/ ReadsAvailable
    /\ status' = "running"
    /\ web' = "merge"
    /\ UNCHANGED <<api, request, owed, world, checks>>

(* Mutant: the update installs the source as it lies there. *)
MergeNothing ==
    /\ web = "merge"
    /\ web' = "install"
    /\ UNCHANGED <<api, request, owed, world, status, checks>>

(* Mutant: the update takes what is not released yet. *)
MergeUnreleased ==
    /\ web = "merge"
    /\ checkout' = latest + 1
    /\ web' = "install"
    /\ UNCHANGED <<api, request, owed, latest, installed, budget, status, checks>>

(* update-online.sh: git fetch and merge --ff-only, then certify_update. *)
Merge ==
    /\ web = "merge"
    /\ checkout' = latest
    /\ web' = "install"
    /\ UNCHANGED <<api, request, owed, latest, installed, budget, status, checks>>

UpdateInstalled ==
    /\ web = "install"
    /\ installed' = checkout
    /\ Report("success")
    /\ UNCHANGED <<api, owed, latest, checkout, budget, checks>>

(* An updater that ends early, on a failing command (set -e) or with its   *)
(* unit, leaves what was installed or, from the renaming on, the candidate.*)
LeftInstalled == IF web = "install" THEN {installed, checkout} ELSE {installed}

UpdateNotInstalled ==
    /\ web \in {"merge", "install"}
    /\ installed' \in LeftInstalled
    /\ Report("failed")
    /\ UNCHANGED <<api, owed, latest, checkout, budget, checks>>

(* The system stops or systemd kills the unit of check-update.sh, ...      *)
KillCheck ==
    /\ check["unit"] # "inactive" /\ budget.kills > 0
    /\ budget' = [budget EXCEPT !.kills = @ - 1]
    /\ check' = [check EXCEPT !["unit"] = "inactive"]
    /\ fd' = [fd EXCEPT !["unit"] = NoFile]
    /\ cut' = cut \cup {k \in {"check"} : ~request[k]}
    /\ UNCHANGED <<api, request, owed, latest, checkout, installed, web, status,
                   current, verdict, checkTmp, checkFile, content>>

(* ... or that of web-update.sh, with the check or the installation it has *)
(* started.                                                                *)
KillUpdate ==
    /\ web # "inactive" /\ budget.kills > 0
    /\ budget' = [budget EXCEPT !.kills = @ - 1]
    /\ web' = "inactive"
    /\ check' = [check EXCEPT !["web"] = "inactive"]
    /\ fd' = [fd EXCEPT !["web"] = NoFile]
    /\ installed' \in LeftInstalled
    /\ cut' = cut \cup {k \in {"check", "update"} : ~request[k]}
    /\ UNCHANGED <<api, request, owed, latest, checkout, status,
                   current, verdict, checkTmp, checkFile, content>>

CheckStep(r) ==
    StartCheck(r) \/ Compare(r) \/ OpenStatus(r) \/ PrintStatus(r) \/ MoveStatus(r)

UpdateStep ==
    \/ UpdateUnit \/ RemoveRequest \/ NoSource \/ BeginCheck
    \/ NothingToDo \/ Proceed \/ Merge \/ UpdateInstalled \/ UpdateNotInstalled

AskStep(t) ==
    \/ \E k \in Kinds : Ask(t, k)
    \/ WriteTemporary(t) \/ Publish(t) \/ PublishFails(t)

Work ==
    /\ \/ \E t \in Threads : AskStep(t)
       \/ \E r \in Runs : CheckStep(r)
       \/ CheckUnit \/ UpdateStep \/ Release
    /\ cut' = {k \in cut : ~request'[k]}

RequestNext == Work \/ KillCheck \/ KillUpdate

RequestSpec == RequestInit /\ [][RequestNext]_requestVars

(* systemd starts a unit whose path exists as soon as it is inactive, and  *)
(* the scripts run on their own.  Nobody has to ask, and no timer to fire. *)
FairRequestSpec ==
    /\ RequestSpec
    /\ WF_system(UpdateStep)
    /\ WF_system(request["check"] /\ CheckUnit)
    /\ \A r \in Runs : WF_system(CheckStep(r))

-------------------------------------------------------------------------------
RequestTypeOK ==
    /\ asking \in [Threads -> {"idle", "write", "replace"}]
    /\ kind \in [Threads -> Kinds]
    /\ {request, tmp} \subseteq [{"update", "check"} -> BOOLEAN]
    /\ owed \subseteq Kinds /\ cut \subseteq {"check", "update"}
    /\ {latest, checkout, installed} \subseteq 1..MaxVersion
    /\ web \in {"inactive", "start", "source", "check", "merge", "install"}
    /\ status \in {"idle", "running", "success", "failed"}
    /\ check \in [Runs -> {"inactive", "start", "fetch", "open", "print", "move"}]
    /\ current \in [Runs -> 1..MaxVersion]
    /\ verdict \in [Runs -> Verdicts]
    /\ {checkTmp, checkFile} \subseteq Files \cup {NoFile}
    /\ content \in [Files -> Verdicts \cup {"empty", "garbled"}]
    /\ fd \in [Runs -> Files \cup {NoFile}]

(* A request answered with 202 is taken up by a run that began after it,   *)
(* also when it is filed while an earlier run is still at work; and a page *)
(* that shows a running update stops doing so.  Only a killed run can lose *)
(* its request and leave "running" behind, and only until the next request *)
(* of the kind is filed.                                                   *)
RequestServed ==
    /\ \A k \in Kinds : k \in owed ~> (k \notin owed \/ k \in cut)
    /\ status = "running" ~> (status # "running" \/ "update" \in cut)

(* An update that was reported successful brought at least the release     *)
(* that the check before it announced.                                     *)
SuccessIsCurrent ==
    [][status' = "success" /\ web = "install" =>
          /\ installed' >= installed
          /\ verdict["web"] = "available" => installed' > current["web"]]_requestVars
===============================================================================
