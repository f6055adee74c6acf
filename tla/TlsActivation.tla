---------------------------- MODULE TlsActivation ----------------------------
(***************************************************************************)
(* packaging/configure-tls.sh beside the updaters of ServiceUpdate: it     *)
(* renames a new certificate and its key into place, one after the other,  *)
(* and restarts the service if it is active, without taking update.lock.   *)
(* The service reads both files when it starts and ends if they do not     *)
(* belong together; systemd then starts it again (Restart=on-failure).     *)
(***************************************************************************)
EXTENDS ServiceUpdate

CONSTANT Activations    \* runs of configure-tls.sh, each with a pair of its own

ASSUME ActivationAssumption == None \notin Activations /\ "tls" \in Faults

VARIABLES
    cert, key,          \* whose fullchain.pem and privkey.pem are in place
    used,               \* whose pair the running process has read
    tls,                \* where each activation is
    wanted,             \* systemd is to keep the service running
    spoiled             \* ghost: the last activation was cut or overlapped

tlsVars == <<cert, key, used, tls, wanted, spoiled>>
allVars == <<vars, tlsVars>>

(* The installer has put a first pair in place. *)
TlsInit ==
    /\ Init
    /\ cert = None /\ key = None /\ used = None
    /\ tls = [a \in Activations |-> "new"]
    /\ wanted = TRUE
    /\ spoiled = FALSE

Fits == cert = key
AtWork(a) == tls[a] \in {"key", "check", "restart"}
Exchanging == \E u \in Updaters : pc[u] \in Holding \ {"prepare", "files", "stop"}

(* What a start by systemd brings up, and the pair it has read. *)
Comes == IF Fits THEN Launched ELSE None

(* A validated and staged pair: its certificate is renamed into place, ... *)
MoveCert(a) ==
    /\ tls[a] = "new"
    /\ cert' = a
    /\ tls' = [tls EXCEPT ![a] = "key"]
    /\ spoiled' = \E b \in Activations : AtWork(b)
    /\ UNCHANGED <<vars, key, used, wanted>>

(* ... then its key. *)
MoveKey(a) ==
    /\ tls[a] = "key"
    /\ key' = a
    /\ tls' = [tls EXCEPT ![a] = "check"]
    /\ UNCHANGED <<vars, cert, used, wanted, spoiled>>

(* Mutant: a running service is left alone. *)
CheckNothing(a) ==
    /\ tls[a] = "check"
    /\ tls' = [tls EXCEPT ![a] = "done"]
    /\ UNCHANGED <<vars, cert, key, used, wanted, spoiled>>

(* reload_if_running: systemctl is-active ... *)
CheckActive(a) ==
    /\ tls[a] = "check"
    /\ tls' = [tls EXCEPT ![a] = IF service = None THEN "done" ELSE "restart"]
    /\ UNCHANGED <<vars, cert, key, used, wanted, spoiled>>

(* ... and systemctl restart, whatever has happened in between, also in    *)
(* the middle of an update.                                                *)
RestartActive(a) ==
    /\ tls[a] = "restart"
    /\ service' = Comes /\ used' = cert
    /\ wanted' = TRUE
    /\ disturbed' = Exchanging
    /\ tls' = [tls EXCEPT ![a] = "done"]
    /\ UNCHANGED <<dirs, units, control, pc, result, cert, key, spoiled>>

(* The activation is killed, or one of its commands fails under set -e. *)
Cut(a) ==
    /\ AtWork(a)
    /\ tls' = [tls EXCEPT ![a] = "done"]
    /\ spoiled' = TRUE
    /\ UNCHANGED <<vars, cert, key, used, wanted>>

(* Restart=on-failure, five seconds later. *)
AutoRestart ==
    /\ wanted /\ service = None /\ Comes # None
    /\ service' = Comes /\ used' = cert
    /\ UNCHANGED <<dirs, units, disturbed, control, pc, result,
                   cert, key, tls, wanted, spoiled>>

(* Mutant: the updaters kill the process instead of stopping the service.  *)
UpdateByKill(u) ==
    /\ \/ Starts(u) /\ service' = Comes /\ used' = cert /\ wanted' = TRUE
       \/ Stops(u) /\ used' = None /\ UNCHANGED wanted
       \/ Works(u) /\ UNCHANGED <<used, wanted>>
    /\ UNCHANGED <<cert, key, tls, spoiled>>

(* The updaters, whose starts depend on the pair and whose stops make      *)
(* systemd leave the service alone.                                        *)
Update(u) ==
    /\ \/ Starts(u) /\ service' = Comes /\ used' = cert /\ wanted' = TRUE
       \/ Stops(u) /\ used' = None /\ wanted' = FALSE
       \/ Works(u) /\ UNCHANGED <<used, wanted>>
    /\ UNCHANGED <<cert, key, tls, spoiled>>

TlsNext ==
    \/ \E u \in Updaters : Update(u)
    \/ \E a \in Activations :
          MoveCert(a) \/ MoveKey(a) \/ CheckActive(a) \/ RestartActive(a) \/ Cut(a)
    \/ AutoRestart

TlsSpec == TlsInit /\ [][TlsNext]_allVars

-------------------------------------------------------------------------------
TlsTypeOK ==
    /\ TypeOK
    /\ {cert, key, used} \subseteq Activations \cup {None}
    /\ tls \in [Activations -> {"new", "key", "check", "restart", "done"}]
    /\ {wanted, spoiled} \subseteq BOOLEAN

(* What runs is what is installed, also after automatic restarts.  Only a  *)
(* stop that fails and is ignored, or an activation that restarts the      *)
(* service while an update exchanges the environments, breaks this, until  *)
(* the next stop or start.                                                 *)
RunsActive == disturbed \/ ServiceRunsActive

(* When no activation is at work, and the last one was neither cut nor     *)
(* overlapped by another, certificate and key belong together and the      *)
(* running service has read them, whatever updates stop and start          *)
(* meanwhile.  A cut activation is repaired by the next one.               *)
PairIsServed ==
    (\A a \in Activations : ~AtWork(a)) /\ ~spoiled =>
        Fits /\ (service # None => used = cert)
===============================================================================
