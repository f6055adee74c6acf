--------------------------- MODULE MCTlsActivation ---------------------------
(* TlsActivation for TLC: the runs of an updater, and those of             *)
(* configure-tls.sh, differ in nothing but their names.                    *)
EXTENDS TlsActivation, TLC

Symmetry == Permutations(Updaters) \cup Permutations(Activations)
===============================================================================
