--------------------------- MODULE MCBackupRestore ---------------------------
(* BackupRestore for TLC: writers, changes and restorers are interchangeable. *)
EXTENDS BackupRestore, TLC

Symmetry ==
    Permutations(Writers) \cup Permutations(Changes) \cup Permutations(Restorers)
==============================================================================
