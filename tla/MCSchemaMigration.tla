-------------------------- MODULE MCSchemaMigration --------------------------
(* SchemaMigration for TLC: nothing tells two passwords, two requests or   *)
(* two migrators apart.                                                    *)
EXTENDS SchemaMigration

Symmetry ==
    Permutations(Passwords) \cup Permutations(Requests) \cup Permutations(Migrators)
===============================================================================
