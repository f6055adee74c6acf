------------------------- MODULE MCCertificateOrders -------------------------
(* CertificateOrders for TLC: threads, directories and generated keys are   *)
(* interchangeable.                                                         *)
EXTENDS CertificateOrders, TLC

Symmetry ==
    Permutations(Threads) \cup Permutations(Directories) \cup Permutations(ServerKeys)
===============================================================================
