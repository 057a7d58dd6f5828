------------------------------ MODULE MCTopom ------------------------------
(* Topom on small instances.                                               *)
EXTENDS Topom

Symmetry ==
  Permutations(Groups) \cup Permutations(Addrs) \cup
  Permutations(Sentinels) \cup Permutations(Ports)
=============================================================================
