---------------------------- MODULE MCMiniDrivers ----------------------------
(* Model checking of MiniDrivers: the symmetry of the devices, and of the  *)
(* mini-drivers of one kind.                                               *)
EXTENDS MiniDrivers, TLC

Symmetry ==
  Permutations(Internal) \cup Permutations(External) \cup Permutations(Dev)
=============================================================================
