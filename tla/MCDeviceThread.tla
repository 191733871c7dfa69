--------------------------- MODULE MCDeviceThread ---------------------------
(* Model checking of DeviceThread: the instances, and the symmetry of      *)
(* requests of one kind.                                                   *)
EXTENDS DeviceThread, TLC

Symmetry ==
  Permutations(Io) \cup Permutations(Pnp) \cup Permutations(Items)
=============================================================================
