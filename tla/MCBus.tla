-------------------------------- MODULE MCBus --------------------------------
(* Model checking of Bus: the symmetry of the nodes, and of the detachers. *)
EXTENDS Bus, TLC

Symmetry == Permutations(Node) \cup Permutations(Detacher)
=============================================================================
