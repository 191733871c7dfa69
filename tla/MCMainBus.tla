----------------------------- MODULE MCMainBus -----------------------------
(* Model checking of MainBus.                                              *)
EXTENDS MainBus
=============================================================================
