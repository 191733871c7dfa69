----------------------------- MODULE MCProtocol -----------------------------
(* Two contexts and two addresses; each pool has as many entries as one    *)
(* received packet needs.                                                  *)
EXTENDS Protocol
=============================================================================
