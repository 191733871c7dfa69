---------------------------- MODULE UnitNumbers ----------------------------
(***************************************************************************)
(* What the list of child nodes of a bus promises (src/winvblock/libbus):  *)
(* a node which joins the bus gets the lowest unit number which no other   *)
(* node of the bus has, and keeps it until it leaves the bus.  The bus     *)
(* promises this to those who take off a node which is on it only.         *)
(***************************************************************************)
EXTENDS Integers

CONSTANT Node   (* the child nodes                                         *)

VARIABLES
  unit,         (* the unit number of each node of the bus                 *)
  misused       (* a node was taken off for two who had found it           *)

Init == unit = [n \in {} |-> 0] /\ misused = FALSE

InUse == {unit[n] : n \in DOMAIN unit}

Join(n) ==
  /\ n \notin DOMAIN unit
  /\ \E u \in {0} \cup {v + 1 : v \in InUse} :
       /\ u \notin InUse
       /\ \A v \in 0 .. u - 1 : v \in InUse
       /\ unit' = [m \in DOMAIN unit \cup {n} |-> IF m = n THEN u ELSE unit[m]]

Leave(n) ==
  /\ n \in DOMAIN unit
  /\ unit' = [m \in DOMAIN unit \ {n} |-> unit[m]]

Use    == unit' # unit /\ ~misused /\ ~misused' /\ \E n \in Node : Join(n) \/ Leave(n)
Misuse == misused'

Next == Use \/ Misuse

Spec == Init /\ [][Next]_<<unit, misused>>

(* What the users of a bus rely on, when they name a node by its number    *)
(* only (HttpdiskBusRemove_, AoeBusDevCtlDetach_): no two nodes of a bus   *)
(* have the same unit number.                                              *)
Distinct == misused \/ \A m, n \in DOMAIN unit : unit[m] = unit[n] => m = n

=============================================================================
