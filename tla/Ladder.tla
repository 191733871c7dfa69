------------------------------- MODULE Ladder -------------------------------
(***************************************************************************)
(* Calls which are made one after another, each when the last one has      *)
(* succeeded, and what is held when they end: the ladders of error labels  *)
(* of the drivers.  A call maps what is held to its possible outcomes.     *)
(***************************************************************************)

Done(h) == [ok |-> TRUE, held |-> h]
Fails(h) == [ok |-> FALSE, held |-> h]

(* A call which either succeeds, and leaves something behind, or fails.    *)
Tries(h, more) == {Fails(h), Done(h \cup more)}

Then(outcomes, Call(_)) ==
  UNION {IF o.ok THEN Call(o.held) ELSE {o} : o \in outcomes}
=============================================================================
