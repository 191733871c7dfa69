-------------------------------- MODULE Irps --------------------------------
(***************************************************************************)
(* What every driver here promises about the requests it is handed: each   *)
(* is accepted at most once and completed at most once, and nothing is     *)
(* accepted after it was completed.  The drivers which answer a request    *)
(* later, from another thread, are shown to implement this.                *)
(***************************************************************************)
EXTENDS Naturals

CONSTANT Irp           (* the requests                                     *)

VARIABLES
  accepted,            (* those which were marked pending                  *)
  completions          (* how often each was completed                     *)

vars == <<accepted, completions>>

Init == accepted = {} /\ completions = [r \in Irp |-> 0]

Accept(r) ==
  /\ r \notin accepted /\ completions[r] = 0
  /\ accepted' = accepted \cup {r}
  /\ UNCHANGED completions

(* Those which were accepted before, or one which is refused at once.  A   *)
(* driver which stops completes several.                                   *)
Complete(R) ==
  /\ \A r \in R : completions[r] = 0
  /\ completions' = [r \in Irp |-> IF r \in R THEN 1 ELSE completions[r]]
  /\ UNCHANGED accepted

Next == (\E r \in Irp : Accept(r)) \/ (\E R \in SUBSET Irp : Complete(R))

Spec == Init /\ [][Next]_vars

Once == \A r \in Irp : completions[r] <= 1
=============================================================================
