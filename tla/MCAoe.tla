-------------------------------- MODULE MCAoe --------------------------------
(* Model checking of Aoe: one disk and a request of two sectors, which is  *)
(* one packet or, when the search settles for one sector, two.             *)
EXTENDS Aoe

MCDiskOf  == [r \in Irp |-> CHOOSE d \in Disk : TRUE]
MCSectors == [r \in Irp |-> 2]
=============================================================================
