----------------------------- MODULE MCHttpDisk -----------------------------
(* One disk, a read, and a request of another kind.                        *)
EXTENDS HttpDisk, TLC

CONSTANTS u, read, other

MCUnitOf == [r \in Irp |-> u]
MCKind   == read :> {"read"} @@ other :> {"write", "scsi", "control"}
=============================================================================
