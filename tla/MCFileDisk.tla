----------------------------- MODULE MCFileDisk -----------------------------
(* A disk of four sectors of two bytes, words of eight values: a request   *)
(* within the disk, one over its end, one with a short buffer, and one     *)
(* whose length in bytes wraps around.                                     *)
EXTENDS FileDisk

MCExtent == {[start |-> 1, count |-> 2, length |-> 4],
             [start |-> 2, count |-> 3, length |-> 6],
             [start |-> 0, count |-> 3, length |-> 2],
             [start |-> 0, count |-> 4, length |-> 3],
             [start |-> 4, count |-> 1, length |-> 2]}
=============================================================================
