--------------------------- MODULE MCXeonMonitor ---------------------------
(***************************************************************************)
(* Two addresses, on the first and on the last of two boxes, and one array *)
(* cell more than there are boxes.  Two clflushes, and up to two foreign   *)
(* lookups per box: as many as it takes to hide the clflushes.             *)
(***************************************************************************)
EXTENDS XeonMonitor

CONSTANTS a0, a1

MCAddr == {a0, a1}
MCSliceOf == [a \in MCAddr |-> IF a = a0 THEN 0 ELSE nb_cores - 1]
=============================================================================
