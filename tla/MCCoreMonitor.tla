--------------------------- MODULE MCCoreMonitor ---------------------------
(***************************************************************************)
(* Two addresses, on the first and on the last of three C-Boxes, and one   *)
(* array cell more than there are C-Boxes.  Two clflushes, and up to three *)
(* foreign lookups per C-Box: one more than the code subtracts.            *)
(***************************************************************************)
EXTENDS CoreMonitor

CONSTANTS a0, a2

MCAddr == {a0, a2}
MCSliceOf == [a \in MCAddr |-> IF a = a0 THEN 0 ELSE nb_cores - 1]
=============================================================================
