--------------------------- MODULE MCTwoInstances ---------------------------
(***************************************************************************)
(* Two C-Boxes, an address on each, one clflush that counts twice.         *)
(***************************************************************************)
EXTENDS TwoInstances

CONSTANTS a0, a1

MCAddr == {a0, a1}
MCSliceOf == [a \in MCAddr |-> IF a = a0 THEN 0 ELSE 1]
=============================================================================
