------------------------- MODULE MCReverseGeneric -------------------------
(***************************************************************************)
(* The search on a small machine: two line-offset bits (1 and 2), huge     *)
(* pages from bit 3 up, an int that overflows with the third masked bit,   *)
(* two hash outputs, three samples per bit and a threshold of one.         *)
(***************************************************************************)
EXTENDS ReverseGeneric, Sequences

MCMask == [k \in Outputs |-> IF k = 0 THEN {1, 3, 5} ELSE {2, 3, 4}]

Pool(frames) == [p \in 0 .. Len(frames) - 1 |-> frames[p + 1]]

(* Two pages (the mask keeps bits 3 and 4): neighbours that differ in bit  *)
(* 3 or in bit 4, low or high in memory; no neighbours; neighbours only to *)
(* the mask; one frame to the mask.  Three and four pages (the mask keeps  *)
(* everything, rev_map has room for bits 3 to 6): a block, a scattered     *)
(* pool, a pool that reaches beyond rev_map.                               *)
MCLayouts ==
  {Pool(f) : f \in {
     <<{4}, {3, 4}>>, <<{5, 6}, {4, 5, 6}>>, <<{3}, {4}>>,
     <<{5}, {3, 6}>>, <<{5}, {6}>>,
     <<{3}, {4}, {3, 4}>>, <<{6}, {3, 6}, {4, 6}, {5, 6}>>,
     <<{3}, {4}, {7}, {3, 7}>> }}

MCFreePages == {0, 2, 3, 4}
MCLowFrames == {{4}}
=============================================================================
