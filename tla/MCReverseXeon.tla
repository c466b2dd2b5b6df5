--------------------------- MODULE MCReverseXeon ---------------------------
(***************************************************************************)
(* The server search on a small machine: two line-offset bits (1 and 2),   *)
(* pages from bit 3 up, of which bits 3 and 4 are searched, three pages,   *)
(* two hash outputs, three samples per bit and a threshold of one.         *)
(***************************************************************************)
EXTENDS ReverseXeon, Sequences

MCMask == [k \in Outputs |-> IF k = 0 THEN {1, 3, 5} ELSE {2, 3, 4}]

Pool(frames) == [p \in Pages |-> frames[p + 1]]

(* A block, with a partner for both bits (and pages at 2^3 and 2^4); only  *)
(* bit 4, between the last two pages; only bit 3, in descending order; no  *)
(* partners; partners that differ in a higher bit, too.                    *)
MCLayouts ==
  {Pool(f) : f \in {
     <<{3}, {4}, {3, 4}>>, <<{6}, {5}, {4, 5}>>, <<{3, 5}, {5}, {6}>>,
     <<{3}, {4}, {5, 6}>>, <<{3, 5}, {6}, {4, 5}>> }}

MCLowFrames == {{4}}
=============================================================================
