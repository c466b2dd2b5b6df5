---------------------------- MODULE MCQuicksort ----------------------------
(***************************************************************************)
(* All arrays of six cells with three values, equal ones included, and a  *)
(* cell behind the array that is smaller, equal, or larger.                *)
(***************************************************************************)
EXTENDS Quicksort

MCValues == 0 .. 2
MCBeyond == {-1, 1, 3}
=============================================================================
