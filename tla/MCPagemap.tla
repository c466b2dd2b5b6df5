----------------------------- MODULE MCPagemap -----------------------------
(***************************************************************************)
(* Two pages, two frames, two offsets; three descriptors, and one failure  *)
(* more than there are descriptors.                                        *)
(***************************************************************************)
EXTENDS Pagemap

MCPages == {5, 6}
MCFrames == {8, 9}
MCOffsets == {0, 64}
=============================================================================
