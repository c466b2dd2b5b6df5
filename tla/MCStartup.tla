----------------------------- MODULE MCStartup -----------------------------
(***************************************************************************)
(* Every CPU model the sources name and one they do not (151, Alder Lake); *)
(* numbers of cores on both sides of every limit.                          *)
(***************************************************************************)
EXTENDS Startup

MCModels == {45, 62, 63, 86, 79, 85, 42, 58, 60, 69, 70, 61, 71, 78, 94, 142, 158, 151}
MCCoreCounts == {1, 2, 4, 5, 7, 8, 9, 15, 16, 18, 19, 24, 25, 64, 65}
=============================================================================
