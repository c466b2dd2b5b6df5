--------------------------- MODULE CounterReading ---------------------------
(***************************************************************************)
(* How monitoring.c turns the raw C-Box counters of one measurement into a *)
(* slice number.  The same few lines close monitor_single_address_core,    *)
(* _fast, _print and monitor_single_address, so both machine models share  *)
(* this module.                                                            *)
(***************************************************************************)
EXTENDS Integers

(***************************************************************************)
(* cboxes[i] = ((res_temp - nb_pokes) < 0) ? 0 : res_temp - nb_pokes       *)
(***************************************************************************)
Corrected(count, flushes) ==
  IF count - flushes < 0 THEN 0 ELSE count - flushes

(* A faulty variant, for checking the properties: the comparison is ">=".  *)
IsLastMax(counts, length, s) ==
  /\ \A c \in 0 .. length - 1 : counts[c] <= counts[s]
  /\ \A c \in s + 1 .. length - 1 : counts[c] < counts[s]

(***************************************************************************)
(* The scan "if (cboxes[i] > cboxes[slice]) slice = i" over                *)
(* i = 0 .. max_slices - 1, started from slice = 0: the first index that   *)
(* holds the maximum.  The comparison is strict, so ties go to the lowest  *)
(* index and an all-zero array yields slice 0.                             *)
(***************************************************************************)
IsFirstMax(counts, length, s) ==
  /\ \A c \in 0 .. length - 1 : counts[c] <= counts[s]
  /\ \A c \in 0 .. s - 1 : counts[c] < counts[s]

FirstMax(counts, length) ==
  CHOOSE s \in 0 .. length - 1 : IsFirstMax(counts, length, s)
=============================================================================
