------------------------------ MODULE Quicksort ------------------------------
(***************************************************************************)
(* quicksort and partition of util.c (lines 94-128), which the counter     *)
(* measurements use to find the two largest counts.  One step per turn of  *)
(* an inner loop; the recursion is a stack of the ranges still to be       *)
(* sorted.                                                                 *)
(*                                                                         *)
(* The loop that looks for a larger element reads a[i] before it tests     *)
(* i <= r, so it reads a[r + 1]: of the next range, or, when r is the last *)
(* index, a cell that is not part of the array and may hold anything.      *)
(***************************************************************************)
EXTENDS Integers, Sequences, FiniteSets

CONSTANTS
  Length,  \* cells of the array (max_slices)
  Values,  \* what the cells may hold
  Beyond   \* what the cell behind the array may hold

ASSUME SortAssumption ==
  Length \in Nat \ {0} /\ Values \subseteq Int /\ Beyond \subseteq Int /\ Beyond # {}

Cells == 0 .. Length - 1

VARIABLES
  pc,     \* "call", or a place in partition: "up", "down", "test"; "done"
  a,      \* the array
  stack,  \* the ranges <<l, r>> still to be sorted, the next one first
  l, r,   \* the range being partitioned
  i, j,   \* the two indices that approach each other
  pivot,
  \* history
  input   \* the array as it was handed over

range == <<l, r, pivot>>
vars == <<pc, a, stack, range, i, j, input>>

TypeOK ==
  /\ pc \in {"call", "up", "down", "test", "done"}
  /\ a \in [Cells -> Values] /\ input \in [Cells -> Values]
  /\ stack \in Seq((0 .. Length) \X (-1 .. Length - 1))
  /\ l \in Cells /\ r \in Cells
  /\ i \in 0 .. Length /\ j \in 0 .. Length
  /\ pivot \in Values

Init ==
  /\ pc = "call"
  /\ a \in [Cells -> Values]
  /\ input = a
  /\ stack = <<<<0, Length - 1>>>>
  /\ l = 0 /\ r = 0 /\ i = 0 /\ j = 0
  /\ pivot = a[0]

-----------------------------------------------------------------------------
(* quicksort(a, l, r) with something to sort: the head of partition...     *)
CallPartition ==
  /\ pc = "call" /\ stack # <<>>
  /\ Head(stack)[1] < Head(stack)[2]
  /\ l' = Head(stack)[1] /\ r' = Head(stack)[2]
  /\ pivot' = a[l'] /\ i' = l' /\ j' = r' + 1
  /\ stack' = Tail(stack)
  /\ pc' = "up"
  /\ UNCHANGED <<a, input>>

(* ... and with nothing to sort.                                           *)
CallReturns ==
  /\ pc = "call" /\ stack # <<>>
  /\ Head(stack)[1] >= Head(stack)[2]
  /\ stack' = Tail(stack)
  /\ UNCHANGED <<pc, a, range, i, j, input>>

Read(x) == IF x \in Cells THEN {a[x]} ELSE Beyond

(* A faulty variant, for checking the properties: without "&& i <= r".     *)
StaysUpUnbounded(value) == value <= pivot

(* "while (a[i] <= pivot && i <= r)" *)
StaysUp(value) == value <= pivot /\ i' <= r

(* "do ++i" *)
ScanUp ==
  /\ pc = "up"
  /\ i' = i + 1
  /\ \E value \in Read(i') : pc' = IF StaysUp(value) THEN "up" ELSE "down"
  /\ UNCHANGED <<a, stack, range, j, input>>

(* "do --j while (a[j] > pivot)" *)
ScanDown ==
  /\ pc = "down"
  /\ j' = j - 1
  /\ pc' = IF a[j'] > pivot THEN "down" ELSE "test"
  /\ UNCHANGED <<a, stack, range, i, input>>

(* A faulty variant: a cell is copied, not exchanged. *)
ExchangedOneWay(x, y) == [a EXCEPT ![x] = a[y]]

Exchanged(x, y) == [a EXCEPT ![x] = a[y], ![y] = a[x]]

Swap ==
  /\ pc = "test" /\ i < j
  /\ a' = Exchanged(i, j)
  /\ pc' = "up"
  /\ UNCHANGED <<stack, range, i, j, input>>

(* A faulty variant: the pivot's cell belongs to the second half. *)
HalvesWithPivot == <<<<l, j - 1>>, <<j, r>>>>

(* quicksort(a, l, j - 1); quicksort(a, j + 1, r) *)
Halves == <<<<l, j - 1>>, <<j + 1, r>>>>

(* The pivot goes between the halves, which are sorted next. *)
Break ==
  /\ pc = "test" /\ i >= j
  /\ a' = Exchanged(l, j)
  /\ stack' = Halves \o stack
  /\ pc' = "call"
  /\ UNCHANGED <<range, i, j, input>>

Return ==
  /\ pc = "call" /\ stack = <<>>
  /\ pc' = "done"
  /\ UNCHANGED <<a, stack, range, i, j, input>>

Next ==
  \/ CallPartition \/ CallReturns \/ ScanUp \/ ScanDown \/ Swap \/ Break
  \/ Return

Spec == Init /\ [][Next]_vars
FairSpec == Spec /\ WF_vars(Next)

-----------------------------------------------------------------------------
(***************************************************************************)
(* The result is sorted and a permutation of what was handed over,         *)
(* whatever the cell behind the array holds.  So the last two cells are    *)
(* the two largest counts, from which the error is printed.                *)
(***************************************************************************)
Count(f, v) == Cardinality({x \in Cells : f[x] = v})

Sorts ==
  pc = "done" =>
    /\ \A x, y \in Cells : x < y => a[x] <= a[y]
    /\ \A v \in Values : Count(a, v) = Count(input, v)

(***************************************************************************)
(* The only cell outside of the range that partition looks at is the one   *)
(* behind it, and it is never written: neither is any other outside.       *)
(***************************************************************************)
OutsideUntouched ==
  /\ i' \in l .. (r + 1) /\ j' \in l .. (r + 1)
  /\ \A x \in Cells \ (l .. r) : a'[x] = a[x]

Partitioning == pc \in {"up", "down", "test"}
StaysInRange == [][Partitioning => OutsideUntouched]_vars

(***************************************************************************)
(* The sort ends. *)
(***************************************************************************)
Terminates == <>(pc = "done")
=============================================================================
