---------------------------- MODULE SupportProofs ----------------------------
(***************************************************************************)
(* Proofs about the three components around the measurements and the       *)
(* searches: the sort of the counts (Quicksort), the start-up code         *)
(* (Startup) and the translation of addresses (Pagemap).                   *)
(*                                                                         *)
(* They share no state, so one module can extend all three.                *)
(***************************************************************************)
EXTENDS Quicksort, Startup, Pagemap, FiniteSetTheorems, SequenceTheorems, TLAPS

-----------------------------------------------------------------------------
(*****************************************************************************)
(* The sort, for an array of any length with any integers in it and behind   *)
(* it.                                                                       *)
(*****************************************************************************)

(* The ranges still to be sorted come one after the other, the one being   *)
(* partitioned before those on the stack: no two share a cell.             *)
RangesApart ==
  /\ \A m, n \in 1 .. Len(stack) : m < n => stack[m][2] < stack[n][1]
  /\ Partitioning => \A m \in 1 .. Len(stack) : r < stack[m][1]

(* Two cells are in order unless one such range has both.                  *)
SameRange(x, y) ==
  \/ \E m \in 1 .. Len(stack) : stack[m][1] <= x /\ y <= stack[m][2]
  \/ Partitioning /\ l <= x /\ y <= r

OrderedApart ==
  \A x, y \in Cells : x < y => a[x] <= a[y] \/ SameRange(x, y)

(* Cells that index i has passed are at most the pivot, those that j has   *)
(* passed are larger; the pivot waits in the first cell.                   *)
Split ==
  Partitioning =>
    /\ l < r /\ a[l] = pivot
    /\ \A x \in l .. i - 1 : a[x] <= pivot
    /\ \A x \in j + 1 .. r : a[x] > pivot

(* What the indices point at: each is stopped by the other's cells or by   *)
(* an end of the range, so they pass each other by one at most.            *)
Meeting ==
  /\ pc = "up" => /\ l <= i /\ i < j /\ j <= r + 1
                  /\ a[i] <= pivot
                  /\ j <= r => a[j] > pivot
  /\ pc = "down" => /\ l < i /\ i <= j /\ j <= r + 1
                    /\ i <= r => a[i] > pivot
                    /\ j <= r => a[j] > pivot
  /\ pc = "test" => /\ l < i /\ i - 1 <= j /\ j <= r
                    /\ i <= r => a[i] > pivot
                    /\ a[j] <= pivot

Permuted == \A v \in Values : Count(a, v) = Count(input, v)

Emptied == pc = "done" => stack = <<>>

IInv == TypeOK /\ RangesApart /\ OrderedApart /\ Split /\ Meeting /\ Permuted /\ Emptied

-----------------------------------------------------------------------------
(* Exchanging two cells moves the values, and keeps how many of each there *)
(* are.                                                                    *)
LEMMA ExchangedCells ==
  ASSUME a \in [Cells -> Values], NEW x \in Cells, NEW y \in Cells
  PROVE  /\ Exchanged(x, y) \in [Cells -> Values]
         /\ Exchanged(x, y)[x] = a[y] /\ Exchanged(x, y)[y] = a[x]
         /\ \A z \in Cells \ {x, y} : Exchanged(x, y)[z] = a[z]
BY DEF Exchanged

LEMMA CellsFinite == IsFiniteSet(Cells)
<1>1. 0 \in Int /\ Length - 1 \in Int
  BY SortAssumption
<1>. QED
  BY <1>1, FS_Interval DEF Cells

LEMMA ExchangeCounts ==
  ASSUME a \in [Cells -> Values], NEW x \in Cells, NEW y \in Cells, NEW v
  PROVE  Count(Exchanged(x, y), v) = Count(a, v)
<1>. DEFINE before == {z \in Cells : a[z] = v}
            after  == {z \in Cells : Exchanged(x, y)[z] = v}
            other(z) == IF z = x THEN y ELSE IF z = y THEN x ELSE z
            move == [z \in before |-> other(z)]
<1>1. \A z \in Cells : /\ other(z) \in Cells /\ other(other(z)) = z
                       /\ Exchanged(x, y)[other(z)] = a[z]
  BY ExchangedCells
<1>2. move \in [before -> after]
  BY <1>1
<1>3. \A z \in after : other(z) \in before
  BY <1>1
<1>4. move \in Bijection(before, after)
  <2>1. \A z, u \in before : move[z] = move[u] => z = u
    BY <1>1
  <2>2. \A z \in after : \E u \in before : move[u] = z
    BY <1>1, <1>3
  <2>. QED
    BY <1>2, <2>1, <2>2 DEF Bijection, Injection, Surjection, IsInjective
<1>5. IsFiniteSet(before)
  BY CellsFinite, FS_Subset
<1>6. Cardinality(after) = Cardinality(before)
  BY <1>4, <1>5, FS_Bijection DEF ExistsBijection
<1>. QED
  BY <1>6 DEF Count

LEMMA ExchangedPermuted ==
  ASSUME TypeOK, Permuted, NEW x \in Cells, NEW y \in Cells,
         a' = Exchanged(x, y), input' = input
  PROVE  Permuted'
<1>1. \A v \in Values : Count(Exchanged(x, y), v) = Count(input, v)
  BY ExchangeCounts DEF TypeOK, Permuted
<1>2. PICK new : new = Exchanged(x, y)
  OBVIOUS
<1>3. \A v \in Values : Cardinality({z \in Cells : new[z] = v})
                          = Cardinality({z \in Cells : input[z] = v})
  BY <1>1, <1>2 DEF Count
<1>4. a' = new /\ input' = input
  BY <1>2
<1>. QED
  BY <1>3, <1>4 DEF Permuted, Count

LEMMA InitIInv == Init => IInv
<1>. SUFFICES ASSUME Init PROVE IInv
  OBVIOUS
<1>1. Length \in Nat /\ Length > 0 /\ 0 \in Cells
  BY SortAssumption DEF Cells
<1>2. Len(stack) = 1 /\ stack[1] = <<0, Length - 1>> /\ pc = "call"
  BY DEF Init
<1>3. TypeOK
  BY <1>1 DEF Init, TypeOK
<1>4. RangesApart
  BY <1>2 DEF RangesApart, Partitioning
<1>5. OrderedApart
  BY <1>1, <1>2 DEF OrderedApart, SameRange, Partitioning, Cells
<1>. QED
  BY <1>2, <1>3, <1>4, <1>5
  DEF IInv, Split, Meeting, Permuted, Emptied, Partitioning, Init

(* The ends of the ranges on the stack are integers.                       *)
LEMMA RangesTyped ==
  ASSUME TypeOK
  PROVE  /\ Len(stack) \in Nat
         /\ \A m \in 1 .. Len(stack) : stack[m][1] \in Int /\ stack[m][2] \in Int
<1>. DEFINE T == (0 .. Length) \X (-1 .. Length - 1)
<1>1. stack \in Seq(T)
  BY DEF TypeOK
<1>2. \A ends \in T : ends[1] \in Int /\ ends[2] \in Int
  BY SortAssumption
<1>. HIDE DEF T
<1>3. Len(stack) \in Nat /\ \A m \in 1 .. Len(stack) : stack[m] \in T
  BY <1>1
<1>. QED
  BY <1>2, <1>3

(* What is left on the stack when a range is taken from it.                *)
LEMMA TakenFromStack ==
  ASSUME TypeOK, stack # <<>>
  PROVE  /\ Tail(stack) \in Seq((0 .. Length) \X (-1 .. Length - 1))
         /\ Len(stack) \in Nat /\ Len(stack) > 0
         /\ Len(Tail(stack)) = Len(stack) - 1
         /\ \A m \in 1 .. Len(Tail(stack)) : Tail(stack)[m] = stack[m + 1]
         /\ Head(stack) = stack[1]
         /\ stack[1][1] \in 0 .. Length /\ stack[1][2] \in -1 .. Length - 1
<1>. DEFINE T == (0 .. Length) \X (-1 .. Length - 1)
<1>1. stack \in Seq(T)
  BY DEF TypeOK
<1>. HIDE DEF T
<1>2. /\ Tail(stack) \in Seq(T)
      /\ Len(stack) \in Nat /\ Len(stack) > 0
      /\ Len(Tail(stack)) = Len(stack) - 1
      /\ \A m \in 1 .. Len(Tail(stack)) : Tail(stack)[m] = stack[m + 1]
      /\ Head(stack) = stack[1]
      /\ stack[1] \in T
  BY <1>1
<1>. QED
  BY <1>2 DEF T

(* ... are still apart, and behind the one that was taken.                  *)
LEMMA TakenApart ==
  ASSUME TypeOK, RangesApart, stack # <<>>
  PROVE  /\ \A m, n \in 1 .. Len(Tail(stack)) :
              m < n => Tail(stack)[m][2] < Tail(stack)[n][1]
         /\ \A m \in 1 .. Len(Tail(stack)) : stack[1][2] < Tail(stack)[m][1]
<1>. DEFINE rest == Tail(stack)
<1>1. /\ Len(stack) \in Nat /\ Len(rest) = Len(stack) - 1
      /\ \A m \in 1 .. Len(rest) : rest[m] = stack[m + 1]
  BY TakenFromStack
<1>2. \A m, n \in 1 .. Len(stack) : m < n => stack[m][2] < stack[n][1]
  BY DEF RangesApart
<1>. HIDE DEF rest
<1>3. ASSUME NEW m \in 1 .. Len(rest), NEW n \in 1 .. Len(rest), m < n
      PROVE  rest[m][2] < rest[n][1]
  <2>1. m + 1 \in 1 .. Len(stack) /\ n + 1 \in 1 .. Len(stack) /\ m + 1 < n + 1
    BY <1>1, <1>3
  <2>. QED
    BY <1>1, <1>2, <2>1
<1>4. ASSUME NEW m \in 1 .. Len(rest)
      PROVE  stack[1][2] < rest[m][1]
  <2>1. 1 \in 1 .. Len(stack) /\ m + 1 \in 1 .. Len(stack) /\ 1 < m + 1
    BY <1>1
  <2>. QED
    BY <1>1, <1>2, <2>1
<1>. QED
  BY <1>3, <1>4 DEF rest

(* Inside the range partition works on the array holds integers.           *)
LEMMA InsideTyped ==
  ASSUME TypeOK
  PROVE  /\ l \in Int /\ r \in Int /\ i \in Int /\ j \in Int /\ pivot \in Int
         /\ 0 <= l /\ r <= Length - 1 /\ Length \in Int
         /\ \A x \in Cells : x \in Int /\ a[x] \in Int
         /\ \A x \in l .. r : x \in Cells
<1>1. Length \in Nat /\ Values \subseteq Int
  BY SortAssumption
<1>2. l \in 0 .. Length - 1 /\ r \in 0 .. Length - 1
  BY DEF TypeOK, Cells
<1>3. i \in Int /\ j \in Int /\ pivot \in Int
  BY <1>1 DEF TypeOK
<1>4. a \in [Cells -> Values]
  BY DEF TypeOK
<1>5. \A x \in Cells : a[x] \in Int
  BY <1>1, <1>4
<1>. QED
  BY <1>1, <1>2, <1>3, <1>5 DEF Cells

LEMMA CallPartitionIInv == IInv /\ CallPartition => IInv'
<1>. SUFFICES ASSUME IInv, CallPartition PROVE IInv'
  OBVIOUS
<1>. USE SortAssumption
<1>1. /\ TypeOK /\ stack # <<>> /\ pc = "call" /\ pc' = "up"
      /\ stack' = Tail(stack) /\ a' = a /\ input' = input
  BY DEF IInv, CallPartition
<1>2. /\ Len(stack) \in Nat /\ Len(stack) > 0
      /\ Len(stack') = Len(stack) - 1
      /\ \A m \in 1 .. Len(stack') : stack'[m] = stack[m + 1]
      /\ stack' \in Seq((0 .. Length) \X (-1 .. Length - 1))
  BY <1>1, TakenFromStack
<1>3. /\ l' = stack[1][1] /\ r' = stack[1][2]
      /\ l' \in Cells /\ r' \in Cells /\ l' < r'
      /\ i' = l' /\ j' = r' + 1 /\ pivot' = a[l']
  BY <1>1, TakenFromStack DEF CallPartition, Cells
<1>4. a \in [Cells -> Values] /\ input \in [Cells -> Values]
  BY <1>1 DEF TypeOK
<1>5. TypeOK'
  <2>1. i' \in 0 .. Length /\ j' \in 0 .. Length
    BY <1>3 DEF Cells
  <2>2. pivot' \in Values
    BY <1>3, <1>4
  <2>3. pc' \in {"call", "up", "down", "test", "done"}
    BY <1>1
  <2>. QED
    BY <1>1, <1>2, <1>3, <1>4, <2>1, <2>2, <2>3, Zenon DEF TypeOK
<1>6. RangesApart'
  BY <1>1, <1>3, TakenApart DEF IInv, RangesApart
<1>7. OrderedApart'
  <2>. SUFFICES ASSUME NEW x \in Cells, NEW y \in Cells, x < y, ~(a[x] <= a[y])
                PROVE  SameRange(x, y)'
    BY <1>1 DEF OrderedApart
  <2>1. PICK m \in 1 .. Len(stack) : stack[m][1] <= x /\ y <= stack[m][2]
    BY <1>1 DEF IInv, OrderedApart, SameRange, Partitioning
  <2>2. CASE m = 1
    BY <1>1, <1>3, <2>1, <2>2 DEF SameRange, Partitioning
  <2>3. CASE m > 1
    <3>1. /\ m - 1 \in 1 .. Len(stack) - 1 /\ (m - 1) + 1 = m
      BY <1>2, <2>3
    <3>2. m - 1 \in 1 .. Len(stack') /\ stack'[m - 1] = stack[m]
      BY <1>2, <3>1, Zenon
    <3>. QED
      BY <2>1, <3>2 DEF SameRange
  <2>. QED
    BY <2>2, <2>3
<1>8. PICK lo \in Int, hi \in Int, p \in Int :
        /\ pc' = "up" /\ l' = lo /\ r' = hi /\ lo < hi
        /\ i' = lo /\ j' = hi + 1 /\ pivot' = p /\ a'[lo] = p
  <2>1. l' \in Int /\ r' \in Int /\ pivot' \in Int
    BY <1>3, <1>4 DEF Cells
  <2>2. pc' = "up" /\ l' < r' /\ i' = l' /\ j' = r' + 1 /\ a'[l'] = pivot'
    BY <1>1, <1>3
  <2>. QED
    BY <2>1, <2>2, Zenon
<1>9. Split' /\ Meeting'
  <2>1. Split'
    BY <1>8 DEF Split
  <2>. QED
    BY <1>8, <2>1 DEF Meeting
<1>10. Permuted' /\ Emptied'
  BY <1>1 DEF IInv, Permuted, Emptied, Count
<1>. QED
  BY <1>5, <1>6, <1>7, <1>9, <1>10 DEF IInv

LEMMA CallReturnsIInv == IInv /\ CallReturns => IInv'
<1>. SUFFICES ASSUME IInv, CallReturns PROVE IInv'
  OBVIOUS
<1>. USE SortAssumption
<1>1. /\ TypeOK /\ stack # <<>> /\ pc = "call" /\ pc' = "call"
      /\ stack' = Tail(stack) /\ stack[1][1] >= stack[1][2]
      /\ UNCHANGED <<a, input, l, r, i, j, pivot>>
  BY TakenFromStack DEF IInv, CallReturns, range
<1>2. /\ Len(stack) \in Nat /\ Len(stack) > 0
      /\ Len(stack') = Len(stack) - 1
      /\ \A m \in 1 .. Len(stack') : stack'[m] = stack[m + 1]
      /\ stack' \in Seq((0 .. Length) \X (-1 .. Length - 1))
      /\ stack[1][1] \in 0 .. Length /\ stack[1][2] \in -1 .. Length - 1
  BY <1>1, TakenFromStack
<1>3. TypeOK'
  BY <1>1, <1>2 DEF TypeOK
<1>4. RangesApart'
  BY <1>1, TakenApart DEF IInv, RangesApart, Partitioning
<1>5. OrderedApart'
  <2>. SUFFICES ASSUME NEW x \in Cells, NEW y \in Cells, x < y, ~(a[x] <= a[y])
                PROVE  SameRange(x, y)'
    BY <1>1 DEF OrderedApart
  <2>1. PICK m \in 1 .. Len(stack) : stack[m][1] <= x /\ y <= stack[m][2]
    BY <1>1 DEF IInv, OrderedApart, SameRange, Partitioning
  <2>2. m # 1
    BY <1>1, <1>2, <2>1 DEF Cells
  <2>3. m - 1 \in 1 .. Len(stack') /\ stack'[m - 1] = stack[m]
    BY <1>2, <2>2
  <2>. QED
    BY <2>1, <2>3 DEF SameRange
<1>. QED
  BY <1>1, <1>3, <1>4, <1>5
  DEF IInv, Split, Meeting, Permuted, Emptied, Partitioning, Count

-----------------------------------------------------------------------------
(* The scan upwards stops at the first cell that j has passed, or behind   *)
(* the range: whatever is read there.                                      *)
LEMMA ScanUpIInv == IInv /\ ScanUp => IInv'
<1>. SUFFICES ASSUME IInv, ScanUp PROVE IInv'
  OBVIOUS
<1>. USE SortAssumption
<1>1. /\ TypeOK /\ pc = "up" /\ i' = i + 1
      /\ UNCHANGED <<a, input, stack, l, r, j, pivot>>
  BY DEF IInv, ScanUp, range
<1>2. /\ l \in Int /\ r \in Int /\ i \in Int /\ j \in Int /\ pivot \in Int
      /\ 0 <= l /\ r <= Length - 1 /\ Length \in Int
      /\ \A x \in l .. r : x \in Cells /\ a[x] \in Int
  BY <1>1, InsideTyped
<1>3. /\ l < r /\ l <= i /\ i < j /\ j <= r + 1
      /\ a[l] = pivot /\ a[i] <= pivot /\ (j <= r => a[j] > pivot)
      /\ \A x \in l .. i - 1 : a[x] <= pivot
      /\ \A x \in j + 1 .. r : a[x] > pivot
  BY <1>1 DEF IInv, Split, Meeting, Partitioning
<1>4. \/ pc' = "up" /\ i' <= r /\ a[i'] <= pivot
      \/ pc' = "down" /\ (i' <= r => a[i'] > pivot)
  <2>1. PICK value \in Read(i + 1) :
          pc' = IF value <= pivot /\ i + 1 <= r THEN "up" ELSE "down"
    BY <1>1 DEF ScanUp, StaysUp
  <2>2. i + 1 <= r => i + 1 \in Cells /\ value = a[i + 1]
    BY <1>2, <1>3 DEF Read
  <2>. QED
    BY <1>1, <1>2, <1>3, <2>1, <2>2
<1>5. TypeOK'
  BY <1>1, <1>2, <1>3, <1>4 DEF TypeOK
<1>6. Split'
  BY <1>1, <1>2, <1>3, <1>4 DEF Split
<1>7. Meeting'
  BY <1>1, <1>2, <1>3, <1>4 DEF Meeting
<1>8. RangesApart' /\ OrderedApart'
  BY <1>1, <1>4 DEF IInv, RangesApart, OrderedApart, SameRange, Partitioning
<1>. QED
  BY <1>1, <1>4, <1>5, <1>6, <1>7, <1>8 DEF IInv, Permuted, Emptied, Count

(* The scan downwards stops at the latest at the last cell that i has      *)
(* passed, which may be the pivot's own.                                   *)
LEMMA ScanDownIInv == IInv /\ ScanDown => IInv'
<1>. SUFFICES ASSUME IInv, ScanDown PROVE IInv'
  OBVIOUS
<1>. USE SortAssumption
<1>1. /\ TypeOK /\ pc = "down" /\ j' = j - 1
      /\ pc' = IF a[j - 1] > pivot THEN "down" ELSE "test"
      /\ UNCHANGED <<a, input, stack, l, r, i, pivot>>
  BY DEF IInv, ScanDown, range
<1>2. /\ l \in Int /\ r \in Int /\ i \in Int /\ j \in Int /\ pivot \in Int
      /\ 0 <= l /\ r <= Length - 1 /\ Length \in Int
      /\ \A x \in l .. r : x \in Cells /\ a[x] \in Int
  BY <1>1, InsideTyped
<1>3. /\ l < r /\ l < i /\ i <= j /\ j <= r + 1
      /\ a[l] = pivot /\ (i <= r => a[i] > pivot) /\ (j <= r => a[j] > pivot)
      /\ \A x \in l .. i - 1 : a[x] <= pivot
      /\ \A x \in j + 1 .. r : a[x] > pivot
  BY <1>1 DEF IInv, Split, Meeting, Partitioning
<1>4. a[i - 1] <= pivot /\ j' \in l .. r /\ i - 1 <= j'
  BY <1>1, <1>2, <1>3
<1>5. \/ pc' = "down" /\ a[j'] > pivot /\ i <= j'
      \/ pc' = "test" /\ a[j'] <= pivot
  BY <1>1, <1>2, <1>3, <1>4
<1>6. TypeOK'
  BY <1>1, <1>2, <1>3, <1>5 DEF TypeOK
<1>7. Split'
  BY <1>1, <1>2, <1>3, <1>5 DEF Split
<1>8. Meeting'
  BY <1>1, <1>2, <1>3, <1>4, <1>5 DEF Meeting
<1>9. RangesApart' /\ OrderedApart'
  BY <1>1, <1>5 DEF IInv, RangesApart, OrderedApart, SameRange, Partitioning
<1>. QED
  BY <1>1, <1>5, <1>6, <1>7, <1>8, <1>9 DEF IInv, Permuted, Emptied, Count

(* Two cells outside of each other's range are in order already, so the    *)
(* cells of the range that is partitioned may change places.               *)
LEMMA OutsideInOrder ==
  ASSUME TypeOK, RangesApart, OrderedApart, Partitioning,
         NEW x \in Cells, NEW y \in l .. r
  PROVE  /\ x < l => a[x] <= a[y]
         /\ r < x => a[y] <= a[x]
<1>1. /\ l \in Int /\ r \in Int /\ x \in Int /\ y \in Cells
  BY InsideTyped
<1>2. /\ Len(stack) \in Nat
      /\ \A m \in 1 .. Len(stack) : stack[m][1] \in Int /\ stack[m][2] \in Int
  BY RangesTyped
<1>3. \A m \in 1 .. Len(stack) : r < stack[m][1]
  BY DEF RangesApart
<1>4. ASSUME x < l
      PROVE  a[x] <= a[y]
  <2>1. x < y
    BY <1>1, <1>4
  <2>2. ~SameRange(x, y)
    BY <1>1, <1>2, <1>3, <1>4 DEF SameRange
  <2>. QED
    BY <1>1, <2>1, <2>2 DEF OrderedApart
<1>5. ASSUME r < x
      PROVE  a[y] <= a[x]
  <2>1. y < x
    BY <1>1, <1>5
  <2>2. ~SameRange(y, x)
    BY <1>1, <1>2, <1>3, <1>5 DEF SameRange
  <2>. QED
    BY <1>1, <2>1, <2>2 DEF OrderedApart
<1>. QED
  BY <1>4, <1>5

LEMMA SwapIInv == IInv /\ Swap => IInv'
<1>. SUFFICES ASSUME IInv, Swap PROVE IInv'
  OBVIOUS
<1>. USE SortAssumption
<1>1. /\ TypeOK /\ RangesApart /\ OrderedApart /\ Partitioning
      /\ pc = "test" /\ pc' = "up" /\ i < j /\ a' = Exchanged(i, j)
      /\ UNCHANGED <<input, stack, l, r, i, j, pivot>>
  BY DEF IInv, Swap, range, Partitioning
<1>2. /\ l \in Int /\ r \in Int /\ i \in Int /\ j \in Int /\ pivot \in Int
      /\ 0 <= l /\ r <= Length - 1 /\ Length \in Int
      /\ \A x \in Cells : x \in Int /\ a[x] \in Int
      /\ \A x \in l .. r : x \in Cells
  BY <1>1, InsideTyped
<1>3. /\ l < r /\ l < i /\ i - 1 <= j /\ j <= r
      /\ a[l] = pivot /\ a[i] > pivot /\ a[j] <= pivot
      /\ \A x \in l .. i - 1 : a[x] <= pivot
      /\ \A x \in j + 1 .. r : a[x] > pivot
  BY <1>1, <1>2 DEF IInv, Split, Meeting, Partitioning
<1>4. i \in Cells /\ j \in Cells /\ i \in l .. r /\ j \in l .. r
  BY <1>1, <1>2, <1>3
<1>5. /\ a' \in [Cells -> Values]
      /\ a'[i] = a[j] /\ a'[j] = a[i]
      /\ \A z \in Cells \ {i, j} : a'[z] = a[z]
  BY <1>1, <1>4, ExchangedCells DEF TypeOK
<1>6. TypeOK'
  BY <1>1, <1>5 DEF TypeOK
<1>7. RangesApart'
  BY <1>1 DEF RangesApart, Partitioning
<1>8. OrderedApart'
  <2>. SUFFICES ASSUME NEW x \in Cells, NEW y \in Cells, x < y, ~SameRange(x, y)
                PROVE  a'[x] <= a'[y]
    BY <1>1 DEF OrderedApart, SameRange, Partitioning
  <2>1. x < l \/ r < y
    BY <1>1, <1>2 DEF SameRange
  <2>2. PICK z \in Cells : a'[x] = a[z] /\ (x \notin l .. r => z = x)
                          /\ (x \in l .. r => z \in l .. r)
    BY <1>4, <1>5
  <2>3. PICK u \in Cells : a'[y] = a[u] /\ (y \notin l .. r => u = y)
                          /\ (y \in l .. r => u \in l .. r)
    BY <1>4, <1>5
  <2>4. CASE x < l /\ y \in l .. r
    <3>1. x \notin l .. r
      BY <1>2, <2>4
    <3>. QED
      BY <1>1, <2>2, <2>3, <2>4, <3>1, OutsideInOrder
  <2>5. CASE r < y /\ x \in l .. r
    <3>1. y \notin l .. r
      BY <1>2, <2>5
    <3>. QED
      BY <1>1, <2>2, <2>3, <2>5, <3>1, OutsideInOrder
  <2>6. CASE x \notin l .. r /\ y \notin l .. r
    BY <1>1, <2>2, <2>3, <2>6 DEF OrderedApart
  <2>. QED
    BY <1>2, <2>1, <2>4, <2>5, <2>6
<1>9. Split'
  BY <1>1, <1>2, <1>3, <1>4, <1>5 DEF Split
<1>10. Meeting'
  BY <1>1, <1>2, <1>3, <1>4, <1>5 DEF Meeting
<1>11. Permuted'
  BY <1>1, <1>4, ExchangedPermuted DEF IInv
<1>. QED
  BY <1>1, <1>6, <1>7, <1>8, <1>9, <1>10, <1>11 DEF IInv, Emptied

(* The halves are put before the ranges on the stack.                      *)
LEMMA HalvesOnStack ==
  ASSUME TypeOK, j \in Cells, stack' = Halves \o stack
  PROVE  /\ stack' \in Seq((0 .. Length) \X (-1 .. Length - 1))
         /\ Len(stack) \in Nat /\ Len(stack') = Len(stack) + 2
         /\ stack'[1] = <<l, j - 1>> /\ stack'[2] = <<j + 1, r>>
         /\ \A m \in 1 .. Len(stack') : m > 2 => stack'[m] = stack[m - 2]
<1>. DEFINE T == (0 .. Length) \X (-1 .. Length - 1)
<1>1. stack \in Seq(T) /\ l \in Cells /\ r \in Cells
  BY DEF TypeOK
<1>2. <<l, j - 1>> \in T /\ <<j + 1, r>> \in T
  BY <1>1, SortAssumption DEF Cells
<1>. HIDE DEF T
<1>3. Halves \in Seq(T) /\ Len(Halves) = 2
      /\ Halves[1] = <<l, j - 1>> /\ Halves[2] = <<j + 1, r>>
  BY <1>2 DEF Halves
<1>4. /\ stack' \in Seq(T) /\ Len(stack') = Len(Halves) + Len(stack)
      /\ \A m \in 1 .. Len(Halves) + Len(stack) :
            stack'[m] = IF m <= Len(Halves) THEN Halves[m] ELSE stack[m - Len(Halves)]
  BY <1>1, <1>3, ConcatProperties, Zenon
<1>5. Len(stack) \in Nat
  BY <1>1
<1>6. Len(stack') = Len(stack) + 2
  BY <1>3, <1>4, <1>5
<1>7. \A m \in 1 .. Len(stack') :
        stack'[m] = IF m <= 2 THEN Halves[m] ELSE stack[m - 2]
  BY <1>3, <1>4, <1>5, <1>6
<1>8. stack'[1] = Halves[1] /\ stack'[2] = Halves[2]
  BY <1>5, <1>6, <1>7
<1>9. \A m \in 1 .. Len(stack') : m > 2 => stack'[m] = stack[m - 2]
  BY <1>5, <1>6, <1>7
<1>. QED
  BY <1>3, <1>4, <1>5, <1>6, <1>8, <1>9 DEF T

LEMMA BreakIInv == IInv /\ Break => IInv'
<1>. SUFFICES ASSUME IInv, Break PROVE IInv'
  OBVIOUS
<1>. USE SortAssumption
<1>1. /\ TypeOK /\ RangesApart /\ OrderedApart /\ Partitioning
      /\ pc = "test" /\ pc' = "call" /\ i >= j /\ a' = Exchanged(l, j)
      /\ stack' = Halves \o stack
      /\ UNCHANGED <<input, l, r, i, j, pivot>>
  BY DEF IInv, Break, range, Partitioning
<1>2. /\ l \in Int /\ r \in Int /\ i \in Int /\ j \in Int /\ pivot \in Int
      /\ 0 <= l /\ r <= Length - 1 /\ Length \in Int
      /\ \A x \in Cells : x \in Int /\ a[x] \in Int
      /\ \A x \in l .. r : x \in Cells
  BY <1>1, InsideTyped
<1>3. /\ l < r /\ l < i /\ i - 1 <= j /\ j <= r
      /\ a[l] = pivot /\ (i <= r => a[i] > pivot) /\ a[j] <= pivot
      /\ \A x \in l .. i - 1 : a[x] <= pivot
      /\ \A x \in j + 1 .. r : a[x] > pivot
  BY <1>1, <1>2 DEF IInv, Split, Meeting, Partitioning
<1>4. j = i - 1 /\ l <= j
  BY <1>1, <1>2, <1>3
<1>5. l \in Cells /\ j \in Cells /\ l \in l .. r /\ j \in l .. r
  BY <1>2, <1>3, <1>4
<1>6. /\ a' \in [Cells -> Values]
      /\ a'[l] = a[j] /\ a'[j] = a[l]
      /\ \A z \in Cells \ {l, j} : a'[z] = a[z]
  BY <1>1, <1>5, ExchangedCells DEF TypeOK
<1>7. /\ Len(stack) \in Nat /\ Len(stack') = Len(stack) + 2
      /\ stack'[1] = <<l, j - 1>> /\ stack'[2] = <<j + 1, r>>
      /\ \A m \in 1 .. Len(stack') : m > 2 => stack'[m] = stack[m - 2]
  BY <1>1, <1>5, HalvesOnStack
<1>8. TypeOK'
  <2>1. stack' \in Seq((0 .. Length) \X (-1 .. Length - 1))
    BY <1>1, <1>5, HalvesOnStack
  <2>. QED
    BY <1>1, <1>6, <2>1 DEF TypeOK
<1>9. RangesApart'
  <2>. SUFFICES ASSUME NEW m \in 1 .. Len(stack'), NEW n \in 1 .. Len(stack'), m < n
                PROVE  stack'[m][2] < stack'[n][1]
    BY <1>1 DEF RangesApart, Partitioning
  <2>1. CASE n = 2
    BY <1>2, <1>7, <2>1
  <2>2. CASE n > 2
    <3>1. n - 2 \in 1 .. Len(stack) /\ stack'[n] = stack[n - 2]
      BY <1>7, <2>2
    <3>2. r < stack[n - 2][1]
      BY <1>1, <3>1 DEF RangesApart
    <3>3. stack'[n][1] \in Int /\ r < stack'[n][1]
      BY <1>1, <3>1, <3>2, RangesTyped
    <3>4. CASE m <= 2
      <4>1. m = 1 \/ m = 2
        BY <1>7, <3>4
      <4>2. stack'[m][2] = j - 1 \/ stack'[m][2] = r
        BY <1>7, <4>1
      <4>3. j - 1 < r
        BY <1>2, <1>3
      <4>. QED
        BY <1>2, <3>3, <4>2, <4>3
    <3>5. CASE m > 2
      <4>1. m - 2 \in 1 .. Len(stack) /\ stack'[m] = stack[m - 2]
        BY <1>7, <3>5
      <4>2. m - 2 < n - 2
        BY <1>7
      <4>3. stack[m - 2][2] < stack[n - 2][1]
        BY <1>1, <3>1, <4>1, <4>2 DEF RangesApart
      <4>. QED
        BY <3>1, <4>1, <4>3
    <3>. QED
      BY <3>4, <3>5
  <2>. QED
    BY <1>7, <2>1, <2>2
<1>10. OrderedApart'
  <2>. SUFFICES ASSUME NEW x \in Cells, NEW y \in Cells, x < y, ~SameRange(x, y)'
                PROVE  a'[x] <= a'[y]
    BY DEF OrderedApart
  <2>1. ~(x >= l /\ y <= j - 1) /\ ~(x >= j + 1 /\ y <= r)
    <3>1. 1 \in 1 .. Len(stack') /\ 2 \in 1 .. Len(stack')
      BY <1>7
    <3>2. /\ ~(stack'[1][1] <= x /\ y <= stack'[1][2])
          /\ ~(stack'[2][1] <= x /\ y <= stack'[2][2])
      BY <3>1 DEF SameRange
    <3>3. /\ stack'[1][1] = l /\ stack'[1][2] = j - 1
          /\ stack'[2][1] = j + 1 /\ stack'[2][2] = r
      BY <1>7
    <3>. QED
      BY <1>2, <3>2, <3>3
  <2>2. \A m \in 1 .. Len(stack) : ~(stack[m][1] <= x /\ y <= stack[m][2])
    <3>. SUFFICES ASSUME NEW m \in 1 .. Len(stack), stack[m][1] <= x, y <= stack[m][2]
                  PROVE  FALSE
      OBVIOUS
    <3>1. m + 2 \in 1 .. Len(stack') /\ stack'[m + 2] = stack[m]
      BY <1>7
    <3>. QED
      BY <3>1 DEF SameRange
  <2>3. PICK z \in Cells : a'[x] = a[z] /\ (x \notin l .. j => z = x)
                          /\ (x \in l .. j => z \in l .. j)
    BY <1>2, <1>5, <1>6
  <2>4. PICK u \in Cells : a'[y] = a[u] /\ (y \notin l .. j => u = y)
                          /\ (y \in l .. j => u \in l .. j)
    BY <1>2, <1>5, <1>6
  <2>5. CASE x \in l .. r /\ y \in l .. r
    <3>1. x \in l .. j /\ y \in j .. r
      BY <1>2, <2>1, <2>5
    <3>2. a'[x] <= pivot
      BY <1>2, <1>4, <1>3, <2>3, <3>1
    <3>3. pivot <= a'[y]
      <4>1. CASE y = j
        BY <1>2, <1>3, <1>6, <4>1
      <4>2. CASE y # j
        <5>1. y \in j + 1 .. r /\ y \notin l .. j
          BY <1>2, <3>1, <4>2
        <5>. QED
          BY <1>2, <1>3, <2>4, <5>1
      <4>. QED
        BY <4>1, <4>2
    <3>. QED
      BY <1>2, <2>3, <2>4, <3>2, <3>3
  <2>6. CASE x < l /\ y \in l .. r
    <3>1. x \notin l .. j /\ u \in l .. r
      BY <1>2, <1>3, <2>4, <2>6
    <3>. QED
      BY <1>1, <2>3, <2>4, <2>6, <3>1, OutsideInOrder
  <2>7. CASE r < y /\ x \in l .. r
    <3>1. y \notin l .. j /\ z \in l .. r
      BY <1>2, <1>3, <2>3, <2>7
    <3>. QED
      BY <1>1, <2>3, <2>4, <2>7, <3>1, OutsideInOrder
  <2>8. CASE x \notin l .. r /\ y \notin l .. r
    <3>1. x \notin l .. j /\ y \notin l .. j
      BY <1>2, <1>3, <2>8
    <3>2. ~(l <= x /\ y <= r)
      BY <1>2, <2>8
    <3>. QED
      BY <1>1, <2>2, <2>3, <2>4, <3>1, <3>2 DEF OrderedApart, SameRange
  <2>. QED
    BY <1>2, <2>5, <2>6, <2>7, <2>8
<1>11. Permuted'
  BY <1>1, <1>5, ExchangedPermuted DEF IInv
<1>. QED
  BY <1>1, <1>8, <1>9, <1>10, <1>11 DEF IInv, Split, Meeting, Emptied, Partitioning

LEMMA NextIInv == IInv /\ [Next]_vars => IInv'
<1>. SUFFICES ASSUME IInv, [Next]_vars PROVE IInv'
  OBVIOUS
<1>1. CASE Return
  BY <1>1 DEF Return, IInv, TypeOK, RangesApart, OrderedApart, SameRange, Split,
              Meeting, Permuted, Count, Emptied, Partitioning, range
<1>2. CASE UNCHANGED vars
  BY <1>2 DEF IInv, TypeOK, RangesApart, OrderedApart, SameRange, Split,
              Meeting, Permuted, Count, Emptied, Partitioning, range, vars
<1>. QED
  BY <1>1, <1>2, CallPartitionIInv, CallReturnsIInv, ScanUpIInv, ScanDownIInv,
     SwapIInv, BreakIInv DEF Next

LEMMA Invariance == Spec => []IInv
BY InitIInv, NextIInv, PTL DEF Spec

(***************************************************************************)
(* Whatever is sorted, the stack of calls, the pivot and the two indices   *)
(* keep their types: the indices leave the array by the one cell behind it *)
(* at most.                                                                *)
(***************************************************************************)
THEOREM SortTypeCorrect == Spec => []TypeOK
BY Invariance, PTL DEF IInv

(***************************************************************************)
(* quicksort returns with the array in order and with every value as often *)
(* in it as it was handed over, for an array of any length: its cells are  *)
(* in order unless a range that is still open has both of them, and when   *)
(* it returns no range is open.                                            *)
(***************************************************************************)
THEOREM SortIsCorrect == Spec => []Sorts
<1>1. IInv => Sorts
  BY DEF IInv, TypeOK, Emptied, OrderedApart, SameRange, Partitioning, Permuted, Sorts
<1>. QED
  BY <1>1, Invariance, PTL

(* A step of partition: the indices stay on the range and the two cells     *)
(* next to it, and only cells of the range change.                         *)
LEMMA PartitionInside ==
  ASSUME IInv, Next, Partitioning
  PROVE  OutsideUntouched
<1>1. /\ l \in Int /\ r \in Int /\ i \in Int /\ j \in Int
      /\ \A x \in l .. r : x \in Cells
  BY InsideTyped DEF IInv
<1>2. /\ l < r /\ a[l] = pivot /\ l <= i /\ j <= r + 1
      /\ pc = "up" => i < j
      /\ pc = "down" => l < i /\ i <= j
      /\ pc = "test" => l < i /\ i - 1 <= j /\ j <= r
  BY <1>1 DEF IInv, Split, Meeting, Partitioning
<1>3. CASE ScanUp
  BY <1>1, <1>2, <1>3 DEF ScanUp, OutsideUntouched
<1>4. CASE ScanDown
  BY <1>1, <1>2, <1>4 DEF ScanDown, OutsideUntouched
<1>5. CASE Swap
  <2>1. i \in l .. r /\ j \in l .. r /\ i' = i /\ j' = j /\ a' = Exchanged(i, j)
    BY <1>1, <1>2, <1>5 DEF Swap
  <2>. QED
    BY <1>1, <2>1, ExchangedCells DEF OutsideUntouched, IInv, TypeOK
<1>6. CASE Break
  <2>1. l \in l .. r /\ j \in l .. r /\ i' = i /\ j' = j /\ i \in l .. r + 1
        /\ a' = Exchanged(l, j)
    BY <1>1, <1>2, <1>6 DEF Break
  <2>. QED
    BY <1>1, <2>1, ExchangedCells DEF OutsideUntouched, IInv, TypeOK
<1>. QED
  BY <1>3, <1>4, <1>5, <1>6
  DEF Next, Partitioning, CallPartition, CallReturns, Return

(***************************************************************************)
(* partition changes no cell outside of the range it was called for, and   *)
(* its indices go no further than the one cell behind it, which the upward *)
(* scan reads before it compares its index with r; the downward scan       *)
(* compares its index with nothing, the pivot in the first cell stops it.  *)
(***************************************************************************)
THEOREM PartitionStaysInRange == Spec => StaysInRange
<1>1. IInv /\ [Next]_vars => [Partitioning => OutsideUntouched]_vars
  BY PartitionInside
<1>. QED
  BY <1>1, Invariance, PTL DEF Spec, StaysInRange

-----------------------------------------------------------------------------
(*****************************************************************************)
(* The start-up code, for all models and numbers of cores.                   *)
(*****************************************************************************)

(* The boxes whose registers setup_perf_counters knows.                    *)
KnownBoxes ==
  IF class = "INTEL_CORE" THEN CoreBoxes
  ELSE IF class = "INTEL_XEON" /\ archi # "SKYLAKE_SP" THEN XeonBoxes.n
  ELSE 0

(* Where register c of a table is.                                         *)
Address(table, c) ==
  IF table = "unc_cbo_perfevtsel0" THEN \h700 + 16 * c
  ELSE IF table = "unc_cbo_per_ctr0" THEN \h706 + 16 * c
  ELSE XeonBoxes.base + XeonOffset(table) + XeonBoxes.stride * c

(* What determine_class_uarch can say: a server processor is of a known    *)
(* microarchitecture, and a client processor is never a SKYLAKE_SP.        *)
XeonArchs == {"SANDY_BRIDGE", "IVY_BRIDGE", "HASWELL", "BROADWELL", "SKYLAKE_SP"}
KindsAgree ==
  /\ class = "INTEL_XEON" => archi \in XeonArchs
  /\ class = "INTEL_CORE" => archi # "SKYLAKE_SP"

(* The tables are empty until setup_perf_counters has run; then those of   *)
(* the class hold the addresses of the known boxes and nothing else.       *)
TablesFilled ==
  \A t \in XeonTables \cup CoreTables : \A c \in 0 .. TableLength(t) - 1 :
    msr[t][c] = IF phase # "setup" /\ t \in Driven /\ c < KnownBoxes
                THEN Address(t, c) ELSE 0

(* Unless -f raised it, max_slices is the number of known boxes.           *)
LimitKnown ==
  ~clflush => max_slices = IF phase = "setup" THEN 0 ELSE KnownBoxes

(* What the comparison of the cores with it has found.                     *)
CoresChecked ==
  /\ phase \in {"dispatch", "measure"} => nb_cores <= max_slices
  /\ phase = "rejected" /\ intel /\ ~clflush => nb_cores > KnownBoxes

(* A client processor has its global register once the tables are filled.  *)
GlobalKnown ==
  class = "INTEL_CORE" /\ phase # "setup" => global_ctr = GlobalCtr

Unclassified ==
  phase \in {"start", "options", "classify", "help"} => class = "CPU_UNKNOWN"

StartInv ==
  /\ StartupTypeOK /\ KindsAgree /\ TablesFilled /\ LimitKnown /\ CoresChecked
  /\ GlobalKnown /\ Unclassified

-----------------------------------------------------------------------------
(* The two cascades of determine_class_uarch agree with each other.        *)
LEMMA KindOfModel ==
  ASSUME NEW m
  PROVE  /\ ClassOf(m) \in Classes /\ ArchOf(m) \in Archs
         /\ ClassOf(m) = "INTEL_XEON" => ArchOf(m) \in XeonArchs
         /\ ClassOf(m) = "INTEL_CORE" => ArchOf(m) # "SKYLAKE_SP"
BY DEF ClassOf, ArchOf, Classes, Archs, XeonArchs

(* How many boxes are known, and that their registers fit the tables.      *)
LEMMA BoxesFit ==
  ASSUME KindsAgree
  PROVE  /\ KnownBoxes \in 0 .. 24
         /\ class = "CPU_UNKNOWN" => KnownBoxes = 0
         /\ \A t \in Driven : KnownBoxes <= TableLength(t)
         /\ \A t \in Driven, c \in Nat : c < KnownBoxes => Address(t, c) \in Nat /\ Address(t, c) # 0
<1>1. CASE class = "INTEL_CORE"
  BY <1>1 DEF KnownBoxes, CoreBoxes, Driven, CoreTables, XeonTables, TableLength, Address
<1>2. CASE class = "INTEL_XEON" /\ archi # "SKYLAKE_SP"
  <2>1. archi \in {"SANDY_BRIDGE", "IVY_BRIDGE", "HASWELL", "BROADWELL"}
    BY <1>2 DEF KindsAgree, XeonArchs
  <2>2. XeonBoxes.n \in 1 .. 24 /\ XeonBoxes.base \in Nat /\ XeonBoxes.stride \in Nat
        /\ XeonBoxes.base > 0
    BY <2>1 DEF XeonBoxes
  <2>3. \A t \in XeonTables : XeonOffset(t) \in Nat
    BY DEF XeonOffset, XeonTables
  <2>4. \A c \in Nat : XeonBoxes.stride * c \in Nat
    BY <2>2
  <2>. QED
    BY <1>2, <2>2, <2>3, <2>4 DEF KnownBoxes, Driven, XeonTables, TableLength, Address
<1>3. CASE class # "INTEL_CORE" /\ ~(class = "INTEL_XEON" /\ archi # "SKYLAKE_SP")
  BY <1>3 DEF KnownBoxes, Driven, XeonTables, TableLength
<1>. QED
  BY <1>1, <1>2, <1>3

LEMMA InitStartInv == StartupInit => StartInv
<1>. SUFFICES ASSUME StartupInit PROVE StartInv
  OBVIOUS
<1>1. /\ DOMAIN msr = XeonTables \cup CoreTables
      /\ \A t \in DOMAIN msr : msr[t] \in [0 .. TableLength(t) - 1 -> Nat]
  BY Zenon, 0 \in Nat DEF StartupInit
<1>2. StartupTypeOK
  <2>1. /\ prog \in {"reverse", "scan"} /\ intel \in BOOLEAN
        /\ cpu_model \in Models /\ nb_cores \in CoreCounts
        /\ phase = "start" /\ clflush = FALSE /\ scan = FALSE
        /\ class = "CPU_UNKNOWN" /\ archi = "UARCH_UNKNOWN"
        /\ max_slices = 0 /\ global_ctr = NoRegister /\ routine = "none"
    BY DEF StartupInit
  <2>2. /\ phase \in Phases /\ class \in Classes /\ archi \in Archs
        /\ max_slices \in 0 .. 64 /\ routine \in Routines
    BY <2>1 DEF Phases, Classes, Archs, Routines
  <2>3. clflush \in BOOLEAN /\ scan \in BOOLEAN
    BY <2>1, Zenon
  <2>. QED
    BY <1>1, <2>1, <2>2, <2>3, Zenon DEF StartupTypeOK
<1>3. KnownBoxes = 0
  BY DEF KnownBoxes, StartupInit
<1>4. TablesFilled
  BY <1>3 DEF StartupInit, TablesFilled, Driven, TableLength, XeonTables, CoreTables
<1>. QED
  BY <1>2, <1>3, <1>4
  DEF StartInv, StartupInit, KindsAgree, LimitKnown, CoresChecked, GlobalKnown, Unclassified

-----------------------------------------------------------------------------
(* A step that leaves the tables and the processor alone keeps what is     *)
(* known of them.                                                          *)
LEMMA StartKeepsTables ==
  ASSUME StartInv, UNCHANGED <<class, archi, msr, global_ctr>>,
         phase # "setup", phase' # "setup"
  PROVE  KindsAgree' /\ TablesFilled' /\ GlobalKnown' /\ KnownBoxes' = KnownBoxes
<1>1. KnownBoxes' = KnownBoxes
  BY DEF KnownBoxes, CoreBoxes, XeonBoxes
<1>2. Driven' = Driven
  BY DEF Driven
<1>3. \A t, c : Address(t, c)' = Address(t, c)
  BY DEF Address, XeonBoxes, XeonOffset
<1>4. TablesFilled'
  BY <1>1, <1>2, <1>3 DEF StartInv, TablesFilled
<1>. QED
  BY <1>1, <1>4 DEF StartInv, KindsAgree, GlobalKnown, GlobalCtr

(* Every step but the two that classify the processor and fill the tables. *)
LEMMA StartOtherSteps ==
  ASSUME StartInv,
         \/ CheckVendor \/ EndOfOptions \/ RaiseLimit \/ CheckCores
         \/ StartScan \/ StartReverse
         \/ \E letter \in Letters, spelling \in Spellings : Option(letter, spelling)
  PROVE  StartInv'
<1>1. /\ UNCHANGED <<prog, intel, cpu_model, nb_cores, class, archi, msr, global_ctr>>
      /\ phase # "setup" /\ phase' # "setup"
  BY DEF CheckVendor, EndOfOptions, RaiseLimit, CheckCores, StartScan, StartReverse,
         Option, setup, options, machine
<1>2. KindsAgree' /\ TablesFilled' /\ GlobalKnown' /\ KnownBoxes' = KnownBoxes
  BY <1>1, StartKeepsTables
<1>3. nb_cores \in Nat /\ nb_cores > 0 /\ KnownBoxes \in Nat
      /\ (class = "CPU_UNKNOWN" => KnownBoxes = 0)
  <2>1. nb_cores \in CoreCounts /\ KindsAgree
    BY DEF StartInv, StartupTypeOK
  <2>. QED
    BY StartupAssumption, <2>1, BoxesFit
<1>4. max_slices \in 0 .. 64 /\ clflush \in BOOLEAN /\ scan \in BOOLEAN
  BY DEF StartInv, StartupTypeOK
<1>5. phase \in Phases /\ routine \in Routines
  BY DEF StartInv, StartupTypeOK
<1> DEFINE Changes ==
      /\ phase' \in Phases /\ clflush' \in BOOLEAN /\ scan' \in BOOLEAN
      /\ max_slices' \in 0 .. 64 /\ routine' \in Routines
      /\ LimitKnown' /\ CoresChecked' /\ Unclassified'
<1>6. LimitKnown /\ CoresChecked /\ Unclassified
  BY DEF StartInv
<1>. SUFFICES Changes
  BY <1>1, <1>2 DEF StartInv, StartupTypeOK
<1>7. CASE CheckVendor
  BY <1>1, <1>2, <1>4, <1>5, <1>6, <1>7
  DEF CheckVendor, options, setup, Phases, LimitKnown, CoresChecked, Unclassified
<1>8. CASE EndOfOptions
  BY <1>1, <1>2, <1>4, <1>5, <1>6, <1>8
  DEF EndOfOptions, options, setup, Phases, LimitKnown, CoresChecked, Unclassified
<1>9. CASE RaiseLimit
  BY <1>1, <1>2, <1>4, <1>5, <1>6, <1>9
  DEF RaiseLimit, options, Phases, LimitKnown, CoresChecked, Unclassified
<1>10. CASE CheckCores
  BY <1>1, <1>2, <1>3, <1>4, <1>5, <1>6, <1>10
  DEF CheckCores, options, setup, Phases, LimitKnown, CoresChecked, Unclassified
<1>11. CASE StartScan
  BY <1>1, <1>2, <1>4, <1>5, <1>6, <1>11
  DEF StartScan, options, setup, Phases, Routines, LimitKnown, CoresChecked, Unclassified
<1>12. CASE StartReverse
  BY <1>1, <1>2, <1>3, <1>4, <1>5, <1>6, <1>12
  DEF StartReverse, options, setup, Phases, Routines, LimitKnown, CoresChecked, Unclassified
<1>13. ASSUME NEW letter \in Letters, NEW spelling \in Spellings, Option(letter, spelling)
       PROVE  Changes
  <2>1. /\ phase = "options" /\ phase' \in {"options", "help"}
        /\ clflush' \in BOOLEAN /\ scan' \in BOOLEAN /\ (clflush => clflush')
        /\ UNCHANGED <<max_slices, routine>>
    BY <1>4, <1>13 DEF Option, setup
  <2>. QED
    BY <1>1, <1>2, <1>4, <1>5, <1>6, <2>1
    DEF Phases, LimitKnown, CoresChecked, Unclassified
<1>. QED
  BY <1>7, <1>8, <1>9, <1>10, <1>11, <1>12, <1>13

LEMMA StartClassifies ==
  ASSUME StartInv, DetermineClassUarch, nb_cores \in Nat, nb_cores > 0
  PROVE  StartInv'
<1>1. /\ phase = "classify" /\ phase' \in {"rejected", "setup"}
      /\ phase' = "rejected" => class' = "CPU_UNKNOWN"
      /\ class' \in Classes /\ archi' \in Archs
      /\ class' = "INTEL_XEON" => archi' \in XeonArchs
      /\ class' = "INTEL_CORE" => archi' # "SKYLAKE_SP"
      /\ UNCHANGED <<prog, intel, cpu_model, nb_cores, clflush, scan, max_slices, msr,
                     global_ctr, routine>>
  BY KindOfModel DEF DetermineClassUarch, machine, options
<1>2. KindsAgree' /\ Unclassified'
  BY <1>1 DEF KindsAgree, Unclassified, XeonArchs
<1>3. phase' = "rejected" => KnownBoxes' = 0
  BY <1>1 DEF KnownBoxes
<1>4. class = "CPU_UNKNOWN" /\ KnownBoxes = 0 /\ (~clflush => max_slices = 0)
  BY <1>1 DEF StartInv, Unclassified, KnownBoxes, LimitKnown
<1>5. TablesFilled'
  BY <1>1, <1>3, <1>4 DEF StartInv, TablesFilled
<1>6. LimitKnown' /\ CoresChecked' /\ GlobalKnown'
  BY <1>1, <1>3, <1>4 DEF LimitKnown, CoresChecked, GlobalKnown
<1>7. StartupTypeOK'
  <2>1. phase' \in Phases
    BY <1>1 DEF Phases
  <2>. QED
    BY <1>1, <2>1 DEF StartInv, StartupTypeOK
<1>. QED
  BY <1>2, <1>5, <1>6, <1>7 DEF StartInv

(* The layout of a known server processor.                                 *)
LEMMA XeonLayout ==
  ASSUME archi \in XeonArchs \ {"SKYLAKE_SP"}
  PROVE  /\ XeonBoxes.n \in 1 .. 24 /\ XeonBoxes.base \in {\hd00, \he00}
         /\ XeonBoxes.stride \in {16, 32}
         /\ \A t \in XeonTables : XeonOffset(t) \in 0 .. 31
BY DEF XeonArchs, XeonBoxes, XeonOffset, XeonTables

LEMMA StartFillsTables ==
  ASSUME StartInv, SetupPerfCounters, nb_cores \in Nat, nb_cores > 0
  PROVE  StartInv'
<1>1. /\ phase = "setup" /\ phase' = "limit"
      /\ UNCHANGED <<prog, intel, cpu_model, nb_cores, clflush, scan, class, archi, routine>>
  BY DEF SetupPerfCounters, machine, options
<1>2. /\ DOMAIN msr = XeonTables \cup CoreTables
      /\ \A t \in XeonTables \cup CoreTables :
           msr[t] \in [0 .. TableLength(t) - 1 -> Nat] /\ \A c \in 0 .. TableLength(t) - 1 : msr[t][c] = 0
  BY <1>1 DEF StartInv, StartupTypeOK, TablesFilled
<1>3. /\ \A t \in XeonTables : t \notin CoreTables /\ TableLength(t) = 24
      /\ \A t \in CoreTables : t \notin XeonTables /\ TableLength(t) = 8
  BY DEF XeonTables, CoreTables, TableLength
<1>4. KnownBoxes \in 0 .. 24 /\ KindsAgree /\ class \in Classes /\ max_slices \in 0 .. 64
  BY BoxesFit DEF StartInv, StartupTypeOK
<1>5. ~clflush => max_slices = 0
  BY <1>1 DEF StartInv, LimitKnown
<1>. DEFINE Filled(t) ==
       /\ msr'[t] \in [0 .. TableLength(t) - 1 -> Nat]
       /\ \A c \in 0 .. TableLength(t) - 1 :
            msr'[t][c] = IF t \in Driven /\ c < KnownBoxes THEN Address(t, c) ELSE 0
<1>6. /\ DOMAIN msr' = XeonTables \cup CoreTables
      /\ \A t \in XeonTables \cup CoreTables : Filled(t)
      /\ max_slices' \in 0 .. 64
      /\ ~clflush => max_slices' = KnownBoxes
  <2>1. CASE SetupXeon
    <3>1. /\ class = "INTEL_XEON" /\ archi \in XeonArchs \ {"SKYLAKE_SP"}
          /\ KnownBoxes = XeonBoxes.n /\ Driven = XeonTables
      BY <1>4, <2>1 DEF SetupXeon, KindsAgree, KnownBoxes, Driven
    <3>2. /\ XeonBoxes.n \in 0 .. 24 /\ XeonBoxes.stride \in Nat
          /\ \A t \in XeonTables : XeonBoxes.base + XeonOffset(t) \in Nat
      BY <3>1, XeonLayout
    <3>3. ASSUME NEW t \in XeonTables
          PROVE  Filled(t)
      <4>1. msr'[t] = Copied(msr[t], XeonBoxes.base + XeonOffset(t), XeonBoxes.stride, XeonBoxes.n)
        BY <1>2, <2>1 DEF SetupXeon
      <4>2. /\ t \in XeonTables \cup CoreTables
            /\ TableLength(t) \in Nat /\ XeonBoxes.n \in 0 .. TableLength(t)
        BY <1>3, <3>2
      <4>3. /\ msr[t] \in [0 .. TableLength(t) - 1 -> Nat]
            /\ \A c \in 0 .. TableLength(t) - 1 : msr[t][c] = 0
        BY <1>2, <4>2
      <4>4. PICK first \in Nat : first = XeonBoxes.base + XeonOffset(t)
        BY <3>2
      <4>5. PICK table : table = msr'[t]
        OBVIOUS
      <4>6. table = Copied(msr[t], first, XeonBoxes.stride, XeonBoxes.n)
        BY <4>1, <4>4, <4>5
      <4>7. table = [c \in 0 .. TableLength(t) - 1 |->
                      IF c < XeonBoxes.n THEN first + XeonBoxes.stride * c ELSE msr[t][c]]
        <5>1. DOMAIN msr[t] \cup 0 .. XeonBoxes.n - 1 = 0 .. TableLength(t) - 1
          BY <4>2, <4>3
        <5>. QED
          BY <4>6, <5>1, Zenon DEF Copied
      <4>8. /\ table \in [0 .. TableLength(t) - 1 -> Nat]
            /\ \A c \in 0 .. TableLength(t) - 1 :
                 table[c] = IF c < XeonBoxes.n THEN first + XeonBoxes.stride * c ELSE 0
        <5>1. \A c \in 0 .. TableLength(t) - 1 : first + XeonBoxes.stride * c \in Nat
          BY <3>2, <4>2
        <5>. QED
          BY <4>3, <4>7, <5>1
      <4>9. \A c : Address(t, c) = first + XeonBoxes.stride * c
        BY <4>4 DEF Address, XeonTables
      <4>. QED
        BY <3>1, <4>5, <4>8, <4>9
    <3>4. ASSUME NEW t \in CoreTables
          PROVE  Filled(t)
      BY <1>2, <1>3, <2>1, <3>1, <3>4 DEF SetupXeon
    <3>. QED
      BY <1>2, <2>1, <3>1, <3>2, <3>3, <3>4 DEF SetupXeon
  <2>2. CASE SetupCore
    <3>1. /\ class = "INTEL_CORE" /\ KnownBoxes = CoreBoxes /\ Driven = CoreTables
          /\ CoreBoxes \in 0 .. 8
      BY <2>2 DEF SetupCore, KnownBoxes, Driven, CoreBoxes
    <3>2. /\ DOMAIN msr' = DOMAIN msr
          /\ msr'["unc_cbo_perfevtsel0"] = Copied(msr["unc_cbo_perfevtsel0"], \h700, 16, CoreBoxes)
          /\ msr'["unc_cbo_per_ctr0"] = Copied(msr["unc_cbo_per_ctr0"], \h706, 16, CoreBoxes)
          /\ \A t \in XeonTables : msr'[t] = msr[t]
      BY <1>2, <2>2 DEF SetupCore, XeonTables, CoreTables
    <3>3. ASSUME NEW t \in CoreTables
          PROVE  Filled(t)
      <4>1. /\ t \in XeonTables \cup CoreTables
            /\ TableLength(t) \in Nat /\ CoreBoxes \in 0 .. TableLength(t)
        BY <1>3, <3>1
      <4>2. /\ msr[t] \in [0 .. TableLength(t) - 1 -> Nat]
            /\ \A c \in 0 .. TableLength(t) - 1 : msr[t][c] = 0
        BY <1>2, <4>1
      <4>3. PICK table : table = msr'[t]
        OBVIOUS
      <4>4. PICK first \in Nat, stride \in Nat :
              /\ table = Copied(msr[t], first, stride, CoreBoxes)
              /\ stride = 16 /\ \A c : Address(t, c) = first + 16 * c
        BY <3>2, <4>3 DEF CoreTables, Address
      <4>5. table = Copied(msr[t], first, stride, CoreBoxes)
        BY <4>4
      <4>6. table = [c \in 0 .. TableLength(t) - 1 |->
                      IF c < CoreBoxes THEN first + stride * c ELSE msr[t][c]]
        <5>1. DOMAIN msr[t] \cup 0 .. CoreBoxes - 1 = 0 .. TableLength(t) - 1
          BY <4>1, <4>2
        <5>. QED
          BY <4>5, <5>1, Zenon DEF Copied
      <4>7. \A c \in 0 .. TableLength(t) - 1 :
              first + stride * c \in Nat /\ Address(t, c) = first + stride * c
        BY <4>1, <4>4
      <4>8. /\ table \in [0 .. TableLength(t) - 1 -> Nat]
            /\ \A c \in 0 .. TableLength(t) - 1 :
                 table[c] = IF c < CoreBoxes THEN Address(t, c) ELSE 0
        BY <4>2, <4>6, <4>7
      <4>. QED
        BY <3>1, <4>3, <4>8
    <3>4. ASSUME NEW t \in XeonTables
          PROVE  Filled(t)
      BY <1>2, <1>3, <3>1, <3>2
    <3>. QED
      BY <1>2, <2>2, <3>1, <3>2, <3>3, <3>4 DEF SetupCore
  <2>3. CASE SetupNothing
    <3>1. KnownBoxes = 0 /\ msr' = msr /\ max_slices' = max_slices
      BY <1>4, <2>3 DEF SetupNothing, KnownBoxes, KindsAgree
    <3>. QED
      BY <1>2, <1>4, <1>5, <3>1
  <2>. QED
    BY <2>1, <2>2, <2>3 DEF SetupPerfCounters
<1>7. /\ KnownBoxes' = KnownBoxes /\ Driven' = Driven
      /\ \A t, c : Address(t, c)' = Address(t, c)
  BY <1>1 DEF KnownBoxes, CoreBoxes, XeonBoxes, Driven, Address, XeonOffset
<1>8. StartupTypeOK'
  <2>1. phase' \in Phases
    BY <1>1 DEF Phases
  <2>2. \A t \in DOMAIN msr' : msr'[t] \in [0 .. TableLength(t) - 1 -> Nat]
    BY <1>6
  <2>3. global_ctr' \in {NoRegister} \cup Nat
    BY DEF SetupPerfCounters, SetupXeon, SetupCore, SetupNothing, GlobalCtr,
           StartInv, StartupTypeOK
  <2>. QED
    BY <1>1, <1>6, <2>1, <2>2, <2>3 DEF StartInv, StartupTypeOK
<1>9. TablesFilled'
  BY <1>1, <1>6, <1>7 DEF TablesFilled
<1>10. KindsAgree' /\ LimitKnown' /\ CoresChecked' /\ Unclassified'
  BY <1>1, <1>6, <1>7 DEF StartInv, KindsAgree, LimitKnown, CoresChecked, Unclassified
<1>11. global_ctr' = IF class = "INTEL_CORE" THEN GlobalCtr ELSE global_ctr
  BY <1>4 DEF SetupPerfCounters, SetupXeon, SetupCore, SetupNothing, KindsAgree
<1>12. GlobalKnown'
  BY <1>1, <1>11 DEF GlobalKnown, GlobalCtr
<1>. QED
  BY <1>8, <1>9, <1>10, <1>12 DEF StartInv

LEMMA NextStartInv ==
  ASSUME StartInv, [StartupNext]_startupVars
  PROVE  StartInv'
<1>1. nb_cores \in Nat /\ nb_cores > 0
  BY StartupAssumption DEF StartInv, StartupTypeOK
<1>2. CASE DetermineClassUarch
  BY <1>1, <1>2, StartClassifies
<1>3. CASE SetupPerfCounters
  BY <1>1, <1>3, StartFillsTables
<1>4. CASE UNCHANGED startupVars
  <2>1. /\ KnownBoxes' = KnownBoxes /\ Driven' = Driven
        /\ \A t, c : Address(t, c)' = Address(t, c)
    BY <1>4 DEF startupVars, setup, KnownBoxes, CoreBoxes, XeonBoxes, Driven, Address, XeonOffset
  <2>. QED
    BY <1>4, <2>1
    DEF startupVars, setup, machine, options,
        StartInv, StartupTypeOK, KindsAgree, TablesFilled, LimitKnown, CoresChecked,
        GlobalKnown, GlobalCtr, Unclassified
<1>. QED
  BY <1>2, <1>3, <1>4, StartOtherSteps DEF StartupNext

LEMMA StartInvariance == StartupSpec => []StartInv
<1>1. StartupInit => StartInv
  BY InitStartInv
<1>2. StartInv /\ [StartupNext]_startupVars => StartInv'
  BY NextStartInv
<1>. QED
  BY <1>1, <1>2, PTL DEF StartupSpec

-----------------------------------------------------------------------------
(***************************************************************************)
(* The start-up code keeps its types, whatever the model, the options and  *)
(* the number of cores.                                                    *)
(***************************************************************************)
THEOREM StartTypeCorrect == StartupSpec => []StartupTypeOK
BY StartInvariance, PTL DEF StartInv

(* The cores were counted against the boxes that are known.                *)
LEMMA MeasuresKnownBoxes ==
  ASSUME StartInv, phase = "measure", ~clflush
  PROVE  /\ nb_cores \in Nat \ {0} /\ nb_cores <= max_slices /\ max_slices = KnownBoxes
         /\ \A t \in Driven : max_slices <= TableLength(t)
         /\ \A t \in Driven, c \in Boxes :
              /\ c \in Nat /\ c < KnownBoxes /\ c \in DOMAIN msr[t]
              /\ msr[t][c] = Address(t, c)
<1>1. nb_cores \in Nat \ {0}
  BY StartupAssumption DEF StartInv, StartupTypeOK
<1>2. nb_cores <= max_slices /\ max_slices = KnownBoxes
  BY DEF StartInv, CoresChecked, LimitKnown
<1>3. KnownBoxes \in Nat /\ \A t \in Driven : KnownBoxes <= TableLength(t) /\ TableLength(t) \in Nat
  BY BoxesFit DEF StartInv, TableLength
<1>4. ASSUME NEW t \in Driven, NEW c \in Boxes
      PROVE  /\ c \in Nat /\ c < KnownBoxes /\ c \in DOMAIN msr[t]
             /\ msr[t][c] = Address(t, c)
  <2>1. c \in Nat /\ c < KnownBoxes /\ c \in 0 .. TableLength(t) - 1
    BY <1>1, <1>2, <1>3 DEF Boxes
  <2>2. t \in XeonTables \cup CoreTables
    BY DEF Driven
  <2>3. msr[t] \in [0 .. TableLength(t) - 1 -> Nat]
    BY <2>2 DEF StartInv, StartupTypeOK
  <2>. QED
    BY <2>1, <2>2, <2>3 DEF StartInv, TablesFilled
<1>. QED
  BY <1>1, <1>2, <1>3, <1>4

(***************************************************************************)
(* Without -f, main starts a measurement exactly if setup_perf_counters    *)
(* filled the tables for the box of every core, and set the register that  *)
(* enables the counters of a client processor; it turns the processor      *)
(* away otherwise.  On every model, for every number of cores.             *)
(***************************************************************************)
THEOREM RegistersKnownExactly == StartupSpec => []MeasuredIffRegistersKnown
<1>1. ASSUME StartInv, phase \in {"measure", "rejected"}, intel, ~clflush
      PROVE  phase = "measure" <=> RegistersKnown
  <2>1. CASE phase = "measure"
    <3>1. \A t \in Driven, c \in Boxes : c \in DOMAIN msr[t] /\ msr[t][c] # 0
      BY <1>1, <2>1, MeasuresKnownBoxes, BoxesFit DEF StartInv
    <3>2. DrivesGlobal => global_ctr # NoRegister
      BY <1>1, <2>1 DEF DrivesGlobal, StartInv, GlobalKnown, GlobalCtr, NoRegister
    <3>. QED
      BY <2>1, <3>1, <3>2 DEF RegistersKnown
  <2>2. CASE phase = "rejected"
    <3>1. nb_cores \in Nat /\ nb_cores > 0 /\ KnownBoxes \in Nat /\ nb_cores > KnownBoxes
      <4>1. nb_cores \in CoreCounts /\ KindsAgree
        BY <1>1 DEF StartInv, StartupTypeOK
      <4>2. nb_cores \in Nat /\ nb_cores > 0
        BY StartupAssumption, <4>1
      <4>3. KnownBoxes \in Nat
        BY <4>1, BoxesFit
      <4>4. nb_cores > KnownBoxes
        BY <1>1, <2>2 DEF StartInv, CoresChecked
      <4>. QED
        BY <4>2, <4>3, <4>4
    <3>2. PICK t : t \in Driven
      BY DEF Driven, CoreTables, XeonTables
    <3>3. /\ t \in XeonTables \cup CoreTables /\ TableLength(t) \in Nat
          /\ DOMAIN msr[t] = 0 .. TableLength(t) - 1
      BY <1>1, <3>2 DEF Driven, StartInv, StartupTypeOK, TableLength
    <3>4. nb_cores - 1 \in Boxes /\ ~(nb_cores - 1 < KnownBoxes)
      BY <3>1 DEF Boxes
    <3>5. nb_cores - 1 \in DOMAIN msr[t] => msr[t][nb_cores - 1] = 0
      BY <1>1, <3>3, <3>4 DEF StartInv, TablesFilled
    <3>. QED
      BY <2>2, <3>2, <3>4, <3>5 DEF RegistersKnown
  <2>. QED
    BY <1>1, <2>1, <2>2
<1>2. StartInv => MeasuredIffRegistersKnown
  BY <1>1 DEF MeasuredIffRegistersKnown
<1>. QED
  BY <1>2, StartInvariance, PTL

(***************************************************************************)
(* A measurement with the counters is started with at least one core, with *)
(* a slice for every core and with a register in each of its tables for    *)
(* every slice: what CoreMonitor and XeonMonitor assume of nb_cores and    *)
(* max_slices is what the start-up code leaves them.                       *)
(***************************************************************************)
THEOREM MeasurementsFit ==
  StartupSpec => [](phase = "measure" /\ ~clflush =>
                     /\ nb_cores \in Nat \ {0} /\ nb_cores <= max_slices
                     /\ \A t \in Driven : max_slices <= TableLength(t))
<1>1. StartInv => (phase = "measure" /\ ~clflush =>
                     /\ nb_cores \in Nat \ {0} /\ nb_cores <= max_slices
                     /\ \A t \in Driven : max_slices <= TableLength(t))
  BY MeasuresKnownBoxes
<1>. QED
  BY <1>1, StartInvariance, PTL

(* No two registers of the known boxes have the same address.              *)
LEMMA AddressesDistinct ==
  ASSUME KindsAgree, NEW t \in Driven, NEW u \in Driven,
         NEW c \in Nat, NEW d \in Nat, c < KnownBoxes,
         Address(t, c) = Address(u, d)
  PROVE  t = u /\ c = d
<1>1. CASE class = "INTEL_CORE"
  BY <1>1 DEF Driven, CoreTables, Address
<1>2. CASE class # "INTEL_CORE"
  <2>1. archi \in XeonArchs \ {"SKYLAKE_SP"} /\ t \in XeonTables /\ u \in XeonTables
    BY <1>2 DEF KnownBoxes, KindsAgree, Driven
  <2>2. XeonOffset(t) + XeonBoxes.stride * c = XeonOffset(u) + XeonBoxes.stride * d
    <3>1. /\ Address(t, c) = XeonBoxes.base + XeonOffset(t) + XeonBoxes.stride * c
          /\ Address(u, d) = XeonBoxes.base + XeonOffset(u) + XeonBoxes.stride * d
      BY <2>1 DEF Address, XeonTables
    <3>2. /\ XeonBoxes.base \in Nat /\ XeonOffset(t) \in Nat /\ XeonOffset(u) \in Nat
          /\ XeonBoxes.stride * c \in Nat /\ XeonBoxes.stride * d \in Nat
      BY <2>1, XeonLayout
    <3>3. PICK p \in Nat, q \in Nat : p = XeonBoxes.stride * c /\ q = XeonBoxes.stride * d
      BY <3>2
    <3>4. XeonBoxes.base + XeonOffset(t) + p = XeonBoxes.base + XeonOffset(u) + q
      BY <3>1, <3>3
    <3>5. XeonOffset(t) + p = XeonOffset(u) + q
      BY <3>2, <3>4
    <3>. QED
      BY <3>3, <3>5
  <2>3. CASE archi \in {"SANDY_BRIDGE", "IVY_BRIDGE"}
    <3>1. XeonBoxes.stride = 32
      BY <2>3 DEF XeonBoxes
    <3>2. XeonOffset(t) + 32 * c = XeonOffset(u) + 32 * d
      BY <2>2, <3>1
    <3>3. /\ XeonOffset(t) \in 0 .. 31 /\ XeonOffset(u) \in 0 .. 31
          /\ XeonOffset(t) = XeonOffset(u) => t = u
      BY <2>1, <2>3 DEF XeonOffset, XeonTables
    <3>. QED
      BY <3>2, <3>3
  <2>4. CASE archi \in {"HASWELL", "BROADWELL"}
    <3>1. XeonBoxes.stride = 16
      BY <2>4 DEF XeonBoxes
    <3>2. XeonOffset(t) + 16 * c = XeonOffset(u) + 16 * d
      BY <2>2, <3>1
    <3>3. /\ XeonOffset(t) \in 0 .. 15 /\ XeonOffset(u) \in 0 .. 15
          /\ XeonOffset(t) = XeonOffset(u) => t = u
      BY <2>1, <2>4 DEF XeonOffset, XeonTables
    <3>. QED
      BY <3>2, <3>3
  <2>. QED
    BY <2>1, <2>3, <2>4 DEF XeonArchs
<1>. QED
  BY <1>1, <1>2

(* None is that of the register which enables a client processor's.        *)
LEMMA GlobalApart ==
  ASSUME StartInv, class = "INTEL_CORE", phase = "measure",
         NEW t \in Driven, NEW c \in Nat, c < KnownBoxes
  PROVE  Address(t, c) # global_ctr
<1>1. KnownBoxes \in {4, 7} /\ global_ctr \in {\he01, \h391}
  BY DEF KnownBoxes, CoreBoxes, StartInv, GlobalKnown, GlobalCtr
<1>2. Address(t, c) \in {\h700 + 16 * c, \h706 + 16 * c}
  BY DEF Driven, CoreTables, Address
<1>. QED
  BY <1>1, <1>2

(***************************************************************************)
(* No two of the registers a measurement drives have one address, those of *)
(* the boxes and the one that enables the boxes of a client processor.     *)
(***************************************************************************)
THEOREM NoRegisterTwice == StartupSpec => []RegistersDistinct
<1>1. ASSUME StartInv, phase = "measure", ~clflush,
             NEW t \in Driven, NEW u \in Driven, NEW c \in Boxes, NEW d \in Boxes
      PROVE  /\ msr[t][c] = msr[u][d] => t = u /\ c = d
             /\ DrivesGlobal => msr[t][c] # global_ctr
  <2>1. /\ c \in Nat /\ c < KnownBoxes /\ msr[t][c] = Address(t, c)
        /\ d \in Nat /\ msr[u][d] = Address(u, d)
    BY <1>1, MeasuresKnownBoxes
  <2>. QED
    BY <1>1, <2>1, AddressesDistinct, GlobalApart DEF DrivesGlobal, StartInv
<1>2. StartInv => RegistersDistinct
  BY <1>1 DEF RegistersDistinct
<1>. QED
  BY <1>2, StartInvariance, PTL

-----------------------------------------------------------------------------
(*****************************************************************************)
(* The translation of addresses, for any pages, frames, offsets and number   *)
(* of descriptors.                                                           *)
(*****************************************************************************)

(* Every descriptor that is lost was lost by a failure. *)
FailuresPay == open <= failures

(* A command fails only when fewer than two descriptors are left. *)
StopsWhenStarved == exited => open >= MaxFiles - 1

(* A trusted cache agrees with the page table, whatever happened since. *)
CacheAgrees ==
  trusted => lastVirtualPage \in Pages /\ lastPhysPage = frame[lastVirtualPage]

PagingInv == PagemapTypeOK /\ FailuresPay /\ StopsWhenStarved /\ CacheAgrees

-----------------------------------------------------------------------------
(***************************************************************************)
(* A translation leaves everything of its type, and loses no more          *)
(* descriptors than it counts failures; if it counts none it answers the   *)
(* frame of the page.                                                      *)
(***************************************************************************)
LEMMA ReadPagemapEffect ==
  ASSUME PagemapTypeOK, FailuresPay,
         NEW page \in Pages, NEW offset \in Offsets,
         asked' = <<page, offset>>, ReadPagemap
  PROVE  /\ open' \in 0 .. MaxFiles
         /\ failures' \in 0 .. MaxFailures
         /\ open' <= failures'
         /\ paddr' \in (Frames \cup {0, AllOnes}) \X (Offsets \cup {4095})
         /\ failures' = failures => paddr' = <<frame[page], offset>>
<1>1. asked'[1] = page /\ asked'[2] = offset
  OBVIOUS
<1>2. CASE failures < MaxFailures /\ CannotOpen /\ failures' = failures + 1
  BY PagemapAssumption, <1>2 DEF CannotOpen, Minus1, PagemapTypeOK, FailuresPay
<1>3. CASE failures < MaxFailures /\ Leaks /\ failures' = failures + 1
  <2>1. paddr' \in {Minus1, Zero}
    BY <1>3 DEF Leaks
  <2>2. paddr' \in (Frames \cup {0, AllOnes}) \X (Offsets \cup {4095})
    BY PagemapAssumption, <2>1 DEF Minus1, Zero
  <2>3. /\ open' \in 0 .. MaxFiles /\ failures' \in 0 .. MaxFailures
        /\ open' <= failures' /\ failures' # failures
    BY PagemapAssumption, <1>3 DEF Leaks, PagemapTypeOK, FailuresPay
  <2>. QED
    BY <2>2, <2>3
<1>4. CASE Succeeds /\ UNCHANGED failures
  <2>1. frame[page] \in Frames
    BY <1>1, <1>4 DEF Succeeds, PagemapTypeOK
  <2>2. paddr' = <<frame[page], offset>>
    BY <1>1, <1>4 DEF Succeeds
  <2>. QED
    BY <1>4, <2>1, <2>2 DEF Succeeds, PagemapTypeOK, FailuresPay
<1>. QED
  BY <1>2, <1>3, <1>4 DEF ReadPagemap

(* A page is trusted when it is cached only if its translation succeeded. *)
LEMMA StoredTrusted ==
  ASSUME NEW page, Stored(page), trusted'
  PROVE  failures' = failures
<1>1. trusted' = (failures' = failures)
  BY Zenon DEF Stored
<1>. QED
  BY <1>1, Zenon

-----------------------------------------------------------------------------
LEMMA InitPagingInv == PagemapInit => PagingInv
<1>. SUFFICES ASSUME PagemapInit PROVE PagingInv
  OBVIOUS
<1>1. asked \in Pages \X Offsets /\ paddr \in {0} \X Offsets
  BY PagemapAssumption DEF PagemapInit, Zero
<1>2. PagemapTypeOK
  <2>1. paddr \in (Frames \cup {0, AllOnes}) \X (Offsets \cup {4095})
    BY <1>1
  <2>2. open \in 0 .. MaxFiles /\ failures \in 0 .. MaxFailures
    BY PagemapAssumption DEF PagemapInit
  <2>3. /\ frame \in [Pages -> Frames \cup {Absent}]
        /\ lastVirtualPage \in Pages \cup {NoPage}
        /\ lastPhysPage \in Frames \cup {0, AllOnes}
    BY DEF PagemapInit
  <2>4. exited \in BOOLEAN /\ trusted \in BOOLEAN
    <3>1. exited = FALSE /\ trusted = FALSE
      BY DEF PagemapInit
    <3>. QED
      BY ONLY <3>1
  <2>. QED
    BY <1>1, <2>1, <2>2, <2>3, <2>4 DEF PagemapTypeOK
<1>. QED
  BY PagemapAssumption, <1>2 DEF PagemapInit, PagingInv, FailuresPay, StopsWhenStarved, CacheAgrees

LEMMA NextPagingInv == PagingInv /\ [PagemapNext]_pagemapVars => PagingInv'
<1>. SUFFICES ASSUME PagingInv, [PagemapNext]_pagemapVars PROVE PagingInv'
  OBVIOUS
<1>. USE DEF PagingInv
<1>1. ASSUME NEW page \in Pages, NEW offset \in Offsets, Translate(page, offset)
      PROVE  PagingInv'
  <2>1. asked' = <<page, offset>> /\ ReadPagemap
    BY <1>1 DEF Translate
  <2>2. /\ open' \in 0 .. MaxFiles /\ failures' \in 0 .. MaxFailures
        /\ open' <= failures'
        /\ paddr' \in (Frames \cup {0, AllOnes}) \X (Offsets \cup {4095})
    BY <2>1, ReadPagemapEffect
  <2>. QED
    BY <1>1, <2>1, <2>2
    DEF Translate, PagemapTypeOK, FailuresPay, StopsWhenStarved, CacheAgrees, cache
<1>2. ASSUME NEW page \in Pages, NEW offset \in Offsets, PokeHit(page, offset)
      PROVE  PagingInv'
  BY <1>2
  DEF PokeHit, PagemapTypeOK, FailuresPay, StopsWhenStarved, CacheAgrees, cache
<1>3. ASSUME NEW page \in Pages, NEW offset \in Offsets, PokeMiss(page, offset)
      PROVE  PagingInv'
  <2>1. asked' = <<page, offset>> /\ ReadPagemap
    BY <1>3 DEF PokeMiss
  <2>2. /\ open' \in 0 .. MaxFiles /\ failures' \in 0 .. MaxFailures
        /\ open' <= failures'
        /\ paddr' \in (Frames \cup {0, AllOnes}) \X (Offsets \cup {4095})
        /\ failures' = failures => paddr' = <<frame[page], offset>>
    BY <2>1, ReadPagemapEffect
  <2>3. paddr'[1] \in Frames \cup {0, AllOnes}
    BY <2>2
  <2>4. PagemapTypeOK'
    BY <1>3, <2>1, <2>2, <2>3 DEF PokeMiss, Stored, PagemapTypeOK
  <2>5. CacheAgrees'
    <3>. SUFFICES ASSUME trusted'
                  PROVE  lastVirtualPage' \in Pages /\ lastPhysPage' = frame'[lastVirtualPage']
      BY DEF CacheAgrees
    <3>1. failures' = failures
      BY <1>3, StoredTrusted DEF PokeMiss
    <3>2. paddr' = <<frame[page], offset>>
      BY <2>2, <3>1
    <3>. QED
      BY <1>3, <3>2 DEF PokeMiss, Stored
  <2>. QED
    BY <1>3, <2>2, <2>4, <2>5 DEF PokeMiss, FailuresPay, StopsWhenStarved
<1>4. CASE RunCommand
  BY <1>4
  DEF RunCommand, PagemapTypeOK, FailuresPay, StopsWhenStarved, CacheAgrees, cache
<1>5. ASSUME NEW page \in Pages, NEW f \in Frames \cup {Absent}, PageMoves(page, f)
      PROVE  PagingInv'
  <2>1. frame' \in [Pages -> Frames \cup {Absent}] /\ trusted' \in BOOLEAN
    BY <1>5 DEF PageMoves, PagemapTypeOK
  <2>2. CacheAgrees'
    BY <1>5 DEF PageMoves, CacheAgrees, PagemapTypeOK
  <2>. QED
    BY <1>5, <2>1, <2>2 DEF PageMoves, PagemapTypeOK, FailuresPay, StopsWhenStarved
<1>6. CASE UNCHANGED pagemapVars
  BY <1>6 DEF pagemapVars, cache, PagemapTypeOK, FailuresPay, StopsWhenStarved, CacheAgrees
<1>. QED
  BY <1>1, <1>2, <1>3, <1>4, <1>5, <1>6 DEF PagemapNext

LEMMA PagingInvariance == PagemapSpec => []PagingInv
<1>1. PagemapInit => PagingInv
  BY InitPagingInv
<1>2. PagingInv /\ [PagemapNext]_pagemapVars => PagingInv'
  BY NextPagingInv
<1>. QED
  BY <1>1, <1>2, PTL DEF PagemapSpec

-----------------------------------------------------------------------------
(***************************************************************************)
(* The state of the translation, and of poke's two static variables, keeps *)
(* its type.                                                               *)
(***************************************************************************)
THEOREM PagingTypeCorrect == PagemapSpec => []PagemapTypeOK
BY PagingInvariance, PTL DEF PagingInv

(***************************************************************************)
(* The descriptors run out only after as many failures of read_pagemap as  *)
(* there were descriptors; a command, which needs two, ends the program    *)
(* only after one failure less.                                            *)
(***************************************************************************)
THEOREM Starvation == PagemapSpec => []StarvedOnlyByFailures
<1>1. PagingInv => StarvedOnlyByFailures
  BY PagemapAssumption DEF PagingInv, PagemapTypeOK, FailuresPay, StopsWhenStarved, StarvedOnlyByFailures
<1>. QED
  BY <1>1, PagingInvariance, PTL

(***************************************************************************)
(* poke answers the address of the page it was asked about as long as the  *)
(* cached page stayed where it was and had been translated successfully.   *)
(***************************************************************************)
THEOREM PokeIsTruthful == PagemapSpec => PokeTellsTheTruth
<1>. DEFINE Truth == \A page \in Pages, offset \in Offsets :
              (PokeHit(page, offset) \/ PokeMiss(page, offset)) /\ trusted' =>
                paddr' = <<frame[page], offset>>
<1>1. PagingInv => Truth
  <2>. SUFFICES ASSUME PagingInv, NEW page \in Pages, NEW offset \in Offsets, trusted',
                       PokeHit(page, offset) \/ PokeMiss(page, offset)
                PROVE  paddr' = <<frame[page], offset>>
    OBVIOUS
  <2>1. CASE PokeHit(page, offset)
    BY <2>1 DEF PokeHit, cache, PagingInv, CacheAgrees
  <2>2. CASE PokeMiss(page, offset)
    <3>1. asked' = <<page, offset>> /\ ReadPagemap
      BY <2>2 DEF PokeMiss
    <3>2. failures' = failures
      BY <2>2, StoredTrusted DEF PokeMiss
    <3>. QED
      BY <3>1, <3>2, ReadPagemapEffect DEF PagingInv
  <2>. QED
    BY <2>1, <2>2
<1>. QED
  BY <1>1, PagingInvariance, PTL DEF PokeTellsTheTruth
=============================================================================
