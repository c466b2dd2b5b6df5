---------------------------- MODULE HashSampling ----------------------------
(***************************************************************************)
(* What the searches of reverse.c, reverse_generic and reverse_xeon, have  *)
(* in common: addresses and the hash, the loop that measures a pair of     *)
(* addresses ADDR_PER_BIT times and counts the outputs that differ, and    *)
(* the report of what differed more than THRESHOLD times.                  *)
(*                                                                         *)
(* An address is the SET of its one bits, so "x ^ (1 << b)" is Flip(x, b); *)
(* a slice number is the set of its one bits too.  The hash is linear, as  *)
(* the program supposes: bit k of the slice of an address is the parity of *)
(* the address bits in Mask[k].                                            *)
(***************************************************************************)
EXTENDS Integers, FiniteSets

CONSTANTS
  LineShift,    \* log2 of a cache line: 6
  ADDR_PER_BIT, \* samples per address bit: 500, in reverse_xeon 100
  THRESHOLD,    \* differences above which a bit is reported: 200, or 10
  Columns,      \* address bits for which w has room: 40, or 29
  NBits,        \* nbits: output bits of the hash
  Mask,         \* for each output bit, the address bits it is the parity of
  MaxErr        \* BOUND: samples of a run that are measured wrongly

Outputs == 0 .. NBits - 1
WBits == LineShift .. LineShift + Columns - 1

Flip(x, b) == IF b \in x THEN x \ {b} ELSE x \cup {b}
Parity(x) == Cardinality(x) % 2
SliceOf(x) == {k \in Outputs : Parity(x \cap Mask[k]) = 1}

(* The one bits of a small number; j << 6, the address of line j. *)
BitsOf(n) == {b \in 0 .. n : (n \div 2^b) % 2 = 1}
LineOffset(n) == {b + LineShift : b \in BitsOf(n)}

ASSUME SamplingAssumption ==
  /\ LineShift \in Nat \ {0}
  /\ ADDR_PER_BIT \in Nat \ {0} /\ THRESHOLD \in Nat
  /\ Columns \in Nat /\ NBits \in Nat /\ MaxErr \in Nat
  /\ \A k \in Outputs : \A b \in Mask[k] : b \in Nat

VARIABLES
  phase,   \* the part of the function that is running
  bit,     \* the address bit being tested
  j,       \* the inner loop index: sample, or page being recorded
  w,       \* w[k][b]: how often output k differed for address bit b
  report,  \* what is printed: the address bits of each output
  untested,\* bits for which "Not able to test bit" was printed
  \* history
  errs,    \* errs[b]: samples of bit b with a wrong measurement
  faults   \* wrong samples so far, all bits together

sampling == <<bit, j, w, errs, faults>>

SamplingTypeOK ==
  /\ j \in Nat
  /\ w \in [Outputs -> [WBits -> Nat]]
  /\ report \in [Outputs -> SUBSET WBits]
  /\ untested \in SUBSET WBits
  /\ errs \in [WBits -> Nat]
  /\ faults \in 0 .. MaxErr

SamplingInit ==
  /\ phase = "start"
  /\ bit = LineShift
  /\ j = 0
  /\ w = [k \in Outputs |-> [b \in WBits |-> 0]]
  /\ report = [k \in Outputs |-> {}]
  /\ untested = {}
  /\ errs = [b \in WBits |-> 0]
  /\ faults = 0

(* Two measurements and the comparison of their bits: the body of every    *)
(* sampling loop.  s1 and s2 are what the measurements answered for the    *)
(* addresses a1 and a2.                                                    *)
Compare(a1, a2, s1, s2) ==
  /\ w' = [k \in Outputs |->
             IF (k \in s1) # (k \in s2) THEN [w[k] EXCEPT ![bit] = @ + 1]
                                        ELSE w[k]]
  /\ IF s1 = SliceOf(a1) /\ s2 = SliceOf(a2)
     THEN UNCHANGED <<errs, faults>>
     ELSE /\ faults < MaxErr
          /\ faults' = faults + 1
          /\ errs' = [errs EXCEPT ![bit] = @ + 1]

(* A faulty variant, for checking the properties: the loop over the bits   *)
(* runs once too often.                                                    *)
NextSampleOneBitMore(again, nextbit, after, last) ==
  IF j + 1 < ADDR_PER_BIT
  THEN phase' = again /\ j' = j + 1 /\ bit' = bit
  ELSE /\ j' = 0
       /\ bit' = bit + 1
       /\ phase' = IF bit <= last THEN nextbit ELSE after

(* Back to the head of the sampling loop, or on to the next address bit.   *)
NextSample(again, nextbit, after, last) ==
  IF j + 1 < ADDR_PER_BIT
  THEN phase' = again /\ j' = j + 1 /\ bit' = bit
  ELSE /\ j' = 0
       /\ bit' = bit + 1
       /\ phase' = IF bit < last THEN nextbit ELSE after

(* A faulty variant: ">=" for ">". *)
ReportedAtThreshold(bits) ==
  [k \in Outputs |-> {b \in bits : w[k][b] >= THRESHOLD}]

(* What is printed when the columns of these bits are looked at.           *)
Reported(bits) ==
  [k \in Outputs |-> {b \in bits : w[k][b] > THRESHOLD}]

(* Bit b is printed for exactly the outputs it belongs to. *)
Retrieved(b) == \A k \in Outputs : b \in report[k] <=> b \in Mask[k]

(* Bit b was measured well enough: no more than THRESHOLD samples wrong,   *)
(* more than THRESHOLD right.                                              *)
WellMeasured(b) ==
  errs[b] <= THRESHOLD /\ ADDR_PER_BIT - errs[b] > THRESHOLD

Ended == phase \in {"done", "exited"}
=============================================================================
