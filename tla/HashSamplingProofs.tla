------------------------- MODULE HashSamplingProofs -------------------------
(***************************************************************************)
(* Facts about HashSampling that the proofs of both searches use: what one *)
(* flipped address bit does to the slice, and what that makes of the       *)
(* counts w when a pair of addresses is measured.                          *)
(***************************************************************************)
EXTENDS HashSampling, FiniteSetTheorems, TLAPS

-----------------------------------------------------------------------------
(* Flipping a bit twice is flipping it not at all ...                       *)
LEMMA FlipTwice == ASSUME NEW x, NEW b PROVE Flip(Flip(x, b), b) = x
BY DEF Flip

(* ... and a flipped address is another address.                            *)
LEMMA FlipDiffers == ASSUME NEW x, NEW b PROVE Flip(x, b) # x
BY DEF Flip

(* The offset inside a page, where it does not contain the bit, can be     *)
(* added before or after the bit is flipped.                               *)
LEMMA FlipInFrame ==
  ASSUME NEW x, NEW y, NEW b, b \notin y
  PROVE  Flip(x, b) \cup y = Flip(x \cup y, b)
BY DEF Flip

(* One more or one element less changes the parity of a finite set.         *)
LEMMA ParityFlip ==
  ASSUME NEW x, IsFiniteSet(x), NEW b
  PROVE  Parity(Flip(x, b)) = 1 - Parity(x)
<1>1. Cardinality(x) \in Nat
  BY FS_CardinalityType
<1>2. CASE b \in x
  <2>1. Cardinality(Flip(x, b)) = Cardinality(x) - 1
    BY <1>2, FS_RemoveElement DEF Flip
  <2> QED BY <1>1, <2>1 DEF Parity
<1>3. CASE b \notin x
  <2>1. Cardinality(Flip(x, b)) = Cardinality(x) + 1
    BY <1>3, FS_AddElement DEF Flip
  <2> QED BY <1>1, <2>1 DEF Parity
<1> QED
  BY <1>2, <1>3

(* The hash is linear: flipping address bit b changes exactly the outputs  *)
(* whose parity b belongs to.                                              *)
LEMMA FlipChangesItsOutputs ==
  ASSUME NEW x, IsFiniteSet(x), NEW b, NEW k \in Outputs
  PROVE  (k \in SliceOf(Flip(x, b))) # (k \in SliceOf(x)) <=> b \in Mask[k]
<1>1. IsFiniteSet(x \cap Mask[k]) /\ IsFiniteSet(Flip(x, b) \cap Mask[k])
  <2>1. IsFiniteSet(Flip(x, b))
    BY FS_AddElement, FS_RemoveElement DEF Flip
  <2> QED BY <2>1, FS_Subset
<1>2. Parity(x \cap Mask[k]) \in {0, 1}
  <2>1. Cardinality(x \cap Mask[k]) \in Nat
    BY <1>1, FS_CardinalityType
  <2> QED BY <2>1 DEF Parity
<1>3. CASE b \in Mask[k]
  <2>1. Flip(x, b) \cap Mask[k] = Flip(x \cap Mask[k], b)
    BY <1>3 DEF Flip
  <2>2. Parity(Flip(x, b) \cap Mask[k]) = 1 - Parity(x \cap Mask[k])
    BY <1>1, <2>1, ParityFlip
  <2> QED BY <1>2, <1>3, <2>2 DEF SliceOf
<1>4. CASE b \notin Mask[k]
  <2>1. Flip(x, b) \cap Mask[k] = x \cap Mask[k]
    BY <1>4 DEF Flip
  <2> QED BY <1>4, <2>1 DEF SliceOf
<1> QED
  BY <1>3, <1>4

-----------------------------------------------------------------------------
(* The counts of bit b after n samples of pairs that differ in b alone:    *)
(* every right sample counts for the outputs b belongs to, only wrong ones *)
(* count for the others.                                                   *)
CountsFit(b, n) ==
  \A k \in Outputs :
    IF b \in Mask[k] THEN w[k][b] >= n - errs[b] ELSE w[k][b] <= errs[b]

(* The counts of a bit that was sampled with pairs of equal addresses.      *)
OnlyErrors(b) == \A k \in Outputs : w[k][b] <= errs[b]

(* A bit that no sample was ever taken of.                                  *)
Untouched(b) == errs[b] = 0 /\ \A k \in Outputs : w[k][b] = 0

(* Samples of bit b that have been taken. *)
SamplesOf(b) ==
  IF b < bit THEN ADDR_PER_BIT
             ELSE IF b = bit /\ phase \in {"low", "sample"} THEN j ELSE 0

(* A sample touches the counts of the tested bit only, and keeps the types. *)
LEMMA CompareEffect ==
  ASSUME SamplingTypeOK, bit \in WBits, NEW a1, NEW a2, NEW s1, NEW s2,
         Compare(a1, a2, s1, s2)
  PROVE  /\ w' \in [Outputs -> [WBits -> Nat]]
         /\ errs' \in [WBits -> Nat]
         /\ faults' \in 0 .. MaxErr
         /\ \A b \in WBits \ {bit} :
              errs'[b] = errs[b] /\ \A k \in Outputs : w'[k][b] = w[k][b]
         /\ \A k \in Outputs :
              w'[k][bit] = IF (k \in s1) # (k \in s2) THEN w[k][bit] + 1
                                                      ELSE w[k][bit]
         /\ errs'[bit] = IF s1 = SliceOf(a1) /\ s2 = SliceOf(a2)
                         THEN errs[bit] ELSE errs[bit] + 1
<1> USE SamplingAssumption DEF SamplingTypeOK
<1>1. /\ w' \in [Outputs -> [WBits -> Nat]]
      /\ \A b \in WBits \ {bit} : \A k \in Outputs : w'[k][b] = w[k][b]
      /\ \A k \in Outputs :
           w'[k][bit] = IF (k \in s1) # (k \in s2) THEN w[k][bit] + 1
                                                   ELSE w[k][bit]
  <2>1. w' = [k \in Outputs |->
               IF (k \in s1) # (k \in s2) THEN [w[k] EXCEPT ![bit] = @ + 1]
                                          ELSE w[k]]
    BY DEF Compare
  <2>2. ASSUME NEW k \in Outputs
        PROVE  /\ w'[k] \in [WBits -> Nat]
               /\ \A b \in WBits \ {bit} : w'[k][b] = w[k][b]
               /\ w'[k][bit] = IF (k \in s1) # (k \in s2) THEN w[k][bit] + 1
                                                         ELSE w[k][bit]
    <3>1. w[k] \in [WBits -> Nat]
      OBVIOUS
    <3>2. CASE (k \in s1) # (k \in s2)
      <4>1. w'[k] = [w[k] EXCEPT ![bit] = @ + 1]
        BY <2>1, <3>2
      <4> QED BY <3>1, <3>2, <4>1
    <3>3. CASE ~ ((k \in s1) # (k \in s2))
      <4>1. w'[k] = w[k]
        BY <2>1, <3>3
      <4> QED BY <3>1, <3>3, <4>1
    <3> QED BY <3>2, <3>3
  <2>3. w' \in [Outputs -> [WBits -> Nat]]
    BY <2>1, <2>2
  <2> QED BY <2>2, <2>3
<1>2. /\ errs' \in [WBits -> Nat]
      /\ faults' \in 0 .. MaxErr
      /\ \A b \in WBits \ {bit} : errs'[b] = errs[b]
      /\ errs'[bit] = IF s1 = SliceOf(a1) /\ s2 = SliceOf(a2)
                      THEN errs[bit] ELSE errs[bit] + 1
  BY DEF Compare
<1> QED
  BY <1>1, <1>2

(* Of a pair that differs in the tested bit alone.                          *)
LEMMA CompareFlipped ==
  ASSUME SamplingTypeOK, bit \in WBits, NEW b, b = bit,
         NEW a1, NEW a2, IsFiniteSet(a2), a1 = Flip(a2, b),
         NEW s1, NEW s2, Compare(a1, a2, s1, s2),
         NEW n \in Nat, CountsFit(b, n), NEW m, m = n + 1
  PROVE  CountsFit(b, m)'
<1> SUFFICES ASSUME NEW k \in Outputs
             PROVE  IF b \in Mask[k] THEN w'[k][b] >= m - errs'[b]
                                     ELSE w'[k][b] <= errs'[b]
  BY DEF CountsFit
<1>1. /\ w[k][b] \in Nat /\ errs[b] \in Nat
      /\ IF b \in Mask[k] THEN w[k][b] >= n - errs[b] ELSE w[k][b] <= errs[b]
  BY DEF SamplingTypeOK, CountsFit
<1>2. /\ w'[k][b] = IF (k \in s1) # (k \in s2) THEN w[k][b] + 1 ELSE w[k][b]
      /\ errs'[b] = IF s1 = SliceOf(a1) /\ s2 = SliceOf(a2)
                    THEN errs[b] ELSE errs[b] + 1
  BY CompareEffect
<1>3. (k \in SliceOf(a1)) # (k \in SliceOf(a2)) <=> b \in Mask[k]
  BY FlipChangesItsOutputs
<1>4. CASE s1 = SliceOf(a1) /\ s2 = SliceOf(a2)
  <2>1. /\ w'[k][b] = IF b \in Mask[k] THEN w[k][b] + 1 ELSE w[k][b]
        /\ errs'[b] = errs[b]
    BY <1>2, <1>3, <1>4
  <2> QED BY <1>1, <2>1
<1>5. CASE ~ (s1 = SliceOf(a1) /\ s2 = SliceOf(a2))
  <2>1. errs'[b] = errs[b] + 1 /\ (w'[k][b] = w[k][b] \/ w'[k][b] = w[k][b] + 1)
    BY <1>2, <1>5
  <2> QED BY <1>1, <2>1
<1> QED
  BY <1>4, <1>5

(* Of twice the same address. *)
LEMMA CompareSame ==
  ASSUME SamplingTypeOK, bit \in WBits, NEW b, b = bit, NEW a,
         NEW s1, NEW s2, Compare(a, a, s1, s2), OnlyErrors(b)
  PROVE  OnlyErrors(b)'
<1> SUFFICES ASSUME NEW k \in Outputs
             PROVE  w'[k][b] <= errs'[b]
  BY DEF OnlyErrors
<1>1. w[k][b] \in Nat /\ errs[b] \in Nat /\ w[k][b] <= errs[b]
  BY DEF SamplingTypeOK, OnlyErrors
<1>2. /\ w'[k][b] = IF (k \in s1) # (k \in s2) THEN w[k][b] + 1 ELSE w[k][b]
      /\ errs'[b] = IF s1 = SliceOf(a) /\ s2 = SliceOf(a)
                    THEN errs[b] ELSE errs[b] + 1
  BY CompareEffect
<1>3. CASE s1 = SliceOf(a) /\ s2 = SliceOf(a)
  BY <1>1, <1>2, <1>3
<1>4. CASE ~ (s1 = SliceOf(a) /\ s2 = SliceOf(a))
  <2>1. errs'[b] = errs[b] + 1 /\ (w'[k][b] = w[k][b] \/ w'[k][b] = w[k][b] + 1)
    BY <1>2, <1>4
  <2> QED BY <1>1, <2>1
<1> QED
  BY <1>3, <1>4

(* Where the sampling loop goes: on to the next sample or the next bit.    *)
LEMMA NextSampleEffect ==
  ASSUME j \in 0 .. ADDR_PER_BIT - 1, NEW again, NEW nextbit, NEW after,
         NEW last, NextSample(again, nextbit, after, last)
  PROVE  \/ /\ phase' = again /\ bit' = bit
            /\ j' = j + 1 /\ j' \in 0 .. ADDR_PER_BIT - 1
         \/ /\ j + 1 = ADDR_PER_BIT /\ j' = 0 /\ bit' = bit + 1
            /\ \/ bit < last /\ phase' = nextbit
               \/ ~ (bit < last) /\ phase' = after
BY SamplingAssumption DEF NextSample

(* A sample of the tested bit has been taken, and of no other.              *)
LEMMA OneSampleMore ==
  ASSUME j \in 0 .. ADDR_PER_BIT - 1, bit \in WBits, phase \in {"low", "sample"},
         NEW again \in {"low", "sample"}, NEW nextbit, NEW after, NEW last,
         NextSample(again, nextbit, after, last), NEW b \in WBits
  PROVE  SamplesOf(b)' = IF b = bit THEN SamplesOf(b) + 1 ELSE SamplesOf(b)
<1>1. bit \in Int /\ b \in Int /\ j \in Nat /\ ADDR_PER_BIT \in Nat
  BY SamplingAssumption DEF WBits
<1>2. CASE phase' = again /\ bit' = bit /\ j' = j + 1
  BY <1>1, <1>2 DEF SamplesOf
<1>3. CASE j + 1 = ADDR_PER_BIT /\ j' = 0 /\ bit' = bit + 1
  BY <1>1, <1>3 DEF SamplesOf
<1> QED
  BY <1>2, <1>3, NextSampleEffect

(* What one turn of a sampling loop makes of the counts: those of the      *)
(* other bits stay; those of the tested bit go on fitting the hash, if the *)
(* pair differs in that bit alone, and go on counting wrong samples only,  *)
(* if the two addresses are the same.                                      *)
LEMMA SampleTaken ==
  ASSUME SamplingTypeOK, j \in 0 .. ADDR_PER_BIT - 1, bit \in WBits,
         phase \in {"low", "sample"}, NEW a1, NEW a2, NEW s1, NEW s2,
         Compare(a1, a2, s1, s2),
         NEW again \in {"low", "sample"}, NEW nextbit, NEW after, NEW last,
         NextSample(again, nextbit, after, last), NEW b \in WBits
  PROVE  /\ b # bit =>
              /\ SamplesOf(b)' = SamplesOf(b)
              /\ Untouched(b)' <=> Untouched(b)
              /\ OnlyErrors(b)' <=> OnlyErrors(b)
              /\ CountsFit(b, SamplesOf(b))' <=> CountsFit(b, SamplesOf(b))
         /\ b = bit =>
              /\ SamplesOf(b)' # 0
              /\ a1 = a2 /\ OnlyErrors(b) => OnlyErrors(b)'
              /\ /\ IsFiniteSet(a2) /\ a1 = Flip(a2, b)
                 /\ CountsFit(b, SamplesOf(b))
                 => CountsFit(b, SamplesOf(b))'
<1>1. ASSUME b # bit
      PROVE  /\ SamplesOf(b)' = SamplesOf(b)
             /\ errs'[b] = errs[b] /\ \A k \in Outputs : w'[k][b] = w[k][b]
  <2>1. SamplesOf(b)' = SamplesOf(b)
    BY <1>1, OneSampleMore
  <2> QED BY <1>1, <2>1, CompareEffect
<1>2. ASSUME b # bit
      PROVE  /\ Untouched(b)' <=> Untouched(b)
             /\ OnlyErrors(b)' <=> OnlyErrors(b)
             /\ CountsFit(b, SamplesOf(b))' <=> CountsFit(b, SamplesOf(b))
  BY <1>1, <1>2 DEF Untouched, OnlyErrors, CountsFit
<1>3. ASSUME b = bit
      PROVE  SamplesOf(b) \in Nat /\ SamplesOf(b)' = SamplesOf(b) + 1
  <2>1. SamplesOf(b) = j
    BY <1>3 DEF SamplesOf, WBits
  <2> QED BY <1>3, <2>1, OneSampleMore
<1>4. ASSUME b = bit, a1 = a2, OnlyErrors(b)
      PROVE  OnlyErrors(b)'
  BY <1>4, CompareSame
<1>5. ASSUME b = bit, IsFiniteSet(a2), a1 = Flip(a2, b),
             CountsFit(b, SamplesOf(b))
      PROVE  CountsFit(b, SamplesOf(b))'
  <2>1. ASSUME NEW n \in Nat, CountsFit(b, n), NEW m, m = n + 1
        PROVE  CountsFit(b, m)'
    BY <1>5, <2>1, CompareFlipped
  <2> QED BY <1>3, <1>5, <2>1 DEF CountsFit
<1> QED
  BY <1>1, <1>2, <1>3, <1>4, <1>5

(* A turn of a sampling loop keeps the types of what it changes.            *)
LEMMA SampleKeepsTypes ==
  ASSUME SamplingTypeOK, j \in 0 .. ADDR_PER_BIT - 1, bit \in WBits,
         NEW a1, NEW a2, NEW s1, NEW s2, Compare(a1, a2, s1, s2),
         NEW again, NEW nextbit, NEW after, NEW last,
         NextSample(again, nextbit, after, last), UNCHANGED <<report, untested>>
  PROVE  SamplingTypeOK'
<1>1. /\ w' \in [Outputs -> [WBits -> Nat]]
      /\ errs' \in [WBits -> Nat]
      /\ faults' \in 0 .. MaxErr
  BY CompareEffect
<1>2. j' \in Nat
  BY NextSampleEffect
<1> QED
  BY <1>1, <1>2 DEF SamplingTypeOK

(* The loops over samples only reach lines inside a page.                   *)
LEMMA SubsetOfRangeIsFinite ==
  ASSUME NEW n \in Int, NEW y \in SUBSET (0 .. n) PROVE IsFiniteSet(y)
<1>1. IsFiniteSet(0 .. n)
  BY FS_Interval
<1> QED
  BY <1>1, FS_Subset

(* A bit of which all samples were taken and that was measured well enough *)
(* exceeds THRESHOLD for exactly the outputs it belongs to.                *)
LEMMA ThresholdSeparates ==
  ASSUME SamplingTypeOK, NEW b \in WBits, CountsFit(b, ADDR_PER_BIT),
         WellMeasured(b), NEW k \in Outputs
  PROVE  w[k][b] > THRESHOLD <=> b \in Mask[k]
<1>1. /\ w[k][b] \in Nat /\ errs[b] \in Nat
      /\ ADDR_PER_BIT \in Nat /\ THRESHOLD \in Nat
  BY SamplingAssumption DEF SamplingTypeOK
<1>2. IF b \in Mask[k] THEN w[k][b] >= ADDR_PER_BIT - errs[b]
                       ELSE w[k][b] <= errs[b]
  BY DEF CountsFit
<1> QED
  BY <1>1, <1>2 DEF WellMeasured
=============================================================================
