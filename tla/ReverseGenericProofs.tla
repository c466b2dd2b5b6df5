------------------------ MODULE ReverseGenericProofs ------------------------
(***************************************************************************)
(* Proofs about ReverseGeneric, for any pool of pages, any hash, any width *)
(* of the frame mask, any number of samples and any threshold, with wrong  *)
(* measurements, failing translations and frames beyond rev_map: what the  *)
(* search prints and what it leaves out.                                   *)
(***************************************************************************)
EXTENDS ReverseGeneric, HashSamplingProofs

(* The bits, samples and pages each part of the function deals with. *)
LoopsInRange ==
  /\ phase = "start" => bit = LineShift
  /\ phase = "low" => bit \in LineShift .. PageShift - 1
  /\ phase \in {"count", "map", "record"} => bit = PageShift
  /\ phase \in {"pair", "sample"} => bit \in PageShift .. bit_max
  /\ phase \in {"report", "done"} => bit = bit_max + 1
  /\ phase \in {"low", "sample"} => j \in 0 .. ADDR_PER_BIT - 1
  /\ phase = "record" => j \in 0 .. hugepages_free - 1
  /\ phase \notin {"low", "sample", "record", "exited"} => j = 0

(* The pool has as many pages as were counted, and is there before it is   *)
(* searched.                                                               *)
PoolMapped ==
  /\ phase \in {"record", "pair", "sample", "report", "done"} \/ untested # {}
       => frame \in Layouts /\ DOMAIN frame = 0 .. hugepages_free - 1
  /\ phase \in {"start", "low", "count", "map"} => untested = {}

(* A bit is given up when its turn comes, and its turn is then over. *)
GivenUp == \A b \in untested : b \in PageShift .. bit_max /\ b < bit

(* Pages whose frame has been recorded. *)
Recorded(p) == phase = "record" => p < j

(* rev_map is an inverse of the page table as far as it has been filled:   *)
(* its entries are pages; those whose translation did not fail, pages with *)
(* the frame number of the entry; and unless a page was written beyond its *)
(* end, every page translated and recorded has left an entry.              *)
RevMapInverts ==
  phase \in {"record", "pair", "sample"} =>
    /\ \A x \in Ppns : rev_map[x] # NoPage => rev_map[x] \in DOMAIN frame
    /\ \A x \in Ppns : rev_map[x] # NoPage /\ rev_map[x] \notin lost =>
         Ppn(frame[rev_map[x]]) = x
    /\ ~ overrun => \A p \in DOMAIN frame \ lost : Recorded(p) =>
         Ppn(frame[p]) \in Ppns /\ rev_map[Ppn(frame[p])] # NoPage

PairInPool ==
  phase = "sample" =>
    /\ pair \in Nat \X Nat
    /\ pair[1] \in DOMAIN frame /\ pair[2] \in DOMAIN frame

(* The pairs a bit is tested with differ in it alone: always in the first  *)
(* page, else if the translations succeeded and the mask was long enough.  *)
PairedExactly(b) == b < PageShift \/ (lost = {} /\ SameHighBits)

(* What w holds for every bit: nothing before its turn and nothing if it   *)
(* was given up; what the hash says, but for the wrong samples, if it was  *)
(* tested.                                                                 *)
Sampled ==
  phase # "exited" => \A b \in WBits :
    /\ SamplesOf(b) = 0 => Untouched(b)
    /\ b \in untested => Untouched(b)
    /\ b \notin untested /\ PairedExactly(b) => CountsFit(b, SamplesOf(b))

ReportedFromCounts ==
  phase = "done" => report = Reported(LineShift .. LineShift + bit_max - 1)

IInv ==
  /\ TypeOK
  /\ LoopsInRange
  /\ PoolMapped
  /\ GivenUp
  /\ RevMapInverts
  /\ PairInPool
  /\ Sampled
  /\ ReportedFromCounts
  /\ PairsDifferInOneBit
  /\ UntestedOnlyWithoutPair
-----------------------------------------------------------------------------
(* Every bit that is ever tested has a column in w. *)
LEMMA Constants ==
  /\ LineShift \in Nat \ {0} /\ PageShift \in Nat /\ LineShift < PageShift
  /\ Columns \in Nat /\ PageShift <= Columns
  /\ \A b \in LineShift .. Columns : b \in WBits
  /\ WBits = LineShift .. LineShift + Columns - 1
BY SamplingAssumption, ReverseAssumption DEF WBits

LEMMA TestedBitIsColumn ==
  ASSUME TypeOK, LoopsInRange, phase \in {"low", "sample"}
  PROVE  bit \in WBits /\ j \in 0 .. ADDR_PER_BIT - 1
<1>1. bit \in LineShift .. Columns
  BY Constants DEF TypeOK, LoopsInRange
<1> QED
  BY <1>1, Constants DEF LoopsInRange

(* Frames are finite sets of bits above those of an offset. *)
LEMMA FrameBits ==
  ASSUME NEW x, IsFrame(x)
  PROVE  IsFiniteSet(x) /\ \A b \in x : b \in Nat /\ b >= PageShift
BY DEF IsFrame

LEMMA FramesOfPool ==
  ASSUME NEW m \in Layouts, NEW p \in DOMAIN m
  PROVE  IsFrame(m[p])
BY ReverseAssumption

LEMMA OffsetsAreFinite ==
  ASSUME NEW n \in 0 .. ADDR_PER_BIT - 1
  PROVE  /\ IsFiniteSet(LineOffset(n)) /\ IsFiniteSet(ByteOffset(n))
         /\ \A b \in ByteOffset(n) : b < PageShift
<1>1. LineOffset(n) \in SUBSET (0 .. n + LineShift) /\ n + LineShift \in Int
  BY Constants DEF LineOffset, BitsOf
<1>2. ByteOffset(n) \in SUBSET (0 .. PageShift - 1) /\ PageShift - 1 \in Int
  BY Constants, ReverseAssumption
<1>3. IsFiniteSet(LineOffset(n))
  BY <1>1, SubsetOfRangeIsFinite
<1>4. IsFiniteSet(ByteOffset(n))
  BY <1>2, SubsetOfRangeIsFinite
<1>5. \A b \in ByteOffset(n) : b < PageShift
  BY <1>2, Constants
<1> QED
  BY <1>3, <1>4, <1>5

(* The two addresses of a low sample differ in the tested bit. *)
LEMMA LowPair ==
  ASSUME TypeOK, LoopsInRange, phase = "low"
  PROVE  /\ IsFiniteSet(low \cup Flip(LineOffset(j), bit))
         /\ low \cup LineOffset(j)
              = Flip(low \cup Flip(LineOffset(j), bit), bit)
<1>1. j \in 0 .. ADDR_PER_BIT - 1 /\ bit \in LineShift .. PageShift - 1
  BY DEF LoopsInRange
<1>2. IsFrame(low)
  BY ReverseAssumption DEF TypeOK
<1>3. IsFiniteSet(low) /\ bit \notin low
  BY <1>1, <1>2, FrameBits, Constants
<1>4. IsFiniteSet(Flip(LineOffset(j), bit))
  BY <1>1, OffsetsAreFinite, FS_AddElement, FS_RemoveElement DEF Flip
<1>5. IsFiniteSet(low \cup Flip(LineOffset(j), bit))
  BY <1>3, <1>4, FS_Union
<1>6. low \cup LineOffset(j) = Flip(low \cup Flip(LineOffset(j), bit), bit)
  BY <1>3 DEF Flip
<1> QED
  BY <1>5, <1>6

(* The two addresses of a high sample, if their pages differ in the tested *)
(* bit alone, do so too.                                                   *)
LEMMA HighPair ==
  ASSUME TypeOK, LoopsInRange, PoolMapped, PairInPool, phase = "sample"
  PROVE  /\ IsFiniteSet(frame[pair[2]] \cup ByteOffset(j))
         /\ frame[pair[1]] = Flip(frame[pair[2]], bit) =>
              frame[pair[1]] \cup ByteOffset(j)
                = Flip(frame[pair[2]] \cup ByteOffset(j), bit)
<1>1. j \in 0 .. ADDR_PER_BIT - 1 /\ bit \in PageShift .. bit_max
  BY DEF LoopsInRange
<1>2. IsFrame(frame[pair[2]])
  BY FramesOfPool DEF PoolMapped, PairInPool
<1>3. IsFiniteSet(frame[pair[2]] \cup ByteOffset(j))
  BY <1>1, <1>2, FrameBits, OffsetsAreFinite, FS_Union
<1>4. bit \notin ByteOffset(j)
  <2>1. bit \in Int /\ PageShift \in Int /\ ~ (bit < PageShift)
    BY <1>1, Constants DEF TypeOK
  <2> QED BY <1>1, <2>1, OffsetsAreFinite
<1> QED
  BY <1>3, <1>4, FlipInFrame

(* The mask keeps the tested bit, so that masking and flipping commute ... *)
LEMMA PpnFlip ==
  ASSUME NEW x, NEW b \in PageShift .. bit_max
  PROVE  Ppn(Flip(x, b)) = Flip(Ppn(x), b)
<1>1. CASE Truncates
  BY <1>1 DEF Ppn, Flip
<1>2. CASE ~ Truncates
  BY <1>2 DEF Ppn
<1> QED
  BY <1>1, <1>2

(* ... and so that rev_map has an entry for the partner of each entry.      *)
LEMMA FlipInsideRevMap ==
  ASSUME TypeOK, NEW x \in Ppns, NEW b \in PageShift .. bit_max
  PROVE  Flip(x, b) \in Ppns
<1>1. b \in PpnBits
  BY Constants DEF TypeOK, PpnBits
<1> QED
  BY <1>1 DEF Ppns, Flip

(* Frame numbers that differ in one bit belong to frames that agree in the *)
(* other bits the mask is to keep, ...                                     *)
LEMMA PpnAgrees ==
  ASSUME NEW x, NEW y, NEW b, Ppn(x) = Flip(Ppn(y), b)
  PROVE  x \cap (PageShift .. bit_max) = Flip(y, b) \cap (PageShift .. bit_max)
<1>1. CASE Truncates
  BY <1>1 DEF Ppn, Flip
<1>2. CASE ~ Truncates
  BY <1>2 DEF Ppn
<1> QED
  BY <1>1, <1>2

(* ... and where the bits above the mask do not differ, to frames that     *)
(* agree in all other bits.                                                *)
LEMMA PpnDetermines ==
  ASSUME SameHighBits, NEW p \in DOMAIN frame, NEW q \in DOMAIN frame,
         NEW b \in PageShift .. bit_max,
         Ppn(frame[p]) = Flip(Ppn(frame[q]), b)
  PROVE  frame[p] = Flip(frame[q], b)
<1>1. CASE Truncates
  <2>1. frame[p] \ (PageShift .. bit_max) = frame[q] \ (PageShift .. bit_max)
    BY <1>1 DEF SameHighBits
  <2>2. frame[p] \cap (PageShift .. bit_max)
          = Flip(frame[q] \cap (PageShift .. bit_max), b)
    BY <1>1 DEF Ppn
  <2> QED BY <2>1, <2>2 DEF Flip
<1>2. CASE ~ Truncates
  BY <1>2 DEF Ppn
<1> QED
  BY <1>1, <1>2

(* A sample, of either loop, keeps what w is known to hold.                *)
LEMMA SampleKeepsCounts ==
  ASSUME TypeOK, Sampled, LoopsInRange, GivenUp, phase \in {"low", "sample"},
         NEW a1, NEW a2, NEW s1, NEW s2, Compare(a1, a2, s1, s2),
         NEW again \in {"low", "sample"}, NEW nextbit, NEW after, NEW last,
         NextSample(again, nextbit, after, last),
         UNCHANGED <<untested, lost, frame, bit_max>>, IsFiniteSet(a2),
         PairedExactly(bit) => a1 = Flip(a2, bit)
  PROVE  Sampled'
<1> SUFFICES ASSUME NEW b \in WBits
             PROVE  /\ SamplesOf(b)' = 0 => Untouched(b)'
                    /\ b \in untested => Untouched(b)'
                    /\ b \notin untested /\ PairedExactly(b) =>
                         CountsFit(b, SamplesOf(b))'
  BY DEF Sampled, PairedExactly, SameHighBits, Truncates, MaskedBits
<1>1. /\ SamplesOf(b) = 0 => Untouched(b)
      /\ b \in untested => Untouched(b)
      /\ b \notin untested /\ PairedExactly(b) => CountsFit(b, SamplesOf(b))
  BY DEF Sampled
<1>2. /\ b # bit =>
           /\ SamplesOf(b)' = SamplesOf(b)
           /\ Untouched(b)' <=> Untouched(b)
           /\ CountsFit(b, SamplesOf(b))' <=> CountsFit(b, SamplesOf(b))
      /\ b = bit =>
           /\ SamplesOf(b)' # 0
           /\ /\ IsFiniteSet(a2) /\ a1 = Flip(a2, b)
              /\ CountsFit(b, SamplesOf(b))
              => CountsFit(b, SamplesOf(b))'
  BY TestedBitIsColumn, SampleTaken DEF TypeOK
<1>3. bit \in WBits /\ bit \notin untested
  BY TestedBitIsColumn, Constants DEF GivenUp, TypeOK
<1> QED
  BY <1>1, <1>2, <1>3

(* Outside the sampling loops nothing is counted, and a translation that   *)
(* fails leaves less to be claimed.                                        *)
LEMMA NotSampling ==
  ASSUME LoopsInRange, Sampled, phase \notin {"low", "sample", "exited"},
         UNCHANGED <<bit, w, errs, untested, frame, bit_max>>,
         lost \subseteq lost', phase' \in {"low", "sample"} => j' = 0
  PROVE  Sampled'
<1>1. \A b \in WBits : SamplesOf(b)' = SamplesOf(b)
  BY DEF SamplesOf, LoopsInRange
<1>2. \A b \in WBits : PairedExactly(b)' => PairedExactly(b)
  BY DEF PairedExactly, SameHighBits, Truncates, MaskedBits
<1> QED
  BY <1>1, <1>2 DEF Sampled, Untouched, CountsFit

(* A bit without samples fits any hash. *)
LEMMA UntouchedFits ==
  ASSUME NEW b, Untouched(b), SamplesOf(b) = 0
  PROVE  CountsFit(b, SamplesOf(b))
BY DEF Untouched, CountsFit

(* Where the mask and rev_map stay what they are, so do frame numbers.     *)
LEMMA SameMask ==
  ASSUME bit_max' = bit_max
  PROVE  /\ PpnBits' = PpnBits /\ Ppns' = Ppns
         /\ (Truncates' <=> Truncates)
         /\ \A x : Ppn(x)' = Ppn(x)
BY DEF PpnBits, Ppns, Truncates, MaskedBits, Ppn

LEMMA SamePool ==
  ASSUME UNCHANGED <<frame, bit_max>>
  PROVE  SameHighBits' <=> SameHighBits
BY DEF SameHighBits, Truncates, MaskedBits

-----------------------------------------------------------------------------
(* The invariant holds when the function starts.                           *)
THEOREM InitIInv == Init => IInv
<1> SUFFICES ASSUME Init PROVE IInv
  OBVIOUS
<1> USE DEF Init, SamplingInit
<1>1. TypeOK
  <2>1. SamplingTypeOK
    BY SamplingAssumption DEF SamplingTypeOK
  <2>2. rev_map \in [Ppns -> {NoPage} \cup Nat]
    BY DEF NoRevMap, Ppns, PpnBits
  <2>3. bit \in LineShift .. bit_max + 1 /\ bit_max \in PageShift .. Columns
    BY Constants
  <2>4. pair \in {<<>>} \cup (Nat \X Nat) /\ frame \in Layouts \cup {<<>>}
    OBVIOUS
  <2> QED BY <2>1, <2>2, <2>3, <2>4 DEF TypeOK, Phases
<1>2. LoopsInRange /\ PoolMapped /\ GivenUp /\ RevMapInverts /\ PairInPool
  BY DEF LoopsInRange, PoolMapped, GivenUp, RevMapInverts, PairInPool
<1>3. Sampled
  <2> SUFFICES ASSUME NEW b \in WBits
               PROVE  Untouched(b) /\ CountsFit(b, SamplesOf(b))
    BY DEF Sampled
  <2>1. SamplesOf(b) = 0
    BY Constants DEF SamplesOf
  <2> QED BY <2>1 DEF Untouched, CountsFit
<1>4. ReportedFromCounts /\ PairsDifferInOneBit /\ UntestedOnlyWithoutPair
  BY DEF ReportedFromCounts, PairsDifferInOneBit, UntestedOnlyWithoutPair
<1> QED
  BY <1>1, <1>2, <1>3, <1>4 DEF IInv

(* Every step keeps the invariant.                                         *)
THEOREM NextIInv ==
  ASSUME IInv, [Next]_vars
  PROVE  IInv'
<1> USE DEF IInv
<1>1. ASSUME MapFirst
      PROVE  IInv'
  <2>0. /\ UNCHANGED <<bit, j, w, errs, faults, low, hugepages_free, frame,
                       bit_max, rev_map, pair, report, untested, lost, overrun>>
        /\ phase = "start" /\ phase' = "low"
    BY <1>1 DEF MapFirst, sampling, pool, found, history
  <2>1. TypeOK'
    BY <2>0, SameMask DEF TypeOK, SamplingTypeOK, Phases
  <2>2. LoopsInRange'
    BY <2>0, Constants, SamplingAssumption DEF LoopsInRange
  <2>3. PoolMapped' /\ GivenUp' /\ RevMapInverts' /\ PairInPool'
    BY <2>0 DEF PoolMapped, GivenUp, RevMapInverts, PairInPool
  <2>4. Sampled'
    <3>1. j' = 0
      BY <2>0 DEF LoopsInRange
    <3> QED BY <2>0, <3>1, NotSampling
  <2>5. ReportedFromCounts' /\ PairsDifferInOneBit' /\ UntestedOnlyWithoutPair'
    BY <2>0, SamePool DEF ReportedFromCounts, PairsDifferInOneBit,
                          UntestedOnlyWithoutPair
  <2> QED
    BY <2>1, <2>2, <2>3, <2>4, <2>5
<1>2. ASSUME NEW s1 \in SUBSET Outputs, NEW s2 \in SUBSET Outputs,
             SampleLow(s1, s2)
      PROVE  IInv'
  <2>0. /\ UNCHANGED <<low, hugepages_free, frame, bit_max, rev_map, pair,
                       report, untested, lost, overrun>>
        /\ phase = "low"
    BY <1>2 DEF SampleLow, pool, found, history
  <2>1. /\ bit \in WBits /\ bit \in LineShift .. PageShift - 1
        /\ j \in 0 .. ADDR_PER_BIT - 1
    BY <2>0, TestedBitIsColumn DEF LoopsInRange
  <2>2. \/ phase' = "low" /\ bit' = bit /\ j' \in 0 .. ADDR_PER_BIT - 1
        \/ phase' = "low" /\ bit' = bit + 1 /\ bit < PageShift - 1 /\ j' = 0
        \/ phase' = "count" /\ bit' = PageShift /\ j' = 0
    BY <1>2, <2>1, NextSampleEffect, Constants DEF SampleLow
  <2>3. LoopsInRange'
    BY <2>1, <2>2, Constants, SamplingAssumption DEF LoopsInRange
  <2>4. TypeOK'
    <3>1. SamplingTypeOK'
      BY <1>2, <2>0, <2>1, SampleKeepsTypes DEF SampleLow, TypeOK
    <3>2. bit' \in LineShift .. bit_max + 1 /\ phase' \in Phases
      BY <2>1, <2>2, Constants DEF Phases, TypeOK
    <3> QED BY <2>0, <3>1, <3>2, SameMask DEF TypeOK
  <2>5. PoolMapped' /\ GivenUp' /\ RevMapInverts' /\ PairInPool'
    BY <2>0, <2>2 DEF PoolMapped, GivenUp, RevMapInverts, PairInPool
  <2>6. Sampled'
    BY <1>2, <2>0, LowPair, SampleKeepsCounts DEF SampleLow
  <2>7. ReportedFromCounts' /\ PairsDifferInOneBit' /\ UntestedOnlyWithoutPair'
    BY <2>0, <2>2, SamePool DEF ReportedFromCounts, PairsDifferInOneBit,
                                UntestedOnlyWithoutPair
  <2> QED
    BY <2>3, <2>4, <2>5, <2>6, <2>7
<1>3. ASSUME NEW h \in FreePages, CountFree(h)
      PROVE  IInv'
  <2>0. /\ UNCHANGED <<bit, j, w, errs, faults, low, frame, bit_max, rev_map,
                       pair, report, untested, lost, overrun>>
        /\ phase = "count" /\ phase' = "map" /\ hugepages_free' = h
    BY <1>3 DEF CountFree, sampling, found, history
  <2>1. TypeOK'
    BY <2>0, SameMask DEF TypeOK, SamplingTypeOK, Phases
  <2>2. LoopsInRange'
    BY <2>0 DEF LoopsInRange
  <2>3. PoolMapped' /\ GivenUp' /\ RevMapInverts' /\ PairInPool'
    BY <2>0 DEF PoolMapped, GivenUp, RevMapInverts, PairInPool
  <2>4. Sampled'
    BY <2>0, NotSampling
  <2>5. ReportedFromCounts' /\ PairsDifferInOneBit' /\ UntestedOnlyWithoutPair'
    BY <2>0, SamePool DEF ReportedFromCounts, PairsDifferInOneBit,
                          UntestedOnlyWithoutPair
  <2> QED
    BY <2>1, <2>2, <2>3, <2>4, <2>5
<1>4. ASSUME NEW m \in Layouts, MapPool(m)
      PROVE  IInv'
  <2>0. /\ UNCHANGED <<bit, w, errs, faults, low, hugepages_free, pair, report,
                       untested, lost, overrun>>
        /\ phase = "map" /\ phase' = "record" /\ j' = 0
        /\ hugepages_free > 0 /\ DOMAIN m = 0 .. hugepages_free - 1
        /\ frame' = m /\ bit_max' = BitMax(hugepages_free)
        /\ rev_map' = [x \in Ppns' |-> NoPage]
    BY <1>4 DEF MapPool, found, history, Ppns, PpnBits
  <2>1. bit = PageShift /\ untested = {}
    BY <2>0 DEF LoopsInRange, PoolMapped
  <2>2. hugepages_free \in Nat /\ bit_max' \in PageShift .. Columns
    BY <2>0, ReverseAssumption DEF TypeOK
  <2>3. TypeOK'
    <3>1. bit' \in LineShift .. bit_max' + 1
      BY <2>0, <2>1, <2>2, Constants
    <3> QED BY <2>0, <2>2, <3>1 DEF TypeOK, SamplingTypeOK, Phases
  <2>4. LoopsInRange'
    BY <2>0, <2>1, <2>2 DEF LoopsInRange
  <2>5. PoolMapped' /\ GivenUp' /\ PairInPool'
    BY <2>0, <2>1 DEF PoolMapped, GivenUp, PairInPool
  <2>6. RevMapInverts'
    <3>1. \A p \in DOMAIN m : ~ (p < 0)
      BY <2>0, <2>2
    <3> QED BY <2>0, <3>1 DEF RevMapInverts, Recorded
  <2>7. Sampled'
    <3> SUFFICES ASSUME NEW b \in WBits
                 PROVE  /\ SamplesOf(b)' = 0 => Untouched(b)'
                        /\ PairedExactly(b)' => CountsFit(b, SamplesOf(b))'
      BY <2>0, <2>1 DEF Sampled
    <3>1. SamplesOf(b)' = SamplesOf(b)
      BY <2>0 DEF SamplesOf
    <3>2. SamplesOf(b) = 0 => Untouched(b)
      BY <2>0 DEF Sampled
    <3>3. Untouched(b)' <=> Untouched(b)
      BY <2>0 DEF Untouched
    <3>4. CountsFit(b, SamplesOf(b))' <=> CountsFit(b, SamplesOf(b))
      BY <2>0, <3>1 DEF CountsFit
    <3>5. CASE b < PageShift
      BY <2>0, <2>1, <3>1, <3>2, <3>3, <3>4, <3>5 DEF Sampled, PairedExactly
    <3>6. CASE ~ (b < PageShift)
      BY <2>0, <2>1, <3>1, <3>2, <3>3, <3>4, <3>6, UntouchedFits
         DEF SamplesOf
    <3> QED BY <3>5, <3>6
  <2>8. ReportedFromCounts' /\ PairsDifferInOneBit' /\ UntestedOnlyWithoutPair'
    BY <2>0, <2>1 DEF ReportedFromCounts, PairsDifferInOneBit,
                      UntestedOnlyWithoutPair
  <2> QED
    BY <2>3, <2>4, <2>5, <2>6, <2>7, <2>8
<1>5. ASSUME RecordPage
      PROVE  IInv'
  <2>0. /\ UNCHANGED <<bit, w, errs, faults, low, hugepages_free, frame,
                       bit_max, pair, report, untested>>
        /\ phase = "record"
        /\ \/ /\ j + 1 < hugepages_free /\ j' = j + 1 /\ phase' = "record"
           \/ /\ ~ (j + 1 < hugepages_free) /\ j' = 0 /\ phase' = "pair"
    BY <1>5 DEF RecordPage, pool, found
  <2>1. PICK paddr \in Translations(j) :
          /\ \/ /\ Ppn(paddr) \in Ppns /\ overrun' = overrun
                /\ rev_map' = [rev_map EXCEPT ![Ppn(paddr)] = j]
             \/ /\ Ppn(paddr) \notin Ppns /\ overrun' = TRUE
                /\ rev_map' = rev_map
          /\ lost' = IF paddr = frame[j] THEN lost ELSE lost \cup {j}
    BY <1>5 DEF RecordPage
  <2>2. /\ j \in Nat /\ hugepages_free \in Nat /\ j \in 0 .. hugepages_free - 1
        /\ frame \in Layouts /\ DOMAIN frame = 0 .. hugepages_free - 1
        /\ bit = PageShift
    BY <2>0, ReverseAssumption DEF LoopsInRange, PoolMapped, TypeOK
  <2>3. rev_map \in [Ppns -> {NoPage} \cup Nat]
    BY DEF TypeOK
  <2>4. TypeOK'
    <3>1. rev_map' \in [Ppns -> {NoPage} \cup Nat]
      BY <2>1, <2>2, <2>3
    <3>2. j' \in Nat /\ phase' \in Phases
      BY <2>0, <2>2 DEF Phases
    <3>3. lost' \in SUBSET Nat /\ overrun' \in BOOLEAN
      BY <2>1, <2>2 DEF TypeOK
    <3> QED BY <2>0, <3>1, <3>2, <3>3, SameMask DEF TypeOK, SamplingTypeOK
  <2>5. LoopsInRange'
    BY <2>0, <2>2 DEF LoopsInRange, TypeOK
  <2>6. PoolMapped' /\ GivenUp' /\ PairInPool'
    BY <2>0 DEF PoolMapped, GivenUp, PairInPool
  <2>7. RevMapInverts'
    <3>1. /\ \A x \in Ppns : rev_map[x] # NoPage => rev_map[x] \in DOMAIN frame
          /\ \A x \in Ppns : rev_map[x] # NoPage /\ rev_map[x] \notin lost =>
               Ppn(frame[rev_map[x]]) = x
          /\ ~ overrun => \A p \in DOMAIN frame \ lost : Recorded(p) =>
               Ppn(frame[p]) \in Ppns /\ rev_map[Ppn(frame[p])] # NoPage
      BY <2>0 DEF RevMapInverts
    <3>2. lost \subseteq lost' /\ (j \notin lost' => paddr = frame[j])
      BY <2>1
    <3>3. \A x \in Ppns : \/ rev_map'[x] = rev_map[x]
                          \/ x = Ppn(paddr) /\ rev_map'[x] = j
      BY <2>1, <2>3
    <3>4. j # NoPage
      BY <2>2 DEF NoPage
    <3>5. ~ overrun' => ~ overrun /\ Ppn(paddr) \in Ppns /\ rev_map'[Ppn(paddr)] = j
      BY <2>1, <2>3
    <3>6. \A x \in Ppns : rev_map'[x] # NoPage => rev_map'[x] \in DOMAIN frame
      BY <2>2, <3>1, <3>3
    <3>7. ASSUME NEW x \in Ppns, rev_map'[x] # NoPage, rev_map'[x] \notin lost'
          PROVE  Ppn(frame[rev_map'[x]]) = x
      BY <3>1, <3>2, <3>3, <3>7
    <3>8. ASSUME ~ overrun', NEW p \in DOMAIN frame \ lost', Recorded(p)'
          PROVE  Ppn(frame[p]) \in Ppns /\ rev_map'[Ppn(frame[p])] # NoPage
      <4>1. Recorded(p) \/ p = j
        BY <2>0, <2>2, <3>8 DEF Recorded
      <4>2. CASE p = j
        BY <3>2, <3>4, <3>5, <3>8, <4>2
      <4>3. CASE Recorded(p)
        BY <3>1, <3>2, <3>3, <3>4, <3>5, <3>8, <4>3
      <4> QED BY <4>1, <4>2, <4>3
    <3>9. /\ \A x \in Ppns' : rev_map'[x] # NoPage => rev_map'[x] \in DOMAIN frame'
          /\ \A x \in Ppns' : rev_map'[x] # NoPage /\ rev_map'[x] \notin lost' =>
               Ppn(frame[rev_map[x]])' = x
          /\ ~ overrun' => \A p \in DOMAIN frame' \ lost' : Recorded(p)' =>
               Ppn(frame[p])' \in Ppns' /\ rev_map'[Ppn(frame[p])'] # NoPage
      BY <2>0, <3>6, <3>7, <3>8 DEF Ppns, PpnBits, Ppn, Truncates, MaskedBits
    <3> QED BY <3>9 DEF RevMapInverts, NoPage
  <2>8. Sampled'
    BY <2>0, <2>1, NotSampling
  <2>9. ReportedFromCounts' /\ PairsDifferInOneBit' /\ UntestedOnlyWithoutPair'
    <3>1. lost \subseteq lost' /\ (~ overrun' => ~ overrun)
      BY <2>1
    <3> QED BY <2>0, <3>1, SamePool
            DEF ReportedFromCounts, PairsDifferInOneBit, UntestedOnlyWithoutPair
  <2> QED
    BY <2>4, <2>5, <2>6, <2>7, <2>8, <2>9
<1>6. ASSUME NEW x \in Ppns, FindPair(x)
      PROVE  IInv'
  <2>0. /\ UNCHANGED <<bit, w, errs, faults, low, hugepages_free, frame,
                       bit_max, rev_map, report, untested, lost, overrun>>
        /\ phase = "pair" /\ phase' = "sample" /\ j' = 0
        /\ rev_map[x] # NoPage /\ rev_map[Flip(x, bit)] # NoPage
        /\ pair' = <<rev_map[x], rev_map[Flip(x, bit)]>>
    BY <1>6 DEF FindPair, ValidPpn, pool, found, history
  <2>1. bit \in PageShift .. bit_max /\ Flip(x, bit) \in Ppns
    BY <2>0, FlipInsideRevMap DEF LoopsInRange
  <2>2. rev_map[x] \in DOMAIN frame /\ rev_map[Flip(x, bit)] \in DOMAIN frame
    BY <2>0, <2>1 DEF RevMapInverts
  <2>3. pair' \in Nat \X Nat
    <3>1. DOMAIN frame \subseteq Nat
      BY <2>0 DEF PoolMapped
    <3> QED BY <2>0, <2>2, <3>1
  <2>4. TypeOK'
    BY <2>0, <2>3, SameMask DEF TypeOK, SamplingTypeOK, Phases
  <2>5. LoopsInRange'
    BY <2>0, SamplingAssumption DEF LoopsInRange
  <2>6. PoolMapped' /\ GivenUp'
    BY <2>0 DEF PoolMapped, GivenUp
  <2>7. RevMapInverts'
    BY <2>0 DEF RevMapInverts, Recorded, Ppns, PpnBits, Ppn, Truncates,
                MaskedBits
  <2>8. PairInPool'
    BY <2>0, <2>2, <2>3 DEF PairInPool
  <2>9. Sampled'
    BY <2>0, NotSampling
  <2>10. PairsDifferInOneBit'
    <3> DEFINE p == rev_map[x]
               q == rev_map[Flip(x, bit)]
    <3> SUFFICES ASSUME p \notin lost, q \notin lost
                 PROVE  /\ frame[p] \cap (PageShift .. bit_max)
                             = Flip(frame[q], bit) \cap (PageShift .. bit_max)
                        /\ SameHighBits => frame[p] = Flip(frame[q], bit)
      BY <2>0, SamePool DEF PairsDifferInOneBit
    <3>1. Ppn(frame[p]) = x /\ Ppn(frame[q]) = Flip(x, bit)
      BY <2>0, <2>1 DEF RevMapInverts
    <3>2. x = Flip(Flip(x, bit), bit)
      BY FlipTwice
    <3>3. Ppn(frame[p]) = Flip(Ppn(frame[q]), bit)
      BY <3>1, <3>2
    <3> HIDE DEF p, q
    <3> QED BY <2>1, <2>2, <3>3, PpnAgrees, PpnDetermines DEF p, q
  <2>11. ReportedFromCounts' /\ UntestedOnlyWithoutPair'
    BY <2>0, SamePool DEF ReportedFromCounts, UntestedOnlyWithoutPair
  <2> QED
    BY <2>4, <2>5, <2>6, <2>7, <2>8, <2>9, <2>10, <2>11
<1>7. ASSUME NoPair
      PROVE  IInv'
  <2>0. /\ UNCHANGED <<j, w, errs, faults, low, hugepages_free, frame, bit_max,
                       rev_map, pair, report, lost, overrun>>
        /\ phase = "pair" /\ \A x \in Ppns : ~ ValidPpn(x)
        /\ untested' = untested \cup {bit} /\ bit' = bit + 1
        /\ phase' = IF bit < bit_max THEN "pair" ELSE "report"
    BY <1>7 DEF NoPair, pool, history
  <2>1. /\ bit \in PageShift .. bit_max /\ bit \in Int /\ bit \in WBits
        /\ bit_max \in PageShift .. Columns /\ j = 0
    BY <2>0, Constants DEF LoopsInRange, TypeOK
  <2>2. TypeOK'
    <3>1. bit' \in LineShift .. bit_max + 1 /\ phase' \in Phases
      BY <2>0, <2>1, Constants DEF Phases
    <3>2. untested' \in SUBSET WBits
      BY <2>0, <2>1 DEF TypeOK, SamplingTypeOK
    <3> QED BY <2>0, <3>1, <3>2, SameMask DEF TypeOK, SamplingTypeOK
  <2>3. LoopsInRange'
    BY <2>0, <2>1, Constants DEF LoopsInRange
  <2>4. PoolMapped' /\ PairInPool'
    BY <2>0 DEF PoolMapped, PairInPool
  <2>5. GivenUp'
    BY <2>0, <2>1, Constants DEF GivenUp
  <2>6. RevMapInverts'
    BY <2>0 DEF RevMapInverts, Recorded, Ppns, PpnBits, Ppn, Truncates,
                MaskedBits
  <2>7. Sampled'
    <3>1. \A b \in WBits : SamplesOf(b)' = IF b = bit THEN ADDR_PER_BIT
                                                      ELSE SamplesOf(b)
      BY <2>0, <2>1 DEF SamplesOf, WBits
    <3>2. Untouched(bit)
      BY <2>0, <2>1 DEF Sampled, SamplesOf
    <3>3. \A b \in WBits : Untouched(b)' <=> Untouched(b)
      BY <2>0 DEF Untouched
    <3>4. \A b \in WBits : b # bit =>
            (CountsFit(b, SamplesOf(b))' <=> CountsFit(b, SamplesOf(b)))
      BY <2>0, <3>1 DEF CountsFit
    <3>5. \A b \in WBits : PairedExactly(b)' <=> PairedExactly(b)
      BY <2>0, SamePool DEF PairedExactly
    <3>6. ADDR_PER_BIT # 0
      BY SamplingAssumption
    <3> QED BY <2>0, <2>1, <3>1, <3>2, <3>3, <3>4, <3>5, <3>6 DEF Sampled
  <2>8. UntestedOnlyWithoutPair'
    <3>1. ASSUME ~ overrun, NEW p \in DOMAIN frame \ lost,
                 NEW q \in DOMAIN frame \ lost, frame[p] = Flip(frame[q], bit)
          PROVE  FALSE
      <4>1. /\ Ppn(frame[p]) \in Ppns /\ rev_map[Ppn(frame[p])] # NoPage
            /\ Ppn(frame[q]) \in Ppns /\ rev_map[Ppn(frame[q])] # NoPage
        BY <2>0, <3>1 DEF RevMapInverts, Recorded
      <4>2. Ppn(frame[p]) = Flip(Ppn(frame[q]), bit)
        BY <2>1, <3>1, PpnFlip
      <4>3. ValidPpn(Ppn(frame[q]))
        BY <4>1, <4>2 DEF ValidPpn
      <4> QED BY <2>0, <4>1, <4>3
    <3> QED BY <2>0, <3>1, SamePool DEF UntestedOnlyWithoutPair
  <2>9. ReportedFromCounts' /\ PairsDifferInOneBit'
    BY <2>0 DEF ReportedFromCounts, PairsDifferInOneBit
  <2> QED
    BY <2>2, <2>3, <2>4, <2>5, <2>6, <2>7, <2>8, <2>9
<1>8. ASSUME NEW s1 \in SUBSET Outputs, NEW s2 \in SUBSET Outputs,
             SampleHigh(s1, s2)
      PROVE  IInv'
  <2>0. /\ UNCHANGED <<low, hugepages_free, frame, bit_max, rev_map, pair,
                       report, untested, lost, overrun>>
        /\ phase = "sample"
    BY <1>8 DEF SampleHigh, pool, found, history
  <2>1. /\ bit \in WBits /\ bit \in PageShift .. bit_max
        /\ j \in 0 .. ADDR_PER_BIT - 1 /\ bit_max \in PageShift .. Columns
    BY <2>0, TestedBitIsColumn DEF LoopsInRange, TypeOK
  <2>2. \/ /\ phase' = "sample" /\ bit' = bit /\ j' \in 0 .. ADDR_PER_BIT - 1
        \/ /\ phase' = "pair" /\ bit' = bit + 1 /\ bit < bit_max /\ j' = 0
        \/ /\ phase' = "report" /\ bit' = bit + 1 /\ bit' = bit_max + 1
           /\ j' = 0
    BY <1>8, <2>1, NextSampleEffect, Constants DEF SampleHigh
  <2>3. LoopsInRange'
    BY <2>0, <2>1, <2>2, Constants DEF LoopsInRange
  <2>4. TypeOK'
    <3>1. SamplingTypeOK'
      BY <1>8, <2>0, <2>1, SampleKeepsTypes DEF SampleHigh, TypeOK
    <3>2. bit' \in LineShift .. bit_max + 1 /\ phase' \in Phases
      BY <2>1, <2>2, Constants DEF Phases
    <3> QED BY <2>0, <3>1, <3>2, SameMask DEF TypeOK
  <2>5. PoolMapped' /\ PairInPool'
    BY <2>0, <2>2 DEF PoolMapped, PairInPool
  <2>6. GivenUp'
    BY <2>0, <2>1, <2>2, Constants DEF GivenUp
  <2>7. RevMapInverts'
    BY <2>0, <2>2 DEF RevMapInverts, Recorded, Ppns, PpnBits, Ppn, Truncates,
                      MaskedBits
  <2>8. Sampled'
    <3>1. PairedExactly(bit) => frame[pair[1]] = Flip(frame[pair[2]], bit)
      BY <2>0, <2>1, Constants DEF PairedExactly, PairsDifferInOneBit
    <3> QED BY <1>8, <2>0, <3>1, HighPair, SampleKeepsCounts DEF SampleHigh
  <2>9. PairsDifferInOneBit'
    BY <2>0, <2>2, SamePool DEF PairsDifferInOneBit
  <2>10. ReportedFromCounts' /\ UntestedOnlyWithoutPair'
    BY <2>0, <2>2, SamePool DEF ReportedFromCounts, UntestedOnlyWithoutPair
  <2> QED
    BY <2>3, <2>4, <2>5, <2>6, <2>7, <2>8, <2>9, <2>10
<1>9. ASSUME Report
      PROVE  IInv'
  <2>0. /\ UNCHANGED <<bit, j, w, errs, faults, low, hugepages_free, frame,
                       bit_max, rev_map, pair, untested, lost, overrun>>
        /\ phase = "report" /\ phase' = "done"
        /\ report' = Reported(LineShift .. LineShift + bit_max - 1)
    BY <1>9 DEF Report, sampling, pool, history
  <2>1. TypeOK'
    <3>1. LineShift .. LineShift + bit_max - 1 \subseteq WBits
      BY Constants DEF TypeOK
    <3>2. report' \in [Outputs -> SUBSET WBits]
      BY <2>0, <3>1 DEF Reported
    <3> QED BY <2>0, <3>2, SameMask DEF TypeOK, SamplingTypeOK, Phases
  <2>2. LoopsInRange'
    BY <2>0 DEF LoopsInRange
  <2>3. PoolMapped' /\ GivenUp' /\ RevMapInverts' /\ PairInPool'
    BY <2>0 DEF PoolMapped, GivenUp, RevMapInverts, PairInPool
  <2>4. Sampled'
    BY <2>0, NotSampling
  <2>5. ReportedFromCounts'
    BY <2>0 DEF ReportedFromCounts, Reported
  <2>6. PairsDifferInOneBit' /\ UntestedOnlyWithoutPair'
    BY <2>0, SamePool DEF PairsDifferInOneBit, UntestedOnlyWithoutPair
  <2> QED
    BY <2>1, <2>2, <2>3, <2>4, <2>5, <2>6
<1>10. ASSUME MapPoolFails \/ Exit
       PROVE  IInv'
  <2>0. /\ UNCHANGED <<bit, j, w, errs, faults, low, hugepages_free, frame,
                       bit_max, rev_map, pair, report, untested, lost, overrun>>
        /\ phase' = "exited"
    BY <1>10 DEF MapPoolFails, Exit, sampling, pool, found, history
  <2>1. TypeOK'
    BY <2>0, SameMask DEF TypeOK, SamplingTypeOK, Phases
  <2>2. LoopsInRange' /\ PoolMapped' /\ GivenUp' /\ RevMapInverts' /\ PairInPool'
    BY <2>0 DEF LoopsInRange, PoolMapped, GivenUp, RevMapInverts, PairInPool
  <2>3. Sampled' /\ ReportedFromCounts' /\ PairsDifferInOneBit'
    BY <2>0 DEF Sampled, ReportedFromCounts, PairsDifferInOneBit
  <2>4. UntestedOnlyWithoutPair'
    BY <2>0, SamePool DEF UntestedOnlyWithoutPair
  <2> QED
    BY <2>1, <2>2, <2>3, <2>4
<1>11. CASE UNCHANGED vars
  <2>0. UNCHANGED <<phase, bit, j, w, errs, faults, low, hugepages_free, frame,
                    bit_max, rev_map, pair, report, untested, lost, overrun>>
    BY <1>11 DEF vars, sampling, pool, found, history
  <2>1. TypeOK'
    BY <2>0, SameMask DEF TypeOK, SamplingTypeOK
  <2>2. LoopsInRange' /\ PoolMapped' /\ GivenUp' /\ PairInPool'
    BY <2>0 DEF LoopsInRange, PoolMapped, GivenUp, PairInPool
  <2>3. RevMapInverts'
    BY <2>0 DEF RevMapInverts, Recorded, Ppns, PpnBits, Ppn, Truncates,
                MaskedBits
  <2>4. Sampled'
    <3>1. \A b \in WBits : PairedExactly(b)' <=> PairedExactly(b)
      BY <2>0, SamePool DEF PairedExactly
    <3> QED BY <2>0, <3>1 DEF Sampled, SamplesOf, Untouched, CountsFit
  <2>5. ReportedFromCounts' /\ PairsDifferInOneBit' /\ UntestedOnlyWithoutPair'
    BY <2>0, SamePool DEF ReportedFromCounts, Reported, PairsDifferInOneBit,
                          UntestedOnlyWithoutPair
  <2> QED
    BY <2>1, <2>2, <2>3, <2>4, <2>5
<1> QED
  BY <1>1, <1>2, <1>3, <1>4, <1>5, <1>6, <1>7, <1>8, <1>9, <1>10, <1>11
     DEF Next, Step

-----------------------------------------------------------------------------
(* The invariant holds in every state of the search. *)
THEOREM Invariance == Spec => []IInv
<1>1. Init => IInv
  BY InitIInv
<1>2. IInv /\ [Next]_vars => IInv'
  BY NextIInv
<1> QED
  BY <1>1, <1>2, PTL DEF Spec

(* Type correctness: no count is written outside w and no pair is taken    *)
(* outside the pool, whatever the pool, even if rev_map is overrun.        *)
THEOREM TypeCorrect == Spec => []TypeOK
<1>1. IInv => TypeOK
  BY DEF IInv
<1> QED
  BY <1>1, Invariance, PTL

(* Two pages that rev_map pairs for a bit, and whose own translations      *)
(* succeeded, differ in it and in no other bit the mask is to keep, for    *)
(* any pool and whatever happened to other pages: the round trip from page *)
(* to masked frame number and back loses nothing but what the mask drops.  *)
(* Where no two pages differ in what it drops, they differ in it alone.    *)
THEOREM OnlyPartnersArePaired == Spec => []PairsDifferInOneBit
<1>1. IInv => PairsDifferInOneBit
  BY DEF IInv
<1> QED
  BY <1>1, Invariance, PTL

(* No pair of pages whose own translations succeeded is overlooked by the  *)
(* search through rev_map, although others may have failed and two pages   *)
(* may have competed for one of its entries, unless rev_map was overrun.   *)
THEOREM SearchIsComplete == Spec => []UntestedOnlyWithoutPair
<1>1. IInv => UntestedOnlyWithoutPair
  BY DEF IInv
<1> QED
  BY <1>1, Invariance, PTL

(* The result is right: a bit that was tested and measured well enough is  *)
(* printed for exactly the outputs of the hash it belongs to, for any      *)
(* linear hash, if all pages were translated and agree in what the mask    *)
(* drops; the columns the report looks at include every tested bit.        *)
THEOREM ResultIsExact == Spec => []ReportExact
<1>1. IInv => ReportExact
  <2> SUFFICES ASSUME IInv, phase = "done", lost = {}, SameHighBits,
                      NEW b \in Tested, WellMeasured(b), NEW k \in Outputs
               PROVE  b \in report[k] <=> b \in Mask[k]
    BY DEF ReportExact, Retrieved
  <2>1. bit_max \in PageShift .. Columns /\ bit = bit_max + 1
    BY DEF IInv, TypeOK, LoopsInRange
  <2>2. /\ b \in WBits /\ b \in LineShift .. LineShift + bit_max - 1
        /\ b < bit /\ b \notin untested
    BY <2>1, Constants DEF Tested
  <2>3. SamplesOf(b) = ADDR_PER_BIT
    BY <2>2 DEF SamplesOf
  <2>4. CountsFit(b, ADDR_PER_BIT)
    BY <2>2, <2>3 DEF IInv, Sampled, PairedExactly
  <2>5. b \in report[k] <=> w[k][b] > THRESHOLD
    BY <2>2 DEF IInv, ReportedFromCounts, Reported
  <2> QED
    BY <2>2, <2>4, <2>5, ThresholdSeparates DEF IInv, TypeOK
<1> QED
  BY <1>1, Invariance, PTL

(* A bit is never printed unless it was tested, whatever the pool, the     *)
(* translations and the measurements: the report looks at columns beyond   *)
(* bit_max too, and at those of bits that were given up, but nothing was   *)
(* ever counted in them.                                                   *)
THEOREM NothingUntestedPrinted == Spec => []OnlyTestedReported
<1>1. IInv => OnlyTestedReported
  <2> SUFFICES ASSUME IInv, phase = "done", NEW k \in Outputs,
                      NEW b \in report[k]
               PROVE  b \in Tested
    BY DEF OnlyTestedReported
  <2>1. bit_max \in PageShift .. Columns /\ bit = bit_max + 1
    BY DEF IInv, TypeOK, LoopsInRange
  <2>2. b \in LineShift .. LineShift + bit_max - 1 /\ w[k][b] > THRESHOLD
    BY DEF IInv, ReportedFromCounts, Reported
  <2>3. b \in WBits /\ b \in Int
    BY <2>1, <2>2, Constants
  <2>4. ~ Untouched(b)
    BY <2>2, SamplingAssumption DEF Untouched
  <2>5. SamplesOf(b) # 0 /\ b \notin untested
    BY <2>3, <2>4 DEF IInv, Sampled
  <2>6. b < bit
    BY <2>5 DEF SamplesOf
  <2> QED
    BY <2>1, <2>2, <2>3, <2>5, <2>6, Constants DEF Tested
<1> QED
  BY <1>1, Invariance, PTL
=============================================================================
