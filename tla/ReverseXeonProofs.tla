------------------------- MODULE ReverseXeonProofs -------------------------
(***************************************************************************)
(* Proofs about ReverseXeon, for any pool of pages, any hash, any number   *)
(* of samples and any threshold, with wrong measurements and failing       *)
(* translations: what the search prints and what it leaves out.            *)
(***************************************************************************)
EXTENDS ReverseXeon, HashSamplingProofs

(* The bits and samples each part of the function deals with. *)
LoopsInRange ==
  /\ phase = "start" => bit = LineShift
  /\ phase = "low" => bit \in LineShift .. PageShift - 1
  /\ phase = "map" => bit = PageShift
  /\ phase \in {"first", "second", "sample"} => bit \in PageShift .. LastBit
  /\ phase \in {"report", "done"} => bit = LastBit + 1
  /\ phase \in {"low", "sample"} => j \in 0 .. ADDR_PER_BIT - 1
  /\ phase \notin {"low", "sample", "exited"} => j = 0

(* The pool is mapped before it is searched. *)
PoolMapped ==
  /\ phase \in {"first", "second", "sample", "report", "done"} \/ untested # {}
       => frame \in Layouts
  /\ phase \in {"start", "low", "map"} =>
       page1 = 0 /\ paddr1 = NoAddress /\ untested = {}

(* paddr1 is one of the answers read_pagemap may have given for page1, and *)
(* the right one unless the translation was seen to fail.                  *)
FirstAddress ==
  /\ phase = "second" => paddr1 \in Translations(page1)
  /\ phase \in {"second", "sample"} /\ bit \notin lost => paddr1 = frame[page1]

(* A bit is given up once, after its search, and then the pages at hand    *)
(* are twice the same.                                                     *)
GivenUp ==
  /\ \A b \in untested : b <= bit
  /\ phase \notin {"sample", "exited"} => bit \notin untested
  /\ phase = "sample" /\ bit \in untested => page1 = page2

(* The pairs of pages the nested loops have compared without success. *)
Compared(p, q) ==
  p <= q /\ (p < page1 \/ (phase = "second" /\ p = page1 /\ q < page2))

SearchedSoFar ==
  /\ phase = "second" => page1 <= page2
  /\ phase \in {"first", "second"} /\ bit \notin lost =>
       \A p, q \in Pages : Compared(p, q) => frame[p] # Flip(frame[q], bit)

(* What w holds for every bit: nothing before its turn; only wrong samples *)
(* if it was given up; and what the hash says, but for the wrong samples,  *)
(* if it was tested.                                                       *)
Sampled ==
  phase # "exited" => \A b \in WBits :
    /\ SamplesOf(b) = 0 => Untouched(b)
    /\ b \in untested => OnlyErrors(b)
    /\ b \notin untested \cup lost => CountsFit(b, SamplesOf(b))

ReportedFromCounts == phase = "done" => report = Reported(WBits)

IInv ==
  /\ TypeOK
  /\ LoopsInRange
  /\ PoolMapped
  /\ FirstAddress
  /\ GivenUp
  /\ SearchedSoFar
  /\ Sampled
  /\ ReportedFromCounts
  /\ PairsDifferInOneBit
  /\ UntestedOnlyWithoutPair
-----------------------------------------------------------------------------
(* The columns of w are the bits of both loops. *)
LEMMA Constants ==
  /\ LineShift \in Nat \ {0} /\ PageShift \in Nat /\ LineShift < PageShift
  /\ LastBit \in Nat /\ PageShift <= LastBit
  /\ WBits = LineShift .. LastBit
  /\ 0 \in Pages /\ LastPage \in Pages
BY SamplingAssumption, XeonSearchAssumption DEF LastBit, WBits, Pages, LastPage

LEMMA TestedBitIsColumn ==
  ASSUME LoopsInRange, phase \in {"low", "sample"}
  PROVE  bit \in WBits /\ j \in 0 .. ADDR_PER_BIT - 1
BY Constants DEF LoopsInRange

(* The frames of a pool are addresses of pages, none of them 0, each a     *)
(* finite set of bits.                                                     *)
LEMMA FramesOfPool ==
  ASSUME NEW m \in Layouts
  PROVE  /\ DOMAIN m = Pages /\ m # <<>>
         /\ \A p \in Pages : IsFrame(m[p])
<1>1. DOMAIN m = Pages
  BY XeonSearchAssumption
<1>2. m # <<>>
  BY <1>1, Constants
<1> QED
  BY <1>1, <1>2, XeonSearchAssumption

LEMMA LineInsidePage ==
  ASSUME NEW n \in 0 .. ADDR_PER_BIT - 1
  PROVE  /\ IsFiniteSet(LineOffset(n))
         /\ \A b \in LineOffset(n) : b \in Nat /\ b < PageShift
<1>1. LineOffset(n) \in SUBSET (0 .. PageShift - 1)
  BY XeonSearchAssumption
<1>2. PageShift - 1 \in Int
  BY Constants
<1>3. IsFiniteSet(LineOffset(n))
  BY <1>1, <1>2, SubsetOfRangeIsFinite
<1> QED
  BY <1>1, <1>3, Constants

(* A frame lies above the offset bits. *)
LEMMA FrameBits ==
  ASSUME NEW x, IsFrame(x)
  PROVE  IsFiniteSet(x) /\ x # {} /\ 0 \notin x /\ \A b \in x : b \in Nat /\ b >= PageShift
BY Constants DEF IsFrame

(* The two addresses of a low sample differ in the tested bit. *)
LEMMA LowPair ==
  ASSUME TypeOK, LoopsInRange, phase = "low"
  PROVE  /\ IsFiniteSet(low \cup Flip(LineOffset(j), bit))
         /\ low \cup LineOffset(j)
              = Flip(low \cup Flip(LineOffset(j), bit), bit)
<1>1. j \in 0 .. ADDR_PER_BIT - 1 /\ bit \in LineShift .. PageShift - 1
  BY DEF LoopsInRange
<1>2. IsFrame(low)
  BY XeonSearchAssumption DEF TypeOK
<1>3. IsFiniteSet(low) /\ bit \notin low
  BY <1>1, <1>2, FrameBits, Constants
<1>4. IsFiniteSet(Flip(LineOffset(j), bit))
  BY <1>1, LineInsidePage, FS_AddElement, FS_RemoveElement DEF Flip
<1>5. IsFiniteSet(low \cup Flip(LineOffset(j), bit))
  BY <1>3, <1>4, FS_Union
<1>6. low \cup LineOffset(j) = Flip(low \cup Flip(LineOffset(j), bit), bit)
  BY <1>3 DEF Flip
<1> QED
  BY <1>5, <1>6

(* The two addresses of a high sample, if their pages differ in the tested *)
(* bit alone, do so too.                                                   *)
LEMMA HighPair ==
  ASSUME TypeOK, LoopsInRange, PoolMapped, phase = "sample"
  PROVE  /\ IsFiniteSet(frame[page2] \cup LineOffset(j))
         /\ frame[page1] = Flip(frame[page2], bit) =>
              frame[page1] \cup LineOffset(j)
                = Flip(frame[page2] \cup LineOffset(j), bit)
<1>1. j \in 0 .. ADDR_PER_BIT - 1 /\ bit \in PageShift .. LastBit
  BY DEF LoopsInRange
<1>2. IsFrame(frame[page2])
  BY FramesOfPool DEF TypeOK, PoolMapped
<1>3. IsFiniteSet(frame[page2] \cup LineOffset(j))
  BY <1>1, <1>2, FrameBits, LineInsidePage, FS_Union
<1>4. bit \notin LineOffset(j)
  BY <1>1, LineInsidePage, Constants
<1> QED
  BY <1>3, <1>4, FlipInFrame

(* A sample, of either loop, keeps what w is known to hold.                *)
LEMMA SampleKeepsCounts ==
  ASSUME TypeOK, Sampled, LoopsInRange, phase \in {"low", "sample"},
         NEW a1, NEW a2, NEW s1, NEW s2, Compare(a1, a2, s1, s2),
         NEW again \in {"low", "sample"}, NEW nextbit, NEW after, NEW last,
         NextSample(again, nextbit, after, last),
         UNCHANGED <<untested, lost>>, IsFiniteSet(a2),
         bit \in untested => a1 = a2,
         bit \notin untested \cup lost => a1 = Flip(a2, bit)
  PROVE  Sampled'
<1> SUFFICES ASSUME NEW b \in WBits
             PROVE  /\ SamplesOf(b)' = 0 => Untouched(b)'
                    /\ b \in untested => OnlyErrors(b)'
                    /\ b \notin untested \cup lost => CountsFit(b, SamplesOf(b))'
  BY DEF Sampled
<1>1. /\ SamplesOf(b) = 0 => Untouched(b)
      /\ b \in untested => OnlyErrors(b)
      /\ b \notin untested \cup lost => CountsFit(b, SamplesOf(b))
  BY DEF Sampled
<1>2. /\ b # bit =>
           /\ SamplesOf(b)' = SamplesOf(b)
           /\ Untouched(b)' <=> Untouched(b)
           /\ OnlyErrors(b)' <=> OnlyErrors(b)
           /\ CountsFit(b, SamplesOf(b))' <=> CountsFit(b, SamplesOf(b))
      /\ b = bit =>
           /\ SamplesOf(b)' # 0
           /\ a1 = a2 /\ OnlyErrors(b) => OnlyErrors(b)'
           /\ /\ IsFiniteSet(a2) /\ a1 = Flip(a2, b)
              /\ CountsFit(b, SamplesOf(b))
              => CountsFit(b, SamplesOf(b))'
  BY TestedBitIsColumn, SampleTaken DEF TypeOK
<1> QED
  BY <1>1, <1>2

(* Outside the sampling loops nothing is counted, and a translation that   *)
(* fails leaves less to be claimed.                                        *)
LEMMA NotSampling ==
  ASSUME LoopsInRange, Sampled, phase \notin {"low", "sample", "exited"},
         UNCHANGED <<bit, j, w, errs, untested>>, lost \subseteq lost'
  PROVE  Sampled'
<1>1. \A b \in WBits : SamplesOf(b)' = SamplesOf(b)
  BY DEF SamplesOf, LoopsInRange
<1> QED
  BY <1>1 DEF Sampled, Untouched, OnlyErrors, CountsFit

(* A candidate that is found is a page that differs in the tested bit from *)
(* the first one, or one of the two answers was not an address of a page.  *)
LEMMA CandidateIsPartner ==
  ASSUME TypeOK, LoopsInRange, PoolMapped, FirstAddress, phase = "second",
         NEW paddr2 \in Translations(page2), IsCandidate(paddr2)
  PROVE  \/ frame[page1] = Flip(frame[page2], bit)
         \/ paddr1 = NoAddress /\ frame[page2] = {bit}
         \/ frame[page1] = {bit} /\ paddr2 # frame[page2]
<1>1. IsFrame(frame[page1]) /\ IsFrame(frame[page2])
  BY FramesOfPool DEF TypeOK, PoolMapped
<1>2. /\ 0 \notin frame[page1] /\ 0 \notin frame[page2]
      /\ frame[page1] # {} /\ frame[page2] # {}
  BY <1>1, FrameBits
<1>3. paddr2 = Flip(paddr1, bit) /\ paddr1 = Flip(paddr2, bit)
  BY FlipTwice DEF IsCandidate
<1>4. bit # 0
  BY Constants DEF LoopsInRange
<1>5. /\ paddr1 \in {frame[page1], NoAddress, AllOnes}
      /\ paddr2 \in {frame[page2], NoAddress, AllOnes}
  BY DEF FirstAddress, Translations, NoAddress
<1>6. 0 \in AllOnes /\ NoAddress = {}
  BY DEF AllOnes, NoAddress
<1>7. 0 \in paddr1 <=> 0 \in paddr2
  BY <1>3, <1>4 DEF Flip
<1>8. CASE paddr1 = AllOnes
  <2>1. paddr2 = AllOnes
    BY <1>2, <1>5, <1>6, <1>7, <1>8
  <2> QED BY <1>3, <1>8, <2>1, FlipDiffers
<1>9. CASE paddr1 = NoAddress
  <2>1. paddr2 = {bit}
    BY <1>3, <1>6, <1>9 DEF Flip
  <2>2. paddr2 = frame[page2]
    BY <1>4, <1>5, <1>6, <2>1
  <2> QED BY <1>9, <2>1, <2>2
<1>10. CASE paddr1 = frame[page1]
  <2>1. CASE paddr2 = frame[page2]
    BY <1>3, <1>10, <2>1
  <2>2. CASE paddr2 = NoAddress
    <3>1. paddr1 = {bit}
      BY <1>3, <1>6, <2>2 DEF Flip
    <3> QED BY <1>2, <1>6, <1>10, <2>2, <3>1
  <2>3. CASE paddr2 = AllOnes
    BY <1>2, <1>6, <1>7, <1>10, <2>3
  <2> QED BY <1>5, <2>1, <2>2, <2>3
<1> QED
  BY <1>5, <1>8, <1>9, <1>10

(* After a pair has been compared without success and without a failing    *)
(* translation, no pair compared so far differs in the tested bit alone.   *)
LEMMA ComparedWithoutSuccess ==
  ASSUME SearchedSoFar, FirstAddress, phase = "second", bit \notin lost,
         ~ IsCandidate(frame[page2]), NEW p \in Pages, NEW q \in Pages,
         Compared(p, q) \/ (p = page1 /\ q = page2)
  PROVE  frame[p] # Flip(frame[q], bit)
<1>1. CASE Compared(p, q)
  BY <1>1 DEF SearchedSoFar
<1>2. CASE p = page1 /\ q = page2
  <2>1. frame[page2] # Flip(frame[page1], bit)
    BY DEF FirstAddress, IsCandidate
  <2> QED BY <1>2, <2>1, FlipTwice
<1> QED
  BY <1>1, <1>2

-----------------------------------------------------------------------------
(* The invariant holds when the function is called. *)
THEOREM InitIInv == Init => IInv
<1> SUFFICES ASSUME Init PROVE IInv
  OBVIOUS
<1> USE DEF Init, SamplingInit
<1>1. TypeOK
  <2>1. SamplingTypeOK
    BY SamplingAssumption DEF SamplingTypeOK
  <2> QED BY <2>1, Constants DEF TypeOK, Phases
<1>2. LoopsInRange /\ PoolMapped /\ FirstAddress /\ GivenUp /\ SearchedSoFar
  BY DEF LoopsInRange, PoolMapped, FirstAddress, GivenUp, SearchedSoFar
<1>3. Sampled
  <2> SUFFICES ASSUME NEW b \in WBits
               PROVE  Untouched(b) /\ CountsFit(b, SamplesOf(b))
    BY DEF Sampled
  <2>1. SamplesOf(b) = 0
    BY Constants DEF SamplesOf
  <2> QED BY <2>1 DEF Untouched, CountsFit
<1>4. ReportedFromCounts /\ PairsDifferInOneBit /\ UntestedOnlyWithoutPair
  BY DEF ReportedFromCounts, PairsDifferInOneBit, UntestedOnlyWithoutPair
<1> QED
  BY <1>1, <1>2, <1>3, <1>4 DEF IInv

(* Every step keeps the invariant.                                         *)
THEOREM NextIInv ==
  ASSUME IInv, [Next]_vars
  PROVE  IInv'
<1> USE DEF IInv
<1>1. ASSUME MapFirst
      PROVE  IInv'
  <2>0. UNCHANGED <<bit, j, w, errs, faults, low, frame, page1, page2, paddr1,
                    report, untested, lost>> /\ phase' = "low" /\ phase = "start"
    BY <1>1 DEF MapFirst, sampling, memory, search, found
  <2>1. TypeOK'
    BY <2>0 DEF TypeOK, SamplingTypeOK, Phases
  <2>2. LoopsInRange'
    BY <2>0, Constants, SamplingAssumption DEF LoopsInRange
  <2>3. PoolMapped' /\ FirstAddress' /\ GivenUp' /\ SearchedSoFar'
    BY <2>0 DEF PoolMapped, FirstAddress, GivenUp, SearchedSoFar
  <2>4. Sampled'
    BY <2>0, NotSampling
  <2>5. ReportedFromCounts' /\ PairsDifferInOneBit' /\ UntestedOnlyWithoutPair'
    BY <2>0 DEF ReportedFromCounts, PairsDifferInOneBit, UntestedOnlyWithoutPair
  <2> QED
    BY <2>1, <2>2, <2>3, <2>4, <2>5
<1>2. ASSUME NEW s1 \in SUBSET Outputs, NEW s2 \in SUBSET Outputs,
             SampleLow(s1, s2)
      PROVE  IInv'
  <2>0. /\ UNCHANGED <<low, frame, page1, page2, paddr1, report, untested, lost>>
        /\ phase = "low"
    BY <1>2 DEF SampleLow, memory, search, found
  <2>1. /\ bit \in WBits /\ bit \in LineShift .. PageShift - 1
        /\ j \in 0 .. ADDR_PER_BIT - 1
    BY <2>0, TestedBitIsColumn DEF LoopsInRange
  <2>2. \/ phase' = "low" /\ bit' = bit /\ j' \in 0 .. ADDR_PER_BIT - 1
        \/ phase' = "low" /\ bit' = bit + 1 /\ bit < PageShift - 1 /\ j' = 0
        \/ phase' = "map" /\ bit' = PageShift /\ j' = 0
    BY <1>2, <2>1, NextSampleEffect, Constants DEF SampleLow
  <2>3. LoopsInRange'
    BY <2>1, <2>2, Constants, SamplingAssumption DEF LoopsInRange
  <2>4. TypeOK'
    <3>1. SamplingTypeOK'
      BY <1>2, <2>0, <2>1, SampleKeepsTypes DEF SampleLow, TypeOK
    <3>2. bit' \in LineShift .. LastBit + 1 /\ phase' \in Phases
      BY <2>1, <2>2, Constants DEF Phases
    <3> QED BY <2>0, <3>1, <3>2 DEF TypeOK
  <2>5. PoolMapped' /\ FirstAddress' /\ GivenUp' /\ SearchedSoFar'
    BY <2>0, <2>2 DEF PoolMapped, FirstAddress, GivenUp, SearchedSoFar
  <2>6. Sampled'
    <3>1. bit \notin untested
      BY <2>0 DEF GivenUp
    <3> QED BY <1>2, <2>0, <3>1, LowPair, SampleKeepsCounts DEF SampleLow
  <2>7. ReportedFromCounts' /\ PairsDifferInOneBit' /\ UntestedOnlyWithoutPair'
    BY <2>0, <2>2 DEF ReportedFromCounts, PairsDifferInOneBit,
                      UntestedOnlyWithoutPair
  <2> QED
    BY <2>3, <2>4, <2>5, <2>6, <2>7
<1>3. ASSUME NEW m \in Layouts, MapPool(m)
      PROVE  IInv'
  <2>0. /\ UNCHANGED <<bit, j, w, errs, faults, low, page1, page2, paddr1,
                       report, untested, lost>>
        /\ phase = "map" /\ phase' = "first" /\ frame' = m
    BY <1>3 DEF MapPool, sampling, search, found
  <2>1. TypeOK'
    BY <2>0 DEF TypeOK, SamplingTypeOK, Phases, PoolMapped
  <2>2. LoopsInRange'
    BY <2>0, Constants DEF LoopsInRange
  <2>3. PoolMapped' /\ FirstAddress' /\ GivenUp'
    BY <2>0 DEF PoolMapped, FirstAddress, GivenUp
  <2>4. SearchedSoFar'
    <3>1. \A p \in Pages : ~ (p < page1')
      BY <2>0 DEF PoolMapped, Pages
    <3> QED BY <2>0, <3>1 DEF SearchedSoFar, Compared
  <2>5. Sampled'
    BY <2>0, NotSampling
  <2>6. ReportedFromCounts' /\ PairsDifferInOneBit' /\ UntestedOnlyWithoutPair'
    BY <2>0 DEF ReportedFromCounts, PairsDifferInOneBit,
                UntestedOnlyWithoutPair, PoolMapped
  <2> QED
    BY <2>1, <2>2, <2>3, <2>4, <2>5, <2>6
<1>4. ASSUME ReadFirst
      PROVE  IInv'
  <2>0. /\ UNCHANGED <<bit, j, w, errs, faults, low, frame, page1, report,
                       untested>>
        /\ phase = "first" /\ phase' = "second" /\ page2' = page1
        /\ paddr1' \in Translations(page1)
        /\ lost' = IF paddr1' = frame[page1] THEN lost ELSE lost \cup {bit}
    BY <1>4 DEF ReadFirst, sampling, memory, found, Translated
  <2>1. TypeOK'
    <3>1. paddr1' \in {NoAddress, AllOnes} \cup {frame[p] : p \in DOMAIN frame}
      BY <2>0, FramesOfPool DEF Translations, NoAddress, TypeOK, PoolMapped
    <3>2. lost' \in SUBSET (PageShift .. LastBit)
      BY <2>0 DEF TypeOK, LoopsInRange
    <3> QED BY <2>0, <3>1, <3>2 DEF TypeOK, SamplingTypeOK, Phases
  <2>2. LoopsInRange'
    BY <2>0 DEF LoopsInRange
  <2>3. PoolMapped' /\ FirstAddress' /\ GivenUp'
    BY <2>0 DEF PoolMapped, FirstAddress, GivenUp, Translations
  <2>4. SearchedSoFar'
    <3>1. page1 \in Int /\ \A p \in Pages : p \in Int
      BY DEF TypeOK, Pages
    <3>2. \A p, q \in Pages : Compared(p, q)' => Compared(p, q)
      BY <2>0, <3>1 DEF Compared
    <3> QED BY <2>0, <3>1, <3>2 DEF SearchedSoFar
  <2>5. Sampled'
    BY <2>0, NotSampling
  <2>6. ReportedFromCounts' /\ PairsDifferInOneBit' /\ UntestedOnlyWithoutPair'
    BY <2>0 DEF ReportedFromCounts, PairsDifferInOneBit, UntestedOnlyWithoutPair
  <2> QED
    BY <2>1, <2>2, <2>3, <2>4, <2>5, <2>6
<1>5. ASSUME FoundPair
      PROVE  IInv'
  <2>0. /\ UNCHANGED <<bit, j, w, errs, faults, low, frame, page1, page2,
                       paddr1, report, untested>>
        /\ phase = "second" /\ phase' = "sample"
    BY <1>5 DEF FoundPair, sampling, memory, search, found
  <2>1. PICK paddr2 \in Translations(page2) :
          /\ IsCandidate(paddr2)
          /\ lost' = IF paddr2 = frame[page2] THEN lost ELSE lost \cup {bit}
    BY <1>5 DEF FoundPair, Translated
  <2>2. TypeOK'
    <3>1. lost' \in SUBSET (PageShift .. LastBit)
      BY <2>0, <2>1 DEF TypeOK, LoopsInRange
    <3> QED BY <2>0, <3>1 DEF TypeOK, SamplingTypeOK, Phases
  <2>3. LoopsInRange'
    BY <2>0, SamplingAssumption DEF LoopsInRange
  <2>4. PoolMapped' /\ FirstAddress' /\ GivenUp' /\ SearchedSoFar'
    BY <2>0, <2>1 DEF PoolMapped, FirstAddress, GivenUp, SearchedSoFar
  <2>5. Sampled'
    BY <2>0, <2>1, NotSampling
  <2>6. PairsDifferInOneBit'
    BY <2>0, <2>1, CandidateIsPartner DEF PairsDifferInOneBit, FalsePartner
  <2>7. ReportedFromCounts' /\ UntestedOnlyWithoutPair'
    BY <2>0, <2>1 DEF ReportedFromCounts, UntestedOnlyWithoutPair
  <2> QED
    BY <2>2, <2>3, <2>4, <2>5, <2>6, <2>7
<1>6. ASSUME TryNext
      PROVE  IInv'
  <2>0. /\ UNCHANGED <<bit, j, w, errs, faults, low, frame, paddr1, report,
                       untested>>
        /\ phase = "second"
        /\ \/ /\ page2 < LastPage /\ page2' = page2 + 1
              /\ phase' = "second" /\ page1' = page1
           \/ /\ page2 = LastPage /\ page1 < LastPage /\ page1' = page1 + 1
              /\ phase' = "first" /\ page2' = page2
    BY <1>6 DEF TryNext, sampling, memory, found
  <2>1. PICK paddr2 \in Translations(page2) :
          /\ ~ IsCandidate(paddr2)
          /\ lost' = IF paddr2 = frame[page2] THEN lost ELSE lost \cup {bit}
    BY <1>6 DEF TryNext, Translated
  <2>2. page1 \in Pages /\ page2 \in Pages /\ page1 <= page2
    BY <2>0 DEF TypeOK, SearchedSoFar
  <2>3. TypeOK'
    <3>1. page1' \in Pages /\ page2' \in Pages
      BY <2>0, <2>2, XeonSearchAssumption DEF Pages, LastPage
    <3>2. lost' \in SUBSET (PageShift .. LastBit)
      BY <2>0, <2>1 DEF TypeOK, LoopsInRange
    <3> QED BY <2>0, <3>1, <3>2 DEF TypeOK, SamplingTypeOK, Phases
  <2>4. LoopsInRange'
    BY <2>0 DEF LoopsInRange
  <2>5. PoolMapped' /\ GivenUp'
    BY <2>0, <2>1 DEF PoolMapped, GivenUp
  <2>6. FirstAddress'
    BY <2>0, <2>1 DEF FirstAddress, Translations
  <2>7. SearchedSoFar'
    <3>1. page1 \in Int /\ page2 \in Int
      BY <2>2 DEF Pages
    <3>2. \A p, q \in Pages :
            Compared(p, q)' => Compared(p, q) \/ (p = page1 /\ q = page2)
      <4> SUFFICES ASSUME NEW p \in Pages, NEW q \in Pages, Compared(p, q)'
                   PROVE  Compared(p, q) \/ (p = page1 /\ q = page2)
        OBVIOUS
      <4>1. p \in Int /\ q \in Int /\ q <= LastPage
        BY DEF Pages, LastPage
      <4> QED BY <2>0, <3>1, <4>1 DEF Compared
    <3>3. bit \notin lost' => bit \notin lost /\ ~ IsCandidate(frame[page2])
      BY <2>1
    <3>4. phase' = "second" => page1' <= page2'
      BY <2>0, <2>2, <3>1
    <3> QED BY <2>0, <3>2, <3>3, <3>4, ComparedWithoutSuccess
            DEF SearchedSoFar
  <2>8. Sampled'
    BY <2>0, <2>1, NotSampling
  <2>9. ReportedFromCounts' /\ PairsDifferInOneBit' /\ UntestedOnlyWithoutPair'
    BY <2>0, <2>1 DEF ReportedFromCounts, PairsDifferInOneBit,
                      UntestedOnlyWithoutPair
  <2> QED
    BY <2>3, <2>4, <2>5, <2>6, <2>7, <2>8, <2>9
<1>7. ASSUME NotAble
      PROVE  IInv'
  <2>0. /\ UNCHANGED <<bit, j, w, errs, faults, low, frame, page1, page2,
                       paddr1, report>>
        /\ phase = "second" /\ phase' = "sample"
        /\ page1 = LastPage /\ page2 = LastPage
        /\ untested' = untested \cup {bit}
    BY <1>7 DEF NotAble, sampling, memory, search
  <2>1. PICK paddr2 \in Translations(page2) :
          /\ ~ IsCandidate(paddr2)
          /\ lost' = IF paddr2 = frame[page2] THEN lost ELSE lost \cup {bit}
    BY <1>7 DEF NotAble, Translated
  <2>2. bit \in PageShift .. LastBit /\ bit \in WBits /\ j = 0
    BY <2>0, Constants DEF LoopsInRange
  <2>3. TypeOK'
    <3>1. lost' \in SUBSET (PageShift .. LastBit) /\ untested' \in SUBSET WBits
      BY <2>0, <2>1, <2>2 DEF TypeOK, SamplingTypeOK
    <3> QED BY <2>0, <3>1 DEF TypeOK, SamplingTypeOK, Phases
  <2>4. LoopsInRange'
    BY <2>0, SamplingAssumption DEF LoopsInRange
  <2>5. PoolMapped' /\ FirstAddress' /\ SearchedSoFar'
    BY <2>0, <2>1 DEF PoolMapped, FirstAddress, SearchedSoFar
  <2>6. GivenUp'
    BY <2>0, <2>2 DEF GivenUp
  <2>7. Sampled'
    <3>1. \A b \in WBits : SamplesOf(b)' = SamplesOf(b)
      BY <2>0, <2>2 DEF SamplesOf
    <3>2. Untouched(bit)
      BY <2>0, <2>2 DEF Sampled, SamplesOf
    <3>3. OnlyErrors(bit)
      BY <3>2 DEF Untouched, OnlyErrors
    <3>4. \A b \in WBits : b \in untested' => OnlyErrors(b)
      BY <2>0, <3>3 DEF Sampled
    <3> QED BY <2>0, <2>1, <3>1, <3>4 DEF Sampled, Untouched, OnlyErrors, CountsFit
  <2>8. UntestedOnlyWithoutPair'
    <3>1. ASSUME bit \notin lost', NEW p \in Pages, NEW q \in Pages, p <= q
          PROVE  frame[p] # Flip(frame[q], bit)
      <4>1. bit \notin lost /\ ~ IsCandidate(frame[page2])
        BY <2>1, <3>1
      <4>2. p \in Int /\ q \in Int /\ q <= LastPage /\ p <= LastPage
        BY DEF Pages, LastPage
      <4>3. Compared(p, q) \/ (p = page1 /\ q = page2)
        BY <2>0, <3>1, <4>2, Constants DEF Compared, LastPage, Pages
      <4> QED BY <2>0, <4>1, <4>3, ComparedWithoutSuccess
    <3>2. ASSUME bit \notin lost', NEW p \in Pages, NEW q \in Pages
          PROVE  frame[p] # Flip(frame[q], bit)
      <4>1. p <= q \/ q <= p
        BY DEF Pages
      <4>2. CASE p <= q
        BY <3>1, <3>2, <4>2
      <4>3. CASE q <= p
        <5>1. frame[q] # Flip(frame[p], bit)
          BY <3>1, <3>2, <4>3
        <5> QED BY <5>1, FlipTwice
      <4> QED BY <4>1, <4>2, <4>3
    <3>3. \A b \in untested' \ lost' : b = bit \/ b \in untested \ lost
      BY <2>0, <2>1
    <3> QED BY <2>0, <3>2, <3>3 DEF UntestedOnlyWithoutPair
  <2>9. ReportedFromCounts' /\ PairsDifferInOneBit'
    BY <2>0 DEF ReportedFromCounts, PairsDifferInOneBit
  <2> QED
    BY <2>3, <2>4, <2>5, <2>6, <2>7, <2>8, <2>9
<1>8. ASSUME NEW s1 \in SUBSET Outputs, NEW s2 \in SUBSET Outputs,
             SampleHigh(s1, s2)
      PROVE  IInv'
  <2>0. /\ UNCHANGED <<low, frame, page2, paddr1, report, untested, lost>>
        /\ phase = "sample"
        /\ page1' = IF phase' = "first" THEN 0 ELSE page1
    BY <1>8 DEF SampleHigh, memory, found
  <2>1. /\ bit \in WBits /\ bit \in PageShift .. LastBit
        /\ j \in 0 .. ADDR_PER_BIT - 1
    BY <2>0, TestedBitIsColumn DEF LoopsInRange
  <2>2. \/ /\ phase' = "sample" /\ bit' = bit /\ j' \in 0 .. ADDR_PER_BIT - 1
        \/ /\ phase' = "first" /\ bit' = bit + 1 /\ bit < LastBit /\ j' = 0
        \/ /\ phase' = "report" /\ bit' = bit + 1 /\ bit' = LastBit + 1
           /\ j' = 0
    BY <1>8, <2>1, NextSampleEffect, Constants DEF SampleHigh
  <2>3. LoopsInRange'
    BY <2>1, <2>2, Constants DEF LoopsInRange
  <2>4. TypeOK'
    <3>1. SamplingTypeOK'
      BY <1>8, <2>0, <2>1, SampleKeepsTypes DEF SampleHigh, TypeOK
    <3>2. bit' \in LineShift .. LastBit + 1 /\ phase' \in Phases
      BY <2>1, <2>2, Constants DEF Phases
    <3>3. page1' \in Pages
      BY <2>0, Constants DEF TypeOK
    <3> QED BY <2>0, <3>1, <3>2, <3>3 DEF TypeOK
  <2>5. PoolMapped' /\ FirstAddress'
    BY <2>0, <2>2 DEF PoolMapped, FirstAddress
  <2>6. GivenUp'
    BY <2>0, <2>1, <2>2 DEF GivenUp, TypeOK, SamplingTypeOK, WBits
  <2>7. SearchedSoFar'
    <3>1. \A p \in Pages : ~ (p < 0)
      BY DEF Pages
    <3> QED BY <2>0, <2>2, <3>1 DEF SearchedSoFar, Compared
  <2>8. Sampled'
    <3>1. bit \in untested => page1 = page2
      BY <2>0 DEF GivenUp
    <3>2. bit \notin untested \cup lost => frame[page1] = Flip(frame[page2], bit)
      <4>1. frame[page1] # {}
        BY <2>0, FramesOfPool, FrameBits DEF TypeOK, PoolMapped
      <4> QED BY <2>0, <4>1 DEF PairsDifferInOneBit, FalsePartner,
                                FirstAddress, NoAddress
    <3> QED BY <1>8, <2>0, <3>1, <3>2, HighPair, SampleKeepsCounts
            DEF SampleHigh
  <2>9. PairsDifferInOneBit'
    BY <2>0, <2>2 DEF PairsDifferInOneBit, FalsePartner
  <2>10. ReportedFromCounts' /\ UntestedOnlyWithoutPair'
    BY <2>0, <2>2 DEF ReportedFromCounts, UntestedOnlyWithoutPair
  <2> QED
    BY <2>3, <2>4, <2>5, <2>6, <2>7, <2>8, <2>9, <2>10
<1>9. ASSUME Report
      PROVE  IInv'
  <2>0. /\ UNCHANGED <<bit, j, w, errs, faults, low, frame, page1, page2,
                       paddr1, untested, lost>>
        /\ phase = "report" /\ phase' = "done" /\ report' = Reported(WBits)
    BY <1>9 DEF Report, sampling, memory, search
  <2>1. TypeOK'
    <3>1. report' \in [Outputs -> SUBSET WBits]
      BY <2>0 DEF Reported
    <3> QED BY <2>0, <3>1 DEF TypeOK, SamplingTypeOK, Phases
  <2>2. LoopsInRange' /\ PoolMapped' /\ FirstAddress' /\ GivenUp' /\ SearchedSoFar'
    BY <2>0 DEF LoopsInRange, PoolMapped, FirstAddress, GivenUp, SearchedSoFar
  <2>3. Sampled'
    BY <2>0, NotSampling
  <2>4. ReportedFromCounts'
    BY <2>0 DEF ReportedFromCounts, Reported
  <2>5. PairsDifferInOneBit' /\ UntestedOnlyWithoutPair'
    BY <2>0 DEF PairsDifferInOneBit, UntestedOnlyWithoutPair
  <2> QED
    BY <2>1, <2>2, <2>3, <2>4, <2>5
<1>10. ASSUME Exit
       PROVE  IInv'
  <2>0. /\ UNCHANGED <<bit, j, w, errs, faults, low, frame, page1, page2,
                       paddr1, report, untested, lost>>
        /\ phase' = "exited"
    BY <1>10 DEF Exit, sampling, memory, search, found
  <2>1. TypeOK'
    BY <2>0 DEF TypeOK, SamplingTypeOK, Phases
  <2>2. LoopsInRange' /\ PoolMapped' /\ FirstAddress' /\ GivenUp' /\ SearchedSoFar'
    BY <2>0 DEF LoopsInRange, PoolMapped, FirstAddress, GivenUp, SearchedSoFar
  <2>3. Sampled' /\ ReportedFromCounts' /\ PairsDifferInOneBit'
    BY <2>0 DEF Sampled, ReportedFromCounts, PairsDifferInOneBit
  <2>4. UntestedOnlyWithoutPair'
    BY <2>0 DEF UntestedOnlyWithoutPair
  <2> QED
    BY <2>1, <2>2, <2>3, <2>4
<1>11. CASE UNCHANGED vars
  <2>0. UNCHANGED <<phase, bit, j, w, errs, faults, low, frame, page1, page2,
                    paddr1, report, untested, lost>>
    BY <1>11 DEF vars, sampling, memory, search, found
  <2>1. TypeOK'
    BY <2>0 DEF TypeOK, SamplingTypeOK
  <2>2. LoopsInRange' /\ PoolMapped' /\ FirstAddress' /\ GivenUp'
    BY <2>0 DEF LoopsInRange, PoolMapped, FirstAddress, Translations, GivenUp
  <2>3. SearchedSoFar' /\ UntestedOnlyWithoutPair'
    BY <2>0 DEF SearchedSoFar, Compared, UntestedOnlyWithoutPair
  <2>4. Sampled' /\ ReportedFromCounts' /\ PairsDifferInOneBit'
    BY <2>0 DEF Sampled, SamplesOf, Untouched, OnlyErrors, CountsFit,
       ReportedFromCounts, Reported, PairsDifferInOneBit, FalsePartner
  <2> QED
    BY <2>1, <2>2, <2>3, <2>4
<1> QED
  BY <1>1, <1>2, <1>3, <1>4, <1>5, <1>6, <1>7, <1>8, <1>9, <1>10, <1>11
     DEF Next, Step

-----------------------------------------------------------------------------
(* The invariant holds in every state of the search. *)
THEOREM Invariance == Spec => []IInv
<1>1. Init => IInv
  BY InitIInv
<1>2. IInv /\ [Next]_vars => IInv'
  BY NextIInv
<1> QED
  BY <1>1, <1>2, PTL DEF Spec

(* Type correctness: no count is written outside w, no page outside the    *)
(* pool is translated, whatever the pool.                                  *)
THEOREM TypeCorrect == Spec => []TypeOK
<1>1. IInv => TypeOK
  BY DEF IInv
<1> QED
  BY <1>1, Invariance, PTL

(* A bit that is tested is tested with two pages that differ in it alone,  *)
(* but for the one kind of failing translation that FalsePartner names.    *)
THEOREM OnlyPartnersArePaired == Spec => []PairsDifferInOneBit
<1>1. IInv => PairsDifferInOneBit
  BY DEF IInv
<1> QED
  BY <1>1, Invariance, PTL

(* No pair of pages is overlooked by the two nested loops, although each   *)
(* pair is tried in one order only.                                        *)
THEOREM SearchIsComplete == Spec => []UntestedOnlyWithoutPair
<1>1. IInv => UntestedOnlyWithoutPair
  BY DEF IInv
<1> QED
  BY <1>1, Invariance, PTL

(* A bit that was given up is sampled with twice the same page, so that it *)
(* is reported only for more than THRESHOLD wrong samples.                 *)
THEOREM GivenUpNotReported == Spec => []UntestedNotReported
<1>1. IInv => UntestedNotReported
  <2> SUFFICES ASSUME IInv, phase = "done", NEW b \in untested,
                      errs[b] <= THRESHOLD, NEW k \in Outputs
               PROVE  b \notin report[k]
    BY DEF UntestedNotReported
  <2>1. b \in WBits
    BY DEF IInv, TypeOK, SamplingTypeOK
  <2>2. w[k][b] \in Nat /\ errs[b] \in Nat /\ THRESHOLD \in Nat
    BY <2>1, SamplingAssumption DEF IInv, TypeOK, SamplingTypeOK
  <2>3. w[k][b] <= errs[b]
    BY <2>1 DEF IInv, Sampled, OnlyErrors
  <2>4. b \in report[k] <=> w[k][b] > THRESHOLD
    BY <2>1 DEF IInv, ReportedFromCounts, Reported
  <2> QED
    BY <2>2, <2>3, <2>4
<1> QED
  BY <1>1, Invariance, PTL

(* The result is right: a bit that was tested, without a failing           *)
(* translation, and measured well enough is printed for exactly the        *)
(* outputs of the hash it belongs to, for any linear hash.                 *)
THEOREM ResultIsExact == Spec => []ReportExact
<1>1. IInv => ReportExact
  <2> SUFFICES ASSUME IInv, phase = "done", NEW b \in WBits,
                      b \notin untested \cup lost, WellMeasured(b),
                      NEW k \in Outputs
               PROVE  b \in report[k] <=> b \in Mask[k]
    BY DEF ReportExact, Retrieved
  <2>1. SamplesOf(b) = ADDR_PER_BIT
    BY Constants DEF IInv, LoopsInRange, SamplesOf
  <2>2. CountsFit(b, ADDR_PER_BIT)
    BY <2>1 DEF IInv, Sampled
  <2>3. b \in report[k] <=> w[k][b] > THRESHOLD
    BY DEF IInv, ReportedFromCounts, Reported
  <2> QED
    BY <2>2, <2>3, ThresholdSeparates DEF IInv, TypeOK
<1> QED
  BY <1>1, Invariance, PTL
=============================================================================
