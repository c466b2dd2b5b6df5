----------------------------- MODULE ReverseXeon -----------------------------
(***************************************************************************)
(* reverse_xeon of reverse.c (lines 385-532), the search for the hash of a *)
(* server processor.  The bits inside a page of 1 GB are sampled in one    *)
(* page, as reverse_generic does.  For a higher bit the pages of the pool  *)
(* are compared two by two, reading /proc/self/pagemap anew each time,     *)
(* until two addresses differ in that bit alone.                           *)
(*                                                                         *)
(* When the search finds none it says "Not able to test bit" and, unlike   *)
(* reverse_generic, samples all the same, with the pages it tried last.    *)
(***************************************************************************)
EXTENDS HashSampling

CONSTANTS
  PageShift,    \* log2 of a huge page: 30
  HighBits,     \* address bits searched with several pages: 5
  NB_PAGES,     \* pages of the pool: 11
  LowFrames,    \* possible frames of the first page (sets of bits)
  Layouts,      \* possible page tables of the pool: page number -> frame
  MayFail       \* may a translation by /proc/self/pagemap fail?

Pages == 0 .. NB_PAGES - 1
LastPage == NB_PAGES - 1
LastBit == PageShift + HighBits - 1

(* No huge page lies at physical address 0, and no two at the same one.    *)
IsFrame(x) == IsFiniteSet(x) /\ x # {} /\ \A b \in x : b \in PageShift .. 63

ASSUME XeonSearchAssumption ==
  /\ PageShift \in Nat /\ LineShift < PageShift
  /\ HighBits \in Nat \ {0} /\ NB_PAGES \in Nat \ {0}
  /\ LastBit = LineShift + Columns - 1
  /\ \A x \in LowFrames : IsFrame(x)
  /\ \A m \in Layouts : m \in [Pages -> {m[p] : p \in Pages}]
  /\ \A m \in Layouts : \A p, q \in Pages : IsFrame(m[p]) /\ (m[p] = m[q] => p = q)
  /\ \A n \in 0 .. ADDR_PER_BIT - 1 : LineOffset(n) \subseteq 0 .. PageShift - 1
  /\ MayFail \in BOOLEAN

VARIABLES
  low,     \* physical frame of the first huge page
  frame,   \* the page table: physical frame of each page of the pool
  page1,   \* page of the pool at offset1
  page2,   \* page of the pool at offset2
  paddr1,  \* what read_pagemap answered for page1
  \* history
  lost     \* bits during whose search a translation failed

memory == <<low, frame>>
search == <<page1, page2, paddr1>>
found == <<report, untested>>
vars == <<phase, sampling, memory, search, found, lost>>

Phases == {"start", "low", "map", "first", "second", "sample", "report",
           "done", "exited"}

NoAddress == {}         \* a paddr of 0
AllOnes == 0 .. 63      \* a paddr of -1

TypeOK ==
  /\ phase \in Phases
  /\ bit \in LineShift .. LastBit + 1
  /\ SamplingTypeOK
  /\ low \in LowFrames
  /\ frame \in Layouts \cup {<<>>}
  /\ page1 \in Pages /\ page2 \in Pages
  /\ paddr1 \in {NoAddress, AllOnes} \cup {frame[p] : p \in DOMAIN frame}
  /\ lost \in SUBSET (PageShift .. LastBit)

Init ==
  /\ SamplingInit
  /\ low \in LowFrames
  /\ frame = <<>>
  /\ page1 = 0 /\ page2 = 0
  /\ paddr1 = NoAddress
  /\ lost = {}

-----------------------------------------------------------------------------
MapFirst ==
  /\ phase = "start"
  /\ phase' = "low"
  /\ UNCHANGED <<sampling, memory, search, found, lost>>

(* One sample of bits 6 .. 29: offset1 = j << 6, offset2 = offset1 ^ bit.  *)
SampleLow(s1, s2) ==
  /\ phase = "low"
  /\ Compare(low \cup LineOffset(j), low \cup Flip(LineOffset(j), bit), s1, s2)
  /\ NextSample("low", "low", "map", PageShift - 1)
  /\ UNCHANGED <<memory, search, found, lost>>

MapPool(m) ==
  /\ phase = "map"
  /\ frame' = m
  /\ phase' = "first"
  /\ UNCHANGED <<sampling, low, search, found, lost>>

(* What read_pagemap answers for page p: its address; 0 if the entry is    *)
(* missing; -1 if the file cannot be opened.                               *)
Translations(p) ==
  {frame[p]} \cup (IF MayFail THEN {NoAddress, AllOnes} ELSE {})

Translated(p, paddr) ==
  lost' = IF paddr = frame[p] THEN lost ELSE lost \cup {bit}

(* The head of the loop over offset1; offset2 starts at the same page.     *)
ReadFirst ==
  /\ phase = "first"
  /\ paddr1' \in Translations(page1)
  /\ Translated(page1, paddr1')
  /\ page2' = page1
  /\ phase' = "second"
  /\ UNCHANGED <<sampling, memory, page1, found>>

(* Faulty variants: the addresses are compared below the bit only; the     *)
(* addresses are compared as they are.                                     *)
IsCandidateUnderMask(paddr2) == paddr2 \ {bit} = paddr1 \ {bit}
IsCandidateEqual(paddr2) == paddr2 = paddr1

(* candidate == paddr2, where candidate = paddr1 ^ mask.                   *)
IsCandidate(paddr2) == paddr2 = Flip(paddr1, bit)

FoundPair ==
  /\ phase = "second"
  /\ \E paddr2 \in Translations(page2) :
       IsCandidate(paddr2) /\ Translated(page2, paddr2)
  /\ phase' = "sample"
  /\ UNCHANGED <<sampling, memory, search, found>>

(* Another offset2, or the next offset1. *)
TryNext ==
  /\ phase = "second"
  /\ \E paddr2 \in Translations(page2) :
       ~IsCandidate(paddr2) /\ Translated(page2, paddr2)
  /\ \/ /\ page2 < LastPage
        /\ page2' = page2 + 1
        /\ UNCHANGED <<phase, page1>>
     \/ /\ page2 = LastPage /\ page1 < LastPage
        /\ page1' = page1 + 1
        /\ phase' = "first"
        /\ UNCHANGED page2
  /\ UNCHANGED <<sampling, memory, paddr1, found>>

(* Faulty variants: without "i == NB_PAGES - 1"; the search begins again;  *)
(* offset1 is reset.                                                       *)
NotAbleAnyPage ==
  /\ phase = "second" /\ page2 = LastPage
  /\ \E paddr2 \in Translations(page2) :
       ~IsCandidate(paddr2) /\ Translated(page2, paddr2)
  /\ untested' = untested \cup {bit}
  /\ phase' = "sample"
  /\ UNCHANGED <<sampling, memory, search, report>>

NotAbleRetry ==
  /\ phase = "second" /\ page1 = LastPage /\ page2 = LastPage
  /\ \E paddr2 \in Translations(page2) :
       ~IsCandidate(paddr2) /\ Translated(page2, paddr2)
  /\ untested' = untested \cup {bit}
  /\ phase' = "first"
  /\ page1' = 0
  /\ UNCHANGED <<sampling, memory, page2, paddr1, report>>

NotAbleFirstPage ==
  /\ phase = "second" /\ page1 = LastPage /\ page2 = LastPage
  /\ \E paddr2 \in Translations(page2) :
       ~IsCandidate(paddr2) /\ Translated(page2, paddr2)
  /\ untested' = untested \cup {bit}
  /\ phase' = "sample"
  /\ page1' = 0
  /\ UNCHANGED <<sampling, memory, page2, paddr1, report>>

(* "Not able to test bit": both loops are over, and sampling follows.      *)
NotAble ==
  /\ phase = "second" /\ page1 = LastPage /\ page2 = LastPage
  /\ \E paddr2 \in Translations(page2) :
       ~IsCandidate(paddr2) /\ Translated(page2, paddr2)
  /\ untested' = untested \cup {bit}
  /\ phase' = "sample"
  /\ UNCHANGED <<sampling, memory, search, report>>

(* One sample of bits 30 .. 34: the same line of both pages.               *)
SampleHigh(s1, s2) ==
  /\ phase = "sample"
  /\ Compare(frame[page1] \cup LineOffset(j),
             frame[page2] \cup LineOffset(j), s1, s2)
  /\ NextSample("sample", "first", "report", LastBit)
  /\ page1' = IF phase' = "first" THEN 0 ELSE page1
  /\ UNCHANGED <<memory, page2, paddr1, found, lost>>

Report ==
  /\ phase = "report"
  /\ report' = Reported(WBits)
  /\ phase' = "done"
  /\ UNCHANGED <<sampling, memory, search, untested, lost>>

(* A failed mmap or MSR access, or a signal. *)
Exit ==
  /\ ~Ended
  /\ phase' = "exited"
  /\ UNCHANGED <<sampling, memory, search, found, lost>>

Step ==
  \/ MapFirst
  \/ \E s1, s2 \in SUBSET Outputs : SampleLow(s1, s2)
  \/ \E m \in Layouts : MapPool(m)
  \/ ReadFirst \/ FoundPair \/ TryNext \/ NotAble
  \/ \E s1, s2 \in SUBSET Outputs : SampleHigh(s1, s2)
  \/ Report

Next == Step \/ Exit

(* The program is one process that never waits: it runs on. *)
Spec == Init /\ [][Next]_vars
FairSpec == Spec /\ WF_vars(Step)

-----------------------------------------------------------------------------
(***************************************************************************)
(* A bit that is tested is tested with two pages that differ in it and in  *)
(* no other bit, even though translations fail.  There is one exception: a *)
(* failed translation reads as address 0, and the page at the physical     *)
(* address that is this one bit passes for its partner.                    *)
(***************************************************************************)
FalsePartner ==
  \/ paddr1 = NoAddress /\ frame[page2] = {bit}
  \/ frame[page1] = {bit} /\ bit \in lost

PairsDifferInOneBit ==
  phase = "sample" /\ bit \notin untested =>
    frame[page1] = Flip(frame[page2], bit) \/ FalsePartner

(***************************************************************************)
(* "Not able to test bit" is printed only if no two pages of the pool      *)
(* differ in that bit alone, although only pairs in one order are tried.   *)
(***************************************************************************)
UntestedOnlyWithoutPair ==
  \A b \in untested \ lost : \A p, q \in Pages : frame[p] # Flip(frame[q], b)

(***************************************************************************)
(* A bit that could not be tested is sampled all the same, but never       *)
(* reported unless more than THRESHOLD of its samples were wrong: whatever *)
(* the pool, the pages tried last are twice the same page.                 *)
(***************************************************************************)
UntestedNotReported ==
  phase = "done" =>
    \A b \in untested : errs[b] <= THRESHOLD =>
      \A k \in Outputs : b \notin report[k]

(***************************************************************************)
(* The result.  A bit that was tested, without a failing translation, and  *)
(* measured well enough is printed for exactly the outputs of the hash it  *)
(* belongs to.                                                             *)
(***************************************************************************)
ReportExact ==
  phase = "done" =>
    \A b \in WBits \ (untested \cup lost) : WellMeasured(b) => Retrieved(b)

(***************************************************************************)
(* The search ends: with a report, or because the process exits.           *)
(***************************************************************************)
Terminates == <>Ended
=============================================================================
