--------------------------- MODULE ReverseGeneric ---------------------------
(***************************************************************************)
(* reverse_generic of reverse.c (lines 537-767), the search that recovers  *)
(* the hash of a client processor: for every physical address bit it       *)
(* measures pairs of addresses that should differ in that bit alone, and   *)
(* reports the bit for hash output k when output k differed more than      *)
(* THRESHOLD times.  Addresses, samples and the report: HashSampling.      *)
(*                                                                         *)
(* Two things can go wrong and are part of the model: a measurement may be *)
(* wrong (SliceProbe says when), and rev_map, the inverse of the page      *)
(* table by which pairs are found, may not be what it should be.           *)
(***************************************************************************)
EXTENDS HashSampling

CONSTANTS
  PageShift,    \* log2 of a huge page: 21
  IntBits,      \* width of the type in which the ppn mask is computed: 32
  LowFrames,    \* possible frames of the first page (sets of bits)
  FreePages,    \* possible values of HugePages_Free
  Layouts,      \* possible page tables of the pool: page number -> frame
  MayFail       \* may a translation by /proc/self/pagemap fail?

ByteOffset(n) == BitsOf(n)

(* bit_max = ceil(log2(MMAP_SIZE_CORE)) for a pool of h pages. *)
CeilLog2(h) == CHOOSE c \in 0 .. h : h <= 2^c /\ \A d \in 0 .. c - 1 : 2^d < h
BitMax(h) == PageShift + CeilLog2(h)

IsFrame(x) == IsFiniteSet(x) /\ \A b \in x : b \in Nat /\ b >= PageShift

ASSUME ReverseAssumption ==
  /\ PageShift \in Nat /\ LineShift < PageShift /\ IntBits \in Nat
  /\ PageShift <= Columns
  /\ \A x \in LowFrames : IsFrame(x)
  /\ FreePages \subseteq Nat
  /\ \A h \in FreePages : BitMax(h) \in PageShift .. Columns
  /\ \A m \in Layouts : \E h \in FreePages : m \in [0 .. h - 1 -> {m[p] : p \in 0 .. h - 1}]
  /\ \A m \in Layouts : \A p, q \in DOMAIN m : IsFrame(m[p]) /\ (m[p] = m[q] => p = q)
  /\ \A n \in 0 .. ADDR_PER_BIT - 1 : ByteOffset(n) \subseteq 0 .. PageShift - 1
  /\ MayFail \in BOOLEAN

NoPage == -1
AllOnes == PageShift .. 63   \* the frame bits of a paddr of -1

VARIABLES
  low,     \* physical frame of the first huge page
  hugepages_free,
  frame,   \* the page table: physical frame of each page of the pool
  bit_max,
  rev_map, \* frame number (as a set of bits) -> page of the pool
  pair,    \* the two pages whose addresses are compared
  \* history
  lost,      \* pages whose translation failed
  overrun    \* was rev_map written outside its allocation?

pool == <<hugepages_free, frame, bit_max>>
found == <<low, report, untested>>
history == <<lost, overrun>>
vars == <<phase, sampling, pool, rev_map, pair, found, history>>

Phases == {"start", "low", "count", "map", "record", "pair", "sample",
           "report", "done", "exited"}

(* The indices of rev_map: mapping_size = 2^(bit_max - 21 + 2) entries.    *)
PpnBits == PageShift .. bit_max + 1
Ppns == SUBSET PpnBits

(* "~(~0 << (bit_max - 21 + 1)) << 21" is an int.  While it fits below the *)
(* sign bit it keeps bits 21 .. bit_max; beyond that it is negative, is    *)
(* sign-extended to 64 bits, and keeps every bit from 21 up.               *)
MaskedBits == bit_max - PageShift + 1
Truncates == PageShift + MaskedBits < IntBits

(* A faulty variant, for checking the properties: the mask is a bit short. *)
PpnShortMask(paddr) ==
  IF Truncates THEN paddr \cap (PageShift .. bit_max - 1) ELSE paddr

(* The frame number of a page, the bits of a physical address the mask     *)
(* keeps; kept as bits, where the code shifts them down by 21.             *)
Ppn(paddr) == IF Truncates THEN paddr \cap (PageShift .. bit_max) ELSE paddr

TypeOK ==
  /\ phase \in Phases
  /\ bit \in LineShift .. bit_max + 1
  /\ SamplingTypeOK
  /\ low \in LowFrames
  /\ hugepages_free \in FreePages \cup {0}
  /\ frame \in Layouts \cup {<<>>}
  /\ bit_max \in PageShift .. Columns
  /\ rev_map \in [Ppns -> {NoPage} \cup Nat]
  /\ pair \in {<<>>} \cup (Nat \X Nat)
  /\ lost \in SUBSET Nat
  /\ overrun \in BOOLEAN

NoRevMap == [x \in SUBSET (PageShift .. PageShift + 1) |-> NoPage]

Init ==
  /\ SamplingInit
  /\ low \in LowFrames
  /\ hugepages_free = 0
  /\ frame = <<>>
  /\ bit_max = PageShift
  /\ rev_map = NoRevMap
  /\ pair = <<>>
  /\ lost = {}
  /\ overrun = FALSE

-----------------------------------------------------------------------------
MapFirst ==
  /\ phase = "start"
  /\ phase' = "low"
  /\ UNCHANGED <<sampling, pool, rev_map, pair, found, history>>

(* One sample of bits 6 .. 20: offset1 = j << 6, offset2 = offset1 ^ bit.  *)
SampleLow(s1, s2) ==
  /\ phase = "low"
  /\ Compare(low \cup LineOffset(j), low \cup Flip(LineOffset(j), bit), s1, s2)
  /\ NextSample("low", "low", "count", PageShift - 1)
  /\ UNCHANGED <<pool, rev_map, pair, found, history>>

(* HugePages_Free is read by a shell pipeline... *)
CountFree(h) ==
  /\ phase = "count"
  /\ hugepages_free' = h
  /\ phase' = "map"
  /\ UNCHANGED <<sampling, frame, bit_max, rev_map, pair, found, history>>

(* ... and so many pages are mapped.                                       *)
MapPool(m) ==
  /\ phase = "map"
  /\ hugepages_free > 0
  /\ DOMAIN m = 0 .. hugepages_free - 1
  /\ frame' = m
  /\ bit_max' = BitMax(hugepages_free)
  /\ rev_map' = [x \in SUBSET (PageShift .. bit_max' + 1) |-> NoPage]
  /\ phase' = "record"
  /\ j' = 0
  /\ UNCHANGED <<bit, w, errs, faults, hugepages_free, pair, found, history>>

(* They may be gone by now, and a pool of no pages cannot be mapped.       *)
MapPoolFails ==
  /\ phase = "map"
  /\ phase' = "exited"
  /\ UNCHANGED <<sampling, pool, rev_map, pair, found, history>>

(* What read_pagemap answers for page p: its address; 0 if the entry is    *)
(* missing; -1 if the file cannot be opened.                               *)
Translations(p) ==
  {frame[p]} \cup (IF MayFail THEN {{}, AllOnes} ELSE {})

(* Writing beyond the allocation corrupts the heap: the run may go on      *)
(* (here) or crash (Exit).                                                 *)
RecordPage ==
  /\ phase = "record"
  /\ \E paddr \in Translations(j) :
       /\ IF Ppn(paddr) \in Ppns
          THEN /\ rev_map' = [rev_map EXCEPT ![Ppn(paddr)] = j]
               /\ UNCHANGED overrun
          ELSE /\ overrun' = TRUE
               /\ UNCHANGED rev_map
       /\ lost' = IF paddr = frame[j] THEN lost ELSE lost \cup {j}
  /\ IF j + 1 < hugepages_free
     THEN j' = j + 1 /\ UNCHANGED phase
     ELSE j' = 0 /\ phase' = "pair"
  /\ UNCHANGED <<bit, w, errs, faults, pool, pair, found>>

ValidPpn(x) == rev_map[x] # NoPage /\ rev_map[Flip(x, bit)] # NoPage

(* The search takes the first valid entry; the model takes any.            *)
FindPair(x) ==
  /\ phase = "pair"
  /\ ValidPpn(x)
  /\ pair' = <<rev_map[x], rev_map[Flip(x, bit)]>>
  /\ phase' = "sample"
  /\ j' = 0
  /\ UNCHANGED <<bit, w, errs, faults, pool, rev_map, found, history>>

(* Faulty variants: is_candidate is never set; the bit is not left; the    *)
(* "continue" is missing, as in reverse_xeon.                              *)
NoPairEver ==
  /\ phase = "pair"
  /\ untested' = untested \cup {bit}
  /\ bit' = bit + 1
  /\ phase' = IF bit < bit_max THEN "pair" ELSE "report"
  /\ UNCHANGED <<j, w, errs, faults, pool, rev_map, pair, low, report, history>>

NoPairSameBit ==
  /\ phase = "pair"
  /\ \A x \in Ppns : ~ValidPpn(x)
  /\ untested' = untested \cup {bit}
  /\ UNCHANGED <<phase, sampling, pool, rev_map, pair, low, report, history>>

NoPairNoContinue ==
  /\ phase = "pair"
  /\ \A x \in Ppns : ~ValidPpn(x)
  /\ untested' = untested \cup {bit}
  /\ pair' = <<0, hugepages_free - 1>>
  /\ phase' = "sample"
  /\ UNCHANGED <<sampling, pool, rev_map, low, report, history>>

(* "Not able to test bit": go on with the next one. *)
NoPair ==
  /\ phase = "pair"
  /\ \A x \in Ppns : ~ValidPpn(x)
  /\ untested' = untested \cup {bit}
  /\ bit' = bit + 1
  /\ phase' = IF bit < bit_max THEN "pair" ELSE "report"
  /\ UNCHANGED <<j, w, errs, faults, pool, rev_map, pair, low, report, history>>

(* One sample of bits 21 .. bit_max: the same byte offset in both pages.   *)
SampleHigh(s1, s2) ==
  /\ phase = "sample"
  /\ Compare(frame[pair[1]] \cup ByteOffset(j),
             frame[pair[2]] \cup ByteOffset(j), s1, s2)
  /\ NextSample("sample", "pair", "report", bit_max)
  /\ UNCHANGED <<pool, rev_map, pair, found, history>>

(* Columns i < bit_max of w are looked at: address bits 6 .. bit_max + 5.  *)
Report ==
  /\ phase = "report"
  /\ report' = Reported(LineShift .. LineShift + bit_max - 1)
  /\ phase' = "done"
  /\ UNCHANGED <<sampling, pool, rev_map, pair, low, untested, history>>

(* The first mmap, popen or an MSR access fails, or a signal arrives. *)
Exit ==
  /\ ~Ended
  /\ phase' = "exited"
  /\ UNCHANGED <<sampling, pool, rev_map, pair, found, history>>

Step ==
  \/ MapFirst
  \/ \E s1, s2 \in SUBSET Outputs : SampleLow(s1, s2)
  \/ \E h \in FreePages : CountFree(h)
  \/ \E m \in Layouts : MapPool(m)
  \/ MapPoolFails
  \/ RecordPage
  \/ \E x \in Ppns : FindPair(x)
  \/ NoPair
  \/ \E s1, s2 \in SUBSET Outputs : SampleHigh(s1, s2)
  \/ Report

Next == Step \/ Exit

(* The program is one process that never waits: it runs on. *)
Spec == Init /\ [][Next]_vars
FairSpec == Spec /\ WF_vars(Step)

-----------------------------------------------------------------------------
(* The pool suits rev_map: where the mask drops the bits above bit_max,    *)
(* all pages agree on them.                                                *)
SameHighBits ==
  Truncates => \A p, q \in DOMAIN frame :
    frame[p] \ (PageShift .. bit_max) = frame[q] \ (PageShift .. bit_max)

Tested == (LineShift .. bit_max) \ untested

(***************************************************************************)
(* The two pages a bit is tested with, if the translation of neither of    *)
(* them failed, differ in the tested bit and in no other bit up to         *)
(* bit_max, whatever the pool and whatever happened to other pages; and in *)
(* no other bit at all, unless the mask drops bits in which pages of the   *)
(* pool differ (SameHighBits).  A page whose translation failed is in      *)
(* rev_map under the wrong frame and may be half of a false pair; what the *)
(* dropped bits do is UnretrievedBitsAnnounced.                            *)
(***************************************************************************)
PairsDifferInOneBit ==
  phase = "sample" /\ pair[1] \notin lost /\ pair[2] \notin lost =>
    /\ frame[pair[1]] \cap (PageShift .. bit_max)
         = Flip(frame[pair[2]], bit) \cap (PageShift .. bit_max)
    /\ SameHighBits => frame[pair[1]] = Flip(frame[pair[2]], bit)

(***************************************************************************)
(* "Not able to test bit" is printed only if no two pages of the pool      *)
(* differ in that bit alone: two that were translated are never            *)
(* overlooked, even if others were not, and even if several pages share an *)
(* entry of rev_map.  (A page written beyond rev_map is lost to the        *)
(* search: nothing is claimed after an overrun.)                           *)
(***************************************************************************)
UntestedOnlyWithoutPair ==
  ~overrun =>
    \A b \in untested : \A p, q \in DOMAIN frame \ lost :
      frame[p] # Flip(frame[q], b)

(***************************************************************************)
(* The result, if every page was translated and the mask dropped no bit in *)
(* which two pages differ (SameHighBits).  For every bit that was tested   *)
(* and measured well enough - no more than THRESHOLD samples wrong, more   *)
(* than THRESHOLD right - the bit is printed for exactly those outputs of  *)
(* the hash it belongs to.                                                 *)
(***************************************************************************)
ReportExact ==
  phase = "done" /\ lost = {} /\ SameHighBits =>
    \A b \in Tested : WellMeasured(b) => Retrieved(b)

(***************************************************************************)
(* Whatever the pool, the translations and the measurements, a bit is      *)
(* never printed as part of the hash unless it was tested.                 *)
(***************************************************************************)
OnlyTestedReported ==
  phase = "done" => \A k \in Outputs : report[k] \subseteq Tested

(***************************************************************************)
(* The search ends: with a report, or because the process exits.           *)
(***************************************************************************)
Terminates == <>Ended

(***************************************************************************)
(* The comment of reverse.c line 679, "keep bits 21 to bit_max+1 from the  *)
(* address": an index so masked lies inside rev_map, which has one entry   *)
(* for each of them.                                                       *)
(***************************************************************************)
IndexInsideRevMap == ~overrun

(***************************************************************************)
(* README.md line 80: "If not enough huge pages are allocated, a message   *)
(* will be displayed to inform which bits of the function cannot be        *)
(* retrieved."  When every measurement is right and every translation      *)
(* succeeds, a bit that is not printed for the outputs it belongs to has   *)
(* been announced as not testable.                                         *)
(***************************************************************************)
UnretrievedBitsAnnounced ==
  phase = "done" /\ lost = {} /\ faults = 0 =>
    \A b \in LineShift .. bit_max : Retrieved(b) \/ b \in untested
=============================================================================
