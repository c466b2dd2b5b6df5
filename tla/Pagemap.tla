------------------------------- MODULE Pagemap -------------------------------
(***************************************************************************)
(* The translation of virtual to physical addresses: read_pagemap of       *)
(* util.c (lines 235-289), and the cache of one page in front of it in     *)
(* poke of poke.c (lines 37-57).  The kernel owns the page table and may   *)
(* change it at any time: a page is unmapped, swapped out, or moved.       *)
(*                                                                         *)
(* A physical address is a pair <<page frame number, offset>>.             *)
(*                                                                         *)
(* read_pagemap opens a file on every call and closes it on success only,  *)
(* so failures use up the descriptors that later calls, and the commands   *)
(* the clflush measurement runs by popen, need.                            *)
(***************************************************************************)
EXTENDS Integers

CONSTANTS
  Pages,    \* virtual page numbers
  Frames,   \* page frame numbers
  Offsets,  \* offsets in a page
  MaxFiles, \* descriptors the process may still open (about 1000)
  MayFail,  \* may seeking or reading /proc/self/pagemap fail?
  MaxFailures \* BOUND: translations that fail

ASSUME PagemapAssumption ==
  /\ Frames \subseteq Nat \ {0}
  /\ 0 \in Offsets /\ Offsets \subseteq 0 .. 4095
  /\ MaxFiles \in Nat \ {0} /\ MayFail \in BOOLEAN /\ MaxFailures \in Nat

Absent == 0             \* no entry, not present, or swapped out
NoPage == -1            \* (uint64_t)-1 is no page number
AllOnes == 2^16 - 1     \* stands for 2^52 - 1, the frame number of a paddr of -1

Minus1 == <<AllOnes, 4095>>
Zero == <<0, 0>>

VARIABLES
  frame,           \* the page table: the frame of each page, or Absent
  open,            \* descriptors that were opened and never closed
  lastVirtualPage, \* static variables of poke
  lastPhysPage,
  asked,           \* the page and the offset of the last translation
  paddr,           \* and its result
  exited,
  \* history
  failures,        \* translations that failed
  trusted          \* has the page in the cache kept the frame it was read with,
                   \* and did that reading succeed?

cache == <<lastVirtualPage, lastPhysPage, trusted>>
pagemapVars == <<frame, open, cache, asked, paddr, exited, failures>>

PagemapTypeOK ==
  /\ frame \in [Pages -> Frames \cup {Absent}]
  /\ open \in 0 .. MaxFiles
  /\ lastVirtualPage \in Pages \cup {NoPage}
  /\ lastPhysPage \in Frames \cup {0, AllOnes}
  /\ asked \in Pages \X Offsets
  /\ paddr \in (Frames \cup {0, AllOnes}) \X (Offsets \cup {4095})
  /\ exited \in BOOLEAN /\ trusted \in BOOLEAN
  /\ failures \in 0 .. MaxFailures

PagemapInit ==
  /\ frame \in [Pages -> Frames \cup {Absent}]
  /\ open = 0
  /\ lastVirtualPage = NoPage /\ lastPhysPage = AllOnes
  /\ asked \in Pages \X {0}
  /\ paddr = Zero
  /\ exited = FALSE
  /\ failures = 0
  /\ trusted = FALSE

-----------------------------------------------------------------------------
(* fopen fails: no descriptor is left. *)
CannotOpen == open = MaxFiles /\ paddr' = Minus1 /\ UNCHANGED open

(* fseek fails; or the entry cannot be read, or is not present or swapped. *)
Leaks ==
  /\ open < MaxFiles
  /\ open' = open + 1
  /\ \/ MayFail /\ paddr' = Minus1
     \/ (MayFail \/ frame[asked'[1]] = Absent) /\ paddr' = Zero

(* A faulty variant, for checking the properties: success does not close   *)
(* the file either.                                                        *)
SucceedsWithoutClosing ==
  /\ open < MaxFiles
  /\ frame[asked'[1]] # Absent
  /\ paddr' = <<frame[asked'[1]], asked'[2]>>
  /\ open' = open + 1

Succeeds ==
  /\ open < MaxFiles
  /\ frame[asked'[1]] # Absent
  /\ paddr' = <<frame[asked'[1]], asked'[2]>>
  /\ UNCHANGED open

ReadPagemap ==
  \/ /\ failures < MaxFailures
     /\ CannotOpen \/ Leaks
     /\ failures' = failures + 1
  \/ Succeeds /\ UNCHANGED failures

(* Called by a search or by the clflush measurement. *)
Translate(page, offset) ==
  /\ ~exited
  /\ asked' = <<page, offset>>
  /\ ReadPagemap
  /\ UNCHANGED <<frame, cache, exited>>

(* poke for an address in the cached page... *)
PokeHit(page, offset) ==
  /\ ~exited
  /\ page = lastVirtualPage
  /\ asked' = <<page, offset>>
  /\ paddr' = <<lastPhysPage, offset>>
  /\ UNCHANGED <<frame, open, cache, exited, failures>>

(* Faulty variants: the address is stored, not the frame; only the page    *)
(* is stored.                                                              *)
StoredUnshifted(page) ==
  /\ lastVirtualPage' = page
  /\ lastPhysPage' = paddr'[1] * 4096 + paddr'[2]
  /\ trusted' = (failures' = failures)

StoredPageOnly(page) ==
  /\ lastVirtualPage' = page
  /\ UNCHANGED lastPhysPage
  /\ trusted' = (failures' = failures)

(* "lastVirtualPage = addr >> 12; lastPhysPage = paddr >> 12", also when   *)
(* paddr is 0 or -1.                                                       *)
Stored(page) ==
  /\ lastVirtualPage' = page
  /\ lastPhysPage' = paddr'[1]
  /\ trusted' = (failures' = failures)

(* ... and for any other. *)
PokeMiss(page, offset) ==
  /\ ~exited
  /\ page # lastVirtualPage
  /\ asked' = <<page, offset>>
  /\ ReadPagemap
  /\ Stored(page)
  /\ UNCHANGED <<frame, exited>>

(* mapping_coreid and mapping_apicid run a command.  popen creates a pipe, *)
(* for which it needs two descriptors, or the program exits; pclose gives  *)
(* back the one it keeps.                                                  *)
RunCommand ==
  /\ ~exited
  /\ exited' = (open >= MaxFiles - 1)
  /\ UNCHANGED <<frame, open, cache, asked, paddr, failures>>

(* munmap, mmap at the same address, swapping, migration. *)
PageMoves(page, f) ==
  /\ ~exited
  /\ frame' = [frame EXCEPT ![page] = f]
  /\ trusted' = (trusted /\ (page = lastVirtualPage => f = frame[page]))
  /\ UNCHANGED <<open, lastVirtualPage, lastPhysPage, asked, paddr, exited, failures>>

PagemapNext ==
  \/ \E page \in Pages, offset \in Offsets :
       \/ Translate(page, offset)
       \/ PokeHit(page, offset)
       \/ PokeMiss(page, offset)
  \/ RunCommand
  \/ \E page \in Pages, f \in Frames \cup {Absent} : PageMoves(page, f)

PagemapSpec == PagemapInit /\ [][PagemapNext]_pagemapVars

-----------------------------------------------------------------------------
(***************************************************************************)
(* The physical address that is printed next to a slice is that of the     *)
(* measured address, and not of one of another page, unless the page was   *)
(* moved after it was cached or its translation failed.                    *)
(***************************************************************************)
PokeTellsTheTruth ==
  [][\A page \in Pages, offset \in Offsets :
       (PokeHit(page, offset) \/ PokeMiss(page, offset)) /\ trusted' =>
         paddr' = <<frame[page], offset>>]_pagemapVars

(***************************************************************************)
(* Only failed translations use the descriptors up, one each: a command    *)
(* ends the program only after all but one of the descriptors were lost to *)
(* them, and no page that is there reads as -1 for want of a descriptor    *)
(* before all were.                                                        *)
(***************************************************************************)
StarvedOnlyByFailures ==
  /\ exited => failures >= MaxFiles - 1
  /\ open = MaxFiles => failures >= MaxFiles
=============================================================================
