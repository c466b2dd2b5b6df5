---------------------------- MODULE XeonMonitor ----------------------------
(***************************************************************************)
(* The three measurements of a server ("Xeon") processor in monitoring.c:  *)
(* monitor_single_address_fast (lines 207-310), _print (312-406) and       *)
(* monitor_single_address (408-483).  All three drive one counter box per  *)
(* slice through the same sequence of wrmsr_on_cpu_0 loops; "fast" then    *)
(* reads every counter once and subtracts nb_pokes, the other two ("plain")*)
(* read every counter twice and subtract nothing.                          *)
(*                                                                         *)
(* A box counts what its control register selects and its filter lets      *)
(* through, unless the box is frozen.  As in CoreMonitor the registers     *)
(* outlive the process, other programs' lookups fall between any two       *)
(* register accesses, and the process may end anywhere.                    *)
(***************************************************************************)
EXTENDS CounterReading

CONSTANTS
  Addr,        \* addresses the callers ask about
  SliceOf,     \* the hash of the hardware: the slice of each address
  nb_cores,    \* boxes driven, as the start-up code set it
  max_slices,  \* length of the arrays of counts, as the start-up code set it
  nb_pokes,    \* clflushes per measurement (100000 in poke.c)
  PerFlush,    \* lookups one clflush makes in its home box (hardware)
  val_box_freeze, \* the freeze command, as a number
  MaxNoise,    \* BOUND: foreign lookups per box within one window
  MaxCount     \* BOUND: value of a counter outside the window

CBoxes == 0 .. nb_cores - 1
Slices == 0 .. max_slices - 1
NoAnswer == -1

ASSUME XeonAssumption ==
  /\ nb_cores \in Nat \ {0}
  /\ max_slices \in Nat
  /\ nb_cores <= max_slices
  /\ nb_pokes \in Nat \ {0}
  /\ PerFlush \in Nat \ {0}
  /\ val_box_freeze \in Nat \ {0}
  /\ SliceOf \in [Addr -> CBoxes]
  /\ MaxNoise \in Nat
  /\ MaxCount \in Nat

VARIABLES
  \* the process
  pc,         \* where the measurement is; "ready" between calls
  variant,    \* which function was called: "fast" or "plain"
  i,          \* its loop index
  addr,       \* its argument
  pokes,      \* clflushes done so far by poke()
  cboxes,     \* the counts the slice is computed from
  cboxes_tri, \* the counts the printed error percentage is computed from
  slice,      \* the last value returned
  \* the machine
  frozen,     \* msr_pmon_box_ctl[c], freeze bit
  ctl,        \* msr_pmon_ctl0[c]: "off", enabled with no event, "lookup"...
  filter,     \* msr_pmon_box_filter[c]: does it let cache lookups through?
  ctr,        \* msr_pmon_ctr0[c]
  \* history
  noise       \* foreign lookups counted by box c between unfreeze and freeze

locals == <<variant, addr, pokes, cboxes, cboxes_tri, slice>>
machine == <<frozen, ctl, filter, ctr>>
vars == <<pc, i, locals, machine, noise>>

Variants == {"fast", "plain"}
Controls == {"off", "none", "lookup"}
Steps == {"ready", "mark", "reset", "enable", "select", "filter", "unfreeze",
          "poke", "freeze", "read", "readagain", "interpret", "exited"}

home == SliceOf[addr]

TypeOK ==
  /\ pc \in Steps
  /\ variant \in Variants
  /\ i \in Nat
  /\ addr \in Addr
  /\ pokes \in 0 .. nb_pokes
  /\ cboxes \in [Slices -> Nat]
  /\ cboxes_tri \in [Slices -> Nat]
  /\ slice \in Slices \cup {NoAnswer}
  /\ frozen \in [CBoxes -> BOOLEAN]
  /\ ctl \in [CBoxes -> Controls]
  /\ filter \in [CBoxes -> BOOLEAN]
  /\ ctr \in [CBoxes -> Nat]
  /\ noise \in [CBoxes -> Nat]

Zeros(S) == [c \in S |-> 0]

(* The boxes are in whatever state their last user left them. *)
Init ==
  /\ pc = "ready"
  /\ variant \in Variants
  /\ i = 0
  /\ addr \in Addr
  /\ pokes = 0
  /\ cboxes = Zeros(Slices)
  /\ cboxes_tri = Zeros(Slices)
  /\ slice = NoAnswer
  /\ frozen \in [CBoxes -> BOOLEAN]
  /\ ctl \in [CBoxes -> Controls]
  /\ filter \in [CBoxes -> BOOLEAN]
  /\ ctr \in [CBoxes -> 0 .. MaxCount]
  /\ noise = Zeros(CBoxes)

-----------------------------------------------------------------------------
(* One turn of a "for (i = 0; i < nb_cores; i++)" loop. *)
NextBox(loop, after) ==
  IF i + 1 < nb_cores THEN pc' = loop /\ i' = i + 1
                      ELSE pc' = after /\ i' = 0

Call(v, a) ==
  /\ pc = "ready"
  /\ pc' = "mark"
  /\ i' = 0
  /\ variant' = v
  /\ addr' = a
  /\ pokes' = 0
  /\ noise' = Zeros(CBoxes)
  /\ UNCHANGED <<cboxes, cboxes_tri, slice, machine>>

(* The first loop writes the freeze command to msr_pmon_ctr0: it sets the  *)
(* counter, and freezes nothing.                                           *)
MarkCounter ==
  /\ pc = "mark"
  /\ ctr' = [ctr EXCEPT ![i] = val_box_freeze]
  /\ NextBox("mark", "reset")
  /\ UNCHANGED <<locals, frozen, ctl, filter, noise>>

(* A faulty variant, for checking the properties: the last box is left out.*)
ResetBoxAllButLast ==
  /\ pc = "reset"
  /\ IF i = nb_cores - 1
     THEN UNCHANGED <<frozen, ctl, ctr>>
     ELSE /\ frozen' = [frozen EXCEPT ![i] = TRUE]
          /\ ctl' = [ctl EXCEPT ![i] = "off"]
          /\ ctr' = [ctr EXCEPT ![i] = 0]
  /\ NextBox("reset", "enable")
  /\ UNCHANGED <<locals, filter, noise>>

(* val_box_reset is reset-control, reset-counters and freeze in one.       *)
ResetBox ==
  /\ pc = "reset"
  /\ frozen' = [frozen EXCEPT ![i] = TRUE]
  /\ ctl' = [ctl EXCEPT ![i] = "off"]
  /\ ctr' = [ctr EXCEPT ![i] = 0]
  /\ NextBox("reset", "enable")
  /\ UNCHANGED <<locals, filter, noise>>

EnableBox ==
  /\ pc = "enable"
  /\ ctl' = [ctl EXCEPT ![i] = "none"]
  /\ NextBox("enable", "select")
  /\ UNCHANGED <<locals, frozen, filter, ctr, noise>>

(* A faulty variant: val[0] still holds val_enable_counting. *)
SelectEventStaleValue ==
  /\ pc = "select"
  /\ ctl' = [ctl EXCEPT ![i] = "none"]
  /\ NextBox("select", "filter")
  /\ UNCHANGED <<locals, frozen, filter, ctr, noise>>

(* val_select_event holds the enable bit too, so it replaces EnableBox's.  *)
SelectEvent ==
  /\ pc = "select"
  /\ ctl' = [ctl EXCEPT ![i] = "lookup"]
  /\ NextBox("select", "filter")
  /\ UNCHANGED <<locals, frozen, filter, ctr, noise>>

(* A faulty variant: every turn writes the filter of box 0. *)
SetFilterSameBox ==
  /\ pc = "filter"
  /\ filter' = [filter EXCEPT ![0] = TRUE]
  /\ NextBox("filter", "unfreeze")
  /\ UNCHANGED <<locals, frozen, ctl, ctr, noise>>

SetFilter ==
  /\ pc = "filter"
  /\ filter' = [filter EXCEPT ![i] = TRUE]
  /\ NextBox("filter", "unfreeze")
  /\ UNCHANGED <<locals, frozen, ctl, ctr, noise>>

UnfreezeBox ==
  /\ pc = "unfreeze"
  /\ frozen' = [frozen EXCEPT ![i] = FALSE]
  /\ NextBox("unfreeze", "poke")
  /\ UNCHANGED <<locals, ctl, filter, ctr, noise>>

Counting(c) == ~frozen[c] /\ ctl[c] = "lookup" /\ filter[c]

(* A faulty variant: one clflush too many. *)
PokeOnceMore ==
  /\ pc = "poke"
  /\ pokes <= nb_pokes
  /\ pokes' = pokes + 1
  /\ ctr' = IF Counting(home) THEN [ctr EXCEPT ![home] = @ + PerFlush] ELSE ctr
  /\ UNCHANGED <<pc, i, variant, addr, cboxes, cboxes_tri, slice,
                 frozen, ctl, filter, noise>>

(* poke(): each clflush looks the line up in the box of its home slice.    *)
Poke ==
  /\ pc = "poke"
  /\ pokes < nb_pokes
  /\ pokes' = pokes + 1
  /\ ctr' = IF Counting(home) THEN [ctr EXCEPT ![home] = @ + PerFlush] ELSE ctr
  /\ UNCHANGED <<pc, i, variant, addr, cboxes, cboxes_tri, slice,
                 frozen, ctl, filter, noise>>

PokeReturns ==
  /\ pc = "poke"
  /\ pokes = nb_pokes
  /\ pc' = "freeze"
  /\ i' = 0
  /\ UNCHANGED <<locals, machine, noise>>

(* A faulty variant: the freeze goes to the counter, as in the first loop. *)
FreezeBoxByCounter ==
  /\ pc = "freeze"
  /\ ctr' = [ctr EXCEPT ![i] = val_box_freeze]
  /\ NextBox("freeze", "read")
  /\ cboxes' = Zeros(Slices)
  /\ cboxes_tri' = Zeros(Slices)
  /\ UNCHANGED <<variant, addr, pokes, slice, frozen, ctl, filter, noise>>

(* The arrays are calloc'ed after the last turn; nothing looks at them     *)
(* before.                                                                 *)
FreezeBox ==
  /\ pc = "freeze"
  /\ frozen' = [frozen EXCEPT ![i] = TRUE]
  /\ NextBox("freeze", "read")
  /\ cboxes' = Zeros(Slices)
  /\ cboxes_tri' = Zeros(Slices)
  /\ UNCHANGED <<variant, addr, pokes, slice, ctl, filter, ctr, noise>>

(* "fast": one rdmsr, kept in res_temp, fills both arrays.                 *)
ReadOnce ==
  /\ pc = "read" /\ variant = "fast"
  /\ cboxes' = [cboxes EXCEPT ![i] = Corrected(ctr[i], nb_pokes)]
  /\ cboxes_tri' = [cboxes_tri EXCEPT ![i] = Corrected(ctr[i], nb_pokes)]
  /\ NextBox("read", "interpret")
  /\ UNCHANGED <<variant, addr, pokes, slice, machine, noise>>

(* "plain": one rdmsr per array. *)
ReadFirst ==
  /\ pc = "read" /\ variant = "plain"
  /\ cboxes' = [cboxes EXCEPT ![i] = ctr[i]]
  /\ pc' = "readagain"
  /\ UNCHANGED <<i, variant, addr, pokes, cboxes_tri, slice, machine, noise>>

ReadSecond ==
  /\ pc = "readagain"
  /\ cboxes_tri' = [cboxes_tri EXCEPT ![i] = ctr[i]]
  /\ NextBox("read", "interpret")
  /\ UNCHANGED <<variant, addr, pokes, cboxes, slice, machine, noise>>

Interpret ==
  /\ pc = "interpret"
  /\ slice' = FirstMax(cboxes, max_slices)
  /\ pc' = "ready"
  /\ UNCHANGED <<i, variant, addr, pokes, cboxes, cboxes_tri, machine, noise>>

(* An MSR access that fails exits the process; a signal ends it anywhere.  *)
Exit ==
  /\ pc # "exited"
  /\ pc' = "exited"
  /\ UNCHANGED <<i, locals, machine, noise>>

(* The user runs the program again; the boxes keep their state. *)
Restart ==
  /\ pc = "exited"
  /\ pc' = "ready"
  /\ i' = 0
  /\ pokes' = 0
  /\ cboxes' = Zeros(Slices)
  /\ cboxes_tri' = Zeros(Slices)
  /\ slice' = NoAnswer
  /\ UNCHANGED <<variant, addr, machine, noise>>

(* The window of box c: unfrozen for this call, not yet frozen again.      *)
InWindow(c) ==
  \/ pc = "unfreeze" /\ c < i
  \/ pc = "poke"
  \/ pc = "freeze" /\ c >= i

(* Someone else's lookup, or whatever other event the box counts. *)
ForeignLookup(c) ==
  /\ ~frozen[c] /\ ctl[c] # "off"
  /\ IF InWindow(c)
     THEN /\ noise[c] < MaxNoise
          /\ noise' = [noise EXCEPT ![c] = @ + 1]
     ELSE /\ ctr[c] < MaxCount
          /\ UNCHANGED noise
  /\ ctr' = [ctr EXCEPT ![c] = @ + 1]
  /\ UNCHANGED <<pc, i, locals, frozen, ctl, filter>>

Measure ==
  \/ MarkCounter \/ ResetBox \/ EnableBox \/ SelectEvent \/ SetFilter
  \/ UnfreezeBox \/ Poke \/ PokeReturns \/ FreezeBox
  \/ ReadOnce \/ ReadFirst \/ ReadSecond \/ Interpret

Next ==
  \/ \E v \in Variants, a \in Addr : Call(v, a)
  \/ Measure
  \/ Exit
  \/ Restart
  \/ \E c \in CBoxes : ForeignLookup(c)

Spec == Init /\ [][Next]_vars

-----------------------------------------------------------------------------
(***************************************************************************)
(* From the moment a box is unfrozen until its count has been read, it     *)
(* shows the foreign lookups of its own window plus, on the home box, the  *)
(* clflushes: the reset undid everything before (the freeze command        *)
(* written into the counter included), and the final freeze keeps          *)
(* everything after out, however long the reading takes.                   *)
(***************************************************************************)
CountsOnlyThisCall ==
  \A c \in CBoxes :
    InWindow(c) \/ pc \in {"freeze", "read", "readagain"} =>
      ctr[c] = noise[c] + (IF c = home THEN PerFlush * pokes ELSE 0)

(***************************************************************************)
(* The printed error percentage is about the counts the slice was computed *)
(* from, although the plain variants read every counter a second time.     *)
(***************************************************************************)
TwoReadsAgree == pc = "interpret" => cboxes_tri = cboxes

(***************************************************************************)
(* What can make the answer wrong.  Plain: only a box that saw enough      *)
(* foreign lookups to hide all the clflushes.  Fast, because it subtracts: *)
(* also a home box nobody else used, if a clflush makes a single lookup.   *)
(***************************************************************************)
WrongAnswerExplained ==
  pc = "ready" /\ slice # NoAnswer /\ slice # home =>
    \/ variant = "fast" /\ slice = 0 /\ noise[home] = 0 /\ PerFlush = 1
    \/ slice \in CBoxes /\ noise[slice] >= noise[home] + PerFlush * nb_pokes

(***************************************************************************)
(* All three functions are what SliceProbe promises.                       *)
(***************************************************************************)
Reliable ==
  /\ variant = "plain" \/ noise[home] > 0 \/ PerFlush > 1
  /\ \A c \in CBoxes \ {home} : noise[c] < noise[home] + PerFlush * nb_pokes

Phase == CASE pc = "ready" -> "ready"
           [] pc = "exited" -> "down"
           [] OTHER -> "probing"

Probe == INSTANCE SliceProbe
           WITH phase <- Phase, reliable <- Reliable, answer <- slice

ProbeSpec == Probe!Spec
=============================================================================
