---------------------------- MODULE CoreMonitor ----------------------------
(***************************************************************************)
(* monitor_single_address_core of monitoring.c (lines 125-205), with the   *)
(* uncore counters of a client ("Core") processor it drives through        *)
(* wrmsr_on_cpu_0 / rdmsr_on_cpu_0, everybody else's cache traffic, and    *)
(* the process being killed and started again.                             *)
(*                                                                         *)
(* The counters are the interesting state: they belong to the machine, not *)
(* to the process.  They outlive a crash, they may have been programmed by *)
(* someone else before us, and every lookup on the machine is added to     *)
(* them while they run.  One wrmsr, one clflush and one rdmsr are each one *)
(* step, so foreign lookups and crashes fall between any two of them.      *)
(***************************************************************************)
EXTENDS CounterReading

CONSTANTS
  Addr,        \* addresses the callers ask about
  SliceOf,     \* the hash of the hardware: the slice of each address
  nb_cores,    \* C-Boxes read, as the start-up code set it
  max_slices,  \* length of the cboxes array, as the start-up code set it
  nb_pokes,    \* clflushes per measurement (100000 in poke.c)
  PerFlush,    \* lookups one clflush makes in its home C-Box (hardware)
  MaxNoise,    \* BOUND: foreign lookups per C-Box within one window
  MaxCount     \* BOUND: value of a counter outside the window

CBoxes == 0 .. nb_cores - 1
Slices == 0 .. max_slices - 1
NoAnswer == -1

ASSUME CoreAssumption ==
  /\ nb_cores \in Nat \ {0}
  /\ max_slices \in Nat
  /\ nb_cores <= max_slices
  /\ nb_pokes \in Nat \ {0}
  /\ PerFlush \in Nat \ {0}
  /\ SliceOf \in [Addr -> CBoxes]
  /\ MaxNoise \in Nat
  /\ MaxCount \in Nat

VARIABLES
  \* the process
  pc,       \* where monitor_single_address_core is; "ready" between calls
  i,        \* its loop index
  addr,     \* its argument
  pokes,    \* clflushes done so far by poke()
  cboxes,   \* the calloc'ed array of corrected counts
  slice,    \* the last value returned
  \* the machine
  global,   \* msr_unc_perf_global_ctr: are the counters running?
  evtsel,   \* msr_unc_cbo_perfevtsel0[c]: the event C-Box c counts
  ctr,      \* msr_unc_cbo_per_ctr0[c]: the count of C-Box c
  \* history
  noise     \* foreign lookups counted by C-Box c between enabling and reading it

process == <<pc, i, addr, pokes, cboxes, slice>>
machine == <<global, evtsel, ctr>>
vars == <<process, machine, noise>>

Events == {"lookup", "other"}   \* val_select_evt_core, or anything else
Steps == {"ready", "disable", "reset", "select", "enable", "poke", "read",
          "interpret", "exited"}

home == SliceOf[addr]

TypeOK ==
  /\ pc \in Steps
  /\ i \in Nat
  /\ addr \in Addr
  /\ pokes \in 0 .. nb_pokes
  /\ cboxes \in [Slices -> Nat]
  /\ slice \in Slices \cup {NoAnswer}
  /\ global \in BOOLEAN
  /\ evtsel \in [CBoxes -> Events]
  /\ ctr \in [CBoxes -> Nat]
  /\ noise \in [CBoxes -> Nat]

Zeros(S) == [c \in S |-> 0]

(* The counters are in whatever state their last user left them. *)
Init ==
  /\ pc = "ready"
  /\ i = 0
  /\ addr \in Addr
  /\ pokes = 0
  /\ cboxes = Zeros(Slices)
  /\ slice = NoAnswer
  /\ global \in BOOLEAN
  /\ evtsel \in [CBoxes -> Events]
  /\ ctr \in [CBoxes -> 0 .. MaxCount]
  /\ noise = Zeros(CBoxes)

-----------------------------------------------------------------------------
(* A faulty variant: the loop stays where it is. *)
NextBoxSame(loop, after) ==
  IF i + 1 < nb_cores THEN pc' = loop /\ UNCHANGED i
                      ELSE pc' = after /\ i' = 0

(* One turn of a "for (i = 0; i < nb_cores; i++)" loop. *)
NextBox(loop, after) ==
  IF i + 1 < nb_cores THEN pc' = loop /\ i' = i + 1
                      ELSE pc' = after /\ i' = 0

Call(a) ==
  /\ pc = "ready"
  /\ pc' = "disable"
  /\ i' = 0
  /\ addr' = a
  /\ pokes' = 0
  /\ noise' = Zeros(CBoxes)
  /\ UNCHANGED <<cboxes, slice, machine>>

(* A faulty variant, for checking the properties: counting is not stopped. *)
DisableCountersForgotten ==
  /\ pc = "disable"
  /\ pc' = "reset"
  /\ UNCHANGED <<i, addr, pokes, cboxes, slice, machine, noise>>

DisableCounters ==
  /\ pc = "disable"
  /\ global' = FALSE
  /\ pc' = "reset"
  /\ UNCHANGED <<i, addr, pokes, cboxes, slice, evtsel, ctr, noise>>

(* A faulty variant: the loop clears C-Box 0 on every turn. *)
ResetCounterSameBox ==
  /\ pc = "reset"
  /\ ctr' = [ctr EXCEPT ![0] = 0]
  /\ NextBox("reset", "select")
  /\ UNCHANGED <<addr, pokes, cboxes, slice, global, evtsel, noise>>

ResetCounter ==
  /\ pc = "reset"
  /\ ctr' = [ctr EXCEPT ![i] = 0]
  /\ NextBox("reset", "select")
  /\ UNCHANGED <<addr, pokes, cboxes, slice, global, evtsel, noise>>

(* A faulty variant: the last C-Box is left out. *)
SelectEventAllButLast ==
  /\ pc = "select"
  /\ evtsel' = IF i = nb_cores - 1 THEN evtsel
               ELSE [evtsel EXCEPT ![i] = "lookup"]
  /\ NextBox("select", "enable")
  /\ UNCHANGED <<addr, pokes, cboxes, slice, global, ctr, noise>>

SelectEvent ==
  /\ pc = "select"
  /\ evtsel' = [evtsel EXCEPT ![i] = "lookup"]
  /\ NextBox("select", "enable")
  /\ UNCHANGED <<addr, pokes, cboxes, slice, global, ctr, noise>>

EnableCounting ==
  /\ pc = "enable"
  /\ global' = TRUE
  /\ pc' = "poke"
  /\ UNCHANGED <<i, addr, pokes, cboxes, slice, evtsel, ctr, noise>>

(* A faulty variant: one clflush too many. *)
PokeOnceMore ==
  /\ pc = "poke"
  /\ pokes <= nb_pokes
  /\ pokes' = pokes + 1
  /\ ctr' = IF global /\ evtsel[home] = "lookup"
            THEN [ctr EXCEPT ![home] = @ + PerFlush] ELSE ctr
  /\ UNCHANGED <<pc, i, addr, cboxes, slice, global, evtsel, noise>>

(* poke(): each clflush looks the line up in the C-Box of its home slice. *)
Poke ==
  /\ pc = "poke"
  /\ pokes < nb_pokes
  /\ pokes' = pokes + 1
  /\ ctr' = IF global /\ evtsel[home] = "lookup"
            THEN [ctr EXCEPT ![home] = @ + PerFlush] ELSE ctr
  /\ UNCHANGED <<pc, i, addr, cboxes, slice, global, evtsel, noise>>

(* poke() returns and the arrays are allocated; the counters are NOT       *)
(* stopped (the code that did so is commented out).                        *)
PokeReturns ==
  /\ pc = "poke"
  /\ pokes = nb_pokes
  /\ pc' = "read"
  /\ i' = 0
  /\ cboxes' = Zeros(Slices)
  /\ UNCHANGED <<addr, pokes, slice, machine, noise>>

ReadCounter ==
  /\ pc = "read"
  /\ cboxes' = [cboxes EXCEPT ![i] = Corrected(ctr[i], nb_pokes)]
  /\ NextBox("read", "interpret")
  /\ UNCHANGED <<addr, pokes, slice, machine, noise>>

Interpret ==
  /\ pc = "interpret"
  /\ slice' = FirstMax(cboxes, max_slices)
  /\ pc' = "ready"
  /\ UNCHANGED <<i, addr, pokes, cboxes, machine, noise>>

(* Every MSR access exits the process when the device cannot be opened,    *)
(* written or read; a signal ends it anywhere.                             *)
Exit ==
  /\ pc # "exited"
  /\ pc' = "exited"
  /\ UNCHANGED <<i, addr, pokes, cboxes, slice, machine, noise>>

(* The user runs the program again; the counters keep their state. *)
Restart ==
  /\ pc = "exited"
  /\ pc' = "ready"
  /\ i' = 0
  /\ pokes' = 0
  /\ cboxes' = Zeros(Slices)
  /\ slice' = NoAnswer
  /\ UNCHANGED <<addr, machine, noise>>

(* The window of C-Box c: counting enabled for this call, c not yet read. *)
InWindow(c) == pc = "poke" \/ (pc = "read" /\ i <= c)

(* Someone else's lookup, or whatever other event is selected. *)
ForeignLookup(c) ==
  /\ global
  /\ IF InWindow(c)
     THEN /\ noise[c] < MaxNoise
          /\ noise' = [noise EXCEPT ![c] = @ + 1]
     ELSE /\ ctr[c] < MaxCount
          /\ UNCHANGED noise
  /\ ctr' = [ctr EXCEPT ![c] = @ + 1]
  /\ UNCHANGED <<process, global, evtsel>>

Measure ==
  \/ DisableCounters \/ ResetCounter \/ SelectEvent \/ EnableCounting
  \/ Poke \/ PokeReturns \/ ReadCounter \/ Interpret

Next ==
  \/ \E a \in Addr : Call(a)
  \/ Measure
  \/ Exit
  \/ Restart
  \/ \E c \in CBoxes : ForeignLookup(c)

Spec == Init /\ [][Next]_vars

-----------------------------------------------------------------------------
(***************************************************************************)
(* While the window of a C-Box is open its counter holds the foreign       *)
(* lookups of this window plus, on the home C-Box, those of the clflushes  *)
(* done so far: nothing left over from an earlier call, a killed run or    *)
(* another tool, and no clflush missed.                                    *)
(***************************************************************************)
WindowCountsOnlyThisCall ==
  \A c \in CBoxes : InWindow(c) =>
    ctr[c] = noise[c] + (IF c = home THEN PerFlush * pokes ELSE 0)

(***************************************************************************)
(* A wrong answer has one of two causes and no other.  Either everything   *)
(* corrected to zero, which takes clflushes that count once and a home     *)
(* C-Box nobody else used: slice 0 is returned.  Or the C-Box answered saw *)
(* so much more foreign traffic than the home C-Box that it hid all the    *)
(* clflushes.                                                              *)
(***************************************************************************)
WrongAnswerExplained ==
  pc = "ready" /\ slice # NoAnswer /\ slice # home =>
    \/ slice = 0 /\ noise[home] = 0 /\ PerFlush = 1
    \/ slice \in CBoxes /\ noise[slice] >= noise[home] + PerFlush * nb_pokes

(***************************************************************************)
(* A counter is only ever cleared while counting is stopped, whatever      *)
(* state an earlier run left it in: clearing a running counter would lose  *)
(* lookups between the first and the last C-Box.                           *)
(***************************************************************************)
ClearedOnlyWhileStopped ==
  [][\A c \in CBoxes : ctr'[c] < ctr[c] => ~global]_vars

(***************************************************************************)
(* The measurement is what SliceProbe promises, reliable when the home     *)
(* C-Box counts more than the code subtracts and no other C-Box saw enough *)
(* foreign lookups to catch up with it.                                    *)
(***************************************************************************)
Reliable ==
  /\ noise[home] > 0 \/ PerFlush > 1
  /\ \A c \in CBoxes \ {home} : noise[c] < noise[home] + PerFlush * nb_pokes

Phase == CASE pc = "ready" -> "ready"
           [] pc = "exited" -> "down"
           [] OTHER -> "probing"

Probe == INSTANCE SliceProbe
           WITH phase <- Phase, reliable <- Reliable, answer <- slice

ProbeSpec == Probe!Spec
=============================================================================
