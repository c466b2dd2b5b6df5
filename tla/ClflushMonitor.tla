--------------------------- MODULE ClflushMonitor ---------------------------
(***************************************************************************)
(* monitor_single_address_clflush of monitoring.c (lines 44-123), the      *)
(* measurement without counters: the process moves from thread to thread   *)
(* of the package, and on every core it has not been on yet it times       *)
(* clflushes of the address.  They are faster on the core next to the      *)
(* address's slice, so the slice is numbered after that core.              *)
(*                                                                         *)
(* Which core a thread belongs to is found by two arrays, read from        *)
(* /proc/cpuinfo.  Whether one core after the other is visited, and none   *)
(* twice, hangs on the numbering of the machine; so the machine is part of *)
(* the state and may be any of a given set:                                *)
(*   threads    threads_per_package()                                      *)
(*   cores      cores_per_package(), i.e. threads per package / per core   *)
(*   proc       processor number -> [pkg, core, apic, online]              *)
(* The memory is that of package 0, and so is the home core.               *)
(***************************************************************************)
EXTENDS Integers, Sequences, FiniteSets

CONSTANTS
  Addr,      \* addresses the callers ask about
  SliceOf,   \* core id of the core next to the slice of each address
  Machines,  \* possible machines
  MapLength, \* entries of map_coreid and map_apicid: 64
  NbTries,   \* clflushes timed on each core: 50 * 1024
  Threshold  \* a core is local when more of them look so: 50

NoCore == -1
NoAnswer == -2

Processors(m) == DOMAIN m.proc
CoreIds(m) == {m.proc[p].core : p \in Processors(m)}
AnyCore == (UNION {CoreIds(m) : m \in Machines}) \cup {0, NoCore}
PackageCores(m) == {m.proc[p].core : p \in {q \in Processors(m) : m.proc[q].pkg = 0}}

ASSUME ClflushAssumption ==
  /\ MapLength \in Nat \ {0} /\ NbTries \in Nat /\ Threshold \in 0 .. NbTries
  /\ \A m \in Machines :
       /\ m.threads \in Nat \ {0} /\ m.cores \in Nat \ {0}
       /\ IsFiniteSet(Processors(m))
       /\ Processors(m) = 0 .. Cardinality(Processors(m)) - 1
       /\ m.threads <= Cardinality(Processors(m))
       /\ CoreIds(m) \subseteq Nat
       /\ \A p, q \in Processors(m) : m.proc[p].apic = m.proc[q].apic => p = q
       /\ \A a \in Addr : SliceOf[a] \in PackageCores(m)

VARIABLES
  machine,      \* the machine the program runs on
  pc,           \* where the function is; "ready" between calls
  addr,         \* its argument
  thread,       \* its loop index
  current_core, \* the core id found for the thread the process is on
  core_used,    \* has a histogram been built on this core?
  slice,        \* the value to be returned
  answer,       \* the last value returned
  \* history
  lies,         \* clflushes on a core (as the program knows it) that timed
                \* as on the other kind of core, because of noise
  visits        \* processors on which a histogram was built, in order

vars == <<machine, pc, addr, thread, current_core, core_used, slice, answer, lies, visits>>

home == SliceOf[addr]
Tries == 0 .. NbTries

TypeOK ==
  /\ machine \in Machines
  /\ pc \in {"ready", "maps", "pin", "used", "time", "exited"}
  /\ addr \in Addr
  /\ thread \in 0 .. machine.threads
  /\ current_core \in AnyCore
  /\ core_used \in [0 .. machine.cores - 1 -> BOOLEAN]
  /\ slice \in AnyCore
  /\ answer \in AnyCore \cup {NoAnswer}
  /\ lies \in [AnyCore -> Tries]
  /\ visits \in Seq(Processors(machine))

NoLies == [c \in AnyCore |-> 0]

Init ==
  /\ machine \in Machines
  /\ pc = "ready"
  /\ addr \in Addr
  /\ thread = 0
  /\ current_core = NoCore
  /\ core_used = [c \in 0 .. machine.cores - 1 |-> FALSE]
  /\ slice = 0
  /\ answer = NoAnswer
  /\ lies = NoLies
  /\ visits = <<>>

-----------------------------------------------------------------------------
(* The arrays list the processors that are online in the order of their    *)
(* numbers, processor p at index Rank(p), and are zero behind.             *)
IsOnline(p) == machine.proc[p].online
Online == {p \in Processors(machine) : IsOnline(p)}
Rank(p) == Cardinality({q \in Online : q < p})

(* Entries beyond the ends of the arrays are written, or looked at.        *)
Overrun == Cardinality(Online) > MapLength \/ machine.threads > MapLength

(* A faulty variant, for checking the properties: the apic id is taken for *)
(* the core id.                                                            *)
CoresAreApicIds(p) == {machine.proc[p].apic}

(* apicid2coreid(current_apic(), ...) on processor p: of the first         *)
(* "threads" entries the last one with its apic id.  In arrays that were   *)
(* overrun anything may be found.                                          *)
CoresOf(p) ==
  LET apic == machine.proc[p].apic
      match == {q \in Online : Rank(q) < machine.threads /\ machine.proc[q].apic = apic}
      last == CHOOSE q \in match : \A k \in match : k <= q
  IN IF Overrun THEN AnyCore
     ELSE IF apic = 0 /\ Cardinality(Online) < machine.threads THEN {0}
     ELSE IF match = {} THEN {NoCore} ELSE {machine.proc[last].core}

Call(a) ==
  /\ pc = "ready"
  /\ pc' = "maps"
  /\ addr' = a
  /\ lies' = NoLies
  /\ visits' = <<>>
  /\ UNCHANGED <<machine, thread, current_core, core_used, slice, answer>>

(* The arrays are read (a command that fails exits, see Exit) and the rest *)
(* is initialised.                                                         *)
ReadMaps ==
  /\ pc = "maps"
  /\ core_used' = [c \in 0 .. machine.cores - 1 |-> FALSE]
  /\ current_core' = NoCore
  /\ thread' = 0
  /\ slice' = 0
  /\ pc' = "pin"
  /\ UNCHANGED <<machine, addr, answer, lies, visits>>

Pin ==
  /\ pc = "pin" /\ thread < machine.threads
  /\ IsOnline(thread)
  /\ current_core' \in CoresOf(thread)
  /\ pc' = "used"
  /\ UNCHANGED <<machine, addr, thread, core_used, slice, answer, lies, visits>>

(* sched_setaffinity to a processor that is not there: the process exits.  *)
PinFails ==
  /\ pc = "pin" /\ thread < machine.threads
  /\ ~IsOnline(thread)
  /\ pc' = "exited"
  /\ UNCHANGED <<machine, addr, thread, current_core, core_used, slice, answer, lies, visits>>

(* core_used[current_core] == 0.  The array has an entry per core and is   *)
(* indexed by core ids: beyond it, anything may be read.                   *)
InArray == current_core \in DOMAIN core_used

UnusedCore ==
  /\ pc = "used"
  /\ InArray => ~core_used[current_core]
  /\ pc' = "time"
  /\ UNCHANGED <<machine, addr, thread, current_core, core_used, slice, answer, lies, visits>>

(* Faulty variants: the loop ends after as many threads as there are       *)
(* cores; it does not get on.                                              *)
NextThreadOfCores == thread' = IF thread + 1 < machine.cores THEN thread + 1
                                                        ELSE machine.threads
NextThreadSame == thread' = thread

NextThread == thread' = thread + 1

UsedCore ==
  /\ pc = "used"
  /\ InArray => core_used[current_core]
  /\ NextThread
  /\ pc' = "pin"
  /\ UNCHANGED <<machine, addr, current_core, core_used, slice, answer, lies, visits>>

(* Faulty variants: a core that looks remote resets the answer; ">=" for   *)
(* ">".                                                                    *)
DecideResets(local) ==
  slice' = IF local > Threshold THEN current_core ELSE 0

DecideAtThreshold(local) ==
  slice' = IF local >= Threshold THEN current_core ELSE slice

(* same_slice on a histogram with so many fast clflushes. *)
Decide(local) ==
  slice' = IF local > Threshold THEN current_core ELSE slice

OnHomeCore ==
  machine.proc[thread].pkg = 0 /\ machine.proc[thread].core = home

(* All clflushes on one core; "local" of them were faster than             *)
(* T_HIT_REMOTE.                                                           *)
TimeCore(local) ==
  /\ pc = "time"
  /\ Decide(local)
  /\ core_used' = IF InArray THEN [core_used EXCEPT ![current_core] = TRUE]
                             ELSE core_used
  /\ NextThread
  /\ pc' = "pin"
  /\ lies' = [lies EXCEPT ![current_core] =
                IF OnHomeCore THEN NbTries - local ELSE local]
  /\ visits' = Append(visits, thread)
  /\ UNCHANGED <<machine, addr, current_core, answer>>

Return ==
  /\ pc = "pin" /\ thread = machine.threads
  /\ answer' = slice
  /\ pc' = "ready"
  /\ UNCHANGED <<machine, addr, thread, current_core, core_used, slice, lies, visits>>

(* /proc/cpuinfo cannot be read, a corrupted heap, or a signal. *)
Exit ==
  /\ pc # "exited"
  /\ pc' = "exited"
  /\ UNCHANGED <<machine, addr, thread, current_core, core_used, slice, answer, lies, visits>>

(* The user runs the program again, with fresh memory. *)
Restart ==
  /\ pc = "exited"
  /\ pc' = "ready"
  /\ thread' = 0
  /\ current_core' = NoCore
  /\ core_used' = [c \in 0 .. machine.cores - 1 |-> FALSE]
  /\ slice' = 0
  /\ answer' = NoAnswer
  /\ lies' = NoLies
  /\ visits' = <<>>
  /\ UNCHANGED <<machine, addr>>

Measure ==
  \/ ReadMaps \/ Pin \/ PinFails \/ UnusedCore \/ UsedCore
  \/ \E local \in Tries : TimeCore(local)
  \/ Return

Next ==
  \/ \E a \in Addr : Call(a)
  \/ Measure
  \/ Exit
  \/ Restart

Spec == Init /\ [][Next]_vars

(* Once called, the function runs on: it waits for nobody. *)
FairSpec == Spec /\ WF_vars(Measure)

-----------------------------------------------------------------------------
(***************************************************************************)
(* A machine the method suits: the processors from 0 on are those of       *)
(* package 0, all online; the arrays hold them all; core ids have no gaps. *)
(***************************************************************************)
Suitable ==
  LET package == {p \in Processors(machine) : machine.proc[p].pkg = 0}
  IN /\ package = 0 .. machine.threads - 1
     /\ \A p \in package : IsOnline(p)
     /\ Cardinality(Online) <= MapLength
     /\ PackageCores(machine) = 0 .. machine.cores - 1

CoreAt(n) == machine.proc[visits[n]].core
Answered == pc = "ready" /\ answer # NoAnswer

(***************************************************************************)
(* On a suitable machine a call that returns has built a histogram on      *)
(* every core of the package, and on none twice, whether the siblings of a *)
(* core are numbered one after the other or far apart.                     *)
(***************************************************************************)
VisitedEveryCoreOnce ==
  /\ {CoreAt(n) : n \in DOMAIN visits} = PackageCores(machine)
  /\ Len(visits) = Cardinality(PackageCores(machine))

EveryCoreOnce == Answered /\ Suitable => VisitedEveryCoreOnce

(***************************************************************************)
(* The last core that looks local wins, and 0 is answered when none does:  *)
(* a wrong answer means that a core visited after the home core lied often *)
(* enough, or that the home core did - and then the answer is 0, or a core *)
(* that lied as well.                                                      *)
(***************************************************************************)
After(c) ==
  {CoreAt(n) : n \in {k \in DOMAIN visits : \E l \in 1 .. k - 1 : CoreAt(l) = c}}

WrongAnswerExplained ==
  Answered /\ Suitable /\ answer # home =>
    \/ answer \in After(home) /\ lies[answer] > Threshold
    \/ /\ NbTries - lies[home] <= Threshold
       /\ answer = 0 \/ lies[answer] > Threshold

(***************************************************************************)
(* A call returns, or the process exits. *)
(***************************************************************************)
CallsEnd == pc = "maps" ~> pc \in {"ready", "exited"}

(***************************************************************************)
(* The measurement is what SliceProbe promises, reliable on a suitable     *)
(* machine when the home core looks local and no later one does.           *)
(***************************************************************************)
Reliable ==
  /\ Suitable
  /\ NbTries - lies[home] > Threshold
  /\ \A c \in After(home) : lies[c] <= Threshold

Phase == CASE pc = "ready" -> "ready"
           [] pc = "exited" -> "down"
           [] OTHER -> "probing"

Probe == INSTANCE SliceProbe
           WITH Slices <- AnyCore, phase <- Phase, reliable <- Reliable
ProbeSpec == Probe!Spec
=============================================================================
