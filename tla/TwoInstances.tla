---------------------------- MODULE TwoInstances ----------------------------
(***************************************************************************)
(* Two processes that run the Core measurement on one machine: scan beside *)
(* reverse, or the program started twice.  Each keeps a descriptor of      *)
(* /dev/cpu/0/msr open (rdmsr.c, wrmsr.c); nothing locks the registers, so *)
(* a register access of one falls between any two of the other.            *)
(*                                                                         *)
(* Both processes are CoreMonitor with variables of their own; the         *)
(* machine's registers are shared.  There is no third party here: what     *)
(* other programs add to the counters is in CoreMonitor.                   *)
(***************************************************************************)
EXTENDS Integers

CONSTANTS Addr, SliceOf, nb_cores, max_slices, nb_pokes, PerFlush, MaxNoise, MaxCount

(* As in CoreMonitor; and since the code subtracts nb_pokes, a clflush must *)
(* count more than once to be seen at all.                                  *)
ASSUME TwoInstancesAssumption ==
  /\ nb_cores \in Nat \ {0} /\ max_slices \in Nat /\ nb_cores <= max_slices
  /\ nb_pokes \in Nat \ {0}
  /\ PerFlush \in Nat /\ PerFlush > 1
  /\ SliceOf \in [Addr -> 0 .. nb_cores - 1]
  /\ MaxNoise \in Nat /\ MaxCount \in Nat

VARIABLES
  pcA, iA, addrA, pokesA, cboxesA, sliceA,   \* one process
  pcB, iB, addrB, pokesB, cboxesB, sliceB,   \* the other
  global, evtsel, ctr,                       \* the machine
  noise,                                     \* CoreMonitor's history: here always 0
  \* history: has the other process accessed a register, or flushed, since
  \* the last call of this one began and before it returned?
  mixedA, mixedB

A == INSTANCE CoreMonitor WITH pc <- pcA, i <- iA, addr <- addrA, pokes <- pokesA,
       cboxes <- cboxesA, slice <- sliceA
B == INSTANCE CoreMonitor WITH pc <- pcB, i <- iB, addr <- addrB, pokes <- pokesB,
       cboxes <- cboxesB, slice <- sliceB

procA == <<pcA, iA, addrA, pokesA, cboxesA, sliceA>>
procB == <<pcB, iB, addrB, pokesB, cboxesB, sliceB>>
vars == <<procA, procB, global, evtsel, ctr, noise, mixedA, mixedB>>

Idle == {"ready", "exited"}

TypeOK ==
  /\ A!TypeOK /\ B!TypeOK
  /\ mixedA \in BOOLEAN /\ mixedB \in BOOLEAN

Init ==
  /\ A!Init /\ B!Init
  /\ mixedA = FALSE /\ mixedB = FALSE

-----------------------------------------------------------------------------
CallA == (\E a \in Addr : A!Call(a)) /\ mixedA' = FALSE /\ UNCHANGED <<procB, mixedB>>
CallB == (\E a \in Addr : B!Call(a)) /\ mixedB' = FALSE /\ UNCHANGED <<procA, mixedA>>

(* One step of a measurement; the other, if it is in a call, is disturbed. *)
MeasureA == A!Measure /\ mixedB' = (mixedB \/ pcB \notin Idle) /\ UNCHANGED <<procB, mixedA>>
MeasureB == B!Measure /\ mixedA' = (mixedA \/ pcA \notin Idle) /\ UNCHANGED <<procA, mixedB>>

(* A process that is killed leaves the registers as they are. *)
ExitA == (A!Exit \/ A!Restart) /\ UNCHANGED <<procB, mixedA, mixedB>>
ExitB == (B!Exit \/ B!Restart) /\ UNCHANGED <<procA, mixedA, mixedB>>

Next == CallA \/ CallB \/ MeasureA \/ MeasureB \/ ExitA \/ ExitB

Spec == Init /\ [][Next]_vars

(* Neither process waits for anything, and each is scheduled. *)
FairSpec == Spec /\ WF_vars(MeasureA) /\ WF_vars(MeasureB)

-----------------------------------------------------------------------------
(***************************************************************************)
(* It is enough that the CALLS of the two processes do not interleave: a   *)
(* call during which the other process took no step answers right,         *)
(* whatever the other did before, and wherever in a call of its own it is  *)
(* or was killed.                                                          *)
(***************************************************************************)
UndisturbedCallsAreRight ==
  /\ pcA = "ready" /\ sliceA # A!NoAnswer /\ ~mixedA => sliceA = SliceOf[addrA]
  /\ pcB = "ready" /\ sliceB # B!NoAnswer /\ ~mixedB => sliceB = SliceOf[addrB]

(***************************************************************************)
(* However the other process interferes, a call ends.                      *)
(***************************************************************************)
CallsEnd ==
  /\ pcA \notin Idle ~> pcA \in Idle
  /\ pcB \notin Idle ~> pcB \in Idle
=============================================================================
