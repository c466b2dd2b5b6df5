------------------------- MODULE TwoInstancesProofs -------------------------
(***************************************************************************)
(* Proofs about TwoInstances, for any number of C-Boxes, any hash and any  *)
(* number of clflushes: what the Core measurement owes to nobody but       *)
(* itself.                                                                 *)
(*                                                                         *)
(* CoreMonitorProofs has shown that each process alone keeps IInv, which   *)
(* speaks of the registers only inside a call.  Here it is kept for every  *)
(* process that has not been disturbed in its call.                        *)
(***************************************************************************)
EXTENDS TwoInstances, TLAPS

PA == INSTANCE CoreMonitorProofs WITH pc <- pcA, i <- iA, addr <- addrA, pokes <- pokesA,
        cboxes <- cboxesA, slice <- sliceA
PB == INSTANCE CoreMonitorProofs WITH pc <- pcB, i <- iB, addr <- addrB, pokes <- pokesB,
        cboxes <- cboxesB, slice <- sliceB

(* There is no third party. *)
NoNoise == noise = [c \in 0 .. nb_cores - 1 |-> 0]

TypesAndLoops ==
  /\ PA!TypeOK /\ PA!LoopsInRange
  /\ PB!TypeOK /\ PB!LoopsInRange
  /\ mixedA \in BOOLEAN /\ mixedB \in BOOLEAN

(* A process not disturbed since its call began is where it would be alone. *)
UndisturbedAsAlone ==
  /\ ~ mixedA => PA!IInv
  /\ ~ mixedB => PB!IInv

IInv ==
  /\ TypesAndLoops
  /\ NoNoise
  /\ UndisturbedAsAlone
-----------------------------------------------------------------------------
(* What CoreMonitor assumes holds of both processes. *)
LEMMA CoreAssumed == PA!CoreAssumption /\ PB!CoreAssumption
BY TwoInstancesAssumption
   DEF PA!CoreAssumption, PB!CoreAssumption, PA!CBoxes, PB!CBoxes

(* CoreMonitorProofs brings its own copy of CoreMonitor: the same states    *)
(* and the same steps.                                                      *)
LEMMA SameA ==
  /\ A!TypeOK <=> PA!TypeOK
  /\ A!Init <=> PA!Init
  /\ \A a \in Addr : A!Call(a) <=> PA!Call(a)
  /\ A!Measure <=> PA!Measure
  /\ A!Exit <=> PA!Exit
  /\ A!Restart <=> PA!Restart
BY DEF A!TypeOK, A!Init, A!Call, A!Measure, A!Exit, A!Restart, A!CBoxes, A!Slices,
       A!NoAnswer, A!Events, A!Steps, A!home, A!process, A!machine, A!Zeros,
       A!NextBox, A!DisableCounters, A!ResetCounter, A!SelectEvent,
       A!EnableCounting, A!Poke, A!PokeReturns, A!ReadCounter, A!Interpret,
       A!Corrected, A!FirstMax, A!IsFirstMax,
       PA!TypeOK, PA!Init, PA!Call, PA!Measure, PA!Exit, PA!Restart, PA!CBoxes,
       PA!Slices, PA!NoAnswer, PA!Events, PA!Steps, PA!home, PA!process,
       PA!machine, PA!Zeros, PA!NextBox, PA!DisableCounters, PA!ResetCounter,
       PA!SelectEvent, PA!EnableCounting, PA!Poke, PA!PokeReturns,
       PA!ReadCounter, PA!Interpret, PA!Corrected, PA!FirstMax, PA!IsFirstMax

(* The same for the other process. *)
LEMMA SameB ==
  /\ B!TypeOK <=> PB!TypeOK
  /\ B!Init <=> PB!Init
  /\ \A a \in Addr : B!Call(a) <=> PB!Call(a)
  /\ B!Measure <=> PB!Measure
  /\ B!Exit <=> PB!Exit
  /\ B!Restart <=> PB!Restart
BY DEF B!TypeOK, B!Init, B!Call, B!Measure, B!Exit, B!Restart, B!CBoxes, B!Slices,
       B!NoAnswer, B!Events, B!Steps, B!home, B!process, B!machine, B!Zeros,
       B!NextBox, B!DisableCounters, B!ResetCounter, B!SelectEvent,
       B!EnableCounting, B!Poke, B!PokeReturns, B!ReadCounter, B!Interpret,
       B!Corrected, B!FirstMax, B!IsFirstMax,
       PB!TypeOK, PB!Init, PB!Call, PB!Measure, PB!Exit, PB!Restart, PB!CBoxes,
       PB!Slices, PB!NoAnswer, PB!Events, PB!Steps, PB!home, PB!process,
       PB!machine, PB!Zeros, PB!NextBox, PB!DisableCounters, PB!ResetCounter,
       PB!SelectEvent, PB!EnableCounting, PB!Poke, PB!PokeReturns,
       PB!ReadCounter, PB!Interpret, PB!Corrected, PB!FirstMax, PB!IsFirstMax

(* A step of process A keeps the types and the ranges of its loops; it      *)
(* makes no noise; and if A was alone so far it goes on like that.          *)
LEMMA StepOfA ==
  ASSUME IInv, A!Measure \/ A!Exit \/ A!Restart
  PROVE  /\ PA!TypeOK' /\ PA!LoopsInRange' /\ NoNoise'
         /\ PA!IInv => PA!IInv'
<1>1. PA!TypeOK /\ PA!LoopsInRange
  BY DEF IInv, TypesAndLoops
<1>2. [PA!Next]_(PA!vars)
  BY SameA DEF PA!Next
<1>3. noise' = noise
  BY DEF A!Measure, A!Exit, A!Restart, A!DisableCounters, A!ResetCounter,
         A!SelectEvent, A!EnableCounting, A!Poke, A!PokeReturns, A!ReadCounter,
         A!Interpret
<1>4. PA!TypeOK' /\ PA!LoopsInRange'
  BY <1>1, <1>2, CoreAssumed, PA!NextTypes
<1>5. PA!IInv => PA!IInv'
  BY <1>2, CoreAssumed, PA!NextIInv
<1> QED
  BY <1>3, <1>4, <1>5 DEF IInv, NoNoise

(* A call of process A is as good as the first one.                         *)
LEMMA CallOfA ==
  ASSUME IInv, NEW a \in Addr, A!Call(a)
  PROVE  PA!IInv' /\ UNCHANGED <<global, evtsel, ctr, noise>>
<1>1. PA!IInv'
  BY SameA, CoreAssumed, PA!CallStartsAfresh DEF IInv, TypesAndLoops
<1>2. noise' = noise
  BY DEF IInv, NoNoise, A!Call, A!Zeros, A!CBoxes
<1> QED
  BY <1>1, <1>2 DEF A!Call, A!machine

(* What the other process does to process A: its variables stay, and the    *)
(* registers keep their types.  Between calls that changes nothing of what  *)
(* is known of A, and otherwise nothing does that leaves the registers be.  *)
LEMMA MeanwhileA ==
  ASSUME IInv, UNCHANGED <<procA, noise>>,
         global' \in BOOLEAN, evtsel' \in [PA!CBoxes -> PA!Events],
         ctr' \in [PA!CBoxes -> Nat]
  PROVE  /\ PA!TypeOK' /\ PA!LoopsInRange'
         /\ PA!IInv /\ (pcA \in Idle \/ UNCHANGED <<global, evtsel, ctr>>)
              => PA!IInv'
<1>1. PA!TypeOK /\ PA!LoopsInRange
  BY DEF IInv, TypesAndLoops
<1>2. PA!TypeOK' /\ PA!LoopsInRange'
  BY <1>1 DEF procA, PA!TypeOK, PA!LoopsInRange
<1>3. ASSUME PA!IInv, pcA \in Idle PROVE PA!IInv'
  BY <1>2, <1>3, CoreAssumed, PA!IdleReliesOnNothing
     DEF procA, Idle, PA!process
<1>4. ASSUME PA!IInv, UNCHANGED <<global, evtsel, ctr>> PROVE PA!IInv'
  <2>1. [PA!Next]_(PA!vars)
    BY <1>4 DEF procA, PA!vars, PA!process, PA!machine
  <2> QED BY <1>4, <2>1, CoreAssumed, PA!NextIInv
<1> QED
  BY <1>2, <1>3, <1>4

(* The same for the other process. *)
LEMMA StepOfB ==
  ASSUME IInv, B!Measure \/ B!Exit \/ B!Restart
  PROVE  /\ PB!TypeOK' /\ PB!LoopsInRange' /\ NoNoise'
         /\ PB!IInv => PB!IInv'
<1>1. PB!TypeOK /\ PB!LoopsInRange
  BY DEF IInv, TypesAndLoops
<1>2. [PB!Next]_(PB!vars)
  BY SameB DEF PB!Next
<1>3. noise' = noise
  BY DEF B!Measure, B!Exit, B!Restart, B!DisableCounters, B!ResetCounter,
         B!SelectEvent, B!EnableCounting, B!Poke, B!PokeReturns, B!ReadCounter,
         B!Interpret
<1>4. PB!TypeOK' /\ PB!LoopsInRange'
  BY <1>1, <1>2, CoreAssumed, PB!NextTypes
<1>5. PB!IInv => PB!IInv'
  BY <1>2, CoreAssumed, PB!NextIInv
<1> QED
  BY <1>3, <1>4, <1>5 DEF IInv, NoNoise

(* The same for the other process. *)
LEMMA CallOfB ==
  ASSUME IInv, NEW a \in Addr, B!Call(a)
  PROVE  PB!IInv' /\ UNCHANGED <<global, evtsel, ctr, noise>>
<1>1. PB!IInv'
  BY SameB, CoreAssumed, PB!CallStartsAfresh DEF IInv, TypesAndLoops
<1>2. noise' = noise
  BY DEF IInv, NoNoise, B!Call, B!Zeros, B!CBoxes
<1> QED
  BY <1>1, <1>2 DEF B!Call, B!machine

(* The same for the other process. *)
LEMMA MeanwhileB ==
  ASSUME IInv, UNCHANGED <<procB, noise>>,
         global' \in BOOLEAN, evtsel' \in [PB!CBoxes -> PB!Events],
         ctr' \in [PB!CBoxes -> Nat]
  PROVE  /\ PB!TypeOK' /\ PB!LoopsInRange'
         /\ PB!IInv /\ (pcB \in Idle \/ UNCHANGED <<global, evtsel, ctr>>)
              => PB!IInv'
<1>1. PB!TypeOK /\ PB!LoopsInRange
  BY DEF IInv, TypesAndLoops
<1>2. PB!TypeOK' /\ PB!LoopsInRange'
  BY <1>1 DEF procB, PB!TypeOK, PB!LoopsInRange
<1>3. ASSUME PB!IInv, pcB \in Idle PROVE PB!IInv'
  BY <1>2, <1>3, CoreAssumed, PB!IdleReliesOnNothing
     DEF procB, Idle, PB!process
<1>4. ASSUME PB!IInv, UNCHANGED <<global, evtsel, ctr>> PROVE PB!IInv'
  <2>1. [PB!Next]_(PB!vars)
    BY <1>4 DEF procB, PB!vars, PB!process, PB!machine
  <2> QED BY <1>4, <2>1, CoreAssumed, PB!NextIInv
<1> QED
  BY <1>2, <1>3, <1>4

(* The invariant holds at the start, whatever the registers contain.        *)
THEOREM InitIInv == Init => IInv
<1> SUFFICES ASSUME Init PROVE IInv
  OBVIOUS
<1>1. PA!IInv /\ PB!IInv
  BY SameA, SameB, CoreAssumed, PA!InitIInv, PB!InitIInv DEF Init
<1>2. TypesAndLoops
  BY <1>1 DEF Init, TypesAndLoops, PA!IInv, PB!IInv
<1>3. NoNoise
  BY DEF Init, NoNoise, A!Init, A!Zeros, A!CBoxes
<1> QED
  BY <1>1, <1>2, <1>3 DEF IInv, UndisturbedAsAlone

(* Everything process A does keeps the invariant.  A step of A in the       *)
(* middle of a call of the other marks that call as disturbed.              *)
LEMMA NextOfA ==
  ASSUME IInv, CallA \/ MeasureA \/ ExitA
  PROVE  IInv'
<1>1. CASE CallA
  <2>1. PICK a \in Addr : A!Call(a)
    BY <1>1 DEF CallA
  <2>2. PA!IInv' /\ UNCHANGED <<global, evtsel, ctr, noise>>
    BY <2>1, CallOfA
  <2>3. PA!TypeOK' /\ PA!LoopsInRange'
    BY <2>2 DEF PA!IInv
  <2>4. PB!TypeOK' /\ PB!LoopsInRange' /\ (PB!IInv => PB!IInv')
    BY <1>1, <2>2, <2>3, MeanwhileB
       DEF CallA, PA!TypeOK, PA!CBoxes, PA!Events, PB!CBoxes, PB!Events
  <2> QED
    BY <1>1, <2>2, <2>3, <2>4
       DEF CallA, IInv, TypesAndLoops, NoNoise, UndisturbedAsAlone
<1>2. CASE MeasureA
  <2>1. /\ PA!TypeOK' /\ PA!LoopsInRange' /\ NoNoise'
        /\ PA!IInv => PA!IInv'
    BY <1>2, StepOfA DEF MeasureA
  <2>2. noise' = noise
    BY <2>1 DEF IInv, NoNoise
  <2>3. /\ PB!TypeOK' /\ PB!LoopsInRange'
        /\ PB!IInv /\ pcB \in Idle => PB!IInv'
    BY <1>2, <2>1, <2>2, MeanwhileB
       DEF MeasureA, PA!TypeOK, PA!CBoxes, PA!Events, PB!CBoxes, PB!Events
  <2> QED
    BY <1>2, <2>1, <2>3
       DEF MeasureA, IInv, TypesAndLoops, UndisturbedAsAlone
<1>3. CASE ExitA
  <2>1. /\ PA!TypeOK' /\ PA!LoopsInRange' /\ NoNoise'
        /\ PA!IInv => PA!IInv'
    BY <1>3, StepOfA DEF ExitA
  <2>2. UNCHANGED <<global, evtsel, ctr, noise>>
    BY <1>3 DEF ExitA, A!Exit, A!Restart, A!machine
  <2>3. PB!TypeOK' /\ PB!LoopsInRange' /\ (PB!IInv => PB!IInv')
    BY <1>3, <2>1, <2>2, MeanwhileB
       DEF ExitA, PA!TypeOK, PA!CBoxes, PA!Events, PB!CBoxes, PB!Events
  <2> QED
    BY <1>3, <2>1, <2>3
       DEF ExitA, IInv, TypesAndLoops, UndisturbedAsAlone
<1> QED
  BY <1>1, <1>2, <1>3

(* The same for the other process. *)
LEMMA NextOfB ==
  ASSUME IInv, CallB \/ MeasureB \/ ExitB
  PROVE  IInv'
<1>1. CASE CallB
  <2>1. PICK a \in Addr : B!Call(a)
    BY <1>1 DEF CallB
  <2>2. PB!IInv' /\ UNCHANGED <<global, evtsel, ctr, noise>>
    BY <2>1, CallOfB
  <2>3. PB!TypeOK' /\ PB!LoopsInRange'
    BY <2>2 DEF PB!IInv
  <2>4. PA!TypeOK' /\ PA!LoopsInRange' /\ (PA!IInv => PA!IInv')
    BY <1>1, <2>2, <2>3, MeanwhileA
       DEF CallB, PB!TypeOK, PB!CBoxes, PB!Events, PA!CBoxes, PA!Events
  <2> QED
    BY <1>1, <2>2, <2>3, <2>4
       DEF CallB, IInv, TypesAndLoops, NoNoise, UndisturbedAsAlone
<1>2. CASE MeasureB
  <2>1. /\ PB!TypeOK' /\ PB!LoopsInRange' /\ NoNoise'
        /\ PB!IInv => PB!IInv'
    BY <1>2, StepOfB DEF MeasureB
  <2>2. noise' = noise
    BY <2>1 DEF IInv, NoNoise
  <2>3. /\ PA!TypeOK' /\ PA!LoopsInRange'
        /\ PA!IInv /\ pcA \in Idle => PA!IInv'
    BY <1>2, <2>1, <2>2, MeanwhileA
       DEF MeasureB, PB!TypeOK, PB!CBoxes, PB!Events, PA!CBoxes, PA!Events
  <2> QED
    BY <1>2, <2>1, <2>3
       DEF MeasureB, IInv, TypesAndLoops, UndisturbedAsAlone
<1>3. CASE ExitB
  <2>1. /\ PB!TypeOK' /\ PB!LoopsInRange' /\ NoNoise'
        /\ PB!IInv => PB!IInv'
    BY <1>3, StepOfB DEF ExitB
  <2>2. UNCHANGED <<global, evtsel, ctr, noise>>
    BY <1>3 DEF ExitB, B!Exit, B!Restart, B!machine
  <2>3. PA!TypeOK' /\ PA!LoopsInRange' /\ (PA!IInv => PA!IInv')
    BY <1>3, <2>1, <2>2, MeanwhileA
       DEF ExitB, PB!TypeOK, PB!CBoxes, PB!Events, PA!CBoxes, PA!Events
  <2> QED
    BY <1>3, <2>1, <2>3
       DEF ExitB, IInv, TypesAndLoops, UndisturbedAsAlone
<1> QED
  BY <1>1, <1>2, <1>3

(* Every step is one of one of the processes. *)
THEOREM NextIInv ==
  ASSUME IInv, [Next]_vars
  PROVE  IInv'
<1>1. CASE Next
  BY <1>1, NextOfA, NextOfB DEF Next
<1>2. CASE UNCHANGED vars
  <2>1. UNCHANGED <<procA, procB, global, evtsel, ctr, noise, mixedA, mixedB>>
    BY <1>2 DEF vars
  <2>2. /\ global \in BOOLEAN /\ evtsel \in [PA!CBoxes -> PA!Events]
        /\ ctr \in [PA!CBoxes -> Nat]
        /\ evtsel \in [PB!CBoxes -> PB!Events] /\ ctr \in [PB!CBoxes -> Nat]
    BY DEF IInv, TypesAndLoops, PA!TypeOK, PB!TypeOK
  <2>3. /\ PA!TypeOK' /\ PA!LoopsInRange' /\ (PA!IInv => PA!IInv')
        /\ PB!TypeOK' /\ PB!LoopsInRange' /\ (PB!IInv => PB!IInv')
    BY <2>1, <2>2, MeanwhileA, MeanwhileB
  <2> QED
    BY <2>1, <2>3 DEF IInv, TypesAndLoops, NoNoise, UndisturbedAsAlone
<1> QED
  BY <1>1, <1>2

-----------------------------------------------------------------------------
(* The invariant holds in every state, whoever is killed where.             *)
THEOREM Invariance == Spec => []IInv
<1>1. Init => IInv
  BY InitIInv
<1>2. IInv /\ [Next]_vars => IInv'
  BY NextIInv
<1> QED
  BY <1>1, <1>2, PTL DEF Spec

(* Type correctness of both processes and of the registers they share.      *)
THEOREM TypeCorrect == Spec => []TypeOK
<1>1. IInv => TypeOK
  BY SameA, SameB DEF IInv, TypesAndLoops, TypeOK
<1> QED
  BY <1>1, Invariance, PTL

(* Of two processes that drive the same registers without a lock, each      *)
(* answers right whenever the other kept still during its call: what earlier *)
(* calls, of either, killed anywhere, have left in the registers is harmless.*)
THEOREM AloneIsRight == Spec => []UndisturbedCallsAreRight
<1>1. IInv => UndisturbedCallsAreRight
  <2> SUFFICES ASSUME IInv PROVE UndisturbedCallsAreRight
    OBVIOUS
  <2>1. \A c \in 0 .. nb_cores - 1 : noise[c] = 0
    BY DEF IInv, NoNoise
  <2>2. /\ PerFlush \in Nat /\ PerFlush > 1 /\ nb_pokes \in Nat \ {0}
        /\ PerFlush * nb_pokes > 0
    BY TwoInstancesAssumption
  <2>3. ASSUME pcA = "ready", sliceA # A!NoAnswer, ~ mixedA
        PROVE  sliceA = SliceOf[addrA]
    <3>1. PA!WrongAnswerExplained /\ PA!TypeOK
      BY <2>3 DEF IInv, UndisturbedAsAlone, PA!IInv
    <3>2. PA!home \in PA!CBoxes
      BY <3>1, CoreAssumed, PA!HomeIsCBox
    <3> QED BY <2>1, <2>2, <2>3, <3>1, <3>2
               DEF PA!WrongAnswerExplained, PA!home, PA!CBoxes, PA!NoAnswer, A!NoAnswer
  <2>4. ASSUME pcB = "ready", sliceB # B!NoAnswer, ~ mixedB
        PROVE  sliceB = SliceOf[addrB]
    <3>1. PB!WrongAnswerExplained /\ PB!TypeOK
      BY <2>4 DEF IInv, UndisturbedAsAlone, PB!IInv
    <3>2. PB!home \in PB!CBoxes
      BY <3>1, CoreAssumed, PB!HomeIsCBox
    <3> QED BY <2>1, <2>2, <2>4, <3>1, <3>2
               DEF PB!WrongAnswerExplained, PB!home, PB!CBoxes, PB!NoAnswer, B!NoAnswer
  <2> QED BY <2>3, <2>4 DEF UndisturbedCallsAreRight
<1> QED
  BY <1>1, Invariance, PTL
=============================================================================
