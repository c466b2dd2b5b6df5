------------------------- MODULE CoreMonitorProofs -------------------------
(***************************************************************************)
(* Proofs about CoreMonitor, for any number of C-Boxes, any hash, any      *)
(* number of clflushes and any foreign traffic.                            *)
(*                                                                         *)
(* The inductive invariant follows the measurement: what each finished     *)
(* loop, and the part already done of the loop that is running, has        *)
(* established about the registers.                                        *)
(***************************************************************************)
EXTENDS CoreMonitor, WellFoundedInduction, TLAPS

(* The part of CBoxes a loop has already dealt with. *)
Done(c) == c < i

(* What the counter of C-Box c shows when it is read. *)
Total(c) == noise[c] + (IF c = home THEN PerFlush * nb_pokes ELSE 0)

LoopsInRange ==
  /\ pc = "disable" => i = 0
  /\ pc \in {"reset", "select", "read"} => i \in CBoxes

StoppedDuringSetUp ==
  pc \in {"reset", "select", "enable"} => ~global

NothingCountedYet ==
  pc \in {"disable", "reset", "select", "enable"} =>
    pokes = 0 /\ \A c \in CBoxes : noise[c] = 0

Cleared ==
  /\ pc = "reset" => \A c \in CBoxes : Done(c) => ctr[c] = 0
  /\ pc \in {"select", "enable"} => \A c \in CBoxes : ctr[c] = 0

Selected ==
  /\ pc = "select" => \A c \in CBoxes : Done(c) => evtsel[c] = "lookup"
  /\ pc \in {"enable", "poke"} => \A c \in CBoxes : evtsel[c] = "lookup"

RunningDuringPoke == pc = "poke" => global

AllPoked == pc \in {"read", "interpret"} => pokes = nb_pokes

CountsRead ==
  /\ pc = "read" => \A c \in Slices :
       cboxes[c] = IF c \in CBoxes /\ Done(c)
                   THEN Corrected(Total(c), nb_pokes) ELSE 0
  /\ pc = "interpret" => \A c \in Slices :
       cboxes[c] = IF c \in CBoxes
                   THEN Corrected(Total(c), nb_pokes) ELSE 0

Prepared ==
  /\ StoppedDuringSetUp
  /\ NothingCountedYet
  /\ Cleared
  /\ Selected
  /\ RunningDuringPoke
  /\ AllPoked

IInv ==
  /\ TypeOK
  /\ LoopsInRange
  /\ Prepared
  /\ WindowCountsOnlyThisCall
  /\ CountsRead
  /\ WrongAnswerExplained
-----------------------------------------------------------------------------
(* The least-number principle, for a set instead of a predicate. *)
LEMMA LeastNatural ==
  ASSUME NEW T \in SUBSET Nat, T # {}
  PROVE  \E n \in T : \A m \in T : n <= m
<1>1. PICK n \in T : \A m \in T : ~ (<<m, n>> \in OpToRel(<, Nat))
  BY WFMin, NatLessThanWellFounded
<1>2. \A m \in T : ~ (m < n)
  BY <1>1 DEF OpToRel
<1> QED
  BY <1>2

(* Whatever the counts, the scan over an array of them ends on an index of *)
(* the array that holds the maximum and is the first to hold it.           *)
THEOREM FirstMaxCorrect ==
  ASSUME NEW len \in Nat \ {0},
         NEW counts \in [0 .. len - 1 -> Int]
  PROVE  /\ FirstMax(counts, len) \in 0 .. len - 1
         /\ IsFirstMax(counts, len, FirstMax(counts, len))
<1> DEFINE Found(n) == \E s \in 0 .. n - 1 : IsFirstMax(counts, n, s)
           Lost == {n \in 1 .. len : ~ Found(n)}
<1>1. Lost = {}
  <2> SUFFICES ASSUME Lost # {} PROVE FALSE
    OBVIOUS
  <2>1. PICK n \in Lost : \A m \in Lost : n <= m
    <3>1. Lost \in SUBSET Nat
      OBVIOUS
    <3> HIDE DEF Lost
    <3> QED BY <3>1, LeastNatural
  <2>2. n # 1
    <3>1. IsFirstMax(counts, 1, 0)
      BY DEF IsFirstMax
    <3> QED BY <3>1
  <2>3. n - 1 \in 1 .. len /\ n - 1 \notin Lost
    BY <2>1, <2>2
  <2>4. PICK s \in 0 .. n - 2 : IsFirstMax(counts, n - 1, s)
    BY <2>3
  <2>5. CASE counts[n - 1] > counts[s]
    <3>1. IsFirstMax(counts, n, n - 1)
      BY <2>3, <2>4, <2>5 DEF IsFirstMax
    <3> QED BY <3>1, <2>3
  <2>6. CASE counts[n - 1] <= counts[s]
    <3>1. IsFirstMax(counts, n, s)
      BY <2>3, <2>4, <2>6 DEF IsFirstMax
    <3> QED BY <3>1, <2>3
  <2> QED
    BY <2>3, <2>4, <2>5, <2>6
<1>2. Found(len)
  <2>1. len \in 1 .. len
    OBVIOUS
  <2> HIDE DEF Found
  <2> QED BY <1>1, <2>1
<1> QED
  BY <1>2 DEF FirstMax

(* When every count is zero the scan stays where it started, on slice 0.   *)
LEMMA ZeroMaxIsSlice0 ==
  ASSUME NEW len \in Nat \ {0},
         NEW counts \in [0 .. len - 1 -> Nat],
         NEW s \in 0 .. len - 1,
         IsFirstMax(counts, len, s), counts[s] = 0
  PROVE  s = 0
<1> SUFFICES ASSUME s > 0 PROVE FALSE
  OBVIOUS
<1>1. 0 \in 0 .. s - 1
  OBVIOUS
<1>2. counts[0] < 0
  BY <1>1 DEF IsFirstMax
<1> QED
  BY <1>2

-----------------------------------------------------------------------------
(* The home of the address that is measured is one of the C-Boxes read.     *)
LEMMA HomeIsCBox == TypeOK => home \in CBoxes
BY CoreAssumption DEF TypeOK, home

(* A turn of a loop stays in the loop with the next C-Box, or leaves it.   *)
LEMMA NextBoxEffect ==
  ASSUME i \in CBoxes, NEW loop, NEW after, NextBox(loop, after)
  PROVE  \/ pc' = loop /\ i' = i + 1 /\ i' \in CBoxes
         \/ pc' = after /\ i' = 0 /\ i = nb_cores - 1
<1>1. i \in Nat /\ i < nb_cores /\ nb_cores \in Nat
  BY CoreAssumption DEF CBoxes
<1>2. CASE i + 1 < nb_cores
  BY <1>1, <1>2 DEF NextBox, CBoxes
<1>3. CASE ~ (i + 1 < nb_cores)
  BY <1>1, <1>3 DEF NextBox
<1> QED
  BY <1>2, <1>3

(* The invariant holds at the start, whatever the registers contain.       *)
THEOREM InitIInv == Init => IInv
<1> SUFFICES ASSUME Init PROVE IInv
  OBVIOUS
<1> USE DEF Init
<1>1. TypeOK
  BY CoreAssumption DEF TypeOK, Steps, Events, Zeros, CBoxes
<1>2. LoopsInRange /\ Prepared /\ WindowCountsOnlyThisCall /\ CountsRead
  BY DEF LoopsInRange, Prepared, StoppedDuringSetUp, NothingCountedYet,
         Cleared, Selected, RunningDuringPoke, AllPoked,
         WindowCountsOnlyThisCall, InWindow, CountsRead
<1>3. WrongAnswerExplained
  BY DEF WrongAnswerExplained
<1> QED
  BY <1>1, <1>2, <1>3 DEF IInv

(* The scan that closes a measurement ends on the first index of the array *)
(* that holds its maximum.                                                 *)
LEMMA InterpretFirstMax ==
  ASSUME TypeOK, Interpret
  PROVE  slice' \in Slices /\ IsFirstMax(cboxes, max_slices, slice')
<1>1. max_slices \in Nat \ {0}
  BY CoreAssumption
<1>2. cboxes \in [0 .. max_slices - 1 -> Int]
  BY DEF TypeOK, Slices
<1> QED
  BY <1>1, <1>2, FirstMaxCorrect DEF Interpret, Slices

(* The types, and the range of the loop index, are kept whatever the       *)
(* registers contain and whoever writes them.                              *)
LEMMA NextTypes ==
  ASSUME TypeOK, LoopsInRange, [Next]_vars
  PROVE  TypeOK' /\ LoopsInRange'
<1>h. home \in CBoxes
  BY HomeIsCBox
<1>n. \A c \in CBoxes : ctr[c] \in Nat /\ noise[c] \in Nat
  BY DEF TypeOK
<1>p. nb_pokes \in Nat /\ PerFlush \in Nat
  BY CoreAssumption DEF TypeOK
<1>1. ASSUME NEW a \in Addr, Call(a)
      PROVE  TypeOK' /\ LoopsInRange'
  <2>1. noise' \in [CBoxes -> Nat]
    BY <1>1 DEF Call, Zeros
  <2>2. pokes' \in 0 .. nb_pokes
    BY <1>1, <1>p DEF Call
  <2> QED
    BY <1>1, <2>1, <2>2 DEF Call, TypeOK, Steps, machine, LoopsInRange
<1>2. ASSUME DisableCounters
      PROVE  TypeOK' /\ LoopsInRange'
  <2>1. TypeOK'
    BY <1>2 DEF DisableCounters, TypeOK, Steps
  <2>2. LoopsInRange'
    BY <1>2, CoreAssumption DEF DisableCounters, LoopsInRange, CBoxes
  <2> QED BY <2>1, <2>2
<1>3. ASSUME ResetCounter
      PROVE  TypeOK' /\ LoopsInRange'
  <2>1. i \in CBoxes /\ i \in Nat
    BY <1>3 DEF ResetCounter, LoopsInRange, TypeOK
  <2>2. \/ pc' = "reset" /\ i' = i + 1 /\ i' \in CBoxes
        \/ pc' = "select" /\ i' = 0 /\ i = nb_cores - 1
    BY <1>3, <2>1, NextBoxEffect DEF ResetCounter
  <2>3. i' \in Nat /\ pc' \in Steps
    BY <2>1, <2>2 DEF Steps
  <2>4. ctr' \in [CBoxes -> Nat]
    BY <1>3 DEF ResetCounter, TypeOK
  <2>5. LoopsInRange'
    BY <2>2, CoreAssumption DEF LoopsInRange, CBoxes
  <2> QED
    BY <1>3, <2>3, <2>4, <2>5 DEF ResetCounter, TypeOK
<1>4. ASSUME SelectEvent
      PROVE  TypeOK' /\ LoopsInRange'
  <2>1. i \in CBoxes /\ i \in Nat
    BY <1>4 DEF SelectEvent, LoopsInRange, TypeOK
  <2>2. \/ pc' = "select" /\ i' = i + 1 /\ i' \in CBoxes
        \/ pc' = "enable" /\ i' = 0 /\ i = nb_cores - 1
    BY <1>4, <2>1, NextBoxEffect DEF SelectEvent
  <2>3. i' \in Nat /\ pc' \in Steps
    BY <2>1, <2>2 DEF Steps
  <2>4. evtsel' \in [CBoxes -> Events]
    BY <1>4 DEF SelectEvent, TypeOK, Events
  <2>5. LoopsInRange'
    BY <2>2 DEF LoopsInRange
  <2> QED
    BY <1>4, <2>3, <2>4, <2>5 DEF SelectEvent, TypeOK
<1>5. ASSUME EnableCounting
      PROVE  TypeOK' /\ LoopsInRange'
  BY <1>5 DEF EnableCounting, TypeOK, Steps, LoopsInRange
<1>6. ASSUME Poke
      PROVE  TypeOK' /\ LoopsInRange'
  <2>1. pokes' \in 0 .. nb_pokes
    BY <1>6, <1>p DEF Poke, TypeOK
  <2>2. ctr[home] + PerFlush \in Nat
    BY <1>h, <1>n, <1>p
  <2>3. ctr' \in [CBoxes -> Nat]
    BY <1>6, <2>2 DEF Poke, TypeOK
  <2> QED
    BY <1>6, <2>1, <2>3 DEF Poke, TypeOK, LoopsInRange
<1>7. ASSUME PokeReturns
      PROVE  TypeOK' /\ LoopsInRange'
  <2>1. cboxes' \in [Slices -> Nat]
    BY <1>7 DEF PokeReturns, Zeros
  <2>2. LoopsInRange'
    BY <1>7, CoreAssumption DEF PokeReturns, LoopsInRange, CBoxes
  <2> QED
    BY <1>7, <2>1, <2>2 DEF PokeReturns, TypeOK, Steps, machine
<1>8. ASSUME ReadCounter
      PROVE  TypeOK' /\ LoopsInRange'
  <2>1. i \in CBoxes /\ i \in Nat
    BY <1>8 DEF ReadCounter, LoopsInRange, TypeOK
  <2>2. \/ pc' = "read" /\ i' = i + 1 /\ i' \in CBoxes
        \/ pc' = "interpret" /\ i' = 0 /\ i = nb_cores - 1
    BY <1>8, <2>1, NextBoxEffect DEF ReadCounter
  <2>3. i' \in Nat /\ pc' \in Steps
    BY <2>1, <2>2 DEF Steps
  <2>4. Corrected(ctr[i], nb_pokes) \in Nat
    BY <1>n, <1>p, <2>1 DEF Corrected
  <2>5. cboxes' \in [Slices -> Nat]
    BY <1>8, <2>4 DEF ReadCounter, TypeOK
  <2>6. LoopsInRange'
    BY <2>2 DEF LoopsInRange
  <2> QED
    BY <1>8, <2>3, <2>5, <2>6 DEF ReadCounter, TypeOK, machine
<1>9. ASSUME Interpret
      PROVE  TypeOK' /\ LoopsInRange'
  <2>1. slice' \in Slices
    BY <1>9, InterpretFirstMax
  <2> QED
    BY <1>9, <2>1 DEF Interpret, TypeOK, Steps, machine, LoopsInRange
<1>10. ASSUME Exit
       PROVE  TypeOK' /\ LoopsInRange'
  BY <1>10 DEF Exit, TypeOK, Steps, machine, LoopsInRange
<1>11. ASSUME Restart
       PROVE  TypeOK' /\ LoopsInRange'
  <2>1. cboxes' \in [Slices -> Nat] /\ pokes' \in 0 .. nb_pokes
    BY <1>11, <1>p DEF Restart, Zeros
  <2> QED
    BY <1>11, <2>1 DEF Restart, TypeOK, Steps, machine, LoopsInRange
<1>12. ASSUME NEW b \in CBoxes, ForeignLookup(b)
       PROVE  TypeOK' /\ LoopsInRange'
  <2>1. ctr[b] + 1 \in Nat /\ noise[b] + 1 \in Nat
    BY <1>n
  <2>2. ctr' \in [CBoxes -> Nat]
    BY <1>12, <2>1 DEF ForeignLookup, TypeOK
  <2>3. noise' \in [CBoxes -> Nat]
    BY <1>12, <2>1 DEF ForeignLookup, TypeOK
  <2> QED
    BY <1>12, <2>2, <2>3 DEF ForeignLookup, process, TypeOK, LoopsInRange
<1>13. CASE UNCHANGED vars
  BY <1>13 DEF vars, process, machine, TypeOK, LoopsInRange
<1> QED
  BY <1>1, <1>2, <1>3, <1>4, <1>5, <1>6, <1>7, <1>8, <1>9, <1>10, <1>11,
     <1>12, <1>13 DEF Next, Measure

(* Three parts of IInv speak of some stages only.  A step that ends outside *)
(* poking and reading establishes that the window counts are exact: no     *)
(* window is open.                                                         *)
LEMMA NotInWindow == pc' \notin {"poke", "read"} => WindowCountsOnlyThisCall'
BY DEF WindowCountsOnlyThisCall, InWindow

(* A step that ends outside reading and interpreting: no count is claimed.  *)
LEMMA NotRead == pc' \notin {"read", "interpret"} => CountsRead'
BY DEF CountsRead

(* A step that does not end a measurement gives no answer to explain.       *)
LEMMA NotAnswered == pc' # "ready" => WrongAnswerExplained'
BY DEF WrongAnswerExplained

(* A call starts from scratch: what it relies on, it establishes itself,   *)
(* whatever the registers and the arrays contain.                          *)
LEMMA CallStartsAfresh ==
  ASSUME TypeOK, NEW a \in Addr, Call(a)
  PROVE  IInv'
<1>1. TypeOK'
  <2>1. noise' \in [CBoxes -> Nat]
    BY DEF Call, Zeros
  <2>2. pokes' \in 0 .. nb_pokes
    BY CoreAssumption DEF Call
  <2> QED BY <2>1, <2>2 DEF Call, TypeOK, Steps, machine
<1>2. LoopsInRange' /\ Prepared'
  BY DEF Call, Zeros, LoopsInRange, Prepared, StoppedDuringSetUp,
     NothingCountedYet, Cleared, Selected, RunningDuringPoke, AllPoked
<1> QED
  BY <1>1, <1>2, NotInWindow, NotRead, NotAnswered DEF Call, IInv

(* Between calls nothing is relied on: someone else may write the          *)
(* registers.                                                              *)
LEMMA IdleReliesOnNothing ==
  ASSUME IInv, pc \in {"ready", "exited"}, UNCHANGED <<process, noise>>, TypeOK'
  PROVE  IInv'
<1>1. LoopsInRange' /\ Prepared' /\ WrongAnswerExplained'
  BY DEF process, IInv, LoopsInRange, Prepared, StoppedDuringSetUp,
     NothingCountedYet, Cleared, Selected, RunningDuringPoke, AllPoked,
     WrongAnswerExplained, home
<1> QED
  BY <1>1, NotInWindow, NotRead DEF process, IInv

(* Every action keeps the invariant: what the set-up has established, the   *)
(* counts in the window, the counts read and the answer.                    *)
THEOREM NextIInv ==
  ASSUME IInv, [Next]_vars
  PROVE  IInv'
<1> USE DEF IInv
<1>t. TypeOK' /\ LoopsInRange'
  BY NextTypes
<1>h. home \in CBoxes
  BY HomeIsCBox
<1>n. \A c \in CBoxes : ctr[c] \in Nat /\ noise[c] \in Nat
  BY DEF TypeOK
<1>p. nb_pokes \in Nat /\ PerFlush \in Nat /\ PerFlush * pokes \in Nat
  BY CoreAssumption DEF TypeOK
<1>1. ASSUME NEW a \in Addr, Call(a)
      PROVE  IInv'
  BY <1>1, CallStartsAfresh
<1>2. ASSUME DisableCounters
      PROVE  IInv'
  <2>1. Prepared'
    <3>1. i = 0 /\ \A c \in CBoxes : ~ (c < 0)
      BY <1>2 DEF DisableCounters, LoopsInRange, CBoxes
    <3> QED BY <1>2, <3>1 DEF DisableCounters, Done, Prepared, StoppedDuringSetUp, NothingCountedYet, Cleared,
           Selected, RunningDuringPoke, AllPoked
  <2> QED
    BY <1>t, <1>2, <2>1, NotInWindow, NotRead, NotAnswered
       DEF DisableCounters
<1>3. ASSUME ResetCounter
      PROVE  IInv'
  <2>0. i \in CBoxes /\ i \in Nat
    BY <1>3 DEF ResetCounter, LoopsInRange, TypeOK
  <2>1. \/ pc' = "reset" /\ i' = i + 1 /\ i' \in CBoxes
        \/ pc' = "select" /\ i' = 0 /\ i = nb_cores - 1
    BY <1>3, <2>0, NextBoxEffect DEF ResetCounter
  <2>2. Prepared'
    <3>1. \A c \in CBoxes : c <= i => ctr'[c] = 0
      BY <1>3, <2>0 DEF ResetCounter, TypeOK, Prepared, Cleared, Done, CBoxes
    <3>2. Cleared'
      BY <2>0, <2>1, <3>1 DEF Cleared, Done, CBoxes
    <3>3. Selected'
      BY <2>1 DEF Selected, Done, CBoxes
    <3> QED BY <1>3, <2>1, <3>2, <3>3 DEF ResetCounter, Prepared,
               StoppedDuringSetUp, NothingCountedYet, RunningDuringPoke, AllPoked
  <2> QED
    BY <1>t, <2>1, <2>2, NotInWindow, NotRead, NotAnswered
<1>4. ASSUME SelectEvent
      PROVE  IInv'
  <2>0. i \in CBoxes /\ i \in Nat
    BY <1>4 DEF SelectEvent, LoopsInRange, TypeOK
  <2>1. \/ pc' = "select" /\ i' = i + 1 /\ i' \in CBoxes
        \/ pc' = "enable" /\ i' = 0 /\ i = nb_cores - 1
    BY <1>4, <2>0, NextBoxEffect DEF SelectEvent
  <2>2. Prepared'
    <3>1. \A c \in CBoxes : c <= i => evtsel'[c] = "lookup"
      BY <1>4, <2>0 DEF SelectEvent, TypeOK, Prepared, Selected, Done, CBoxes
    <3>2. Selected'
      BY <2>0, <2>1, <3>1 DEF Selected, Done, CBoxes
    <3> QED BY <1>4, <2>1, <3>2 DEF SelectEvent, Prepared, Cleared,
               StoppedDuringSetUp, NothingCountedYet, RunningDuringPoke, AllPoked
  <2> QED
    BY <1>t, <2>1, <2>2, NotInWindow, NotRead, NotAnswered
<1>5. ASSUME EnableCounting
      PROVE  IInv'
  <2>1. Prepared'
    BY <1>5 DEF EnableCounting, LoopsInRange, Prepared, StoppedDuringSetUp, NothingCountedYet, Cleared,
           Selected, RunningDuringPoke, AllPoked
  <2>2. WindowCountsOnlyThisCall'
    <3>1. /\ pokes' = 0
          /\ \A c \in CBoxes : ctr'[c] = 0 /\ noise'[c] = 0
      BY <1>5 DEF EnableCounting, Prepared, Cleared, NothingCountedYet
    <3> QED BY <1>p, <3>1 DEF WindowCountsOnlyThisCall
  <2> QED
    BY <1>t, <1>5, <2>1, <2>2, NotRead, NotAnswered DEF EnableCounting
<1>6. ASSUME Poke
      PROVE  IInv'
  <2>0. \A c \in CBoxes : ctr'[c] = IF c = home THEN ctr[c] + PerFlush ELSE ctr[c]
    BY <1>6, <1>h DEF Poke, TypeOK, Prepared, Selected, RunningDuringPoke
  <2>1. Prepared'
    BY <1>6 DEF Poke, LoopsInRange, Prepared, StoppedDuringSetUp, NothingCountedYet, Cleared,
           Selected, RunningDuringPoke, AllPoked
  <2>2. WindowCountsOnlyThisCall'
    <3>1. PerFlush * (pokes + 1) = PerFlush * pokes + PerFlush
      BY <1>p DEF TypeOK
    <3>2. \A c \in CBoxes :
            ctr[c] = noise[c] + (IF c = home THEN PerFlush * pokes ELSE 0)
      BY <1>6 DEF Poke, WindowCountsOnlyThisCall, InWindow
    <3>3. \A c \in CBoxes :
            ctr'[c] = noise[c] + (IF c = home THEN PerFlush * (pokes + 1) ELSE 0)
      BY <1>n, <1>p, <2>0, <3>1, <3>2
    <3>4. pokes' = pokes + 1 /\ noise' = noise /\ home' = home
      BY <1>6 DEF Poke, home
    <3> QED BY <3>3, <3>4 DEF WindowCountsOnlyThisCall
  <2> QED
    BY <1>t, <1>6, <2>1, <2>2, NotRead, NotAnswered DEF Poke
<1>7. ASSUME PokeReturns
      PROVE  IInv'
  <2>1. Prepared'
    BY <1>7, CoreAssumption DEF PokeReturns, LoopsInRange, CBoxes, machine, Prepared, StoppedDuringSetUp, NothingCountedYet, Cleared,
           Selected, RunningDuringPoke, AllPoked
  <2>2. WindowCountsOnlyThisCall'
    <3>1. \A c \in CBoxes : InWindow(c)
      BY <1>7 DEF PokeReturns, InWindow
    <3>2. UNCHANGED <<ctr, noise, pokes, home>>
      BY <1>7 DEF PokeReturns, machine, home
    <3> QED BY <3>1, <3>2 DEF WindowCountsOnlyThisCall
  <2>3. CountsRead'
    <3>1. \A c \in CBoxes : ~ (c < 0)
      BY DEF CBoxes
    <3> QED BY <1>7, <3>1 DEF PokeReturns, CountsRead, Done, Zeros
  <2> QED
    BY <1>t, <1>7, <2>1, <2>2, <2>3, NotAnswered DEF PokeReturns
<1>8. ASSUME ReadCounter
      PROVE  IInv'
  <2>0. i \in CBoxes /\ i \in Nat /\ pokes = nb_pokes
    BY <1>8 DEF ReadCounter, LoopsInRange, TypeOK, Prepared, AllPoked
  <2>1. \/ pc' = "read" /\ i' = i + 1 /\ i' \in CBoxes
        \/ pc' = "interpret" /\ i' = 0 /\ i = nb_cores - 1
    BY <1>8, <2>0, NextBoxEffect DEF ReadCounter
  <2>2. UNCHANGED <<ctr, noise, pokes, home>>
    BY <1>8 DEF ReadCounter, machine, home
  <2>3. Prepared'
    BY <2>0, <2>1, <2>2 DEF LoopsInRange, Prepared, StoppedDuringSetUp, NothingCountedYet, Cleared,
           Selected, RunningDuringPoke, AllPoked
  <2>4. WindowCountsOnlyThisCall'
    <3>1. \A c \in CBoxes : InWindow(c)' => InWindow(c)
      BY <1>8, <2>0, <2>1 DEF ReadCounter, InWindow, CBoxes
    <3> QED BY <2>2, <3>1 DEF WindowCountsOnlyThisCall
  <2>5. CountsRead'
    <3>1. ctr[i] = Total(i)
      BY <1>8, <2>0 DEF ReadCounter, WindowCountsOnlyThisCall, InWindow, Total
    <3>2. \A c \in Slices : cboxes'[c] =
            IF c = i THEN Corrected(Total(c), nb_pokes) ELSE cboxes[c]
      BY <1>8, <3>1 DEF ReadCounter, TypeOK
    <3>3. \A c \in Slices : cboxes'[c] =
            IF c \in CBoxes /\ c <= i THEN Corrected(Total(c), nb_pokes) ELSE 0
      <4>1. \A c \in CBoxes : c <= i <=> c < i \/ c = i
        BY <2>0 DEF CBoxes
      <4> QED BY <1>8, <2>0, <3>2, <4>1 DEF ReadCounter, CountsRead, Done
    <3>4. \A c \in CBoxes : Total(c)' = Total(c)
      BY <2>2 DEF Total
    <3>5. CASE pc' = "read" /\ i' = i + 1
      <4>1. \A c \in CBoxes : c <= i <=> c < i + 1
        BY <2>0 DEF CBoxes
      <4> QED BY <3>3, <3>4, <3>5, <4>1 DEF CountsRead, Done
    <3>6. CASE pc' = "interpret" /\ i = nb_cores - 1
      <4>1. \A c \in CBoxes : c <= i
        BY <3>6, CoreAssumption DEF CBoxes
      <4> QED BY <3>3, <3>4, <3>6, <4>1 DEF CountsRead
    <3> QED BY <2>1, <3>5, <3>6
  <2> QED
    BY <1>t, <2>1, <2>3, <2>4, <2>5, NotAnswered
<1>9. ASSUME Interpret
      PROVE  IInv'
  <2>0. max_slices \in Nat \ {0}
    BY CoreAssumption
  <2>1. slice' \in Slices /\ IsFirstMax(cboxes, max_slices, slice')
    BY <1>9, InterpretFirstMax
  <2>2. Prepared'
    BY <1>9 DEF Interpret, LoopsInRange, Prepared, StoppedDuringSetUp, NothingCountedYet, Cleared,
           Selected, RunningDuringPoke, AllPoked
  <2>3. WrongAnswerExplained'
    <3> SUFFICES ASSUME slice' # home
                 PROVE  \/ slice' = 0 /\ noise[home] = 0 /\ PerFlush = 1
                        \/ /\ slice' \in CBoxes
                           /\ noise[slice'] >= noise[home] + PerFlush * nb_pokes
      BY <1>9 DEF Interpret, WrongAnswerExplained, home
    <3> DEFINE flushed == PerFlush * nb_pokes
    <3>1. /\ cboxes[home] \in Nat /\ cboxes[slice'] \in Nat
          /\ cboxes[home] <= cboxes[slice']
      <4>1. home \in Slices
        BY <1>h, CoreAssumption DEF Slices, CBoxes
      <4> QED BY <2>1, <4>1 DEF TypeOK, IsFirstMax, Slices
    <3>2. noise[home] \in Nat /\ flushed \in Nat /\ flushed >= nb_pokes
      BY <1>h, <1>n, CoreAssumption
    <3>3. flushed = nb_pokes => PerFlush = 1
      BY CoreAssumption
    <3>4. \A s \in Slices : cboxes[s] =
            IF s \in CBoxes THEN Corrected(Total(s), nb_pokes) ELSE 0
      BY <1>9 DEF Interpret, CountsRead
    <3>5. cboxes[home] = Corrected(noise[home] + flushed, nb_pokes)
      BY <1>h, <3>4, CoreAssumption DEF Total, Slices, CBoxes
    <3> HIDE DEF flushed
    <3>6. cboxes[home] = noise[home] + flushed - nb_pokes
      BY <1>p, <3>2, <3>5 DEF Corrected
    <3>7. CASE cboxes[slice'] > 0
      <4>1. /\ slice' \in CBoxes
            /\ cboxes[slice'] = Corrected(noise[slice'], nb_pokes)
        BY <1>n, <2>1, <3>4, <3>7 DEF Total
      <4>2. noise[slice'] \in Nat
        BY <1>n, <4>1
      <4>3. cboxes[slice'] = noise[slice'] - nb_pokes
        BY <1>p, <3>7, <4>1, <4>2 DEF Corrected
      <4>4. noise[home] + flushed - nb_pokes <= noise[slice'] - nb_pokes
        BY <3>1, <3>6, <4>3
      <4>5. noise[slice'] >= noise[home] + flushed
        BY ONLY <1>p, <3>2, <4>2, <4>4
      <4> QED BY <4>1, <4>5 DEF flushed
    <3>8. CASE cboxes[slice'] = 0
      <4>1. slice' = 0
        <5>1. cboxes \in [0 .. max_slices - 1 -> Nat]
          BY DEF TypeOK, Slices
        <5>2. slice' \in 0 .. max_slices - 1
          BY <2>1 DEF Slices
        <5> QED BY <2>0, <2>1, <3>8, <5>1, <5>2, ZeroMaxIsSlice0
      <4>2. noise[home] = 0 /\ flushed = nb_pokes
        BY <1>p, <3>1, <3>2, <3>6, <3>8
      <4> QED BY <3>3, <4>1, <4>2
    <3> QED BY <3>1, <3>7, <3>8
  <2> QED
    BY <1>t, <1>9, <2>2, <2>3, NotInWindow, NotRead DEF Interpret
<1>10. ASSUME Exit
       PROVE  IInv'
  <2>1. Prepared'
    BY <1>10 DEF Exit, TypeOK, Steps, machine, LoopsInRange, Prepared, StoppedDuringSetUp, NothingCountedYet, Cleared,
           Selected, RunningDuringPoke, AllPoked
  <2> QED
    BY <1>t, <1>10, <2>1, NotInWindow, NotRead, NotAnswered DEF Exit
<1>11. ASSUME Restart
       PROVE  IInv'
  <2>1. Prepared' /\ WrongAnswerExplained'
    BY <1>11 DEF Restart, LoopsInRange, WrongAnswerExplained, Prepared, StoppedDuringSetUp, NothingCountedYet, Cleared,
           Selected, RunningDuringPoke, AllPoked
  <2> QED
    BY <1>t, <1>11, <2>1, NotInWindow, NotRead DEF Restart
<1>12. ASSUME NEW b \in CBoxes, ForeignLookup(b)
       PROVE  IInv'
  <2>0. UNCHANGED <<pc, i, addr, pokes, cboxes, slice, global, evtsel, home>>
    BY <1>12 DEF ForeignLookup, process, home
  <2>1. Prepared'
    <3>1. global /\ (noise' = noise \/ pc \in {"poke", "read"})
      BY <1>12 DEF ForeignLookup, InWindow
    <3> QED BY <2>0, <3>1 DEF Done, Prepared, StoppedDuringSetUp, NothingCountedYet, Cleared,
           Selected, RunningDuringPoke, AllPoked
  <2>2. WindowCountsOnlyThisCall'
    <3>1. \A c \in CBoxes : InWindow(c)' <=> InWindow(c)
      BY <2>0 DEF InWindow
    <3>2. CASE InWindow(b)
      <4>1. \A c \in CBoxes :
              /\ ctr'[c] = IF c = b THEN ctr[c] + 1 ELSE ctr[c]
              /\ noise'[c] = IF c = b THEN noise[c] + 1 ELSE noise[c]
        BY <1>12, <3>2 DEF ForeignLookup, TypeOK
      <4> HIDE DEF home
      <4> QED BY <1>n, <1>p, <2>0, <3>1, <4>1 DEF WindowCountsOnlyThisCall
    <3>3. CASE ~ InWindow(b)
      <4>1. \A c \in CBoxes : InWindow(c) =>
              ctr'[c] = ctr[c] /\ noise'[c] = noise[c]
        BY <1>12, <3>3 DEF ForeignLookup, TypeOK
      <4> QED BY <2>0, <3>1, <4>1 DEF WindowCountsOnlyThisCall
    <3> QED BY <3>2, <3>3
  <2>3. CountsRead'
    <3>1. pc = "read" => \A c \in CBoxes : Done(c) => noise'[c] = noise[c]
      <4>1. pc = "read" /\ Done(b) => noise' = noise
        BY <1>12 DEF ForeignLookup, Done, InWindow, TypeOK, CBoxes
      <4>2. \A c \in CBoxes \ {b} : noise'[c] = noise[c]
        BY <1>12 DEF ForeignLookup, TypeOK
      <4> QED BY <4>1, <4>2
    <3>2. pc = "interpret" => noise' = noise
      BY <1>12 DEF ForeignLookup, InWindow
    <3>3. \A c \in CBoxes : noise'[c] = noise[c] => Total(c)' = Total(c)
      BY <2>0 DEF Total
    <3> QED BY <2>0, <3>1, <3>2, <3>3 DEF CountsRead, Done
  <2>4. WrongAnswerExplained'
    <3>1. pc = "ready" => noise' = noise
      BY <1>12 DEF ForeignLookup, InWindow
    <3> QED BY <2>0, <3>1 DEF WrongAnswerExplained
  <2> QED
    BY <1>t, <2>1, <2>2, <2>3, <2>4
<1>13. CASE UNCHANGED vars
  BY <1>13 DEF vars, process, machine, TypeOK, LoopsInRange, Done,
     WindowCountsOnlyThisCall, InWindow, CountsRead, Total,
     WrongAnswerExplained, home, Prepared, StoppedDuringSetUp, NothingCountedYet, Cleared,
           Selected, RunningDuringPoke, AllPoked
<1> QED
  BY <1>1, <1>2, <1>3, <1>4, <1>5, <1>6, <1>7, <1>8, <1>9, <1>10, <1>11,
     <1>12, <1>13 DEF Next, Measure

-----------------------------------------------------------------------------
(* The invariant holds in every state, whatever crashes and whoever else    *)
(* uses the cache in between.                                              *)
THEOREM Invariance == Spec => []IInv
<1>1. Init => IInv
  BY InitIInv
<1>2. IInv /\ [Next]_vars => IInv'
  BY NextIInv
<1> QED
  BY <1>1, <1>2, PTL DEF Spec

(* Type correctness of the measurement, of its arrays and of the registers *)
(* it drives, for every machine.                                           *)
THEOREM TypeCorrect == Spec => []TypeOK
<1>1. IInv => TypeOK
  BY DEF IInv
<1> QED
  BY <1>1, Invariance, PTL

(* Nothing an earlier call, a killed run or another tool left in a counter *)
(* is ever part of a count: disable, reset, select and enable, in the      *)
(* order of monitor_single_address_core, clear it whatever it was.         *)
THEOREM WindowIsExact == Spec => []WindowCountsOnlyThisCall
<1>1. IInv => WindowCountsOnlyThisCall
  BY DEF IInv
<1> QED
  BY <1>1, Invariance, PTL

(* Only the two causes named in WrongAnswerExplained make the answer wrong.*)
THEOREM WrongOnlyByNoise == Spec => []WrongAnswerExplained
<1>1. IInv => WrongAnswerExplained
  BY DEF IInv
<1> QED
  BY <1>1, Invariance, PTL

(* No counter is cleared while counting is on. *)
THEOREM ClearedWhileStopped == Spec => ClearedOnlyWhileStopped
<1>1. IInv /\ [Next]_vars =>
        [\A c \in CBoxes : ctr'[c] < ctr[c] => ~global]_vars
  <2> SUFFICES ASSUME IInv, Next, NEW c \in CBoxes, ctr'[c] < ctr[c]
               PROVE  ~global
    OBVIOUS
  <2>1. ctr[c] \in Nat /\ ctr \in [CBoxes -> Nat] /\ PerFlush \in Nat
    BY CoreAssumption DEF IInv, TypeOK
  <2>2. CASE ResetCounter
    BY <2>2 DEF ResetCounter, IInv, Prepared, StoppedDuringSetUp
  <2>3. CASE Poke
    BY <2>1, <2>3 DEF Poke
  <2>4. CASE \E b \in CBoxes : ForeignLookup(b)
    BY <2>1, <2>4 DEF ForeignLookup
  <2>5. ctr' = ctr \/ ResetCounter \/ Poke
                   \/ \E b \in CBoxes : ForeignLookup(b)
    BY DEF Next, Measure, Call, DisableCounters, SelectEvent, EnableCounting,
           PokeReturns, ReadCounter, Interpret, Exit, Restart, machine
  <2> QED
    BY <2>1, <2>2, <2>3, <2>4, <2>5
<1> QED
  BY <1>1, Invariance, PTL DEF Spec, ClearedOnlyWhileStopped

-----------------------------------------------------------------------------
(* The refinement: what a step does to the four variables of SliceProbe.   *)
LEMMA StepProbe ==
  ASSUME IInv, IInv', [Next]_vars
  PROVE  [Probe!Next]_(Probe!vars)
<1>1. Reliable \in BOOLEAN /\ Reliable' \in BOOLEAN
  BY DEF Reliable
<1>2. addr \in Addr /\ addr' \in Addr
  BY DEF IInv, TypeOK
<1>3. ASSUME NEW a \in Addr, Call(a) PROVE Probe!Call
  BY <1>1, <1>3 DEF Probe!Call, Call, Phase, process, machine
<1>4. CASE \/ DisableCounters \/ ResetCounter \/ SelectEvent
           \/ EnableCounting \/ Poke \/ PokeReturns \/ ReadCounter
  <2>1. Phase = "probing" /\ Phase' = "probing"
    BY <1>4 DEF DisableCounters, ResetCounter, SelectEvent, EnableCounting,
                Poke, PokeReturns, ReadCounter, NextBox, Phase
  <2>2. addr' = addr /\ slice' = slice
    BY <1>4 DEF DisableCounters, ResetCounter, SelectEvent, EnableCounting,
                Poke, PokeReturns, ReadCounter
  <2>3. Probe!Disturb
    BY <1>1, <2>1, <2>2 DEF Probe!Disturb
  <2> QED BY <2>3 DEF Probe!Next
<1>5. ASSUME Interpret PROVE Probe!Answer
  <2>1. Phase = "probing" /\ Phase' = "ready"
    BY <1>5 DEF Interpret, Phase
  <2>2. Reliable' = Reliable /\ addr' = addr
    BY <1>5 DEF Interpret, Reliable, home, machine
  <2>3. slice' \in Slices
    BY <1>5, InterpretFirstMax DEF IInv
  <2>4. ASSUME Reliable PROVE slice' = SliceOf[addr]
    <3>1. WrongAnswerExplained' /\ pc' = "ready" /\ slice' # NoAnswer
      BY <1>5, <2>3 DEF IInv, Interpret, Slices, NoAnswer
    <3>2. home' = home /\ noise' = noise
      BY <1>5 DEF Interpret, home
    <3>3. SUFFICES ASSUME slice' # home PROVE FALSE
      BY DEF home
    <3>4. \/ noise[home] = 0 /\ PerFlush = 1
          \/ /\ slice' \in CBoxes \ {home}
             /\ noise[slice'] >= noise[home] + PerFlush * nb_pokes
      BY <3>1, <3>2, <3>3 DEF WrongAnswerExplained
    <3>5. \A c \in CBoxes : noise[c] \in Nat
      BY DEF IInv, TypeOK
    <3>6. home \in CBoxes /\ PerFlush * nb_pokes \in Nat /\ PerFlush \in Nat
      BY HomeIsCBox, CoreAssumption DEF IInv
    <3>7. CASE noise[home] = 0 /\ PerFlush = 1
      BY <2>4, <3>7 DEF Reliable
    <3>8. CASE /\ slice' \in CBoxes \ {home}
               /\ noise[slice'] >= noise[home] + PerFlush * nb_pokes
      <4>1. noise[slice'] < noise[home] + PerFlush * nb_pokes
        BY <2>4, <3>8 DEF Reliable
      <4> HIDE DEF home
      <4> QED BY <3>5, <3>6, <3>8, <4>1
    <3> QED BY <3>4, <3>7, <3>8
  <2> QED BY <2>1, <2>2, <2>3, <2>4 DEF Probe!Answer
<1>6. ASSUME Exit PROVE Probe!Exit
  BY <1>6 DEF Probe!Exit, Exit, Phase, Reliable, home, machine
<1>7. ASSUME Restart PROVE Probe!Restart
  BY <1>1, <1>2, <1>7 DEF Probe!Restart, Restart, Phase, NoAnswer
<1>8. ASSUME NEW b \in CBoxes, ForeignLookup(b)
      PROVE  [Probe!Next]_(Probe!vars)
  <2>1. Phase' = Phase /\ addr' = addr /\ slice' = slice
    BY <1>8 DEF ForeignLookup, process, Phase
  <2>2. CASE Phase = "probing"
    <3>1. Probe!Disturb
      BY <1>1, <2>1, <2>2 DEF Probe!Disturb
    <3> QED BY <3>1 DEF Probe!Next
  <2>3. CASE Phase # "probing"
    <3>1. ~ InWindow(b)
      BY <2>3 DEF InWindow, Phase
    <3>2. noise' = noise
      BY <1>8, <3>1 DEF ForeignLookup
    <3>3. Reliable' = Reliable
      BY <2>1, <3>2 DEF Reliable, home
    <3> QED BY <2>1, <3>3 DEF Probe!vars
  <2> QED BY <2>2, <2>3
<1>9. CASE UNCHANGED vars
  BY <1>9 DEF vars, process, machine, Probe!vars, Phase, Reliable, home
<1> QED
  BY <1>3, <1>4, <1>5, <1>6, <1>7, <1>8, <1>9 DEF Next, Measure, Probe!Next

(* monitor_single_address_core implements SliceProbe: a caller may think   *)
(* of it as one question with one answer, right whenever it is reliable.   *)
THEOREM ImplementsSliceProbe == Spec => ProbeSpec
<1>1. Init => Probe!Init
  <2>1. Reliable \in BOOLEAN
    BY DEF Reliable
  <2> QED BY <2>1 DEF Init, Probe!Init, Phase, NoAnswer
<1>2. IInv /\ IInv' /\ [Next]_vars => [Probe!Next]_(Probe!vars)
  BY StepProbe
<1> QED
  BY <1>1, <1>2, Invariance, PTL DEF Spec, ProbeSpec, Probe!Spec
=============================================================================
