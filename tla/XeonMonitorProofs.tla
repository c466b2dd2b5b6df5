------------------------- MODULE XeonMonitorProofs -------------------------
(***************************************************************************)
(* Proofs about XeonMonitor, for any number of counter boxes, any hash,    *)
(* any number of clflushes, any foreign traffic and any crash.             *)
(*                                                                         *)
(* As in CoreMonitorProofs the inductive invariant follows the measurement *)
(* loop by loop; here every box has a freeze bit and a window of its own,  *)
(* so what a loop has established holds for the boxes it has passed.       *)
(***************************************************************************)
EXTENDS XeonMonitor, TLAPS

(* The scan for the slice is that of the Core measurement; what is proved  *)
(* of it there is about an array, and about no register.                   *)
Core == INSTANCE CoreMonitorProofs WITH global <- FALSE, evtsel <- ctl

(* The boxes the running loop has already dealt with. *)
Done(c) == c < i

(* What box c shows when it is read, and what the called function makes of *)
(* that.                                                                   *)
Total(c) == noise[c] + (IF c = home THEN PerFlush * nb_pokes ELSE 0)
Counted(c) ==
  IF variant = "fast" THEN Corrected(Total(c), nb_pokes) ELSE Total(c)

SetUp == {"mark", "reset", "enable", "select", "filter"}
Loops == SetUp \cup {"unfreeze", "freeze", "read", "readagain"}

LoopsInRange == pc \in Loops => i \in CBoxes

(* From its reset to its turn in the unfreeze loop a box is frozen, and    *)
(* again from its turn in the freeze loop to the end of the reading.       *)
FreezeBits ==
  \A c \in CBoxes :
    /\ pc = "reset" /\ Done(c) => frozen[c]
    /\ pc \in {"enable", "select", "filter", "read", "readagain"} => frozen[c]
    /\ pc = "unfreeze" => (frozen[c] <=> ~ Done(c))
    /\ pc = "poke" => ~ frozen[c]
    /\ pc = "freeze" /\ Done(c) => frozen[c]

(* The counter stays zero from the reset of a box until it is unfrozen.    *)
Cleared ==
  \A c \in CBoxes :
    /\ pc = "reset" /\ Done(c) => ctr[c] = 0
    /\ pc \in {"enable", "select", "filter"} => ctr[c] = 0
    /\ pc = "unfreeze" /\ ~ Done(c) => ctr[c] = 0

NothingCountedYet ==
  /\ pc \in SetUp \cup {"unfreeze"} => pokes = 0
  /\ \A c \in CBoxes :
       pc \in SetUp \/ (pc = "unfreeze" /\ ~ Done(c)) => noise[c] = 0

(* A box that pokes can reach counts lookups and lets them through. *)
Selected ==
  \A c \in CBoxes :
    /\ pc = "select" /\ Done(c) => ctl[c] = "lookup"
    /\ pc \in {"filter", "unfreeze", "poke"} => ctl[c] = "lookup"
    /\ pc = "filter" /\ Done(c) => filter[c]
    /\ pc \in {"unfreeze", "poke"} => filter[c]

AllPoked ==
  pc \in {"freeze", "read", "readagain", "interpret"} => pokes = nb_pokes

Prepared ==
  /\ FreezeBits
  /\ Cleared
  /\ NothingCountedYet
  /\ Selected
  /\ AllPoked

(* Each array holds the counts of the boxes read so far, and zero beyond.  *)
(* Between the two reads of the plain variants the first array is one box  *)
(* ahead of the second.                                                    *)
FirstRead(c) == pc = "interpret" \/ Done(c) \/ (pc = "readagain" /\ c = i)
SecondRead(c) == pc = "interpret" \/ Done(c)

CountsRead ==
  /\ pc = "readagain" => variant = "plain"
  /\ pc \in {"read", "readagain", "interpret"} =>
       \A c \in Slices :
         /\ cboxes[c] = IF c \in CBoxes /\ FirstRead(c) THEN Counted(c) ELSE 0
         /\ cboxes_tri[c] =
              IF c \in CBoxes /\ SecondRead(c) THEN Counted(c) ELSE 0

IInv ==
  /\ TypeOK
  /\ LoopsInRange
  /\ Prepared
  /\ CountsOnlyThisCall
  /\ CountsRead
  /\ WrongAnswerExplained
-----------------------------------------------------------------------------
(* The home of the address that is measured is one of the boxes driven.     *)
LEMMA HomeIsCBox == TypeOK => home \in CBoxes
BY XeonAssumption DEF TypeOK, home

(* A turn of a loop stays in the loop, with one more box done, or leaves   *)
(* it when all of them are done, and then the next loop has done none.     *)
LEMMA NextBoxEffect ==
  ASSUME i \in CBoxes, NEW loop, NEW after, NextBox(loop, after)
  PROVE  /\ i' \in CBoxes
         /\ \/ /\ pc' = loop
               /\ \A c \in CBoxes : Done(c)' <=> (Done(c) \/ c = i)
            \/ /\ pc' = after
               /\ \A c \in CBoxes : ~ Done(c)' /\ (Done(c) \/ c = i)
<1>1. i \in Nat /\ i < nb_cores /\ nb_cores \in Nat
  BY XeonAssumption DEF CBoxes
<1>2. CASE i + 1 < nb_cores
  BY <1>1, <1>2 DEF NextBox, CBoxes, Done
<1>3. CASE ~ (i + 1 < nb_cores)
  BY <1>1, <1>3 DEF NextBox, CBoxes, Done
<1> QED
  BY <1>2, <1>3

(* A loop that is entered, by a call or after poke(), has done no box yet. *)
LEMMA FirstBox == i' = 0 => i' \in CBoxes /\ \A c \in CBoxes : ~ Done(c)'
BY XeonAssumption DEF CBoxes, Done

(* The window of a box, in terms of the boxes done. *)
LEMMA WindowByDone ==
  ASSUME i \in Nat, NEW c \in CBoxes
  PROVE  InWindow(c) <=> \/ pc = "unfreeze" /\ Done(c)
                         \/ pc = "poke"
                         \/ pc = "freeze" /\ ~ Done(c)
BY DEF InWindow, Done, CBoxes

(* Before the first box is unfrozen and after the last one is read no      *)
(* claim is made about the counters ...                                    *)
LEMMA NotCounting ==
  pc' \notin {"unfreeze", "poke", "freeze", "read", "readagain"} =>
    CountsOnlyThisCall'
BY DEF CountsOnlyThisCall, InWindow

(* ... nor about the arrays outside reading and interpreting ...            *)
LEMMA NotRead == pc' \notin {"read", "readagain", "interpret"} => CountsRead'
BY DEF CountsRead

(* ... nor about the answer while there is none.                            *)
LEMMA NotAnswered == pc' # "ready" => WrongAnswerExplained'
BY DEF WrongAnswerExplained

(* The counts read once all clflushes are done.                             *)
LEMMA CountIsTotal ==
  ASSUME CountsOnlyThisCall, pokes = nb_pokes,
         pc \in {"freeze", "read", "readagain"}, NEW c \in CBoxes
  PROVE  ctr[c] = Total(c)
BY DEF CountsOnlyThisCall, Total

(* What the Core measurement assumes of the machine holds here too.         *)
LEMMA CoreAssumed == Core!CoreAssumption
BY XeonAssumption DEF Core!CoreAssumption, Core!CBoxes, CBoxes

(* The scan that closes a measurement ends on the first index of the array *)
(* that holds its maximum.                                                 *)
LEMMA InterpretFirstMax ==
  ASSUME TypeOK, Interpret
  PROVE  slice' \in Slices /\ IsFirstMax(cboxes, max_slices, slice')
<1>1. max_slices \in Nat \ {0}
  BY XeonAssumption
<1>2. cboxes \in [0 .. max_slices - 1 -> Int]
  BY DEF TypeOK, Slices
<1> QED
  BY <1>1, <1>2, CoreAssumed, Core!FirstMaxCorrect
     DEF Interpret, Slices, FirstMax, IsFirstMax, Core!FirstMax, Core!IsFirstMax

(* The invariant holds at the start, whatever the registers contain.       *)
THEOREM InitIInv == Init => IInv
<1> SUFFICES ASSUME Init PROVE IInv
  OBVIOUS
<1> USE DEF Init
<1>1. TypeOK
  BY XeonAssumption DEF TypeOK, Steps, Variants, Controls, Zeros, CBoxes
<1>2. LoopsInRange /\ Prepared
  BY DEF LoopsInRange, Loops, SetUp, Prepared, FreezeBits, Cleared,
         NothingCountedYet, Selected, AllPoked
<1>3. CountsOnlyThisCall /\ CountsRead /\ WrongAnswerExplained
  BY DEF CountsOnlyThisCall, InWindow, CountsRead, WrongAnswerExplained
<1> QED
  BY <1>1, <1>2, <1>3 DEF IInv

(* Every action keeps the invariant: first the types and the loop index,   *)
(* then what the set-up has established, the counters, the arrays and the  *)
(* answer.                                                                 *)
THEOREM NextIInv ==
  ASSUME IInv, [Next]_vars
  PROVE  IInv'
<1> USE DEF IInv
<1>h. home \in CBoxes
  BY HomeIsCBox
<1>n. \A c \in CBoxes : ctr[c] \in Nat /\ noise[c] \in Nat
  BY DEF TypeOK
<1>p. /\ nb_pokes \in Nat /\ PerFlush \in Nat /\ val_box_freeze \in Nat
      /\ PerFlush * pokes \in Nat
  BY XeonAssumption DEF TypeOK
<1>b. ASSUME pc \in Loops
      PROVE  i \in CBoxes /\ i \in Nat
  BY <1>b DEF LoopsInRange, CBoxes
<1>1. ASSUME NEW v \in Variants, NEW a \in Addr, Call(v, a)
      PROVE  IInv'
  <2>1. TypeOK'
    <3>1. noise' \in [CBoxes -> Nat] /\ pokes' \in 0 .. nb_pokes
      BY <1>1, <1>p DEF Call, Zeros
    <3> QED BY <1>1, <3>1 DEF Call, TypeOK, Steps, machine
  <2>2. LoopsInRange'
    BY <1>1, FirstBox DEF Call, LoopsInRange
  <2>3. Prepared'
    BY <1>1 DEF Call, Zeros, Prepared, FreezeBits, Cleared, SetUp,
                NothingCountedYet, Selected, AllPoked
  <2> QED
    BY <1>1, <2>1, <2>2, <2>3, NotCounting, NotRead, NotAnswered DEF Call
<1>2. ASSUME MarkCounter
      PROVE  IInv'
  <2>0. i \in CBoxes /\ i \in Nat
    BY <1>2, <1>b DEF MarkCounter, Loops, SetUp
  <2>1. /\ i' \in CBoxes
        /\ \/ pc' = "mark"
           \/ pc' = "reset" /\ \A c \in CBoxes : ~ Done(c)'
    BY <1>2, <2>0, NextBoxEffect DEF MarkCounter
  <2>2. TypeOK'
    <3>1. ctr' \in [CBoxes -> Nat]
      BY <1>2, <1>p DEF MarkCounter, TypeOK
    <3>2. i' \in Nat /\ pc' \in Steps
      BY <2>1 DEF CBoxes, Steps
    <3> QED BY <1>2, <3>1, <3>2 DEF MarkCounter, TypeOK, locals
  <2>3. LoopsInRange'
    BY <2>1 DEF LoopsInRange
  <2>4. Prepared'
    BY <1>2, <2>1 DEF MarkCounter, locals, Prepared, FreezeBits, Cleared,
                      SetUp, NothingCountedYet, Selected, AllPoked
  <2> QED
    BY <2>1, <2>2, <2>3, <2>4, NotCounting, NotRead, NotAnswered
<1>3. ASSUME ResetBox
      PROVE  IInv'
  <2>0. i \in CBoxes /\ i \in Nat
    BY <1>3, <1>b DEF ResetBox, Loops, SetUp
  <2>1. /\ i' \in CBoxes
        /\ \/ /\ pc' = "reset"
              /\ \A c \in CBoxes : Done(c)' <=> (Done(c) \/ c = i)
           \/ /\ pc' = "enable"
              /\ \A c \in CBoxes : Done(c) \/ c = i
    BY <1>3, <2>0, NextBoxEffect DEF ResetBox
  <2>2. TypeOK'
    <3>1. /\ frozen' \in [CBoxes -> BOOLEAN]
          /\ ctl' \in [CBoxes -> Controls]
          /\ ctr' \in [CBoxes -> Nat]
      BY <1>3 DEF ResetBox, TypeOK, Controls
    <3>2. i' \in Nat /\ pc' \in Steps
      BY <2>1 DEF CBoxes, Steps
    <3> QED BY <1>3, <3>1, <3>2 DEF ResetBox, TypeOK, locals
  <2>3. LoopsInRange'
    BY <2>1 DEF LoopsInRange
  <2>4. Prepared'
    <3>1. \A c \in CBoxes : Done(c) \/ c = i => frozen'[c] /\ ctr'[c] = 0
      BY <1>3 DEF ResetBox, TypeOK, Prepared, FreezeBits, Cleared
    <3>2. FreezeBits' /\ Cleared'
      BY <2>1, <3>1 DEF FreezeBits, Cleared
    <3>3. NothingCountedYet' /\ Selected' /\ AllPoked'
      BY <1>3, <2>1 DEF ResetBox, locals, Prepared, SetUp,
                        NothingCountedYet, Selected, AllPoked
    <3> QED BY <3>2, <3>3 DEF Prepared
  <2> QED
    BY <2>1, <2>2, <2>3, <2>4, NotCounting, NotRead, NotAnswered
<1>4. ASSUME EnableBox
      PROVE  IInv'
  <2>0. i \in CBoxes /\ i \in Nat
    BY <1>4, <1>b DEF EnableBox, Loops, SetUp
  <2>1. /\ i' \in CBoxes
        /\ \/ pc' = "enable"
           \/ pc' = "select" /\ \A c \in CBoxes : ~ Done(c)'
    BY <1>4, <2>0, NextBoxEffect DEF EnableBox
  <2>2. TypeOK'
    <3>1. ctl' \in [CBoxes -> Controls]
      BY <1>4 DEF EnableBox, TypeOK, Controls
    <3>2. i' \in Nat /\ pc' \in Steps
      BY <2>1 DEF CBoxes, Steps
    <3> QED BY <1>4, <3>1, <3>2 DEF EnableBox, TypeOK, locals
  <2>3. LoopsInRange'
    BY <2>1 DEF LoopsInRange
  <2>4. Prepared'
    BY <1>4, <2>1 DEF EnableBox, locals, Prepared, FreezeBits, Cleared,
                      SetUp, NothingCountedYet, Selected, AllPoked
  <2> QED
    BY <2>1, <2>2, <2>3, <2>4, NotCounting, NotRead, NotAnswered
<1>5. ASSUME SelectEvent
      PROVE  IInv'
  <2>0. i \in CBoxes /\ i \in Nat
    BY <1>5, <1>b DEF SelectEvent, Loops, SetUp
  <2>1. /\ i' \in CBoxes
        /\ \/ /\ pc' = "select"
              /\ \A c \in CBoxes : Done(c)' <=> (Done(c) \/ c = i)
           \/ /\ pc' = "filter"
              /\ \A c \in CBoxes : ~ Done(c)' /\ (Done(c) \/ c = i)
    BY <1>5, <2>0, NextBoxEffect DEF SelectEvent
  <2>2. TypeOK'
    <3>1. ctl' \in [CBoxes -> Controls]
      BY <1>5 DEF SelectEvent, TypeOK, Controls
    <3>2. i' \in Nat /\ pc' \in Steps
      BY <2>1 DEF CBoxes, Steps
    <3> QED BY <1>5, <3>1, <3>2 DEF SelectEvent, TypeOK, locals
  <2>3. LoopsInRange'
    BY <2>1 DEF LoopsInRange
  <2>4. Prepared'
    <3>1. \A c \in CBoxes : Done(c) \/ c = i => ctl'[c] = "lookup"
      BY <1>5 DEF SelectEvent, TypeOK, Prepared, Selected
    <3>2. Selected'
      BY <2>1, <3>1 DEF Selected
    <3>3. FreezeBits' /\ Cleared' /\ NothingCountedYet' /\ AllPoked'
      BY <1>5, <2>1 DEF SelectEvent, locals, Prepared, FreezeBits, Cleared,
                        SetUp, NothingCountedYet, AllPoked
    <3> QED BY <3>2, <3>3 DEF Prepared
  <2> QED
    BY <2>1, <2>2, <2>3, <2>4, NotCounting, NotRead, NotAnswered
<1>6. ASSUME SetFilter
      PROVE  IInv'
  <2>0. i \in CBoxes /\ i \in Nat
    BY <1>6, <1>b DEF SetFilter, Loops, SetUp
  <2>1. /\ i' \in CBoxes
        /\ \/ /\ pc' = "filter"
              /\ \A c \in CBoxes : Done(c)' <=> (Done(c) \/ c = i)
           \/ /\ pc' = "unfreeze"
              /\ \A c \in CBoxes : ~ Done(c)' /\ (Done(c) \/ c = i)
    BY <1>6, <2>0, NextBoxEffect DEF SetFilter
  <2>2. TypeOK'
    <3>1. filter' \in [CBoxes -> BOOLEAN]
      BY <1>6 DEF SetFilter, TypeOK
    <3>2. i' \in Nat /\ pc' \in Steps
      BY <2>1 DEF CBoxes, Steps
    <3> QED BY <1>6, <3>1, <3>2 DEF SetFilter, TypeOK, locals
  <2>3. LoopsInRange'
    BY <2>1 DEF LoopsInRange
  <2>4. Prepared'
    <3>1. \A c \in CBoxes : Done(c) \/ c = i => filter'[c]
      BY <1>6 DEF SetFilter, TypeOK, Prepared, Selected
    <3>2. Selected'
      BY <1>6, <2>1, <3>1 DEF SetFilter, Prepared, Selected
    <3>3. FreezeBits' /\ Cleared' /\ NothingCountedYet' /\ AllPoked'
      BY <1>6, <2>1 DEF SetFilter, locals, Prepared, FreezeBits, Cleared,
                        SetUp, NothingCountedYet, AllPoked
    <3> QED BY <3>2, <3>3 DEF Prepared
  <2>5. CountsOnlyThisCall'
    <3>1. \A c \in CBoxes : ~ InWindow(c)'
      BY <2>1 DEF InWindow, Done, CBoxes
    <3> QED BY <2>1, <3>1 DEF CountsOnlyThisCall
  <2> QED
    BY <2>1, <2>2, <2>3, <2>4, <2>5, NotRead, NotAnswered
<1>7. ASSUME UnfreezeBox
      PROVE  IInv'
  <2>0. i \in CBoxes /\ i \in Nat
    BY <1>7, <1>b DEF UnfreezeBox, Loops, SetUp
  <2>1. /\ i' \in CBoxes
        /\ \/ /\ pc' = "unfreeze"
              /\ \A c \in CBoxes : Done(c)' <=> (Done(c) \/ c = i)
           \/ /\ pc' = "poke"
              /\ \A c \in CBoxes : Done(c) \/ c = i
    BY <1>7, <2>0, NextBoxEffect DEF UnfreezeBox
  <2>2. TypeOK'
    <3>1. frozen' \in [CBoxes -> BOOLEAN]
      BY <1>7 DEF UnfreezeBox, TypeOK
    <3>2. i' \in Nat /\ pc' \in Steps
      BY <2>1 DEF CBoxes, Steps
    <3> QED BY <1>7, <3>1, <3>2 DEF UnfreezeBox, TypeOK, locals
  <2>3. LoopsInRange'
    BY <2>1 DEF LoopsInRange
  <2>4. Prepared'
    <3>1. \A c \in CBoxes : frozen'[c] <=> ~ (Done(c) \/ c = i)
      BY <1>7 DEF UnfreezeBox, TypeOK, Prepared, FreezeBits
    <3>2. FreezeBits'
      BY <2>1, <3>1 DEF FreezeBits
    <3>3. Cleared' /\ NothingCountedYet' /\ Selected' /\ AllPoked'
      BY <1>7, <2>1 DEF UnfreezeBox, locals, Prepared, Cleared, SetUp,
                        NothingCountedYet, Selected, AllPoked
    <3> QED BY <3>2, <3>3 DEF Prepared
  <2>5. CountsOnlyThisCall'
    <3>1. pokes = 0 /\ UNCHANGED <<ctr, noise, pokes, home>>
      BY <1>7 DEF UnfreezeBox, locals, home, Prepared, NothingCountedYet
    <3>2. \A c \in CBoxes : Done(c) \/ c = i => ctr[c] = noise[c]
      <4>1. \A c \in CBoxes : Done(c) => ctr[c] = noise[c]
        BY <1>7, <1>n, <1>p, <2>0, <3>1, WindowByDone
           DEF UnfreezeBox, CountsOnlyThisCall
      <4>2. ctr[i] = noise[i]
        BY <1>7, <2>0 DEF UnfreezeBox, Prepared, Cleared, NothingCountedYet,
                          Done, CBoxes
      <4> QED BY <4>1, <4>2
    <3>3. \A c \in CBoxes : InWindow(c)' => Done(c) \/ c = i
      BY <2>0, <2>1 DEF InWindow, Done, CBoxes
    <3>4. pc' \notin {"freeze", "read", "readagain"} /\ PerFlush * pokes = 0
      BY <1>p, <2>1, <3>1
    <3> QED BY <1>n, <3>1, <3>2, <3>3, <3>4 DEF CountsOnlyThisCall
  <2> QED
    BY <2>1, <2>2, <2>3, <2>4, <2>5, NotRead, NotAnswered
<1>8. ASSUME Poke
      PROVE  IInv'
  <2>0. \A c \in CBoxes :
          ctr'[c] = IF c = home THEN ctr[c] + PerFlush ELSE ctr[c]
    BY <1>8, <1>h DEF Poke, Counting, TypeOK, Prepared, Selected, FreezeBits
  <2>1. TypeOK'
    <3>1. pokes' \in 0 .. nb_pokes
      BY <1>8, <1>p DEF Poke, TypeOK
    <3>2. ctr[home] + PerFlush \in Nat
      BY <1>h, <1>n, <1>p
    <3>3. ctr' \in [CBoxes -> Nat]
      BY <1>8, <3>2 DEF Poke, TypeOK
    <3> QED BY <1>8, <3>1, <3>3 DEF Poke, TypeOK
  <2>2. LoopsInRange' /\ Prepared'
    BY <1>8 DEF Poke, LoopsInRange, Loops, SetUp, Prepared, FreezeBits,
                Cleared, NothingCountedYet, Selected, AllPoked
  <2>3. CountsOnlyThisCall'
    <3>1. PerFlush * (pokes + 1) = PerFlush * pokes + PerFlush
      BY <1>p DEF TypeOK
    <3>2. \A c \in CBoxes :
            ctr[c] = noise[c] + (IF c = home THEN PerFlush * pokes ELSE 0)
      BY <1>8 DEF Poke, CountsOnlyThisCall, InWindow
    <3>3. \A c \in CBoxes :
            ctr'[c] = noise[c] + (IF c = home THEN PerFlush * (pokes + 1) ELSE 0)
      BY <1>n, <1>p, <2>0, <3>1, <3>2
    <3>4. pokes' = pokes + 1 /\ noise' = noise /\ home' = home
      BY <1>8 DEF Poke, home
    <3> QED BY <3>3, <3>4 DEF CountsOnlyThisCall
  <2> QED
    BY <1>8, <2>1, <2>2, <2>3, NotRead, NotAnswered DEF Poke
<1>9. ASSUME PokeReturns
      PROVE  IInv'
  <2>1. TypeOK'
    BY <1>9 DEF PokeReturns, TypeOK, Steps, locals, machine
  <2>2. i' \in CBoxes /\ \A c \in CBoxes : ~ Done(c)'
    BY <1>9, FirstBox DEF PokeReturns
  <2>3. LoopsInRange' /\ Prepared'
    BY <1>9, <2>2 DEF PokeReturns, LoopsInRange, locals, machine, Prepared,
                      FreezeBits, Cleared, SetUp, NothingCountedYet, Selected,
                      AllPoked
  <2>4. CountsOnlyThisCall'
    <3>1. \A c \in CBoxes : InWindow(c)
      BY <1>9 DEF PokeReturns, InWindow
    <3>2. UNCHANGED <<ctr, noise, pokes, home>>
      BY <1>9 DEF PokeReturns, locals, machine, home
    <3> QED BY <3>1, <3>2 DEF CountsOnlyThisCall
  <2> QED
    BY <1>9, <2>1, <2>3, <2>4, NotRead, NotAnswered DEF PokeReturns
<1>10. ASSUME FreezeBox
       PROVE  IInv'
  <2>0. i \in CBoxes /\ i \in Nat
    BY <1>10, <1>b DEF FreezeBox, Loops, SetUp
  <2>1. /\ i' \in CBoxes
        /\ \/ /\ pc' = "freeze"
              /\ \A c \in CBoxes : Done(c)' <=> (Done(c) \/ c = i)
           \/ /\ pc' = "read"
              /\ \A c \in CBoxes : ~ Done(c)' /\ (Done(c) \/ c = i)
    BY <1>10, <2>0, NextBoxEffect DEF FreezeBox
  <2>2. TypeOK'
    <3>1. /\ frozen' \in [CBoxes -> BOOLEAN]
          /\ cboxes' \in [Slices -> Nat]
          /\ cboxes_tri' \in [Slices -> Nat]
      BY <1>10 DEF FreezeBox, TypeOK, Zeros
    <3>2. i' \in Nat /\ pc' \in Steps
      BY <2>1 DEF CBoxes, Steps
    <3> QED BY <1>10, <3>1, <3>2 DEF FreezeBox, TypeOK
  <2>3. LoopsInRange'
    BY <2>1 DEF LoopsInRange
  <2>4. Prepared'
    <3>1. \A c \in CBoxes : Done(c) \/ c = i => frozen'[c]
      BY <1>10 DEF FreezeBox, TypeOK, Prepared, FreezeBits
    <3>2. FreezeBits'
      BY <2>1, <3>1 DEF FreezeBits
    <3>3. Cleared' /\ NothingCountedYet' /\ Selected' /\ AllPoked'
      BY <1>10, <2>1 DEF FreezeBox, Prepared, Cleared, SetUp,
                         NothingCountedYet, Selected, AllPoked
    <3> QED BY <3>2, <3>3 DEF Prepared
  <2>5. CountsOnlyThisCall'
    <3>1. UNCHANGED <<ctr, noise, pokes, home>>
      BY <1>10 DEF FreezeBox, home
    <3> QED BY <1>10, <3>1 DEF FreezeBox, CountsOnlyThisCall
  <2>6. CountsRead'
    BY <1>10, <2>1 DEF FreezeBox, CountsRead, FirstRead, SecondRead, Zeros
  <2> QED
    BY <2>1, <2>2, <2>3, <2>4, <2>5, <2>6, NotAnswered
<1>11. ASSUME ReadOnce
       PROVE  IInv'
  <2>0. i \in CBoxes /\ i \in Nat /\ pokes = nb_pokes
    BY <1>11, <1>b DEF ReadOnce, Loops, SetUp, Prepared, AllPoked
  <2>1. /\ i' \in CBoxes
        /\ \/ /\ pc' = "read"
              /\ \A c \in CBoxes : Done(c)' <=> (Done(c) \/ c = i)
           \/ /\ pc' = "interpret"
              /\ \A c \in CBoxes : Done(c) \/ c = i
    BY <1>11, <2>0, NextBoxEffect DEF ReadOnce
  <2>2. UNCHANGED <<ctr, noise, pokes, home, variant>>
    BY <1>11 DEF ReadOnce, machine, home
  <2>3. TypeOK'
    <3>1. Corrected(ctr[i], nb_pokes) \in Nat
      BY <1>n, <1>p, <2>0 DEF Corrected
    <3>2. cboxes' \in [Slices -> Nat] /\ cboxes_tri' \in [Slices -> Nat]
      BY <1>11, <3>1 DEF ReadOnce, TypeOK
    <3>3. i' \in Nat /\ pc' \in Steps
      BY <2>1 DEF CBoxes, Steps
    <3> QED BY <1>11, <3>2, <3>3 DEF ReadOnce, TypeOK, machine
  <2>4. LoopsInRange' /\ Prepared'
    BY <1>11, <2>0, <2>1, <2>2 DEF ReadOnce, machine, LoopsInRange, Prepared,
       FreezeBits, Cleared, SetUp, NothingCountedYet, Selected, AllPoked
  <2>5. CountsOnlyThisCall'
    BY <1>11, <2>1, <2>2 DEF ReadOnce, CountsOnlyThisCall
  <2>6. CountsRead'
    <3>1. Corrected(ctr[i], nb_pokes) = Counted(i)
      BY <1>11, <2>0, CountIsTotal DEF ReadOnce, Counted
    <3>2. \A c \in Slices :
            /\ cboxes'[c] = IF c = i THEN Counted(c) ELSE cboxes[c]
            /\ cboxes_tri'[c] = IF c = i THEN Counted(c) ELSE cboxes_tri[c]
      BY <1>11, <3>1 DEF ReadOnce, TypeOK
    <3>3. \A c \in CBoxes : Counted(c)' = Counted(c)
      BY <2>2 DEF Counted, Total
    <3> QED BY <1>11, <2>0, <2>1, <3>2, <3>3
            DEF ReadOnce, CountsRead, FirstRead, SecondRead
  <2> QED
    BY <2>1, <2>3, <2>4, <2>5, <2>6, NotAnswered
<1>12. ASSUME ReadFirst
       PROVE  IInv'
  <2>0. i \in CBoxes /\ i \in Nat /\ pokes = nb_pokes
    BY <1>12, <1>b DEF ReadFirst, Loops, SetUp, Prepared, AllPoked
  <2>1. UNCHANGED <<i, ctr, noise, pokes, home, variant>>
    BY <1>12 DEF ReadFirst, machine, home
  <2>2. TypeOK'
    BY <1>12, <1>n, <2>0 DEF ReadFirst, TypeOK, Steps, machine
  <2>3. LoopsInRange' /\ Prepared'
    BY <1>12, <2>0, <2>1 DEF ReadFirst, machine, LoopsInRange, Prepared,
       FreezeBits, Cleared, SetUp, NothingCountedYet, Selected, AllPoked
  <2>4. CountsOnlyThisCall'
    BY <1>12, <2>1 DEF ReadFirst, CountsOnlyThisCall
  <2>5. CountsRead'
    <3>1. ctr[i] = Counted(i)
      BY <1>12, <2>0, CountIsTotal DEF ReadFirst, Counted
    <3>2. \A c \in Slices :
            cboxes'[c] = IF c = i THEN Counted(c) ELSE cboxes[c]
      BY <1>12, <3>1 DEF ReadFirst, TypeOK
    <3>3. \A c \in CBoxes : Counted(c)' = Counted(c) /\ (Done(c)' <=> Done(c))
      BY <2>1 DEF Counted, Total, Done
    <3> QED BY <1>12, <2>0, <2>1, <3>2, <3>3
            DEF ReadFirst, CountsRead, FirstRead, SecondRead
  <2> QED
    BY <1>12, <2>2, <2>3, <2>4, <2>5, NotAnswered DEF ReadFirst
<1>13. ASSUME ReadSecond
       PROVE  IInv'
  <2>0. i \in CBoxes /\ i \in Nat /\ pokes = nb_pokes /\ variant = "plain"
    BY <1>13, <1>b DEF ReadSecond, Loops, SetUp, Prepared, AllPoked, CountsRead
  <2>1. /\ i' \in CBoxes
        /\ \/ /\ pc' = "read"
              /\ \A c \in CBoxes : Done(c)' <=> (Done(c) \/ c = i)
           \/ /\ pc' = "interpret"
              /\ \A c \in CBoxes : Done(c) \/ c = i
    BY <1>13, <2>0, NextBoxEffect DEF ReadSecond
  <2>2. UNCHANGED <<ctr, noise, pokes, home, variant>>
    BY <1>13 DEF ReadSecond, machine, home
  <2>3. TypeOK'
    <3>1. cboxes_tri' \in [Slices -> Nat]
      BY <1>13, <1>n, <2>0 DEF ReadSecond, TypeOK
    <3>2. i' \in Nat /\ pc' \in Steps
      BY <2>1 DEF CBoxes, Steps
    <3> QED BY <1>13, <3>1, <3>2 DEF ReadSecond, TypeOK, machine
  <2>4. LoopsInRange' /\ Prepared'
    BY <1>13, <2>0, <2>1, <2>2 DEF ReadSecond, machine, LoopsInRange, Prepared,
       FreezeBits, Cleared, SetUp, NothingCountedYet, Selected, AllPoked
  <2>5. CountsOnlyThisCall'
    BY <1>13, <2>1, <2>2 DEF ReadSecond, CountsOnlyThisCall
  <2>6. CountsRead'
    <3>1. ctr[i] = Counted(i)
      BY <1>13, <2>0, CountIsTotal DEF ReadSecond, Counted
    <3>2. \A c \in Slices :
            /\ cboxes'[c] = cboxes[c]
            /\ cboxes_tri'[c] = IF c = i THEN Counted(c) ELSE cboxes_tri[c]
      BY <1>13, <3>1 DEF ReadSecond, TypeOK
    <3>3. \A c \in CBoxes : Counted(c)' = Counted(c)
      BY <2>2 DEF Counted, Total
    <3> QED BY <1>13, <2>0, <2>1, <3>2, <3>3
            DEF ReadSecond, CountsRead, FirstRead, SecondRead
  <2> QED
    BY <2>1, <2>3, <2>4, <2>5, <2>6, NotAnswered
<1>14. ASSUME Interpret
       PROVE  IInv'
  <2>0. max_slices \in Nat \ {0} /\ cboxes \in [0 .. max_slices - 1 -> Nat]
    BY XeonAssumption DEF TypeOK, Slices
  <2>1. slice' \in Slices /\ IsFirstMax(cboxes, max_slices, slice')
    BY <1>14, InterpretFirstMax
  <2>2. TypeOK'
    BY <1>14, <2>1 DEF Interpret, TypeOK, Steps, machine
  <2>3. LoopsInRange' /\ Prepared'
    BY <1>14 DEF Interpret, LoopsInRange, Loops, SetUp, Prepared,
       FreezeBits, Cleared, NothingCountedYet, Selected, AllPoked
  <2>4. WrongAnswerExplained'
    <3> SUFFICES ASSUME slice' # home
                 PROVE  \/ /\ variant = "fast" /\ slice' = 0
                           /\ noise[home] = 0 /\ PerFlush = 1
                        \/ /\ slice' \in CBoxes
                           /\ noise[slice'] >= noise[home] + PerFlush * nb_pokes
      BY <1>14 DEF Interpret, WrongAnswerExplained, home
    <3> DEFINE flushed == PerFlush * nb_pokes
    <3>1. /\ cboxes[home] \in Nat /\ cboxes[slice'] \in Nat
          /\ cboxes[home] <= cboxes[slice']
      <4>1. home \in Slices
        BY <1>h, XeonAssumption DEF Slices, CBoxes
      <4> QED BY <2>1, <4>1 DEF TypeOK, IsFirstMax, Slices
    <3>2. /\ noise[home] \in Nat /\ flushed \in Nat
          /\ flushed >= nb_pokes /\ flushed > 0
      BY <1>h, <1>n, XeonAssumption
    <3>3. flushed = nb_pokes => PerFlush = 1
      BY XeonAssumption
    <3>4. \A s \in Slices :
            cboxes[s] = IF s \in CBoxes THEN Counted(s) ELSE 0
      BY <1>14 DEF Interpret, CountsRead, FirstRead
    <3>5. home \in Slices /\ cboxes[home] = Counted(home)
      BY <1>h, <3>4, XeonAssumption DEF Slices, CBoxes
    <3>6. slice' \in CBoxes => /\ noise[slice'] \in Nat
                               /\ Total(slice') = noise[slice']
      BY <1>n DEF Total
    <3>7. Total(home) = noise[home] + flushed
      BY DEF Total
    <3> HIDE DEF flushed
    <3>8. CASE variant = "fast"
      <4>1. cboxes[home] = noise[home] + flushed - nb_pokes
        BY <1>p, <3>2, <3>5, <3>7, <3>8 DEF Counted, Corrected
      <4>2. CASE cboxes[slice'] > 0
        <5>1. /\ slice' \in CBoxes
              /\ cboxes[slice'] = Corrected(noise[slice'], nb_pokes)
          BY <2>1, <3>4, <3>6, <3>8, <4>2 DEF Counted
        <5>2. cboxes[slice'] = noise[slice'] - nb_pokes
          BY <1>p, <3>6, <4>2, <5>1 DEF Corrected
        <5>3. noise[slice'] >= noise[home] + flushed
          BY ONLY <1>p, <3>1, <3>2, <3>6, <4>1, <5>1, <5>2
        <5> QED BY <5>1, <5>3 DEF flushed
      <4>3. CASE cboxes[slice'] = 0
        <5>1. slice' = 0
          BY <2>0, <2>1, <4>3, CoreAssumed, Core!ZeroMaxIsSlice0
            DEF Slices, IsFirstMax, Core!IsFirstMax
        <5>2. noise[home] = 0 /\ flushed = nb_pokes
          BY <1>p, <3>1, <3>2, <4>1, <4>3
        <5> QED BY <3>3, <3>8, <5>1, <5>2
      <4> QED BY <3>1, <4>2, <4>3
    <3>9. CASE variant = "plain"
      <4>1. cboxes[home] = noise[home] + flushed
        BY <3>5, <3>7, <3>9 DEF Counted
      <4>2. slice' \in CBoxes /\ cboxes[slice'] = noise[slice']
        BY <2>1, <3>1, <3>2, <3>4, <3>6, <3>9, <4>1 DEF Counted
      <4>3. noise[slice'] >= noise[home] + flushed
        BY ONLY <3>1, <3>2, <4>1, <4>2
      <4> QED BY <4>2, <4>3 DEF flushed
    <3> QED BY <3>8, <3>9 DEF TypeOK, Variants
  <2> QED
    BY <1>14, <2>2, <2>3, <2>4, NotCounting, NotRead DEF Interpret
<1>15. ASSUME Exit
       PROVE  IInv'
  <2>1. TypeOK'
    BY <1>15 DEF Exit, TypeOK, Steps, locals, machine
  <2>2. LoopsInRange' /\ Prepared'
    BY <1>15 DEF Exit, LoopsInRange, Loops, SetUp, Prepared,
       FreezeBits, Cleared, NothingCountedYet, Selected, AllPoked
  <2> QED
    BY <1>15, <2>1, <2>2, NotCounting, NotRead, NotAnswered DEF Exit
<1>16. ASSUME Restart
       PROVE  IInv'
  <2>1. TypeOK'
    <3>1. /\ cboxes' \in [Slices -> Nat] /\ cboxes_tri' \in [Slices -> Nat]
          /\ pokes' \in 0 .. nb_pokes
      BY <1>16, <1>p DEF Restart, Zeros
    <3> QED BY <1>16, <3>1 DEF Restart, TypeOK, Steps, machine
  <2>2. LoopsInRange' /\ Prepared' /\ WrongAnswerExplained'
    BY <1>16 DEF Restart, LoopsInRange, Loops, SetUp, WrongAnswerExplained,
       Prepared, FreezeBits, Cleared, NothingCountedYet, Selected, AllPoked
  <2> QED
    BY <1>16, <2>1, <2>2, NotCounting, NotRead DEF Restart
<1>17. ASSUME NEW b \in CBoxes, ForeignLookup(b)
       PROVE  IInv'
  <2>0. UNCHANGED <<pc, i, variant, addr, pokes, cboxes, cboxes_tri, slice,
                    frozen, ctl, filter, home>>
    BY <1>17 DEF ForeignLookup, locals, home
  <2>1. \A c \in CBoxes : (Done(c)' <=> Done(c)) /\ (InWindow(c)' <=> InWindow(c))
    BY <2>0 DEF Done, InWindow
  <2>2. /\ ~ frozen[b]
        /\ \A c \in CBoxes : ctr'[c] = IF c = b THEN ctr[c] + 1 ELSE ctr[c]
        /\ \A c \in CBoxes : noise'[c] =
             IF c = b /\ InWindow(b) THEN noise[c] + 1 ELSE noise[c]
    BY <1>17 DEF ForeignLookup, TypeOK
  <2>3. TypeOK'
    <3>1. ctr[b] + 1 \in Nat /\ noise[b] + 1 \in Nat
      BY <1>n
    <3>2. ctr' \in [CBoxes -> Nat] /\ noise' \in [CBoxes -> Nat]
      BY <1>17, <3>1 DEF ForeignLookup, TypeOK
    <3> QED BY <2>0, <3>2 DEF TypeOK
  <2>4. LoopsInRange'
    BY <2>0 DEF LoopsInRange
  <2>5. i \in Nat
    BY DEF TypeOK
  <2>6. Prepared'
    <3>1. FreezeBits' /\ Selected' /\ AllPoked'
      BY <2>0, <2>1 DEF Prepared, FreezeBits, Selected, AllPoked
    <3>2. Cleared'
      BY <2>0, <2>1, <2>2 DEF Prepared, FreezeBits, Cleared
    <3>3. NothingCountedYet'
      <4>1. \A c \in CBoxes : InWindow(c) =>
              ~ (pc \in SetUp \/ (pc = "unfreeze" /\ ~ Done(c)))
        BY <2>5, WindowByDone DEF SetUp
      <4> QED BY <2>0, <2>1, <2>2, <4>1 DEF Prepared, NothingCountedYet
    <3> QED BY <3>1, <3>2, <3>3 DEF Prepared
  <2>7. CountsOnlyThisCall'
    <3>1. ~ InWindow(b) => pc \notin {"freeze", "read", "readagain"}
      BY <2>2, <2>5, WindowByDone DEF Prepared, FreezeBits
    <3>2. \A c \in CBoxes :
            InWindow(c) \/ pc \in {"freeze", "read", "readagain"} =>
              \/ ctr'[c] = ctr[c] /\ noise'[c] = noise[c]
              \/ ctr'[c] = ctr[c] + 1 /\ noise'[c] = noise[c] + 1
      BY <2>2, <3>1
    <3> HIDE DEF home
    <3> QED BY <1>n, <1>p, <2>0, <2>1, <3>2 DEF CountsOnlyThisCall
  <2>8. CountsRead' /\ WrongAnswerExplained'
    <3>1. pc \in {"read", "readagain", "interpret", "ready"} =>
            \A c \in CBoxes : noise'[c] = noise[c]
      BY <2>2 DEF InWindow
    <3>2. CountsRead'
      <4>1. \A c \in CBoxes : noise'[c] = noise[c] => Counted(c)' = Counted(c)
        BY <2>0 DEF Counted, Total
      <4>2. \A c \in CBoxes : /\ FirstRead(c)' <=> FirstRead(c)
                              /\ SecondRead(c)' <=> SecondRead(c)
        BY <2>0, <2>1 DEF FirstRead, SecondRead
      <4> QED BY <2>0, <3>1, <4>1, <4>2 DEF CountsRead
    <3>3. WrongAnswerExplained'
      <4> HIDE DEF home
      <4> QED BY <1>h, <2>0, <3>1 DEF WrongAnswerExplained
    <3> QED BY <3>2, <3>3
  <2> QED
    BY <2>3, <2>4, <2>6, <2>7, <2>8
<1>18. CASE UNCHANGED vars
  <2>1. UNCHANGED <<pc, i, variant, addr, pokes, cboxes, cboxes_tri, slice,
                    frozen, ctl, filter, ctr, noise>>
    BY <1>18 DEF vars, locals, machine
  <2>2. TypeOK' /\ LoopsInRange' /\ Prepared'
    BY <2>1 DEF TypeOK, LoopsInRange, Done, Prepared, FreezeBits, Cleared,
       NothingCountedYet, Selected, AllPoked
  <2>3. CountsOnlyThisCall' /\ CountsRead' /\ WrongAnswerExplained'
    BY <2>1 DEF CountsOnlyThisCall, InWindow, CountsRead, FirstRead,
       SecondRead, Done, Counted, Total, WrongAnswerExplained, home
  <2> QED
    BY <2>2, <2>3
<1> QED
  BY <1>1, <1>2, <1>3, <1>4, <1>5, <1>6, <1>7, <1>8, <1>9, <1>10, <1>11,
     <1>12, <1>13, <1>14, <1>15, <1>16, <1>17, <1>18 DEF Next, Measure

-----------------------------------------------------------------------------
(* The invariant holds in every state, whatever crashes and whoever else    *)
(* uses the cache in between.                                              *)
THEOREM Invariance == Spec => []IInv
<1>1. Init => IInv
  BY InitIInv
<1>2. IInv /\ [Next]_vars => IInv'
  BY NextIInv
<1> QED
  BY <1>1, <1>2, PTL DEF Spec

(* Type correctness of the three server measurements and of the registers  *)
(* of every box, for every machine.                                        *)
THEOREM TypeCorrect == Spec => []TypeOK
<1>1. IInv => TypeOK
  BY DEF IInv
<1> QED
  BY <1>1, Invariance, PTL

(* From its unfreezing to its reading a box shows the clflushes of this    *)
(* call and the foreign lookups of its own window, nothing else: neither   *)
(* what was in the registers before, nor the freeze command that the first *)
(* loop writes into the counter, nor lookups that fall between the freeze  *)
(* of one box and the reading of another.                                  *)
THEOREM CountsAreExact == Spec => []CountsOnlyThisCall
<1>1. IInv => CountsOnlyThisCall
  BY DEF IInv
<1> QED
  BY <1>1, Invariance, PTL

(* Both arrays hold the same counts, although the plain variants read each *)
(* register twice with other programs running in between.                  *)
THEOREM ReadsAgree == Spec => []TwoReadsAgree
<1>1. IInv => TwoReadsAgree
  <2> SUFFICES ASSUME IInv, pc = "interpret" PROVE cboxes_tri = cboxes
    BY DEF TwoReadsAgree
  <2>1. \A c \in Slices : cboxes_tri[c] = cboxes[c]
    BY DEF IInv, CountsRead, FirstRead, SecondRead
  <2>2. cboxes \in [Slices -> Nat] /\ cboxes_tri \in [Slices -> Nat]
    BY DEF IInv, TypeOK
  <2> QED
    BY <2>1, <2>2
<1> QED
  BY <1>1, Invariance, PTL

(* Only the two causes named in WrongAnswerExplained make the answer wrong.*)
THEOREM WrongOnlyByNoise == Spec => []WrongAnswerExplained
<1>1. IInv => WrongAnswerExplained
  BY DEF IInv
<1> QED
  BY <1>1, Invariance, PTL

-----------------------------------------------------------------------------
(* The answer that Interpret gives is the home slice if the measurement    *)
(* was reliable.                                                           *)
LEMMA AnswerReliable ==
  ASSUME IInv, IInv', Interpret, Reliable
  PROVE  slice' = SliceOf[addr]
<1> SUFFICES ASSUME slice' # home PROVE FALSE
  BY DEF home
<1>1. home' = home /\ noise' = noise /\ variant' = variant /\ pc' = "ready"
  BY DEF Interpret, home
<1>2. slice' # NoAnswer
  <2>1. slice' \in Slices
    BY InterpretFirstMax DEF IInv
  <2> QED BY <2>1 DEF Slices, NoAnswer
<1>3. \/ variant = "fast" /\ noise[home] = 0 /\ PerFlush = 1
      \/ /\ slice' \in CBoxes \ {home}
         /\ noise[slice'] >= noise[home] + PerFlush * nb_pokes
  BY <1>1, <1>2 DEF IInv, WrongAnswerExplained
<1>4. \A c \in CBoxes : noise[c] \in Nat
  BY DEF IInv, TypeOK
<1>5. home \in CBoxes /\ PerFlush * nb_pokes \in Nat /\ PerFlush \in Nat
  BY HomeIsCBox, XeonAssumption DEF IInv
<1>6. CASE variant = "fast" /\ noise[home] = 0 /\ PerFlush = 1
  BY <1>6 DEF Reliable
<1>7. CASE /\ slice' \in CBoxes \ {home}
           /\ noise[slice'] >= noise[home] + PerFlush * nb_pokes
  <2>1. noise[slice'] < noise[home] + PerFlush * nb_pokes
    BY <1>7 DEF Reliable
  <2> HIDE DEF home
  <2> QED BY <1>4, <1>5, <1>7, <2>1
<1> QED
  BY <1>3, <1>6, <1>7

(* The refinement: what a step does to the four variables of SliceProbe.   *)
LEMMA StepProbe ==
  ASSUME IInv, IInv', [Next]_vars
  PROVE  [Probe!Next]_(Probe!vars)
<1>1. Reliable \in BOOLEAN /\ Reliable' \in BOOLEAN
  BY DEF Reliable
<1>2. addr \in Addr /\ addr' \in Addr
  BY DEF IInv, TypeOK
<1>3. ASSUME NEW v \in Variants, NEW a \in Addr, Call(v, a)
      PROVE  Probe!Call
  BY <1>1, <1>2, <1>3 DEF Probe!Call, Call, Phase, machine
<1>4. CASE \/ MarkCounter \/ ResetBox \/ EnableBox \/ SelectEvent \/ SetFilter
           \/ UnfreezeBox \/ Poke \/ PokeReturns \/ FreezeBox
           \/ ReadOnce \/ ReadFirst \/ ReadSecond
  <2>1. Phase = "probing" /\ Phase' = "probing"
    BY <1>4 DEF MarkCounter, ResetBox, EnableBox, SelectEvent, SetFilter,
                UnfreezeBox, Poke, PokeReturns, FreezeBox, ReadOnce,
                ReadFirst, ReadSecond, NextBox, Phase
  <2>2. addr' = addr /\ slice' = slice
    BY <1>4 DEF MarkCounter, ResetBox, EnableBox, SelectEvent, SetFilter,
                UnfreezeBox, Poke, PokeReturns, FreezeBox, ReadOnce,
                ReadFirst, ReadSecond, locals
  <2>3. Probe!Disturb
    BY <1>1, <2>1, <2>2 DEF Probe!Disturb
  <2> QED BY <2>3 DEF Probe!Next
<1>5. ASSUME Interpret PROVE Probe!Answer
  <2>1. Phase = "probing" /\ Phase' = "ready"
    BY <1>5 DEF Interpret, Phase
  <2>2. Reliable' = Reliable /\ addr' = addr
    BY <1>5 DEF Interpret, Reliable, home
  <2>3. slice' \in Slices
    BY <1>5, InterpretFirstMax DEF IInv
  <2> QED BY <1>5, <2>1, <2>2, <2>3, AnswerReliable DEF Probe!Answer
<1>6. ASSUME Exit PROVE Probe!Exit
  BY <1>6 DEF Probe!Exit, Exit, Phase, Reliable, home, locals
<1>7. ASSUME Restart PROVE Probe!Restart
  BY <1>1, <1>2, <1>7 DEF Probe!Restart, Restart, Phase, NoAnswer
<1>8. ASSUME NEW b \in CBoxes, ForeignLookup(b)
      PROVE  [Probe!Next]_(Probe!vars)
  <2>1. Phase' = Phase /\ addr' = addr /\ slice' = slice /\ variant' = variant
    BY <1>8 DEF ForeignLookup, locals, Phase
  <2>2. CASE Phase = "probing"
    <3>1. Probe!Disturb
      BY <1>1, <2>1, <2>2 DEF Probe!Disturb
    <3> QED BY <3>1 DEF Probe!Next
  <2>3. CASE Phase # "probing"
    <3>1. ~ InWindow(b)
      BY <2>3 DEF InWindow, Phase
    <3>2. noise' = noise
      BY <1>8, <3>1 DEF ForeignLookup
    <3>3. Reliable' = Reliable
      BY <2>1, <3>2 DEF Reliable, home
    <3> QED BY <2>1, <3>3 DEF Probe!vars
  <2> QED BY <2>2, <2>3
<1>9. CASE UNCHANGED vars
  BY <1>9 DEF vars, locals, Probe!vars, Phase, Reliable, home
<1> QED
  BY <1>3, <1>4, <1>5, <1>6, <1>7, <1>8, <1>9 DEF Next, Measure, Probe!Next

(* monitor_single_address_fast, _print and monitor_single_address each     *)
(* implement SliceProbe: one question, one answer, right when reliable.    *)
THEOREM ImplementsSliceProbe == Spec => ProbeSpec
<1>1. Init => Probe!Init
  <2>1. Reliable \in BOOLEAN
    BY DEF Reliable
  <2> QED BY <2>1 DEF Init, Probe!Init, Phase, NoAnswer
<1>2. IInv /\ IInv' /\ [Next]_vars => [Probe!Next]_(Probe!vars)
  BY StepProbe
<1> QED
  BY <1>1, <1>2, Invariance, PTL DEF Spec, ProbeSpec, Probe!Spec
=============================================================================
