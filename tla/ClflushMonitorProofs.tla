------------------------ MODULE ClflushMonitorProofs ------------------------
(***************************************************************************)
(* Proofs about ClflushMonitor, for any set of machines, any number of     *)
(* clflushes per core and any noise: which cores a call visits, when its   *)
(* answer is wrong, and that it implements SliceProbe.                     *)
(***************************************************************************)
EXTENDS ClflushMonitor, FiniteSetTheorems, TLAPS

(* Where the loop over the threads stands. *)
LoopInRange ==
  /\ pc \in {"used", "time"} => thread < machine.threads
  /\ Answered => thread = machine.threads /\ answer = slice

FreshCall == pc = "maps" => visits = <<>> /\ lies = NoLies

(* The visits of the running call, or of the one just answered.            *)
Counting == pc \in {"pin", "used", "time"} \/ Answered
Visited == {CoreAt(n) : n \in DOMAIN visits}

(* On a suitable machine the program knows the core it is on, ...          *)
OnKnownCore ==
  Suitable =>
    /\ pc \in {"used", "time"} => current_core = machine.proc[thread].core
    /\ pc = "time" => ~ core_used[current_core]

(* ... has visited the cores of all threads up to here, each of them once, *)
(* and core_used says so.                                                  *)
CoresVisited ==
  Suitable /\ Counting =>
    /\ \A n \in DOMAIN visits : visits[n] \in 0 .. machine.threads - 1
    /\ \A p \in 0 .. thread - 1 : machine.proc[p].core \in Visited
    /\ \A n, k \in DOMAIN visits : CoreAt(n) = CoreAt(k) => n = k
    /\ \A c \in 0 .. machine.cores - 1 : core_used[c] <=> c \in Visited

(* Did core c look as if the address were next to it?                      *)
LooksLocal(c) ==
  IF c = home THEN NbTries - lies[c] > Threshold ELSE lies[c] > Threshold

(* "slice" is the last core that did, or 0. *)
SliceIsLastLocal ==
  Suitable /\ Counting =>
    \/ slice = 0 /\ \A n \in DOMAIN visits : ~ LooksLocal(CoreAt(n))
    \/ \E n \in DOMAIN visits :
         /\ slice = CoreAt(n) /\ LooksLocal(slice)
         /\ \A k \in DOMAIN visits : k > n => ~ LooksLocal(CoreAt(k))

IInv ==
  /\ TypeOK
  /\ LoopInRange
  /\ FreshCall
  /\ OnKnownCore
  /\ CoresVisited
  /\ SliceIsLastLocal
-----------------------------------------------------------------------------
(* What is assumed of the machine the program runs on. *)
LEMMA MachineFacts ==
  ASSUME machine \in Machines
  PROVE  /\ machine.threads \in Nat \ {0} /\ machine.cores \in Nat \ {0}
         /\ IsFiniteSet(Processors(machine))
         /\ 0 .. machine.threads - 1 \subseteq Processors(machine)
         /\ Processors(machine) \subseteq Nat
         /\ \A p \in Processors(machine) : machine.proc[p].core \in AnyCore
         /\ \A p \in Processors(machine) : machine.proc[p].core \in Nat
         /\ \A p, q \in Processors(machine) :
              machine.proc[p].apic = machine.proc[q].apic => p = q
         /\ \A a \in Addr : SliceOf[a] \in PackageCores(machine)
<1>1. Cardinality(Processors(machine)) \in Nat
  BY ClflushAssumption, FS_CardinalityType
<1>2. \A p \in Processors(machine) : machine.proc[p].core \in CoreIds(machine)
  BY DEF CoreIds
<1>3. CoreIds(machine) \subseteq AnyCore
  BY DEF AnyCore
<1> QED
  BY <1>1, <1>2, <1>3, ClflushAssumption

LEMMA AnyCoreFacts == 0 \in AnyCore /\ NoCore \in AnyCore /\ NoAnswer \notin AnyCore
<1>1. \A m \in Machines : NoAnswer \notin CoreIds(m)
  BY ClflushAssumption DEF NoAnswer
<1> QED
  BY <1>1 DEF AnyCore, NoCore, NoAnswer

LEMMA SameMachine ==
  ASSUME machine' = machine
  PROVE  (Suitable' <=> Suitable) /\ AnyCore' = AnyCore
BY DEF Suitable, IsOnline, Online, AnyCore

(* Whatever the machine, the search in the arrays finds a core or nothing. *)
LEMMA FoundIsCore ==
  ASSUME machine \in Machines, NEW p \in Processors(machine)
  PROVE  CoresOf(p) \subseteq AnyCore
<1> DEFINE match == {q \in Online : Rank(q) < machine.threads /\
                                    machine.proc[q].apic = machine.proc[p].apic}
           last == CHOOSE q \in match : \A k \in match : k <= q
<1>1. match \subseteq {p} /\ p \in Nat
  BY MachineFacts DEF Online
<1>2. match # {} => last = p
  <2>1. ASSUME match # {} PROVE \E q \in match : \A k \in match : k <= q
    BY <1>1, <2>1
  <2> HIDE DEF match
  <2> QED BY <1>1, <2>1
<1>3. CoresOf(p) \in {AnyCore, {0}, {NoCore}} \/
      (match # {} /\ CoresOf(p) = {machine.proc[last].core})
  BY DEF CoresOf
<1> QED
  BY <1>2, <1>3, MachineFacts, AnyCoreFacts

(* On a suitable machine the first threads are those of the package, ...   *)
LEMMA PackageFacts ==
  ASSUME machine \in Machines, Suitable
  PROVE  /\ \A p \in 0 .. machine.threads - 1 :
              /\ machine.proc[p].pkg = 0 /\ IsOnline(p)
              /\ machine.proc[p].core \in 0 .. machine.cores - 1
         /\ PackageCores(machine)
              = {machine.proc[p].core : p \in 0 .. machine.threads - 1}
         /\ PackageCores(machine) = 0 .. machine.cores - 1
<1>1. {p \in Processors(machine) : machine.proc[p].pkg = 0}
        = 0 .. machine.threads - 1
  BY DEF Suitable
<1>2. PackageCores(machine) = {machine.proc[p].core : p \in 0 .. machine.threads - 1}
  BY <1>1 DEF PackageCores
<1>3. PackageCores(machine) = 0 .. machine.cores - 1
  BY DEF Suitable
<1>4. \A p \in 0 .. machine.threads - 1 : machine.proc[p].pkg = 0 /\ IsOnline(p)
  BY <1>1 DEF Suitable
<1> QED
  BY <1>2, <1>3, <1>4

(* ... they fill the first entries of the arrays in order, and the search  *)
(* finds for each of them the core it belongs to.                          *)
LEMMA FoundIsRight ==
  ASSUME machine \in Machines, Suitable, NEW p \in 0 .. machine.threads - 1
  PROVE  CoresOf(p) = {machine.proc[p].core}
<1> DEFINE first == 0 .. machine.threads - 1
           match == {q \in Online : Rank(q) < machine.threads /\
                                    machine.proc[q].apic = machine.proc[p].apic}
<1>1. first \subseteq Online /\ Online \subseteq Processors(machine)
  BY MachineFacts, PackageFacts DEF Online
<1>2. IsFiniteSet(Online) /\ Cardinality(Online) \in Nat
  BY <1>1, MachineFacts, FS_Subset, FS_CardinalityType
<1>3. machine.threads <= Cardinality(Online)
  <2>1. Cardinality(first) = machine.threads
    <3>1. machine.threads \in Nat \ {0} /\ 0 \in Int /\ machine.threads - 1 \in Int
      BY MachineFacts
    <3> QED BY <3>1, FS_Interval
  <2>2. Cardinality(first) <= Cardinality(Online)
    <3> HIDE DEF first
    <3> QED BY <1>1, <1>2, FS_Subset
  <2> QED BY <2>1, <2>2
<1>4. ~ Overrun
  <2>1. Cardinality(Online) <= MapLength
    BY DEF Suitable
  <2> QED BY <1>2, <1>3, <2>1, MachineFacts, ClflushAssumption DEF Overrun
<1>5. Rank(p) = p
  <2>1. {q \in Online : q < p} = 0 .. p - 1
    BY <1>1, MachineFacts
  <2>2. Cardinality(0 .. p - 1) = p
    <3>1. p \in Nat /\ 0 \in Int /\ p - 1 \in Int
      BY MachineFacts
    <3> QED BY <3>1, FS_Interval
  <2> QED BY <2>1, <2>2 DEF Rank
<1>6. match = {p}
  BY <1>1, <1>5, MachineFacts
<1>7. (CHOOSE q \in match : \A k \in match : k <= q) = p
  <2>1. p \in Nat
    BY MachineFacts
  <2> QED BY <1>6, <2>1
<1>8. ~ (machine.proc[p].apic = 0 /\ Cardinality(Online) < machine.threads)
  BY <1>2, <1>3, MachineFacts
<1> QED
  BY <1>4, <1>6, <1>7, <1>8 DEF CoresOf

(* Histograms are built on processors of the package, so on its cores.     *)
LEMMA VisitedInPackage ==
  ASSUME machine \in Machines, Suitable, Counting, CoresVisited
  PROVE  /\ Visited \subseteq 0 .. machine.cores - 1
         /\ \A n \in DOMAIN visits : CoreAt(n) \in 0 .. machine.cores - 1
BY PackageFacts DEF CoresVisited, Visited, CoreAt

(* What another visit adds to the list. *)
LEMMA OneVisitMore ==
  ASSUME TypeOK, machine' = machine, visits' = Append(visits, thread),
         NEW new, new = Len(visits) + 1
  PROVE  /\ DOMAIN visits = 1 .. Len(visits) /\ Len(visits) \in Nat
         /\ DOMAIN visits' = 1 .. new
         /\ \A n \in DOMAIN visits : visits'[n] = visits[n] /\ CoreAt(n)' = CoreAt(n)
         /\ visits'[new] = thread
         /\ CoreAt(new)' = machine.proc[thread].core
         /\ Visited' = Visited \cup {machine.proc[thread].core}
<1>1. visits \in Seq(Processors(machine))
  BY DEF TypeOK
<1>2. /\ DOMAIN visits = 1 .. Len(visits) /\ Len(visits) \in Nat
      /\ DOMAIN visits' = 1 .. new
      /\ \A n \in DOMAIN visits : visits'[n] = visits[n]
      /\ visits'[new] = thread
  BY <1>1
<1>3. /\ \A n \in DOMAIN visits : CoreAt(n)' = CoreAt(n)
      /\ CoreAt(new)' = machine.proc[thread].core
  BY <1>2 DEF CoreAt
<1>4. Visited' = Visited \cup {machine.proc[thread].core}
  <2>1. DOMAIN visits' = DOMAIN visits \cup {new}
    BY <1>2
  <2>2. Visited' = {CoreAt(n)' : n \in DOMAIN visits'}
    BY DEF Visited
  <2> QED BY <1>3, <2>1, <2>2 DEF Visited
<1> QED
  BY <1>2, <1>3, <1>4

-----------------------------------------------------------------------------
(* The invariant holds when the program starts. *)
THEOREM InitIInv == Init => IInv
<1> SUFFICES ASSUME Init PROVE IInv
  OBVIOUS
<1> USE DEF Init
<1>1. TypeOK
  <2>1. machine.threads \in Nat \ {0}
    BY MachineFacts
  <2>2. NoLies \in [AnyCore -> Tries]
    BY ClflushAssumption DEF NoLies, Tries
  <2> QED BY <2>1, <2>2, AnyCoreFacts DEF TypeOK
<1>2. ~ Counting
  BY DEF Counting, Answered
<1> QED
  BY <1>1, <1>2 DEF IInv, LoopInRange, FreshCall, OnKnownCore, CoresVisited,
                    SliceIsLastLocal, Answered

(* A step that stays outside of the calls, or ends the process, needs only *)
(* to keep the types.                                                      *)
LEMMA NotCounting ==
  ASSUME TypeOK', pc' \in {"ready", "exited", "maps"},
         pc' = "ready" => answer' = NoAnswer,
         pc' = "maps" => visits' = <<>> /\ lies' = NoLies
  PROVE  IInv'
<1>1. ~ Answered' /\ ~ Counting'
  BY DEF Counting, Answered
<1>2. NoLies' = NoLies \/ pc' # "maps" \/ lies' # NoLies
  OBVIOUS
<1> QED
  BY <1>1 DEF IInv, LoopInRange, OnKnownCore, FreshCall, CoresVisited,
              SliceIsLastLocal, NoLies, AnyCore

(* A visit keeps the list of cores complete, and without repetitions.      *)
LEMMA VisitKeepsCores ==
  ASSUME IInv, NEW local \in Tries, TimeCore(local)
  PROVE  CoresVisited'
<1> USE DEF IInv
<1>0. /\ machine' = machine /\ addr' = addr /\ pc = "time" /\ pc' = "pin"
      /\ thread' = thread + 1 /\ visits' = Append(visits, thread)
      /\ core_used' = IF InArray THEN [core_used EXCEPT ![current_core] = TRUE]
                                 ELSE core_used
  BY DEF TimeCore, NextThread
<1> SUFFICES ASSUME Suitable
             PROVE  /\ \A n \in DOMAIN visits' : visits'[n] \in 0 .. machine.threads - 1
                    /\ \A p \in 0 .. thread : machine.proc[p].core \in Visited'
                    /\ \A n, k \in DOMAIN visits' : CoreAt(n)' = CoreAt(k)' => n = k
                    /\ \A c \in 0 .. machine.cores - 1 : core_used'[c] <=> c \in Visited'
  <2>1. thread \in Int
    BY MachineFacts DEF TypeOK
  <2> QED BY <1>0, <2>1, SameMachine DEF CoresVisited
<1>9. PICK new : new = Len(visits) + 1
  OBVIOUS
<1>1. machine \in Machines /\ Counting
  BY <1>0 DEF TypeOK, Counting
<1>2. /\ machine.threads \in Nat /\ thread \in 0 .. machine.threads - 1
      /\ current_core = machine.proc[thread].core
      /\ current_core \in 0 .. machine.cores - 1
      /\ core_used \in [0 .. machine.cores - 1 -> BOOLEAN]
      /\ ~ core_used[current_core]
  BY <1>0, <1>1, MachineFacts, PackageFacts DEF TypeOK, LoopInRange, OnKnownCore
<1>3. /\ \A n \in DOMAIN visits : visits[n] \in 0 .. machine.threads - 1
      /\ \A p \in 0 .. thread - 1 : machine.proc[p].core \in Visited
      /\ \A n, k \in DOMAIN visits : CoreAt(n) = CoreAt(k) => n = k
      /\ \A c \in 0 .. machine.cores - 1 : core_used[c] <=> c \in Visited
  BY <1>1 DEF CoresVisited
<1>4. current_core \notin Visited
  BY <1>2, <1>3
<1>5. \A c \in 0 .. machine.cores - 1 : core_used'[c] <=> c \in Visited'
  <2>1. core_used' = [core_used EXCEPT ![current_core] = TRUE]
    BY <1>0, <1>2 DEF InArray
  <2> QED BY <1>0, <1>2, <1>3, <2>1, <1>9, OneVisitMore
<1>6. \A n \in DOMAIN visits' : visits'[n] \in 0 .. machine.threads - 1
  BY <1>0, <1>2, <1>3, <1>9, OneVisitMore
<1>7. \A p \in 0 .. thread : machine.proc[p].core \in Visited'
  <2>1. \A p \in 0 .. thread : p = thread \/ p \in 0 .. thread - 1
    BY <1>2
  <2> QED BY <1>0, <1>3, <2>1, <1>9, OneVisitMore
<1>8. ASSUME NEW n \in DOMAIN visits', NEW k \in DOMAIN visits', CoreAt(n)' = CoreAt(k)'
      PROVE  n = k
  <2>1. \A x \in DOMAIN visits' : x \in DOMAIN visits \/ x = new
    BY <1>0, <1>9, OneVisitMore
  <2>2. \A x \in DOMAIN visits : CoreAt(x)' = CoreAt(x) /\ CoreAt(x) \in Visited
    BY <1>0, <1>9, OneVisitMore DEF Visited
  <2>3. CoreAt(new)' = current_core
    BY <1>0, <1>2, <1>9, OneVisitMore
  <2> QED BY <1>3, <1>4, <1>8, <2>1, <2>2, <2>3
<1> QED
  BY <1>5, <1>6, <1>7, <1>8

(* A visit changes what is known of its own core only, and "slice" follows *)
(* the last core that looked local.                                        *)
LEMMA VisitKeepsSlice ==
  ASSUME IInv, NEW local \in Tries, TimeCore(local)
  PROVE  SliceIsLastLocal'
<1> USE DEF IInv
<1>0. /\ machine' = machine /\ addr' = addr /\ pc = "time" /\ pc' = "pin"
      /\ visits' = Append(visits, thread)
      /\ slice' = IF local > Threshold THEN current_core ELSE slice
      /\ lies' = [lies EXCEPT ![current_core] =
                    IF OnHomeCore THEN NbTries - local ELSE local]
  BY DEF TimeCore, Decide
<1> SUFFICES ASSUME Suitable
             PROVE
    \/ slice' = 0 /\ \A n \in DOMAIN visits' : ~ LooksLocal(CoreAt(n))'
    \/ \E n \in DOMAIN visits' :
         /\ slice' = CoreAt(n)' /\ LooksLocal(slice)'
         /\ \A k \in DOMAIN visits' : k > n => ~ LooksLocal(CoreAt(k))'
  BY <1>0, SameMachine DEF SliceIsLastLocal
<1>12. PICK new : new = Len(visits) + 1
  OBVIOUS
<1>1. machine \in Machines /\ Counting
  BY <1>0 DEF TypeOK, Counting
<1>2. /\ thread \in 0 .. machine.threads - 1
      /\ current_core = machine.proc[thread].core
      /\ current_core \in 0 .. machine.cores - 1
      /\ ~ core_used[current_core]
      /\ current_core \in AnyCore
  <2>1. machine.threads \in Nat
    BY <1>1, MachineFacts
  <2>2. thread \in 0 .. machine.threads - 1
    BY <1>0, <2>1 DEF TypeOK, LoopInRange
  <2> QED BY <1>0, <1>1, <2>2, PackageFacts DEF TypeOK, OnKnownCore
<1>3. current_core \notin Visited
  BY <1>1, <1>2 DEF CoresVisited
<1>4. home' = home /\ (OnHomeCore <=> current_core = home)
  BY <1>0, <1>1, <1>2, PackageFacts DEF home, OnHomeCore
<1>5. \A c \in AnyCore \ {current_core} : LooksLocal(c)' <=> LooksLocal(c)
  BY <1>0, <1>4 DEF LooksLocal, TypeOK
<1>6. LooksLocal(current_core)' <=> local > Threshold
  <2>1. lies'[current_core] = IF current_core = home THEN NbTries - local ELSE local
    BY <1>0, <1>2, <1>4 DEF TypeOK
  <2>2. NbTries \in Nat /\ local \in Nat
    BY ClflushAssumption DEF Tries
  <2>3. LooksLocal(current_core)' <=>
          IF current_core = home THEN NbTries - lies'[current_core] > Threshold
                                 ELSE lies'[current_core] > Threshold
    BY <1>0, <1>4 DEF LooksLocal, TimeCore
  <2>4. NbTries - (NbTries - local) = local
    BY <2>2
  <2> QED BY <2>1, <2>3, <2>4
<1>7. /\ DOMAIN visits = 1 .. Len(visits) /\ Len(visits) \in Nat
      /\ DOMAIN visits' = 1 .. new
      /\ \A n \in DOMAIN visits : CoreAt(n)' = CoreAt(n)
      /\ CoreAt(new)' = current_core
  BY <1>0, <1>2, <1>12, OneVisitMore
<1>8. \A n \in DOMAIN visits :
        LooksLocal(CoreAt(n))' <=> LooksLocal(CoreAt(n))
  <2> SUFFICES ASSUME NEW n \in DOMAIN visits
               PROVE  LooksLocal(CoreAt(n))' <=> LooksLocal(CoreAt(n))
    OBVIOUS
  <2>1. CoreAt(n) \in AnyCore \ {current_core}
    <3>1. CoreAt(n) # current_core
      BY <1>3 DEF Visited
    <3>2. visits[n] \in Processors(machine)
      BY DEF TypeOK
    <3> QED BY <1>1, <3>1, <3>2, MachineFacts DEF CoreAt
  <2>2. CoreAt(n)' = CoreAt(n)
    BY <1>7
  <2> QED BY <1>4, <1>5, <2>1, <2>2 DEF LooksLocal
<1>9. LooksLocal(CoreAt(new))' <=> local > Threshold
  <2>1. LooksLocal(CoreAt(new))' <=> LooksLocal(current_core)'
    BY <1>0, <1>7 DEF LooksLocal, TimeCore
  <2> QED BY <1>6, <2>1
<1>10. CASE local > Threshold
  <2>1. slice' = CoreAt(new)' /\ new \in DOMAIN visits'
    BY <1>0, <1>7, <1>10, <1>12
  <2>2. LooksLocal(slice)'
    BY <1>9, <1>10, <2>1 DEF LooksLocal
  <2>3. \A k \in DOMAIN visits' : ~ (k > new)
    BY <1>7, <1>12
  <2> QED BY <2>1, <2>2, <2>3
<1>11. CASE ~ (local > Threshold)
  <2>1. slice' = slice
    BY <1>0, <1>11
  <2>2. \A k \in DOMAIN visits' : k \in DOMAIN visits \/ k = new
    BY <1>7, <1>12
  <2>3. CASE slice = 0 /\ \A n \in DOMAIN visits : ~ LooksLocal(CoreAt(n))
    BY <1>7, <1>8, <1>9, <1>11, <2>1, <2>2, <2>3
  <2>4. CASE \E n \in DOMAIN visits :
               /\ slice = CoreAt(n) /\ LooksLocal(slice)
               /\ \A k \in DOMAIN visits : k > n => ~ LooksLocal(CoreAt(k))
    <3>1. PICK n \in DOMAIN visits :
               /\ slice = CoreAt(n) /\ LooksLocal(slice)
               /\ \A k \in DOMAIN visits : k > n => ~ LooksLocal(CoreAt(k))
      BY <2>4
    <3>2. slice' = CoreAt(n)' /\ n \in DOMAIN visits'
      BY <1>7, <1>12, <2>1, <3>1
    <3>3. LooksLocal(slice)'
      BY <1>8, <3>1, <3>2 DEF LooksLocal
    <3>4. \A k \in DOMAIN visits' : k > n => ~ LooksLocal(CoreAt(k))'
      BY <1>7, <1>8, <1>9, <1>11, <2>2, <3>1
    <3> QED BY <3>2, <3>3, <3>4
  <2> QED BY <1>1, <2>3, <2>4 DEF SliceIsLastLocal
<1> QED
  BY <1>10, <1>11

-----------------------------------------------------------------------------
(* Every step keeps the invariant.                                         *)
THEOREM NextIInv ==
  ASSUME IInv, [Next]_vars
  PROVE  IInv'
<1> USE DEF IInv
<1>0. /\ machine \in Machines /\ machine.threads \in Nat \ {0}
      /\ machine.cores \in Nat \ {0}
      /\ thread \in 0 .. machine.threads
      /\ 0 .. machine.threads - 1 \subseteq Processors(machine)
  BY MachineFacts DEF TypeOK
<1>1. ASSUME NEW a \in Addr, Call(a)
      PROVE  IInv'
  <2>1. TypeOK'
    <3>1. NoLies \in [AnyCore -> Tries]
      BY ClflushAssumption DEF NoLies, Tries
    <3>2. <<>> \in Seq(Processors(machine))
      OBVIOUS
    <3> QED BY <1>1, <3>1, <3>2, SameMachine DEF Call, TypeOK
  <2>2. visits' = <<>> /\ lies' = NoLies /\ pc' = "maps"
    BY <1>1 DEF Call
  <2> QED BY <2>1, <2>2, NotCounting
<1>2. ASSUME ReadMaps
      PROVE  IInv'
  <2>0. /\ machine' = machine /\ addr' = addr /\ answer' = answer
        /\ visits' = <<>> /\ lies' = NoLies /\ pc = "maps" /\ pc' = "pin"
        /\ thread' = 0 /\ slice' = 0 /\ current_core' = NoCore
        /\ core_used' = [c \in 0 .. machine.cores - 1 |-> FALSE]
    BY <1>2 DEF ReadMaps, FreshCall
  <2>1. TypeOK'
    BY <1>0, <1>2, <2>0, SameMachine, AnyCoreFacts DEF ReadMaps, TypeOK
  <2>2. LoopInRange' /\ FreshCall' /\ OnKnownCore'
    BY <2>0 DEF LoopInRange, FreshCall, OnKnownCore, Answered
  <2>3. CoresVisited' /\ SliceIsLastLocal'
    <3>1. DOMAIN visits' = {} /\ Visited' = {}
      BY <2>0 DEF Visited
    <3>2. 0 .. thread' - 1 = {}
      BY <2>0
    <3> QED BY <2>0, <3>1, <3>2 DEF CoresVisited, SliceIsLastLocal
  <2> QED BY <2>1, <2>2, <2>3
<1>3. ASSUME Pin
      PROVE  IInv'
  <2>0. /\ UNCHANGED <<machine, addr, thread, core_used, slice, answer, lies,
                       visits>>
        /\ pc = "pin" /\ pc' = "used" /\ thread \in 0 .. machine.threads - 1
        /\ current_core' \in CoresOf(thread)
    BY <1>0, <1>3 DEF Pin
  <2>1. TypeOK'
    <3>1. current_core' \in AnyCore
      BY <1>0, <2>0, FoundIsCore
    <3> QED BY <2>0, <3>1, SameMachine DEF TypeOK
  <2>2. LoopInRange' /\ FreshCall'
    BY <1>0, <2>0 DEF LoopInRange, FreshCall, Answered
  <2>3. OnKnownCore'
    BY <1>0, <2>0, FoundIsRight, SameMachine DEF OnKnownCore
  <2>4. CoresVisited' /\ SliceIsLastLocal'
    BY <2>0, SameMachine DEF CoresVisited, SliceIsLastLocal, Counting, Visited,
                             CoreAt, LooksLocal, home
  <2> QED BY <2>1, <2>2, <2>3, <2>4
<1>4. ASSUME PinFails \/ Exit
      PROVE  IInv'
  <2>0. /\ UNCHANGED <<machine, addr, thread, current_core, core_used, slice,
                       answer, lies, visits>>
        /\ pc' = "exited"
    BY <1>4 DEF PinFails, Exit
  <2>1. TypeOK'
    BY <2>0, SameMachine DEF TypeOK
  <2> QED BY <2>0, <2>1, NotCounting
<1>5. ASSUME UnusedCore
      PROVE  IInv'
  <2>0. /\ UNCHANGED <<machine, addr, thread, current_core, core_used, slice,
                       answer, lies, visits>>
        /\ pc = "used" /\ pc' = "time"
        /\ InArray => ~ core_used[current_core]
    BY <1>5 DEF UnusedCore
  <2>1. TypeOK' /\ LoopInRange' /\ FreshCall'
    BY <2>0, SameMachine DEF TypeOK, LoopInRange, FreshCall, Answered
  <2>2. OnKnownCore'
    <3>1. ASSUME Suitable
          PROVE  current_core = machine.proc[thread].core /\ InArray
      <4>1. thread \in 0 .. machine.threads - 1
        BY <1>0, <2>0 DEF LoopInRange
      <4> QED BY <1>0, <2>0, <3>1, <4>1, PackageFacts
              DEF OnKnownCore, InArray, TypeOK
    <3> QED BY <2>0, <3>1, SameMachine DEF OnKnownCore
  <2>3. CoresVisited' /\ SliceIsLastLocal'
    BY <2>0, SameMachine DEF CoresVisited, SliceIsLastLocal, Counting, Visited,
                             CoreAt, LooksLocal, home
  <2> QED BY <2>1, <2>2, <2>3
<1>6. ASSUME UsedCore
      PROVE  IInv'
  <2>0. /\ UNCHANGED <<machine, addr, current_core, core_used, slice, answer,
                       lies, visits>>
        /\ pc = "used" /\ pc' = "pin" /\ thread' = thread + 1
        /\ thread \in 0 .. machine.threads - 1
        /\ InArray => core_used[current_core]
    BY <1>0, <1>6 DEF UsedCore, NextThread, LoopInRange
  <2>1. TypeOK' /\ LoopInRange' /\ FreshCall' /\ OnKnownCore'
    BY <1>0, <2>0, SameMachine DEF TypeOK, LoopInRange, FreshCall, OnKnownCore,
                                   Answered
  <2>2. CoresVisited'
    <3>1. ASSUME Suitable
          PROVE  machine.proc[thread].core \in Visited
      <4>1. Counting /\ current_core = machine.proc[thread].core
        BY <2>0, <3>1 DEF OnKnownCore, Counting
      <4>2. current_core \in 0 .. machine.cores - 1 /\ core_used[current_core]
        BY <1>0, <2>0, <3>1, <4>1, PackageFacts DEF InArray, TypeOK
      <4> QED BY <3>1, <4>1, <4>2 DEF CoresVisited
    <3>2. \A p \in 0 .. thread' - 1 : p = thread \/ p \in 0 .. thread - 1
      BY <2>0
    <3>3. Visited' = Visited /\ \A n \in DOMAIN visits : CoreAt(n)' = CoreAt(n)
      BY <2>0 DEF Visited, CoreAt
    <3> QED BY <2>0, <3>1, <3>2, <3>3, SameMachine DEF CoresVisited, Counting
  <2>3. SliceIsLastLocal'
    BY <2>0, SameMachine DEF SliceIsLastLocal, Counting, CoreAt, LooksLocal, home
  <2> QED BY <2>1, <2>2, <2>3
<1>7. ASSUME NEW local \in Tries, TimeCore(local)
      PROVE  IInv'
  <2>0. /\ UNCHANGED <<machine, addr, current_core, answer>>
        /\ pc = "time" /\ pc' = "pin" /\ thread' = thread + 1
        /\ thread \in 0 .. machine.threads - 1
        /\ visits' = Append(visits, thread)
    BY <1>0, <1>7 DEF TimeCore, NextThread, LoopInRange
  <2>1. TypeOK'
    <3>1. visits' \in Seq(Processors(machine))
      BY <1>0, <2>0 DEF TypeOK
    <3>2. core_used' \in [0 .. machine.cores - 1 -> BOOLEAN]
      BY <1>7 DEF TimeCore, TypeOK
    <3>3. slice' \in AnyCore
      BY <1>7 DEF TimeCore, Decide, TypeOK
    <3>4. lies' \in [AnyCore -> Tries]
      <4>1. NbTries - local \in Tries
        BY ClflushAssumption DEF Tries
      <4> QED BY <1>7, <4>1 DEF TimeCore, TypeOK
    <3>5. thread' \in 0 .. machine.threads
      BY <1>0, <2>0
    <3> QED BY <2>0, <3>1, <3>2, <3>3, <3>4, <3>5, SameMachine DEF TypeOK
  <2>2. LoopInRange' /\ FreshCall' /\ OnKnownCore'
    BY <2>0 DEF LoopInRange, FreshCall, OnKnownCore, Answered
  <2>3. CoresVisited' /\ SliceIsLastLocal'
    BY <1>7, VisitKeepsCores, VisitKeepsSlice
  <2> QED BY <2>1, <2>2, <2>3
<1>8. ASSUME Return
      PROVE  IInv'
  <2>0. /\ UNCHANGED <<machine, addr, thread, current_core, core_used, slice,
                       lies, visits>>
        /\ pc = "pin" /\ pc' = "ready" /\ thread = machine.threads
        /\ answer' = slice
    BY <1>8 DEF Return
  <2>1. TypeOK' /\ LoopInRange' /\ FreshCall' /\ OnKnownCore'
    BY <2>0, SameMachine DEF TypeOK, LoopInRange, FreshCall, OnKnownCore
  <2>2. CoresVisited' /\ SliceIsLastLocal'
    BY <2>0, SameMachine DEF CoresVisited, SliceIsLastLocal, Counting, Visited,
                             CoreAt, LooksLocal, home
  <2> QED BY <2>1, <2>2
<1>9. ASSUME Restart
      PROVE  IInv'
  <2>1. TypeOK'
    <3>1. NoLies \in [AnyCore -> Tries]
      BY ClflushAssumption DEF NoLies, Tries
    <3>2. <<>> \in Seq(Processors(machine))
      OBVIOUS
    <3> QED BY <1>0, <1>9, <3>1, <3>2, SameMachine, AnyCoreFacts
            DEF Restart, TypeOK
  <2> QED BY <1>9, <2>1, NotCounting DEF Restart
<1>10. CASE UNCHANGED vars
  <2>0. UNCHANGED <<machine, pc, addr, thread, current_core, core_used, slice,
                    answer, lies, visits>>
    BY <1>10 DEF vars
  <2>1. TypeOK' /\ LoopInRange' /\ FreshCall' /\ OnKnownCore'
    BY <2>0, SameMachine DEF TypeOK, LoopInRange, FreshCall, OnKnownCore,
                             Answered, NoLies
  <2>2. CoresVisited' /\ SliceIsLastLocal'
    BY <2>0, SameMachine DEF CoresVisited, SliceIsLastLocal, Counting, Answered,
                             Visited, CoreAt, LooksLocal, home
  <2> QED BY <2>1, <2>2
<1> QED
  BY <1>1, <1>2, <1>3, <1>4, <1>5, <1>6, <1>7, <1>8, <1>9, <1>10
     DEF Next, Measure

(* The invariant holds in every state, through exits and new starts.       *)
THEOREM Invariance == Spec => []IInv
<1>1. Init => IInv
  BY InitIInv
<1>2. IInv /\ [Next]_vars => IInv'
  BY NextIInv
<1> QED
  BY <1>1, <1>2, PTL DEF Spec

-----------------------------------------------------------------------------
(* Type correctness, on any machine: a core id outside of core_used is     *)
(* read, but never written, and what the arrays hold behind their ends is  *)
(* still taken for a core.                                                 *)
THEOREM TypeCorrect == Spec => []TypeOK
<1>1. IInv => TypeOK
  BY DEF IInv
<1> QED
  BY <1>1, Invariance, PTL

(* When a call has returned, the cores it has visited are the package.     *)
LEMMA EveryCoreVisited ==
  ASSUME IInv, Answered, Suitable
  PROVE  Visited = PackageCores(machine)
<1>1. machine \in Machines /\ Counting /\ thread = machine.threads
  BY DEF IInv, TypeOK, Counting, LoopInRange
<1>2. PackageCores(machine) \subseteq Visited
  BY <1>1, PackageFacts DEF IInv, CoresVisited
<1>3. Visited \subseteq PackageCores(machine)
  BY <1>1, VisitedInPackage, PackageFacts DEF IInv
<1> QED
  BY <1>2, <1>3

(* A call on a suitable machine builds a histogram on every core of the    *)
(* package and on none twice, for any numbering of the threads.            *)
THEOREM VisitsEveryCore == Spec => []EveryCoreOnce
<1>1. IInv => EveryCoreOnce
  <2> SUFFICES ASSUME IInv, Answered, Suitable
               PROVE  VisitedEveryCoreOnce
    BY DEF EveryCoreOnce
  <2>1. Visited = PackageCores(machine)
    BY EveryCoreVisited
  <2>2. Len(visits) = Cardinality(Visited)
    <3> DEFINE core == [n \in 1 .. Len(visits) |-> CoreAt(n)]
    <3>1. DOMAIN visits = 1 .. Len(visits) /\ Len(visits) \in Nat
      BY DEF IInv, TypeOK
    <3>2. \A n, k \in 1 .. Len(visits) : CoreAt(n) = CoreAt(k) => n = k
      BY <3>1 DEF IInv, CoresVisited, Counting
    <3>3. Visited = {CoreAt(n) : n \in 1 .. Len(visits)}
      BY <3>1 DEF Visited
    <3>4. core \in [1 .. Len(visits) -> Visited]
      BY <3>3
    <3>5. core \in Bijection(1 .. Len(visits), Visited)
      BY <3>2, <3>3, <3>4 DEF Bijection, Injection, Surjection, IsInjective
    <3>6. ExistsBijection(1 .. Len(visits), Visited)
      BY <3>5 DEF ExistsBijection
    <3> QED BY <3>1, <3>6, FS_CountingElements
  <2> QED BY <2>1, <2>2 DEF VisitedEveryCoreOnce, Visited
<1> QED
  BY <1>1, Invariance, PTL

(* By the invariant a wrong answer is the last core that looked local, or  *)
(* 0: if the home core looked local, that core came after it.              *)
LEMMA WrongExplained == IInv => WrongAnswerExplained
<1> SUFFICES ASSUME IInv, Answered, Suitable, answer # home
             PROVE  \/ answer \in After(home) /\ lies[answer] > Threshold
                    \/ /\ NbTries - lies[home] <= Threshold
                       /\ answer = 0 \/ lies[answer] > Threshold
  BY DEF WrongAnswerExplained
<1>1. Counting /\ answer = slice
  BY DEF IInv, LoopInRange, Counting
<1>2. PICK h \in DOMAIN visits : CoreAt(h) = home
  <2>1. home \in PackageCores(machine)
    BY MachineFacts DEF IInv, TypeOK, home
  <2> QED BY <2>1, EveryCoreVisited DEF Visited
<1>3. LooksLocal(home) <=> NbTries - lies[home] > Threshold
  BY DEF LooksLocal
<1>4. NbTries - lies[home] \in Int /\ Threshold \in Int
  <2>1. home \in AnyCore
    <3>1. visits[h] \in Processors(machine)
      BY <1>2 DEF IInv, TypeOK
    <3> QED BY <1>2, <3>1, MachineFacts DEF IInv, TypeOK, CoreAt
  <2>2. lies[home] \in Tries
    BY <2>1 DEF IInv, TypeOK
  <2> QED BY <2>2, ClflushAssumption DEF Tries
<1>5. CASE slice = 0 /\ \A n \in DOMAIN visits : ~ LooksLocal(CoreAt(n))
  <2>1. ~ LooksLocal(home)
    BY <1>2, <1>5
  <2> QED BY <1>1, <1>3, <1>4, <1>5, <2>1
<1>6. CASE \E n \in DOMAIN visits :
             /\ slice = CoreAt(n) /\ LooksLocal(slice)
             /\ \A k \in DOMAIN visits : k > n => ~ LooksLocal(CoreAt(k))
  <2>1. PICK n \in DOMAIN visits :
             /\ slice = CoreAt(n) /\ LooksLocal(slice)
             /\ \A k \in DOMAIN visits : k > n => ~ LooksLocal(CoreAt(k))
    BY <1>6
  <2>2. lies[answer] > Threshold
    BY <1>1, <2>1 DEF LooksLocal
  <2>3. DOMAIN visits = 1 .. Len(visits) /\ Len(visits) \in Nat
    BY DEF IInv, TypeOK
  <2>4. h # n
    BY <1>1, <1>2, <2>1
  <2>5. CASE h < n
    <3>1. h \in 1 .. n - 1
      BY <2>3, <2>5
    <3>2. answer \in After(home)
      BY <1>1, <1>2, <2>1, <3>1 DEF After
    <3> QED BY <2>2, <3>2
  <2>6. CASE h > n
    <3>1. ~ LooksLocal(home)
      BY <1>2, <2>1, <2>6
    <3> QED BY <1>3, <1>4, <2>2, <3>1
  <2> QED BY <2>3, <2>4, <2>5, <2>6
<1> QED
  BY <1>1, <1>5, <1>6 DEF IInv, SliceIsLastLocal

(* The same for the state a step leads to.                                 *)
LEMMA WrongExplainedAfter == IInv' => WrongAnswerExplained'
BY WrongExplained, PTL

(* On a suitable machine a wrong slice is the fault of noise, in one of    *)
(* two ways: on a core visited after the home core, or on the home core    *)
(* itself; no order of the threads makes an answer wrong by itself.        *)
THEOREM WrongOnlyByNoise == Spec => []WrongAnswerExplained
BY WrongExplained, Invariance, PTL

-----------------------------------------------------------------------------
(* The refinement: what a step does to the four variables of SliceProbe.   *)
LEMMA StepProbe ==
  ASSUME IInv, IInv', [Next]_vars
  PROVE  [Probe!Next]_(Probe!vars)
<1>1. Reliable \in BOOLEAN /\ Reliable' \in BOOLEAN
  BY DEF Reliable
<1>2. addr \in Addr /\ addr' \in Addr
  BY DEF IInv, TypeOK
<1>3. ASSUME NEW a \in Addr, Call(a) PROVE Probe!Call
  BY <1>1, <1>2, <1>3 DEF Probe!Call, Call, Phase
<1>4. ASSUME \/ ReadMaps \/ Pin \/ UnusedCore \/ UsedCore
             \/ \E local \in Tries : TimeCore(local)
      PROVE  Probe!Disturb
  <2>1. Phase = "probing" /\ Phase' = "probing"
    BY <1>4 DEF ReadMaps, Pin, UnusedCore, UsedCore, TimeCore, Phase
  <2>2. addr' = addr /\ answer' = answer
    BY <1>4 DEF ReadMaps, Pin, UnusedCore, UsedCore, TimeCore
  <2> QED BY <1>1, <2>1, <2>2 DEF Probe!Disturb
<1>5. ASSUME Return PROVE Probe!Answer
  <2>0. /\ UNCHANGED <<machine, addr, lies, visits>>
        /\ pc = "pin" /\ pc' = "ready" /\ answer' = slice
    BY <1>5 DEF Return
  <2>1. Phase = "probing" /\ Phase' = "ready"
    BY <2>0 DEF Phase
  <2>2. home' = home /\ After(home)' = After(home) /\ (Suitable' <=> Suitable)
    BY <2>0, SameMachine DEF home, After, CoreAt
  <2>3. Reliable' = Reliable
    <3>1. Reliable' <=> Reliable
      BY <2>0, <2>2 DEF Reliable, After, CoreAt, home
    <3> QED BY <1>1, <3>1
  <2>4. slice \in AnyCore
    BY DEF IInv, TypeOK
  <2>5. Reliable => answer' = home
    <3> SUFFICES ASSUME Reliable, answer' # home
                 PROVE  FALSE
      OBVIOUS
    <3>1. Answered' /\ Suitable'
      BY <2>0, <2>2, <2>4, AnyCoreFacts DEF Answered, Reliable
    <3>2. WrongAnswerExplained'
      BY WrongExplainedAfter
    <3>3. \/ answer' \in After(home) /\ lies[answer'] > Threshold
          \/ NbTries - lies[home] <= Threshold
      BY <2>0, <2>2, <3>1, <3>2 DEF WrongAnswerExplained, After, CoreAt, home
    <3>4. home \in AnyCore
      <4>1. machine \in Machines /\ home \in PackageCores(machine)
        BY MachineFacts DEF IInv, TypeOK, home
      <4>2. PackageCores(machine) \subseteq CoreIds(machine)
        BY DEF PackageCores, CoreIds
      <4> QED BY <4>1, <4>2 DEF AnyCore
    <3>5. lies[answer'] \in Nat /\ lies[home] \in Nat /\ NbTries \in Nat /\ Threshold \in Nat
      BY <2>0, <2>4, <3>4, ClflushAssumption DEF IInv, TypeOK, Tries
    <3> QED BY <3>3, <3>5 DEF Reliable
  <2> QED BY <2>0, <2>1, <2>3, <2>4, <2>5 DEF Probe!Answer, home
<1>6. ASSUME PinFails \/ Exit PROVE Probe!Exit
  <2>0. /\ UNCHANGED <<machine, addr, answer, lies, visits>>
        /\ pc # "exited" /\ pc' = "exited"
    BY <1>6 DEF PinFails, Exit
  <2>1. Reliable' = Reliable
    <3>1. Reliable' <=> Reliable
      BY <2>0, SameMachine DEF Reliable, After, CoreAt, home
    <3> QED BY <1>1, <3>1
  <2> QED BY <2>0, <2>1 DEF Probe!Exit, Phase
<1>7. ASSUME Restart PROVE Probe!Restart
  BY <1>1, <1>2, <1>7 DEF Probe!Restart, Restart, Phase
<1>8. CASE UNCHANGED vars
  <2>1. Reliable' = Reliable
    <3>1. Reliable' <=> Reliable
      BY <1>8, SameMachine DEF vars, Reliable, After, CoreAt, home
    <3> QED BY <1>1, <3>1
  <2> QED BY <1>8, <2>1 DEF vars, Probe!vars, Phase
<1> QED
  BY <1>3, <1>4, <1>5, <1>6, <1>7, <1>8 DEF Next, Measure, Probe!Next

(* monitor_single_address_clflush implements SliceProbe, the specification *)
(* that the two measurements by counters implement as well.                *)
THEOREM ImplementsSliceProbe == Spec => ProbeSpec
<1>1. Init => Probe!Init
  <2>1. Reliable \in BOOLEAN
    BY DEF Reliable
  <2> QED BY <2>1 DEF Init, Probe!Init, Phase
<1>2. IInv /\ IInv' /\ [Next]_vars => [Probe!Next]_(Probe!vars)
  BY StepProbe
<1> QED
  BY <1>1, <1>2, Invariance, PTL DEF Spec, ProbeSpec, Probe!Spec
=============================================================================
