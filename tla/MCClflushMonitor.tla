-------------------------- MODULE MCClflushMonitor --------------------------
(***************************************************************************)
(* Addresses next to the second and the third core, and seven machines; the*)
(* apic ids have gaps on all of them, and processor 0 has the id 0.        *)
(***************************************************************************)
EXTENDS ClflushMonitor

CONSTANTS a1, a2

MCAddr == {a1, a2}
MCSliceOf == [a \in MCAddr |-> IF a = a1 THEN 1 ELSE 2]

Proc(pkg, core, number) ==
  [pkg |-> pkg, core |-> core, apic |-> 2 * number, online |-> TRUE]

(* A machine with one package, given the core id of each processor. *)
Package(ids, cores) ==
  [threads |-> Len(ids), cores |-> cores,
   proc |-> [p \in 0 .. Len(ids) - 1 |-> Proc(0, ids[p + 1], p)]]

(* Three cores of two threads, siblings far apart, or next to each other.  *)
FarSiblings == Package(<<0, 1, 2, 0, 1, 2>>, 3)
NearSiblings == Package(<<2, 2, 0, 0, 1, 1>>, 3)

(* Four cores, one of them with a number beyond four. *)
Gaps == Package(<<0, 1, 2, 4>>, 4)

(* Two packages of three cores, numbered one after the other, or in turn:  *)
(* then the first three processors are not one package.                    *)
TwoPackages ==
  [threads |-> 3, cores |-> 3,
   proc |-> [p \in 0 .. 5 |-> Proc(p \div 3, p % 3, p)]]
InTurn ==
  [threads |-> 3, cores |-> 3,
   proc |-> [p \in 0 .. 5 |-> Proc(p % 2, p \div 2, p)]]

(* One processor is offline: the last entry of the arrays is zero. *)
OneOffline == [NearSiblings EXCEPT !.proc[3].online = FALSE]

(* More processors, in three packages, than the arrays have entries. *)
TooMany ==
  [threads |-> 3, cores |-> 3,
   proc |-> [p \in 0 .. 6 |-> Proc(p \div 3, p % 3, p)]]

MCMachines ==
  {FarSiblings, NearSiblings, Gaps, TwoPackages, InTurn, OneOffline, TooMany}
=============================================================================
