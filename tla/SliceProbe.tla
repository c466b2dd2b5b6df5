----------------------------- MODULE SliceProbe -----------------------------
(***************************************************************************)
(* What a caller may expect of a monitor_single_address* function, whatever*)
(* the method (Core counters, Xeon counters, clflush timing): it is handed *)
(* an address and returns a slice number, and the number is the slice the  *)
(* hardware gave that address provided the measurement was reliable.       *)
(*                                                                         *)
(* "reliable" is a fact about the machine, not about the program: each     *)
(* method's module maps it to the exact noise condition under which that   *)
(* method can be believed.  It may change while a measurement runs; only   *)
(* its value when the answer is given counts.                              *)
(***************************************************************************)
CONSTANTS
  Addr,      \* addresses that can be measured
  Slices,    \* numbers that can be returned
  SliceOf,   \* the hardware's slice of each address
  NoAnswer   \* no measurement has completed yet in this process

VARIABLES
  phase,     \* "ready", "probing" or "down" (the process has exited)
  addr,      \* the address of the current or last call
  reliable,  \* may the current measurement be believed?
  answer     \* what the last completed call returned

vars == <<phase, addr, reliable, answer>>

Init ==
  /\ phase = "ready"
  /\ addr \in Addr
  /\ reliable \in BOOLEAN
  /\ answer = NoAnswer

Call ==
  /\ phase = "ready"
  /\ phase' = "probing"
  /\ addr' \in Addr
  /\ reliable' \in BOOLEAN
  /\ UNCHANGED answer

Disturb ==
  /\ phase = "probing"
  /\ reliable' \in BOOLEAN
  /\ UNCHANGED <<phase, addr, answer>>

Answer ==
  /\ phase = "probing"
  /\ phase' = "ready"
  /\ answer' \in Slices
  /\ reliable => answer' = SliceOf[addr]
  /\ UNCHANGED <<addr, reliable>>

(* The process exits: a signal, or an MSR access that failed. *)
Exit ==
  /\ phase # "down"
  /\ phase' = "down"
  /\ UNCHANGED <<addr, reliable, answer>>

(* The program is started again: its memory is fresh. *)
Restart ==
  /\ phase = "down"
  /\ phase' = "ready"
  /\ addr' \in Addr
  /\ reliable' \in BOOLEAN
  /\ answer' = NoAnswer

Next == Call \/ Disturb \/ Answer \/ Exit \/ Restart

Spec == Init /\ [][Next]_vars
=============================================================================
