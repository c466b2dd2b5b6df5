------------------------------ MODULE Startup ------------------------------
(***************************************************************************)
(* What the two programs do before the first measurement: main of          *)
(* reverse.c (lines 67-173) and of scan.c (lines 59-129), with             *)
(* determine_class_uarch and setup_perf_counters of arch.c.  They look at  *)
(* the processor, read the options, fill the tables of register addresses, *)
(* and either give up or hand over to a measurement (CoreMonitor,          *)
(* XeonMonitor or the clflush method).                                     *)
(*                                                                         *)
(* The two main functions differ in three places, marked "reverse" and     *)
(* "scan" below: the options they know, the limit the clflush method sets, *)
(* and what they start.                                                    *)
(***************************************************************************)
EXTENDS Integers

CONSTANTS
  Models,     \* values get_cpu_model() may return
  CoreCounts  \* values cores_per_package() may return

ASSUME StartupAssumption ==
  /\ Models \subseteq Nat
  /\ CoreCounts \subseteq Nat \ {0}

VARIABLES
  prog,       \* "reverse" or "scan"
  intel,      \* what is_intel() says
  cpu_model,  \* what get_cpu_model() says
  nb_cores,   \* the global, set from cores_per_package()
  phase,      \* how far main() is
  clflush, scan,  \* the options
  class, archi, max_slices,
  msr,        \* the register tables of arch.c, by name
  global_ctr, \* msr_unc_perf_global_ctr, the one register that is not in a table
  routine     \* the measurement main() handed over to

machine == <<prog, intel, cpu_model, nb_cores>>
options == <<clflush, scan>>
setup == <<class, archi, max_slices, msr, global_ctr>>
startupVars == <<machine, phase, options, setup, routine>>

Phases == {"start", "options", "classify", "setup", "limit", "check",
           "dispatch", "measure", "help", "rejected"}
Routines == {"none", "generic", "xeon", "scan core", "scan fast", "scan clflush"}
Classes == {"CPU_UNKNOWN", "INTEL_CORE", "INTEL_XEON"}
Archs == {"UARCH_UNKNOWN", "SANDY_BRIDGE", "IVY_BRIDGE", "HASWELL",
          "BROADWELL", "SKYLAKE", "KABY_LAKE", "SKYLAKE_SP"}

XeonTables == {"pmon_ctr0", "pmon_box_filter", "pmon_ctl0", "pmon_box_ctl"}
CoreTables == {"unc_cbo_perfevtsel0", "unc_cbo_per_ctr0"}
TableLength(table) == IF table \in XeonTables THEN 24 ELSE 8
NoRegister == -1

StartupTypeOK ==
  /\ prog \in {"reverse", "scan"}
  /\ intel \in BOOLEAN
  /\ cpu_model \in Models
  /\ nb_cores \in CoreCounts
  /\ phase \in Phases
  /\ clflush \in BOOLEAN /\ scan \in BOOLEAN
  /\ class \in Classes
  /\ archi \in Archs
  /\ max_slices \in 0 .. 64
  /\ DOMAIN msr = XeonTables \cup CoreTables
  /\ \A t \in DOMAIN msr : msr[t] \in [0 .. TableLength(t) - 1 -> Nat]
  /\ global_ctr \in {NoRegister} \cup Nat
  /\ routine \in Routines

StartupInit ==
  /\ prog \in {"reverse", "scan"}
  /\ intel \in BOOLEAN
  /\ cpu_model \in Models
  /\ nb_cores \in CoreCounts
  /\ phase = "start"
  /\ clflush = FALSE /\ scan = FALSE
  /\ class = "CPU_UNKNOWN"
  /\ archi = "UARCH_UNKNOWN"
  /\ max_slices = 0
  /\ msr = [t \in XeonTables \cup CoreTables |-> [c \in 0 .. TableLength(t) - 1 |-> 0]]
  /\ global_ctr = NoRegister
  /\ routine = "none"

-----------------------------------------------------------------------------
CheckVendor ==
  /\ phase = "start"
  /\ phase' = IF intel THEN "options" ELSE "rejected"
  /\ UNCHANGED <<machine, options, setup, routine>>

(* One option: its letter, spelled "-f" or "--clflush". *)
Letters == {"h", "f", "s", "v", "c"}
Spellings == {"short", "long"}

(* reverse calls getopt_long; scan calls getopt, and knows no -s. *)
Known(letter, spelling) ==
  IF prog = "reverse" THEN letter \in {"h", "f", "s", "v"}
                      ELSE letter \in {"h", "f", "v"} /\ spelling = "short"

(* -h, and every option that is not known, prints the help and exits.      *)
Option(letter, spelling) ==
  /\ phase = "options"
  /\ IF Known(letter, spelling) /\ letter # "h"
     THEN /\ clflush' = (clflush \/ letter = "f")
          /\ scan' = (scan \/ letter = "s")
          /\ UNCHANGED phase
     ELSE /\ phase' = "help"
          /\ UNCHANGED <<clflush, scan>>
  /\ UNCHANGED <<machine, setup, routine>>

EndOfOptions ==
  /\ phase = "options"
  /\ phase' = "classify"
  /\ UNCHANGED <<machine, options, setup, routine>>

ClassOf(m) ==
  CASE m \in {45, 62, 63, 86, 79, 85} -> "INTEL_XEON"
    [] m \in {42, 58, 60, 69, 70, 61, 71, 78, 94, 142, 158} -> "INTEL_CORE"
    [] OTHER -> "CPU_UNKNOWN"

ArchOf(m) ==
  CASE m \in {45, 42} -> "SANDY_BRIDGE"
    [] m \in {62, 58} -> "IVY_BRIDGE"
    [] m \in {63, 60, 69, 70} -> "HASWELL"
    [] m \in {86, 79, 61, 71} -> "BROADWELL"
    [] m \in {78, 94} -> "SKYLAKE"
    [] m = 85 -> "SKYLAKE_SP"
    [] m \in {142, 158} -> "KABY_LAKE"
    [] OTHER -> "UARCH_UNKNOWN"

(* Only an unknown model is an error here, and only without -f.            *)
DetermineClassUarch ==
  /\ phase = "classify"
  /\ class' = ClassOf(cpu_model)
  /\ archi' = ArchOf(cpu_model)
  /\ phase' = IF class' = "CPU_UNKNOWN" /\ ~clflush THEN "rejected" ELSE "setup"
  /\ UNCHANGED <<machine, options, max_slices, msr, global_ctr, routine>>

(* memcpy of n addresses, "stride" apart, to the front of a table.         *)
Copied(table, first, stride, n) ==
  [c \in DOMAIN table \cup 0 .. n - 1 |->
     IF c < n THEN first + stride * c ELSE table[c]]

(* Faulty variants, for checking the properties: the stride of the other   *)
(* micro-architectures; a limit above the length of the client tables.     *)
XeonBoxesOneStride ==
  CASE archi = "SANDY_BRIDGE" -> [n |-> 8, base |-> \hd00, stride |-> 16]
    [] archi = "IVY_BRIDGE" -> [n |-> 15, base |-> \hd00, stride |-> 16]
    [] archi = "HASWELL" -> [n |-> 18, base |-> \he00, stride |-> 16]
    [] archi = "BROADWELL" -> [n |-> 24, base |-> \he00, stride |-> 16]

CoreBoxesNine == IF archi \in {"SKYLAKE", "KABY_LAKE"} THEN 9 ELSE 4

(* The boxes of a server processor: how many, where the first one starts,  *)
(* how far apart they are.                                                 *)
XeonBoxes ==
  CASE archi = "SANDY_BRIDGE" -> [n |-> 8, base |-> \hd00, stride |-> 32]
    [] archi = "IVY_BRIDGE" -> [n |-> 15, base |-> \hd00, stride |-> 32]
    [] archi = "HASWELL" -> [n |-> 18, base |-> \he00, stride |-> 16]
    [] archi = "BROADWELL" -> [n |-> 24, base |-> \he00, stride |-> 16]

(* ... and where its four registers are: two layouts.                      *)
XeonOffset(table) ==
  IF archi \in {"SANDY_BRIDGE", "IVY_BRIDGE"}
  THEN CASE table = "pmon_ctr0" -> \h16
         [] table = "pmon_box_filter" -> \h14
         [] table = "pmon_ctl0" -> \h10
         [] table = "pmon_box_ctl" -> \h04
  ELSE CASE table = "pmon_ctr0" -> \h08
         [] table = "pmon_box_filter" -> \h05
         [] table = "pmon_ctl0" -> \h01
         [] table = "pmon_box_ctl" -> \h00

(* The boxes of a client processor, and the register that enables them.    *)
CoreBoxes == IF archi \in {"SKYLAKE", "KABY_LAKE"} THEN 7 ELSE 4
GlobalCtr == IF archi \in {"SKYLAKE", "KABY_LAKE"} THEN \he01 ELSE \h391

SetupXeon ==
  /\ class = "INTEL_XEON" /\ archi # "SKYLAKE_SP"
  /\ max_slices' = XeonBoxes.n
  /\ msr' = [t \in DOMAIN msr |->
       IF t \in XeonTables
       THEN Copied(msr[t], XeonBoxes.base + XeonOffset(t), XeonBoxes.stride, XeonBoxes.n)
       ELSE msr[t]]
  /\ UNCHANGED global_ctr

(* "nb_cores = 7" for an 8-core Skylake or later assigns the parameter, so *)
(* the global nb_cores stays 8.                                            *)
SetupCore ==
  /\ class = "INTEL_CORE"
  /\ max_slices' = CoreBoxes
  /\ msr' = [msr EXCEPT
       !["unc_cbo_perfevtsel0"] = Copied(@, \h700, 16, CoreBoxes),
       !["unc_cbo_per_ctr0"] = Copied(@, \h706, 16, CoreBoxes)]
  /\ global_ctr' = GlobalCtr

(* Skylake SP and an unknown class fall through every branch. *)
SetupNothing ==
  /\ class = "CPU_UNKNOWN" \/ archi = "SKYLAKE_SP"
  /\ UNCHANGED <<max_slices, msr, global_ctr>>

SetupPerfCounters ==
  /\ phase = "setup"
  /\ SetupXeon \/ SetupCore \/ SetupNothing
  /\ phase' = "limit"
  /\ UNCHANGED <<machine, options, class, archi, routine>>

(* reverse -f overrides the limit; scan -f does not.                       *)
RaiseLimit ==
  /\ phase = "limit"
  /\ max_slices' = IF prog = "reverse" /\ clflush THEN 64 ELSE max_slices
  /\ phase' = "check"
  /\ UNCHANGED <<machine, options, class, archi, msr, global_ctr, routine>>

(* A faulty variant: the cores are counted from zero. *)
CheckCoresStrict ==
  /\ phase = "check"
  /\ phase' = IF nb_cores >= max_slices THEN "rejected" ELSE "dispatch"
  /\ UNCHANGED <<machine, options, setup, routine>>

CheckCores ==
  /\ phase = "check"
  /\ phase' = IF nb_cores > max_slices THEN "rejected" ELSE "dispatch"
  /\ UNCHANGED <<machine, options, setup, routine>>

(* scan, and reverse -s: one of three measurements. *)
StartScan ==
  /\ phase = "dispatch"
  /\ prog = "scan" \/ scan
  /\ phase' = "measure"
  /\ routine' = IF clflush THEN "scan clflush"
                ELSE IF class = "INTEL_CORE" THEN "scan core" ELSE "scan fast"
  /\ UNCHANGED <<machine, options, setup>>

(* reverse: by class only; -f is looked at again by the search itself.     *)
StartReverse ==
  /\ phase = "dispatch"
  /\ prog = "reverse" /\ ~scan
  /\ IF class = "CPU_UNKNOWN"
     THEN phase' = "rejected" /\ UNCHANGED routine
     ELSE /\ phase' = "measure"
          /\ routine' = IF class = "INTEL_CORE" THEN "generic" ELSE "xeon"
  /\ UNCHANGED <<machine, options, setup>>

StartupNext ==
  \/ CheckVendor
  \/ \E letter \in Letters, spelling \in Spellings : Option(letter, spelling)
  \/ EndOfOptions
  \/ DetermineClassUarch
  \/ SetupPerfCounters
  \/ RaiseLimit
  \/ CheckCores
  \/ StartScan
  \/ StartReverse

StartupSpec == StartupInit /\ [][StartupNext]_startupVars

-----------------------------------------------------------------------------
(* The register tables the measurement of this class drives; that of a     *)
(* client processor also drives global_ctr, before and after all others.   *)
Driven == IF class = "INTEL_CORE" THEN CoreTables ELSE XeonTables
DrivesGlobal == class = "INTEL_CORE"
Boxes == 0 .. nb_cores - 1
RegistersKnown ==
  /\ \A t \in Driven : Boxes \subseteq DOMAIN msr[t] /\ \A c \in Boxes : msr[t][c] # 0
  /\ DrivesGlobal => global_ctr # NoRegister

(***************************************************************************)
(* Whatever the processor and the options: without -f a measurement is     *)
(* started exactly if the registers of every core's box are known, and on  *)
(* a client processor the one that enables them all.  (An unknown or       *)
(* unsupported processor would otherwise have its MSR 0 written; a known   *)
(* one must not be turned away.)  This is also what CoreMonitor and        *)
(* XeonMonitor assume of the start-up code: only the first max_slices      *)
(* registers of a table are known, so nb_cores <= max_slices.              *)
(***************************************************************************)
MeasuredIffRegistersKnown ==
  phase \in {"measure", "rejected"} /\ intel /\ ~clflush =>
    (phase = "measure" <=> RegistersKnown)

(***************************************************************************)
(* No two registers a measurement drives have the same address, whatever   *)
(* their tables and boxes, and none has that of the register by which a    *)
(* client processor enables all its counters: else programming one box     *)
(* would disturb another, or a control write would land in a counter.      *)
(***************************************************************************)
RegistersDistinct ==
  phase = "measure" /\ ~clflush =>
    \A t, u \in Driven, c, d \in Boxes :
      /\ msr[t][c] = msr[u][d] => t = u /\ c = d
      /\ DrivesGlobal => msr[t][c] # global_ctr

(***************************************************************************)
(* reverse.c line 141: with -f max_slices becomes 64, "A large number      *)
(* given there are no limits".  So a search by clflush that is started has *)
(* room for every output bit of the hash: w has four rows (lines 392 and   *)
(* 544) and nbits = ceil(log2(nb_cores)) of them are used.                 *)
(***************************************************************************)
HashRows == 4
ClflushHasNoLimits ==
  phase = "measure" /\ clflush /\ routine \in {"generic", "xeon"} =>
    nb_cores <= 2^HashRows
=============================================================================
