# slice-reverse: a verification project

`slice-reverse` finds out, with the performance counters of an Intel processor,
which slice of the last-level cache a physical address belongs to, and from many
such measurements recovers the hash function from addresses to slices. It is one
sequential C program per binary (`reverse`, `scan`), but it drives state it does
not own: the uncore counters belong to the machine, count everybody's lookups,
outlive the process and are programmed one register at a time; the page table and
the free huge pages belong to the kernel. That is where it can go wrong, and that
is what these modules are about.

## Inventory

| part | source | state | operations | hard behaviour |
|---|---|---|---|---|
| Core counter measurement | `monitoring.c` 125-205, `poke.c`, `*_on_cpu_0` of `rdmsr.c`, `wrmsr.c` | one global enable, one event select and one counter per C-Box; the array of counts | disable, reset, select, enable, poke, read, interpret | foreign lookups between any two steps, leftovers, crash in the middle, subtraction of `nb_pokes` |
| Xeon counter measurement | `monitoring.c` 207-483 | per box: freeze, control, filter, counter; two arrays of counts | mark, reset, enable, select, filter, unfreeze, poke, freeze, read (once or twice), interpret | the same, and two reads of one counter |
| search, client | `reverse.c` 537-767 | `w` (differences per output and address bit), `rev_map`, the pool of huge pages | sample low bits, count and map the pool, invert the page table, find a pair, sample, report | frames anywhere in memory, aliases under the mask, failing translations, wrong measurements |
| start-up | `reverse.c` 67-176, `scan.c` 59-129, `arch.c` | class, micro-architecture, limits, six tables of registers, options | classify, fill tables, check, dispatch | limits and tables that must agree on every processor |
| search, server | `reverse.c` 385-532 | as the client's, with 1 GB pages, without `rev_map` | pair search by translating pages two by two | goes on after "Not able to test bit"; a failed translation is compared like an address |
| clflush measurement | `monitoring.c` 44-123, `util.c` 313-458 | histogram, core maps, `core_used`, affinity | visit every core, time, decide | how the machine numbers threads and cores; no local core, several local cores |
| translation | `util.c` 235-289, `poke.c` 38-56 | a cached page, open files | read pagemap | stale cache, failures that leak the file |
| quicksort | `util.c` 94-128 | the array | partition, recurse | reads past the end |
| scan loops, `reverse_core` (dead), MSR access for all CPUs (unused), primitives, `setup.sh` | | | | |

Interactions: start-up fills the tables and fixes `nb_cores` and `max_slices` once;
a search or a scan calls a measurement for one address at a time; a measurement
calls `poke`, which calls the translation; all go to the kernel through
`/dev/cpu/0/msr`, `/proc/self/pagemap` and `mmap`. There are no threads, callbacks
or messages in the program: the concurrency is with the rest of the machine.

What makes each part correct:

* a measurement counts the lookups of its own window and nothing else; its answer
  is the address's slice unless noise of a known amount says otherwise;
* a search tests a bit with two addresses that differ in that bit only, says so
  when it has none, and reports a bit for exactly the outputs it belongs to (the client
  search does so under conditions only, see *Runs*);
* start-up hands over to a measurement exactly when all registers are known;
* the clflush measurement times every core of the package, and none twice;
* the address `poke` reports is that of the page it was asked about;
* the sort leaves the two largest counts at the end, and touches no other cell.

## Modules

`SliceProbe` is the abstract specification of a measurement: it is handed an
address, and answers with a slice number, the right one if the measurement was
*reliable*. `CounterReading` is the arithmetic that ends every counter measurement
(`Corrected`, `FirstMax`). `CoreMonitor` and `XeonMonitor` model the two families of
measurement functions and each implements `SliceProbe` (`ProbeSpec`, by
`INSTANCE SliceProbe WITH ...`), with its own exact meaning of *reliable*.
`ClflushMonitor`, which uses no counters, is the third implementation of
`SliceProbe`. `TwoInstances` composes two `CoreMonitor` processes over one set of
registers. `HashSampling` is what the two searches have in common (addresses as sets
of bits, the sampling loop, the report); `ReverseGeneric` is the client search and
`ReverseXeon` the server search. They take a measurement as an answer that may
be wrong, which is `SliceProbe` seen from the caller. `Pagemap` is the translation
both the searches and `poke` call, `Quicksort` the sort behind the printed error.
`Startup` is everything before; it leaves what the two measurement modules assume
(`nb_cores <= max_slices`, theorem `MeasurementsFit`).
`MC*` modules give the constants small values; `*Proofs` modules hold theorems.

### CoreMonitor, XeonMonitor

`pc` names the loop that is running, `i` is the C variable of that name; every
`wrmsr`, `clflush` and `rdmsr` is one step (`DisableCounters` ... `ReadCounter`).
The machine's registers are variables of their own and start with *any* contents.
`ForeignLookup(c)` adds a lookup of another program to a running counter between
any two steps. `Exit` is a failed MSR access (every failure in `rdmsr.c` and
`wrmsr.c` calls `exit`) or a signal; `Restart` begins with fresh memory and the old
registers. `noise` is a history variable: the foreign lookups counted for a box
from the moment it starts counting until it is read (Core) or frozen (Xeon).
`PerFlush` is how many lookups one `clflush` makes in its home box, which is a fact
about the hardware. `monitor_single_address_print` and `monitor_single_address`
differ in output only and share the variant "plain".

The Core counters are not stopped before they are read (the code that did so is
commented out), so the window of box `c` ends when `c` is read. A Xeon box first gets
the freeze command in its *counter* (`MarkCounter`); `ResetBox` undoes that.

Left out: the printed percentage beyond the second array it is computed from, the
printed physical address, and the width of the counts (they stay near `nb_pokes`).

### TwoInstances

Two `INSTANCE`s of `CoreMonitor`, each with process variables of its own; `global`,
`evtsel` and `ctr` are shared. There is no locking in `wrmsr.c` or `rdmsr.c`: a
descriptor of `/dev/cpu/0/msr` is opened and kept, so an access of one process falls
between any two of the other, and either may be killed anywhere (`ExitA`, `ExitB`).
`mixedA` remembers whether the other process did anything during the current or last
call of A. Noise is left at zero here: what third programs add is in `CoreMonitor`.
Nothing is promised for calls that overlap; the property is that overlapping *calls*
are the only trouble, not calls of a machine another process left half programmed.

### HashSampling, ReverseGeneric, ReverseXeon

An address is the set of its one bits, so the masks, shifts and exclusive ors of the
code are set operations and nothing overflows by accident: where the code's `int`
does overflow (the mask of line 678) it is written out, `Truncates`. A page table is
a function from page numbers to frames, any of a given set. `Translations(p)` is what
`read_pagemap` may answer: the address, 0, or -1. The search of lines 693-700 takes
the first valid pair, the model any. A failed translation is recorded in `rev_map` like
an address, so a pair may be false if one of its two pages was not translated: that is
the condition of `PairsDifferInOneBit`, page by page (`lost`). The mask has limits of its
own: two translated pages of a pair differ in the tested bit and in no other bit from 21
to `bit_max`, but above `bit_max` they may differ as well, unless no pages of the pool do
(`SameHighBits`). `UntestedOnlyWithoutPair` needs neither condition for the other pages,
`ReportExact` needs both. `MaxErr` bounds how many samples of a run are
measured wrongly, `errs` counts them per bit. The three calls by method (clflush,
Core, Xeon) are one: what is sampled is two answers.

`ReverseXeon` keeps the two nested loops of the pair search: `page1` and `page2` are
`offset1` and `offset2`, one comparison is one step (`ReadFirst`, `FoundPair`,
`TryNext`, `NotAble`), and every comparison translates anew. `lost` is a history
variable: the bits during whose search a translation failed.

### ClflushMonitor

The machine is a variable that keeps its initial value, any of a set: how many threads
and cores a package has, and for every processor its package, core id, apic id and
whether it is online. `CoresOf(p)` is what `apicid2coreid` finds for processor `p`
(nothing: -1). The maps list the processors that are online, in order, and end in
zeros, so apic id 0 is also found behind the last entry, with core 0; `Rank(p)` is
where `p` is listed. With more lines than entries, or when the search for a processor
runs past the ends (`Overrun`), what is found is anything. `core_used` has an entry per core
and is indexed by core id; an index outside of it reads either value (`InArray`). The
histogram is reduced to `local`, the number of clflushes below `T_HIT_REMOTE`. `lies`
counts those that timed as on the other kind of core.

### Pagemap

A page table the kernel changes at any time (`PageMoves`), the two static variables of
`poke`, and the files `read_pagemap` leaves open on failure. `trusted` is a history
variable: the page in the cache was translated successfully and has not moved since.
`RunCommand` is the `popen` of the core maps, which needs two descriptors for its pipe
and ends the process when fewer are left.

### Quicksort

One step per turn of an inner loop of `partition`; the recursion is a stack of ranges.
`Read(Length)`, the cell behind the array, is any of `Beyond`.

### Startup

One action per part of `main`, for both programs. The register tables are written as first
address, stride and length; every table of `arch.c` is such a progression. `global_ctr` is
`msr_unc_perf_global_ctr`, the one register that is in no table: the Core measurement writes
it to stop the counters and, last of its set-up, to start them. The values written to the
registers (`val_*`, `filters0`) are not here but in the measurement modules, as what writing
them does. `setup_perf_counters` has a parameter named `nb_cores`, which hides the global:
its assignment is lost, so `SetupCore` leaves `nb_cores` alone (see *Runs*). An option may
be given any number of times, in any order.

## Runs

| run | shows | bounds and why they are enough |
|---|---|---|
| `core_monitor` | `WindowCountsOnlyThisCall`, `WrongAnswerExplained`, `ClearedOnlyWhileStopped`, refinement of `SliceProbe` | 3 C-Boxes and 4 array cells (first, middle, last box; a cell without a box); 2 clflushes; up to 3 foreign lookups per box, more than `nb_pokes` subtracts; `PerFlush` 1, the delicate case |
| `xeon_monitor` | `CountsOnlyThisCall`, `TwoReadsAgree`, `WrongAnswerExplained`, refinement | 2 boxes, 3 cells, 2 clflushes, 2 foreign lookups: enough to hide the clflushes; any initial registers |
| `reverse_generic` | `PairsDifferInOneBit`, `UntestedOnlyWithoutPair`, `ReportExact`, `OnlyTestedReported`, `Terminates` | two line bits, pages of 8 bytes, a 6-bit `int` so that both meanings of the mask occur; 8 page tables: contiguous, scattered, without neighbours, aliased, beyond `rev_map`; 3 samples, threshold 1, two wrong samples: one is tolerated, two are not |
| `two_instances` | `UndisturbedCallsAreRight`, `CallsEnd` | 2 boxes, an address on each, one clflush that counts twice; any initial registers, both processes killed and restarted anywhere |
| `reverse_xeon` | `PairsDifferInOneBit`, `UntestedOnlyWithoutPair`, `UntestedNotReported`, `ReportExact`, `Terminates` | two line bits, two high bits, 3 pages: 5 page tables with pairs for both bits, for one, in descending order, for none, and with a page at a single bit; any translation may fail; samples as for `reverse_generic` |
| `clflush_monitor` | `EveryCoreOnce`, `WrongAnswerExplained`, `CallsEnd`, refinement | 7 machines: siblings far apart and adjacent, a gap in the core ids, two packages in sequence and in turn, a processor offline, more processors than the maps hold; 3 clflushes, threshold 1 |
| `pagemap` | `StarvedOnlyByFailures`, `PokeTellsTheTruth` | 2 pages, 2 frames, 2 offsets; 3 descriptors and 4 failures, so that they do run out, and so that one is left when two are needed |
| `quicksort` | `Sorts`, `StaysInRange`, `Terminates` | all arrays of 6 cells with 3 values, equal ones included; the cell behind smaller, equal or larger |
| `startup` | `MeasuredIffRegistersKnown`, `RegistersDistinct`, both for the tables and the global register of a client processor | all 17 models the code names and one it does not, core counts on both sides of every limit |

Bounds on what would be unbounded: `MaxNoise` (foreign lookups in a window),
`MaxCount` (a counter outside it), `MaxErr` (wrong samples), `MaxFailures` (failed
translations). `CHECK_DEADLOCK FALSE` is set for the searches, the sort, the
translation and start-up, which end; the measurements never deadlock.

Runs that are expected to find a violation state what a comment or the README says:

| run | what the code does instead |
|---|---|
| `reverse_index` | with more than 512 pages the mask of `reverse.c:678` is a negative `int`, keeps every high bit, and `rev_map` is written out of bounds when a page lies high enough |
| `reverse_no_message` | with few pages the mask of `reverse.c:678` drops the bits above `bit_max`; two pages that differ there as well pass for a pair, a wrong result is printed for the bit, and no message as `README.md:80` promises (two pages, at `{5}` and `{3,6}`, bit 3, no failure and no wrong measurement) |
| `startup_hash_bits` | with more than 16 cores `w[4]` is written, outside the array (also without `-f`, on 18- and 24-core servers) |

Other disagreements met on the way, in the modelled code but without a run of their own:

* the loop commented "Freeze box counters" (`monitoring.c:216`, `318`, `416`) writes
  the counters, and no box is frozen until the reset; harmless for the result, as
  `CountsOnlyThisCall` shows (`MarkCounter`);
* the 8-core Coffee Lake for which `arch.c:267-270` means to use seven boxes is turned
  away: the assignment of 7 goes to a parameter named like the global (`SetupCore`), and
  `main` compares 8 with 7;
* "Execute some code on every core" (`monitoring.c:57`): `core_used` has an entry per
  core and is indexed by core ids, which may have gaps. Beyond the array any memory is
  read, and a core for which it is not zero is left out (`InArray`, and the condition
  `Suitable` in the properties of `ClflushMonitor`: on machines with gaps, with packages
  numbered in turn or with more processors than the maps hold, only the types and
  `CallsEnd` are checked);
* `scan -f` needs as many counters as cores, although it uses none, against
  `README.md:25` (`RaiseLimit`); `scan --clflush`, `scan --verbose` and `reverse -c 2`
  print the help, against `README.md:24-26` and `78` (`Known`);
* the verbose output of `reverse.c:739` prints `w[k][i]` where `w[k][i + 15]` was
  counted; README step 4 speaks of `NB_PAGES_CORE`, which only the dead `reverse_core`
  uses; lines 710-711 add `j` bytes where the low search adds `j` lines, so 500 samples
  cover eight lines only.

## Fairness and liveness

The program is sequential, waits for nobody and is eventually scheduled, which is what
weak fairness of its own steps says: `WF_vars(Step)` in the searches (`Terminates`),
`WF_vars(Measure)` in `ClflushMonitor` and of each process in `TwoInstances`
(`CallsEnd`), `WF_vars(Next)` in `Quicksort` (`Terminates`). `Exit` (failures, signals),
new calls, restarts and the kernel are not fair. The failure of the second `mmap` is
part of `Step`: with no free huge pages it is what must happen. That a
search or a call ends is not trivial: the pair search leaves nested loops by flags, the
downward scan of `partition` has no bound, and the thread loop depends on the maps.

## Proofs

`CoreMonitorProofs`, from `CoreAssumption` alone (any number of boxes, addresses,
clflushes, lookups per clflush, any bounds on noise):

* `TypeCorrect`: `Spec => []TypeOK`;
* `WindowIsExact`: `Spec => []WindowCountsOnlyThisCall`;
* `WrongOnlyByNoise`: `Spec => []WrongAnswerExplained`;
* `ClearedWhileStopped`: `Spec => ClearedOnlyWhileStopped`;
* `ImplementsSliceProbe`: `Spec => ProbeSpec`;
* `FirstMaxCorrect`: the scan for the maximum has a result, and it is the lowest index
  of the maximum, for arrays of any length (the least index is obtained from the
  well-foundedness of `<` on the naturals). `XeonMonitorProofs` uses it through an
  `INSTANCE`.

None of the safety properties is inductive. That a counter is exact while it is in
its window depends on what happened before the window opened, so `IInv` adds, for
every place in the sequence, what the steps before have achieved: the loop index is
in range; from "reset" to "enable" counting is stopped and `noise` is zero; during
"reset" the boxes below `i` are cleared, during "select" all are, and those below `i`
have the event; during "poke" all are selected and running; from "read" on all
clflushes are done, and what has been read is the corrected count of its box
(`CountsRead`), which bounds it by the box's noise and, for the home box, includes the
clflushes. Nothing is said of the registers outside these places, because nothing is
known: that is what makes the proof cover crashes and leftovers. `NextIInv` has one
step per action. The refinement needs `WrongAnswerExplained'` in the step that
answers (`StepProbe`), and every other step is a stutter, a `Disturb` or one of the
abstract actions by its phase.

`TwoInstancesProofs`, from `TwoInstancesAssumption` (that of `CoreMonitor` for both, and
`PerFlush > 1`):

* `TypeCorrect`: `Spec => []TypeOK`;
* `AloneIsRight`: `Spec => []UndisturbedCallsAreRight`.

It instantiates `CoreMonitorProofs` once per process and reuses its theorems. The
invariant is that a process whose call was not disturbed is where it would be alone,
`~mixedA => PA!IInv`. It rests on two facts of `CoreMonitor`, lemmas there: a call
establishes `IInv` from the types alone (`CallStartsAfresh`), so what an earlier,
disturbed call left does not matter; and between calls `IInv` says nothing of the
registers (`IdleReliesOnNothing`), so the other process may write them. The types and
loop ranges are kept by every step without the rest of `IInv` (`NextTypes`), because
a disturbed call has nothing else.

`SupportProofs` holds the proofs about the three components around the measurements and
the searches. They share no state and no name (`Startup` and `Pagemap` put theirs before
`Init`, `Next`, `Spec` and `TypeOK`), so one module extends all three.

About `Quicksort`, from `SortAssumption` alone (an array of any length, any integers in it and
behind it):

* `SortTypeCorrect`: `Spec => []TypeOK`;
* `SortIsCorrect`: `Spec => []Sorts`;
* `PartitionStaysInRange`: `Spec => StaysInRange`.

`Sorts` speaks of the end only; what holds on the way is that the ranges still open, on
the stack and the one `partition` works on, follow each other without overlap
(`RangesApart`) and that two cells are in order unless one of these ranges has both
(`OrderedApart`). When no range is open, that is `Sorts`. That the split
range keeps this rests on what the two scans have passed (`Split`: at most the pivot below
`i`, larger above `j`) and on where they can be when they stop (`Meeting`): the upward scan
may stop one cell behind the range, whatever is read there, and the downward scan, which has
no bound, stops at a cell of the upward scan, the pivot's own in the end; so they cross by one
cell exactly, and the pivot's place is `j`. That the result is a permutation needs no
induction: two cells change places, and the cells with a value before and after are in
bijection (`ExchangeCounts`).

About `Startup`, from `StartupAssumption` alone (any set of models and core counts):

* `StartTypeCorrect`: `StartupSpec => []StartupTypeOK`;
* `RegistersKnownExactly`: `StartupSpec => []MeasuredIffRegistersKnown`;
* `NoRegisterTwice`: `StartupSpec => []RegistersDistinct`, no two boxes share a register
  and none has the address of the global register;
* `MeasurementsFit`: a measurement with the counters starts with `nb_cores` at least 1, at
  most `max_slices`, and `max_slices` at most the length of every table it drives. This
  discharges what `CoreAssumption` and `XeonAssumption` say of the two.

`StartInv` says what is in every table in every phase: nothing before
`setup_perf_counters`, then the addresses of the boxes known for this class and
microarchitecture and zero behind them (`TablesFilled`), that `max_slices` is their number
(`LimitKnown`), and what the comparison with it has found (`CoresChecked`). It also needs
that models and classes go together (`KindsAgree`; a client processor is never a
`SKYLAKE_SP`, so that `SetupCore` and `SetupNothing` exclude each other), and that a client
processor has the global register of its microarchitecture (`GlobalKnown`). Distinct
addresses are a matter of the strides and offsets of each layout (`AddressesDistinct`), and
of where the global register lies outside of them (`GlobalApart`).

About `Pagemap`, from `PagemapAssumption` alone (any pages, frames, offsets, number of
descriptors):

* `PagingTypeCorrect`: `PagemapSpec => []PagemapTypeOK`;
* `Starvation`: `PagemapSpec => []StarvedOnlyByFailures`: no exit before `MaxFiles - 1`
  translations have failed, and no loss of every descriptor before `MaxFiles` have;
* `PokeIsTruthful`: `PagemapSpec => PokeTellsTheTruth`.

`PagingInv` adds that lost descriptors are at most the failures, that the process stops only
with fewer than two descriptors left, and that a trusted cache agrees with the page table
*now* (`CacheAgrees`), which every `PageMoves` must keep.

`XeonMonitorProofs`, from `XeonAssumption` alone (any number of boxes up to
`max_slices`, addresses, clflushes, lookups per clflush, noise):

* `TypeCorrect`: `Spec => []TypeOK`;
* `CountsAreExact`: `Spec => []CountsOnlyThisCall`;
* `ReadsAgree`: `Spec => []TwoReadsAgree`;
* `WrongOnlyByNoise`: `Spec => []WrongAnswerExplained`;
* `ImplementsSliceProbe`: `Spec => ProbeSpec`.

The argument is that of `CoreMonitorProofs`, box by box instead of for all boxes at
once, because every box is frozen and cleared on its own: `IInv` says for the boxes
the running loop has passed (`Done`) that they are frozen, cleared, selected, or
unfrozen. That the freeze command has overwritten a counter in the first loop needs no
word: nothing is claimed before the reset. `CountsRead` fixes both arrays; between the
two reads of a box the first array is one box ahead, and since the box is frozen the
second read finds what the first did, hence `ReadsAgree`.

`HashSamplingProofs`, the lemmas both searches rest on, from `SamplingAssumption`. That
flipping one bit of an address flips exactly the outputs whose mask has the bit is a fact
about the hash and not about the code (lemma `FlipChangesItsOutputs`, from the parity of a
set with one element more or less); what the code makes of it is that a sample of such a
pair keeps `CountsFit` (the differences counted for a bit are those of the hash, up to the
wrong samples), a sample of one address with itself keeps `OnlyErrors`, and after
`ADDR_PER_BIT` samples the threshold separates the two (`ThresholdSeparates`).

`ReverseXeonProofs`, from `SamplingAssumption` and `XeonSearchAssumption`:

* `TypeCorrect`: `Spec => []TypeOK`;
* `OnlyPartnersArePaired`: `Spec => []PairsDifferInOneBit`;
* `SearchIsComplete`: `Spec => []UntestedOnlyWithoutPair`;
* `GivenUpNotReported`: `Spec => []UntestedNotReported`;
* `ResultIsExact`: `Spec => []ReportExact`.

`IInv` carries what the nested loops have compared without success
(`SearchedSoFar`; a pair is a pair in both orders, which is why looking at one is
enough), that `paddr1` is still what a translation of `page1` answers
(`FirstAddress`), and what `w` holds for every bit (`Sampled`: nothing before its
turn, errors only if it was given up, the hash otherwise). That a bit given up is not
printed rests on `GivenUp`: when the loops run out, both offsets are at the same page,
so sampling goes on with an address and itself.

`ReverseGenericProofs`, from `SamplingAssumption` and `ReverseAssumption`:

* `TypeCorrect`: `Spec => []TypeOK`;
* `OnlyPartnersArePaired`: `Spec => []PairsDifferInOneBit`;
* `SearchIsComplete`: `Spec => []UntestedOnlyWithoutPair`;
* `ResultIsExact`: `Spec => []ReportExact`;
* `NothingUntestedPrinted`: `Spec => []OnlyTestedReported`.

Here `IInv` must say that `rev_map` inverts the page table as far as it is filled
(`RevMapInverts`), page by page: an entry whose page was translated has that page's frame
number, whatever happened to other pages, and a translated page has left an entry unless
one was written beyond the end. Overwritten entries (aliases) are allowed: an entry
remains, and it is as good. From equal frame numbers `PpnAgrees` concludes that the frames
agree in every bit the mask keeps, which is all that holds in general; `PpnDetermines`
turns them into equal frames where the pages agree in what the mask drops
(`SameHighBits`), and is used for no more than that.

`ClflushMonitorProofs`, from `ClflushAssumption` alone (any set of machines, any number
of clflushes, any threshold):

* `TypeCorrect`: `Spec => []TypeOK`, on every machine, also those with more
  processors than the maps hold;
* `VisitsEveryCore`: `Spec => []EveryCoreOnce`;
* `WrongOnlyByNoise`: `Spec => []WrongAnswerExplained`;
* `ImplementsSliceProbe`: `Spec => ProbeSpec`.

On a machine that is `Suitable`, the search in the maps finds the core a processor is
on (`FoundIsRight`: among the processors online, its rank is its number, and no two have
an apic id in common), so `core_used` is the set of cores
visited (`CoresVisited`), each was timed once, and `slice` is the last that looked
local (`SliceIsLastLocal`). `EveryCoreOnce` compares a length with a cardinality; that
follows from a bijection (`FS_CountingElements`).

The inductive invariants were also checked with TLC on the small instances of the runs.

Every safety invariant, every action property and every refinement that a passing run
checks is stated by a theorem. Only model-checked: liveness (`Terminates` of both searches
and of the sort, `CallsEnd`), which the provers do not reach, and the properties of the
runs that expect a violation, which do not hold. Nothing that would be an induction over
data is claimed: the sort, the searches and the parities of the hash are modelled as
steps and set expressions, so their theorems are invariants and facts about sets.

## Not modelled

* A second program that writes the MSRs otherwise than this one does: nothing locks
  them and nothing can be promised. Two of this program are in `TwoInstances`.
* Counter overflow (a window is far too short: line 164 of `monitoring.c` keeps a
  48-bit count in an `int`, but counts stay near `nb_pokes`); the number of lookups a
  clflush makes, which core is next to a slice, and the linearity of the hash: facts
  about the hardware, and parameters here.
* `reverse_core` (`reverse.c` 200-383) and `rdmsr_on_cpu`, `rdmsr_on_all_cpus`,
  `wrmsr_on_cpu`, `wrmsr_on_all_cpus`: never called.
  `current_core`, `get_cache_slice` and other helpers of `util.c`: never called either.
* The loops of `scan.c` (150-181) and `scan_addresses`: one measurement after the other,
  without state of their own; `Call` of the measurement modules is any such sequence.
* Output, `setup.sh` and the Makefile.

## Plan

Done, in this order: `SliceProbe`, `CounterReading`, `CoreMonitor` with its proofs;
`XeonMonitor`; `ReverseGeneric`; `Startup`; `HashSampling` (split off) and
`ReverseXeon`; `ClflushMonitor`; `Quicksort`; `Pagemap` with its proofs;
`TwoInstances`; then the proofs of `XeonMonitor`, `HashSampling`, `ReverseXeon`,
`ReverseGeneric`, `ClflushMonitor` and `TwoInstances`. Every component that is called and
keeps state has its module.

The proofs of `Quicksort` and `Startup` came last, and those of `Pagemap` joined them in
`SupportProofs`.

Open: two processes on the registers of a server processor, as `TwoInstances` has them for a
client processor.
