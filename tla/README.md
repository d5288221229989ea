# Verification of upmem-sdk-light

upmem-sdk-light moves data between a host and the memories of UPMEM DPUs (processors inside DIMMs) without the
transfer functions of the UPMEM SDK: it maps the DPUs' MRAM into the host and loads and stores it with vector
instructions. This directory holds TLA+ models of that code, the configurations that check them with TLC, and theorems
checked by TLAPS. Paths below are relative to the repository's root; `direct` is
`src/pim_interface/direct_interface.hpp`.

Contents: [inventory](#inventory) - [plan](#plan) - [modules](#modules) - [runs](#runs-and-what-they-show) -
[bounds](#bounds-and-why-they-are-enough) - [fairness](#fairness) - [proofs](#what-is-proved) -
[findings](#disagreements-found) - [limits](#what-is-only-model-checked-and-what-is-not-modelled)

## Inventory

### Components

| Component | Source | State | Operations |
|---|---|---|---|
| Address translation | `direct` 104-154 | none | `GetCorrectOffsetMRAM`: `FastPath`, and `OraclePath`, kept as the definition of the layout but unused |
| Byte interleaving | `direct` 815-848 | none | `byte_interleave_avx512` |
| Rank transfer, MRAM | `direct` 168-442 | access modes; local `cache_line`; the host's cache, write-combining buffers and the DIMM's multiplexer | `SendToRankMRAM`, `ReceiveFromRankMRAM`, `GatherAndStore`, `LoadAndScatter`, `Set/GetSendMode`, `Set/GetRecvMode` |
| Rank transfer, WRAM | `direct` 465-525 | local `mask`, `wram_array`; the selection of DPUs in the rank | `ReceiveFromRankWRAM` |
| Direct interface | `direct` 55-98, 444-463, 592-812 | `ranks`, `params`, `base_addrs`, `rankIDOfDPU`, `program`; `buffers_aligned` per call | `SendToPIM`, `ReceiveFromPIM`, `Launch`, `GetRankIDOfDPU`, `GetNUMAIDOfDPU`, `load_from_dpu_set` |
| Base class | `src/pim_interface/pim_interface.hpp` | `dpu_set`, counts, `each_dpu`, `free_dpu_set_when_delete` | `sync`, `SendToPIMByUPMEM`, `ReceiveFromPIMByUPMEM`, `BroadcastToPIM`, `PrintLog`, construction and destruction |
| UPMEM interface | `src/pim_interface/upmem_interface.hpp` | that of the base class | the SDK's transfers and launches |
| Namespace wrapper | `src/pim_interface/pim_interface_header.hpp` | one global pointer | init, delete, reload, transfers |
| Timing statistics | `direct` 537-590 | sums of clock readings | `PrintAndResetTimingStats` |
| Benchmark | `src/benchmark/host.cpp`, `dpu.c`, `common.h`, `timer.hpp` | one buffer per DPU, timers, `repeat` | throughput of MRAM transfers with a check of their contents, of broadcasts; row activations |
| Examples | `src/examples/host.cpp`, `dpu.c` | one buffer per DPU | round trips through WRAM and MRAM, verified by both sides |
| Scripts and build | `run.sh`, `CMakeLists.txt`, `src/benchmark/plot_results.py` | files | build, run, plot |
| SDK and parlaylib | submodules, empty here | jobs per rank, DPU memories; a pool of threads | called by everything above |

### Interactions

A program holds one `PIMInterface` and calls it from one thread. `SendToPIM` and `ReceiveFromPIM` of the direct
interface build a table with one entry per DPU position (null for a disabled DPU) and call `parlay::parallel_for` over the
ranks; each worker switches the multiplexer of its rank to the host and moves words between the caller's
buffers and the mapped region. A transfer shares the caller's buffers and the access modes with the
program, the region with the DPUs, and the cache with the whole processor. `Launch`, `sync` and all calls of the UPMEM
interface go to the SDK, which keeps a queue of jobs and threads of its own for each rank; direct transfers go past
that queue. Errors of the SDK end the program in `DPU_ASSERT`; conditions of the code itself are `assert`s, which the
default build removes (`CMakeLists.txt` 8-11, 21).

### What is hard

* The region is cacheable memory that another processor writes. A copy cached before, or fetched unasked
  while the DPUs own the banks, hides what they wrote. Flushes (`clflushopt`) are weakly ordered and
  stores (`_mm512_stream_si512`) are buffered, so the position of each `mfence` and of the switch matters.
* An address is translated bit field by bit field; eight DPUs share each line; a second group of DPUs is 64 bytes on.
* Missing DPUs leave holes: in the buffer table, in the lanes of a line, in the running index of the caller's buffers.
* Ranks are copied by threads in any order, one of which may end the program.
* Transfers and launches are ordered by nobody but the caller.
* The SDK keeps pointers between calls (`dpu_prepare_xfer`, `wram_array`).

`PROJECT.json` lists these as hazards, line by line, with the properties aimed at each.

### What makes each component correct

| Component | Properties |
|---|---|
| Address translation | the two paths agree everywhere; no two words of the eight banks share a line |
| Byte interleaving | stores transpose the line, loads undo it |
| Rank transfer, MRAM | no stale read; no store outlives a send; a send and a receive are complete on return; every mode copies; every call ends |
| Rank transfer, WRAM | no buffer gets another DPU's words, however the call ends; all are filled when it returns |
| Direct interface | the k-th buffer belongs to the k-th DPU; no transfer beside a job of the SDK; calls of both kinds take effect in order; every call ends |
| Base class, UPMEM interface | the same promise through the SDK's queues; nothing is owed when a call that waits returns |
| Namespace wrapper | tables, counts and set of an interface are of one allocated set; a set is freed once |
| Benchmark | its check holds of correct transfers, whatever earlier rounds left |
| Examples | the DPU's count of errors is right; two wrong transfers never make up for each other |

## Plan

Order: the layout and the transfer of one rank first, as everything else rests on them; then several ranks; then the SDK
paths and the life of an interface; then the programs that test them; proofs of what TLC has confirmed beside each.

| Step | Modules | Status |
|---|---|---|
| 1 | `MramAddress`, `ByteInterleave`, `MramWalk` | done |
| 2 | `HostMemory`, `RankMRAM`, abstract `RankCopy` | done |
| 3 | `PimInterface`, `DirectPIM`, abstract `PimArray` | done: MRAM and WRAM, the SDK's transfers beside the direct ones |
| 4 | `WramReceive` | done; the ranks in parallel are in `DirectPIM` |
| 5 | `Benchmark` | done for `TestMRAMThroughput` |
| 6 | `UpmemPIM` | done |
| 7 | `Lifetime` | done |
| 8 | `Example` | done |
| P1 | `MramAddressProofs`, `RankMRAMProofs` | done, `RankMRAM` implements `RankCopy` included |
| P2 | `PimInterfaceProofs`, `DirectPIMProofs` | done, that both interfaces implement `PimArray` included |
| P3 | `WramReceiveProofs`, `LifetimeProofs`, `BenchmarkProofs`, `ExampleProofs` | done |

No module declares a RECURSIVE operator (what a queue of jobs does, `Outcome`, is a recursive function).

## Modules

How they rest on each other: `RankMRAM` uses `MramAddress` and `HostMemory` and implements `RankCopy`. `UpmemPIM` and
`DirectPIM` extend `PimInterface`, as the two classes extend the base class, and both implement `PimArray`; a worker's copy in
`DirectPIM` is what `RankCopy` and `WramReceive` promise. `Benchmark` and `Example` are programs over such transfers, right ones in
`Benchmark`, possibly wrong ones in `Example`. `MramWalk` puts `MramAddress` and
`ByteInterleave` together. Each `X`Proofs module extends `X`, except that `MramAddressProofs` is about `MramWalk` too and
`PimInterfaceProofs` about `UpmemPIM`; `MC` modules give constants their values,
and `MCDirectPIM` also has the calls of the README's usage.

**MramAddress** is pure: `FastPath`, `HostLine` (with the 0x40 of the second group), `OraclePath`, and `Slot`, the entry
`j * 8 + dpu_id + dpu_id_group` of the buffer table with its three inverses. MRAM addresses count 8-byte words, region
offsets 64-byte lines: transfers are asserted to be 8-byte aligned, and the numbers then fit TLC's 32 bits.
**MramWalk** is the sequence of addresses of one transfer in the mode Sequential: eight banks one after the other, word by word,
from any of `Starts` (the assert on `MRAM_SIZE` is the guard of its start). It also has the expression of `FastPath` as the code
writes it, four masks, their shifts and an `or`, bit by bit (`FastPathBit`). **MCMramAddress** starts transfers around every address at
which a bit of the translation changes.

**ByteInterleave** is pure too: it follows a byte through the operands of `_mm512_permutexvar_epi32`, `_mm512_shuffle_epi8` and
`_mm512_permutexvar_epi32`, three levels for a store, three for a load. `MramWalk` puts it together with the address: the byte
of a lane's word must end up on the line and chip of its DPU (`BytesReachDpu`).

**HostMemory** is what the code runs on, not code of the repository: `mram` (a line holds a word of each of eight
DPUs), `cache`, `wc` (streaming stores in flight), `flushing` (`clflushopt` issued and not performed) and `mux`. Its steps
are the hardware's own: `Prefetch`, `Evict`, `Drain`, `PerformFlush`. A store drained while the DPUs own the banks is lost;
a line fetched then is `Garbage`.

**RankMRAM** is one worker. `pc` is its position, `todo` the cells <<dpu_id, i, group>> the loops have not visited.
Each of the six nests of loops, three per direction, is the set of values of its own counters (`SendNest`, `RecvNest`), visited in the lexicographic
order of these counters (`CountersOf`, `Visits`); `CellAt` is the cell that the body moves. The flush loops have their own (`Cells`). One action stands for one
`GatherAndStore` or `LoadAndScatter`, a whole line: its eight loads see the same banks, since none changes while a receive reads. The `clflushopt` of a loop are issued in one step, since they are performed in any
order anyway. `SendFence`, `PreFence` and `PostFence` are the `mfence`s: they wait for `wc`, or `flushing`, to be empty.
`cache_line` is kept, with `Garbage` for uninitialised lanes. The constant `Debug` says whether the asserts are
compiled in: with them a transfer beyond MRAM aborts, without them it is assumed not to be made. Launch and run are two actions,
of the caller and of the DPUs.

**RankCopy** is the promise of one transfer: pairs <<DPU, word>> copied in any order, complete on return,
nothing else touched, stopped only before anything is copied. `RankMRAM` implements it with `PimView`, `PhaseView` and
`TodoView`; a store counts from the moment it is made, `wc` included.

**PimInterface** is the base class with the SDK under it: one queue of jobs per rank, each served at its own pace (`StartJob`,
`FinishJob`), a job reading its DPUs' buffers when it runs, as `dpu_prepare_xfer` registers pointers. `Post` is the common
form of `SendToPIMByUPMEM`, `ReceiveFromPIMByUPMEM`, `BroadcastToPIM` and `Launch`; each of the four has its own translation of `async`
into a flag of the SDK (`SendFlag`, `ReceiveFlag`, `BroadcastFlag`, `LaunchFlag`), and `Returns` is what the SDK makes of a flag. `call.unsynced` records
what the program has asked for: an asynchronous call that no synchronous one, nor `sync`, has come after.
`each_dpu` is the numbering of `DPU_FOREACH`. `CallerWaits` is the discipline of the program: it leaves buffers of
queued transfers alone, makes no transfer that clashes with a queued one of another rank (`Clash`), and makes no direct transfer while `call.unsynced`. `Outcome` is what a queue of jobs does; `Settled` is, for each rank, the state when what is queued for
it is done: the ranks do not wait for each other. What the program puts in its buffers (`Fills`) is one value per DPU. A call may fail at any time (`DPU_ASSERT`).

**UpmemPIM** is `UPMEMInterface`: the base class alone (`UpmemInit`, `UpmemNext`, `UpmemSpec`). `UpmemImplements` maps it to
`PimArray`: the k-th DPU and buffer with their rank's queue done, and the DPUs of ranks with jobs as `owed`.

**DirectPIM** adds the direct transfers of MRAM and WRAM: the assert `DirectAvailable`, `buffers_aligned`, the tasks of the parallel
loop (`queued`, `switch`, `copy`, `done`, at most `NrThreads` active). `RankMRAM` in full is a switch and a copy, as
`RankCopy` allows; a receive from WRAM has no switch, as its code has none. `dpu_switch_mux_for_rank` may fail at any time
and does not succeed while DPUs of the rank run. A direct transfer never looks at the SDK's queues, as its code does not; only the
program's own discipline, if `CallerWaits`, keeps it from being made beside them. Without the asserts (`Debug` false) it is made although asynchronous.
`UsageNext` of `MCDirectPIM` is the program of the README's usage, with no call besides.

**PimArray** is the promise to the program: calls take effect in the order they are made, as if at once (`Call`); what the SDK still
owes of them (`owed`) settles later and is over when a call that waits returns; a direct transfer finds nothing owed, copies in any
order, and may be stopped half way by a failure.

**WramReceive** is `ReceiveFromRankWRAM`: `Scan` is an iteration of the inner loop over control interfaces, `Select` and `Read`
the two SDK calls, `Fails` the jump to `end` and `exit(0)`. A word is named by where it is, so
that buffers show whose words they hold.

**Benchmark** is `TestMRAMThroughput` with `mram_test`. `get_value` hashes its arguments and is taken to be injective; a
value records how often the DPU program added to it. The limits of the timers are a choice.

**Lifetime** is the life of one interface after another: allocated by the program or by a constructor, made through the namespace
or as a variable, loaded from another set, told not to free its set, deleted. The members kept are those that
must agree: `dpu_set`, the set whose tables it has, the two counts, the flag. `load_from_dpu_set` of the direct interface reads the
new set's tables with the old counts, as the code does; `Outcomes` lists what that runs into. `mine` is what a careful program
believes it has to free.

**Example** is `src/examples`: the program that fills, sends, launches, receives and compares, and `verify_and_modify` chunk by chunk
on every DPU at its own pace. Its direct transfers are what the examples test, so they may be wrong: `Delivered` exchanges whole DPUs and
leaves any words as they were; it moves no word to another place in its DPU. What goes through the SDK is trusted, and the
transfer of `ERROR_COUNT`, of which the host only prints what comes, is part of the step that receives the words. `expected_value` is taken to be injective and the sum to tell
what was added, so a value is where it comes from with its tags; real sums of 64 bits may collide.

## Runs and what they show

| Run | Module, cfg | States | Shows |
|---|---|---|---|
| mram_address | MCMramAddress | 720 | masks, quotients and `OraclePath` agree around every change of the translation, for each bank; a byte reaches its DPU; no shared line |
| rank_window | MCRankMRAM | 193,896 | all orders of calls, launches, failures, drains, flushes and one unasked line across an 8 KB boundary: the invariants, completeness, and `RankCopy` |
| rank_modes | MCRankModes | 81,432 | the six nests of loops, in every pair of modes, over eight cells, across 16 KB: every call ends and copies |
| direct_calls | MCDirectPIM | 276,852 | three ranks, two threads, holes at the start, middle and end, MRAM and WRAM, jobs of the SDK in between: `PimArray`, placement, no transfer beside a job, every call ends |
| direct_async_release | MCDirectPIM, MCDirectPIMRelease.cfg | - | violated as expected, see below |
| upmem_queue | MCUpmemPIM | 187,340 | up to three jobs in each queue of two ranks: `PimArray`, nothing owed |
| lifetime | MCLifetime | 176 | every history of three sets, with an interface of the UPMEM kind reloaded: one set, freed once |
| lifetime_reload | MCLifetime, MCLifetimeReload.cfg | - | violated as expected, see below |
| wram_receive | MCWramReceive | 16,386 | every subset of six DPUs, failures anywhere, requests at and beyond the end of WRAM |
| example | MCExample | 68,866 | two tests on two DPUs with every wrong delivery: counts and comparison are right |
| benchmark_to_4mb | MCBenchmark | 3,645 | the check of every round up to 4 MB |
| benchmark_to_8mb | MCBenchmark, MCBenchmarkLimit.cfg | - | violated as expected, see below |

`CHECK_DEADLOCK FALSE` is said where a walk simply ends (mram_address). Elsewhere the ends of the program are
explicit (`Ended`, `Done`) and deadlock is checked.

The slips in the modules (each marked "a slip") are wrong forms of the definition that follows them; no specification uses them. They
serve to see that each property fails when the code is wrong in that way.

## Bounds and why they are enough

* mram_address: transfers of three words that begin up to three words before each change, so that the words on both sides of it are
  touched; the proofs cover the rest of the 64 MB and every length.
* rank_window: one `dpu_id`, so the two groups; two lanes with two of four slots empty, one on each line, so that each of the two cases "lane
  missing" and "lane present" occurs; two words on both sides of 8 KB, so that a window is not consecutive lines; calls of 0, 1
  and 2 words and one beyond the end of MRAM. `Speculative` has one line: hardware steps on different lines commute.
* rank_modes: two `dpu_id`, two groups and two words are the least with which the three orders differ. No unasked fetches: these
  are covered by rank_window.
* direct_calls: three ranks on two threads are the least with which a rank waits for a thread. `MaxQueue` is 1: what longer queues do is
  upmem_queue's question, and no direct transfer of a program that syncs starts with a queue that is not empty.
* upmem_queue: `MaxQueue` 3 lets a rank be three jobs ahead of the other, a send, a run and a receive; two ranks, three DPUs.
* lifetime: two sets of as many ranks and different DPUs, and one with fewer ranks: each way in which stale counts can be wrong. One interface at
  a time is the model's restriction; the wrapper has one pointer.
* wram_receive: two interfaces and three members tell an index from its transpose; two words of request, four of WRAM.
* example: two DPUs can be exchanged; sizes 1 and 3 with chunks of 2 give a test below a chunk and one that ends in part of a chunk.
* benchmark: sizes are the code's own; the words followed are those around each limit; `MaxRepeat` is 2, the least at which a
  round has one before and one after it.

The theorems need none of these bounds, except that `MaxQueue` is part of the model they are about.

## Fairness

`RankMRAM`: weak fairness of the worker (a running thread goes on), of the DPUs' run (a DPU program ends: the
benchmark's and the examples' do) and of drains and flushes together (a store buffer empties, a flush is performed; `mfence` relies on that).
`PimInterface`: weak fairness of the SDK's threads, which start and end a job, and of the return of a call whose jobs are done.
`DirectPIM` adds each rank's task and the end of the parallel loop. Neither the calling program, nor failures, nor unasked
fetches are fair.

## What is proved

Each theorem is about every value of the constants within the module's named assumptions; what else one assumes is said with it.

`MramAddressProofs`: for every word of 64 MB, `HostLine` is the line `OraclePath` gives (`HostLineIsDpuLine`), no
two words of the eight banks share a line (`HostLineInjective`), every line is within the region
(`HostLineInRegion`), and lane, `dpu_id` and group name each slot once (`SlotBijection`). The argument writes a word in mixed radix (`WordDigits`):
both paths are then sums of the same digits. `InterleaveTransposes`: each operand of the three vector instructions moves binary digits of
a position (`Operands`), and together they exchange its upper and lower three. The bits of a word and of its line are
those of the same digits (`WordBits`, `LineBits`), found above and below the places where the fields begin (`BitsAbove`, `BitsBelow`), and
each mask keeps one field (`MaskBits`). With these, for any set of places and any length of transfer within MRAM,
`QuotientsAreMasks` (`FastPathIsMasks`), `EveryByteReachesDpu` (`BytesReachDpu`) and `WordsHaveOwnLines` (`LinesApart`) hold at every word the loops come
to; the invariant (`InBounds`) is that the loops stay within MRAM, which needs the code's assert, and among the eight banks.

`RankMRAMProofs`: for every set of words, lanes and enabled DPUs, every length, mode, program and order of hardware steps, with
`Speculative` any set of lines:

| Theorem | States |
|---|---|
| `Invariance` | `TypeOK /\ Inv` always holds |
| `TypeCorrect` | `TypeOK` |
| `StoresAreDrained` | `NoStoreInFlight` |
| `ReadsAreFresh` | `FreshWhileReading` |
| `SendIsComplete`, `ReceiveIsComplete` | `SendCompletes`, `ReceiveCompletes` |
| `WorkerCopies` | `Spec => Copy!Spec`: every step is a step of `RankCopy` or a stutter |

`FreshWhileReading` is not inductive: whether the reads are fresh is decided before the fence, where a stale copy is harmless as long
as its flush is pending (`StaleAreFlushing`); and that no copy turns stale while reading needs that the banks do not change, so
that no store is in flight (`NoStoreInFlight`), and that the host owns them (`Positions`). Completeness needs what has been moved so far (`MovedSoFar`):
its hard step is that a store touches no word moved before it, which is `HostLineInjective` through `CellLine` and `LineOfCell`. The
conjunction `Inv` is also checked by rank_window.

`NestsVisitAll` is about the six nests: for any number of words, the cells that a nest comes to are all those of the transfer, and no two values of its counters
come to the same one. The proofs of the steps rest on it where a call begins.

`PimInterfaceProofs`: `Numbering`, the numbering of the DPUs that are not missing is one to one with the indices of the caller's buffers.
Counting the DPUs before a position grows with the position (`BeforeGrows`), so it is injective; an injection between finite sets of
one size is onto.

The same module is about the SDK's queues, of any length. What a queue does is a recursive function of its jobs, and the two laws by which the
code's steps change it, one job more at the end (`OutcomeOfOneMore`, for `Post`) and one less at the front (`OutcomeOfFirst`, for
`FinishJob`), are proved by induction over the histories of such a function: `NatInduct` is an induction on a set, taken from the library's
theorem that `<` on the naturals is well founded, as its own induction theorems have an operator as a parameter.
`UpmemNothingIsOwed` (`NothingOwed`) needs no discipline of the program. `UpmemIsAnArray` (`UpmemSpec => UpmemImplements`), assuming `CallerWaits`,
rests on an invariant: a job is of the rank it is queued for, a receive is into its DPUs' own buffers (`Queues`), and no job
receives into a buffer that another rank's job is given (`NoClash`, which the guard of `Post` extends to each new job). `NoClash` is what lets ranks be
ahead of each other: when a job ends, it leaves the memories and buffers that other ranks' queues read as they were (`OutcomesAgree`,
`Untouched`), so that no DPU of theirs changes its settled state, and by `OutcomeOfFirst` none of its own does (`FinishSettles`). Every job posted
has, DPU by DPU, the effect of the array's `Call` (`SendSettles`, `ReceiveSettles`, `BroadcastSettles`, `LaunchSettles`).

`DirectPIMProofs`, for any ranks, holes, threads and queue bounds, with asserts or without: for a program under no discipline, `TypeCorrect` and
`RacesAreUnsynced` (`OnlyUnsyncedRaces`); assuming `CallerWaits`, `TransfersAreAlone` (`NoTransferDuringRun`), `BuffersReachDpus` (`SendPlaces`) and
`DirectIsAnArray` (`Spec => Implements`). The invariant `Alone`: workers exist only inside a transfer, and when the last call of the SDK waited (`FlagsReturn`) nothing
is queued, neither between calls (`NothingOwed`) nor in a transfer made then. So a program that syncs has no job outstanding in any of its
transfers (`QuietTransfers`). `Placed`: the ranks already copied hold their buffers; it survives the copies of
other ranks because, by `Numbering`, no two DPUs share a buffer, and the SDK's jobs because of `Alone`. For the refinement there is `Mapped` besides
(`Queues`, `NoClash`): calls of the base class map as in `UpmemPIM`, no worker being active then; a worker's copy is the array's `CopySome` of
its rank's DPUs, nothing being queued (`CopyMaps`); and taking a task or switching a multiplexer is a stutter. direct_async_release shows that
the assumption is needed.

`WramReceiveProofs`, for any number of interfaces and members: `TypeCorrect`, `NoForeignWords` (`OwnWordsOnly`), `ReadIsComplete`
(`ReadComplete`). `wram_array` outlives the iterations, so the invariant (`Aimed`) says that where the SDK is about to be called, the mask is exactly the DPUs of
this iteration with a buffer, their entries point to these buffers, and they are the ones selected; and `ReadSoFar` that those of earlier
iterations have their words. It rests on a position and an interface naming one slot (`SlotInjective`).

`LifetimeProofs`, assuming `"direct" \notin Reloads`: `AboutOneSet` (`OneSet`) and `SetsFreedOnce` (`FreedOnce`), inductive together with the
types. lifetime_reload shows that the assumption is needed.

`BenchmarkProofs`, for sizes that double from the smallest, as the code's do, assuming that none is beyond `MRAM_BUFFER_SIZE`: `CheckAlwaysHolds` (`CheckHolds`). The invariant says, for each
place in a round, how often the words below the size have been added to, whatever is beyond. benchmark_to_8mb shows that the assumption is needed.

`ExampleProofs`, for any DPUs, sizes and chunks, and any deliveries that exchange DPUs and leave words out: `CountsAreRight` (`ErrorCountIsRight`) and `ComparisonTells` (`HostTells`).
The set `Bad` of a DPU's wrong words is what stays the same while it checks and tags: an untagged word is compared with its expected value, a
tagged one with the tagged expected value, and tagging is injective (`TaggedInjective`). `errors` counts the part of `Bad` behind `base`.
That the host is not deceived by a word from another DPU is again `TaggedInjective`: the last tag is of the DPU that set it.

## Disagreements found

* **Asynchronous transfers in the default build** (direct_async_release). The README's usage (`README.md` 88-108) offers either interface for the same
  calls and hands one `async` to all of them; `direct` 445 says only synchronous transfers are supported. What refuses them is
  `assert(DirectAvailable(async_transfer))`, absent from a Release build, the default. The run makes the three calls in the README's order with `async` true: the
  `ReceiveFromPIM` runs at once in the memory of a rank whose launch is still queued; with the SDK's own transfers it would wait.
* **The benchmark's 8 MB size** (benchmark_to_8mb). `host.cpp` 307-311 expect every 256th word to have been added to; `dpu.c` 36
  stops at `MRAM_BUFFER_SIZE`, 6396 KB. With asserts the benchmark aborts there; without them nothing is checked at any size.
* **Loading a direct interface from another set** (lifetime_reload). `direct` 83 asserts that the new set has as many DPUs as the
  interface counted ("DPU ID mismatch"). The override of `load_from_dpu_set` never sets the counts, only the base class's constructor does, so
  `pim_interface_header.hpp` 34-36 fails the assert, or reads ranks that are not there, for any set of another shape; and launches
  still go to the set before.

## What is only model-checked and what is not modelled

Only model-checked: liveness (`CallReturns`), and with it that the fairness assumed suffices, which is out of the prover's reach; and that
every pair of access modes copies in rank_modes, which `WorkerCopies` proves in general for `RankMRAM`. Every invariant and every action or
refinement property that a passing run checks is also stated by a theorem. The other way round, no run has `OnlyUnsyncedRaces`, which is proved
(`RacesAreUnsynced`): direct_calls has what it says of a program that syncs, `NoTransferDuringRun`, and direct_async_release the race of one that does not.

Not modelled:

* clocks, statistics, `PrintLog`, printing, plots and scripts, which move nothing; the broadcast benchmark and the row activations, which check nothing;
* NUMA numbers; prefetches of the caller's own buffers;
* the inside of the SDK and of parlaylib, represented by what the code relies on;
* calls through the namespace's pointer after `pim_interface_delete`, and programs loaded into a set after an interface was made of it: nothing in
  the repository does either;
* programs that break the rules for freeing a set (`Lifetime`), and queued buffers that are changed too early (`CallerWaits`);
* arithmetic that wraps at 2^32 in requests the asserts refuse, and byte lengths of WRAM that are no whole words;
* the size of `buffers_aligned`, 40 * 64 entries in the code and as many as needed here.
