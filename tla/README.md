# memchk in TLA+

memchk is a library for `LD_PRELOAD` that replaces `malloc`, `free` and their
relatives, keeps a record of every memory block of the program it is loaded
into, quarantines freed blocks, checks red zones, and prints listings and
snapshots when a client (`./memchk`) sends it a signal. This directory holds
its TLA+ models, their TLC configurations, and proofs for TLAPS.

Every definition that models code is listed in `PROJECT.json` ("map") with the
lines it stands for. Paths and line numbers below are those of `src/`.

## 1. Inventory

### Hooked allocation calls: `memchk_hook.c`, `memchk_init.c`

State: `do_not_hook` under the recursive mutex HOOK; the pointers `mc_orig_*`.
Operations: `malloc`, `calloc`, `free`, `realloc`, the aligned allocators.
Each asks libc for the block with a red zone on both sides, then registers it
with the block manager; `free` unregisters it and gives to libc whatever
buffer the manager says is due, not the one it was called with. `realloc` is
lookup, `malloc`, copy, `free`. Any thread calls any of them at any time.
Correct if: a buffer goes back to libc once, and only when no table, no ring
slot and no thread still has it; memory obtained while the hook was disabled is
never seen by the manager, and all other memory always is.

### Block manager: `memchk_manage_memblk.c`, `memchk_buffer.c`

State: the alloc table, the free table, the quarantine ring
`free_memblk_array[FREE_FIFO_SIZE]` with `free_fifo_idx`, the number and size of
the blocks with a histogram, and two counts of calls that nothing reads, under
the mutex MANAGE, and the tables of the snapshot and of the two copies.
Operations: register (113-145), unregister (147-222), the report of an illegal
or double free (70-109), realloc's lookup (224-234), the check of all blocks
(236-264), the listings and the snapshot commands (286-504). A free goes through
seven critical sections of four mutexes: out of the alloc table; red zone check;
record from the pool; fill with 0xcc; into the free table; counters and ring;
eviction of the oldest record; to libc. What makes it hard: every gap between
those sections, with other threads freeing the same pointer and the worker
walking the tables. Correct if: the records are each in one place, the ring
agrees with the free table, counters agree with the alloc table, a report is
made only of a write that happened, and a double free is recognised as one.

### Pointer and callstack tables: `memchk_hashtable.c`, `memchk_callstack.c`

State: buckets of singly linked chains under one recursive mutex for all
pointer tables and another for callstacks; `usage` of a callstack; two lists of
blocks per callstack (LINK_CURRENT, LINK_SNAPSHOT). Correct if: a chain holds
what was added and not removed, and ends.

### Record pools: `memchk_allocator.c`, `memchk_alloc_blk.c`

State: per pool (alloc records, free records, callstacks, page regions) a list
of pages, each with a bitmap of three words, `num_free` and `next`, and
`next_available_pool`; one mutex for all. Operations: `mc_allocator_alloc`,
which walks the list and maps a batch of pages when the end is reached, and
`mc_allocator_free`. Correct if: bitmap, `num_free` and the records in use
agree, no record is given twice, and a failed `mmap` changes nothing.

### Commands and worker: `memchk_signal.c`, `memchk_client.c`

State: `__cmd`, a mutex and a condition. The client sends signal
`SIGRTMIN + n`; the handler, in whatever thread the kernel interrupted, stores
`n` in `__cmd` and signals; `work_thread` runs it with the mutex held.
`get_status` prints two counters in the handler itself, where it may wait for a
lock of stdio. Correct if: no wakeup is lost, a command given is run, and no
handler blocks for ever.

### Virtual memory usage: `memchk_virtmem.c`

State: a sorted list of page regions, a remembered pair of regions
(`pageregion_cand`, `prev_pageregion_cand`), the array of mapped areas. Blocks
come in hash order; regions are inserted, merged, added up and freed. Only the
worker runs it. Correct if: the list is sorted and has exactly the pages of the
blocks whatever their order, and all regions go back.

### Snapshot and comparison: `memchk_snapshot.c`

State: three tables of copied records and the links of copies that share a
callstack. Operations: duplicate and destroy a table, pair the blocks of two
copies, list what remains. Correct if: copies are complete or gone, pairs are
one to one, no copy is freed twice and no link survives its record.

### Gate, file maps and symbols: `memchk_hook.c`, `memchk_init.c`, `memchk_filemap.c`, `memchk_symbol.c`

State: `do_not_hook` with its recursive mutex, `initialized`; the file maps with
`__usage_cnt`, an open bfd and its symbols each; the statics of the lookup.
Reports, `backtrace` and the demangler allocate memory themselves; that runs
between `mc_disable_hook` and `mc_enable_hook` and goes to libc. One place does
not do so: the virtual memory command opens `/proc/self/maps` with the hook
enabled (`memchk_virtmem.c:157-160`), and the stream is registered, and later
quarantined, as a block of the program. A report of a
thread and a listing of the worker share the file maps. Correct if: every
allocation takes the right way at the gate, the maps are there as long as
someone uses them and gone afterwards, and no lookup uses the statics of
another.

### The rest

`memchk_sort.c` (qsort over an mmap'ed array), `memchk_log.c`, `memchk_util.c`
(units), `memchk_client.c` (options and `kill`), `mctest.c` (an example
program).

### Interactions

    program threads --malloc/free/realloc--> hook --> block manager --> tables
                                              |            |    \--> record pools
                                              v            v
                                             libc     callstacks
    client --signal--> handler (in any thread) --__cmd--> worker
    worker --> block manager (check), snapshot (copies), virtmem, filemap, log

The hazards are in `PROJECT.json`, each at its line with the properties that
would catch it. The threads and the worker share the tables, the pools, the
counters and the content of blocks. The order of the mutexes is HOOK, MANAGE and
the tables' mutexes one at a time on the side of the threads; the worker holds
the command mutex, then MANAGE (check) or the table mutex (copy), then a pool's.

## 2. The modules

| module | models | role |
| --- | --- | --- |
| `BlockTracker` | hook, block manager, buffer check, pointer tables | one action per critical section; threads and the worker's check |
| `BlockLife` | what the tracker promises about one buffer | abstract specification |
| `BlockTracker_proofs` | | theorems, refinement to `BlockLife` |
| `PoolAllocator` | record pools | one step of the walk per action, bitmaps word by word |
| `Pool` | what a pool promises | abstract specification |
| `PoolAllocator_proofs` | | theorems, refinement to `Pool` |
| `PageRegions` | virtual memory usage | one iteration of a loop per action |
| `PageRegions_proofs` | | theorems |
| `CommandWorker` | signals, handlers, worker | one instruction of notify and work_thread per action |
| `CommandWorker_proofs` | | theorems |
| `Snapshot` | listings, snapshot, comparison, links per callstack | one record of a loop per action; threads that use the same table and pool |
| `Snapshot_proofs` | | theorems |
| `HookGate` | gate, constructor, callstack table, file maps, symbol lookup | one stage, or one locked part of it, per action |
| `HookGate_proofs` | | theorems |
| `BlockNumbers` | sizes, addresses, bins, comparison of the sort | operators with words and ints that wrap |
| `BlockNumbers_proofs` | | theorems |
| `ChainsAndSums` | | lemmas on linked chains and on sums over finite sets, for the proofs |
| `MC*` | | instances for TLC |

### BlockTracker

`pc[t]` says which critical section thread `t` comes to next, and `usrptr`,
`usrsize`, `arec`, `frec`, `resume` are its locals. A call of `malloc` is
`Malloc`, `RegisterRecord`, `RegisterFill`, `RegisterAdd`, `RegisterCount`; a
call of `free` is `Free`, `Unregister` or `UnregisterUnknown`, and from there
`CheckFreed`, `FreeRecord`, `Poison`, `Quarantine`, `DropRecord`, `Retire`,
`RecheckFreed`, `Evict`, `DropFreed`, `Release`, or `FindFreed` and
`ReportBadFree`. `realloc` is `Realloc`, `ReallocSize`, then the steps of
`malloc` with `resume` set to the old block, then those of `free`. The worker's
`mc_check_all_memblk` is `CheckBegin` .. `CheckEnd`: it holds MANAGE
(`managed`) and reads `hash_next` record by record. `Scribble` is the program
writing out of bounds.

A buffer has one name for `buf` and `usrptr`, which differ by the red zone. The
content of a buffer is one of four values (`Contents`), as the checks tell apart
only whether the red zones, or the 0xcc, are intact. All pointers hash to one
bucket, the worst case for the chains; records of any chain keep their
`hash_next` after removal, as in the code. Record pools are what `Pool` says
they are: a free record, or none (`MmapFails`) at most `MaxOom` times. Of the
counters `num_alloc_memblk`, `allocated_size` and the histogram are modelled;
`num_alloc_cnt` and `num_free_cnt`, read by two functions without a caller, are
not. Stack traces are not modelled: a record stands for its trace.
`buf_to_be_freed` (`memchk_hook.c:61`) is not initialised; its value, when the
manager returns without assigning it, is a member of `Garbage`.

### PoolAllocator

One process, since `ALLOC_LOCK` covers every call of the pools from begin to
end; the steps of a call are separate actions so that the walk and the failing
`mmap` can be told apart. A page is its bitmap (three words of `WordBits`
bits), `num_free` and `next`; records are page and index, computed by the
code's arithmetic. `mmap` returns free page numbers, in any place. One pool is
modelled, with the size of its records a constant: any of the four of
`memchk_alloc_blk.c`, whose wrappers are not translated. `Pool` has one variable
for the records taken and `Call`, `Get`, `Put`.

### PageRegions

`start`, `end`, `next`, `used` are the regions of the pool, `region`, `prev`,
`ahead` the pointers of the running loop. `next` and the bounds of a freed
region stay as they were, because `mc_allocator_free` does not write to it, and
the lowest free record is handed out next, as the pool does. The variables
`seen` and `counted` remember which blocks were registered. `Areas` is a
constant: the mappings read between registering and counting (`CountBegin`), of
which the model keeps that their usages begin at 0 and are gone with the array
(`FreeEnd`). A failing
allocation of a region happens at most `MaxOom` times in a command.

### CommandWorker

`frames[t]` is the stack of handlers that thread `t` is in, each at a line of
`notify`; `Deliver` pushes one at any time, on any thread, the worker included,
but never a signal inside its own handler, and the lowest pending signal first.
A thread with a frame does nothing else. `wpc` is the place in `work_thread`;
`pthread_cond_wait` is the atomic release-and-sleep, the wakeup (signalled or,
`MaxSpurious` times, not) and the relock. What a command does is a use of
`tracker`, which stands for any lock that threads of the program hold inside
malloc and free and the command takes too. `get_status` is not modelled: every
handler here is one that calls `notify`.

### Snapshot

`todo` is the rest of the worker's command as a list of operations on tables
(`Script`), `at`, `cursor` and `lagging` its place in the first of them. A
duplicate holds the lock of the pointer tables (`ptr_mtx`) from `DuplicateLock`
to `DuplicateEnd`, a destroy likewise; the pairing (`OffsetBegin` ..
`OffsetEnd`) does not. `lagging` is `prev_current_alloc_memblk` and
`prev_snapshot_alloc_memblk`: freed one iteration late, in `OffsetFree` or
`OffsetEnd`. A thread of the program takes a record (`AppAllocate`), adds it
(`AppAdd`), removes one (`AppRemove`) and frees it (`AppFree`); of a block the
model keeps pointer, size and callstack. A freed record is cleared, so that a
reader of it finds nothing and the property fails. The ghosts `moment` and
`whole` remember what the alloc table held when it was copied. `DuplicateFails`
and `ListCallstacksFails` are the failures of the pool and of the sort buffer.

### HookGate

`todo[t]` is what thread `t` still has to do of its call, a sequence of stages
(`Script`), and `step[t]` its place in the first. A stage between
`mc_disable_hook` and `mc_enable_hook` is lock, increment, body, decrement,
unlock, each an action. The calls that ask `do_not_hook` are of two kinds
(`Gates`): those of the program, and those that the streams of the virtual
memory command make with the hook enabled (`OwnMalloc`, `OwnFree`). `strays`
collects calls that took a way not meant for the program's memory or for
memchk's: `Gate` notes one that was passed on to libc ("bypassed") and one of
memchk's own that was registered ("unguarded"), `Inside` one that came back into
memchk from between disable and enable ("recursed"). `broken` is undefined
behaviour: a read of file maps that are not mapped, of symbols that were freed,
a call through a pointer not yet set; the model stops there. What libbfd
computes is not modelled, which file it is asked about is.

### BlockNumbers

Operators only: `aligned_usrptr` and its relatives compute in words of
`WordSize` values, `compare_by_alloc_memblk` in ints of `2 * IntHalf`. A mask
of the low bits of a power of two is a remainder. `histogram_bin` is the loop
of `__update_histogram` and `Labelled` the text that is printed for a bin.
`MCHookGate` extends it and checks it over bounded sizes and addresses.

## 3. The runs

| run | instance | properties |
| --- | --- | --- |
| `tracker` | 2 threads, 2 buffers, ring of 1, pools that fail once, the check beside | `TypeOK`, `ReleaseSafe`, `RecordsAccounted`, `ChainAgrees`, `LifeSpec` |
| `tracker_app` | 2 threads, 3 buffers, ring of 2, no worker | `NoFalseReport`, `QuarantineIntact` |
| `tracker_clean` | a program without bugs, two sizes, worker, fairness | `CountersAgree`, `CheckFinishes`, `CallsFinish` |
| `false_alarm` | a program without bugs, worker | violates `NoFalseReport` |
| `double_free_report` | eviction during a report | violates `DoubleReportOnItsBlock` |
| `pool` | pages of 5 records, 3 words of 2 bits, two batches, 2 gaps, `mmap` that fails | `TypeOK`, `PagesAgree`, `ListWhole`, `PoolSpec`, `AllocReturns` |
| `regions` | 8 bytes in 4 pages, 15 blocks, 3 regions, one failure | `TypeOK`, `RegionsExact`, `AreaUsageExact`, `RegionsReturned`, `CommandEnds` |
| `regions_dangling` | 6 blocks on 6 pages | violates `UsageExact` |
| `worker` | 2 threads and the worker, 3 signals of 2 commands, 1 spurious wakeup | `TypeOK`, `NoLostWakeup`, `NotErased`, `StuckForever`, `HandlersReturn`, `CommandRuns` |
| `worker_lost` | 1 thread and the worker, 2 signals | violates `EveryCommandRuns` |
| `snapshot` | 1 thread, 3 blocks, 3 pointers, 2 sizes, 2 callstacks, one failure | `TypeOK`, `RecordsAccounted`, `WalkOnOwnRecords`, `GroupsAgree`, `PairingExact`, `SnapshotIsMoment`, `NothingLeft` |
| `hook` | main thread, another, the worker, which lists, checks and reads the mapped areas; 3 calls, 2 callstacks, 2 files, one failure | `TypeOK`, `GateTells`, `AimHeld`, `OneEntryPerTrace`, `NoUndefined`, `AllReleased`, `CallsReturn` |

What they show:

* However threads free, free twice and realloc the same blocks, a buffer is
  given to libc once, when no one else has it (`ReleaseSafe`), each buffer goes
  through the life of `BlockLife` (`LifeSpec`), and no record leaks even when a
  pool fails (`RecordsAccounted`). The chains stay whole (`ChainAgrees`) and the
  ring holds what a double free must be recognised against
  (`QuarantineIntact`).
* With the worker quiet there is no false report; with it there is
  (`false_alarm`), because the check reads blocks that a thread is freeing.
* A double free can be shown with the stacks of another block
  (`double_free_report`).
* The pools are right for any order of calls and any place of the pages.
* The list of regions is right as long as no merge frees the remembered region;
  when one does, blocks are lost from the usage (`regions_dangling`).
* No wakeup is lost, but a second command overwrites a first (`worker_lost`).
  A handler that calls `notify` can block for ever in exactly two ways (`Stuck`):
  in a thread that holds the command mutex, or in one whose lock the running
  command needs. Of `get_status`, which prints in the handler, nothing is said.
  `HandlersReturn` and `CommandRuns` say that there is no third, and
  `StuckForever` that neither resolves.
* A comparison prints the exact difference of the table when it was copied and
  the snapshot (`PairingExact`), although blocks at the same address may be
  different blocks, the pairing removes the nodes it stands on, and a thread
  takes the records it frees (`WalkOnOwnRecords`, `GroupsAgree`). A snapshot is
  the table of one moment and stays so (`SnapshotIsMoment`). A copy or a listing
  that fails loses no record (`RecordsAccounted`). All this is of commands that
  begin with no copy or link of a failed one; a comparison that does not is in
  section 5.
* The lock held from `mc_disable_hook` to `mc_enable_hook` is what makes
  `do_not_hook` mean "made between the two": what is allocated outside is always
  registered, what is allocated inside never (`GateTells`). That memchk's own
  memory is not registered follows for all its calls but the streams of the
  virtual memory command, which are made outside. The lock is also what keeps two
  reports apart in the symbol lookup, where FILEMAP_LOCK is commented out and
  the statics are set before SYMBOL_LOCK (`AimHeld`, `NoUndefined`). Reports
  inside MANAGE make no circle of locks (`CallsReturn`).
* `BinIsLabelled`, `PartsFillBuffer`, `SizesWrap` and `ListingOrder` in
  `MCHookGate` are facts of numbers that TLC evaluates in the `hook` run: each
  size but 0 is counted in the bin whose label names it, the three parts of a
  buffer make up the buffer, and so on; from 2 GiB on three sizes can compare in
  a circle.

Bounds. Two threads suffice for every pair of critical sections to interleave;
three buffers with a ring of one or two let a block be evicted while another is
freed and a third takes its record. Pages of five records in words of two bits
use all three words with a spare bit, as the code's 167 records in 192 bits do.
Blocks of one and two bytes on pages of two are inside a page, fill one and
cross two. A `pool` with more than `MaxGaps` free records before taken ones is
cut off: two gaps are enough for the walk, the bitmap and `next_available_pool`
to disagree on where to go on. Three blocks, each possibly copied into four
tables, let two of one callstack be paired in either order and one be replaced
by another at its address; the 15 records never run out. Three calls put two
threads into reports while the worker checks or lists. Three signals make a
handler nest in another and in the worker. Configurations with safety only use
symmetry of threads, buffers and records; those with liveness use none.

A `CHECK_DEADLOCK FALSE` stands where the model really stops: the program of
`worker` can deadlock, which is what `Stuck` is about, `worker_lost` stops
after its signals, and `hook` after its calls or at undefined behaviour.

Programs. `BlockTracker` lets the program free and realloc any pointer it may
know. `MCBlockTracker` narrows this for three of the runs: to pointers malloc
has returned (`TidyCheckSpec`), to a program that does not call realloc either
(`PlainSpec`), and to a program without bugs (`CleanSpec`).
`PageRegions!KeptSpec` excludes one step, the merge that frees the remembered
region; the excluded step is the one `regions_dangling` is about.
`Snapshot!CleanStartSpec` keeps a command that links or pairs from beginning
with copies or links that an earlier, failed one has left behind, see section 5.
`MCSnapshot` narrows it further to the cases its properties tell apart. In
`HookGate` only the main thread exists before the constructor has run
(`FirstCalls`), and its first call is one that comes to `mc_init`.

Fairness. Threads that are inside a call, a handler or a command keep running:
weak fairness per thread, as a scheduler that does not starve a runnable thread
gives it. Nobody is forced to begin a call or a command, so `CallsFinish` asks
for the checks to stop at some time: MANAGE need not be handed to a waiter by a
worker that checks for ever. `CommandWorker` has strong fairness for one step,
the worker's lock of `tracker`: threads of the program take and drop that lock
for ever, and the worker is assumed to get it once. `HookGate` has weak fairness
of each thread inside a call: its calls are bounded, so no mutex is taken away
from a waiter for ever. Client, kernel, `mmap`
failures and spurious wakeups have no fairness.

## 4. The proofs

All for any values of the constants that satisfy the named assumptions.

* `BlockTracker_proofs`: `TypeCorrect` (`TypeOK`), `ReleaseIsSafe`
  (`ReleaseSafe`), `QuarantineStaysIntact` (`QuarantineIntact`),
  `NoReportIsFalse` (`NoFalseReport`, of the program without the worker: with it
  the run `false_alarm` refutes it), `NoRecordLost` (`RecordsAccounted`). None
  is inductive: the types need to know which labels have a record in hand
  (`LocalsOK`), and a release is safe because of what was true of the buffer
  since it was unregistered. The invariant `Own` says who has a buffer at each
  label, that two threads never carry the same one, that a buffer is in at most
  one table through at most one record, and that records in the ring are linked
  in the free table. Two more parts stand on it: `Marked`, what a block holds
  follows from the table or the thread that has it, and `Held`, a record that is
  taken and on no chain is in a thread's hands. All but `TypeCorrect` assume
  `SlotIsNull`, that is, if a free record can be missing, `Garbage = {NULL}`:
  with any other value of the uninitialised pointer the code frees a wild one.
  `NoRecordLost` counts, and so assumes finitely many threads. `ChainsStayWhole`
  (`ChainAgrees`): the invariant `ChainsOK` says that `hash_next` leads from the
  bucket through the records of a table, each once. It needs `Own`: a record is
  added by the one thread that has it, and only a record of the table is
  removed. `CountersStayExact` (`CountersAgree`, of `num_alloc_memblk`,
  `allocated_size` and the histogram): each is a sum over the table, less the
  threads that have added and not counted, plus those that have removed and
  still count (`Due`). A step adds a record of the table, counts it, removes it,
  uncounts it or does none of these, and `Due` is worked out for each kind. It
  needs `Recorded` (the thread will count the size its record has) and assumes
  finitely many threads and records, and that the pool of free records does not
  fail: then `memchk_manage_memblk.c:170` returns before the subtraction, the
  counters stay too high for good, and `CountersAgree` does not hold (the run
  `tracker_clean`, too, has no failures). `TrackerImplementsLife`, the
  refinement to `BlockLife` (`LifeSpec`). By `Own` a block is in one place at a
  time (`OnePlace`), so its life is the name of that place (`LifeByPlace`);
  every step leaves all blocks where they are or moves one. The bound on the
  quarantine needs one invariant more, `RingOrHands`: a record in the free table
  is in the ring or in the hands of a thread, and a thread that adds one has
  none there (`RoomInQuarantine`).
* `PoolAllocator_proofs`: `TypeCorrect`, `PagesAlwaysAgree`,
  `PoolImplementsPromise` (refinement to `Pool`), `FreedIsAlwaysNext`. The
  assumption is `num_memblk_in_pool < 3 * WordBits`: `__get_lowest_bit` finds a
  bit of a full third word. `ListIsWhole` (`ListWhole`), for finitely many
  pages: `ListOK` says that the list is a chain of the mapped pages and that a
  walk which found nothing stands at its last page, to which the new batch is
  linked.
* `CommandWorker_proofs`: `TypeCorrect`, `WakeupNeverLost` (`NoLostWakeup`),
  `OnlyRunIsErased` (`NotErased`), `DeadlocksStay` (`StuckForever`), for any
  number of threads and signals and any nesting of handlers. The invariant `Inv`
  says who is in the critical section of the command mutex: at most one handler
  frame of all threads is behind its lock, its thread is the holder and the
  worker is not inside; inside, the worker is the holder, and while it runs a
  command `__cmd` is that command.
* `HookGate_proofs`: `TypeCorrect`, `GateIsExact` (`GateTells`), `AimIsHeld`
  (`AimHeld`), `OneEntry` (`OneEntryPerTrace`), for any number of threads, calls
  and files. The invariant `GateInv` says that a thread past `DisableLock` owns
  the mutex (`HookHeld`), that the counter is what the owner's place makes it
  and 0 without an owner (`CountAgrees`), and that a stage is only at places it
  has (`StepFits`); with it, a test under the lock sees another's increment
  never and its own always; so what `GateIsExact` says holds of every call by
  its place in the code, the streams of the virtual memory command being
  outside. `NothingUndefined` (`NoUndefined`) and `EverythingReleased`
  (`AllReleased`), for finitely many threads: by `UseInv` what a call has still
  to do pairs its init and term of the file maps (`AllNeat`), `usage_cnt` is the
  number of threads between the two (`MapsCounted`), the holder of MANAGE_LOCK
  has still to release it (`ManageHeld`), and until the pointers of libc are set
  there is one thread, in its first call (`FirstCall`).
* `Snapshot_proofs`: `RecordsStayAccounted` (`RecordsAccounted`),
  `WalksStayHome` (`WalkOnOwnRecords`), `GroupsStayInStep` (`GroupsAgree`),
  `SnapshotIsOneMoment` (`SnapshotIsMoment`), `ComparisonExact`
  (`PairingExact`), `NothingIsLeft` (`NothingLeft`) and `TypeCorrect`, for
  finitely many records, and any threads and blocks, copies and listings that
  fail included. They are theorems of `CleanStartSpec`, which the run checks:
  behind a failed copy a comparison may begin on two records of one pointer, and
  of that case nothing is proved (section 5). The invariant `IInv` follows the
  worker through a command. `Places`: what is left to do is in the order of a
  script and complete (`Plan`), and which locals are set where. `Records`: each
  table is a chain of its records (`Chains`), the records of the tables, of the
  threads and the lagging ones are different (`Apart`), and they are all that is
  taken (`Accounted`). `Walks`: what a copy or a link has before it is in its
  table; a pairing stands at a record of the copy or at one it has just
  unlinked, whose `hash_next` still leads there. `Unique`: a table has one
  record of a pointer; the new copy is one because its records come from the
  alloc table, each once, under the lock. `Lists`: the list of a callstack is
  linked in both directions (`Doubly`) and has the records linked so far
  (`Listed`). They need each other: `OffsetPair` unlinks what `Find` returns,
  which is the record at the cursor only by `Unique`, and the match is in the
  other copy only by `Lists`. `Path` follows a chain for as many steps as there
  are records; `PathIs` and `ReachedIs` say that it is the way along a chain.
  The other theorems add invariants to `IInv`. Most steps leave every table as
  it is (`Calm`), and of the threads' only the alloc table changes, never what a
  copy has still before it (`AsideKeeps`, `AppAside`). `Moments`: a copy holds,
  with what the walk has before it, the source as it was locked (`InCopy`), and
  is complete once the walk is over, until the pairing begins (`AsCopied`); so
  is a snapshot that did not fail (`Whole`). `Counted`: during the pairing the
  counts are the sizes of the copies. `Balanced`: of every size and callstack
  the copies differ by as much as what they were copied from, since a pair takes
  one of the same kind from each. `Passed`: a record that the pairing has passed
  has no like in the snapshot's copy, or `Match` would have found it
  (`MatchIs`). `MapsKept`: the file maps are held between `init_maps` and
  `term_maps`. `Ended`: a copy is empty when it has been given back and no list
  is left when it has been reset; the early return of a comparison per callstack
  skips the reset, and by `Counted` its lists are empty.
* `BlockNumbers_proofs`: `PlainBlockFits` and `AlignedBlockFits`: for every size
  and alignment whose sum does not wrap, and every address, the block is aligned
  and has whole red zones in its buffer. `WrappedBufferIsShort`: for all others
  the buffer is shorter than the block. `PvallocRoundsUp`. `ListingIsOrdered`
  and `ListingMisplacesLarge`: where the comparison of the sort is an order, and
  where it is not. `BlockInItsBin`: a block that is not empty is counted in the
  one bin whose label names its size; the bounds of the bins (`upper`, a
  recursive function on an interval) exist and grow by induction along the
  bins (`UpperExists`, `UpperGrows`).
* `PageRegions_proofs`, all under `KeptSpec` (no merge frees the remembered
  region, the step `regions_dangling` is about): `ListStaysExact`
  (`RegionsExact`), `EveryRegionReturned` (`RegionsReturned`),
  `AreasChargedExactly` (`AreaUsageExact`), `UsageExactWhenKept` (`UsageExact`:
  its violation in `regions_dangling` needs that step) and `TypeCorrect`. The
  invariant `ListInv` says that the list leads through the regions in use in
  ascending order with gaps; while regions are merged, that is true of the list
  as it is going to be (`Link`, `End`), the merged region having swallowed what
  was freed. Of the remembered pair only the region matters: its predecessor may
  be stale, but a walk that begins there passes the region before it uses the
  predecessor (`Walking`). `UsageInv` says that the sums are those of the
  regions before the cursor (`Counting`); a region begins and ends on a page
  (`Aligned`), so its size is that of its pages, and the loop over the areas
  gives each its share (`ChargedTo`); the count begins with fresh usages
  (`NoPages`). Assumed: the pool grows as it has to, with a region to a block
  enough (`RegionForEach`); for the sums also that the mappings are whole pages
  and the blocks lie in them (`BlocksInAreas`).
* `ChainsAndSums` holds what these proofs need to know of data. The library's
  induction theorems cannot be instantiated here, but well-foundedness of `<` on
  the numbers is a theorem about sets (`WFMin`): from it come a least element
  (`Least`) and induction over a set of numbers (`NatByStep`). With these, a
  walk along a chain visits its elements and ends (`ChainWalk`), adding or
  removing an element leaves a chain (`ChainPrepend`, `ChainInsert`,
  `ChainRemove`, `ChainAppend`), and the sum over a finite set does not depend
  on the order in which the fold of the community modules takes it (`SumAdd`,
  `SumRemove`, `SumCounts`).

Only model-checked: liveness (`HandlersReturn`, `CommandRuns`, `CheckFinishes`,
`CallsFinish`, `AllocReturns`, `CommandEnds`, `CallsReturn`), which the provers
do not reach, and calloc's product (`SizesWrap`). Every safety property, action
property and refinement of a passing run is stated by a theorem.

## 5. Not modelled, and the plan

Behind a failure. After a failed copy or a missing sort buffer, copies and links
stay behind (`memchk_manage_memblk.c:470`, `memchk_snapshot.c:222`). The failure
is an action of `Snapshot`, and `RecordsAccounted` holds after it for as long as
no command links or pairs what is left (`CleanStartSpec`). The code does not
look whether something is left, so with `Spec` for `MCSpec`, one pointer and one
callstack in `MCSnapshot.cfg`, TLC finds two properties violated.
`PairingExact`, with one block (`MaxAdds = 1`): a block of the snapshot is freed
after a comparison whose second copy failed; the next comparison pairs it with
its stale copy and does not report it as decreased. `RecordsAccounted`, with two
(`MaxAdds = 2`): where a block was replaced by another at its address the copy
has two records of one pointer, and the pairing unlinks one and frees the other.
After a failed `mmap` of the file maps or an unreadable symbol table
(`memchk_filemap.c:156`, `:100`), `HookGate` reaches `broken`, which
`NoUndefined` allows after a failure and nowhere else.

Assumed. The callstack pool does not fail (`memchk_callstack.c:42` stores NULL,
which the first listing follows); `bfd_openr` does not fail (its result is used
at `memchk_filemap.c:79` without a test); no library function that memchk calls
behind the gate uses an aligned allocator (those do not ask `do_not_hook`,
`memchk_hook.c:162`); besides the streams of the virtual memory command, no call
of a library that memchk makes with the hook enabled allocates.

Left out for good: what libbfd computes and the reading of `/proc` (file
formats), the log's and the listings' text with `mc_change_unit`, the client's
option parsing and settings, `mctest.c`, and what no code calls
(`mc_remove_callstack_hashtable`, `mc_init_filemaps_from_file`,
`mc_find_filemap`, `mc_prepare_symbol`).

Next:

1. `PageRegions` with the failing copy of the table and a failing
   `vmarea_array`, and the proofs with it.
2. What of `Snapshot` still holds of a comparison that begins behind a failure.

Seen while reading, with no run: between `memchk_manage_memblk.c:154` and `:185`
a block is in neither table, so a second free of it by another thread is called
"ILLEGAL" (:87) where `README.md:10` promises "Detect double free"; the log is
`mc%d.log` (`memchk_log.c:21`) where `README.md:22` says `mc<pid>.txt`; the client
takes no pid after `-d` (`memchk_client.c:164`, against 151); `realloc` of a block
that is not in the table prints to the program's stdout (`memchk_hook.c:107`), not
to the log, and does not report the double free; a block of 0 bytes is counted in
the bin whose label begins with 1 (`memchk_manage_memblk.c:294`, against the
comment at 37).
