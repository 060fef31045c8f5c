# A TLA+ model of Athena_PG

Athena_PG is PostgreSQL 16.1 with two additions to its planner: the Athena
exploration of join orders (`enable_join_order_plans`) and the Lero scaling of
cardinalities (`enable_lero`). This project models the two additions with the
part of the planner they change, and, of the server around them, the shared
memory protocols that every backend relies on: lightweight locks, condition
variables and barriers, the parallel btree scan, the shared memory message
queue, the shared invalidation queue and the buffer manager.

## The system and its parts

A server is one *postmaster* and many *backends*, processes that share memory.
Each backend runs one session: it parses, plans and executes statements. The
planner runs inside one process and keeps its state in process globals. The
layers below it are concurrent.

| Part | State | What is hard | Modules |
|---|---|---|---|
| Lero (`backend/lero`) | counters, three arrays, a phase flag, all process globals | `planner` is re-entered; an `ERROR` leaves the globals as they are; the arrays are finite; matching is by position | `Lero` |
| Path tournament (`optimizer/util/pathnode.c`) | the pathlist of each relation | fuzzy costs are not transitive; the precheck relies on the order of the list | `PathList` |
| Join order exploration (`optimizer/path`) | a flag that survives queries, a stash of the topmost relation's paths | stale flag; recognising the topmost relation; GEQO rebuilds trees | `JoinOrderPlans` |
| Join order export (`optimizer/jop`) | one file, a stdio stream per export | many backends, one file; an `ERROR` leaks the stream | `JoinOrderFile` |
| Lightweight locks (`lwlock.c`) | an atomic word, a wait list, a semaphore and a waiting flag per process | everything is interleaved at the level of single atomic operations | `LWLock`, `RWLock` |
| Condition variables, barriers (`condition_variable.c`, `barrier.c`) | a wait list under a spinlock, latches; phase and counters | broadcasts that give the list up; a phase ended by a detach | `ConditionVariable`, `Barrier`, `Phaser` |
| Parallel btree scan (`nbtree.c`) | scan page and key count under a spinlock | processes one or more key sets behind; one signal per page | `BTParallelScan` |
| Message queue (`shm_mq.c`) | a ring, two counters, a detach flag | messages longer than the ring; sleeping through news; detaching | `ShmMq` |
| Invalidation queue (`sinvaladt.c`, `sinval.c`) | a ring of messages, a position per backend | slow readers, wraparound, recursion | `SInval` |
| Buffer manager (`bufmgr.c`, `freelist.c`, `buf_table.c`) | headers, mapping table, clock hand, content locks | pins, I/O, eviction, hints, drops and checkpoints race | `BufMgr`, `PageStore` |

They are composed where the code composes them: `Barrier` and `BTParallelScan`
run on top of `ConditionVariable`, `JoinOrderPlans` on `PathList`. The buffer
manager takes its content locks and partition locks from what `RWLock` promises,
which the refinement of `LWLock` justifies. `PROJECT.json` lists every other part
of the server with the reason why it has no module, and every hazard at its line.

## Modules

**Lero** follows `lero_extension.c` and its two hook points. The variables are
the C globals under their own names; `stack` holds the `planner()` calls in
progress, innermost first. `Planner` is the hook down to its first
`standard_planner()`; `RecordJoin`, `RecordJoinFull` and `ReplayJoin` are the
branches of the size-estimate hook; `SwingCards` is the loop between the passes;
`Error` and `RecordJoinUnsupported` unwind the stack to the innermost handler and
leave the globals alone, as `siglongjmp` does. A row count is abstracted to the
join it was estimated for and whether it was scaled. The settings change only
between statements. In a frame `nested` (another call was made inside this one) and
`caught` (one of those ended in an `ERROR` that this call survived) are history
variables.

**PathList** is the tournament as operators: a path is a record of costs, keys,
parameterization, rows and parallel safety; the loops are quantifiers over
positions. Costs are integers and the fuzz factor a fraction, so 1.01 is exact;
the tie-breaking factor 1.0000000001 is 1 on these costs.

**JoinOrderPlans** (EXTENDS PathList) plans queries one after another and follows
five relations: a base relation, a lower join, the topmost join, the last upper
relation above it and the final one. Paths come from a constant set, in any order:
path generation and costs are not modelled, and neither are partial paths.
`BeginPair` and `EndPair` are the code Athena put around `add_paths_to_joinrel`;
`TryJoinPath` is `try_nestloop_path` and its siblings, precheck included. `FinishPlan`
is `grouping_planner` above the joins and the export: the query's grouping, window,
`DISTINCT` and `ORDER BY` steps in this order, each an `UpperRel` over the one before.
A step takes the input paths that are sorted as it wants, the cheapest one, and those an
incremental sort can start from; puts a sort under those that need one; adds a hashed
alternative where it can; and offers all of them to `add_path`. Keys are taken to be
sortable and hashable, without ordered aggregates and `DISTINCT ON` and with
`enable_hashagg` on, a query has one window clause, and what a node costs beyond its
sort is the same for every input and left out. Set operations, grouping sets, partial
aggregation and paths that foreign data wrappers or extensions add are not modelled.

**JoinOrderFile** is `jop_extension.c`: `catch_join_order` as a recursive operator
on path trees, one action per step of `save_join_order_plans`, the C library's
buffering (external), streams leaked by an `ERROR` and flushed at exit. `last`
and `serial` are history variables. Because the operator is recursive, this
module is checked by TLC only.

**LWLock** is `lwlock.c`: one lock, any number of processes. The lock word's fields
(`exclusive`, `shared`, `LW_FLAG_HAS_WAITERS`, `LW_FLAG_RELEASE_OK`,
`LW_FLAG_LOCKED`) are separate variables that change together where the code
changes the word atomically. Every atomic operation, wait list section and
semaphore operation is one step; `pc` says where in the call a process is. The
workload `load` says which calls, modes and values of the variable a behaviour
uses. The statically held list, interrupts holdoff, statistics and the spin delay
are left out. `ForeignSignal` (external) stands for other users of a process
semaphore. **RWLock** says what the lock promises its users: many shared holders
or one exclusive holder, acquired and released one at a time.

**ConditionVariable** is `condition_variable.c`: one step per use of the list's
spinlock and per latch operation, with the sentinel that a broadcast puts on the
list, spurious latch sets and interrupts that cancel a sleep. **Barrier** puts
`barrier.c` on top of it: attach, arrive, arrive and detach, detach, wait. **Phaser**
is the abstract barrier, without a list and without sleeping.

**BTParallelScan** is `_bt_parallel_seize`, `_release`, `_done`, `_advance_array_keys`
and the loops of `_bt_first`, `_bt_steppage` and `_bt_readnextpage` around them, for
forward scans. An index is its number of pages; a set of array keys is the range of
pages that can satisfy it. `taken` counts how often a page was read for a key set.

**ShmMq** is `shm_mq.c`: one sender, one receiver, a ring of `RingSize` aligned units.
A message is a length word followed by its units; `stream` and `sent` are history
variables (all units and all messages ever sent). Either side may be a background
worker that is not started or exits. `nowait`, `force_flush`, partial transfers, the
message buffer, both latches and every way to detach are there.

**SInval** is the queue of `sinvaladt.c` with the static batch and the recursion of
`sinval.c`. Message numbers have the width of the `int` of the code (`INT_MAX`) and
wrap around as `SICleanupQueue` lets them; `frames` is the stack of nested receives.

**BufMgr** is the shared buffer pool. The fields of the state word are functions of
the buffer; a step is one critical section of the header spinlock, one
compare-and-swap, or one lock operation. A page's contents are the LSN of its last
change and whether a hint was set since. `log`, `flushed`, `redo` and `disk` are the
parts of the log and of storage that the pool's rules are about. A backend counts
once in the reference count however often it pinned a buffer, as in the code. A
workload says who changes pages, holds two, sets hints, takes cleanup locks, drops
relations and meets I/O errors. The I/O condition variable appears as a guard
(`IoFree`). Reading a page and setting `BM_VALID` are one step because nobody looks
at the contents in between. `MarkBufferDirtyHint`'s unlocked look at the flags is a
step of its own, sequentially consistent: on hardware that reorders it a hint may be
lost, as the comment at `bufmgr.c:4569` concedes, and `Transparent` then holds of
everything but that hint. **PageStore** is what callers see: one
current contents per page, which only a logged change or a hint changes.

`*Proofs` modules hold the theorems; `MC*` modules the instances.

## Runs

| Run | Checks | Instance, and what it shows |
|---|---|---|
| `lero_nested` | `TypeOK`, `UndisturbedReplayFaithful`, `OwnEstimates` | two queries, calls nested two deep, one exception handler, arrays of length 2 (so they fill up): a call that makes no other one scales exactly the selected joins, and one that is interrupted gives each join the estimate of that very join, scaled as the setting says or not at all. Calls that survived an `ERROR` of an inner one are excepted: they go on with the recording it left |
| `lero_swing` | `ReplayFaithful`, violated | a nested call replaces the recording of the outer one, which is then planned unscaled |
| `jop` | `PrecheckLosesNothing`, `CapabilitiesKept`, `CheapestIsCheapest`, `JoinOrdersExported`, `CandidatesStay` | eight paths for the topmost relation, at the fuzzy boundary in total and startup cost, three sort orders, safe and unsafe; parameterized paths below; all three search forms; the setting changes between queries; seven combinations of steps above the joins, with none, one and two sort keys |
| `jop_upper` | `CandidatesReachFinal`, violated | an `ORDER BY` none of the candidates is sorted for: one of them goes on |
| `jop_outer` | `JoinOrdersExported`, violated | one outer join: the topmost relation is not recognised |
| `file` | `LinesMatchPaths`, `SerialExportsKept` | two backends, two leaked streams each |
| `lwlock` | `MutualExclusion`, `ListsDisjoint`, `NoLostWakeup`, `NoStaleSleeper`, `SignalsConserved`, `ImplementsRWLock`, `NoSleepBesideFreeLock` | three processes, fair scheduling; acquire in both modes, or acquire, conditional acquire and acquire-or-wait exclusively, or the exclusive lock with a two-valued variable, one or two that advance it, the others waiting for it, and one foreign signal |
| `barrier` | `NoWakeupMissed`, `BroadcastReachesAll`, `OneIsElected`, `AllReleased`, `ImplementsPhaser` | three processes, three phases, fair scheduling, spurious latch sets: nobody is left asleep, one is elected, the counters implement the phaser |
| `btscan` | `PagesTakenOnce`, `NobodyStranded` | three processes, three pages, three key sets of which one cannot be satisfied |
| `shm_mq` | `Fifo`, `MessageStaysValid`, `DetachedWhenDrained`, `WokenUnlessEarly`, `NoStandoff` | a ring of four units, three messages of length 0, 1 or 5 (longer than the ring), every combination of waiting and flushing |
| `sinval` | `QueueHoldsUnread`, `ReceiveGuarantee` | two backends, a queue of two, `int` of width 4: the queue fills, wraps around and resets readers |
| `bufmgr` | `MappingSound`, `HeldPageStays`, `IoHasOwner`, `CrashSafe`, `CleanupAlone`, `CleanupWakeup`, `DroppedStaysGone`, `NoDeadlock`, `Transparent` | two backends and a checkpointer, two buffers, three pages in two partitions, nine workloads |

**Bounds.** Three processes are the fewest with a holder, a waiter and a third that
changes the queue in between; the lock's code and the broadcast compare no more than
two waiters at a time. Array length 2 with queries of two joins reaches both the full
array and the exact fit. `MaxDepth` 2 and one handler give every way a call can be
interrupted. One page more than buffers makes every read a possible eviction, and two
partitions make two pages share a lock. A ring of four with messages of five units
makes every message wrap at every offset. `MaxPhase`, `MaxMessages`, `MaxLeaks`,
`reads`, `lsns` and `foreign` bound counters. No run uses symmetry. `barrier` and `shm_mq` do not check for deadlock:
processes that are done, or that have nobody left to wait for, really stop.

**Fairness.** `FairSpec` of `LWLock` asks weak fairness of each step of a call in
progress: the operating system runs every process and a semaphore that was signalled
lets its process go. Releasing a held lock is a step of its holder and fair as well,
since code holds lightweight locks for a bounded time; starting a call is not fair.
`FairSpec` of `Barrier` asks it of each step inside a function of the barrier; nobody
has to arrive, and a process that sleeps goes on only when its latch is set.

## Proofs

| Theorem | States |
|---|---|
| `LeroProofs!TypeCorrect` | `Spec => []TypeOK` |
| `LeroProofs!UndisturbedCallsFaithful` | `Fixed => (Spec => []UndisturbedReplayFaithful)` |
| `LeroProofs!InterruptedCallsOwn` | `Fixed => (Spec => []OwnEstimates)` |
| `LWLockProofs!LockExcludes` | `Spec => []MutualExclusion` |
| `LWLockProofs!WaitListExcludes` | `Spec => []WaitListLocked` |
| `LWLockProofs!LWLockImplementsRWLock` | `Spec => ImplementsRWLock` |
| `LWLockProofs!ListsAreDisjoint` | `Spec => []ListsDisjoint` |
| `LWLockProofs!SignalsAreConserved` | `Spec => []SignalsConserved` |
| `LWLockProofs!NoWakeupIsLost` | `Spec => []NoLostWakeup` |
| `LWLockProofs!NoSleeperIsStale` | `Spec => []NoStaleSleeper` |
| `BarrierProofs!PhaseNeverOvertakes` | `Spec => []PhaseAssert` |
| `BarrierProofs!BarrierImplementsPhaser` | `Spec => ImplementsPhaser` |
| `BarrierProofs!OneProcessElected` | `Spec => []OneIsElected` |
| `BarrierProofs!NoWakeupIsMissed` | `Spec => []NoWakeupMissed` |
| `BarrierProofs!BroadcastReaches` | `Spec => []BroadcastReachesAll` |
| `BTParallelScanProofs!KeysStayInStep` | `Spec => []KeysInStep` |
| `BTParallelScanProofs!ReadsExistingPages` | `Spec => []OnlyFirstStarts` |
| `BTParallelScanProofs!EveryPageOnce` | `Spec => []PagesTakenOnce` |
| `BTParallelScanProofs!NobodyIsStranded` | `Spec => []NobodyStranded` |
| `BufMgrProofs!MappingIsSound` | `Spec => []MappingSound` |
| `BufMgrProofs!HeldPagesStay` | `Spec => []HeldPageStays` |
| `BufMgrProofs!IoIsOwned` | `Spec => []IoHasOwner` |
| `BufMgrProofs!DroppedPagesStayGone` | `Spec => []DroppedStaysGone` |
| `BufMgrProofs!CleanupIsAlone` | `Spec => []CleanupAlone` |
| `BufMgrProofs!CleanupIsWoken` | `Spec => []CleanupWakeup` |
| `BufMgrPoolProofs!PoolIsTransparent` | `Spec => Transparent` |
| `BufMgrPoolProofs!CrashLosesNothing` | `Spec => []CrashSafe` |
| `ShmMqProofs!RingStaysIntact` | `Spec => []RingIntact` |
| `ShmMqProofs!MessagesArriveInOrder` | `Spec => []Fifo` |
| `ShmMqProofs!ReturnedMessageStays` | `Spec => []MessageStaysValid` |
| `ShmMqProofs!WaitersAreWoken` | `Spec => []WokenUnlessEarly` |
| `ShmMqProofs!SidesNeverStandOff` | `Spec => []NoStandoff` |
| `ShmMqProofs!DetachIsToldLast` | `Spec => []DetachedWhenDrained` |
| `SInvalProofs!MessageNumbersOrdered` | `Spec => []MsgNumsOrdered` |
| `SInvalProofs!QueueHoldsTheUnread` | `Spec => []QueueHoldsUnread` |
| `SInvalProofs!ReceiveGuaranteeHolds` | `Spec => []ReceiveGuarantee` |

They hold for any value of the constants that the modules' assumptions allow: any
queries, array length and nesting, any number of processes, phases, pages, key sets,
buffers, partitions and backends, any workload, any ring and any lengths of messages.
`BufMgr` assumes that buffers and pages are numbered and that hints are set only on
pages there are. Two of the Lero theorems have the hypothesis `Fixed` in addition.

*Lero.* `TypeOK` is inductive. Faithfulness is not: it needs to know what the globals
hold for the call in progress. `CallInv` says that every call but the innermost was
interrupted (`OuterCallsNested`), and that for an uninterrupted innermost call the
globals are its own: its recording so far, or the wanted size of every join at the
position where it will be asked for. For a call that was interrupted `OwnInv` adds what
the inner call left: a recording that is spent (`Spent`), so that no entry of it is read
any more and the joins that remain get their own estimates. Where the inner call ended
in an `ERROR` this fails, and `caught` marks the calls it fails for. `Fixed` assumes one
order per query (`standard_join_search`, whose order does not depend on costs) and
arrays long enough for it; without either the statements are false.

*LWLock.* Exclusion rests on the lock word counting its holders. `LockInv` adds to
`MutualExclusion` the types of the word (`Scalars`) and where each process may be when
it holds the lock (`Placed`). `WaitListLocked` needs the set of program locations inside
the wait list section. Refinement follows: the only steps that change `own` are a grant
of `LWLockAttemptLock` and `LWLockRelease`, and each is a step of `RWLock` by `LockInv`.
The wait list has an invariant of its own, `QueueInv`: `lwWaiting` says on which list a
process is and at which program locations it can be there (`OnList`, `OnLocal`), the
flag covers the list (`Flagged`), waiters for the variable stand in front (`FreeFirst`),
and while `LW_FLAG_RELEASE_OK` is off a woken process is still to set it
(`ReleaseHeldBack`). `Attended` strengthens `NoLostWakeup` from those who sleep to those
who are bound to.

*Barrier.* `arrived` is the number of the processes that wait in this phase and
`participants` that of the attached ones; every waiter is attached, and has the present
phase or the one before. A phase ends when the two numbers are equal, that is when the
two sets are (`FiniteSetTheorems`), which is what `Phaser` asks for. `ElectInv` follows
the ballot of every phase: nobody, then one. `CVInv` is about the condition variable
alone: who is on a list has it as its target or is broadcasting (`Linked`), whom a
broadcast still has to wake stands before its sentinel (`Ahead`), and who has prepared
to sleep is on the list, has its latch set or is about to (`Reachable`).

*BTParallelScan.* The pages read for a key set are those below the scan page, or all of
them once the set is finished; whoever has seized the scan knows the page that comes
next. That nobody is stranded needs the condition variable again (`ListInv`) and
`WakeInv`: who waits for a key set that is over is covered by a broadcast (`Finished`),
who waits for one that is not, by whoever has the scan or is about to look at it
(`Unfinished`).

*ShmMq.* The ring holds the last units of `stream`, from the receiver's position to the
sender's, at their offsets; each unit of `stream` follows the one before it as the
messages in `sent` say (`Runs`); sender and receiver each stand at the unit that their
`mqh_*` variables describe (`SenderAt`, `ReceiverAt`). In-order delivery follows because
the position of the receiver determines message and offset (`IsUnique`). `WInv` is about
waiting: for each kind of news the one it concerns has its latch set, has yet to look,
or its peer is about to notify it (`ToldOf*`); who waits for space has filled the ring
and hidden nothing (`SenderFilled`), and who waits for data has taken all it can and
given the space back (`ReceiverDrained`). Both at once would need a ring that is full
and has too little in it.

*SInval.* The counters are ordered, the queue never holds more than its size, and the
writer that publishes has made room (`Room`); a batch being read lies between the
reader's position and `maxMsgNum` (`Fetched`). `QInv` says of every backend what it
still has to be told, and that batch and queue hold just that, in order (`Holds`), that
what is new is visible or about to be (`Visible`), and that what was sent before a call
is not among what is left at its end (`Timely`).

*BufMgr.* `BaseInv` is the conjunction of six invariants, each inductive relative to
those before it and the types (`Typed`): the mapping table and what each program
location knows of its buffer (`MapInv`), content locks (`LockInv`), one owner per I/O
(`IoInv`), the scan of a drop (`DropInv`), who may have looked at a page under a cleanup
lock (`CleanInv`) and where the signal for its waiter is to come from (`WakeInv`).
`BufMgrPoolProofs` adds the contents: a page that is ahead of its file is dirty or about
to be marked (`ContentInv`), which gives the refinement of `PageStore`; files are never
ahead of the flushed log and no logged change is lost (`LsnInv`); and a buffer that
lacks a change from before the next redo pointer is one the checkpointer still comes to
(`CheckpointInv`), from which `CrashSafe` follows.

Only model-checked: liveness (`AllReleased`, `NoSleepBesideFreeLock`), out of the
prover's reach as is `ENABLED`; `NoDeadlock`, which speaks of chains of waiting; the path
tournament and the exploration over it (`PrecheckLosesNothing`, `CapabilitiesKept`,
`CheapestIsCheapest`, `JoinOrdersExported`, `CandidatesStay`), whose loops over lists of
paths would need induction over data; and the export file, whose `catch_join_order` is
recursive.

## Findings

Three runs end in a violation of something a document or a setting's description says;
`PROJECT.json` quotes each line. All are differences between what is written and what
the code does at the boundaries of the two additions.

**Observations** made while modelling, which no run is about:

- `save_join_order_plan_finished` outlives its query (`allpaths.c:3505`); the model
  keeps that and the checked properties hold all the same.
- Overlapping exports of two backends mix in one file, and a stream that an `ERROR`
  leaked is flushed when its backend exits (`jop_extension.c:177`, `:193`); the result
  of `fopen` is not tested (`:193`).
- With exploration on, the topmost pathlist is not sorted by cost although a comment
  says lists are (`pathnode.c:394`); the root test looks at 32 bits of the first word
  of the relation sets (`joinpath.c:159`).
- Under GEQO both passes of Lero may build joins in different orders, and cardinalities
  are then taken by wrong positions; the theorem assumes one order.
- `sinvaladt.c:36-38` speaks of the messages "for every backend"; backends that were
  reset and those that only send are excepted.
- `BarrierArriveAndDetachExceptLast` only makes sense in a phase nobody waits in; the
  constant `ExceptLast` names those phases.
- `shm_mq.c:523-542`: a sender that finds no receiver makes its bytes visible without
  a signal, so a receiver that attaches and sleeps in between is not woken.
  `WokenUnlessEarly` excludes that case, which no caller in the server produces: all
  of them set the receiver before the sender runs. Pending bytes are not flushed when
  the queue is detached by the segment's callback.
- `freelist.c:294-300` calls a buffer of the freelist that is pinned or used "probably
  impossible"; it is reachable (a buffer freed twice is entered once but may be taken
  by the clock sweep). The code handles it.
- `bufmgr.c:2436-2440`: the waiter for a pin may be gone by the time it is signalled if
  its wait was cancelled; the signal is then spurious and harmless.

## Not modelled

The parts marked `not_modelled` in `PROJECT.json`, each with its reason: pure
translation of trees, file or network I/O, floating point, sequential bookkeeping
private to one process, or not done. The repository has a million and a half lines, most
of them of those kinds; the modules cover the protocols named above and no more than
that, a small share of the lines.

Within the modelled parts: partial paths and path generation; backward btree scans;
`shm_mq_wait_for_attach`, gathering from several buffers; timeouts and the result of
`ConditionVariableCancelSleep`; and, of the buffer manager, local buffers, relation
extension, the zeroing read modes, access strategies, hint bits that are logged
(checksums or `wal_log_hints`), the background writer, the queue of fsync requests,
statistics such as `completePasses`, the warning after repeated write errors,
`ConditionalLockBufferForCleanup`, `FindAndDropRelationBuffers` and unlogged relations. The
variable of a lightweight lock is checked with exclusive acquisition, which is how the
log uses it.
