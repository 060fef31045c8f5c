------------------------------- MODULE BufMgr -------------------------------
(***************************************************************************)
(* The shared buffer pool: bufmgr.c, freelist.c and the mapping table of   *)
(* buf_table.c, driven by backends that read, lock, change, hint, clean up *)
(* and drop pages and by a checkpointer.                                   *)
(*                                                                         *)
(* A step is what the code does inside one critical section of the buffer  *)
(* header spinlock (LockBufHdr .. UnlockBufHdr), one compare-and-swap of   *)
(* the state word, or one acquisition or release of a lightweight lock.    *)
(* The fields of the state word are functions of the buffer.  A backend    *)
(* counts once in the shared reference count however often it pinned the   *)
(* buffer, so pins[b] is the set of the backends counted.                  *)
(***************************************************************************)
EXTENDS Integers, Sequences, FiniteSets

CONSTANTS
    NBuffers,            \* size of the pool
    Pages,               \* the buffer tags, naturals; callers lock pages in this order
    Partition,           \* [Pages -> partition of the mapping table]
    Backends,            \* the processes that use pages
    Checkpointer,        \* the process that runs BufferSync
    BM_MAX_USAGE_COUNT,
    Workloads,           \* what the backends of an instance do: see below
    NoProc, NoPage, NoBuffer, Garbage

Buffers == 0 .. NBuffers - 1
Procs == Backends \cup {Checkpointer}
Partitions == {Partition[t] : t \in Pages}

(***************************************************************************)
(* A workload names the backends that change pages, that keep one locked   *)
(* while they read another (as a page split does), that set hints, take    *)
(* cleanup locks and drop relations, and the processes that meet I/O       *)
(* errors; the pages in the pool at the start, those of them with a logged *)
(* change or with a hint not yet written, and the pages that may be        *)
(* dropped; and it bounds the calls of ReadBuffer and the logged changes.  *)
(***************************************************************************)
ASSUME BufMgrAssumption ==
    /\ NBuffers \in Nat \ {0} /\ BM_MAX_USAGE_COUNT \in Nat \ {0}
    /\ Pages \subseteq Nat
    /\ Checkpointer \notin Backends
    /\ NoProc \notin Procs /\ NoPage \notin Pages /\ NoBuffer \notin Buffers
    /\ \A w \in Workloads :
          /\ w.cached \in Seq(Pages) /\ Len(w.cached) <= NBuffers
          /\ \A i, j \in 1 .. Len(w.cached) : w.cached[i] = w.cached[j] => i = j
          /\ w.changed \in Seq(Pages) /\ w.hinted \subseteq Pages
          /\ \A i \in 1 .. Len(w.changed) : \E j \in 1 .. Len(w.cached) : w.changed[i] = w.cached[j]

VARIABLES
    (* the buffer headers *)
    tag,                 \* tag[b]; NoPage without BM_TAG_VALID
    pins,                \* the backends counted in the reference count
    usage,               \* usage count
    valid, dirty, just_dirtied, io_in_progress, checkpoint_needed,
    pin_waiter,          \* wait_backend_pgprocno under BM_PIN_COUNT_WAITER, else NoProc
    content,             \* the page image in the buffer
    (* content locks, mapping table and its locks, replacement strategy *)
    share, excl,         \* holders of the content lock of each buffer
    table,               \* table[t] : the buffer entered for page t
    part,                \* exclusive holder of each partition lock
    freelist,            \* the list that starts at firstFreeBuffer
    hand,                \* nextVictimBuffer
    (* storage and write-ahead log *)
    disk,                \* disk[t] : the page image in the file
    log,                 \* log[n] : the page that the record with LSN n changes
    flushed,             \* the log is on disk up to this LSN
    redo,                \* redo pointer of the last completed checkpoint
    newredo,             \* checkPoint.redo of the one being taken
    dropped,             \* pages of relations being dropped, or dropped
    unlinked,            \* pages whose file is gone
    (* local variables of the processes *)
    pc, ret, want, cur, outer, old, try, scan, todo, target,
    signaled,            \* the process latch
    reads,               \* calls of ReadBuffer so far
    load                 \* the workload of this behaviour

hdr == <<tag, pins, usage, valid, dirty, just_dirtied, io_in_progress,
         checkpoint_needed, pin_waiter>>
flags == <<valid, dirty, just_dirtied, io_in_progress, checkpoint_needed>>
locks == <<share, excl>>
map == <<table, part>>
strategy == <<freelist, hand>>
wal == <<log, flushed, redo, newredo>>
rels == <<dropped, unlinked>>
ckpt == <<scan, todo>>
lat == <<target, signaled>>
loc == <<want, cur, outer, old, try, reads, load>>

vars == <<hdr, content, locks, map, strategy, disk, wal, rels, ckpt, lat, loc, pc, ret>>

\* The last record up to LSN n that changes page t.
LastChange(t, n) ==
    LET S == {0} \cup {i \in 1 .. n : log[i] = t} IN CHOOSE i \in S : \A j \in S : j <= i

\* A pool that holds the cached pages of the workload and was left alone since
\* some of them got a change or a hint that the file does not have.
Init ==
    /\ load \in Workloads
    /\ tag = [b \in Buffers |-> IF b < Len(load.cached) THEN load.cached[b + 1] ELSE NoPage]
    /\ table = [t \in Pages |-> IF \E b \in Buffers : tag[b] = t
                                THEN CHOOSE b \in Buffers : tag[b] = t ELSE NoBuffer]
    /\ pins = [b \in Buffers |-> {}]
    /\ usage = [b \in Buffers |-> IF b < Len(load.cached) THEN 1 ELSE 0]
    /\ valid = [b \in Buffers |-> b < Len(load.cached)]
    /\ log = load.changed /\ flushed = 0 /\ redo = 0 /\ newredo = 0
    /\ dirty = [b \in Buffers |-> tag[b] \in load.hinted \cup {log[i] : i \in 1 .. Len(log)}]
    /\ just_dirtied = dirty
    /\ io_in_progress = [b \in Buffers |-> FALSE]
    /\ checkpoint_needed = [b \in Buffers |-> FALSE]
    /\ pin_waiter = [b \in Buffers |-> NoProc]
    /\ content = [b \in Buffers |->
                     IF valid[b] THEN [lsn |-> LastChange(tag[b], Len(log)), hint |-> tag[b] \in load.hinted]
                     ELSE Garbage]
    /\ share = [b \in Buffers |-> {}]
    /\ excl = [b \in Buffers |-> NoProc]
    /\ part = [x \in Partitions |-> NoProc]
    /\ freelist = [i \in 1 .. NBuffers - Len(load.cached) |-> Len(load.cached) + i - 1]
    /\ hand = 0
    /\ disk = [t \in Pages |-> [lsn |-> 0, hint |-> FALSE]]
    /\ dropped = {} /\ unlinked = {}
    /\ pc = [p \in Procs |-> "idle"]
    /\ ret = [p \in Procs |-> "idle"]
    /\ want = [p \in Procs |-> NoPage]
    /\ cur = [p \in Procs |-> NoBuffer]
    /\ outer = [p \in Procs |-> NoBuffer]
    /\ old = [p \in Procs |-> NoPage]
    /\ try = [p \in Procs |-> 0]
    /\ scan = [p \in Procs |-> 0]
    /\ todo = {}
    /\ reads = 0
    /\ target = [p \in Procs |-> NoProc]
    /\ signaled = [p \in Procs |-> FALSE]

Go(p, s) == pc' = [pc EXCEPT ![p] = s]

\* The exclusive holder of the partition lock of page t is nobody.
PartitionFree(t) == part[Partition[t]] = NoProc

\* Lock part of page t exclusively for p, and release it.
LockPartition(p, t) == part' = [part EXCEPT ![Partition[t]] = p]
UnlockPartition(t) == part' = [part EXCEPT ![Partition[t]] = NoProc]

---------------------------------------------------------------------------
(* Pinning and unpinning *)

UsageAfterPin(n) == IF n < BM_MAX_USAGE_COUNT THEN n + 1 ELSE n

\* PinBuffer by p, with no access strategy.  It returns BM_VALID.
PinBuffer(p, b) ==
    /\ pins' = [pins EXCEPT ![b] = @ \cup {p}]
    /\ usage' = [usage EXCEPT ![b] = UsageAfterPin(@)]

\* After the pin: the caller has the page, or has to read it in.
AfterPin(p, b) == Go(p, IF valid[b] THEN "pinned" ELSE "startin")

\* Where p goes after an unpin: the caller may have no buffer left, or the one
\* it kept, or go on with the loop it is in.
Return(p) ==
    LET done == ret[p] = "idle"
        resume == ret[p] = "exclusive" IN
    /\ Go(p, ret[p])
    /\ ret' = [ret EXCEPT ![p] = IF done \/ resume THEN "idle" ELSE @]
    /\ want' = [want EXCEPT ![p] = IF done THEN NoPage ELSE IF resume THEN tag[outer[p]] ELSE @]
    /\ cur' = [cur EXCEPT ![p] = IF done THEN NoBuffer ELSE IF resume THEN outer[p] ELSE @]
    /\ outer' = [outer EXCEPT ![p] = IF resume THEN NoBuffer ELSE @]

\* UnpinBuffer, first part: one compare-and-swap, which also tells whether
\* somebody waits for the pin count to become 1.
UnpinBuffer(p) ==
    LET b == cur[p] IN
    /\ pc[p] = "unpin"
    /\ pins' = [pins EXCEPT ![b] = @ \ {p}]
    /\ \/ pin_waiter[b] = NoProc /\ Return(p)
       \/ pin_waiter[b] # NoProc /\ Go(p, "wakewaiter") /\ UNCHANGED <<ret, want, cur, outer>>
    /\ UNCHANGED <<tag, usage, flags, pin_waiter, content, locks, map, strategy, disk,
                   wal, rels, ckpt, lat, old, try, reads, load>>

PinsIgnored(b) == TRUE
OnlyPin(b) == \E p \in Procs : pins[b] = {p}

\* UnpinBuffer, second part: under the header lock, look again.
WakeWaiter(p) ==
    LET b == cur[p] IN
    /\ pc[p] = "wakewaiter"
    /\ \/ /\ pin_waiter[b] # NoProc /\ OnlyPin(b)
          /\ target' = [target EXCEPT ![p] = pin_waiter[b]]
          /\ pin_waiter' = [pin_waiter EXCEPT ![b] = NoProc]
          /\ Go(p, "signal")
          /\ UNCHANGED <<ret, want, cur, outer>>
       \/ /\ ~ (pin_waiter[b] # NoProc /\ OnlyPin(b))
          /\ Return(p)
          /\ UNCHANGED <<target, pin_waiter>>
    /\ UNCHANGED <<tag, pins, usage, flags, content, locks, map, strategy, disk, wal,
                   rels, ckpt, signaled, old, try, reads, load>>

\* UnpinBuffer, last part: ProcSendSignal.
SendSignal(p) ==
    /\ pc[p] = "signal"
    /\ signaled' = [signaled EXCEPT ![target[p]] = TRUE]
    /\ target' = [target EXCEPT ![p] = NoProc]
    /\ Return(p)
    /\ UNCHANGED <<hdr, content, locks, map, strategy, disk, wal, rels, ckpt, old, try, reads, load>>

\* Leave with an unpin of the current buffer, then go on at s.
UnpinThen(p, s) == Go(p, "unpin") /\ ret' = [ret EXCEPT ![p] = s]

---------------------------------------------------------------------------
(* ReadBuffer_common and BufferAlloc *)

\* A caller may ask for page t with no buffer in hand, or with one that it keeps
\* locked exclusively, as a page split does.  Callers lock in page order.
MayRead(p, t) ==
    /\ t \notin dropped
    /\ \/ pc[p] = "idle"
       \/ p \in load.splitters /\ pc[p] = "exclusive" /\ outer[p] = NoBuffer /\ t > want[p]

\* BufferAlloc up to the lookup: the pin is taken before the partition lock is
\* released.
BufferAlloc(p, t) ==
    LET b == table[t] IN
    /\ MayRead(p, t) /\ PartitionFree(t)
    /\ reads < load.reads /\ reads' = reads + 1
    /\ want' = [want EXCEPT ![p] = t]
    /\ outer' = [outer EXCEPT ![p] = cur[p]]
    /\ cur' = [cur EXCEPT ![p] = b]
    /\ \/ /\ b # NoBuffer
          /\ PinBuffer(p, b)
          /\ AfterPin(p, b)
       \/ /\ b = NoBuffer
          /\ Go(p, "getvictim")
          /\ UNCHANGED <<pins, usage>>
    /\ UNCHANGED <<tag, flags, pin_waiter, content, locks, map, strategy, disk, wal, rels,
                   ckpt, lat, old, try, load, ret>>

---------------------------------------------------------------------------
(* StrategyGetBuffer: the freelist, then the clock sweep *)

\* Take the first buffer off the freelist, under buffer_strategy_lock.  An empty
\* list, seen before or under the lock, starts the sweep.
StrategyGetBuffer(p) ==
    /\ pc[p] = "getvictim"
    /\ \/ /\ freelist # <<>>
          /\ cur' = [cur EXCEPT ![p] = Head(freelist)]
          /\ freelist' = Tail(freelist)
          /\ Go(p, "popped")
          /\ UNCHANGED try
       \/ /\ freelist = <<>>
          /\ try' = [try EXCEPT ![p] = NBuffers]
          /\ Go(p, "sweep")
          /\ UNCHANGED <<cur, freelist>>
    /\ UNCHANGED <<hdr, content, locks, map, hand, disk, wal, rels, ckpt, lat, want,
                   outer, old, reads, load, ret>>

\* PinBuffer_Locked on the buffer that StrategyGetBuffer returned with its
\* header locked; the state word read there decides what GetVictimBuffer does next.
ClaimVictim(p, b) ==
    /\ pins' = [pins EXCEPT ![b] = @ \cup {p}]
    /\ Go(p, IF dirty[b] THEN "vlock" ELSE IF tag[b] # NoPage THEN "inval" ELSE "insert")

TryFreeBuffer(p) ==
    LET b == cur[p] IN
    /\ pc[p] = "popped"
    /\ \/ pins[b] = {} /\ usage[b] = 0 /\ ClaimVictim(p, b)
       \/ ~ (pins[b] = {} /\ usage[b] = 0) /\ Go(p, "getvictim") /\ UNCHANGED pins
    /\ UNCHANGED <<tag, usage, flags, pin_waiter, content, locks, map, strategy, disk,
                   wal, rels, ckpt, lat, loc, ret>>

ClockSweepTick(p) ==
    /\ pc[p] = "sweep"
    /\ cur' = [cur EXCEPT ![p] = hand]
    /\ hand' = (hand + 1) % NBuffers
    /\ Go(p, "swept")
    /\ UNCHANGED <<hdr, content, locks, map, freelist, disk, wal, rels, ckpt, lat, want,
                   outer, old, try, reads, load, ret>>

\* An error: AbortTransaction starts with LWLockReleaseAll.
LWLockReleaseAll(p) ==
    /\ share' = [b \in Buffers |-> share[b] \ {p}]
    /\ excl' = [b \in Buffers |-> IF excl[b] = p THEN NoProc ELSE excl[b]]

\* The buffer under the hand: claim it, age it, pass it, or give up.
TrySweptBuffer(p) ==
    LET b == cur[p] IN
    /\ pc[p] = "swept"
    /\ \/ /\ pins[b] = {} /\ usage[b] = 0
          /\ ClaimVictim(p, b)
          /\ UNCHANGED <<usage, try, locks>>
       \/ /\ pins[b] = {} /\ usage[b] > 0
          /\ usage' = [usage EXCEPT ![b] = @ - 1]
          /\ try' = [try EXCEPT ![p] = NBuffers]
          /\ Go(p, "sweep")
          /\ UNCHANGED <<pins, locks>>
       \/ /\ pins[b] # {} /\ try[p] > 1
          /\ try' = [try EXCEPT ![p] = @ - 1]
          /\ Go(p, "sweep")
          /\ UNCHANGED <<pins, usage, locks>>
       \/ /\ pins[b] # {} /\ try[p] <= 1
          /\ LWLockReleaseAll(p)
          /\ Go(p, "abort")
          /\ UNCHANGED <<pins, usage, try>>
    /\ UNCHANGED <<tag, flags, pin_waiter, content, map, strategy, disk, wal, rels, ckpt,
                   lat, want, cur, outer, old, reads, load, ret>>

\* StrategyFreeBuffer: a buffer already in the list stays where it is.
StrategyFreeBuffer(b) ==
    freelist' = IF \E i \in DOMAIN freelist : freelist[i] = b THEN freelist
                ELSE <<b>> \o freelist

---------------------------------------------------------------------------
(* GetVictimBuffer and the rest of BufferAlloc *)

\* Somebody else holds the lock: wait for it, or look for another victim.
VictimWaits(p) == Go(p, "flushlock") /\ UNCHANGED ret
VictimLocked(p) == UnpinThen(p, "getvictim")

\* A dirty victim is written only if its content lock can be had at once.
LockVictim(p) ==
    LET b == cur[p] IN
    /\ pc[p] = "vlock"
    /\ \/ /\ excl[b] = NoProc
          /\ share' = [share EXCEPT ![b] = @ \cup {p}]
          /\ Go(p, "startout") /\ UNCHANGED ret
       \/ /\ excl[b] # NoProc
          /\ VictimLocked(p) /\ UNCHANGED share
    /\ UNCHANGED <<hdr, content, excl, map, strategy, disk, wal, rels, ckpt, lat, loc>>

\* Clear the tag, every flag and the usage count of b.
ClearBuffer(b) ==
    /\ tag' = [tag EXCEPT ![b] = NoPage]
    /\ usage' = [usage EXCEPT ![b] = 0]
    /\ valid' = [valid EXCEPT ![b] = FALSE]
    /\ dirty' = [dirty EXCEPT ![b] = FALSE]
    /\ just_dirtied' = [just_dirtied EXCEPT ![b] = FALSE]
    /\ io_in_progress' = [io_in_progress EXCEPT ![b] = FALSE]
    /\ checkpoint_needed' = [checkpoint_needed EXCEPT ![b] = FALSE]
    /\ pin_waiter' = [pin_waiter EXCEPT ![b] = NoProc]
    /\ content' = [content EXCEPT ![b] = Garbage]

VictimIsClean(p, b) == ~ dirty[b]
StillVictim(p, b) == pins[b] = {p} /\ ~ dirty[b]

\* InvalidateVictimBuffer, under the partition lock and the header lock.
InvalidateVictimBuffer(p) ==
    LET b == cur[p] IN
    /\ pc[p] = "inval" /\ PartitionFree(tag[b])
    /\ \/ /\ StillVictim(p, b)
          /\ LockPartition(p, tag[b])
          /\ old' = [old EXCEPT ![p] = tag[b]]
          /\ ClearBuffer(b)
          /\ Go(p, "delete") /\ UNCHANGED ret
       \/ /\ ~ StillVictim(p, b)
          /\ UnpinThen(p, "getvictim")
          /\ UNCHANGED <<tag, usage, flags, pin_waiter, content, part, old>>
    /\ UNCHANGED <<pins, locks, table, strategy, disk, wal, rels, ckpt, lat, want, cur,
                   outer, try, reads, load>>

\* The header is unlocked again; now the mapping entry goes.
DeleteVictimMapping(p) ==
    /\ pc[p] = "delete"
    /\ table' = [table EXCEPT ![old[p]] = NoBuffer]
    /\ UnlockPartition(old[p])
    /\ old' = [old EXCEPT ![p] = NoPage]
    /\ Go(p, "insert")
    /\ UNCHANGED <<hdr, content, locks, strategy, disk, wal, rels, ckpt, lat, want, cur,
                   outer, try, reads, load, ret>>

NobodyFaster(t) == FALSE
Collision(t) == table[t] # NoBuffer

\* BufTableInsert: enter the victim under the new tag, or find that somebody
\* else was faster and give the victim up, keeping the partition lock.
BufTableInsert(p) ==
    LET b == cur[p] IN
    /\ pc[p] = "insert" /\ PartitionFree(want[p])
    /\ \/ /\ ~ Collision(want[p])
          /\ table' = [table EXCEPT ![want[p]] = b]
          /\ tag' = [tag EXCEPT ![b] = want[p]]
          /\ usage' = [usage EXCEPT ![b] = 1]
          /\ Go(p, "startin") /\ UNCHANGED <<part, ret>>
       \/ /\ Collision(want[p])
          /\ LockPartition(p, want[p])
          /\ UnpinThen(p, "collide")
          /\ UNCHANGED <<table, tag, usage>>
    /\ UNCHANGED <<pins, flags, pin_waiter, content, locks, strategy, disk, wal, rels, ckpt,
                   lat, loc>>

\* The collision: the unpinned victim goes to the freelist.
FreeVictim(p) ==
    /\ pc[p] = "collide"
    /\ StrategyFreeBuffer(cur[p])
    /\ Go(p, "pinexisting")
    /\ UNCHANGED <<hdr, content, locks, map, hand, disk, wal, rels, ckpt, lat, loc, ret>>

\* The collision: pin the buffer that somebody else entered.
PinExisting(p) ==
    LET b == table[want[p]] IN
    /\ pc[p] = "pinexisting"
    /\ cur' = [cur EXCEPT ![p] = b]
    /\ PinBuffer(p, b)
    /\ UnlockPartition(want[p])
    /\ AfterPin(p, b)
    /\ UNCHANGED <<tag, flags, pin_waiter, content, locks, table, strategy, disk, wal, rels,
                   ckpt, lat, want, outer, old, try, reads, load, ret>>

---------------------------------------------------------------------------
(* Buffer I/O: StartBufferIO, the transfer, TerminateBufferIO, AbortBufferIO. *)
(* WaitIO is the guard IoFree.                                                *)

NoWaitIO(b) == TRUE
IoFree(b) == ~ io_in_progress[b]

StartInput(p) ==
    LET b == cur[p] IN
    /\ pc[p] = "startin" /\ IoFree(b)
    /\ \/ valid[b] /\ Go(p, "pinned") /\ UNCHANGED io_in_progress
       \/ /\ ~ valid[b]
          /\ io_in_progress' = [io_in_progress EXCEPT ![b] = TRUE]
          /\ Go(p, "read")
    /\ UNCHANGED <<tag, pins, usage, valid, dirty, just_dirtied, checkpoint_needed,
                   pin_waiter, content, locks, map, strategy, disk, wal, rels, ckpt, lat,
                   loc, ret>>

\* smgrread and TerminateBufferIO: nobody looks at the buffer before BM_VALID is
\* set, so the page image and the flag arrive together.
ReadPage(p) ==
    LET b == cur[p] IN
    /\ pc[p] = "read"
    /\ content' = [content EXCEPT ![b] = disk[tag[b]]]
    /\ io_in_progress' = [io_in_progress EXCEPT ![b] = FALSE]
    /\ valid' = [valid EXCEPT ![b] = TRUE]
    /\ Go(p, "pinned")
    /\ UNCHANGED <<tag, pins, usage, dirty, just_dirtied, checkpoint_needed, pin_waiter,
                   locks, map, strategy, disk, wal, rels, ckpt, lat, loc, ret>>

\* Back in the caller of FlushBuffer, which gives the content lock back:
\* GetVictimBuffer or SyncOneBuffer.
AfterFlush(p) ==
    /\ share' = [share EXCEPT ![cur[p]] = @ \ {p}]
    /\ \/ p = Checkpointer /\ UnpinThen(p, "sync")
       \/ p # Checkpointer /\ Go(p, "inval") /\ UNCHANGED ret

\* The share lock that SyncOneBuffer waits for.
LockForFlush(p) ==
    /\ pc[p] = "flushlock" /\ excl[cur[p]] = NoProc
    /\ share' = [share EXCEPT ![cur[p]] = @ \cup {p}]
    /\ Go(p, "startout")
    /\ UNCHANGED <<hdr, content, excl, map, strategy, disk, wal, rels, ckpt, lat, loc, ret>>

\* FlushBuffer starts; nothing to do if somebody else wrote the page.
StartOutput(p) ==
    LET b == cur[p] IN
    /\ pc[p] = "startout" /\ IoFree(b)
    /\ \/ ~ dirty[b] /\ AfterFlush(p) /\ UNCHANGED io_in_progress
       \/ /\ dirty[b]
          /\ io_in_progress' = [io_in_progress EXCEPT ![b] = TRUE]
          /\ Go(p, "xlogflush") /\ UNCHANGED <<share, ret>>
    /\ UNCHANGED <<tag, pins, usage, valid, dirty, just_dirtied, checkpoint_needed,
                   pin_waiter, content, excl, map, strategy, disk, wal, rels, ckpt, lat, loc>>

FlushNothing(lsn) == flushed
FlushTo(lsn) == IF lsn > flushed THEN lsn ELSE flushed

\* FlushBuffer: under the header lock, read the page's LSN and forget
\* BM_JUST_DIRTIED; then XLogFlush up to that LSN.
XLogFlush(p) ==
    LET b == cur[p] IN
    /\ pc[p] = "xlogflush"
    /\ flushed' = FlushTo(content[b].lsn)
    /\ just_dirtied' = [just_dirtied EXCEPT ![b] = FALSE]
    /\ Go(p, "write")
    /\ UNCHANGED <<tag, pins, usage, valid, dirty, io_in_progress, checkpoint_needed,
                   pin_waiter, content, locks, map, strategy, disk, log, redo, newredo, rels,
                   ckpt, lat, loc, ret>>

\* smgrwrite.
WritePage(p) ==
    /\ pc[p] = "write"
    /\ disk' = [disk EXCEPT ![tag[cur[p]]] = content[cur[p]]]
    /\ Go(p, "endwrite")
    /\ UNCHANGED <<hdr, content, locks, map, strategy, wal, rels, ckpt, lat, loc, ret>>

CleanForgetful(b) == FALSE
DirtiedAgain(b) == just_dirtied[b]

\* TerminateBufferIO after a write: clean, unless dirtied again meanwhile.
EndWrite(p) ==
    LET b == cur[p] IN
    /\ pc[p] = "endwrite"
    /\ io_in_progress' = [io_in_progress EXCEPT ![b] = FALSE]
    /\ dirty' = [dirty EXCEPT ![b] = @ /\ DirtiedAgain(b)]
    /\ checkpoint_needed' = [checkpoint_needed EXCEPT ![b] = @ /\ DirtiedAgain(b)]
    /\ AfterFlush(p)
    /\ UNCHANGED <<tag, pins, usage, valid, just_dirtied, pin_waiter, content, excl, map,
                   strategy, disk, wal, rels, ckpt, lat, loc>>

\* smgrread or smgrwrite raises an error.
TransferFails(p) ==
    /\ p \in load.faulty /\ pc[p] \in {"read", "write"}
    /\ LWLockReleaseAll(p)
    /\ Go(p, "abortio")
    /\ UNCHANGED <<hdr, content, map, strategy, disk, wal, rels, ckpt, lat, loc, ret>>

\* AbortBufferIO: the I/O is over, the page is as valid and as dirty as before.
AbortBufferIO(p) ==
    /\ pc[p] = "abortio"
    /\ io_in_progress' = [io_in_progress EXCEPT ![cur[p]] = FALSE]
    /\ Go(p, "abort")
    /\ UNCHANGED <<tag, pins, usage, valid, dirty, just_dirtied, checkpoint_needed,
                   pin_waiter, content, locks, map, strategy, disk, wal, rels, ckpt, lat,
                   loc, ret>>

\* The resource owner gives back the pins, one by one; then the process is idle.
ReleasePins(p) ==
    /\ pc[p] = "abort"
    /\ \/ /\ \E b \in Buffers : p \in pins[b] /\ cur' = [cur EXCEPT ![p] = b]
          /\ UnpinThen(p, "abort")
          /\ UNCHANGED <<want, outer, todo>>
       \/ /\ \A b \in Buffers : p \notin pins[b]
          /\ Go(p, "idle") /\ ret' = [ret EXCEPT ![p] = "idle"]
          /\ cur' = [cur EXCEPT ![p] = NoBuffer]
          /\ want' = [want EXCEPT ![p] = NoPage]
          /\ outer' = [outer EXCEPT ![p] = NoBuffer]
          /\ todo' = IF p = Checkpointer THEN {} ELSE todo
    /\ UNCHANGED <<hdr, content, locks, map, strategy, disk, wal, rels, scan, lat, old, try, reads, load>>

---------------------------------------------------------------------------
(* What callers do with a pinned page.  "pinned": not looked at yet;         *)
(* "using": looked at, and pointers into the page may be held.               *)

\* LockBuffer in share mode: granted at once, or after a wait.
LockShare(p) ==
    LET b == cur[p] IN
    /\ pc[p] \in {"pinned", "using", "lockshare"}
    /\ \/ /\ excl[b] = NoProc
          /\ share' = [share EXCEPT ![b] = @ \cup {p}]
          /\ Go(p, "shared")
       \/ excl[b] # NoProc /\ pc[p] # "lockshare" /\ Go(p, "lockshare") /\ UNCHANGED share
    /\ UNCHANGED <<hdr, content, excl, map, strategy, disk, wal, rels, ckpt, lat, loc, ret>>

\* LockBuffer in exclusive mode.
LockExclusive(p) ==
    LET b == cur[p] IN
    /\ p \in load.changers /\ pc[p] \in {"pinned", "using", "lockexcl"}
    /\ \/ /\ excl[b] = NoProc /\ share[b] = {}
          /\ excl' = [excl EXCEPT ![b] = p]
          /\ Go(p, "exclusive")
       \/ /\ ~ (excl[b] = NoProc /\ share[b] = {}) /\ pc[p] # "lockexcl"
          /\ Go(p, "lockexcl") /\ UNCHANGED excl
    /\ UNCHANGED <<hdr, content, share, map, strategy, disk, wal, rels, ckpt, lat, loc, ret>>

UnlockBuffer(p) ==
    /\ pc[p] \in {"shared", "exclusive", "clean"}
    /\ share' = [share EXCEPT ![cur[p]] = @ \ {p}]
    /\ excl' = [excl EXCEPT ![cur[p]] = NoProc]
    /\ Go(p, "using")
    /\ UNCHANGED <<hdr, content, map, strategy, disk, wal, rels, ckpt, lat, loc, ret>>

\* ReleaseBuffer of the only page, or of the inner one of two.
ReleaseBuffer(p) ==
    /\ pc[p] \in {"pinned", "using"}
    /\ UnpinThen(p, IF outer[p] = NoBuffer THEN "idle" ELSE "exclusive")
    /\ UNCHANGED <<hdr, content, locks, map, strategy, disk, wal, rels, ckpt, lat, loc>>

\* A change begins: MarkBufferDirty comes before the log record.
MarkBufferDirty(p) ==
    LET b == cur[p] IN
    /\ pc[p] \in {"exclusive", "clean"}
    /\ Len(log) + Cardinality({q \in Procs : pc[q] = "dirtied"}) < load.lsns
    /\ dirty' = [dirty EXCEPT ![b] = TRUE]
    /\ just_dirtied' = [just_dirtied EXCEPT ![b] = TRUE]
    /\ ret' = [ret EXCEPT ![p] = pc[p]]
    /\ Go(p, "dirtied")
    /\ UNCHANGED <<tag, pins, usage, valid, io_in_progress, checkpoint_needed, pin_waiter,
                   content, locks, map, strategy, disk, wal, rels, ckpt, lat, loc>>

\* XLogInsert and PageSetLSN, in the same critical section of the caller.
LogChange(p) ==
    LET n == Len(log) + 1 IN
    /\ pc[p] = "dirtied"
    /\ log' = Append(log, want[p])
    /\ content' = [content EXCEPT ![cur[p]] = [lsn |-> n, hint |-> FALSE]]
    /\ Go(p, ret[p])
    /\ ret' = [ret EXCEPT ![p] = "idle"]
    /\ UNCHANGED <<hdr, locks, map, strategy, disk, flushed, redo, newredo, rels, ckpt, lat, loc>>

\* A hint is set under the share lock, before MarkBufferDirtyHint is called.
SetHint(p) ==
    LET b == cur[p] IN
    /\ p \in load.hinters /\ pc[p] = "shared" /\ ~ content[b].hint
    /\ content' = [content EXCEPT ![b] = [lsn |-> content[b].lsn, hint |-> TRUE]]
    /\ Go(p, "hint")
    /\ UNCHANGED <<hdr, locks, map, strategy, disk, wal, rels, ckpt, lat, loc, ret>>

\* MarkBufferDirtyHint: the unlocked look at the flags.
MarkBufferDirtyHint(p) ==
    LET b == cur[p] IN
    /\ pc[p] = "hint"
    /\ Go(p, IF dirty[b] /\ just_dirtied[b] THEN "shared" ELSE "hintdirty")
    /\ UNCHANGED <<hdr, content, locks, map, strategy, disk, wal, rels, ckpt, lat, loc, ret>>

\* MarkBufferDirtyHint, under the header lock.
SetHintDirty(p) ==
    LET b == cur[p] IN
    /\ pc[p] = "hintdirty"
    /\ dirty' = [dirty EXCEPT ![b] = TRUE]
    /\ just_dirtied' = [just_dirtied EXCEPT ![b] = TRUE]
    /\ Go(p, "shared")
    /\ UNCHANGED <<tag, pins, usage, valid, io_in_progress, checkpoint_needed, pin_waiter,
                   content, locks, map, strategy, disk, wal, rels, ckpt, lat, loc, ret>>

---------------------------------------------------------------------------
(* LockBufferForCleanup *)

\* The exclusive lock that each turn of the loop starts with.
LockBufferForCleanup(p) ==
    LET b == cur[p] IN
    /\ p \in load.vacuumers /\ outer[p] = NoBuffer /\ pc[p] \in {"pinned", "using", "cleanlock"}
    /\ \/ /\ excl[b] = NoProc /\ share[b] = {}
          /\ excl' = [excl EXCEPT ![b] = p]
          /\ Go(p, "cleancheck")
       \/ /\ ~ (excl[b] = NoProc /\ share[b] = {}) /\ pc[p] # "cleanlock"
          /\ Go(p, "cleanlock") /\ UNCHANGED excl
    /\ UNCHANGED <<hdr, content, share, map, strategy, disk, wal, rels, ckpt, lat, loc, ret>>

\* With the exclusive lock, under the header lock: alone, one waiter too many,
\* or the waiter from now on.
CheckCleanup(p) ==
    LET b == cur[p] IN
    /\ pc[p] = "cleancheck"
    /\ \/ /\ OnlyPin(b)
          /\ Go(p, "clean") /\ UNCHANGED <<pin_waiter, locks>>
       \/ /\ ~ OnlyPin(b) /\ pin_waiter[b] # NoProc
          /\ LWLockReleaseAll(p)
          /\ Go(p, "abort") /\ UNCHANGED pin_waiter
       \/ /\ ~ OnlyPin(b) /\ pin_waiter[b] = NoProc
          /\ pin_waiter' = [pin_waiter EXCEPT ![b] = p]
          /\ Go(p, "cleanunlock") /\ UNCHANGED locks
    /\ UNCHANGED <<tag, pins, usage, flags, content, map, strategy, disk, wal, rels, ckpt,
                   lat, loc, ret>>

UnlockForWait(p) ==
    /\ pc[p] = "cleanunlock"
    /\ excl' = [excl EXCEPT ![cur[p]] = NoProc]
    /\ Go(p, "asleep")
    /\ UNCHANGED <<hdr, content, share, map, strategy, disk, wal, rels, ckpt, lat, loc, ret>>

\* ProcWaitForSignal returns, for our signal or for another one.
WakeUp(p) ==
    /\ pc[p] = "asleep"
    /\ signaled' = [signaled EXCEPT ![p] = FALSE]
    /\ Go(p, "awake")
    /\ UNCHANGED <<hdr, content, locks, map, strategy, disk, wal, rels, ckpt, target, loc,
                   ret>>

ForgetAnyWaiter(p) == pin_waiter' = [pin_waiter EXCEPT ![cur[p]] = NoProc]

\* Clear the flag if it is still ours.
ForgetWaiter(p) ==
    pin_waiter' = [pin_waiter EXCEPT ![cur[p]] = IF @ = p THEN NoProc ELSE @]

\* Try again; or, on a cancel request during the wait, UnlockBuffers and abort.
AfterWait(p) ==
    /\ \/ pc[p] = "awake" /\ Go(p, "cleanlock")
       \/ pc[p] = "asleep" /\ Go(p, "abort")
    /\ ForgetWaiter(p)
    /\ UNCHANGED <<tag, pins, usage, flags, content, locks, map, strategy, disk, wal, rels,
                   ckpt, lat, loc, ret>>

---------------------------------------------------------------------------
(* DropRelationBuffers and InvalidateBuffer *)

\* The caller's lock on the relation: nobody else works with its pages.
DropRelation(p, t) ==
    /\ p \in load.droppers /\ pc[p] = "idle" /\ t \in load.droppable \ dropped
    /\ \A q \in Backends : want[q] # t /\ (outer[q] # NoBuffer => tag[outer[q]] # t)
    /\ dropped' = dropped \cup {t}
    /\ want' = [want EXCEPT ![p] = t]
    /\ scan' = [scan EXCEPT ![p] = 0]
    /\ Go(p, "drop")
    /\ UNCHANGED <<hdr, content, locks, map, strategy, disk, wal, unlinked, todo, lat, cur,
                   outer, old, try, reads, load, ret>>

\* One turn of the loop over the buffers; at its end the files are unlinked.
DropRelationBuffers(p) ==
    /\ pc[p] = "drop"
    /\ \/ /\ scan[p] = NBuffers
          /\ unlinked' = unlinked \cup {want[p]}
          /\ Go(p, "idle")
          /\ want' = [want EXCEPT ![p] = NoPage]
          /\ cur' = [cur EXCEPT ![p] = NoBuffer]
          /\ scan' = [scan EXCEPT ![p] = 0]
       \/ /\ scan[p] < NBuffers /\ tag[scan[p]] = want[p]
          /\ cur' = [cur EXCEPT ![p] = scan[p]]
          /\ Go(p, "invalidate")
          /\ scan' = [scan EXCEPT ![p] = @ + 1]
          /\ UNCHANGED <<want, unlinked>>
       \/ /\ scan[p] < NBuffers /\ tag[scan[p]] # want[p]
          /\ scan' = [scan EXCEPT ![p] = @ + 1]
          /\ UNCHANGED <<pc, want, cur, unlinked>>
    /\ UNCHANGED <<hdr, content, locks, map, strategy, disk, wal, dropped, todo, lat,
                   outer, old, try, reads, load, ret>>

\* The buffer is pinned: pass it by, or wait for its I/O and try again.
PassPinned(p) == Go(p, "drop")
RetryPinned(p) == Go(p, "waitio")

\* InvalidateBuffer, from retry on: replaced meanwhile, still pinned, or ours.
InvalidateBuffer(p) ==
    LET b == cur[p] IN
    /\ pc[p] = "invalidate" /\ PartitionFree(want[p])
    /\ \/ /\ tag[b] # want[p]
          /\ Go(p, "drop")
          /\ UNCHANGED <<tag, usage, flags, pin_waiter, content, part>>
       \/ /\ tag[b] = want[p] /\ pins[b] # {}
          /\ RetryPinned(p)
          /\ UNCHANGED <<tag, usage, flags, pin_waiter, content, part>>
       \/ /\ tag[b] = want[p] /\ pins[b] = {}
          /\ LockPartition(p, want[p])
          /\ ClearBuffer(b)
          /\ Go(p, "dropdelete")
    /\ UNCHANGED <<pins, locks, table, strategy, disk, wal, rels, ckpt, lat, loc, ret>>

WaitIO(p) ==
    /\ pc[p] = "waitio" /\ IoFree(cur[p])
    /\ Go(p, "invalidate")
    /\ UNCHANGED <<hdr, content, locks, map, strategy, disk, wal, rels, ckpt, lat, loc, ret>>

\* InvalidateBuffer: the mapping entry goes, then the buffer is free.
DeleteDropped(p) ==
    /\ pc[p] = "dropdelete"
    /\ table' = [table EXCEPT ![want[p]] = NoBuffer]
    /\ UnlockPartition(want[p])
    /\ Go(p, "dropfree")
    /\ UNCHANGED <<hdr, content, locks, strategy, disk, wal, rels, ckpt, lat, loc, ret>>

FreeDropped(p) ==
    /\ pc[p] = "dropfree"
    /\ StrategyFreeBuffer(cur[p])
    /\ Go(p, "drop")
    /\ UNCHANGED <<hdr, content, locks, map, hand, disk, wal, rels, ckpt, lat, loc, ret>>

---------------------------------------------------------------------------
(* CreateCheckPoint, as far as the pool goes: BufferSync and SyncOneBuffer. *)

\* A checkpoint begins.  One that is requested when nothing was logged since the
\* last redo pointer would change nothing, and is left out.
CreateCheckPoint ==
    LET c == Checkpointer IN
    /\ pc[c] = "idle" /\ Len(log) > redo
    /\ newredo' = Len(log)
    /\ scan' = [scan EXCEPT ![c] = 0]
    /\ todo' = {}
    /\ Go(c, "mark")
    /\ UNCHANGED <<hdr, content, locks, map, strategy, disk, log, flushed, redo, rels, lat, loc, ret>>

\* BufferSync, first loop: mark the buffers that are dirty now.
MarkForCheckpoint ==
    LET c == Checkpointer
        b == scan[c] IN
    /\ pc[c] = "mark"
    /\ checkpoint_needed' = [checkpoint_needed EXCEPT ![b] = @ \/ dirty[b]]
    /\ todo' = IF dirty[b] THEN todo \cup {b} ELSE todo
    /\ scan' = [scan EXCEPT ![c] = (b + 1) % NBuffers]
    /\ Go(c, IF b + 1 = NBuffers THEN "sync" ELSE "mark")
    /\ UNCHANGED <<tag, pins, usage, valid, dirty, just_dirtied, io_in_progress, pin_waiter,
                   content, locks, map, strategy, disk, wal, rels, lat, loc, ret>>

\* BufferSync, second loop, in whatever order the sort gave: an unlocked look
\* at BM_CHECKPOINT_NEEDED.
BufferSync ==
    LET c == Checkpointer IN
    /\ pc[c] = "sync"
    /\ \E b \in todo :
          /\ todo' = todo \ {b}
          /\ cur' = [cur EXCEPT ![c] = b]
          /\ Go(c, IF checkpoint_needed[b] THEN "syncone" ELSE "sync")
    /\ UNCHANGED <<hdr, content, locks, map, strategy, disk, wal, rels, scan, lat,
                   want, outer, old, try, reads, load, ret>>

\* SyncOneBuffer, under the header lock: clean by now, or pin it.
SyncOneBuffer ==
    LET c == Checkpointer
        b == cur[c] IN
    /\ pc[c] = "syncone"
    /\ \/ ~ (valid[b] /\ dirty[b]) /\ Go(c, "sync") /\ UNCHANGED pins
       \/ /\ valid[b] /\ dirty[b]
          /\ pins' = [pins EXCEPT ![b] = @ \cup {c}]
          /\ Go(c, "flushlock")
    /\ UNCHANGED <<tag, usage, flags, pin_waiter, content, locks, map, strategy, disk, wal,
                   newredo, rels, ckpt, lat, loc, ret>>

\* The checkpoint record is logged and flushed, then the control file written.
EndCheckPoint ==
    LET c == Checkpointer IN
    /\ pc[c] = "sync" /\ todo = {}
    /\ flushed' = Len(log)
    /\ redo' = newredo
    /\ newredo' = 0
    /\ cur' = [cur EXCEPT ![c] = NoBuffer]
    /\ ret' = [ret EXCEPT ![c] = "idle"]
    /\ Go(c, "idle")
    /\ UNCHANGED <<hdr, content, locks, map, strategy, disk, log, rels, ckpt, lat, want,
                   outer, old, try, reads, load>>

---------------------------------------------------------------------------
(* What a process does on its own *)
Shared(p) ==
    \/ UnpinBuffer(p) \/ WakeWaiter(p) \/ SendSignal(p)
    \/ LockForFlush(p) \/ StartOutput(p) \/ XLogFlush(p) \/ WritePage(p) \/ EndWrite(p)
    \/ TransferFails(p) \/ AbortBufferIO(p) \/ ReleasePins(p)

Backend(p) ==
    \/ \E t \in Pages : BufferAlloc(p, t) \/ DropRelation(p, t)
    \/ StrategyGetBuffer(p) \/ TryFreeBuffer(p) \/ ClockSweepTick(p) \/ TrySweptBuffer(p)
    \/ LockVictim(p) \/ InvalidateVictimBuffer(p) \/ DeleteVictimMapping(p)
    \/ BufTableInsert(p) \/ FreeVictim(p) \/ PinExisting(p)
    \/ StartInput(p) \/ ReadPage(p)
    \/ LockShare(p) \/ LockExclusive(p) \/ UnlockBuffer(p) \/ ReleaseBuffer(p)
    \/ MarkBufferDirty(p) \/ LogChange(p)
    \/ SetHint(p) \/ MarkBufferDirtyHint(p) \/ SetHintDirty(p)
    \/ LockBufferForCleanup(p) \/ CheckCleanup(p) \/ UnlockForWait(p) \/ WakeUp(p)
    \/ AfterWait(p)
    \/ DropRelationBuffers(p) \/ InvalidateBuffer(p) \/ WaitIO(p) \/ DeleteDropped(p)
    \/ FreeDropped(p)

Checkpoint ==
    \/ CreateCheckPoint \/ MarkForCheckpoint \/ BufferSync \/ SyncOneBuffer \/ EndCheckPoint

\* The bound on reads is used up and nobody is in the middle of anything.
Finished ==
    /\ reads = load.reads /\ \A p \in Procs : pc[p] = "idle"
    /\ UNCHANGED vars

Next ==
    \/ \E p \in Procs : Shared(p)
    \/ \E p \in Backends : Backend(p)
    \/ Checkpoint
    \/ Finished

Spec == Init /\ [][Next]_vars

---------------------------------------------------------------------------
(* Properties *)

\* Process p has the page it asked for, pinned, in buffer cur[p].
HasPage(p) ==
    pc[p] \in {"pinned", "using", "lockshare", "shared", "hint", "hintdirty", "lockexcl",
               "exclusive", "dirtied", "cleanlock", "cleancheck", "cleanunlock", "asleep",
               "awake", "clean"}

\* Process p is giving up everything it holds.
Aborting(p) == \/ pc[p] \in {"abort", "abortio"}
               \/ pc[p] \in {"unpin", "wakewaiter", "signal"} /\ ret[p] = "abort"

\* Process p performs I/O on buffer cur[p].
DoesIO(p) == pc[p] \in {"read", "xlogflush", "write", "endwrite", "abortio"}

\* Process p has cleared the tag of cur[p] and not yet deleted its table entry.
Unmaps(p, t) == \/ pc[p] = "delete" /\ old[p] = t
                \/ pc[p] = "dropdelete" /\ want[p] = t

\* No page is in two buffers, however many backends miss it at once, and the
\* mapping table and the tags agree except while InvalidateVictimBuffer or
\* InvalidateBuffer holds the partition lock between clearing the one and
\* deleting the other.
MappingSound ==
    /\ \A b \in Buffers : tag[b] # NoPage => table[tag[b]] = b
    /\ \A t \in Pages : table[t] # NoBuffer =>
          \/ tag[table[t]] = t
          \/ \E p \in Procs : Unmaps(p, t) /\ part[Partition[t]] = p

\* Whoever called ReadBuffer keeps the page, in the same buffer and valid, until
\* it releases it, whatever victims others look for and whatever is dropped.
HeldPageStays ==
    \A p \in Procs :
       /\ HasPage(p) => /\ p \in pins[cur[p]]
                        /\ tag[cur[p]] = want[p] /\ valid[cur[p]]
       /\ outer[p] # NoBuffer /\ ~ Aborting(p)
             => excl[outer[p]] = p /\ p \in pins[outer[p]] /\ valid[outer[p]]

\* BM_IO_IN_PROGRESS has exactly one owner, also after I/O errors: everybody
\* in WaitIO waits for a process that will end the I/O.
IoHasOwner ==
    \A b \in Buffers :
       io_in_progress[b] <=> \E p \in Procs : /\ DoesIO(p) /\ cur[p] = b
                                               /\ \A q \in Procs : DoesIO(q) /\ cur[q] = b => q = p

\* The contents a reader of page t gets, now or after reading it in.
Current(t) ==
    IF t \in dropped THEN [lsn |-> 0, hint |-> FALSE]
    ELSE IF \E b \in Buffers : tag[b] = t /\ valid[b]
         THEN content[CHOOSE b \in Buffers : tag[b] = t /\ valid[b]]
         ELSE disk[t]

Store == INSTANCE PageStore WITH page <- [t \in Pages |-> Current(t)], gone <- dropped

\* The pool is transparent: eviction, writes, failed I/O, checkpoints and
\* collisions never change what a page contains, and no change or hint is lost.
Transparent == Store!Spec

\* After a crash that leaves the log up to LSN n, replay from the redo pointer
\* brings every page exactly to its last change in that log: nothing older was
\* skipped by the checkpoint, nothing younger reached the file before its record.
CrashSafe ==
    \A t \in Pages \ dropped : \A n \in flushed .. Len(log) :
       LET S == {disk[t].lsn} \cup {i \in redo + 1 .. n : log[i] = t} IN
       (CHOOSE i \in S : \A j \in S : j <= i) = LastChange(t, n)

\* While p holds a cleanup lock nobody else has looked at the page under a pin
\* it still holds: no pointer into the page can dangle.
CleanupAlone ==
    \A p, q \in Procs :
       pc[p] = "clean" /\ q # p /\ HasPage(q) /\ cur[q] = cur[p]
          => pc[q] \in {"pinned", "lockshare", "lockexcl", "cleanlock"}

\* A backend that sleeps until its pin is the only one is, or will be, woken
\* when it is: its signal is on the way, or another pin is left to be released,
\* or whoever released the last one has yet to look for a waiter.
CleanupWakeup ==
    \A p \in Procs : pc[p] = "asleep" =>
       \/ signaled[p]
       \/ \E q \in Procs : pc[q] = "signal" /\ target[q] = p
       \/ /\ pin_waiter[cur[p]] = p
          /\ \/ pins[cur[p]] # {p}
             \/ \E q \in Procs : pc[q] = "wakewaiter" /\ cur[q] = cur[p]

\* Once the files of a dropped relation are unlinked no buffer holds one of its
\* pages, and so nobody can write one to a file that is gone.
DroppedStaysGone == \A b \in Buffers : tag[b] \notin unlinked

\* Process p cannot go on before q does.
WaitsFor(p, q) ==
    LET b == cur[p] IN
    /\ p # q
    /\ \/ pc[p] \in {"lockshare", "flushlock", "lockexcl", "cleanlock"} /\ excl[b] = q
       \/ pc[p] \in {"lockexcl", "cleanlock"} /\ q \in share[b]
       \/ pc[p] \in {"startin", "startout", "waitio"} /\ DoesIO(q) /\ cur[q] = b
       \/ pc[p] = "asleep" /\ pin_waiter[b] = p /\ ~ signaled[p] /\ q \in pins[b]
       \/ pc[p] = "invalidate" /\ tag[b] = want[p] /\ q \in pins[b]
       \/ pc[p] \in {"insert", "invalidate"} /\ part[Partition[want[p]]] = q
       \/ pc[p] = "inval" /\ part[Partition[tag[b]]] = q

\* No set of processes waits in a circle, though a backend may hold one page
\* locked while it evicts another: GetVictimBuffer takes no lock it must wait for.
NoDeadlock ==
    \A S \in SUBSET Procs \ {{}} : \E p \in S : \A q \in S : ~ WaitsFor(p, q)
=============================================================================
