---------------------------- MODULE BufMgrProofs ----------------------------
(***************************************************************************)
(* Proofs about BufMgr, for any number of buffers, pages, partitions and   *)
(* backends and for any workload: the mapping table and the tags agree, a  *)
(* page in use stays where it is, I/O has one owner, a drop of a relation  *)
(* leaves none of its pages behind, and a cleanup lock is held alone and   *)
(* its waiter woken.                                                       *)
(***************************************************************************)
EXTENDS BufMgr, TLAPS

\* The types that the argument needs.
HeadersTyped ==
    /\ tag \in [Buffers -> Pages \cup {NoPage}]
    /\ pins \in [Buffers -> SUBSET Procs]
    /\ valid \in [Buffers -> BOOLEAN] /\ dirty \in [Buffers -> BOOLEAN]
    /\ just_dirtied \in [Buffers -> BOOLEAN] /\ io_in_progress \in [Buffers -> BOOLEAN]

\* Content locks and the mapping table.
LocksTyped ==
    /\ table \in [Pages -> Buffers \cup {NoBuffer}]
    /\ part \in [Partitions -> Procs \cup {NoProc}]
    /\ share \in [Buffers -> SUBSET Procs] /\ excl \in [Buffers -> Procs \cup {NoProc}]

\* The freelist and the clock hand.
StrategyTyped == freelist \in Seq(Buffers) /\ hand \in Buffers

\* The local variables.
LocalsTyped ==
    /\ pc = [p \in Procs |-> pc[p]] /\ ret = [p \in Procs |-> ret[p]]
    /\ want \in [Procs -> Pages \cup {NoPage}] /\ old \in [Procs -> Pages \cup {NoPage}]
    /\ cur \in [Procs -> Buffers \cup {NoBuffer}]
    /\ outer \in [Procs -> Buffers \cup {NoBuffer}]
    /\ scan \in [Procs -> Nat] /\ todo \subseteq Buffers

Typed == HeadersTyped /\ LocksTyped /\ StrategyTyped /\ LocalsTyped

\* Sets of locations, named for what a process at them has or does.
Holding == {"pinned", "using", "lockshare", "shared", "hint", "hintdirty", "lockexcl",
            "exclusive", "dirtied", "cleanlock", "cleancheck", "cleanunlock", "asleep",
            "awake", "clean"}
Writing == {"vlock", "flushlock", "startout", "xlogflush", "write", "endwrite"}
Unpinning == {"unpin", "wakewaiter", "signal"}
Dropping == {"drop", "invalidate", "waitio", "dropdelete", "dropfree"}
AtVictim == {"inval", "delete", "insert"}
Looking == {"getvictim", "popped", "sweep", "swept"}
Reading == {"startin", "read"}

\* The locations at which cur[p] is a buffer that p has pinned, or just a buffer.
Pinning == Holding \cup Writing \cup AtVictim \cup Reading \cup {"unpin", "abortio"}
HasBuffer == Pinning \cup {"popped", "swept", "collide", "wakewaiter", "signal",
                           "invalidate", "waitio", "dropdelete", "dropfree", "syncone"}

\* BufferAlloc found the page entered by somebody else and keeps the partition.
Collided(p) == \/ pc[p] \in {"collide", "pinexisting"}
               \/ pc[p] \in Unpinning /\ ret[p] = "collide"

\* Process p is in BufferAlloc, for page want[p].
Allocating(p) == \/ pc[p] \in Looking \cup Writing \cup AtVictim \cup {"collide", "pinexisting"}
                 \/ pc[p] \in Unpinning /\ ret[p] \in {"getvictim", "collide"}

\* What holds of the buffer and of the table entry p is working on.
AtWork(p) ==
    /\ pc[p] \in HasBuffer => cur[p] \in Buffers
    /\ pc[p] \in Pinning => p \in pins[cur[p]]
    /\ pc[p] \in Writing \cup Holding => valid[cur[p]]
    /\ pc[p] = "inval" => tag[cur[p]] # NoPage
    /\ pc[p] \in {"delete", "insert"} => pins[cur[p]] = {p} /\ tag[cur[p]] = NoPage
    /\ pc[p] = "delete" =>
          /\ old[p] \in Pages /\ part[Partition[old[p]]] = p /\ table[old[p]] = cur[p]
    /\ pc[p] \in Reading \cup Holding => want[p] \in Pages /\ tag[cur[p]] = want[p]
    /\ Collided(p) =>
          want[p] \in Pages /\ part[Partition[want[p]]] = p /\ table[want[p]] # NoBuffer
    /\ p \in Backends /\ Allocating(p) => want[p] \in Pages
    /\ pc[p] \in Dropping => want[p] \in Pages /\ outer[p] = NoBuffer
    /\ pc[p] = "dropdelete" =>
          /\ part[Partition[want[p]]] = p /\ table[want[p]] = cur[p]
          /\ tag[cur[p]] # want[p]

\* What holds of the page p keeps while it works on another one.
KeepsOuter(p) ==
    /\ outer[p] # NoBuffer /\ ~ Aborting(p) =>
          /\ p \in pins[outer[p]] /\ valid[outer[p]] /\ tag[outer[p]] # want[p]
          /\ pc[p] \in Pinning => cur[p] # outer[p]
    /\ pc[p] = "idle" => cur[p] = NoBuffer /\ outer[p] = NoBuffer
    /\ pc[p] \in Unpinning =>
          /\ ret[p] \in {"idle", "exclusive", "getvictim", "collide", "abort", "sync"}
          /\ ret[p] = "idle" => outer[p] = NoBuffer
          /\ ret[p] = "exclusive" => outer[p] # NoBuffer
    /\ pc[p] = "dirtied" => ret[p] \in {"exclusive", "clean"}

\* The checkpointer marks and writes, and does nothing else.
AtCheckpoint ==
    LET c == Checkpointer IN
    /\ pc[c] \in {"idle", "mark", "sync", "syncone", "flushlock", "startout", "xlogflush",
                  "write", "endwrite", "abortio", "abort"} \cup Unpinning
    /\ pc[c] \in Unpinning => ret[c] \in {"sync", "abort"}
    /\ outer[c] = NoBuffer
    /\ pc[c] = "mark" => scan[c] \in Buffers

\* BM_VALID needs a tag and BM_DIRTY needs BM_VALID.
Headers ==
    \A b \in Buffers : /\ valid[b] => tag[b] # NoPage
                       /\ dirty[b] => valid[b]

\* The inductive invariant of the mapping table and of pinned pages.
MapInv == /\ MappingSound /\ Headers
          /\ \A p \in Procs : AtWork(p) /\ KeepsOuter(p)
          /\ AtCheckpoint
-----------------------------------------------------------------------------
(* What a step of q leaves to everybody else. *)

\* Its local variables are its own.
Local(q) ==
    \A p \in Procs \ {q} :
       /\ pc'[p] = pc[p] /\ ret'[p] = ret[p] /\ want'[p] = want[p]
       /\ cur'[p] = cur[p] /\ outer'[p] = outer[p] /\ old'[p] = old[p]
       /\ scan'[p] = scan[p]

\* It takes neither p's pinned buffers nor p's partitions away.
Spares(p) ==
    /\ \A b \in Buffers : p \in pins[b] =>
          p \in pins'[b] /\ tag'[b] = tag[b] /\ (valid[b] => valid'[b])
    /\ \A b \in Buffers : pins[b] = {p} /\ tag[b] = NoPage => pins'[b] = {p}
    /\ \A t \in Pages : part[Partition[t]] = p =>
          part'[Partition[t]] = p /\ table'[t] = table[t]
    /\ \A b \in Buffers, t \in Pages :
          part[Partition[t]] = p /\ tag'[b] = t => tag[b] = t

Frame(q) == Local(q) /\ \A p \in Procs \ {q} : Spares(p)

\* What BufMgrAssumption says of the values that stand for nothing.
LEMMA NoneIsNone ==
    /\ NoProc \notin Procs /\ NoPage \notin Pages /\ NoBuffer \notin Buffers
    /\ Pages \subseteq Nat /\ Checkpointer \notin Backends
    /\ \A t \in Pages : Partition[t] \in Partitions
  BY Zenon, BufMgrAssumption DEF BufMgrAssumption, Partitions

\* A step within its frame leaves what the others know of their buffers.
LEMMA OthersAtWork ==
    ASSUME Typed, NEW q \in Procs, NEW p \in Procs \ {q}, AtWork(p), Frame(q)
    PROVE  AtWork(p)'
<1>1. Spares(p)
  BY Zenon DEF Frame
<1>2. UNCHANGED <<pc[p], ret[p], want[p], cur[p], outer[p], old[p]>>
  BY Zenon DEF Frame, Local
<1>3. Collided(p)' <=> Collided(p)
  BY Zenon, <1>2 DEF Collided
<1>4. Allocating(p)' <=> Allocating(p)
  BY Zenon, <1>2 DEF Allocating
<1>5. /\ Pinning \subseteq HasBuffer /\ "dropdelete" \in HasBuffer \cap Dropping
      /\ Writing \cup Holding \cup Reading \cup {"inval", "delete", "insert"} \subseteq Pinning
  BY Zenon DEF Pinning, HasBuffer, AtVictim, Dropping
<1>6. /\ pc[p] \in HasBuffer => cur[p] \in Buffers
      /\ pc[p] \in Pinning => p \in pins[cur[p]]
  BY Zenon DEF AtWork
<1>7. /\ (pc[p] \in HasBuffer => cur[p] \in Buffers)'
      /\ (pc[p] \in Pinning => p \in pins[cur[p]])'
      /\ (pc[p] \in Writing \cup Holding => valid[cur[p]])'
      /\ (pc[p] = "inval" => tag[cur[p]] # NoPage)'
      /\ (pc[p] \in Reading \cup Holding => want[p] \in Pages /\ tag[cur[p]] = want[p])'
  BY ZenonT(40), <1>1, <1>2, <1>5, <1>6 DEF AtWork, Spares
<1>8. (pc[p] \in {"delete", "insert"} => pins[cur[p]] = {p} /\ tag[cur[p]] = NoPage)'
  BY SMTT(40), Z3T(40), <1>1, <1>2, <1>5, <1>6 DEF AtWork, Spares
<1>9. (pc[p] = "delete" =>
          /\ old[p] \in Pages /\ part[Partition[old[p]]] = p /\ table[old[p]] = cur[p])'
  BY SMTT(40), Z3T(40), <1>1, <1>2 DEF AtWork, Spares
<1>10. (Collided(p) =>
          want[p] \in Pages /\ part[Partition[want[p]]] = p /\ table[want[p]] # NoBuffer)'
  BY Zenon, <1>1, <1>2, <1>3 DEF AtWork, Spares
<1>11. /\ (p \in Backends /\ Allocating(p) => want[p] \in Pages)'
       /\ (pc[p] \in Dropping => want[p] \in Pages /\ outer[p] = NoBuffer)'
  BY Zenon, <1>2, <1>4 DEF AtWork
<1>12. (pc[p] = "dropdelete" =>
          /\ part[Partition[want[p]]] = p /\ table[want[p]] = cur[p]
          /\ tag[cur[p]] # want[p])'
  BY SMTT(40), Z3T(40), <1>1, <1>2, <1>5, <1>6 DEF AtWork, Spares
<1> QED
  BY Zenon, <1>7, <1>8, <1>9, <1>10, <1>11, <1>12 DEF AtWork

\* A step within its frame leaves what the others know of the pages they keep.
LEMMA OthersKeepOuter ==
    ASSUME Typed, NEW q \in Procs, NEW p \in Procs \ {q}, KeepsOuter(p), Frame(q)
    PROVE  KeepsOuter(p)'
<1>1. Spares(p)
  BY Zenon DEF Frame
<1>2. UNCHANGED <<pc[p], ret[p], want[p], cur[p], outer[p], old[p]>>
  BY Zenon DEF Frame, Local
<1>3. Aborting(p)' <=> Aborting(p)
  BY Zenon, <1>2 DEF Aborting
<1>4. outer[p] \in Buffers \cup {NoBuffer}
  BY Zenon DEF Typed, LocalsTyped
<1> QED
  BY Zenon, <1>1, <1>2, <1>3, <1>4 DEF KeepsOuter, Spares

\* After a step of q it is enough to look at q, the headers and the table.
LEMMA Assemble ==
    ASSUME Typed, MapInv, NEW q \in Procs, Frame(q), AtWork(q)', KeepsOuter(q)',
           MappingSound', Headers', q = Checkpointer => AtCheckpoint'
    PROVE  MapInv'
<1>1. \A p \in Procs : AtWork(p)' /\ KeepsOuter(p)'
  BY Zenon, OthersAtWork, OthersKeepOuter DEF MapInv
<1>2. AtCheckpoint'
  <2>1. CASE q # Checkpointer
    <3>1. Checkpointer \in Procs \ {q}
      BY Zenon, <2>1 DEF Procs
    <3>2. UNCHANGED <<pc[Checkpointer], ret[Checkpointer], outer[Checkpointer],
          scan[Checkpointer]>>
      BY Zenon, <3>1 DEF Frame, Local
    <3> QED
      BY Zenon, <3>2 DEF MapInv, AtCheckpoint
  <2> QED
    BY <2>1
<1> QED
  BY Zenon, <1>1, <1>2 DEF MapInv

\* A step of q that only takes or gives back pins of its own.
PinsOnly(q) ==
    /\ UNCHANGED <<tag, valid, table, part>>
    /\ \A b \in Buffers, p \in Procs \ {q} :
          /\ p \in pins[b] => p \in pins'[b]
          /\ pins[b] = {p} /\ tag[b] = NoPage => pins'[b] = {p}

\* Many steps only pin or unpin a buffer, for the process that takes them.
LEMMA PinStep ==
    ASSUME Typed, MapInv, NEW q \in Procs, Local(q), PinsOnly(q),
           pc[q] \notin {"delete", "dropdelete"},
           \A b \in Buffers : dirty'[b] => dirty[b] \/ valid[b],
           AtWork(q)', KeepsOuter(q)', q = Checkpointer => AtCheckpoint'
    PROVE  MapInv'
<1>1. Frame(q)
  BY Zenon DEF Frame, Spares, PinsOnly
<1>2. Headers'
  BY Zenon DEF Headers, MapInv, PinsOnly
<1>3. MappingSound'
  <2>1. \A b \in Buffers : tag'[b] # NoPage => table'[tag'[b]] = b
    BY Zenon DEF MapInv, MappingSound, PinsOnly
  <2>2. ASSUME NEW t \in Pages, table'[t] # NoBuffer, tag'[table'[t]] # t
        PROVE  \E p \in Procs : Unmaps(p, t)' /\ part'[Partition[t]] = p
    <3>1. PICK p \in Procs : Unmaps(p, t) /\ part[Partition[t]] = p
      BY Zenon, <2>2 DEF MapInv, MappingSound, PinsOnly
    <3>2. p # q
      BY Zenon, <3>1 DEF Unmaps
    <3>3. Unmaps(p, t)'
      BY Zenon, <3>1, <3>2 DEF Unmaps, Local
    <3> QED
      BY Zenon, <3>1, <3>3 DEF PinsOnly
  <2> QED
    BY Zenon, <2>1, <2>2 DEF MappingSound
<1> QED
  BY <1>1, <1>2, <1>3, Assemble

\* A step that changes neither headers, as far as the mapping goes, nor the mapping.
Quiet == UNCHANGED <<tag, pins, valid, table, part>>

\* Most steps touch neither the headers' tags and pins nor the mapping table.
LEMMA QuietStep ==
    ASSUME Typed, MapInv, NEW q \in Procs, Local(q), Quiet,
           pc[q] \notin {"delete", "dropdelete"},
           \A b \in Buffers : dirty'[b] => dirty[b] \/ valid[b],
           AtWork(q)', KeepsOuter(q)', q = Checkpointer => AtCheckpoint'
    PROVE  MapInv'
<1>1. PinsOnly(q)
  BY Zenon DEF Quiet, PinsOnly
<1> QED
  BY <1>1, PinStep

\* The clock hand and the loops over the buffers stay in range.
LEMMA NextBuffer ==
    /\ NBuffers \in Nat \ {0}
    /\ \A b \in Buffers : b \in Nat /\ (b + 1) % NBuffers \in Buffers
<1>1. NBuffers \in Nat \ {0}
  BY Zenon, BufMgrAssumption DEF BufMgrAssumption
<1>2. ASSUME NEW b \in Buffers
      PROVE  b \in Nat /\ (b + 1) % NBuffers \in Buffers
  BY SMTT(40), Z3T(40), <1>1 DEF Buffers
<1> QED
  BY <1>1, <1>2

\* StrategyFreeBuffer keeps the freelist a list of buffers.
LEMMA FreeTyped ==
    ASSUME NEW b \in Buffers, freelist \in Seq(Buffers), StrategyFreeBuffer(b)
    PROVE  freelist' \in Seq(Buffers)
<1>1. <<b>> \in Seq(Buffers)
  BY SMTT(40), Z3T(40)
<1>2. <<b>> \o freelist \in Seq(Buffers)
  BY SMTT(40), Z3T(40), <1>1
<1> QED
  BY Zenon, <1>2 DEF StrategyFreeBuffer

\* The end of UnpinBuffer leaves the local variables typed.
LEMMA ReturnTyped ==
    ASSUME Typed, NEW p \in Procs, KeepsOuter(p), pc[p] \in Unpinning, Return(p)
    PROVE  /\ pc' = [q \in Procs |-> pc'[q]] /\ ret' = [q \in Procs |-> ret'[q]]
           /\ want' \in [Procs -> Pages \cup {NoPage}]
           /\ cur' \in [Procs -> Buffers \cup {NoBuffer}]
           /\ outer' \in [Procs -> Buffers \cup {NoBuffer}]
<1>1. /\ pc' = [q \in Procs |-> pc'[q]] /\ ret' = [q \in Procs |-> ret'[q]]
      /\ cur' \in [Procs -> Buffers \cup {NoBuffer}]
      /\ outer' \in [Procs -> Buffers \cup {NoBuffer}]
  BY Zenon DEF Return, Go, Typed, LocalsTyped
<1>2. ret[p] = "exclusive" => outer[p] \in Buffers
  BY Zenon DEF KeepsOuter, Typed, LocalsTyped
<1>3. ret[p] = "exclusive" => tag[outer[p]] \in Pages \cup {NoPage}
  BY Zenon, <1>2 DEF Typed, HeadersTyped
<1>4. want' \in [Procs -> Pages \cup {NoPage}]
  BY Zenon, <1>3 DEF Return, Typed, LocalsTyped
<1> QED
  BY <1>1, <1>4

\* The types of the buffer headers, in the steps of any process.
LEMMA HeadersShared ==
    ASSUME Typed, MapInv, NEW p \in Procs, Shared(p)
    PROVE  HeadersTyped'
<1>0. p \in Procs /\ AtWork(p) /\ KeepsOuter(p)
  BY Zenon DEF MapInv, Procs
<1>1. CASE \/ UnpinBuffer(p) \/ WakeWaiter(p) \/ SendSignal(p)
  BY ZenonT(40), <1>0, <1>1 DEF UnpinBuffer, WakeWaiter, SendSignal, hdr, flags, Typed,
        HeadersTyped
<1>2. CASE \/ LockForFlush(p) \/ StartOutput(p) \/ XLogFlush(p) \/ WritePage(p)
           \/ EndWrite(p)
  BY Zenon, <1>0, <1>2 DEF LockForFlush, StartOutput, XLogFlush, WritePage, EndWrite, hdr,
        Typed, HeadersTyped
<1>3. CASE \/ TransferFails(p) \/ AbortBufferIO(p) \/ ReleasePins(p)
  BY Zenon, <1>0, <1>3 DEF TransferFails, AbortBufferIO, ReleasePins, hdr, Typed,
        HeadersTyped
<1> QED
  BY Zenon, <1>1, <1>2, <1>3 DEF Shared

\* The types of the buffer headers, in the steps of a backend.
LEMMA HeadersBackend ==
    ASSUME Typed, MapInv, NEW p \in Backends, Backend(p)
    PROVE  HeadersTyped'
<1>0. p \in Procs /\ AtWork(p) /\ KeepsOuter(p)
  BY Zenon DEF MapInv, Procs
<1>1. CASE TryFreeBuffer(p)
  <2>1. /\ pins' = [pins EXCEPT ![cur[p]] = @ \cup {p}] \/ UNCHANGED pins
        /\ UNCHANGED <<tag, valid, dirty, just_dirtied, io_in_progress>>
    BY Zenon, <1>1 DEF TryFreeBuffer, ClaimVictim, flags
  <2> QED
    BY SMTT(40), Z3T(40), <1>0, <2>1 DEF Typed, HeadersTyped
<1>2. CASE TrySweptBuffer(p)
  <2>1. /\ pins' = [pins EXCEPT ![cur[p]] = @ \cup {p}] \/ UNCHANGED pins
        /\ UNCHANGED <<tag, valid, dirty, just_dirtied, io_in_progress>>
    BY Zenon, <1>2 DEF TrySweptBuffer, ClaimVictim, flags
  <2> QED
    BY SMTT(40), Z3T(40), <1>0, <2>1 DEF Typed, HeadersTyped
<1>3. CASE BufTableInsert(p)
  <2>1. want[p] \in Pages \cup {NoPage}
    BY Zenon, <1>0 DEF Typed, LocalsTyped
  <2> QED
    BY Zenon, <1>3, <2>1 DEF BufTableInsert, flags, Typed, HeadersTyped
<1>4. CASE \/ StrategyGetBuffer(p) \/ ClockSweepTick(p)
  BY Zenon, <1>0, <1>4 DEF StrategyGetBuffer, ClockSweepTick, hdr, Typed, HeadersTyped
<1>5. CASE LockVictim(p)
  BY Zenon, <1>0, <1>5 DEF LockVictim, hdr, Typed, HeadersTyped
<1>6. CASE \/ InvalidateVictimBuffer(p) \/ DeleteVictimMapping(p)
  BY Zenon, <1>0, <1>6 DEF InvalidateVictimBuffer, DeleteVictimMapping, ClearBuffer, hdr,
        flags, Typed, HeadersTyped
<1>7. CASE \/ FreeVictim(p) \/ StartInput(p) \/ ReadPage(p)
  BY Zenon, <1>0, <1>7 DEF FreeVictim, StartInput, ReadPage, hdr, Typed, HeadersTyped
<1>8. CASE \/ LockShare(p) \/ LockExclusive(p) \/ UnlockBuffer(p) \/ ReleaseBuffer(p)
  BY Zenon, <1>0, <1>8 DEF LockShare, LockExclusive, UnlockBuffer, ReleaseBuffer, hdr,
        Typed, HeadersTyped
<1>9. CASE \/ MarkBufferDirty(p) \/ LogChange(p) \/ SetHint(p)
           \/ MarkBufferDirtyHint(p) \/ SetHintDirty(p)
  BY Zenon, <1>0, <1>9 DEF MarkBufferDirty, LogChange, SetHint, MarkBufferDirtyHint,
        SetHintDirty, hdr, Typed, HeadersTyped
<1>10. CASE \/ LockBufferForCleanup(p) \/ CheckCleanup(p) \/ UnlockForWait(p)
            \/ WakeUp(p) \/ AfterWait(p)
  BY Zenon, <1>0, <1>10 DEF LockBufferForCleanup, CheckCleanup, UnlockForWait, WakeUp,
        AfterWait, hdr, flags, Typed, HeadersTyped
<1>11. CASE \/ DropRelationBuffers(p) \/ InvalidateBuffer(p) \/ WaitIO(p)
            \/ DeleteDropped(p) \/ FreeDropped(p)
  BY Zenon, <1>0, <1>11 DEF DropRelationBuffers, InvalidateBuffer, WaitIO, DeleteDropped,
        FreeDropped, ClearBuffer, hdr, flags, Typed, HeadersTyped
<1>12. ASSUME NEW t \in Pages, BufferAlloc(p, t)
      PROVE  HeadersTyped'
  BY SMTT(40), Z3T(40), <1>0, <1>12 DEF BufferAlloc, PinBuffer, flags, Typed, HeadersTyped
<1>13. ASSUME NEW t \in Pages, DropRelation(p, t)
      PROVE  HeadersTyped'
  BY Zenon, <1>0, <1>13 DEF DropRelation, hdr, Typed, HeadersTyped
<1>14. CASE PinExisting(p)
  BY Zenon, <1>0, <1>14 DEF PinExisting, PinBuffer, flags, Typed, HeadersTyped
<1> QED
  BY Zenon, <1>1, <1>2, <1>3, <1>4, <1>5, <1>6, <1>7, <1>8, <1>9, <1>10, <1>11, <1>12,
      <1>13, <1>14 DEF Backend

\* The types of the buffer headers, in the steps of the checkpointer.
LEMMA HeadersCheckpoint ==
    ASSUME Typed, MapInv, Checkpoint
    PROVE  HeadersTyped'
<1>0. Checkpointer \in Procs /\ AtWork(Checkpointer) /\ KeepsOuter(Checkpointer) /\ AtCheckpoint
  BY Zenon DEF MapInv, Procs
<1>1. CASE \/ CreateCheckPoint \/ MarkForCheckpoint \/ BufferSync \/ SyncOneBuffer
           \/ EndCheckPoint
  BY SMTT(40), Z3T(40), <1>0, <1>1 DEF CreateCheckPoint, MarkForCheckpoint, BufferSync,
      SyncOneBuffer,
        EndCheckPoint, hdr, flags, Typed, HeadersTyped
<1> QED
  BY Zenon, <1>1 DEF Checkpoint

\* The types of the locks and of the mapping table, in the steps of any process.
LEMMA LockTypesShared ==
    ASSUME Typed, MapInv, NEW p \in Procs, Shared(p)
    PROVE  LocksTyped'
<1>0. p \in Procs /\ AtWork(p) /\ KeepsOuter(p)
  BY Zenon DEF MapInv, Procs
<1>1. CASE \/ UnpinBuffer(p) \/ WakeWaiter(p) \/ SendSignal(p)
  BY Zenon, <1>0, <1>1 DEF UnpinBuffer, WakeWaiter, SendSignal, locks, map, Typed,
        LocksTyped
<1>2. CASE \/ LockForFlush(p) \/ StartOutput(p) \/ XLogFlush(p) \/ WritePage(p)
           \/ EndWrite(p)
  BY SMTT(40), Z3T(40), <1>0, <1>2 DEF LockForFlush, StartOutput, XLogFlush, WritePage, EndWrite,
        AfterFlush, locks, map, Typed, LocksTyped
<1>3. CASE \/ TransferFails(p) \/ AbortBufferIO(p) \/ ReleasePins(p)
  BY Zenon, <1>0, <1>3 DEF TransferFails, AbortBufferIO, ReleasePins, LWLockReleaseAll,
        locks, map, Typed, LocksTyped
<1> QED
  BY Zenon, <1>1, <1>2, <1>3 DEF Shared

\* The types of the locks and of the mapping table, in the steps of a backend.
LEMMA LockTypesBackend ==
    ASSUME Typed, MapInv, NEW p \in Backends, Backend(p)
    PROVE  LocksTyped'
<1>0. p \in Procs /\ AtWork(p) /\ KeepsOuter(p)
  BY Zenon DEF MapInv, Procs
<1>1. CASE TrySweptBuffer(p)
  <2>1. UNCHANGED <<table, part>> /\ (LWLockReleaseAll(p) \/ UNCHANGED <<share, excl>>)
    BY Zenon, <1>1 DEF TrySweptBuffer, map, locks
  <2> QED
    BY Zenon, <1>0, <2>1 DEF LWLockReleaseAll, Typed, LocksTyped
<1>2. CASE BufTableInsert(p)
  <2>1. cur[p] \in Buffers
    BY Zenon, <1>2, <1>0 DEF BufTableInsert, AtWork, AtVictim, HasBuffer, Pinning
  <2> QED
    BY Zenon, <1>0, <1>2, <2>1 DEF BufTableInsert, LockPartition, locks, Typed, LocksTyped
<1>3. CASE \/ StrategyGetBuffer(p) \/ ClockSweepTick(p)
  BY Zenon, <1>0, <1>3 DEF StrategyGetBuffer, ClockSweepTick, locks, map, Typed, LocksTyped
<1>4. CASE \/ TryFreeBuffer(p) \/ LockVictim(p)
  BY ZenonT(40), <1>0, <1>4 DEF TryFreeBuffer, LockVictim, VictimLocked, locks, map, Typed,
        LocksTyped
<1>5. CASE \/ InvalidateVictimBuffer(p) \/ DeleteVictimMapping(p)
  BY Zenon, <1>0, <1>5 DEF InvalidateVictimBuffer, DeleteVictimMapping, LockPartition,
        UnlockPartition, locks, Typed, LocksTyped
<1>6. CASE \/ FreeVictim(p) \/ StartInput(p) \/ ReadPage(p)
  BY Zenon, <1>0, <1>6 DEF FreeVictim, StartInput, ReadPage, locks, map, Typed, LocksTyped
<1>7. CASE \/ LockShare(p) \/ LockExclusive(p) \/ UnlockBuffer(p) \/ ReleaseBuffer(p)
  BY SMTT(40), Z3T(40), <1>0, <1>7 DEF LockShare, LockExclusive, UnlockBuffer, ReleaseBuffer,
      locks,
        map, Typed, LocksTyped
<1>8. CASE \/ MarkBufferDirty(p) \/ LogChange(p) \/ SetHint(p)
           \/ MarkBufferDirtyHint(p) \/ SetHintDirty(p)
  BY Zenon, <1>0, <1>8 DEF MarkBufferDirty, LogChange, SetHint, MarkBufferDirtyHint,
        SetHintDirty, locks, map, Typed, LocksTyped
<1>9. CASE \/ LockBufferForCleanup(p) \/ CheckCleanup(p) \/ UnlockForWait(p)
           \/ WakeUp(p) \/ AfterWait(p)
  BY ZenonT(40), <1>0, <1>9 DEF LockBufferForCleanup, CheckCleanup, UnlockForWait, WakeUp,
        AfterWait, LWLockReleaseAll, locks, map, Typed, LocksTyped
<1>10. CASE \/ DropRelationBuffers(p) \/ InvalidateBuffer(p) \/ WaitIO(p)
            \/ DeleteDropped(p) \/ FreeDropped(p)
  BY Zenon, <1>0, <1>10 DEF DropRelationBuffers, InvalidateBuffer, WaitIO, DeleteDropped,
        FreeDropped, LockPartition, UnlockPartition, locks, map, Typed, LocksTyped
<1>11. ASSUME NEW t \in Pages, BufferAlloc(p, t)
      PROVE  LocksTyped'
  BY Zenon, <1>0, <1>11 DEF BufferAlloc, locks, map, Typed, LocksTyped
<1>12. ASSUME NEW t \in Pages, DropRelation(p, t)
      PROVE  LocksTyped'
  BY Zenon, <1>0, <1>12 DEF DropRelation, locks, map, Typed, LocksTyped
<1>13. CASE PinExisting(p)
  BY Zenon, <1>0, <1>13 DEF PinExisting, UnlockPartition, locks, Typed, LocksTyped
<1> QED
  BY Zenon, <1>1, <1>2, <1>3, <1>4, <1>5, <1>6, <1>7, <1>8, <1>9, <1>10, <1>11, <1>12, <1>13
      DEF Backend

\* The types of the locks and of the mapping table, in the steps of the checkpointer.
LEMMA LockTypesCheckpoint ==
    ASSUME Typed, MapInv, Checkpoint
    PROVE  LocksTyped'
<1>0. Checkpointer \in Procs /\ AtWork(Checkpointer) /\ KeepsOuter(Checkpointer) /\ AtCheckpoint
  BY Zenon DEF MapInv, Procs
<1>1. CASE \/ CreateCheckPoint \/ MarkForCheckpoint \/ BufferSync \/ SyncOneBuffer
           \/ EndCheckPoint
  BY Zenon, <1>0, <1>1 DEF CreateCheckPoint, MarkForCheckpoint, BufferSync, SyncOneBuffer,
        EndCheckPoint, locks, map, Typed, LocksTyped
<1> QED
  BY Zenon, <1>1 DEF Checkpoint

\* The types of the freelist and the clock hand, in the steps of any process.
LEMMA StrategyShared ==
    ASSUME Typed, MapInv, NEW p \in Procs, Shared(p)
    PROVE  StrategyTyped'
<1>0. p \in Procs /\ AtWork(p) /\ KeepsOuter(p)
  BY Zenon DEF MapInv, Procs
<1>1. CASE \/ UnpinBuffer(p) \/ WakeWaiter(p) \/ SendSignal(p)
  BY Zenon, <1>0, <1>1 DEF UnpinBuffer, WakeWaiter, SendSignal, strategy, Typed,
        StrategyTyped
<1>2. CASE \/ LockForFlush(p) \/ StartOutput(p) \/ XLogFlush(p) \/ WritePage(p)
           \/ EndWrite(p)
  BY Zenon, <1>0, <1>2 DEF LockForFlush, StartOutput, XLogFlush, WritePage, EndWrite,
        strategy, Typed, StrategyTyped
<1>3. CASE \/ TransferFails(p) \/ AbortBufferIO(p) \/ ReleasePins(p)
  BY ZenonT(40), <1>0, <1>3 DEF TransferFails, AbortBufferIO, ReleasePins, strategy, Typed,
        StrategyTyped
<1> QED
  BY Zenon, <1>1, <1>2, <1>3 DEF Shared

\* The types of the freelist and the clock hand, in the steps of a backend.
LEMMA StrategyBackend ==
    ASSUME Typed, MapInv, NEW p \in Backends, Backend(p)
    PROVE  StrategyTyped'
<1>0. p \in Procs /\ AtWork(p) /\ KeepsOuter(p)
  BY Zenon DEF MapInv, Procs
<1>1. CASE ClockSweepTick(p)
  BY Zenon, <1>0, <1>1, NextBuffer DEF ClockSweepTick, StrategyTyped, Typed
<1>2. CASE FreeVictim(p)
  <2>1. cur[p] \in Buffers
    BY Zenon, <1>2, <1>0 DEF FreeVictim, AtWork, HasBuffer
  <2> QED
    BY Zenon, <1>2, <2>1, FreeTyped DEF FreeVictim, Typed, StrategyTyped
<1>3. CASE FreeDropped(p)
  <2>1. cur[p] \in Buffers
    BY Zenon, <1>3, <1>0 DEF FreeDropped, AtWork, HasBuffer
  <2> QED
    BY Zenon, <1>3, <2>1, FreeTyped DEF FreeDropped, Typed, StrategyTyped
<1>4. CASE StrategyGetBuffer(p)
  BY SMTT(40), Z3T(40), <1>0, <1>4 DEF StrategyGetBuffer, Typed, StrategyTyped
<1>5. CASE \/ TryFreeBuffer(p) \/ LockVictim(p)
  BY Zenon, <1>0, <1>5 DEF TryFreeBuffer, LockVictim, strategy, Typed, StrategyTyped
<1>6. CASE \/ InvalidateVictimBuffer(p) \/ DeleteVictimMapping(p) \/ BufTableInsert(p)
  BY Zenon, <1>0, <1>6 DEF InvalidateVictimBuffer, DeleteVictimMapping, BufTableInsert,
        strategy, Typed, StrategyTyped
<1>7. CASE \/ StartInput(p) \/ ReadPage(p)
  BY Zenon, <1>0, <1>7 DEF StartInput, ReadPage, strategy, Typed, StrategyTyped
<1>8. CASE \/ LockShare(p) \/ LockExclusive(p) \/ UnlockBuffer(p) \/ ReleaseBuffer(p)
  BY Zenon, <1>0, <1>8 DEF LockShare, LockExclusive, UnlockBuffer, ReleaseBuffer,
        strategy, Typed, StrategyTyped
<1>9. CASE \/ MarkBufferDirty(p) \/ LogChange(p) \/ SetHint(p)
           \/ MarkBufferDirtyHint(p) \/ SetHintDirty(p)
  BY Zenon, <1>0, <1>9 DEF MarkBufferDirty, LogChange, SetHint, MarkBufferDirtyHint,
        SetHintDirty, strategy, Typed, StrategyTyped
<1>10. CASE \/ LockBufferForCleanup(p) \/ CheckCleanup(p) \/ UnlockForWait(p)
            \/ WakeUp(p) \/ AfterWait(p)
  BY Zenon, <1>0, <1>10 DEF LockBufferForCleanup, CheckCleanup, UnlockForWait, WakeUp,
        AfterWait, strategy, Typed, StrategyTyped
<1>11. CASE \/ DropRelationBuffers(p) \/ InvalidateBuffer(p) \/ WaitIO(p)
            \/ DeleteDropped(p)
  BY Zenon, <1>0, <1>11 DEF DropRelationBuffers, InvalidateBuffer, WaitIO, DeleteDropped,
        strategy, Typed, StrategyTyped
<1>12. ASSUME NEW t \in Pages, BufferAlloc(p, t)
      PROVE  StrategyTyped'
  BY Zenon, <1>0, <1>12 DEF BufferAlloc, strategy, Typed, StrategyTyped
<1>13. ASSUME NEW t \in Pages, DropRelation(p, t)
      PROVE  StrategyTyped'
  BY Zenon, <1>0, <1>13 DEF DropRelation, strategy, Typed, StrategyTyped
<1>14. CASE TrySweptBuffer(p)
  BY Zenon, <1>0, <1>14 DEF TrySweptBuffer, strategy, Typed, StrategyTyped
<1>15. CASE PinExisting(p)
  BY Zenon, <1>0, <1>15 DEF PinExisting, strategy, Typed, StrategyTyped
<1> QED
  BY Zenon, <1>1, <1>2, <1>3, <1>4, <1>5, <1>6, <1>7, <1>8, <1>9, <1>10, <1>11, <1>12,
      <1>13, <1>14, <1>15 DEF Backend

\* The types of the freelist and the clock hand, in the steps of the checkpointer.
LEMMA StrategyCheckpoint ==
    ASSUME Typed, MapInv, Checkpoint
    PROVE  StrategyTyped'
<1>0. Checkpointer \in Procs /\ AtWork(Checkpointer) /\ KeepsOuter(Checkpointer) /\ AtCheckpoint
  BY Zenon DEF MapInv, Procs
<1>1. CASE \/ CreateCheckPoint \/ MarkForCheckpoint \/ BufferSync \/ SyncOneBuffer
           \/ EndCheckPoint
  BY Zenon, <1>0, <1>1 DEF CreateCheckPoint, MarkForCheckpoint, BufferSync, SyncOneBuffer,
        EndCheckPoint, strategy, Typed, StrategyTyped
<1> QED
  BY Zenon, <1>1 DEF Checkpoint

\* The types of the local variables, in the steps of any process.
LEMMA LocalsShared ==
    ASSUME Typed, MapInv, NEW p \in Procs, Shared(p)
    PROVE  LocalsTyped'
<1>0. p \in Procs /\ AtWork(p) /\ KeepsOuter(p)
  BY Zenon DEF MapInv, Procs
<1>1. CASE UnpinBuffer(p)
  <2>1. CASE Return(p)
    BY Zenon, <1>0, <1>1, <2>1, ReturnTyped DEF UnpinBuffer, ckpt, Unpinning, LocalsTyped, Typed
  <2>2. CASE ~ Return(p)
    BY Zenon, <1>0, <1>1, <2>2 DEF UnpinBuffer, Go, ckpt, LocalsTyped, Typed
  <2> QED
    BY <2>1, <2>2
<1>2. CASE WakeWaiter(p)
  <2>1. CASE Return(p)
    BY Zenon, <1>0, <1>2, <2>1, ReturnTyped DEF WakeWaiter, ckpt, Unpinning, LocalsTyped, Typed
  <2>2. CASE ~ Return(p)
    BY Zenon, <1>0, <1>2, <2>2 DEF WakeWaiter, Go, ckpt, LocalsTyped, Typed
  <2> QED
    BY <2>1, <2>2
<1>3. CASE SendSignal(p)
  BY Zenon, <1>0, <1>3, ReturnTyped DEF SendSignal, ckpt, Unpinning, LocalsTyped, Typed
<1>4. CASE \/ LockForFlush(p) \/ StartOutput(p) \/ XLogFlush(p) \/ WritePage(p)
           \/ EndWrite(p)
  BY Zenon, <1>0, <1>4 DEF LockForFlush, StartOutput, XLogFlush, WritePage, EndWrite,
        UnpinThen, AfterFlush, Go, ckpt, loc, Typed, LocalsTyped
<1>5. CASE \/ TransferFails(p) \/ AbortBufferIO(p) \/ ReleasePins(p)
  BY SMTT(40), Z3T(40), <1>0, <1>5 DEF TransferFails, AbortBufferIO, ReleasePins, UnpinThen,
      Go, ckpt,
        loc, Typed, LocalsTyped
<1> QED
  BY Zenon, <1>1, <1>2, <1>3, <1>4, <1>5 DEF Shared

\* The types of the local variables, in the steps of a backend.
LEMMA LocalsBackend ==
    ASSUME Typed, MapInv, NEW p \in Backends, Backend(p)
    PROVE  LocalsTyped'
<1>0. p \in Procs /\ AtWork(p) /\ KeepsOuter(p)
  BY Zenon DEF MapInv, Procs
<1>1. ASSUME NEW t \in Pages, BufferAlloc(p, t)
      PROVE  LocalsTyped'
  BY Zenon, <1>0, <1>1 DEF BufferAlloc, AfterPin, Go, ckpt, Typed, LocksTyped, LocalsTyped
<1>2. CASE StrategyGetBuffer(p)
  <2>1. CASE freelist # <<>>
    <3>1. Head(freelist) \in Buffers
      BY SMTT(40), Z3T(40), <2>1 DEF Typed, StrategyTyped
    <3> QED
      BY ZenonT(40), <1>0, <1>2, <2>1, <3>1 DEF StrategyGetBuffer, Go, ckpt, LocalsTyped, Typed
  <2>2. CASE freelist = <<>>
    BY Zenon, <1>0, <1>2, <2>2 DEF StrategyGetBuffer, Go, ckpt, LocalsTyped, Typed
  <2> QED
    BY <2>1, <2>2
<1>3. CASE ClockSweepTick(p)
  BY Zenon, <1>0, <1>3 DEF ClockSweepTick, Go, ckpt, Typed, StrategyTyped, LocalsTyped
<1>4. CASE InvalidateVictimBuffer(p)
  <2>1. cur[p] \in Buffers /\ tag[cur[p]] \in Pages
    BY Zenon, <1>0, <1>4 DEF InvalidateVictimBuffer, AtWork, AtVictim, HasBuffer, Pinning,
        Typed, HeadersTyped
  <2> QED
    BY Zenon, <1>0, <1>4, <2>1 DEF InvalidateVictimBuffer, UnpinThen, Go, ckpt, LocalsTyped, Typed
<1>5. CASE PinExisting(p)
  <2>1. want[p] \in Pages
    BY Zenon, <1>0, <1>5 DEF PinExisting, AtWork, Collided
  <2>2. table[want[p]] \in Buffers \cup {NoBuffer}
    BY Zenon, <2>1 DEF Typed, LocksTyped
  <2> QED
    BY Zenon, <1>0, <1>5, <2>2 DEF PinExisting, AfterPin, Go, ckpt, LocalsTyped, Typed
<1>6. CASE DropRelationBuffers(p)
  <2>1. scan[p] \in Nat /\ (scan[p] < NBuffers => scan[p] \in Buffers)
    BY SMTT(40), Z3T(40), <1>0, NextBuffer DEF Typed, LocalsTyped, Buffers
  <2>2. CASE scan[p] = NBuffers
    BY SMTT(40), Z3T(40), <1>0, <1>6, <2>1, <2>2 DEF DropRelationBuffers, Go, LocalsTyped, Typed
  <2>3. CASE scan[p] < NBuffers /\ tag[scan[p]] = want[p]
    BY SMTT(40), Z3T(40), <1>0, <1>6, <2>1, <2>3 DEF DropRelationBuffers, Go, LocalsTyped, Typed
  <2>4. CASE scan[p] < NBuffers /\ tag[scan[p]] # want[p]
    BY SMTT(40), Z3T(40), <1>0, <1>6, <2>1, <2>4 DEF DropRelationBuffers, Go, LocalsTyped, Typed
  <2> QED
    BY Zenon, <1>6, <2>2, <2>3, <2>4 DEF DropRelationBuffers
<1>7. CASE \/ TryFreeBuffer(p) \/ LockVictim(p)
  BY Zenon, <1>0, <1>7 DEF TryFreeBuffer, LockVictim, UnpinThen, ClaimVictim,
        VictimLocked, Go, ckpt, loc, Typed, LocalsTyped
<1>8. CASE \/ DeleteVictimMapping(p) \/ BufTableInsert(p)
  BY Zenon, <1>0, <1>8 DEF DeleteVictimMapping, BufTableInsert, UnpinThen, Go, ckpt, loc,
        Typed, LocalsTyped
<1>9. CASE \/ FreeVictim(p) \/ StartInput(p) \/ ReadPage(p)
  BY Zenon, <1>0, <1>9 DEF FreeVictim, StartInput, ReadPage, Go, ckpt, loc, Typed,
        LocalsTyped
<1>10. CASE \/ LockShare(p) \/ LockExclusive(p) \/ UnlockBuffer(p) \/ ReleaseBuffer(p)
  BY Zenon, <1>0, <1>10 DEF LockShare, LockExclusive, UnlockBuffer, ReleaseBuffer,
        UnpinThen, Go, ckpt, loc, Typed, LocalsTyped
<1>11. CASE \/ MarkBufferDirty(p) \/ LogChange(p) \/ SetHint(p)
            \/ MarkBufferDirtyHint(p) \/ SetHintDirty(p)
  BY Zenon, <1>0, <1>11 DEF MarkBufferDirty, LogChange, SetHint, MarkBufferDirtyHint,
        SetHintDirty, Go, ckpt, loc, Typed, LocalsTyped
<1>12. CASE \/ LockBufferForCleanup(p) \/ CheckCleanup(p) \/ UnlockForWait(p)
            \/ WakeUp(p) \/ AfterWait(p)
  BY Zenon, <1>0, <1>12 DEF LockBufferForCleanup, CheckCleanup, UnlockForWait, WakeUp,
        AfterWait, Go, ckpt, loc, Typed, LocalsTyped
<1>13. CASE \/ InvalidateBuffer(p) \/ WaitIO(p) \/ DeleteDropped(p) \/ FreeDropped(p)
  BY Zenon, <1>0, <1>13 DEF InvalidateBuffer, WaitIO, DeleteDropped, FreeDropped,
        RetryPinned, Go, ckpt, loc, Typed, LocalsTyped
<1>14. ASSUME NEW t \in Pages, DropRelation(p, t)
      PROVE  LocalsTyped'
  BY Zenon, <1>0, <1>14 DEF DropRelation, Go, Typed, LocalsTyped
<1>15. CASE TrySweptBuffer(p)
  BY Zenon, <1>0, <1>15 DEF TrySweptBuffer, ClaimVictim, Go, ckpt, Typed, LocalsTyped
<1> QED
  BY Zenon, <1>1, <1>2, <1>3, <1>4, <1>5, <1>6, <1>7, <1>8, <1>9, <1>10, <1>11, <1>12,
      <1>13, <1>14, <1>15 DEF Backend

\* The types of the local variables, in the steps of the checkpointer.
LEMMA LocalsCheckpoint ==
    ASSUME Typed, MapInv, Checkpoint
    PROVE  LocalsTyped'
<1>0. Checkpointer \in Procs /\ AtWork(Checkpointer) /\ KeepsOuter(Checkpointer) /\ AtCheckpoint
  BY Zenon DEF MapInv, Procs
<1>1. CASE MarkForCheckpoint
  <2>1. scan[Checkpointer] \in Buffers /\ (scan[Checkpointer] + 1) % NBuffers \in Buffers
    BY Zenon, <1>0, <1>1, NextBuffer DEF MarkForCheckpoint, AtCheckpoint
  <2>2. (scan[Checkpointer] + 1) % NBuffers \in Nat
    BY Zenon, <2>1, NextBuffer DEF Buffers
  <2> QED
    BY Zenon, <1>0, <1>1, <2>1, <2>2 DEF MarkForCheckpoint, Go, loc, LocalsTyped, Typed
<1>2. CASE \/ CreateCheckPoint \/ BufferSync \/ SyncOneBuffer \/ EndCheckPoint
  BY SMTT(40), Z3T(40), <1>0, <1>2 DEF CreateCheckPoint, BufferSync, SyncOneBuffer,
      EndCheckPoint, Go,
        ckpt, loc, Typed, LocalsTyped
<1> QED
  BY Zenon, <1>1, <1>2 DEF Checkpoint

\* Every step keeps the types.
LEMMA TypedStep ==
    ASSUME Typed, MapInv, [Next]_vars
    PROVE  Typed'
<1>1. CASE UNCHANGED vars
  BY Zenon, <1>1 DEF vars, hdr, locks, map, strategy, ckpt, loc, Typed, HeadersTyped, LocksTyped,
      StrategyTyped, LocalsTyped
<1>2. CASE \E p \in Procs : Shared(p)
  BY Zenon, <1>2, HeadersShared, LockTypesShared, StrategyShared, LocalsShared DEF Typed
<1>3. CASE \E p \in Backends : Backend(p)
  BY Zenon, <1>3, HeadersBackend, LockTypesBackend, StrategyBackend, LocalsBackend DEF Typed
<1>4. CASE Checkpoint
  BY Zenon, <1>4, HeadersCheckpoint, LockTypesCheckpoint, StrategyCheckpoint, LocalsCheckpoint
      DEF Typed
<1> QED
  BY Zenon, <1>1, <1>2, <1>3, <1>4 DEF Next, Finished

\* A step of a process changes only its own local variables.
LEMMA LocalShared ==
    ASSUME Typed, NEW p \in Procs, Shared(p)
    PROVE  Local(p)
<1>0. p \in Procs
  BY Zenon DEF Procs
<1>1. CASE \/ UnpinBuffer(p) \/ WakeWaiter(p) \/ SendSignal(p)
  BY Zenon, <1>0, <1>1 DEF UnpinBuffer, WakeWaiter, SendSignal, Return, Go, ckpt, Local,
        Typed, LocalsTyped
<1>2. CASE \/ LockForFlush(p) \/ StartOutput(p) \/ XLogFlush(p) \/ WritePage(p)
           \/ EndWrite(p)
  BY Zenon, <1>0, <1>2 DEF LockForFlush, StartOutput, XLogFlush, WritePage, EndWrite,
        UnpinThen, AfterFlush, Go, ckpt, loc, Local, Typed, LocalsTyped
<1>3. CASE \/ TransferFails(p) \/ AbortBufferIO(p)
  BY Zenon, <1>0, <1>3 DEF TransferFails, AbortBufferIO, Go, ckpt, loc, Local, Typed,
        LocalsTyped
<1>4. CASE ReleasePins(p)
  BY Zenon, <1>0, <1>4 DEF ReleasePins, UnpinThen, Go, Local, Typed, LocalsTyped
<1> QED
  BY Zenon, <1>1, <1>2, <1>3, <1>4 DEF Shared

\* The same for a step of a backend.
LEMMA LocalBackend ==
    ASSUME Typed, NEW p \in Backends, Backend(p)
    PROVE  Local(p)
<1>0. p \in Procs
  BY Zenon DEF Procs
<1>1. CASE \/ StrategyGetBuffer(p) \/ TryFreeBuffer(p) \/ ClockSweepTick(p)
           \/ TrySweptBuffer(p) \/ LockVictim(p)
  BY Zenon, <1>0, <1>1 DEF StrategyGetBuffer, TryFreeBuffer, ClockSweepTick,
        TrySweptBuffer, LockVictim, UnpinThen, ClaimVictim, VictimLocked, Go, ckpt,
        loc, Local, Typed, LocalsTyped
<1>2. CASE \/ InvalidateVictimBuffer(p) \/ DeleteVictimMapping(p) \/ BufTableInsert(p)
  BY Zenon, <1>0, <1>2 DEF InvalidateVictimBuffer, DeleteVictimMapping, BufTableInsert,
        UnpinThen, Go, ckpt, loc, Local, Typed, LocalsTyped
<1>3. CASE \/ FreeVictim(p) \/ PinExisting(p) \/ StartInput(p) \/ ReadPage(p)
  BY Zenon, <1>0, <1>3 DEF FreeVictim, PinExisting, StartInput, ReadPage, AfterPin, Go,
        ckpt, loc, Local, Typed, LocalsTyped
<1>4. CASE \/ LockShare(p) \/ LockExclusive(p) \/ UnlockBuffer(p) \/ ReleaseBuffer(p)
  BY Zenon, <1>0, <1>4 DEF LockShare, LockExclusive, UnlockBuffer, ReleaseBuffer,
        UnpinThen, Go, ckpt, loc, Local, Typed, LocalsTyped
<1>5. CASE \/ MarkBufferDirty(p) \/ LogChange(p) \/ SetHint(p)
           \/ MarkBufferDirtyHint(p) \/ SetHintDirty(p)
  BY Zenon, <1>0, <1>5 DEF MarkBufferDirty, LogChange, SetHint, MarkBufferDirtyHint,
        SetHintDirty, Go, ckpt, loc, Local, Typed, LocalsTyped
<1>6. CASE \/ LockBufferForCleanup(p) \/ CheckCleanup(p) \/ UnlockForWait(p)
           \/ WakeUp(p) \/ AfterWait(p)
  BY Zenon, <1>0, <1>6 DEF LockBufferForCleanup, CheckCleanup, UnlockForWait, WakeUp,
        AfterWait, Go, ckpt, loc, Local, Typed, LocalsTyped
<1>7. CASE \/ InvalidateBuffer(p) \/ WaitIO(p) \/ DeleteDropped(p) \/ FreeDropped(p)
  BY Zenon, <1>0, <1>7 DEF InvalidateBuffer, WaitIO, DeleteDropped, FreeDropped,
        RetryPinned, Go, ckpt, loc, Local, Typed, LocalsTyped
<1>8. ASSUME NEW t \in Pages, BufferAlloc(p, t)
      PROVE  Local(p)
  BY Zenon, <1>0, <1>8 DEF BufferAlloc, AfterPin, Go, ckpt, Local, Typed, LocalsTyped
<1>9. ASSUME NEW t \in Pages, DropRelation(p, t)
      PROVE  Local(p)
  BY Zenon, <1>0, <1>9 DEF DropRelation, Go, Local, Typed, LocalsTyped
<1>10. CASE DropRelationBuffers(p)
  BY Zenon, <1>0, <1>10 DEF DropRelationBuffers, Go, Local, Typed, LocalsTyped
<1> QED
  BY Zenon, <1>1, <1>2, <1>3, <1>4, <1>5, <1>6, <1>7, <1>8, <1>9, <1>10 DEF Backend

\* The same for a step of the checkpointer.
LEMMA LocalCheckpoint ==
    ASSUME Typed, Checkpoint
    PROVE  Local(Checkpointer)
<1>0. Checkpointer \in Procs
  BY Zenon DEF Procs
<1>1. CASE \/ CreateCheckPoint \/ MarkForCheckpoint
  BY Zenon, <1>0, <1>1 DEF CreateCheckPoint, MarkForCheckpoint, Go, loc, Local, Typed,
        LocalsTyped
<1>2. CASE \/ BufferSync \/ SyncOneBuffer \/ EndCheckPoint
  BY Zenon, <1>0, <1>2 DEF BufferSync, SyncOneBuffer, EndCheckPoint, Go, ckpt, loc, Local,
        Typed, LocalsTyped
<1> QED
  BY Zenon, <1>1, <1>2 DEF Checkpoint

\* A caller that goes back to the page it kept still has it.
LEMMA OuterHeld ==
    ASSUME Typed, MapInv, NEW p \in Procs, pc[p] \in Unpinning, ret[p] = "exclusive"
    PROVE  /\ outer[p] \in Buffers /\ p \in pins[outer[p]] /\ valid[outer[p]]
           /\ tag[outer[p]] \in Pages
<1>1. outer[p] \in Buffers /\ ~ Aborting(p) /\ KeepsOuter(p)
  BY ZenonT(40) DEF MapInv, KeepsOuter, Typed, LocalsTyped, Aborting, Unpinning
<1> QED
  BY ZenonT(40), <1>1 DEF KeepsOuter, MapInv, Headers, Typed, HeadersTyped

\* Return, at the end of UnpinBuffer, keeps what the caller's loop relies on.
LEMMA ReturnWorks ==
    ASSUME Typed, NEW p \in Procs, AtWork(p), KeepsOuter(p), pc[p] \in Unpinning, Return(p),
           UNCHANGED <<tag, valid, table, part, old>>,
           ret[p] = "exclusive" =>
               p \in pins'[outer[p]] /\ valid[outer[p]] /\ tag[outer[p]] \in Pages
    PROVE  AtWork(p)'
<1>1. ret[p] \in {"idle", "exclusive", "getvictim", "collide", "abort", "sync"}
  BY Zenon DEF KeepsOuter
<1>2. CASE ret[p] = "idle"
  BY Zenon, <1>2 DEF Return, Go, AtWork, KeepsOuter, Collided, Allocating, Holding, Writing,
      Unpinning, Dropping, AtVictim, Looking, Reading, Pinning, HasBuffer, Typed,
      LocalsTyped
<1>3. CASE ret[p] = "exclusive"
  BY ZenonT(40), <1>3 DEF Return, Go, AtWork, KeepsOuter, Collided, Allocating, Holding, Writing,
      Unpinning, Dropping, AtVictim, Looking, Reading, Pinning, HasBuffer, Typed,
      LocalsTyped
<1>4. CASE ret[p] = "getvictim"
  BY Zenon, <1>4 DEF Return, Go, AtWork, KeepsOuter, Collided, Allocating, Holding, Writing,
      Unpinning, Dropping, AtVictim, Looking, Reading, Pinning, HasBuffer, Typed,
      LocalsTyped
<1>5. CASE ret[p] = "collide"
  BY Zenon, <1>5 DEF Return, Go, AtWork, KeepsOuter, Collided, Allocating, Holding, Writing,
      Unpinning, Dropping, AtVictim, Looking, Reading, Pinning, HasBuffer, Typed,
      LocalsTyped
<1>6. CASE ret[p] = "abort"
  BY Zenon, <1>6 DEF Return, Go, AtWork, KeepsOuter, Collided, Allocating, Holding, Writing,
      Unpinning, Dropping, AtVictim, Looking, Reading, Pinning, HasBuffer, Typed,
      LocalsTyped
<1>7. CASE ret[p] = "sync"
  BY ZenonT(40), <1>7 DEF Return, Go, AtWork, KeepsOuter, Collided, Allocating, Holding, Writing,
      Unpinning, Dropping, AtVictim, Looking, Reading, Pinning, HasBuffer, Typed,
      LocalsTyped
<1> QED
  BY Zenon, <1>1, <1>2, <1>3, <1>4, <1>5, <1>6, <1>7

\* ClearBuffer under the partition lock, with the buffer pinned by nobody else.
LEMMA ClearStep ==
    ASSUME Typed, MapInv, NEW q \in Procs \ {Checkpointer}, NEW b \in Buffers, tag[b] \in Pages,
           PartitionFree(tag[b]), \A p \in Procs \ {q} : p \notin pins[b],
           tag' = [tag EXCEPT ![b] = NoPage], valid' = [valid EXCEPT ![b] = FALSE],
           dirty' = [dirty EXCEPT ![b] = FALSE], LockPartition(q, tag[b]),
           UNCHANGED <<pins, table>>, Local(q),
           \/ pc'[q] = "delete" /\ old'[q] = tag[b]
           \/ pc'[q] = "dropdelete" /\ want'[q] = tag[b],
           pc[q] \notin {"delete", "dropdelete"}, AtWork(q)', KeepsOuter(q)'
    PROVE  MapInv'
<1> DEFINE t0 == tag[b]
<1>1. /\ part' = [part EXCEPT ![Partition[t0]] = q] /\ Partition[t0] \in Partitions
      /\ part[Partition[t0]] = NoProc /\ t0 # NoPage
  BY Zenon, NoneIsNone DEF LockPartition, PartitionFree
<1>2. ASSUME NEW t \in Pages, NEW p \in Procs, part[Partition[t]] = p
      PROVE  part'[Partition[t]] = p
  BY Zenon, <1>1, <1>2, NoneIsNone DEF Typed, LocksTyped
<1>3. Frame(q)
  <2>1. ASSUME NEW p \in Procs \ {q}
        PROVE  Spares(p)
    <3>1. ASSUME NEW c \in Buffers, p \in pins[c]
          PROVE  tag'[c] = tag[c] /\ valid'[c] = valid[c]
      BY Zenon, <3>1 DEF Typed, HeadersTyped
    <3>2. ASSUME NEW c \in Buffers, NEW t \in Pages, tag'[c] = t
          PROVE  tag[c] = t
      BY Zenon, <3>2, NoneIsNone DEF Typed, HeadersTyped
    <3> QED
      BY SMTT(40), Z3T(40), <1>2, <3>1, <3>2 DEF Spares
  <2> QED
    BY Zenon, <2>1 DEF Frame
<1>4. Headers'
  BY Zenon DEF Headers, MapInv, Typed, HeadersTyped
<1>5. MappingSound'
  <2>1. \A c \in Buffers : tag'[c] # NoPage => table'[tag'[c]] = c
    BY Zenon DEF MapInv, MappingSound, Typed, HeadersTyped
  <2>2. ASSUME NEW t \in Pages, table'[t] # NoBuffer, tag'[table'[t]] # t
        PROVE  \E p \in Procs : Unmaps(p, t)' /\ part'[Partition[t]] = p
    <3>1. CASE t = t0
      <4>1. part'[Partition[t]] = q
        BY Zenon, <1>1, <3>1 DEF Typed, LocksTyped
      <4> QED
        BY Zenon, <3>1, <4>1 DEF Unmaps
    <3>2. CASE t # t0
      <4>1. table[t] \in Buffers /\ tag[table[t]] # t
        BY Zenon, <2>2, <3>2, NoneIsNone DEF Typed, LocksTyped, HeadersTyped
      <4>2. PICK p \in Procs : Unmaps(p, t) /\ part[Partition[t]] = p
        BY Zenon, <4>1, <2>2 DEF MapInv, MappingSound
      <4>3. p # q
        BY Zenon, <4>2 DEF Unmaps
      <4>4. Unmaps(p, t)'
        BY Zenon, <4>2, <4>3 DEF Unmaps, Local
      <4> QED
        BY ZenonT(40), <1>2, <4>2, <4>4
    <3> QED
      BY Zenon, <3>1, <3>2
  <2> QED
    BY Zenon, <2>1, <2>2 DEF MappingSound
<1> QED
  BY Zenon, <1>3, <1>4, <1>5, Assemble

\* BufTableDelete, then the partition lock is released.
LEMMA DeleteStep ==
    ASSUME Typed, MapInv, NEW q \in Procs \ {Checkpointer}, NEW t \in Pages, Unmaps(q, t),
           part[Partition[t]] = q, tag[table[t]] # t,
           table' = [table EXCEPT ![t] = NoBuffer], UnlockPartition(t),
           UNCHANGED <<tag, pins, valid, dirty>>, Local(q), AtWork(q)', KeepsOuter(q)'
    PROVE  MapInv'
<1>1. part' = [part EXCEPT ![Partition[t]] = NoProc] /\ Partition[t] \in Partitions
  BY Zenon, NoneIsNone DEF UnlockPartition
<1>2. ASSUME NEW s \in Pages, NEW p \in Procs \ {q}, part[Partition[s]] = p
      PROVE  part'[Partition[s]] = p /\ table'[s] = table[s]
  BY Zenon, <1>1, <1>2, NoneIsNone DEF Typed, LocksTyped
<1>3. Frame(q)
  BY Zenon, <1>2 DEF Frame, Spares
<1>4. Headers'
  BY Zenon DEF Headers, MapInv
<1>5. MappingSound'
  <2>1. ASSUME NEW c \in Buffers, tag'[c] # NoPage
        PROVE  table'[tag'[c]] = c
    <3>1. tag[c] \in Pages /\ table[tag[c]] = c
      BY Zenon, <2>1 DEF MapInv, MappingSound, Typed, HeadersTyped
    <3>2. tag[c] # t
      BY Zenon, <3>1
    <3> QED
      BY Zenon, <3>1, <3>2 DEF Typed, LocksTyped
  <2>2. ASSUME NEW s \in Pages, table'[s] # NoBuffer, tag'[table'[s]] # s
        PROVE  \E p \in Procs : Unmaps(p, s)' /\ part'[Partition[s]] = p
    <3>1. s # t /\ table[s] # NoBuffer /\ tag[table[s]] # s
      BY Zenon, <2>2 DEF Typed, LocksTyped
    <3>2. PICK p \in Procs : Unmaps(p, s) /\ part[Partition[s]] = p
      BY Zenon, <3>1 DEF MapInv, MappingSound
    <3>3. p # q
      BY Zenon, <3>1, <3>2 DEF Unmaps
    <3>4. Unmaps(p, s)'
      BY ZenonT(40), <3>2, <3>3 DEF Unmaps, Local
    <3> QED
      BY Zenon, <1>2, <3>2, <3>3, <3>4
  <2> QED
    BY Zenon, <2>1, <2>2 DEF MappingSound
<1> QED
  BY Zenon, <1>3, <1>4, <1>5, Assemble

\* The mapping table, in the steps of any process.
LEMMA MapShared ==
    ASSUME Typed, MapInv, NEW p \in Procs, Shared(p)
    PROVE  MapInv'
<1> USE DEF Holding, Writing, Unpinning, Dropping, AtVictim, Looking, Reading,
    Pinning, HasBuffer
<1>0. /\ p \in Procs /\ AtWork(p) /\ KeepsOuter(p) /\ Local(p)
  BY ZenonT(40), LocalShared DEF MapInv, Procs
<1>1. CASE UnpinBuffer(p)
  <2>1. cur[p] \in Buffers /\ p \in pins[cur[p]] /\ pc[p] = "unpin"
    BY Zenon, <1>0, <1>1 DEF UnpinBuffer, AtWork
  <2>2. Local(p) /\ PinsOnly(p)
    BY SMTT(40), Z3T(40), <1>0, <1>1, <2>1 DEF UnpinBuffer, Return, Go, flags, map, ckpt,
        Local, PinsOnly, Typed,
        LocalsTyped, HeadersTyped
  <2>3. ASSUME outer[p] # NoBuffer, ~ Aborting(p)
        PROVE  p \in pins'[outer[p]]
    BY Zenon, <1>0, <1>1, <2>1, <2>3 DEF UnpinBuffer, KeepsOuter, Typed, LocalsTyped, HeadersTyped
  <2>4. AtWork(p)'
    <3>1. CASE Return(p)
      <4>1. ret[p] = "exclusive" =>
              p \in pins'[outer[p]] /\ valid[outer[p]] /\ tag[outer[p]] \in Pages
        BY Zenon, <1>0, <2>1, <2>3, OuterHeld, NoneIsNone DEF Aborting
      <4> QED
        BY Zenon, <1>0, <1>1, <2>1, <2>2, <3>1, <4>1, ReturnWorks DEF UnpinBuffer, PinsOnly
    <3>2. CASE ~ Return(p)
      BY Zenon, <1>0, <1>1, <2>1, <2>2, <3>2 DEF UnpinBuffer, Go, PinsOnly, AtWork,
          Collided,
          Allocating, Typed, LocalsTyped
    <3> QED
      BY <3>1, <3>2
  <2>5. KeepsOuter(p)'
    <3>1. CASE Return(p)
      BY Zenon, <1>0, <1>1, <2>1, <2>2, <2>3, <3>1 DEF UnpinBuffer, Return, Go, PinsOnly,
          KeepsOuter,
          Aborting, Typed, LocalsTyped
    <3>2. CASE ~ Return(p)
      BY Zenon, <1>0, <1>1, <2>1, <2>2, <2>3, <3>2 DEF UnpinBuffer, Go, PinsOnly, KeepsOuter,
          Aborting, Typed, LocalsTyped
    <3> QED
      BY <3>1, <3>2
  <2>6. p = Checkpointer => AtCheckpoint'
    BY SMTT(40), Z3T(40), <1>0, <1>1 DEF UnpinBuffer, Return, Go, ckpt, MapInv, AtCheckpoint,
        Typed, LocalsTyped
  <2>7. UNCHANGED dirty
    BY Zenon, <1>1 DEF UnpinBuffer, flags
  <2> QED
    BY ZenonT(40), <1>0, <2>1, <2>2, <2>4, <2>5, <2>6, <2>7, PinStep
<1>2. CASE WakeWaiter(p)
  <2>1. Quiet /\ UNCHANGED dirty /\ pc[p] \notin {"delete", "dropdelete"}
    BY Zenon, <1>0, <1>2 DEF WakeWaiter, flags, map, Quiet
  <2>3. AtWork(p)'
    <3>1. CASE Return(p)
      BY Zenon, <1>0, <1>2, <2>1, <3>1, OuterHeld, ReturnWorks DEF Quiet, WakeWaiter
    <3>2. CASE ~ Return(p)
      BY SMTT(40), Z3T(40), <1>0, <1>2, <2>1, <3>2 DEF WakeWaiter, Go, Quiet, AtWork, Collided,
          Allocating,
          Typed, LocalsTyped
    <3> QED
      BY <3>1, <3>2
  <2>4. KeepsOuter(p)'
    BY SMTT(40), Z3T(40), <1>0, <1>2, <2>1 DEF WakeWaiter, Return, Go, Quiet, AtWork, KeepsOuter,
        Aborting, Typed, LocalsTyped
  <2>5. p = Checkpointer => AtCheckpoint'
    BY SMTT(40), Z3T(40), <1>0, <1>2 DEF WakeWaiter, Return, Go, ckpt, MapInv, AtCheckpoint,
        Typed,
        LocalsTyped
  <2> QED
    BY Zenon, <1>0, <2>1, <2>3, <2>4, <2>5, QuietStep
<1>3. CASE SendSignal(p)
  <2>1. Quiet /\ UNCHANGED dirty /\ pc[p] \notin {"delete", "dropdelete"}
    BY Zenon, <1>0, <1>3 DEF SendSignal, hdr, map, Quiet
  <2>3. AtWork(p)'
    BY ZenonT(40), <1>0, <1>3, <2>1, OuterHeld, ReturnWorks DEF SendSignal, Quiet
  <2>4. KeepsOuter(p)'
    BY Zenon, <1>0, <1>3, <2>1 DEF SendSignal, Return, Go, Quiet, AtWork, KeepsOuter,
        Aborting, Typed, LocalsTyped
  <2>5. p = Checkpointer => AtCheckpoint'
    BY ZenonT(40), <1>0, <1>3 DEF SendSignal, Return, Go, ckpt, MapInv, AtCheckpoint, Typed,
        LocalsTyped
  <2> QED
    BY <1>0, <2>1, <2>3, <2>4, <2>5, QuietStep
<1>4. CASE StartOutput(p)
  <2>1. Quiet /\ UNCHANGED dirty /\ pc[p] \notin {"delete", "dropdelete"}
    BY Zenon, <1>0, <1>4 DEF StartOutput, map, Quiet
  <2>3. AtWork(p)'
    <3>1. tag[cur[p]] # NoPage
      BY Zenon, <1>0, <1>4 DEF StartOutput, AtWork, MapInv, Headers
    <3>2. CASE pc'[p] = "inval"
      BY ZenonT(40), <1>0, <1>4, <2>1, <3>1, <3>2 DEF StartOutput, loc, Quiet, AtWork,
          Collided, Allocating
    <3>3. CASE pc'[p] = "unpin"
      BY Zenon, <1>0, <1>4, <2>1, <3>3 DEF StartOutput, loc, Quiet, AtWork, Collided,
          Allocating, AfterFlush, UnpinThen, Go, Typed, LocalsTyped
    <3>4. CASE pc'[p] = "xlogflush"
      BY ZenonT(40), <1>0, <1>4, <2>1, <3>4 DEF StartOutput, loc, Quiet, AtWork, Collided,
          Allocating
    <3> QED
      BY ZenonT(40), <1>0, <1>4, <3>2, <3>3, <3>4 DEF StartOutput, AfterFlush, UnpinThen, Go,
          Typed, LocalsTyped
  <2>4. KeepsOuter(p)'
    BY ZenonT(40), <1>0, <1>4, <2>1 DEF StartOutput, UnpinThen, AfterFlush, Go, loc, Quiet,
        AtWork, KeepsOuter, Aborting, Typed, LocalsTyped
  <2>5. p = Checkpointer => AtCheckpoint'
    BY SMTT(40), Z3T(40), <1>0, <1>4 DEF StartOutput, UnpinThen, AfterFlush, Go, ckpt, loc,
        MapInv,
        AtCheckpoint, Typed, LocalsTyped
  <2> QED
    BY <1>0, <2>1, <2>3, <2>4, <2>5, QuietStep
<1>5. CASE EndWrite(p)
  <2>1. Quiet /\ pc[p] \notin {"delete", "dropdelete"}
    BY Zenon, <1>0, <1>5 DEF EndWrite, map, Quiet
  <2>2. \A b \in Buffers : dirty'[b] => dirty[b] \/ valid[b]
    BY Zenon, <1>0, <1>5 DEF EndWrite, AtWork, Typed, HeadersTyped
  <2>3. AtWork(p)'
    <3>1. tag[cur[p]] # NoPage
      BY Zenon, <1>0, <1>5 DEF EndWrite, AtWork, MapInv, Headers
    <3>2. CASE pc'[p] = "inval"
      BY ZenonT(40), <1>0, <1>5, <2>1, <3>1, <3>2 DEF EndWrite, loc, Quiet, AtWork, Collided,
          Allocating
    <3>3. CASE pc'[p] = "unpin"
      BY Zenon, <1>0, <1>5, <2>1, <3>3 DEF EndWrite, loc, Quiet, AtWork, Collided,
          Allocating, AfterFlush, UnpinThen, Go, Typed, LocalsTyped
    <3> QED
      BY Zenon, <1>0, <1>5, <3>2, <3>3 DEF EndWrite, AfterFlush, UnpinThen, Go, Typed, LocalsTyped
  <2>4. KeepsOuter(p)'
    BY ZenonT(40), <1>0, <1>5, <2>1 DEF EndWrite, UnpinThen, AfterFlush, Go, loc, Quiet, AtWork,
        KeepsOuter, Aborting, Typed, LocalsTyped
  <2>5. p = Checkpointer => AtCheckpoint'
    BY SMTT(40), Z3T(40), <1>0, <1>5 DEF EndWrite, UnpinThen, AfterFlush, Go, ckpt, loc, MapInv,
        AtCheckpoint, Typed, LocalsTyped
  <2> QED
    BY Zenon, <1>0, <2>1, <2>2, <2>3, <2>4, <2>5, QuietStep
<1>6. CASE \/ LockForFlush(p) \/ XLogFlush(p) \/ WritePage(p)
  <2>1. Quiet /\ UNCHANGED dirty /\ pc[p] \notin {"delete", "dropdelete"}
    BY Zenon, <1>0, <1>6 DEF LockForFlush, XLogFlush, WritePage, hdr, map, Quiet
  <2>2. AtWork(p)'
    BY ZenonT(40), <1>0, <1>6, <2>1 DEF LockForFlush, XLogFlush, WritePage, Go, loc, Quiet,
        AtWork, KeepsOuter, Collided, Allocating, Typed, LocalsTyped
  <2>3. KeepsOuter(p)'
    BY Zenon, <1>0, <1>6, <2>1 DEF LockForFlush, XLogFlush, WritePage, Go, loc, Quiet,
        AtWork, KeepsOuter, Aborting, Typed, LocalsTyped
  <2>4. p = Checkpointer => AtCheckpoint'
    BY ZenonT(40), <1>0, <1>6 DEF LockForFlush, XLogFlush, WritePage, Go, ckpt, loc, MapInv,
        AtCheckpoint, Typed, LocalsTyped
  <2> QED
    BY <1>0, <2>1, <2>2, <2>3, <2>4, QuietStep
<1>7. CASE \/ TransferFails(p) \/ AbortBufferIO(p) \/ ReleasePins(p)
  <2>1. Quiet /\ UNCHANGED dirty /\ pc[p] \notin {"delete", "dropdelete"}
    BY Zenon, <1>0, <1>7 DEF TransferFails, AbortBufferIO, ReleasePins, hdr, map, Quiet
  <2>2. AtWork(p)'
    BY ZenonT(40), <1>0, <1>7, <2>1 DEF TransferFails, AbortBufferIO, ReleasePins, UnpinThen, Go,
        loc, Quiet, AtWork, KeepsOuter, Collided, Allocating, Typed, LocalsTyped
  <2>3. KeepsOuter(p)'
    BY Zenon, <1>0, <1>7, <2>1 DEF TransferFails, AbortBufferIO, ReleasePins, UnpinThen, Go,
        loc, Quiet, AtWork, KeepsOuter, Aborting, Typed, LocalsTyped
  <2>4. p = Checkpointer => AtCheckpoint'
    BY SMTT(40), Z3T(40), <1>0, <1>7 DEF TransferFails, AbortBufferIO, ReleasePins, UnpinThen,
        Go, ckpt,
        loc, MapInv, AtCheckpoint, Typed, LocalsTyped
  <2> QED
    BY <1>0, <2>1, <2>2, <2>3, <2>4, QuietStep
<1> QED
  BY Zenon, <1>1, <1>2, <1>3, <1>4, <1>5, <1>6, <1>7 DEF Shared

\* The mapping table, in the steps of a backend.
LEMMA MapBackend ==
    ASSUME Typed, MapInv, NEW p \in Backends, Backend(p)
    PROVE  MapInv'
<1> USE DEF Holding, Writing, Unpinning, Dropping, AtVictim, Looking, Reading,
    Pinning, HasBuffer
<1>0. /\ p \in Procs /\ AtWork(p) /\ KeepsOuter(p) /\ Local(p)
      /\ p # Checkpointer
  BY Zenon, LocalBackend, NoneIsNone DEF MapInv, Procs
<1>1. ASSUME NEW t \in Pages, BufferAlloc(p, t)
      PROVE  MapInv'
  <2> DEFINE b == table[t]
  <2>1. b # NoBuffer => b \in Buffers /\ tag[b] = t
    BY Zenon, <1>1, NoneIsNone DEF BufferAlloc, PartitionFree, MapInv, MappingSound, Typed,
        LocksTyped
  <2>2. pc[p] \in {"idle", "exclusive"} /\ outer[p] = NoBuffer /\ t \in Pages
    BY Zenon, <1>0, <1>1 DEF BufferAlloc, MayRead, KeepsOuter
  <2>3. Local(p) /\ PinsOnly(p)
    BY SMTT(40), Z3T(40), <1>0, <1>1, <2>1, NoneIsNone DEF BufferAlloc, PinBuffer, AfterPin,
        Go, flags, map, ckpt,
        Local, PinsOnly, Typed, LocalsTyped, HeadersTyped
  <2>4. AtWork(p)'
    <3>0. want'[p] = t /\ cur'[p] = b /\ UNCHANGED <<tag, valid>>
      BY Zenon, <1>0, <1>1 DEF BufferAlloc, flags, Typed, LocalsTyped
    <3>1. CASE b # NoBuffer
      <4>1. pc'[p] = (IF valid[b] THEN "pinned" ELSE "startin")
        BY Zenon, <1>0, <1>1, <3>1 DEF BufferAlloc, AfterPin, Go, Typed, LocalsTyped
      <4>2. p \in pins'[b]
        BY SMTT(40), Z3T(40), <1>0, <1>1, <2>1, <3>1 DEF BufferAlloc, PinBuffer, Typed,
            HeadersTyped
      <4>3. pc'[p] \in {"pinned", "startin"} /\ (pc'[p] = "pinned" => valid[b])
        BY <4>1
      <4> QED
        BY Zenon, <2>1, <2>2, <3>0, <3>1, <4>2, <4>3 DEF AtWork, Collided, Allocating
    <3>2. CASE b = NoBuffer
      <4>1. pc'[p] = "getvictim"
        BY Zenon, <1>0, <1>1, <3>2 DEF BufferAlloc, Go, Typed, LocalsTyped
      <4> QED
        BY Zenon, <2>2, <3>0, <4>1 DEF AtWork, Collided, Allocating
    <3> QED
      BY <3>1, <3>2
  <2>5. KeepsOuter(p)'
    <3>1. /\ want'[p] = t /\ outer'[p] = cur[p] /\ cur'[p] = b
          /\ pc'[p] \in {"pinned", "startin", "getvictim"}
          /\ pc'[p] = "getvictim" <=> b = NoBuffer
      BY Zenon, <1>0, <1>1 DEF BufferAlloc, AfterPin, Go, Typed, LocalsTyped
    <3>2. CASE pc[p] = "idle"
      BY Zenon, <1>0, <3>1, <3>2 DEF KeepsOuter
    <3>3. CASE pc[p] = "exclusive"
      <4>1. /\ cur[p] \in Buffers /\ p \in pins[cur[p]] /\ valid[cur[p]]
            /\ tag[cur[p]] = want[p] /\ want[p] \in Pages
        BY Zenon, <1>0, <3>3 DEF AtWork
      <4>2. t # want[p]
        <5>1. t > want[p]
          BY Zenon, <1>1, <3>3 DEF BufferAlloc, MayRead
        <5>2. t \in Nat /\ want[p] \in Nat
          BY Zenon, <2>2, <4>1, NoneIsNone
        <5> QED
          BY SMTT(40), Z3T(40), <5>1, <5>2
      <4>3. p \in pins'[cur[p]] /\ valid'[cur[p]] /\ tag'[cur[p]] = want[p]
        BY SMTT(40), Z3T(40), <1>1, <2>1, <2>3, <4>1 DEF BufferAlloc, PinBuffer, PinsOnly,
            Typed, HeadersTyped
      <4> QED
        BY Zenon, <2>1, <3>1, <4>1, <4>2, <4>3 DEF KeepsOuter, Aborting
    <3> QED
      BY <2>2, <3>2, <3>3
  <2>6. UNCHANGED dirty
    BY Zenon, <1>1 DEF BufferAlloc, flags
  <2> QED
    BY Zenon, <1>0, <2>2, <2>3, <2>4, <2>5, <2>6, PinStep
<1>2. CASE StrategyGetBuffer(p)
  <2>1. Quiet /\ UNCHANGED dirty /\ pc[p] \notin {"delete", "dropdelete"}
    BY Zenon, <1>0, <1>2 DEF StrategyGetBuffer, hdr, map, Quiet
  <2>3. AtWork(p)'
    <3>1. CASE freelist # <<>>
      <4>1. Head(freelist) \in Buffers
        BY SMTT(40), Z3T(40), <3>1 DEF Typed, StrategyTyped
      <4> QED
        BY ZenonT(40), <1>0, <1>2, <2>1, <3>1, <4>1 DEF StrategyGetBuffer, Go, Quiet, AtWork,
            Collided,
            Allocating, Typed, LocalsTyped
    <3>2. CASE freelist = <<>>
      BY Zenon, <1>0, <1>2, <2>1, <3>2 DEF StrategyGetBuffer, Go, Quiet, AtWork,
          Collided,
          Allocating, Typed, LocalsTyped
    <3> QED
      BY <3>1, <3>2
  <2>4. KeepsOuter(p)'
    BY SMTT(40), Z3T(40), <1>0, <1>2, <2>1 DEF StrategyGetBuffer, Go, Quiet, AtWork, KeepsOuter,
        Aborting, Typed, LocalsTyped
  <2> QED
    BY Zenon, <1>0, <2>1, <2>3, <2>4, QuietStep
<1>3. CASE TryFreeBuffer(p)
  <2>1. cur[p] \in Buffers /\ pc[p] = "popped" /\ want[p] \in Pages
    BY Zenon, <1>0, <1>3 DEF TryFreeBuffer, AtWork, Allocating
  <2>2. Local(p) /\ PinsOnly(p)
    BY ZenonT(40), <1>0, <1>3, <2>1 DEF TryFreeBuffer, ClaimVictim, Go, flags, map, ckpt, loc,
        Local, PinsOnly, Typed,
        LocalsTyped, HeadersTyped
  <2>3. UNCHANGED <<want, cur, outer, old, ret, dirty>>
    BY Zenon, <1>3 DEF TryFreeBuffer, flags, loc
  <2>4. CASE pins[cur[p]] = {} /\ ClaimVictim(p, cur[p])
    <3>1. pins'[cur[p]] = {p}
      BY Zenon, <1>0, <1>3, <2>1, <2>4 DEF ClaimVictim, Typed, HeadersTyped
    <3>2. /\ pc'[p] \in {"vlock", "inval", "insert"}
          /\ pc'[p] = "vlock" => valid[cur[p]]
          /\ pc'[p] = "inval" => tag[cur[p]] # NoPage
          /\ pc'[p] = "insert" => tag[cur[p]] = NoPage
      BY Zenon, <1>0, <2>1, <2>4 DEF ClaimVictim, Go, MapInv, Headers, Typed, LocalsTyped
    <3>3. AtWork(p)'
      BY Zenon, <1>0, <2>1, <2>2, <2>3, <3>1, <3>2 DEF PinsOnly, AtWork, Collided, Allocating
    <3>4. outer[p] # NoBuffer => outer[p] # cur[p] /\ p \in pins'[outer[p]]
      BY Zenon, <1>0, <2>1, <2>4 DEF KeepsOuter, Aborting, ClaimVictim, Typed, HeadersTyped,
          LocalsTyped
    <3>5. KeepsOuter(p)'
      BY Zenon, <1>0, <2>1, <2>2, <2>3, <3>2, <3>4 DEF PinsOnly, KeepsOuter, Aborting
    <3> QED
      BY Zenon, <1>0, <2>1, <2>2, <2>3, <3>3, <3>5, PinStep
  <2>5. CASE UNCHANGED pins /\ pc'[p] \in {"getvictim"}
    <3>1. AtWork(p)'
      BY Zenon, <1>0, <2>1, <2>2, <2>3, <2>5 DEF PinsOnly, AtWork, Collided, Allocating
    <3>2. KeepsOuter(p)'
      BY Zenon, <1>0, <2>1, <2>2, <2>3, <2>5 DEF PinsOnly, KeepsOuter, Aborting
    <3> QED
      BY Zenon, <1>0, <2>1, <2>2, <2>3, <3>1, <3>2, PinStep
  <2> QED
    BY Zenon, <1>0, <1>3, <2>4, <2>5 DEF TryFreeBuffer, Go, Typed, LocalsTyped
<1>4. CASE ClockSweepTick(p)
  <2>1. Quiet /\ UNCHANGED dirty /\ pc[p] \notin {"delete", "dropdelete"}
    BY Zenon, <1>0, <1>4 DEF ClockSweepTick, hdr, map, Quiet
  <2>3. AtWork(p)'
    BY Zenon, <1>0, <1>4, <2>1 DEF ClockSweepTick, Go, Quiet, AtWork, Collided, Allocating,
        Typed, LocalsTyped, StrategyTyped
  <2>4. KeepsOuter(p)'
    BY Zenon, <1>0, <1>4, <2>1 DEF ClockSweepTick, Go, Quiet, AtWork, KeepsOuter, Aborting,
        Typed, LocalsTyped
  <2> QED
    BY <1>0, <2>1, <2>3, <2>4, QuietStep
<1>5. CASE TrySweptBuffer(p)
  <2>1. cur[p] \in Buffers /\ pc[p] = "swept" /\ want[p] \in Pages
    BY Zenon, <1>0, <1>5 DEF TrySweptBuffer, AtWork, Allocating
  <2>2. Local(p) /\ PinsOnly(p)
    BY ZenonT(40), <1>0, <1>5, <2>1 DEF TrySweptBuffer, ClaimVictim, Go, flags, map, ckpt, loc,
        Local, PinsOnly, Typed,
        LocalsTyped, HeadersTyped
  <2>3. UNCHANGED <<want, cur, outer, old, ret, dirty>>
    BY Zenon, <1>5 DEF TrySweptBuffer, flags, loc
  <2>4. CASE pins[cur[p]] = {} /\ ClaimVictim(p, cur[p])
    <3>1. pins'[cur[p]] = {p}
      BY Zenon, <1>0, <1>5, <2>1, <2>4 DEF ClaimVictim, Typed, HeadersTyped
    <3>2. /\ pc'[p] \in {"vlock", "inval", "insert"}
          /\ pc'[p] = "vlock" => valid[cur[p]]
          /\ pc'[p] = "inval" => tag[cur[p]] # NoPage
          /\ pc'[p] = "insert" => tag[cur[p]] = NoPage
      BY Zenon, <1>0, <2>1, <2>4 DEF ClaimVictim, Go, MapInv, Headers, Typed, LocalsTyped
    <3>3. AtWork(p)'
      BY Zenon, <1>0, <2>1, <2>2, <2>3, <3>1, <3>2 DEF PinsOnly, AtWork, Collided, Allocating
    <3>4. outer[p] # NoBuffer => outer[p] # cur[p] /\ p \in pins'[outer[p]]
      BY Zenon, <1>0, <2>1, <2>4 DEF KeepsOuter, Aborting, ClaimVictim, Typed, HeadersTyped,
          LocalsTyped
    <3>5. KeepsOuter(p)'
      BY Zenon, <1>0, <2>1, <2>2, <2>3, <3>2, <3>4 DEF PinsOnly, KeepsOuter, Aborting
    <3> QED
      BY Zenon, <1>0, <2>1, <2>2, <2>3, <3>3, <3>5, PinStep
  <2>5. CASE UNCHANGED pins /\ pc'[p] \in {"sweep", "abort"}
    <3>1. AtWork(p)'
      BY Zenon, <1>0, <2>1, <2>2, <2>3, <2>5 DEF PinsOnly, AtWork, Collided, Allocating
    <3>2. KeepsOuter(p)'
      BY Zenon, <1>0, <2>1, <2>2, <2>3, <2>5 DEF PinsOnly, KeepsOuter, Aborting
    <3> QED
      BY <1>0, <2>1, <2>2, <2>3, <3>1, <3>2, PinStep
  <2> QED
    BY Zenon, <1>0, <1>5, <2>4, <2>5 DEF TrySweptBuffer, Go, Typed, LocalsTyped
<1>6. CASE InvalidateVictimBuffer(p)
  <2>1. /\ cur[p] \in Buffers /\ pc[p] = "inval" /\ p \in pins[cur[p]]
        /\ tag[cur[p]] \in Pages /\ want[p] \in Pages
    BY Zenon, <1>0, <1>6 DEF InvalidateVictimBuffer, AtWork, Allocating, Typed, HeadersTyped
  <2>2. Local(p) /\ UNCHANGED <<pins, table, want, cur, outer>>
    BY Zenon, <1>0, <1>6 DEF InvalidateVictimBuffer, UnpinThen, Go, ckpt, Local, Typed,
        LocalsTyped
  <2>3. CASE StillVictim(p, cur[p])
    <3>1. pins[cur[p]] = {p} /\ LockPartition(p, tag[cur[p]]) /\ ClearBuffer(cur[p])
      BY Zenon, <1>6, <2>3 DEF InvalidateVictimBuffer, StillVictim
    <3>2. pc'[p] = "delete" /\ old'[p] = tag[cur[p]] /\ ret' = ret
      BY Zenon, <1>0, <1>6, <2>3 DEF InvalidateVictimBuffer, Go, Typed, LocalsTyped
    <3>3. part'[Partition[tag[cur[p]]]] = p /\ table[tag[cur[p]]] = cur[p]
      BY Zenon, <1>0, <2>1, <3>1, NoneIsNone DEF LockPartition, MapInv, MappingSound, Typed,
          LocksTyped
    <3>4. tag'[cur[p]] = NoPage
      BY Zenon, <2>1, <3>1 DEF ClearBuffer, Typed, HeadersTyped
    <3>5. AtWork(p)'
      BY Zenon, <1>0, <2>1, <2>2, <3>1, <3>2, <3>3, <3>4 DEF AtWork, Collided, Allocating
    <3>6. outer[p] # NoBuffer =>
            tag'[outer[p]] = tag[outer[p]] /\ valid'[outer[p]] = valid[outer[p]]
      BY Zenon, <1>0, <2>1, <3>1 DEF KeepsOuter, Aborting, ClearBuffer, Typed, HeadersTyped,
          LocalsTyped
    <3>7. KeepsOuter(p)'
      BY Zenon, <1>0, <2>1, <2>2, <3>2, <3>6 DEF KeepsOuter, Aborting
    <3> QED
      BY Zenon, <1>0, <1>6, <2>1, <2>2, <3>1, <3>2, <3>5, <3>7, ClearStep
          DEF InvalidateVictimBuffer, ClearBuffer
  <2>4. CASE ~ StillVictim(p, cur[p])
    <3>1. Quiet /\ pc'[p] = "unpin" /\ ret'[p] = "getvictim" /\ UNCHANGED <<dirty, old>>
      BY Zenon, <1>0, <1>6, <2>4 DEF InvalidateVictimBuffer, UnpinThen, Go, flags, Quiet,
          Typed, LocalsTyped
    <3>2. AtWork(p)'
      BY Zenon, <1>0, <2>1, <2>2, <3>1 DEF Quiet, AtWork, Collided, Allocating
    <3>3. KeepsOuter(p)'
      BY Zenon, <1>0, <2>1, <2>2, <3>1 DEF Quiet, KeepsOuter, Aborting
    <3> QED
      BY Zenon, <1>0, <2>1, <2>2, <3>1, <3>2, <3>3, QuietStep
  <2> QED
    BY <2>3, <2>4
<1>7. CASE DeleteVictimMapping(p)
  <2>1. /\ pc[p] = "delete" /\ cur[p] \in Buffers /\ pins[cur[p]] = {p}
        /\ tag[cur[p]] = NoPage /\ want[p] \in Pages
        /\ old[p] \in Pages /\ part[Partition[old[p]]] = p /\ table[old[p]] = cur[p]
    BY Zenon, <1>0, <1>7 DEF DeleteVictimMapping, AtWork, Allocating
  <2>2. /\ Local(p) /\ UNCHANGED <<tag, pins, valid, dirty, want, cur, outer, ret>>
        /\ pc'[p] = "insert"
    BY Zenon, <1>0, <1>7 DEF DeleteVictimMapping, Go, hdr, ckpt, Local, Typed, LocalsTyped
  <2>3. AtWork(p)'
    BY Zenon, <1>0, <2>1, <2>2 DEF AtWork, Collided, Allocating
  <2>4. KeepsOuter(p)'
    BY Zenon, <1>0, <2>1, <2>2 DEF KeepsOuter, Aborting
  <2>5. Unmaps(p, old[p]) /\ tag[table[old[p]]] # old[p]
    BY Zenon, <2>1, NoneIsNone DEF Unmaps
  <2> QED
    BY Zenon, <1>0, <1>7, <2>1, <2>2, <2>3, <2>4, <2>5, DeleteStep DEF DeleteVictimMapping
<1>8. CASE BufTableInsert(p)
  <2>1. /\ pc[p] = "insert" /\ cur[p] \in Buffers /\ pins[cur[p]] = {p}
        /\ tag[cur[p]] = NoPage /\ want[p] \in Pages /\ want[p] # NoPage
        /\ part[Partition[want[p]]] = NoProc /\ Partition[want[p]] \in Partitions
    BY Zenon, <1>0, <1>8, NoneIsNone DEF BufTableInsert, PartitionFree, AtWork, Allocating
  <2>2. /\ Local(p) /\ UNCHANGED <<pins, valid, dirty, want, cur, outer, old>>
    BY Zenon, <1>0, <1>8 DEF BufTableInsert, UnpinThen, Go, flags, loc, ckpt, Local, Typed,
        LocalsTyped
  <2>3. CASE ~ Collision(want[p])
    <3>1. /\ table' = [table EXCEPT ![want[p]] = cur[p]]
          /\ tag' = [tag EXCEPT ![cur[p]] = want[p]]
          /\ pc'[p] = "startin" /\ UNCHANGED <<part, ret>> /\ table[want[p]] = NoBuffer
      BY Zenon, <1>0, <1>8, <2>3 DEF BufTableInsert, Collision, Go, Typed, LocalsTyped
    <3>2. /\ tag'[cur[p]] = want[p] /\ \A b \in Buffers \ {cur[p]} : tag'[b] = tag[b]
          /\ table'[want[p]] = cur[p] /\ \A t \in Pages \ {want[p]} : table'[t] = table[t]
      BY Zenon, <2>1, <3>1 DEF Typed, HeadersTyped, LocksTyped
    <3>3. Frame(p)
      BY SMTT(40), Z3T(40), <2>1, <2>2, <3>1, <3>2, NoneIsNone DEF Frame, Spares
    <3>4. AtWork(p)'
      BY Zenon, <1>0, <2>1, <2>2, <3>1, <3>2 DEF AtWork, Collided, Allocating
    <3>5. outer[p] # NoBuffer => tag'[outer[p]] = tag[outer[p]]
      BY Zenon, <1>0, <2>1, <3>2 DEF KeepsOuter, Aborting, Typed, LocalsTyped
    <3>6. KeepsOuter(p)'
      BY Zenon, <1>0, <2>1, <2>2, <3>1, <3>5 DEF KeepsOuter, Aborting
    <3>7. Headers'
      BY ZenonT(40), <2>1, <2>2, <3>2 DEF MapInv, Headers
    <3>8. \A b \in Buffers : tag'[b] # NoPage => table'[tag'[b]] = b
      <4>1. ASSUME NEW b \in Buffers \ {cur[p]}, tag[b] # NoPage
            PROVE  table'[tag[b]] = b
        <5>1. tag[b] \in Pages /\ table[tag[b]] = b /\ b # NoBuffer
          BY Zenon, <4>1, NoneIsNone DEF MapInv, MappingSound, Typed, HeadersTyped
        <5> QED
          BY Zenon, <3>1, <3>2, <5>1
      <4> QED
        BY ZenonT(40), <2>1, <3>2, <4>1
    <3>9. ASSUME NEW t \in Pages, table'[t] # NoBuffer, tag'[table'[t]] # t
          PROVE  \E q \in Procs : Unmaps(q, t)' /\ part'[Partition[t]] = q
      <4>1. t # want[p] /\ table[t] # NoBuffer /\ table[t] \in Buffers
        BY Zenon, <3>2, <3>9 DEF Typed, LocksTyped
      <4>2. tag[table[t]] # t
        BY Zenon, <2>1, <3>2, <3>9, <4>1, NoneIsNone
      <4>3. PICK q \in Procs : Unmaps(q, t) /\ part[Partition[t]] = q
        BY Zenon, <4>1, <4>2 DEF MapInv, MappingSound
      <4>4. q # p
        BY Zenon, <2>1, <4>3 DEF Unmaps
      <4>5. Unmaps(q, t)'
        BY Zenon, <2>2, <4>3, <4>4 DEF Unmaps, Local
      <4> QED
        BY Zenon, <3>1, <4>3, <4>5
    <3>10. MappingSound'
      BY Zenon, <3>8, <3>9 DEF MappingSound
    <3> QED
      BY <1>0, <3>3, <3>4, <3>6, <3>7, <3>10, Assemble
  <2>4. CASE Collision(want[p])
    <3>1. /\ part' = [part EXCEPT ![Partition[want[p]]] = p] /\ UNCHANGED <<table, tag>>
          /\ pc'[p] = "unpin" /\ ret'[p] = "collide" /\ table[want[p]] # NoBuffer
      BY Zenon, <1>0, <1>8, <2>4 DEF BufTableInsert, Collision, LockPartition, UnpinThen, Go,
          Typed, LocalsTyped
    <3>2. /\ part'[Partition[want[p]]] = p
          /\ \A t \in Pages, q \in Procs : part[Partition[t]] = q => part'[Partition[t]] = q
      BY Zenon, <2>1, <3>1, NoneIsNone DEF Typed, LocksTyped
    <3>3. Frame(p)
      BY Zenon, <2>2, <3>1, <3>2 DEF Frame, Spares
    <3>4. AtWork(p)'
      BY Zenon, <1>0, <2>1, <2>2, <3>1, <3>2 DEF AtWork, Collided, Allocating
    <3>5. KeepsOuter(p)'
      BY Zenon, <1>0, <2>1, <2>2, <3>1 DEF KeepsOuter, Aborting
    <3>6. MappingSound'
      <4>1. \A c \in Buffers : tag'[c] # NoPage => table'[tag'[c]] = c
        BY Zenon, <3>1 DEF MapInv, MappingSound
      <4>2. ASSUME NEW t \in Pages, table'[t] # NoBuffer, tag'[table'[t]] # t
            PROVE  \E q \in Procs : Unmaps(q, t)' /\ part'[Partition[t]] = q
        <5>1. PICK q \in Procs : Unmaps(q, t) /\ part[Partition[t]] = q
          BY Zenon, <3>1, <4>2 DEF MapInv, MappingSound
        <5>2. q # p
          BY Zenon, <2>1, <5>1 DEF Unmaps
        <5>3. Unmaps(q, t)'
          BY Zenon, <2>2, <5>1, <5>2 DEF Unmaps, Local
        <5> QED
          BY <3>2, <5>1, <5>3
      <4> QED
        BY Zenon, <4>1, <4>2 DEF MappingSound
    <3>7. Headers'
      BY Zenon, <2>2, <3>1 DEF MapInv, Headers
    <3> QED
      BY <1>0, <3>3, <3>4, <3>5, <3>6, <3>7, Assemble
  <2> QED
    BY <2>3, <2>4
<1>9. CASE PinExisting(p)
  <2> DEFINE b == table[want[p]]
  <2>1. /\ pc[p] = "pinexisting" /\ want[p] \in Pages /\ part[Partition[want[p]]] = p
        /\ b # NoBuffer /\ Partition[want[p]] \in Partitions
    BY Zenon, <1>0, <1>9, NoneIsNone DEF PinExisting, AtWork, Collided
  <2>2. b \in Buffers /\ tag[b] = want[p]
    BY ZenonT(40), <2>1, NoneIsNone DEF MapInv, MappingSound, Unmaps, Typed, LocksTyped
  <2>3. /\ Local(p) /\ UNCHANGED <<tag, table, valid, dirty, want, outer, old, ret>>
        /\ cur'[p] = b
        /\ pins' = [pins EXCEPT ![b] = @ \cup {p}]
        /\ part' = [part EXCEPT ![Partition[want[p]]] = NoProc]
        /\ pc'[p] \in {"pinned", "startin"} /\ (pc'[p] = "pinned" => valid[b])
    BY Zenon, <1>0, <1>9 DEF PinExisting, PinBuffer, UnlockPartition, AfterPin, Go, flags,
        ckpt, Local, Typed,
        LocalsTyped
  <2>4. /\ p \in pins'[b] /\ \A c \in Buffers : pins[c] \subseteq pins'[c]
        /\ \A c \in Buffers \ {b} : pins'[c] = pins[c]
        /\ \A t \in Pages, q \in Procs \ {p} : part[Partition[t]] = q => part'[Partition[t]] = q
    BY Zenon, <2>1, <2>2, <2>3, NoneIsNone DEF Typed, HeadersTyped, LocksTyped
  <2>5. Frame(p)
    <3>1. ASSUME NEW q \in Procs \ {p}, NEW c \in Buffers, pins[c] = {q}, tag[c] = NoPage
          PROVE  pins'[c] = {q}
      BY Zenon, <2>1, <2>2, <2>4, <3>1, NoneIsNone
    <3>2. \A q \in Procs \ {p} : Spares(q)
      BY Zenon, <2>3, <2>4, <3>1 DEF Spares
    <3> QED
      BY Zenon, <2>3, <3>2 DEF Frame
  <2>6. AtWork(p)'
    BY Zenon, <1>0, <2>1, <2>2, <2>3, <2>4 DEF AtWork, Collided, Allocating
  <2>7. KeepsOuter(p)'
    BY ZenonT(40), <1>0, <2>1, <2>2, <2>3, <2>4 DEF KeepsOuter, Aborting, Typed, LocalsTyped
  <2>8. MappingSound'
    <3>1. ASSUME NEW t \in Pages, table'[t] # NoBuffer, tag'[table'[t]] # t
          PROVE  \E q \in Procs : Unmaps(q, t)' /\ part'[Partition[t]] = q
      <4>1. PICK q \in Procs : Unmaps(q, t) /\ part[Partition[t]] = q
        BY Zenon, <2>3, <3>1 DEF MapInv, MappingSound
      <4>2. q # p
        BY Zenon, <2>1, <4>1 DEF Unmaps
      <4>3. Unmaps(q, t)'
        BY Zenon, <2>3, <4>1, <4>2 DEF Unmaps, Local
      <4> QED
        BY Zenon, <2>4, <4>1, <4>2, <4>3
    <3> QED
      BY Zenon, <2>3, <3>1 DEF MapInv, MappingSound
  <2>9. Headers'
    BY Zenon, <2>3 DEF MapInv, Headers
  <2> QED
    BY <1>0, <2>5, <2>6, <2>7, <2>8, <2>9, Assemble
<1>10. CASE ReadPage(p)
  <2>1. /\ pc[p] = "read" /\ cur[p] \in Buffers /\ p \in pins[cur[p]] /\ want[p] \in Pages
        /\ tag[cur[p]] = want[p]
    BY Zenon, <1>0, <1>10 DEF ReadPage, AtWork
  <2>2. /\ Local(p) /\ UNCHANGED <<tag, pins, table, part, dirty, want, cur, outer, old, ret>>
        /\ pc'[p] = "pinned"
    BY Zenon, <1>0, <1>10 DEF ReadPage, Go, map, loc, ckpt, Local, Typed, LocalsTyped
  <2>3. valid'[cur[p]] /\ \A b \in Buffers \ {cur[p]} : valid'[b] = valid[b]
    BY Zenon, <1>10, <2>1 DEF ReadPage, Typed, HeadersTyped
  <2>4. Frame(p)
    BY Zenon, <2>2, <2>3 DEF Frame, Spares
  <2>5. AtWork(p)'
    BY Zenon, <1>0, <2>1, <2>2, <2>3 DEF AtWork, Collided, Allocating
  <2>6. KeepsOuter(p)'
    BY Zenon, <1>0, <2>1, <2>2, <2>3 DEF KeepsOuter, Aborting, Typed, LocalsTyped
  <2>7. Headers'
    BY Zenon, <2>1, <2>2, <2>3, NoneIsNone DEF MapInv, Headers
  <2>8. MappingSound'
    BY SMTT(40), Z3T(40), <2>1, <2>2 DEF MapInv, MappingSound, Unmaps, Local
  <2> QED
    BY <1>0, <2>4, <2>5, <2>6, <2>7, <2>8, Assemble
<1>11. CASE MarkBufferDirty(p)
  <2>1. Quiet /\ pc[p] \notin {"delete", "dropdelete"}
    BY Zenon, <1>0, <1>11 DEF MarkBufferDirty, map, Quiet
  <2>2. \A b \in Buffers : dirty'[b] => dirty[b] \/ valid[b]
    BY Zenon, <1>0, <1>11 DEF MarkBufferDirty, AtWork, Typed, HeadersTyped
  <2>3. AtWork(p)'
    BY Zenon, <1>0, <1>11, <2>1 DEF MarkBufferDirty, Go, loc, Quiet, AtWork, KeepsOuter,
        Collided, Allocating, Typed, LocalsTyped
  <2>4. KeepsOuter(p)'
    BY Zenon, <1>0, <1>11, <2>1 DEF MarkBufferDirty, Go, loc, Quiet, AtWork, KeepsOuter,
        Aborting, Typed, LocalsTyped
  <2> QED
    BY Zenon, <1>0, <2>1, <2>2, <2>3, <2>4, QuietStep
<1>12. CASE SetHintDirty(p)
  <2>1. Quiet /\ pc[p] \notin {"delete", "dropdelete"}
    BY Zenon, <1>0, <1>12 DEF SetHintDirty, map, Quiet
  <2>2. \A b \in Buffers : dirty'[b] => dirty[b] \/ valid[b]
    BY Zenon, <1>0, <1>12 DEF SetHintDirty, AtWork, Typed, HeadersTyped
  <2>3. AtWork(p)'
    BY Zenon, <1>0, <1>12, <2>1 DEF SetHintDirty, Go, loc, Quiet, AtWork, KeepsOuter,
        Collided, Allocating, Typed, LocalsTyped
  <2>4. KeepsOuter(p)'
    BY Zenon, <1>0, <1>12, <2>1 DEF SetHintDirty, Go, loc, Quiet, AtWork, KeepsOuter,
        Aborting, Typed, LocalsTyped
  <2> QED
    BY <1>0, <2>1, <2>2, <2>3, <2>4, QuietStep
<1>13. CASE DropRelationBuffers(p)
  <2>1. Quiet /\ UNCHANGED dirty /\ pc[p] \notin {"delete", "dropdelete"}
    BY Zenon, <1>0, <1>13 DEF DropRelationBuffers, hdr, map, Quiet
  <2>3. AtWork(p)'
    <3>1. scan[p] < NBuffers => scan[p] \in Buffers
      BY SMTT(40), Z3T(40), <1>0, NextBuffer DEF Typed, LocalsTyped, Buffers
    <3> QED
      BY Zenon, <1>0, <1>13, <2>1, <3>1 DEF DropRelationBuffers, Go, Quiet, AtWork, Collided,
          Allocating, Typed, LocalsTyped
  <2>4. KeepsOuter(p)'
    BY Zenon, <1>0, <1>13, <2>1 DEF DropRelationBuffers, Go, Quiet, AtWork, KeepsOuter,
        Aborting, Typed, LocalsTyped
  <2> QED
    BY <1>0, <2>1, <2>3, <2>4, QuietStep
<1>14. CASE InvalidateBuffer(p)
  <2>1. /\ cur[p] \in Buffers /\ pc[p] = "invalidate" /\ want[p] \in Pages /\ outer[p] = NoBuffer
    BY Zenon, <1>0, <1>14 DEF InvalidateBuffer, AtWork
  <2>2. Local(p) /\ UNCHANGED <<pins, table, want, cur, outer, old, ret>>
    BY Zenon, <1>0, <1>14 DEF InvalidateBuffer, RetryPinned, Go, ckpt, loc, Local, Typed,
        LocalsTyped
  <2>3. CASE tag[cur[p]] = want[p] /\ pins[cur[p]] = {}
    <3>1. LockPartition(p, want[p]) /\ ClearBuffer(cur[p]) /\ pc'[p] = "dropdelete"
      BY Zenon, <1>0, <1>14, <2>3 DEF InvalidateBuffer, Go, Typed, LocalsTyped
    <3>2. part'[Partition[want[p]]] = p /\ table[want[p]] = cur[p]
      BY Zenon, <1>0, <2>1, <2>3, <3>1, NoneIsNone DEF LockPartition, MapInv, MappingSound,
          Typed, LocksTyped
    <3>3. tag'[cur[p]] = NoPage
      BY Zenon, <2>1, <3>1 DEF ClearBuffer, Typed, HeadersTyped
    <3>4. AtWork(p)'
      BY Zenon, <1>0, <2>1, <2>2, <3>1, <3>2, <3>3, NoneIsNone DEF AtWork, Collided, Allocating
    <3>5. KeepsOuter(p)'
      BY Zenon, <1>0, <2>1, <2>2, <3>1 DEF KeepsOuter
    <3> QED
      BY Zenon, <1>0, <1>14, <2>1, <2>2, <2>3, <3>1, <3>4, <3>5, ClearStep
          DEF InvalidateBuffer, ClearBuffer
  <2>4. CASE ~ (tag[cur[p]] = want[p] /\ pins[cur[p]] = {})
    <3>1. Quiet /\ pc'[p] \in {"drop", "waitio"} /\ UNCHANGED dirty
      BY Zenon, <1>0, <1>14, <2>4 DEF InvalidateBuffer, RetryPinned, Go, flags, Quiet, Typed,
          LocalsTyped
    <3>2. AtWork(p)'
      BY Zenon, <1>0, <2>1, <2>2, <3>1 DEF Quiet, AtWork, Collided, Allocating
    <3>3. KeepsOuter(p)'
      BY Zenon, <1>0, <2>1, <2>2, <3>1 DEF Quiet, KeepsOuter, Aborting
    <3> QED
      BY Zenon, <1>0, <2>1, <2>2, <3>1, <3>2, <3>3, QuietStep
  <2> QED
    BY <2>3, <2>4
<1>15. CASE DeleteDropped(p)
  <2>1. /\ pc[p] = "dropdelete" /\ cur[p] \in Buffers /\ want[p] \in Pages /\ outer[p] = NoBuffer
        /\ part[Partition[want[p]]] = p /\ table[want[p]] = cur[p] /\ tag[cur[p]] # want[p]
    BY Zenon, <1>0, <1>15 DEF DeleteDropped, AtWork
  <2>2. /\ Local(p) /\ UNCHANGED <<tag, pins, valid, dirty, want, cur, outer, old, ret>>
        /\ pc'[p] = "dropfree"
    BY Zenon, <1>0, <1>15 DEF DeleteDropped, Go, hdr, loc, ckpt, Local, Typed, LocalsTyped
  <2>3. AtWork(p)'
    BY Zenon, <1>0, <2>1, <2>2 DEF AtWork, Collided, Allocating
  <2>4. KeepsOuter(p)'
    BY Zenon, <1>0, <2>1, <2>2 DEF KeepsOuter
  <2>5. Unmaps(p, want[p])
    BY Zenon, <2>1 DEF Unmaps
  <2> QED
    BY Zenon, <1>0, <1>15, <2>1, <2>2, <2>3, <2>4, <2>5, DeleteStep DEF DeleteDropped
<1>16. CASE \/ LockVictim(p) \/ FreeVictim(p) \/ StartInput(p)
  <2>1. Quiet /\ UNCHANGED dirty /\ pc[p] \notin {"delete", "dropdelete"}
    BY Zenon, <1>0, <1>16 DEF LockVictim, FreeVictim, StartInput, hdr, map, Quiet
  <2>2. AtWork(p)'
    BY ZenonT(40), <1>0, <1>16, <2>1 DEF LockVictim, FreeVictim, StartInput, UnpinThen,
        VictimLocked, Go, loc, Quiet, AtWork, KeepsOuter, Collided, Allocating,
        Typed, LocalsTyped
  <2>3. KeepsOuter(p)'
    BY ZenonT(40), <1>0, <1>16, <2>1 DEF LockVictim, FreeVictim, StartInput, UnpinThen,
        VictimLocked, Go, loc, Quiet, AtWork, KeepsOuter, Aborting, Typed, LocalsTyped
  <2> QED
    BY <1>0, <2>1, <2>2, <2>3, QuietStep
<1>17. CASE \/ LockShare(p) \/ LockExclusive(p)
  <2>1. Quiet /\ UNCHANGED dirty /\ pc[p] \notin {"delete", "dropdelete"}
    BY Zenon, <1>0, <1>17 DEF LockShare, LockExclusive, hdr, map, Quiet
  <2>2. AtWork(p)'
    BY Zenon, <1>0, <1>17, <2>1 DEF LockShare, LockExclusive, Go, loc, Quiet, AtWork,
        KeepsOuter, Collided, Allocating, Typed, LocalsTyped
  <2>3. KeepsOuter(p)'
    BY Zenon, <1>0, <1>17, <2>1 DEF LockShare, LockExclusive, Go, loc, Quiet, AtWork,
        KeepsOuter, Aborting, Typed, LocalsTyped
  <2> QED
    BY <1>0, <2>1, <2>2, <2>3, QuietStep
<1>18. CASE \/ UnlockBuffer(p) \/ ReleaseBuffer(p) \/ LogChange(p)
  <2>1. Quiet /\ UNCHANGED dirty /\ pc[p] \notin {"delete", "dropdelete"}
    BY Zenon, <1>0, <1>18 DEF UnlockBuffer, ReleaseBuffer, LogChange, hdr, map, Quiet
  <2>2. AtWork(p)'
    BY Zenon, <1>0, <1>18, <2>1 DEF UnlockBuffer, ReleaseBuffer, LogChange, UnpinThen, Go,
        loc, Quiet, AtWork, KeepsOuter, Collided, Allocating, Typed, LocalsTyped
  <2>3. KeepsOuter(p)'
    BY Zenon, <1>0, <1>18, <2>1 DEF UnlockBuffer, ReleaseBuffer, LogChange, UnpinThen, Go,
        loc, Quiet, AtWork, KeepsOuter, Aborting, Typed, LocalsTyped
  <2> QED
    BY <1>0, <2>1, <2>2, <2>3, QuietStep
<1>19. CASE \/ SetHint(p) \/ MarkBufferDirtyHint(p)
  <2>1. Quiet /\ UNCHANGED dirty /\ pc[p] \notin {"delete", "dropdelete"}
    BY Zenon, <1>0, <1>19 DEF SetHint, MarkBufferDirtyHint, hdr, map, Quiet
  <2>2. AtWork(p)'
    BY Zenon, <1>0, <1>19, <2>1 DEF SetHint, MarkBufferDirtyHint, Go, loc, Quiet, AtWork,
        KeepsOuter, Collided, Allocating, Typed, LocalsTyped
  <2>3. KeepsOuter(p)'
    BY Zenon, <1>0, <1>19, <2>1 DEF SetHint, MarkBufferDirtyHint, Go, loc, Quiet, AtWork,
        KeepsOuter, Aborting, Typed, LocalsTyped
  <2> QED
    BY <1>0, <2>1, <2>2, <2>3, QuietStep
<1>20. CASE \/ LockBufferForCleanup(p) \/ CheckCleanup(p)
  <2>1. Quiet /\ UNCHANGED dirty /\ pc[p] \notin {"delete", "dropdelete"}
    BY Zenon, <1>0, <1>20 DEF LockBufferForCleanup, CheckCleanup, hdr, flags, map, Quiet
  <2>2. AtWork(p)'
    BY Zenon, <1>0, <1>20, <2>1 DEF LockBufferForCleanup, CheckCleanup, Go, loc, Quiet,
        AtWork, KeepsOuter, Collided, Allocating, Typed, LocalsTyped
  <2>3. KeepsOuter(p)'
    BY Zenon, <1>0, <1>20, <2>1 DEF LockBufferForCleanup, CheckCleanup, Go, loc, Quiet,
        AtWork, KeepsOuter, Aborting, Typed, LocalsTyped
  <2> QED
    BY <1>0, <2>1, <2>2, <2>3, QuietStep
<1>21. CASE \/ UnlockForWait(p) \/ WakeUp(p) \/ AfterWait(p)
  <2>1. Quiet /\ UNCHANGED dirty /\ pc[p] \notin {"delete", "dropdelete"}
    BY Zenon, <1>0, <1>21 DEF UnlockForWait, WakeUp, AfterWait, hdr, flags, map, Quiet
  <2>2. AtWork(p)'
    BY Zenon, <1>0, <1>21, <2>1 DEF UnlockForWait, WakeUp, AfterWait, Go, loc, Quiet,
        AtWork, KeepsOuter, Collided, Allocating, Typed, LocalsTyped
  <2>3. KeepsOuter(p)'
    BY Zenon, <1>0, <1>21, <2>1 DEF UnlockForWait, WakeUp, AfterWait, Go, loc, Quiet,
        AtWork, KeepsOuter, Aborting, Typed, LocalsTyped
  <2> QED
    BY <1>0, <2>1, <2>2, <2>3, QuietStep
<1>22. CASE \/ WaitIO(p) \/ FreeDropped(p)
  <2>1. Quiet /\ UNCHANGED dirty /\ pc[p] \notin {"delete", "dropdelete"}
    BY Zenon, <1>0, <1>22 DEF WaitIO, FreeDropped, hdr, map, Quiet
  <2>2. AtWork(p)'
    BY ZenonT(40), <1>0, <1>22, <2>1 DEF WaitIO, FreeDropped, Go, loc, Quiet, AtWork, KeepsOuter,
        Collided, Allocating, Typed, LocalsTyped
  <2>3. KeepsOuter(p)'
    BY Zenon, <1>0, <1>22, <2>1 DEF WaitIO, FreeDropped, Go, loc, Quiet, AtWork, KeepsOuter,
        Aborting, Typed, LocalsTyped
  <2> QED
    BY <1>0, <2>1, <2>2, <2>3, QuietStep
<1>23. ASSUME NEW t \in Pages, DropRelation(p, t)
      PROVE  MapInv'
  <2>1. Quiet /\ UNCHANGED dirty /\ pc[p] \notin {"delete", "dropdelete"}
    BY Zenon, <1>0, <1>23 DEF DropRelation, hdr, map, Quiet
  <2>2. AtWork(p)'
    BY Zenon, <1>0, <1>23, <2>1 DEF DropRelation, Go, Quiet, AtWork, KeepsOuter, Collided,
        Allocating, Typed, LocalsTyped
  <2>3. KeepsOuter(p)'
    BY Zenon, <1>0, <1>23, <2>1 DEF DropRelation, Go, Quiet, AtWork, KeepsOuter, Aborting,
        Typed, LocalsTyped
  <2> QED
    BY Zenon, <1>0, <2>1, <2>2, <2>3, QuietStep
<1> QED
  BY Zenon, <1>1, <1>2, <1>3, <1>4, <1>5, <1>6, <1>7, <1>8, <1>9, <1>10, <1>11, <1>12,
      <1>13, <1>14, <1>15, <1>16, <1>17, <1>18, <1>19, <1>20, <1>21, <1>22, <1>23 DEF Backend

\* The mapping table, in the steps of the checkpointer.
LEMMA MapCheckpoint ==
    ASSUME Typed, MapInv, Checkpoint
    PROVE  MapInv'
<1> USE DEF Holding, Writing, Unpinning, Dropping, AtVictim, Looking, Reading,
    Pinning, HasBuffer
<1>0. /\ Checkpointer \in Procs /\ AtWork(Checkpointer) /\ KeepsOuter(Checkpointer)
      /\ Local(Checkpointer)
  BY Zenon, LocalCheckpoint DEF MapInv, Procs
<1>1. CASE CreateCheckPoint
  <2>1. Quiet /\ UNCHANGED dirty /\ pc[Checkpointer] \notin {"delete", "dropdelete"}
    BY Zenon, <1>0, <1>1 DEF CreateCheckPoint, hdr, map, Quiet
  <2>3. AtWork(Checkpointer)'
    BY Zenon, <1>0, <1>1, <2>1 DEF CreateCheckPoint, Go, loc, Quiet, AtWork, KeepsOuter,
        Collided, Allocating, Typed, LocalsTyped
  <2>4. KeepsOuter(Checkpointer)'
    BY Zenon, <1>0, <1>1, <2>1 DEF CreateCheckPoint, Go, loc, Quiet, AtWork, KeepsOuter,
        Aborting, Typed, LocalsTyped
  <2>5. AtCheckpoint'
    <3>1. 0 \in Buffers
      BY SMTT(40), Z3T(40), NextBuffer DEF Buffers
    <3> QED
      BY Zenon, <1>0, <1>1, <3>1 DEF CreateCheckPoint, Go, loc, MapInv, AtCheckpoint, Typed,
          LocalsTyped
  <2> QED
    BY Zenon, <1>0, <2>1, <2>3, <2>4, <2>5, QuietStep
<1>2. CASE MarkForCheckpoint
  <2>1. Quiet /\ UNCHANGED dirty /\ pc[Checkpointer] \notin {"delete", "dropdelete"}
    BY Zenon, <1>0, <1>2 DEF MarkForCheckpoint, map, Quiet
  <2>3. AtWork(Checkpointer)'
    BY Zenon, <1>0, <1>2, <2>1 DEF MarkForCheckpoint, Go, loc, Quiet, AtWork, KeepsOuter,
        Collided, Allocating, Typed, LocalsTyped
  <2>4. KeepsOuter(Checkpointer)'
    BY Zenon, <1>0, <1>2, <2>1 DEF MarkForCheckpoint, Go, loc, Quiet, AtWork, KeepsOuter,
        Aborting, Typed, LocalsTyped
  <2>5. AtCheckpoint'
    <3>1. (scan[Checkpointer] + 1) % NBuffers \in Buffers
      BY Zenon, <1>0, <1>2, NextBuffer DEF MarkForCheckpoint, MapInv, AtCheckpoint
    <3> QED
      BY Zenon, <1>0, <1>2, <3>1 DEF MarkForCheckpoint, Go, loc, MapInv, AtCheckpoint, Typed,
          LocalsTyped
  <2> QED
    BY <1>0, <2>1, <2>3, <2>4, <2>5, QuietStep
<1>3. CASE SyncOneBuffer
  <2> DEFINE c == Checkpointer
  <2>1. cur[c] \in Buffers /\ pc[c] = "syncone" /\ outer[c] = NoBuffer /\ c \notin Backends
    BY Zenon, <1>0, <1>3, NoneIsNone DEF SyncOneBuffer, AtWork, MapInv, AtCheckpoint
  <2>2. Local(c)
    BY Zenon, <1>0, <1>3 DEF SyncOneBuffer, Go, loc, ckpt, Local, Typed, LocalsTyped
  <2>3. PinsOnly(c)
    <3>1. UNCHANGED <<tag, valid, table, part>>
      BY Zenon, <1>3 DEF SyncOneBuffer, flags, map
    <3>2. UNCHANGED pins \/ (valid[cur[c]] /\ pins' = [pins EXCEPT ![cur[c]] = @ \cup {c}])
      BY Zenon, <1>3 DEF SyncOneBuffer
    <3>3. valid[cur[c]] => tag[cur[c]] # NoPage
      BY Zenon, <2>1 DEF MapInv, Headers
    <3> QED
      BY ZenonT(40), <2>1, <3>1, <3>2, <3>3 DEF PinsOnly, Typed, HeadersTyped
  <2>4. AtWork(c)'
    <3>1. UNCHANGED <<want, cur, outer, old, ret>>
      BY Zenon, <1>3 DEF SyncOneBuffer, loc
    <3>2. CASE valid[cur[c]] /\ dirty[cur[c]]
      <4>1. c \in pins'[cur[c]] /\ pc'[c] = "flushlock"
        BY SMTT(40), Z3T(40), <1>0, <1>3, <2>1, <3>2 DEF SyncOneBuffer, Go, Typed,
            HeadersTyped, LocalsTyped
      <4> QED
        BY Zenon, <2>1, <2>3, <3>1, <3>2, <4>1 DEF PinsOnly, AtWork, Collided, Allocating
    <3>3. CASE ~ (valid[cur[c]] /\ dirty[cur[c]])
      <4>1. pc'[c] = "sync"
        BY Zenon, <1>0, <1>3, <3>3 DEF SyncOneBuffer, Go, Typed, LocalsTyped
      <4> QED
        BY Zenon, <4>1 DEF AtWork, Collided, Allocating
    <3> QED
      BY <3>2, <3>3
  <2>5. KeepsOuter(c)'
    BY Zenon, <1>0, <1>3, <2>1 DEF SyncOneBuffer, Go, loc, KeepsOuter, Typed, LocalsTyped
  <2>6. AtCheckpoint'
    BY Zenon, <1>0, <1>3 DEF SyncOneBuffer, Go, loc, ckpt, MapInv, AtCheckpoint, Typed,
        LocalsTyped
  <2>7. UNCHANGED dirty
    BY Zenon, <1>3 DEF SyncOneBuffer, flags
  <2> QED
    BY Zenon, <1>0, <2>1, <2>2, <2>3, <2>4, <2>5, <2>6, <2>7, PinStep
<1>4. CASE EndCheckPoint
  <2>1. Quiet /\ UNCHANGED dirty /\ pc[Checkpointer] \notin {"delete", "dropdelete"}
    BY Zenon, <1>0, <1>4 DEF EndCheckPoint, hdr, map, Quiet
  <2>3. AtWork(Checkpointer)'
    BY Zenon, <1>0, <1>4, <2>1 DEF EndCheckPoint, Go, Quiet, AtWork, KeepsOuter, Collided,
        Allocating, Typed, LocalsTyped
  <2>4. KeepsOuter(Checkpointer)'
    <3>1. outer[Checkpointer] = NoBuffer
      BY Zenon DEF MapInv, AtCheckpoint
    <3> QED
      BY Zenon, <1>0, <1>4, <2>1, <3>1 DEF EndCheckPoint, Go, KeepsOuter, Typed, LocalsTyped
  <2>5. AtCheckpoint'
    BY Zenon, <1>0, <1>4 DEF EndCheckPoint, Go, ckpt, MapInv, AtCheckpoint, Typed,
        LocalsTyped
  <2> QED
    BY <1>0, <2>1, <2>3, <2>4, <2>5, QuietStep
<1>5. CASE BufferSync
  <2>1. Quiet /\ UNCHANGED dirty /\ pc[Checkpointer] \notin {"delete", "dropdelete"}
    BY Zenon, <1>0, <1>5 DEF BufferSync, hdr, map, Quiet
  <2>2. AtWork(Checkpointer)'
    BY ZenonT(40), <1>0, <1>5, <2>1 DEF BufferSync, Go, Quiet, AtWork, KeepsOuter, Collided,
        Allocating, Typed, LocalsTyped
  <2>3. KeepsOuter(Checkpointer)'
    BY ZenonT(40), <1>0, <1>5, <2>1 DEF BufferSync, Go, Quiet, AtWork, KeepsOuter, Aborting,
        Typed, LocalsTyped
  <2>4. AtCheckpoint'
    BY ZenonT(40), <1>0, <1>5 DEF BufferSync, Go, MapInv, AtCheckpoint, Typed, LocalsTyped
  <2> QED
    BY <1>0, <2>1, <2>2, <2>3, <2>4, QuietStep
<1> QED
  BY Zenon, <1>1, <1>2, <1>3, <1>4, <1>5 DEF Checkpoint

\* What BufMgrAssumption says of the workload of a behaviour.
LEMMA InitWorkload ==
    ASSUME Init
    PROVE  /\ load.cached \in Seq(Pages) /\ Len(load.cached) \in 0 .. NBuffers
           /\ \A i, j \in 1 .. Len(load.cached) : load.cached[i] = load.cached[j] => i = j
           /\ \A b \in Buffers : b < Len(load.cached) => load.cached[b + 1] \in Pages
           /\ load.changed \in Seq(Pages) /\ load.hinted \subseteq Pages
           /\ \A i \in 1 .. Len(load.changed) :
                 \E j \in 1 .. Len(load.cached) : load.changed[i] = load.cached[j]
<1>1. load \in Workloads
  BY Zenon DEF Init
<1>2. /\ load.cached \in Seq(Pages) /\ Len(load.cached) <= NBuffers
      /\ \A i, j \in 1 .. Len(load.cached) : load.cached[i] = load.cached[j] => i = j
      /\ load.changed \in Seq(Pages) /\ load.hinted \subseteq Pages
      /\ \A i \in 1 .. Len(load.changed) :
            \E j \in 1 .. Len(load.cached) : load.changed[i] = load.cached[j]
  BY Zenon, <1>1, BufMgrAssumption DEF BufMgrAssumption
<1>3. Len(load.cached) \in Nat /\ Len(load.cached) \in 0 .. NBuffers
  <2>1. Len(load.cached) \in Nat
    BY SMTT(40), Z3T(40), <1>2
  <2> QED
    BY SMTT(40), Z3T(40), <1>2, <2>1, NextBuffer
<1>4. ASSUME NEW b \in Buffers, b < Len(load.cached)
      PROVE  load.cached[b + 1] \in Pages
  <2>1. b + 1 \in 1 .. Len(load.cached)
    BY SMTT(40), Z3T(40), <1>3, <1>4, NextBuffer DEF Buffers
  <2> QED
    BY SMTT(40), Z3T(40), <1>2, <2>1
<1> QED
  BY Zenon, <1>2, <1>3, <1>4

\* The pool at the start holds each cached page once.
LEMMA InitTags ==
    ASSUME Init
    PROVE  /\ tag \in [Buffers -> Pages \cup {NoPage}]
           /\ \A b, c \in Buffers : tag[b] = tag[c] /\ tag[b] # NoPage => b = c
           /\ \A b \in Buffers : tag[b] # NoPage <=> b < Len(load.cached)
<1>1. tag = [b \in Buffers |-> IF b < Len(load.cached) THEN load.cached[b + 1] ELSE NoPage]
  BY Zenon DEF Init
<1>2. tag \in [Buffers -> Pages \cup {NoPage}]
  BY <1>1, InitWorkload
<1>3. \A b \in Buffers : tag[b] # NoPage <=> b < Len(load.cached)
  BY ZenonT(40), <1>1, InitWorkload, NoneIsNone
<1>4. ASSUME NEW b \in Buffers, NEW c \in Buffers, tag[b] = tag[c], tag[b] # NoPage
      PROVE  b = c
  <2>1. b \in Nat /\ c \in Nat /\ Len(load.cached) \in Nat
    BY SMTT(40), Z3T(40), InitWorkload, NextBuffer
  <2>2. b + 1 \in 1 .. Len(load.cached) /\ c + 1 \in 1 .. Len(load.cached)
    BY SMTT(40), Z3T(40), <1>3, <1>4, <2>1
  <2>3. load.cached[b + 1] = load.cached[c + 1]
    BY <1>1, <1>3, <1>4
  <2>4. b + 1 = c + 1
    BY <2>2, <2>3, InitWorkload
  <2> QED
    BY SMTT(40), Z3T(40), <2>1, <2>4
<1> QED
  BY <1>2, <1>3, <1>4

\* The table of the initial states has the cached pages and no others.
LEMMA InitTable ==
    ASSUME Init
    PROVE  table \in [Pages -> Buffers \cup {NoBuffer}] /\ MappingSound
<1>1. table = [t \in Pages |-> IF \E b \in Buffers : tag[b] = t
                               THEN CHOOSE b \in Buffers : tag[b] = t ELSE NoBuffer]
  BY Zenon DEF Init
<1>2. ASSUME NEW t \in Pages, NEW b \in Buffers, tag[b] = t
      PROVE  table[t] = b
  <2>1. table[t] = CHOOSE c \in Buffers : tag[c] = t
    BY <1>1, <1>2
  <2>2. table[t] \in Buffers /\ tag[table[t]] = t
    BY <1>2, <2>1
  <2> QED
    BY <1>2, <2>2, InitTags, NoneIsNone
<1>3. ASSUME NEW t \in Pages, \A b \in Buffers : tag[b] # t
      PROVE  table[t] = NoBuffer
  BY <1>1, <1>3
<1>4. table = [t \in Pages |-> table[t]]
  BY <1>1
<1>5. \A t \in Pages : table[t] \in Buffers \cup {NoBuffer}
  BY <1>2, <1>3
<1>6. MappingSound
  BY Zenon, <1>2, <1>3, InitTags DEF MappingSound
<1> QED
  BY <1>4, <1>5, <1>6

\* Initial states are typed.
LEMMA InitTyped == Init => Typed
<1> SUFFICES ASSUME Init
             PROVE  Typed
  OBVIOUS
<1>1. HeadersTyped
  <2>1. /\ pins = [b \in Buffers |-> {}] /\ valid = [b \in Buffers |-> b < Len(load.cached)]
        /\ dirty = [b \in Buffers |-> tag[b] \in load.hinted \cup {log[i] : i \in 1 .. Len(log)}]
        /\ just_dirtied = dirty /\ io_in_progress = [b \in Buffers |-> FALSE]
    BY Zenon DEF Init
  <2>2. dirty \in [Buffers -> BOOLEAN]
    <3> DEFINE D == load.hinted \cup {log[i] : i \in 1 .. Len(log)}
    <3>1. dirty = [b \in Buffers |-> tag[b] \in D]
      BY Zenon, <2>1
    <3> HIDE DEF D
    <3> QED
      BY SMTT(40), Z3T(40), <3>1
  <2>3. valid \in [Buffers -> BOOLEAN]
    BY SMTT(40), Z3T(40), <2>1
  <2> QED
    BY Zenon, <2>1, <2>2, <2>3, InitTags DEF HeadersTyped
<1>2. LocksTyped
  BY Zenon, InitTable DEF Init, LocksTyped
<1>3. StrategyTyped
  <2>1. \A i \in 1 .. NBuffers - Len(load.cached) : Len(load.cached) + i - 1 \in Buffers
    BY SMTT(40), Z3T(40), InitWorkload, NextBuffer DEF Buffers
  <2>2. NBuffers - Len(load.cached) \in Nat
    BY SMTT(40), Z3T(40), InitWorkload, NextBuffer
  <2>3. freelist \in [1 .. NBuffers - Len(load.cached) -> Buffers]
    BY Zenon, <2>1 DEF Init
  <2>4. freelist \in Seq(Buffers)
    BY SMTT(40), Z3T(40), <2>2, <2>3
  <2>5. hand \in Buffers
    <3>1. hand = 0
      BY Zenon DEF Init
    <3> QED
      BY SMTT(40), Z3T(40), <3>1, NextBuffer DEF Buffers
  <2> QED
    BY Zenon, <2>4, <2>5 DEF StrategyTyped
<1>4. LocalsTyped
  BY Zenon DEF Init, LocalsTyped
<1> QED
  BY Zenon, <1>1, <1>2, <1>3, <1>4 DEF Typed

\* Initial states satisfy the invariant of the mapping.
LEMMA InitMapInv == Init => MapInv
<1> SUFFICES ASSUME Init
             PROVE  MapInv
  OBVIOUS
<1>1. MappingSound
  BY InitTable
<1>2. Headers
  <2>1. /\ valid = [b \in Buffers |-> b < Len(load.cached)]
        /\ dirty = [b \in Buffers |-> tag[b] \in load.hinted \cup {log[i] : i \in 1 .. Len(log)}]
        /\ log = load.changed
    BY Zenon DEF Init
  <2>2. ASSUME NEW b \in Buffers, tag[b] \in load.hinted \cup {log[i] : i \in 1 .. Len(log)}
        PROVE  valid[b]
    <3>1. tag[b] \in Pages
      BY SMTT(40), Z3T(40), <2>1, <2>2, InitWorkload
    <3> QED
      BY Zenon, <2>1, <3>1, InitTags, NoneIsNone
  <2> QED
    BY Zenon, <2>1, <2>2, InitTags DEF Headers
<1>3. \A p \in Procs : /\ pc[p] = "idle" /\ ret[p] = "idle" /\ outer[p] = NoBuffer
                       /\ cur[p] = NoBuffer
  BY Zenon DEF Init
<1>4. \A p \in Procs : AtWork(p)
  BY Zenon, <1>3 DEF AtWork, Collided, Allocating, Holding, Writing, Unpinning,
      Dropping, AtVictim,
      Looking, Reading, Pinning, HasBuffer
<1>5. \A p \in Procs : KeepsOuter(p)
  BY Zenon, <1>3 DEF KeepsOuter, Unpinning
<1>6. AtCheckpoint
  BY Zenon, <1>3 DEF AtCheckpoint, Procs, Unpinning
<1> QED
  BY Zenon, <1>1, <1>2, <1>4, <1>5, <1>6 DEF MapInv

\* The mapping, in every step.
LEMMA MapInvStep ==
    ASSUME Typed, MapInv, [Next]_vars
    PROVE  MapInv'
<1>1. CASE UNCHANGED vars
  <2>1. /\ Quiet /\ UNCHANGED <<dirty, pc, ret, want, cur, outer, old, scan>>
    BY Zenon, <1>1 DEF vars, hdr, map, ckpt, loc, Quiet
  <2>2. MappingSound' /\ Headers'
    BY Zenon, <2>1 DEF MapInv, MappingSound, Headers, Unmaps, Quiet
  <2>3. \A p \in Procs : AtWork(p)'
    BY ZenonT(40), <2>1 DEF MapInv, AtWork, Collided, Allocating, Quiet
  <2>4. \A p \in Procs : KeepsOuter(p)'
    BY Zenon, <2>1 DEF MapInv, KeepsOuter, Aborting, Quiet
  <2>5. AtCheckpoint'
    BY Zenon, <2>1 DEF MapInv, AtCheckpoint
  <2> QED
    BY ZenonT(40), <2>2, <2>3, <2>4, <2>5 DEF MapInv
<1> QED
  BY Zenon, <1>1, MapShared, MapBackend, MapCheckpoint DEF Next, Finished

\* Locations at which a process holds the content lock of its buffer.
Exclusively == {"exclusive", "dirtied", "clean", "cleancheck", "cleanunlock"}
Sharing == {"shared", "hint", "hintdirty", "startout", "xlogflush", "write", "endwrite"}

\* The content locks that process p holds at its location.
LockedBy(p) ==
    /\ pc[p] \in Exclusively => excl[cur[p]] = p
    /\ pc[p] \in Sharing => p \in share[cur[p]]
    /\ outer[p] # NoBuffer /\ ~ Aborting(p) => excl[outer[p]] = p

\* Nobody shares a content lock that is held exclusively.
ContentLocks == \A b \in Buffers : excl[b] # NoProc => share[b] = {}

\* The inductive invariant of the content locks.
LockInv == ContentLocks /\ \A p \in Procs : LockedBy(p)

\* A step of q takes no content lock from anybody else.
KeepsLocks(q) ==
    \A p \in Procs \ {q}, b \in Buffers :
       (excl[b] = p => excl'[b] = p) /\ (p \in share[b] => p \in share'[b])

\* A step of q that takes no lock from anybody else.
LEMMA LockStep ==
    ASSUME Typed, MapInv, LockInv, NEW q \in Procs, Local(q), KeepsLocks(q), LockedBy(q)',
           ContentLocks'
    PROVE  LockInv'
<1>1. ASSUME NEW p \in Procs \ {q}
      PROVE  LockedBy(p)'
  <2>1. UNCHANGED <<pc[p], ret[p], cur[p], outer[p]>>
    BY Zenon DEF Local
  <2>2. Aborting(p)' <=> Aborting(p)
    BY Zenon, <2>1 DEF Aborting
  <2>3. pc[p] \in Exclusively \cup Sharing => cur[p] \in Buffers
    BY ZenonT(40) DEF MapInv, AtWork, HasBuffer, Pinning, Holding, Writing, Exclusively, Sharing
  <2>4. outer[p] \in Buffers \cup {NoBuffer}
    BY Zenon DEF Typed, LocalsTyped
  <2> QED
    BY Zenon, <2>1, <2>2, <2>3, <2>4 DEF LockInv, LockedBy, KeepsLocks
<1> QED
  BY Zenon, <1>1 DEF LockInv

\* LWLockReleaseAll takes no lock from anybody else.
LEMMA ReleaseAllKeeps ==
    ASSUME Typed, ContentLocks, NEW p \in Procs, LWLockReleaseAll(p) \/ UNCHANGED <<share, excl>>
    PROVE  KeepsLocks(p) /\ ContentLocks'
<1>1. CASE LWLockReleaseAll(p)
  <2>1. /\ \A b \in Buffers : share'[b] = share[b] \ {p}
        /\ \A b \in Buffers : excl'[b] = IF excl[b] = p THEN NoProc ELSE excl[b]
    BY Zenon, <1>1 DEF LWLockReleaseAll
  <2>2. KeepsLocks(p)
    BY <2>1 DEF KeepsLocks
  <2>3. ContentLocks'
    BY Zenon, <2>1 DEF ContentLocks
  <2> QED
    BY <2>2, <2>3
<1>2. CASE UNCHANGED <<share, excl>>
  BY Zenon, <1>2 DEF KeepsLocks, ContentLocks
<1> QED
  BY <1>1, <1>2

\* A step of q that leaves the content locks alone.
LEMMA LockQuiet ==
    ASSUME Typed, MapInv, LockInv, NEW q \in Procs, Local(q), UNCHANGED <<share, excl>>,
           LockedBy(q)'
    PROVE  LockInv'
<1>1. KeepsLocks(q) /\ ContentLocks'
  BY ZenonT(40) DEF KeepsLocks, LockInv, ContentLocks
<1> QED
  BY <1>1, LockStep

\* Content locks, in the steps of any process.
LEMMA LocksShared ==
    ASSUME Typed, MapInv, LockInv, NEW p \in Procs, Shared(p)
    PROVE  LockInv'
<1>0. p \in Procs /\ AtWork(p) /\ KeepsOuter(p) /\ LockedBy(p) /\ Local(p)
  BY ZenonT(40), LocalShared DEF MapInv, LockInv, Procs
<1>1. CASE LockForFlush(p)
  <2>1. cur[p] \in Buffers /\ LockedBy(p)
    BY ZenonT(40), <1>0, <1>1 DEF LockForFlush, AtWork, LockInv, HasBuffer, Pinning, Reading,
        Holding, Writing
  <2>2. KeepsLocks(p)
    BY SMTT(40), Z3T(40), <1>0, <1>1, <2>1, NoneIsNone DEF LockForFlush, Go, loc, KeepsLocks,
        LockInv,
        ContentLocks, LockedBy, Exclusively, Sharing, Typed, LocksTyped
  <2>3. ContentLocks'
    BY Zenon, <1>0, <1>1, <2>1 DEF LockForFlush, Go, loc, LockInv, ContentLocks, Typed,
        LocksTyped
  <2>4. LockedBy(p)'
    BY ZenonT(40), <1>0, <1>1, <2>1, <2>2 DEF LockForFlush, Go, loc, LockedBy, Aborting,
        Exclusively, Sharing, KeepsOuter, Pinning, Holding, Writing, Typed,
        LocksTyped, LocalsTyped
  <2> QED
    BY ZenonT(40), <1>0, <2>2, <2>3, <2>4, LockStep
<1>2. CASE StartOutput(p)
  <2>1. cur[p] \in Buffers /\ LockedBy(p)
    BY ZenonT(40), <1>0, <1>2 DEF StartOutput, AtWork, LockInv, HasBuffer, Pinning, Reading,
        Holding, Writing
  <2>2. KeepsLocks(p)
    BY SMTT(40), Z3T(40), <1>0, <1>2, <2>1, NoneIsNone DEF StartOutput, UnpinThen, AfterFlush,
        Go, loc,
        KeepsLocks, LockInv, ContentLocks, LockedBy, Exclusively, Sharing, Typed,
        LocksTyped
  <2>3. ContentLocks'
    BY Zenon, <1>0, <1>2, <2>1 DEF StartOutput, UnpinThen, AfterFlush, Go, loc,
        LockInv,
        ContentLocks, Typed, LocksTyped
  <2>4. LockedBy(p)'
    BY Zenon, <1>0, <1>2, <2>1, <2>2 DEF StartOutput, UnpinThen, AfterFlush, Go, loc,
        LockedBy, Aborting, Exclusively, Sharing, KeepsOuter, Pinning, Holding,
        Writing, Typed, LocksTyped, LocalsTyped
  <2> QED
    BY <1>0, <2>2, <2>3, <2>4, LockStep
<1>3. CASE EndWrite(p)
  <2>1. cur[p] \in Buffers /\ LockedBy(p)
    BY ZenonT(40), <1>0, <1>3 DEF EndWrite, AtWork, LockInv, HasBuffer, Pinning, Reading,
        Holding, Writing
  <2>2. KeepsLocks(p)
    BY Zenon, <1>0, <1>3, <2>1, NoneIsNone DEF EndWrite, UnpinThen, AfterFlush, Go,
        loc,
        KeepsLocks, LockInv, ContentLocks, LockedBy, Exclusively, Sharing, Typed,
        LocksTyped
  <2>3. ContentLocks'
    BY Zenon, <1>0, <1>3, <2>1 DEF EndWrite, UnpinThen, AfterFlush, Go, loc, LockInv,
        ContentLocks, Typed, LocksTyped
  <2>4. LockedBy(p)'
    BY Zenon, <1>0, <1>3, <2>1, <2>2 DEF EndWrite, UnpinThen, AfterFlush, Go, loc,
        LockedBy,
        Aborting, Exclusively, Sharing, KeepsOuter, Pinning, Holding, Writing, Typed,
        LocksTyped, LocalsTyped
  <2> QED
    BY <1>0, <2>2, <2>3, <2>4, LockStep
<1>4. CASE TransferFails(p)
  <2>1. cur[p] \in Buffers /\ LockedBy(p)
    BY ZenonT(40), <1>0, <1>4 DEF TransferFails, AtWork, LockInv, HasBuffer, Pinning, Reading,
        Holding, Writing
  <2>2. KeepsLocks(p)
    BY Zenon, <1>0, <1>4, <2>1, NoneIsNone DEF TransferFails, LWLockReleaseAll, Go, loc,
        KeepsLocks, LockInv, ContentLocks, LockedBy, Exclusively, Sharing, Typed,
        LocksTyped
  <2>3. ContentLocks'
    BY ZenonT(40), <1>0, <1>4, <2>1 DEF TransferFails, LWLockReleaseAll, Go, loc, LockInv,
        ContentLocks, Typed, LocksTyped
  <2>4. LockedBy(p)'
    BY Zenon, <1>0, <1>4, <2>1, <2>2 DEF TransferFails, LWLockReleaseAll, Go, loc, LockedBy,
        Aborting, Exclusively, Sharing, KeepsOuter, Pinning, Holding, Writing, Typed,
        LocksTyped, LocalsTyped
  <2> QED
    BY <1>0, <2>2, <2>3, <2>4, LockStep
<1>5. CASE \/ WakeWaiter(p) \/ SendSignal(p)
  <2>1. UNCHANGED <<share, excl>>
    BY Zenon, <1>0, <1>5 DEF WakeWaiter, SendSignal, locks
  <2>2. LockedBy(p)'
    BY SMTT(40), Z3T(40), <1>0, <1>5, <2>1 DEF WakeWaiter, SendSignal, Return, Go, locks,
        LockedBy,
        Aborting, Exclusively, Sharing, KeepsOuter, Unpinning, Dropping, Typed,
        LocalsTyped
  <2> QED
    BY ZenonT(40), <1>0, <2>1, <2>2, LockQuiet
<1>6. CASE \/ XLogFlush(p) \/ WritePage(p) \/ AbortBufferIO(p) \/ ReleasePins(p)
  <2>1. UNCHANGED <<share, excl>>
    BY ZenonT(40), <1>0, <1>6 DEF XLogFlush, WritePage, AbortBufferIO, ReleasePins, locks
  <2>2. LockedBy(p)'
    BY SMTT(40), Z3T(40), <1>0, <1>6, <2>1 DEF XLogFlush, WritePage, AbortBufferIO, ReleasePins,
        UnpinThen, Go, locks, loc, LockedBy, Aborting, Exclusively, Sharing,
        KeepsOuter, Unpinning, Dropping, Typed, LocalsTyped
  <2> QED
    BY <1>0, <2>1, <2>2, LockQuiet
<1>7. CASE UnpinBuffer(p)
  <2>1. UNCHANGED <<share, excl>>
    BY ZenonT(40), <1>0, <1>7 DEF UnpinBuffer, locks
  <2>2. LockedBy(p)'
    BY SMTT(40), Z3T(40), <1>0, <1>7, <2>1 DEF UnpinBuffer, Return, Go, locks, LockedBy, Aborting,
        Exclusively, Sharing, KeepsOuter, Unpinning, Dropping, Typed, LocalsTyped
  <2> QED
    BY <1>0, <2>1, <2>2, LockQuiet
<1> QED
  BY ZenonT(40), <1>1, <1>2, <1>3, <1>4, <1>5, <1>6, <1>7 DEF Shared

\* Content locks, in the steps of a backend.
LEMMA LocksBackend ==
    ASSUME Typed, MapInv, LockInv, NEW p \in Backends, Backend(p)
    PROVE  LockInv'
<1>0. p \in Procs /\ AtWork(p) /\ KeepsOuter(p) /\ LockedBy(p) /\ Local(p)
  BY ZenonT(40), LocalBackend DEF MapInv, LockInv, Procs
<1>1. CASE TrySweptBuffer(p)
  <2>1. cur[p] \in Buffers /\ LockedBy(p)
    BY ZenonT(40), <1>0, <1>1 DEF TrySweptBuffer, AtWork, LockInv, HasBuffer, Pinning, Reading,
        Holding, Writing
  <2>2. LWLockReleaseAll(p) \/ UNCHANGED <<share, excl>>
    BY Zenon, <1>1 DEF TrySweptBuffer, locks
  <2>3. KeepsLocks(p) /\ ContentLocks'
    BY Zenon, <1>0, <2>2, ReleaseAllKeeps DEF LockInv
  <2>4. LockedBy(p)'
    BY SMTT(40), Z3T(40), <1>0, <1>1, <2>1, <2>3 DEF TrySweptBuffer, ClaimVictim,
        LWLockReleaseAll, Go,
        locks, LockedBy, Aborting, Exclusively, Sharing, KeepsOuter, Pinning,
        Holding, Writing, Typed, LocksTyped, LocalsTyped
  <2> QED
    BY Zenon, <1>0, <2>3, <2>4, LockStep
<1>2. CASE LockVictim(p)
  <2>1. cur[p] \in Buffers /\ LockedBy(p)
    BY ZenonT(40), <1>0, <1>2 DEF LockVictim, AtWork, LockInv, HasBuffer, Pinning, Reading,
        Holding, Writing
  <2>2. KeepsLocks(p)
    BY SMTT(40), Z3T(40), <1>0, <1>2, <2>1, NoneIsNone DEF LockVictim, UnpinThen, VictimLocked,
        Go, loc,
        KeepsLocks, LockInv, ContentLocks, LockedBy, Exclusively, Sharing, Typed,
        LocksTyped
  <2>3. ContentLocks'
    BY Zenon, <1>0, <1>2, <2>1 DEF LockVictim, UnpinThen, VictimLocked, Go, loc, LockInv,
        ContentLocks, Typed, LocksTyped
  <2>4. LockedBy(p)'
    BY SMTT(40), Z3T(40), <1>0, <1>2, <2>1, <2>2 DEF LockVictim, UnpinThen, VictimLocked, Go, loc,
        LockedBy, Aborting, Exclusively, Sharing, KeepsOuter, Pinning, Holding,
        Writing, Typed, LocksTyped, LocalsTyped
  <2> QED
    BY <1>0, <2>2, <2>3, <2>4, LockStep
<1>3. CASE LockShare(p)
  <2>1. cur[p] \in Buffers /\ LockedBy(p)
    BY ZenonT(40), <1>0, <1>3 DEF LockShare, AtWork, LockInv, HasBuffer, Pinning, Reading,
        Holding, Writing
  <2>2. KeepsLocks(p)
    BY SMTT(40), Z3T(40), <1>0, <1>3, <2>1, NoneIsNone DEF LockShare, Go, loc, KeepsLocks,
        LockInv,
        ContentLocks, LockedBy, Exclusively, Sharing, Typed, LocksTyped
  <2>3. ContentLocks'
    BY Zenon, <1>0, <1>3, <2>1 DEF LockShare, Go, loc, LockInv, ContentLocks, Typed,
        LocksTyped
  <2>4. LockedBy(p)'
    BY SMTT(40), Z3T(40), <1>0, <1>3, <2>1, <2>2 DEF LockShare, Go, loc, LockedBy, Aborting,
        Exclusively, Sharing, KeepsOuter, Pinning, Holding, Writing, Typed,
        LocksTyped, LocalsTyped
  <2> QED
    BY <1>0, <2>2, <2>3, <2>4, LockStep
<1>4. CASE LockExclusive(p)
  <2>1. cur[p] \in Buffers /\ LockedBy(p)
    BY ZenonT(40), <1>0, <1>4 DEF LockExclusive, AtWork, LockInv, HasBuffer, Pinning, Reading,
        Holding, Writing
  <2>2. KeepsLocks(p)
    BY SMTT(40), Z3T(40), <1>0, <1>4, <2>1, NoneIsNone DEF LockExclusive, Go, loc, KeepsLocks,
        LockInv,
        ContentLocks, LockedBy, Exclusively, Sharing, Typed, LocksTyped
  <2>3. ContentLocks'
    BY Zenon, <1>0, <1>4, <2>1 DEF LockExclusive, Go, loc, LockInv, ContentLocks, Typed,
        LocksTyped
  <2>4. LockedBy(p)'
    BY SMTT(40), Z3T(40), <1>0, <1>4, <2>1, <2>2 DEF LockExclusive, Go, loc, LockedBy, Aborting,
        Exclusively, Sharing, KeepsOuter, Pinning, Holding, Writing, Typed,
        LocksTyped, LocalsTyped
  <2> QED
    BY <1>0, <2>2, <2>3, <2>4, LockStep
<1>5. CASE UnlockBuffer(p)
  <2>1. cur[p] \in Buffers /\ LockedBy(p)
    BY ZenonT(40), <1>0, <1>5 DEF UnlockBuffer, AtWork, LockInv, HasBuffer, Pinning, Reading,
        Holding, Writing
  <2>2. KeepsLocks(p)
    BY SMTT(40), Z3T(40), <1>0, <1>5, <2>1, NoneIsNone DEF UnlockBuffer, Go, loc, KeepsLocks,
        LockInv,
        ContentLocks, LockedBy, Exclusively, Sharing, Typed, LocksTyped
  <2>3. ContentLocks'
    BY Zenon, <1>0, <1>5, <2>1 DEF UnlockBuffer, Go, loc, LockInv, ContentLocks, Typed,
        LocksTyped
  <2>4. LockedBy(p)'
    BY ZenonT(40), <1>0, <1>5, <2>1, <2>2 DEF UnlockBuffer, Go, loc, LockedBy, Aborting,
        Exclusively, Sharing, KeepsOuter, Pinning, Holding, Writing, Typed,
        LocksTyped, LocalsTyped
  <2> QED
    BY <1>0, <2>2, <2>3, <2>4, LockStep
<1>6. CASE LockBufferForCleanup(p)
  <2>1. cur[p] \in Buffers /\ LockedBy(p)
    BY ZenonT(40), <1>0, <1>6 DEF LockBufferForCleanup, AtWork, LockInv, HasBuffer, Pinning,
        Reading, Holding, Writing
  <2>2. KeepsLocks(p)
    BY SMTT(40), Z3T(40), <1>0, <1>6, <2>1, NoneIsNone DEF LockBufferForCleanup, Go, loc,
        KeepsLocks,
        LockInv, ContentLocks, LockedBy, Exclusively, Sharing, Typed, LocksTyped
  <2>3. ContentLocks'
    BY ZenonT(40), <1>0, <1>6, <2>1 DEF LockBufferForCleanup, Go, loc, LockInv, ContentLocks,
        Typed, LocksTyped
  <2>4. LockedBy(p)'
    BY SMTT(40), Z3T(40), <1>0, <1>6, <2>1, <2>2 DEF LockBufferForCleanup, Go, loc, LockedBy,
        Aborting,
        Exclusively, Sharing, KeepsOuter, Pinning, Holding, Writing, Typed,
        LocksTyped, LocalsTyped
  <2> QED
    BY <1>0, <2>2, <2>3, <2>4, LockStep
<1>7. CASE CheckCleanup(p)
  <2>1. cur[p] \in Buffers /\ LockedBy(p)
    BY ZenonT(40), <1>0, <1>7 DEF CheckCleanup, AtWork, LockInv, HasBuffer, Pinning, Reading,
        Holding, Writing
  <2>2. LWLockReleaseAll(p) \/ UNCHANGED <<share, excl>>
    BY Zenon, <1>7 DEF CheckCleanup, locks
  <2>3. KeepsLocks(p) /\ ContentLocks'
    BY <1>0, <2>2, ReleaseAllKeeps DEF LockInv
  <2>4. LockedBy(p)'
    BY Zenon, <1>0, <1>7, <2>1, <2>3 DEF CheckCleanup, LWLockReleaseAll, Go, locks,
        loc,
        LockedBy, Aborting, Exclusively, Sharing, KeepsOuter, Pinning, Holding,
        Writing, Typed, LocksTyped, LocalsTyped
  <2> QED
    BY <1>0, <2>3, <2>4, LockStep
<1>8. CASE UnlockForWait(p)
  <2>1. cur[p] \in Buffers /\ LockedBy(p)
    BY ZenonT(40), <1>0, <1>8 DEF UnlockForWait, AtWork, LockInv, HasBuffer, Pinning, Reading,
        Holding, Writing
  <2>2. KeepsLocks(p)
    BY ZenonT(40), <1>0, <1>8, <2>1, NoneIsNone DEF UnlockForWait, Go, loc, KeepsLocks, LockInv,
        ContentLocks, LockedBy, Exclusively, Sharing, Typed, LocksTyped
  <2>3. ContentLocks'
    BY ZenonT(40), <1>0, <1>8, <2>1 DEF UnlockForWait, Go, loc, LockInv, ContentLocks, Typed,
        LocksTyped
  <2>4. LockedBy(p)'
    BY ZenonT(40), <1>0, <1>8, <2>1, <2>2 DEF UnlockForWait, Go, loc, LockedBy, Aborting,
        Exclusively, Sharing, KeepsOuter, Pinning, Holding, Writing, Typed,
        LocksTyped, LocalsTyped
  <2> QED
    BY <1>0, <2>2, <2>3, <2>4, LockStep
<1>9. CASE \/ StrategyGetBuffer(p) \/ TryFreeBuffer(p) \/ ClockSweepTick(p)
  <2>1. UNCHANGED <<share, excl>>
    BY ZenonT(40), <1>0, <1>9 DEF StrategyGetBuffer, TryFreeBuffer, ClockSweepTick, locks
  <2>2. LockedBy(p)'
    BY Zenon, <1>0, <1>9, <2>1 DEF StrategyGetBuffer, TryFreeBuffer, ClockSweepTick,
        ClaimVictim, Go, locks, loc, LockedBy, Aborting, Exclusively, Sharing,
        KeepsOuter, Unpinning, Dropping, Typed, LocalsTyped
  <2> QED
    BY ZenonT(40), <1>0, <2>1, <2>2, LockQuiet
<1>10. CASE \/ InvalidateVictimBuffer(p) \/ DeleteVictimMapping(p) \/ BufTableInsert(p)
  <2>1. UNCHANGED <<share, excl>>
    BY ZenonT(40), <1>0, <1>10 DEF InvalidateVictimBuffer, DeleteVictimMapping, BufTableInsert,
        locks
  <2>2. LockedBy(p)'
    BY Zenon, <1>0, <1>10, <2>1 DEF InvalidateVictimBuffer, DeleteVictimMapping,
        BufTableInsert, UnpinThen, Go, locks, loc, LockedBy, Aborting, Exclusively,
        Sharing, KeepsOuter, Unpinning, Dropping, Typed, LocalsTyped
  <2> QED
    BY <1>0, <2>1, <2>2, LockQuiet
<1>11. CASE \/ FreeVictim(p) \/ PinExisting(p) \/ StartInput(p) \/ ReadPage(p)
  <2>1. UNCHANGED <<share, excl>>
    BY ZenonT(40), <1>0, <1>11 DEF FreeVictim, PinExisting, StartInput, ReadPage, locks
  <2>2. LockedBy(p)'
    BY Zenon, <1>0, <1>11, <2>1 DEF FreeVictim, PinExisting, StartInput, ReadPage,
        AfterPin,
        Go, locks, loc, LockedBy, Aborting, Exclusively, Sharing, KeepsOuter,
        Unpinning, Dropping, Typed, LocalsTyped
  <2> QED
    BY <1>0, <2>1, <2>2, LockQuiet
<1>12. CASE \/ ReleaseBuffer(p) \/ MarkBufferDirty(p) \/ LogChange(p)
  <2>1. UNCHANGED <<share, excl>>
    BY ZenonT(40), <1>0, <1>12 DEF ReleaseBuffer, MarkBufferDirty, LogChange, locks
  <2>2. LockedBy(p)'
    BY Zenon, <1>0, <1>12, <2>1 DEF ReleaseBuffer, MarkBufferDirty, LogChange,
        UnpinThen,
        Go, locks, loc, LockedBy, Aborting, Exclusively, Sharing, KeepsOuter,
        Unpinning, Dropping, Typed, LocalsTyped
  <2> QED
    BY <1>0, <2>1, <2>2, LockQuiet
<1>13. CASE \/ SetHint(p) \/ MarkBufferDirtyHint(p) \/ SetHintDirty(p)
  <2>1. UNCHANGED <<share, excl>>
    BY ZenonT(40), <1>0, <1>13 DEF SetHint, MarkBufferDirtyHint, SetHintDirty, locks
  <2>2. LockedBy(p)'
    BY ZenonT(40), <1>0, <1>13, <2>1 DEF SetHint, MarkBufferDirtyHint, SetHintDirty, Go, locks,
        loc, LockedBy, Aborting, Exclusively, Sharing, KeepsOuter, Unpinning,
        Dropping, Typed, LocalsTyped
  <2> QED
    BY <1>0, <2>1, <2>2, LockQuiet
<1>14. CASE \/ WakeUp(p) \/ AfterWait(p)
  <2>1. UNCHANGED <<share, excl>>
    BY ZenonT(40), <1>0, <1>14 DEF WakeUp, AfterWait, locks
  <2>2. LockedBy(p)'
    BY Zenon, <1>0, <1>14, <2>1 DEF WakeUp, AfterWait, Go, locks, loc, LockedBy,
        Aborting,
        Exclusively, Sharing, KeepsOuter, Unpinning, Dropping, Typed, LocalsTyped
  <2> QED
    BY <1>0, <2>1, <2>2, LockQuiet
<1>15. CASE \/ DropRelationBuffers(p) \/ InvalidateBuffer(p) \/ WaitIO(p)
            \/ DeleteDropped(p) \/ FreeDropped(p)
  <2>1. UNCHANGED <<share, excl>>
    BY ZenonT(40), <1>0, <1>15 DEF DropRelationBuffers, InvalidateBuffer, WaitIO, DeleteDropped,
        FreeDropped, locks
  <2>2. LockedBy(p)'
    BY Zenon, <1>0, <1>15, <2>1 DEF DropRelationBuffers, InvalidateBuffer, WaitIO,
        DeleteDropped, FreeDropped, RetryPinned, Go, locks, loc, LockedBy, Aborting,
        Exclusively, Sharing, KeepsOuter, Unpinning, Dropping, Typed, LocalsTyped
  <2> QED
    BY <1>0, <2>1, <2>2, LockQuiet
<1>16. ASSUME NEW t \in Pages, BufferAlloc(p, t)
      PROVE  LockInv'
  <2>1. UNCHANGED <<share, excl>>
    BY ZenonT(40), <1>0, <1>16 DEF BufferAlloc, locks
  <2>2. LockedBy(p)'
    BY ZenonT(40), <1>0, <1>16, <2>1 DEF BufferAlloc, AfterPin, MayRead, Go, locks, LockedBy,
        Aborting, Exclusively, Sharing, KeepsOuter, Unpinning, Dropping, Typed,
        LocalsTyped
  <2> QED
    BY <1>0, <2>1, <2>2, LockQuiet
<1>17. ASSUME NEW t \in Pages, DropRelation(p, t)
      PROVE  LockInv'
  <2>1. UNCHANGED <<share, excl>>
    BY Zenon, <1>0, <1>17 DEF DropRelation, locks
  <2>2. LockedBy(p)'
    BY ZenonT(40), <1>0, <1>17, <2>1 DEF DropRelation, Go, locks, LockedBy, Aborting,
        Exclusively, Sharing, KeepsOuter, Unpinning, Dropping, Typed, LocalsTyped
  <2> QED
    BY <1>0, <2>1, <2>2, LockQuiet
<1> QED
  BY Zenon, <1>1, <1>2, <1>3, <1>4, <1>5, <1>6, <1>7, <1>8, <1>9, <1>10, <1>11, <1>12,
      <1>13, <1>14, <1>15, <1>16, <1>17 DEF Backend

\* Content locks, in the steps of the checkpointer.
LEMMA LocksCheckpoint ==
    ASSUME Typed, MapInv, LockInv, Checkpoint
    PROVE  LockInv'
<1>0. Checkpointer \in Procs /\ AtWork(Checkpointer) /\ KeepsOuter(Checkpointer)
      /\ LockedBy(Checkpointer) /\ Local(Checkpointer)
      /\ AtCheckpoint
  BY ZenonT(40), LocalCheckpoint DEF MapInv, LockInv, Procs
<1>1. CASE \/ CreateCheckPoint \/ MarkForCheckpoint \/ BufferSync \/ SyncOneBuffer
           \/ EndCheckPoint
  <2>1. UNCHANGED <<share, excl>>
    BY ZenonT(40), <1>0, <1>1 DEF CreateCheckPoint, MarkForCheckpoint, BufferSync, SyncOneBuffer,
        EndCheckPoint, locks
  <2>2. LockedBy(Checkpointer)'
    BY ZenonT(40), <1>0, <1>1, <2>1 DEF CreateCheckPoint, MarkForCheckpoint, BufferSync,
        SyncOneBuffer, EndCheckPoint, Go, locks, loc, LockedBy, Aborting,
        Exclusively, Sharing, KeepsOuter, Unpinning, Dropping, AtCheckpoint, Typed,
        LocalsTyped
  <2> QED
    BY <1>0, <2>1, <2>2, LockQuiet
<1> QED
  BY Zenon, <1>1 DEF Checkpoint

\* Whoever performs I/O on a buffer is the only one, and BM_IO_IN_PROGRESS says so.
IoInv ==
    /\ \A p \in Procs : DoesIO(p) => io_in_progress[cur[p]]
    /\ \A b \in Buffers : io_in_progress[b] => \E p \in Procs : DoesIO(p) /\ cur[p] = b
    /\ \A p, q \in Procs : DoesIO(p) /\ DoesIO(q) /\ cur[p] = cur[q] => p = q
    /\ \A p \in Procs : pc[p] = "read" => ~ valid[cur[p]]

\* A process that performs I/O has the buffer pinned.
LEMMA IoPinned ==
    ASSUME MapInv, NEW p \in Procs, DoesIO(p)
    PROVE  cur[p] \in Buffers /\ p \in pins[cur[p]]
  BY Zenon DEF MapInv, AtWork, DoesIO, HasBuffer, Pinning, Writing, Reading

\* What stays of the others' I/O in any step of q.
LEMMA OthersDoIO ==
    ASSUME NEW q \in Procs, Local(q)
    PROVE  \A p \in Procs \ {q} : /\ DoesIO(p)' <=> DoesIO(p)
                                  /\ cur'[p] = cur[p] /\ pc'[p] = pc[p]
  BY Zenon DEF Local, DoesIO

\* A step of q that neither starts nor ends I/O.
LEMMA IoQuiet ==
    ASSUME Typed, MapInv, IoInv, NEW q \in Procs, Local(q), UNCHANGED <<io_in_progress, valid>>,
           DoesIO(q)' <=> DoesIO(q), DoesIO(q) => cur'[q] = cur[q],
           pc'[q] = "read" => pc[q] = "read"
    PROVE  IoInv'
<1>1. \A p \in Procs : /\ DoesIO(p)' <=> DoesIO(p)
                       /\ DoesIO(p) => cur'[p] = cur[p]
                       /\ pc'[p] = "read" => pc[p] = "read"
  BY Zenon, OthersDoIO
<1>2. \A p \in Procs : pc[p] = "read" => DoesIO(p)
  BY Zenon DEF DoesIO
<1> QED
  BY SMTT(40), Z3T(40), <1>1, <1>2 DEF IoInv

\* StartBufferIO: nobody else performs I/O on the buffer.
LEMMA IoStarts ==
    ASSUME Typed, MapInv, IoInv, NEW q \in Procs, Local(q), UNCHANGED valid, cur[q] \in Buffers,
           ~ io_in_progress[cur[q]], cur'[q] = cur[q], DoesIO(q)',
           io_in_progress' = [io_in_progress EXCEPT ![cur[q]] = TRUE],
           pc'[q] = "read" => ~ valid[cur[q]]
    PROVE  IoInv'
<1>1. \A p \in Procs \ {q} : /\ DoesIO(p)' <=> DoesIO(p)
                             /\ cur'[p] = cur[p] /\ pc'[p] = pc[p]
  BY Zenon, OthersDoIO
<1>2. \A p \in Procs \ {q} : DoesIO(p) => cur[p] \in Buffers /\ cur[p] # cur[q]
  BY Zenon, IoPinned DEF IoInv
<1>3. /\ io_in_progress'[cur[q]]
      /\ \A b \in Buffers \ {cur[q]} : io_in_progress'[b] = io_in_progress[b]
  BY Zenon DEF Typed, HeadersTyped
<1>4. (\A p \in Procs : DoesIO(p) => io_in_progress[cur[p]])'
  BY SMTT(40), Z3T(40), <1>1, <1>2, <1>3 DEF IoInv
<1>5. (\A b \in Buffers : io_in_progress[b] => \E p \in Procs : DoesIO(p) /\ cur[p] = b)'
  <2>1. ASSUME NEW b \in Buffers \ {cur[q]}, io_in_progress[b]
        PROVE  \E p \in Procs : DoesIO(p)' /\ cur'[p] = b
    <3>1. PICK p \in Procs : DoesIO(p) /\ cur[p] = b
      BY Zenon, <2>1 DEF IoInv
    <3> QED
      BY Zenon, <1>1, <3>1
  <2> QED
    BY Zenon, <1>3, <2>1
<1>6. (\A p, r \in Procs : DoesIO(p) /\ DoesIO(r) /\ cur[p] = cur[r] => p = r)'
  BY ZenonT(40), <1>1, <1>2 DEF IoInv
<1>7. (\A p \in Procs : pc[p] = "read" => ~ valid[cur[p]])'
  BY Zenon, <1>1 DEF IoInv
<1> QED
  BY Zenon, <1>4, <1>5, <1>6, <1>7 DEF IoInv

\* TerminateBufferIO and AbortBufferIO, by the process that performs the I/O.
LEMMA IoEnds ==
    ASSUME Typed, MapInv, IoInv, NEW q \in Procs, Local(q), DoesIO(q), ~ DoesIO(q)',
           \A b \in Buffers \ {cur[q]} : valid'[b] = valid[b],
           io_in_progress' = [io_in_progress EXCEPT ![cur[q]] = FALSE]
    PROVE  IoInv'
<1>1. \A p \in Procs \ {q} : /\ DoesIO(p)' <=> DoesIO(p)
                             /\ cur'[p] = cur[p] /\ pc'[p] = pc[p]
  BY Zenon, OthersDoIO
<1>2. cur[q] \in Buffers /\ \A p \in Procs \ {q} : DoesIO(p) =>
          cur[p] \in Buffers /\ cur[p] # cur[q]
  BY Zenon, IoPinned DEF IoInv
<1>3. /\ ~ io_in_progress'[cur[q]]
      /\ \A b \in Buffers \ {cur[q]} : io_in_progress'[b] = io_in_progress[b]
  BY Zenon, <1>2 DEF Typed, HeadersTyped
<1>4. (\A p \in Procs : DoesIO(p) => io_in_progress[cur[p]])'
  BY Zenon, <1>1, <1>2, <1>3 DEF IoInv
<1>5. (\A b \in Buffers : io_in_progress[b] => \E p \in Procs : DoesIO(p) /\ cur[p] = b)'
  <2>1. ASSUME NEW b \in Buffers \ {cur[q]}, io_in_progress[b]
        PROVE  \E p \in Procs : DoesIO(p)' /\ cur'[p] = b
    <3>1. PICK p \in Procs : DoesIO(p) /\ cur[p] = b
      BY Zenon, <2>1 DEF IoInv
    <3> QED
      BY Zenon, <1>1, <2>1, <3>1
  <2> QED
    BY Zenon, <1>3, <2>1
<1>6. (\A p, r \in Procs : DoesIO(p) /\ DoesIO(r) /\ cur[p] = cur[r] => p = r)'
  BY SMTT(40), Z3T(40), <1>1 DEF IoInv
<1>7. (\A p \in Procs : pc[p] = "read" => ~ valid[cur[p]])'
  <2>1. \A p \in Procs : pc'[p] = "read" => DoesIO(p)'
    BY Zenon DEF DoesIO
  <2> QED
    BY SMTT(40), Z3T(40), <1>1, <1>2, <2>1 DEF IoInv
<1> QED
  BY Zenon, <1>4, <1>5, <1>6, <1>7 DEF IoInv

\* ClearBuffer, of a buffer that nobody else has pinned.
LEMMA IoCleared ==
    ASSUME Typed, MapInv, IoInv, NEW q \in Procs, Local(q), ~ DoesIO(q), ~ DoesIO(q)',
           NEW b \in Buffers, \A p \in Procs \ {q} : p \notin pins[b], ClearBuffer(b)
    PROVE  IoInv'
<1>1. \A p \in Procs : /\ DoesIO(p)' <=> DoesIO(p)
                       /\ DoesIO(p) => cur'[p] = cur[p] /\ cur[p] \in Buffers \ {b}
  BY Zenon, OthersDoIO, IoPinned
<1>2. \A p \in Procs : pc'[p] = "read" => DoesIO(p) /\ pc[p] = "read"
  BY Zenon, <1>1, OthersDoIO DEF DoesIO
<1>3. /\ ~ io_in_progress'[b] /\ \A c \in Buffers \ {b} : io_in_progress'[c] = io_in_progress[c]
      /\ \A c \in Buffers \ {b} : valid'[c] = valid[c]
  BY Zenon DEF ClearBuffer, Typed, HeadersTyped
<1>4. (\A p \in Procs : DoesIO(p) => io_in_progress[cur[p]])'
  BY Zenon, <1>1, <1>3 DEF IoInv
<1>5. (\A c \in Buffers : io_in_progress[c] => \E p \in Procs : DoesIO(p) /\ cur[p] = c)'
  <2>1. ASSUME NEW c \in Buffers \ {b}, io_in_progress[c]
        PROVE  \E p \in Procs : DoesIO(p)' /\ cur'[p] = c
    <3>1. PICK p \in Procs : DoesIO(p) /\ cur[p] = c
      BY Zenon, <2>1 DEF IoInv
    <3> QED
      BY Zenon, <1>1, <3>1
  <2> QED
    BY Zenon, <1>3, <2>1
<1>6. (\A p, r \in Procs : DoesIO(p) /\ DoesIO(r) /\ cur[p] = cur[r] => p = r)'
  BY Zenon, <1>1 DEF IoInv
<1>7. (\A p \in Procs : pc[p] = "read" => ~ valid[cur[p]])'
  BY Zenon, <1>1, <1>2, <1>3 DEF IoInv
<1> QED
  BY Zenon, <1>4, <1>5, <1>6, <1>7 DEF IoInv

\* Buffer I/O, in the steps of any process.
LEMMA IoShared ==
    ASSUME Typed, MapInv, IoInv, NEW p \in Procs, Shared(p)
    PROVE  IoInv'
<1>0. p \in Procs /\ AtWork(p) /\ KeepsOuter(p) /\ Local(p)
  BY Zenon, LocalShared DEF MapInv, Procs
<1>1. CASE StartOutput(p)
  <2>1. cur[p] \in Buffers /\ UNCHANGED <<valid, cur>> /\ ~ io_in_progress[cur[p]] /\ ~ DoesIO(p)
    BY Zenon, <1>0, <1>1 DEF StartOutput, loc, IoFree, AtWork, DoesIO, HasBuffer, Pinning,
        Reading, Writing
  <2>2. CASE dirty[cur[p]]
    <3>1. DoesIO(p)' /\ (pc'[p] = "read" => ~ valid[cur[p]])
      BY Zenon, <1>0, <1>1, <2>2 DEF StartOutput, AfterFlush, UnpinThen, Go, DoesIO, Typed,
          LocalsTyped
    <3> QED
      BY Zenon, <1>0, <1>1, <2>1, <2>2, <3>1, IoStarts DEF StartOutput
  <2>3. CASE ~ (dirty[cur[p]])
    <3>1. ~ DoesIO(p)' /\ pc'[p] # "read" /\ UNCHANGED io_in_progress
      BY Zenon, <1>0, <1>1, <2>3 DEF StartOutput, AfterFlush, UnpinThen, Go, DoesIO, Typed,
          LocalsTyped
    <3> QED
      BY Zenon, <1>0, <2>1, <3>1, IoQuiet
  <2> QED
    BY Zenon, <2>2, <2>3
<1>2. CASE EndWrite(p)
  <2>1. DoesIO(p) /\ ~ DoesIO(p)'
    BY Zenon, <1>0, <1>2 DEF EndWrite, AfterFlush, UnpinThen, Go, DoesIO, Typed, LocalsTyped
  <2>2. \A b \in Buffers \ {cur[p]} : valid'[b] = valid[b]
    BY Zenon, <1>2 DEF EndWrite, Typed, HeadersTyped
  <2> QED
    BY Zenon, <1>0, <1>2, <2>1, <2>2, IoEnds DEF EndWrite
<1>3. CASE AbortBufferIO(p)
  <2>1. DoesIO(p) /\ ~ DoesIO(p)'
    BY Zenon, <1>0, <1>3 DEF AbortBufferIO, Go, DoesIO, Typed, LocalsTyped
  <2>2. \A b \in Buffers \ {cur[p]} : valid'[b] = valid[b]
    BY Zenon, <1>3 DEF AbortBufferIO, Typed, HeadersTyped
  <2> QED
    BY Zenon, <1>0, <1>3, <2>1, <2>2, IoEnds DEF AbortBufferIO
<1>4. CASE \/ UnpinBuffer(p) \/ WakeWaiter(p) \/ SendSignal(p)
  <2>1. UNCHANGED <<io_in_progress, valid>>
    BY Zenon, <1>0, <1>4 DEF UnpinBuffer, WakeWaiter, SendSignal, hdr, flags
  <2>2. /\ DoesIO(p)' <=> DoesIO(p)
        /\ DoesIO(p) => cur'[p] = cur[p]
        /\ pc'[p] = "read" => pc[p] = "read"
    BY Zenon, <1>0, <1>4 DEF UnpinBuffer, WakeWaiter, SendSignal, Return, Go, DoesIO,
        KeepsOuter, Unpinning, Typed, LocalsTyped
  <2> QED
    BY Zenon, <1>0, <2>1, <2>2, IoQuiet
<1>5. CASE \/ LockForFlush(p) \/ XLogFlush(p) \/ WritePage(p) \/ TransferFails(p)
           \/ ReleasePins(p)
  <2>1. UNCHANGED <<io_in_progress, valid>>
    BY Zenon, <1>0, <1>5 DEF LockForFlush, XLogFlush, WritePage, TransferFails, ReleasePins,
        hdr
  <2>2. /\ DoesIO(p)' <=> DoesIO(p)
        /\ DoesIO(p) => cur'[p] = cur[p]
        /\ pc'[p] = "read" => pc[p] = "read"
    BY Zenon, <1>0, <1>5 DEF LockForFlush, XLogFlush, WritePage, TransferFails, ReleasePins,
        UnpinThen, Go, loc, DoesIO, KeepsOuter, Unpinning, Typed, LocalsTyped
  <2> QED
    BY <1>0, <2>1, <2>2, IoQuiet
<1> QED
  BY Zenon, <1>1, <1>2, <1>3, <1>4, <1>5 DEF Shared

\* Buffer I/O, in the steps of a backend.
LEMMA IoBackend ==
    ASSUME Typed, MapInv, IoInv, NEW p \in Backends, Backend(p)
    PROVE  IoInv'
<1>0. p \in Procs /\ AtWork(p) /\ KeepsOuter(p) /\ Local(p)
  BY Zenon, LocalBackend DEF MapInv, Procs
<1>1. CASE InvalidateVictimBuffer(p)
  <2>1. cur[p] \in Buffers /\ ~ DoesIO(p) /\ ~ DoesIO(p)' /\ pc'[p] # "read"
    BY Zenon, <1>0, <1>1 DEF InvalidateVictimBuffer, UnpinThen, Go, AtWork, DoesIO, HasBuffer,
        Pinning, AtVictim, Typed,
        LocalsTyped
  <2>2. CASE StillVictim(p, cur[p])
    BY Zenon, <1>0, <1>1, <2>1, <2>2, IoCleared DEF InvalidateVictimBuffer, StillVictim
  <2>3. CASE ~ (StillVictim(p, cur[p]))
    BY Zenon, <1>0, <1>1, <2>1, <2>3, IoQuiet DEF InvalidateVictimBuffer, flags
  <2> QED
    BY <2>2, <2>3
<1>2. CASE StartInput(p)
  <2>1. cur[p] \in Buffers /\ UNCHANGED <<valid, cur>> /\ ~ io_in_progress[cur[p]] /\ ~ DoesIO(p)
    BY Zenon, <1>0, <1>2 DEF StartInput, loc, IoFree, AtWork, DoesIO, HasBuffer, Pinning,
        Reading, Writing
  <2>2. CASE ~ valid[cur[p]]
    <3>1. DoesIO(p)' /\ (pc'[p] = "read" => ~ valid[cur[p]])
      BY Zenon, <1>0, <1>2, <2>2 DEF StartInput, Go, DoesIO, Typed, LocalsTyped
    <3> QED
      BY Zenon, <1>0, <1>2, <2>1, <2>2, <3>1, IoStarts DEF StartInput
  <2>3. CASE ~ (~ valid[cur[p]])
    <3>1. ~ DoesIO(p)' /\ pc'[p] # "read" /\ UNCHANGED io_in_progress
      BY Zenon, <1>0, <1>2, <2>3 DEF StartInput, Go, DoesIO, Typed, LocalsTyped
    <3> QED
      BY Zenon, <1>0, <2>1, <3>1, IoQuiet
  <2> QED
    BY Zenon, <2>2, <2>3
<1>3. CASE ReadPage(p)
  <2>1. DoesIO(p) /\ ~ DoesIO(p)'
    BY Zenon, <1>0, <1>3 DEF ReadPage, Go, DoesIO, Typed, LocalsTyped
  <2>2. \A b \in Buffers \ {cur[p]} : valid'[b] = valid[b]
    BY Zenon, <1>3 DEF ReadPage, Typed, HeadersTyped
  <2> QED
    BY Zenon, <1>0, <1>3, <2>1, <2>2, IoEnds DEF ReadPage
<1>4. CASE InvalidateBuffer(p)
  <2>1. cur[p] \in Buffers /\ ~ DoesIO(p) /\ ~ DoesIO(p)' /\ pc'[p] # "read"
    BY Zenon, <1>0, <1>4 DEF InvalidateBuffer, RetryPinned, Go, AtWork, DoesIO, HasBuffer,
        Pinning, AtVictim, Typed,
        LocalsTyped
  <2>2. CASE tag[cur[p]] = want[p] /\ pins[cur[p]] = {}
    BY Zenon, <1>0, <1>4, <2>1, <2>2, IoCleared DEF InvalidateBuffer, StillVictim
  <2>3. CASE ~ (tag[cur[p]] = want[p] /\ pins[cur[p]] = {})
    BY Zenon, <1>0, <1>4, <2>1, <2>3, IoQuiet DEF InvalidateBuffer, flags
  <2> QED
    BY Zenon, <2>2, <2>3
<1>5. CASE \/ StrategyGetBuffer(p) \/ TryFreeBuffer(p) \/ ClockSweepTick(p)
           \/ TrySweptBuffer(p) \/ LockVictim(p)
  <2>1. UNCHANGED <<io_in_progress, valid>>
    BY Zenon, <1>0, <1>5 DEF StrategyGetBuffer, TryFreeBuffer, ClockSweepTick,
        TrySweptBuffer, LockVictim, hdr, flags
  <2>2. /\ DoesIO(p)' <=> DoesIO(p)
        /\ DoesIO(p) => cur'[p] = cur[p]
        /\ pc'[p] = "read" => pc[p] = "read"
    BY Zenon, <1>0, <1>5 DEF StrategyGetBuffer, TryFreeBuffer, ClockSweepTick,
        TrySweptBuffer, LockVictim, UnpinThen, ClaimVictim, VictimLocked, Go, loc,
        DoesIO, KeepsOuter, Unpinning, Typed, LocalsTyped
  <2> QED
    BY Zenon, <1>0, <2>1, <2>2, IoQuiet
<1>6. CASE \/ DeleteVictimMapping(p) \/ BufTableInsert(p) \/ FreeVictim(p)
           \/ PinExisting(p)
  <2>1. UNCHANGED <<io_in_progress, valid>>
    BY Zenon, <1>0, <1>6 DEF DeleteVictimMapping, BufTableInsert, FreeVictim, PinExisting,
        hdr, flags
  <2>2. /\ DoesIO(p)' <=> DoesIO(p)
        /\ DoesIO(p) => cur'[p] = cur[p]
        /\ pc'[p] = "read" => pc[p] = "read"
    BY Zenon, <1>0, <1>6 DEF DeleteVictimMapping, BufTableInsert, FreeVictim, PinExisting,
        AfterPin, UnpinThen, Go, loc, DoesIO, KeepsOuter, Unpinning, Typed,
        LocalsTyped
  <2> QED
    BY <1>0, <2>1, <2>2, IoQuiet
<1>7. CASE \/ LockShare(p) \/ LockExclusive(p) \/ UnlockBuffer(p) \/ ReleaseBuffer(p)
  <2>1. UNCHANGED <<io_in_progress, valid>>
    BY Zenon, <1>0, <1>7 DEF LockShare, LockExclusive, UnlockBuffer, ReleaseBuffer, hdr
  <2>2. /\ DoesIO(p)' <=> DoesIO(p)
        /\ DoesIO(p) => cur'[p] = cur[p]
        /\ pc'[p] = "read" => pc[p] = "read"
    BY Zenon, <1>0, <1>7 DEF LockShare, LockExclusive, UnlockBuffer, ReleaseBuffer,
        UnpinThen, Go, loc, DoesIO, KeepsOuter, Unpinning, Typed, LocalsTyped
  <2> QED
    BY <1>0, <2>1, <2>2, IoQuiet
<1>8. CASE \/ MarkBufferDirty(p) \/ LogChange(p) \/ SetHint(p)
           \/ MarkBufferDirtyHint(p) \/ SetHintDirty(p)
  <2>1. UNCHANGED <<io_in_progress, valid>>
    BY Zenon, <1>0, <1>8 DEF MarkBufferDirty, LogChange, SetHint, MarkBufferDirtyHint,
        SetHintDirty, hdr
  <2>2. /\ DoesIO(p)' <=> DoesIO(p)
        /\ DoesIO(p) => cur'[p] = cur[p]
        /\ pc'[p] = "read" => pc[p] = "read"
    BY Zenon, <1>0, <1>8 DEF MarkBufferDirty, LogChange, SetHint, MarkBufferDirtyHint,
        SetHintDirty, Go, loc, DoesIO, KeepsOuter, Unpinning, Typed, LocalsTyped
  <2> QED
    BY <1>0, <2>1, <2>2, IoQuiet
<1>9. CASE \/ LockBufferForCleanup(p) \/ CheckCleanup(p) \/ UnlockForWait(p)
           \/ WakeUp(p) \/ AfterWait(p)
  <2>1. UNCHANGED <<io_in_progress, valid>>
    BY Zenon, <1>0, <1>9 DEF LockBufferForCleanup, CheckCleanup, UnlockForWait, WakeUp,
        AfterWait, hdr, flags
  <2>2. /\ DoesIO(p)' <=> DoesIO(p)
        /\ DoesIO(p) => cur'[p] = cur[p]
        /\ pc'[p] = "read" => pc[p] = "read"
    BY Zenon, <1>0, <1>9 DEF LockBufferForCleanup, CheckCleanup, UnlockForWait, WakeUp,
        AfterWait, Go, loc, DoesIO, KeepsOuter, Unpinning, Typed, LocalsTyped
  <2> QED
    BY <1>0, <2>1, <2>2, IoQuiet
<1>10. CASE \/ DropRelationBuffers(p) \/ WaitIO(p) \/ DeleteDropped(p) \/ FreeDropped(p)
  <2>1. UNCHANGED <<io_in_progress, valid>>
    BY Zenon, <1>0, <1>10 DEF DropRelationBuffers, WaitIO, DeleteDropped, FreeDropped, hdr
  <2>2. /\ DoesIO(p)' <=> DoesIO(p)
        /\ DoesIO(p) => cur'[p] = cur[p]
        /\ pc'[p] = "read" => pc[p] = "read"
    BY Zenon, <1>0, <1>10 DEF DropRelationBuffers, WaitIO, DeleteDropped, FreeDropped, Go,
        loc, DoesIO, KeepsOuter, Unpinning, Typed, LocalsTyped
  <2> QED
    BY <1>0, <2>1, <2>2, IoQuiet
<1>11. ASSUME NEW t \in Pages, BufferAlloc(p, t)
      PROVE  IoInv'
  <2>1. UNCHANGED <<io_in_progress, valid>>
    BY Zenon, <1>0, <1>11 DEF BufferAlloc, flags
  <2>2. /\ DoesIO(p)' <=> DoesIO(p)
        /\ DoesIO(p) => cur'[p] = cur[p]
        /\ pc'[p] = "read" => pc[p] = "read"
    BY Zenon, <1>0, <1>11 DEF BufferAlloc, AfterPin, MayRead, Go, DoesIO, KeepsOuter,
        Unpinning, Typed, LocalsTyped
  <2> QED
    BY Zenon, <1>0, <2>1, <2>2, IoQuiet
<1>12. ASSUME NEW t \in Pages, DropRelation(p, t)
      PROVE  IoInv'
  <2>1. UNCHANGED <<io_in_progress, valid>>
    BY Zenon, <1>0, <1>12 DEF DropRelation, hdr
  <2>2. /\ DoesIO(p)' <=> DoesIO(p)
        /\ DoesIO(p) => cur'[p] = cur[p]
        /\ pc'[p] = "read" => pc[p] = "read"
    BY Zenon, <1>0, <1>12 DEF DropRelation, Go, DoesIO, KeepsOuter, Unpinning, Typed,
        LocalsTyped
  <2> QED
    BY <1>0, <2>1, <2>2, IoQuiet
<1> QED
  BY Zenon, <1>1, <1>2, <1>3, <1>4, <1>5, <1>6, <1>7, <1>8, <1>9, <1>10, <1>11, <1>12 DEF Backend

\* Buffer I/O, in the steps of the checkpointer.
LEMMA IoCheckpoint ==
    ASSUME Typed, MapInv, IoInv, Checkpoint
    PROVE  IoInv'
<1>0. Checkpointer \in Procs /\ AtWork(Checkpointer) /\ KeepsOuter(Checkpointer)
      /\ Local(Checkpointer)
  BY Zenon, LocalCheckpoint DEF MapInv, Procs
<1>1. CASE \/ CreateCheckPoint \/ MarkForCheckpoint \/ BufferSync \/ SyncOneBuffer
           \/ EndCheckPoint
  <2>1. UNCHANGED <<io_in_progress, valid>>
    BY Zenon, <1>0, <1>1 DEF CreateCheckPoint, MarkForCheckpoint, BufferSync, SyncOneBuffer,
        EndCheckPoint, hdr, flags
  <2>2. /\ DoesIO(Checkpointer)' <=> DoesIO(Checkpointer)
        /\ DoesIO(Checkpointer) => cur'[Checkpointer] = cur[Checkpointer]
        /\ pc'[Checkpointer] = "read" => pc[Checkpointer] = "read"
    BY Zenon, <1>0, <1>1 DEF CreateCheckPoint, MarkForCheckpoint, BufferSync, SyncOneBuffer,
        EndCheckPoint, Go, loc, DoesIO, KeepsOuter, Unpinning, Typed, LocalsTyped
  <2> QED
    BY Zenon, <1>0, <2>1, <2>2, IoQuiet
<1> QED
  BY Zenon, <1>1 DEF Checkpoint

-----------------------------------------------------------------------------
(* Dropped relations. *)

\* The loop of DropRelationBuffers has found every buffer of the page before scan[p],
\* but for the one it is working on.
Scanned(p) ==
    \A b \in Buffers : b < scan[p] /\ tag[b] = want[p] =>
        pc[p] \in {"invalidate", "waitio"} /\ cur[p] = b

\* Nobody but the process that drops a page works with it.
DropsAlone(p) ==
    /\ pc[p] \in Dropping => want[p] \in dropped /\ Scanned(p)
    /\ pc[p] \notin Dropping /\ want[p] # NoPage => want[p] \notin dropped
    /\ outer[p] # NoBuffer /\ ~ Aborting(p) => tag[outer[p]] \notin dropped

\* The inductive invariant of dropped pages.
DropInv ==
    /\ unlinked \subseteq dropped /\ dropped \subseteq Pages /\ DroppedStaysGone
    /\ want[Checkpointer] = NoPage
    /\ \A p \in Procs : DropsAlone(p)

\* What a step of q may do to the tags and to the set of dropped pages, for another process p.
LeavesDrops(q) ==
    /\ \A b \in Buffers : tag'[b] # tag[b] => tag'[b] = NoPage \/ tag'[b] \notin dropped
    /\ \A p \in Procs \ {q} : /\ want[p] \in dropped' => want[p] \in dropped
                              /\ outer[p] # NoBuffer /\ ~ Aborting(p) =>
                                    tag'[outer[p]] = tag[outer[p]]
                                    /\ (tag[outer[p]] \in dropped' => tag[outer[p]] \in dropped)

\* What remains to be shown for a step of q.
LEMMA DropStep ==
    ASSUME Typed, MapInv, DropInv, NEW q \in Procs, Local(q), LeavesDrops(q), DropsAlone(q)',
           dropped \subseteq dropped', dropped' \subseteq Pages, unlinked' \subseteq dropped',
           DroppedStaysGone',
           q = Checkpointer => want'[q] = NoPage
    PROVE  DropInv'
<1>1. ASSUME NEW p \in Procs \ {q}
      PROVE  DropsAlone(p)'
  <2>1. UNCHANGED <<pc[p], ret[p], cur[p], outer[p], want[p], scan[p]>>
    BY Zenon DEF Local
  <2>2. Aborting(p)' <=> Aborting(p)
    BY Zenon, <2>1 DEF Aborting
  <2>3. DropsAlone(p)
    BY Zenon DEF DropInv
  <2>4. pc[p] \in Dropping => want[p] \in dropped /\ want[p] \in Pages /\ Scanned(p)
    BY Zenon, <2>3 DEF DropsAlone, MapInv, AtWork
  <2>5. pc[p] \in Dropping => Scanned(p)'
    BY ZenonT(40), <2>1, <2>4, NoneIsNone DEF Scanned, LeavesDrops
  <2>6. (pc[p] \in Dropping => want[p] \in dropped /\ Scanned(p))'
    BY Zenon, <2>1, <2>4, <2>5
  <2>7. (pc[p] \notin Dropping /\ want[p] # NoPage => want[p] \notin dropped)'
    BY Zenon, <2>1, <2>3 DEF DropsAlone, LeavesDrops
  <2>8. (outer[p] # NoBuffer /\ ~ Aborting(p) => tag[outer[p]] \notin dropped)'
    BY Zenon, <2>1, <2>2, <2>3 DEF DropsAlone, LeavesDrops
  <2> QED
    BY Zenon, <2>6, <2>7, <2>8 DEF DropsAlone
<1>2. want'[Checkpointer] = NoPage
  BY SMTT(40), Z3T(40) DEF Local, DropInv, Procs
<1> QED
  BY Zenon, <1>1, <1>2 DEF DropInv

\* A step that changes neither tags nor the set of dropped pages.
LEMMA DropQuiet ==
    ASSUME Typed, MapInv, DropInv, NEW q \in Procs, Local(q),
           UNCHANGED <<tag, dropped, unlinked>>,
           DropsAlone(q)', q = Checkpointer => want'[q] = NoPage
    PROVE  DropInv'
<1>1. LeavesDrops(q)
  BY Zenon DEF LeavesDrops
<1>2. DroppedStaysGone' /\ unlinked' \subseteq dropped' /\ dropped \subseteq dropped'
      /\ dropped' \subseteq Pages
  BY Zenon DEF DropInv, DroppedStaysGone
<1> QED
  BY Zenon, <1>1, <1>2, DropStep

\* At the end of UnpinBuffer the caller has its page back, or none.
LEMMA DropReturn ==
    ASSUME Typed, MapInv, DropInv, NEW p \in Procs, pc[p] \in Unpinning, Return(p),
           UNCHANGED <<tag, dropped>>
    PROVE  DropsAlone(p)' /\ (p = Checkpointer => want'[p] = NoPage)
<1>1. /\ KeepsOuter(p) /\ DropsAlone(p)
         /\ (p = Checkpointer => ret[p] \in {"sync", "abort"} /\ want[p] = NoPage)
  BY Zenon DEF MapInv, AtCheckpoint, DropInv
<1>2. ret[p] \in {"idle", "exclusive", "getvictim", "collide", "abort", "sync"}
  BY Zenon, <1>1 DEF KeepsOuter
<1>3. pc'[p] = ret[p] /\ pc'[p] \notin Dropping /\ pc[p] \notin Dropping
  BY Zenon, <1>2 DEF Return, Go, Dropping, Unpinning, Typed, LocalsTyped
<1>4. /\ want'[p] = IF ret[p] = "idle" THEN NoPage
         ELSE IF ret[p] = "exclusive" THEN tag[outer[p]] ELSE want[p]
      /\ outer'[p] = IF ret[p] = "exclusive" THEN NoBuffer ELSE outer[p]
  BY Zenon DEF Return, Typed, LocalsTyped
<1>5. want'[p] # NoPage => want'[p] \notin dropped
  BY Zenon, <1>1, <1>3, <1>4 DEF DropsAlone, KeepsOuter, Aborting, Unpinning
<1>6. outer'[p] # NoBuffer /\ ~ Aborting(p)' => tag[outer'[p]] \notin dropped
  BY Zenon, <1>1, <1>3, <1>4 DEF DropsAlone, Aborting, Unpinning
<1>7. p = Checkpointer => want'[p] = NoPage
  BY Zenon, <1>1, <1>4
<1> QED
  BY Zenon, <1>3, <1>5, <1>6, <1>7 DEF DropsAlone

\* ClearBuffer takes a tag away from a buffer that nobody keeps.
LEMMA DropClears ==
    ASSUME Typed, MapInv, DropInv, NEW q \in Procs, q # Checkpointer, Local(q),
           UNCHANGED <<dropped, unlinked>>,
           \A b \in Buffers : tag'[b] # tag[b] => tag'[b] = NoPage,
           \A p \in Procs : outer[p] # NoBuffer /\ ~ Aborting(p) =>
               tag'[outer[p]] = tag[outer[p]],
           NoPage \notin unlinked, DropsAlone(q)'
    PROVE  DropInv'
<1>1. LeavesDrops(q)
  BY Zenon DEF LeavesDrops
<1>2. DroppedStaysGone' /\ unlinked' \subseteq dropped' /\ dropped \subseteq dropped'
      /\ dropped' \subseteq Pages
  BY Zenon DEF DropInv, DroppedStaysGone
<1> QED
  BY Zenon, <1>1, <1>2, DropStep

\* Dropped pages, in the steps of any process.
LEMMA DropsShared ==
    ASSUME Typed, MapInv, DropInv, NEW p \in Procs, Shared(p)
    PROVE  DropInv'
<1>0. /\ p \in Procs /\ AtWork(p) /\ KeepsOuter(p) /\ Local(p)
      /\ DropsAlone(p) /\ want[Checkpointer] = NoPage
  BY Zenon, LocalShared DEF MapInv, DropInv, Procs
<1>1. CASE UnpinBuffer(p)
  <2>1. pc[p] \in Unpinning /\ UNCHANGED <<tag, dropped, unlinked>>
    BY Zenon, <1>1 DEF UnpinBuffer, rels, Unpinning
  <2>2. CASE Return(p)
    BY Zenon, <1>0, <2>1, <2>2, DropReturn, DropQuiet
  <2>3. CASE Go(p, "wakewaiter") /\ UNCHANGED <<ret, want, cur, outer>>
    <3>1. DropsAlone(p)' /\ (p = Checkpointer => want'[p] = NoPage)
      BY Zenon, <1>0, <2>1, <2>3 DEF Go, DropsAlone, Aborting, Dropping, Unpinning, Typed,
          LocalsTyped
    <3> QED
      BY Zenon, <1>0, <2>1, <3>1, DropQuiet
  <2> QED
    BY Zenon, <1>1, <2>2, <2>3 DEF UnpinBuffer
<1>2. CASE WakeWaiter(p)
  <2>1. pc[p] \in Unpinning /\ UNCHANGED <<tag, dropped, unlinked>>
    BY Zenon, <1>2 DEF WakeWaiter, rels, Unpinning
  <2>2. CASE Return(p)
    BY <1>0, <2>1, <2>2, DropReturn, DropQuiet
  <2>3. CASE Go(p, "signal") /\ UNCHANGED <<ret, want, cur, outer>>
    <3>1. DropsAlone(p)' /\ (p = Checkpointer => want'[p] = NoPage)
      BY Zenon, <1>0, <2>1, <2>3 DEF Go, DropsAlone, Aborting, Dropping, Unpinning, Typed,
          LocalsTyped
    <3> QED
      BY <1>0, <2>1, <3>1, DropQuiet
  <2> QED
    BY Zenon, <1>2, <2>2, <2>3 DEF WakeWaiter
<1>3. CASE SendSignal(p)
  <2>1. pc[p] \in Unpinning /\ UNCHANGED <<tag, dropped, unlinked>>
    BY Zenon, <1>3 DEF SendSignal, hdr, rels, Unpinning
  <2>2. Return(p)
    BY Zenon, <1>3 DEF SendSignal
  <2> QED
    BY Zenon, <1>0, <2>1, <2>2, DropReturn, DropQuiet
<1>4. CASE \/ LockForFlush(p) \/ StartOutput(p) \/ XLogFlush(p)
  <2>1. UNCHANGED <<tag, dropped, unlinked>>
    BY Zenon, <1>0, <1>4 DEF LockForFlush, StartOutput, XLogFlush, hdr, rels
  <2>2. DropsAlone(p)' /\ (p = Checkpointer => want'[p] = NoPage)
    BY Zenon, <1>0, <1>4, <2>1 DEF LockForFlush, StartOutput, XLogFlush, UnpinThen,
        AfterFlush, Go, ckpt, loc, DropsAlone, Scanned, KeepsOuter, Aborting,
        Dropping, Unpinning, Typed, LocalsTyped
  <2> QED
    BY Zenon, <1>0, <2>1, <2>2, DropQuiet
<1>5. CASE \/ WritePage(p) \/ EndWrite(p)
  <2>1. UNCHANGED <<tag, dropped, unlinked>>
    BY Zenon, <1>0, <1>5 DEF WritePage, EndWrite, hdr, rels
  <2>2. DropsAlone(p)' /\ (p = Checkpointer => want'[p] = NoPage)
    BY Zenon, <1>0, <1>5, <2>1 DEF WritePage, EndWrite, UnpinThen, AfterFlush, Go, ckpt,
        loc, DropsAlone, Scanned, KeepsOuter, Aborting, Dropping, Unpinning, Typed,
        LocalsTyped
  <2> QED
    BY <1>0, <2>1, <2>2, DropQuiet
<1>6. CASE \/ TransferFails(p) \/ AbortBufferIO(p) \/ ReleasePins(p)
  <2>1. UNCHANGED <<tag, dropped, unlinked>>
    BY Zenon, <1>0, <1>6 DEF TransferFails, AbortBufferIO, ReleasePins, hdr, rels
  <2>2. DropsAlone(p)' /\ (p = Checkpointer => want'[p] = NoPage)
    BY Zenon, <1>0, <1>6, <2>1 DEF TransferFails, AbortBufferIO, ReleasePins, UnpinThen, Go,
        ckpt, loc, DropsAlone, Scanned, KeepsOuter, Aborting, Dropping, Unpinning,
        Typed, LocalsTyped
  <2> QED
    BY <1>0, <2>1, <2>2, DropQuiet
<1> QED
  BY Zenon, <1>1, <1>2, <1>3, <1>4, <1>5, <1>6 DEF Shared

\* Dropped pages, in the steps of a backend.
LEMMA DropsBackend ==
    ASSUME Typed, MapInv, DropInv, NEW p \in Backends, Backend(p)
    PROVE  DropInv'
<1>0. /\ p \in Procs /\ AtWork(p) /\ KeepsOuter(p) /\ Local(p)
      /\ DropsAlone(p) /\ p # Checkpointer
  BY Zenon, LocalBackend, NoneIsNone DEF MapInv, DropInv, Procs
<1>1. ASSUME NEW t \in Pages, BufferAlloc(p, t)
      PROVE  DropInv'
  <2>1. /\ pc[p] \in {"idle", "exclusive"} /\ t \notin dropped /\ p # Checkpointer
        /\ UNCHANGED <<tag, dropped, unlinked>>
    BY Zenon, <1>0, <1>1, NoneIsNone DEF BufferAlloc, MayRead, rels
  <2>2. /\ want'[p] = t /\ outer'[p] = cur[p] /\ pc'[p] \in {"pinned", "startin", "getvictim"}
    BY Zenon, <1>0, <1>1 DEF BufferAlloc, AfterPin, Go, Typed, LocalsTyped
  <2>3. cur[p] # NoBuffer => tag[cur[p]] \notin dropped
    <3>1. pc[p] = "idle" => cur[p] = NoBuffer
      BY Zenon, <1>0 DEF KeepsOuter
    <3>2. pc[p] = "exclusive" => tag[cur[p]] = want[p] /\ want[p] \in Pages
      BY Zenon, <1>0 DEF AtWork, Holding
    <3> QED
      BY Zenon, <1>0, <2>1, <3>1, <3>2, NoneIsNone DEF DropsAlone, Dropping
  <2>4. DropsAlone(p)'
    BY Zenon, <2>1, <2>2, <2>3 DEF DropsAlone, Dropping
  <2> QED
    BY Zenon, <1>0, <2>1, <2>4, DropQuiet
<1>2. ASSUME NEW t \in Pages, DropRelation(p, t)
      PROVE  DropInv'
  <2>1. /\ pc[p] = "idle" /\ pc'[p] = "drop" /\ want'[p] = t /\ scan'[p] = 0 /\ p # Checkpointer
        /\ dropped' = dropped \cup {t} /\ UNCHANGED <<tag, unlinked, outer>> /\ t \notin dropped
    BY Zenon, <1>0, <1>2, NoneIsNone DEF DropRelation, Go, hdr, Typed, LocalsTyped
  <2>2. outer[p] = NoBuffer
    BY Zenon, <1>0, <2>1 DEF KeepsOuter
  <2>3. \A q \in Procs \ {p} : want[q] # t
    BY Zenon, <1>2, NoneIsNone DEF DropRelation, Procs, DropInv
  <2>4. \A q \in Procs : outer[q] # NoBuffer => tag[outer[q]] # t
    BY Zenon, <1>2 DEF DropRelation, Procs, MapInv, AtCheckpoint
  <2>5. LeavesDrops(p)
    BY Zenon, <2>1, <2>3, <2>4 DEF LeavesDrops
  <2>6. Scanned(p)'
    BY SMTT(40), Z3T(40), <2>1, NextBuffer DEF Scanned, Buffers
  <2>7. DropsAlone(p)'
    BY Zenon, <2>1, <2>2, <2>6 DEF DropsAlone, Dropping
  <2> QED
    BY Zenon, <1>0, <2>1, <2>5, <2>7, DropStep DEF DropInv, DroppedStaysGone
<1>3. CASE InvalidateVictimBuffer(p)
  <2>1. cur[p] \in Buffers /\ pc[p] = "inval" /\ UNCHANGED <<want, cur, outer>>
        /\ p # Checkpointer
    BY Zenon, <1>0, <1>3, NoneIsNone DEF InvalidateVictimBuffer, AtWork, HasBuffer, Pinning,
        AtVictim
  <2>2. CASE StillVictim(p, cur[p])
    <3>1. /\ tag' = [tag EXCEPT ![cur[p]] = NoPage] /\ UNCHANGED <<dropped, unlinked>>
          /\ pins[cur[p]] = {p} /\ pc'[p] = "delete"
      BY Zenon, <1>0, <1>3, <2>2 DEF InvalidateVictimBuffer, StillVictim, ClearBuffer, Go,
          rels, Typed, LocalsTyped
    <3>2. \A b \in Buffers : tag'[b] # tag[b] => b = cur[p] /\ tag'[b] = NoPage
      BY Zenon, <3>1 DEF Typed, HeadersTyped
    <3>3. ~ Aborting(p) /\ (outer[p] # NoBuffer => outer[p] # cur[p])
      BY Zenon, <1>0, <2>1 DEF Aborting, KeepsOuter, Pinning, AtVictim
    <3>4. ASSUME NEW q \in Procs, outer[q] # NoBuffer, ~ Aborting(q)
          PROVE  tag'[outer[q]] = tag[outer[q]]
      <4>1. q \in pins[outer[q]] /\ outer[q] \in Buffers
        BY ZenonT(40), <3>4 DEF MapInv, KeepsOuter, Typed, LocalsTyped
      <4>2. tag'[outer[q]] # tag[outer[q]] => outer[q] = cur[p] /\ q = p
        BY Zenon, <3>1, <3>2, <3>3, <4>1
      <4> QED
        BY Zenon, <3>3, <3>4, <4>2
    <3>5. DropsAlone(p)'
      BY SMTT(40), Z3T(40), <1>0, <2>1, <3>1, <3>3, <3>4 DEF DropsAlone, Dropping, Aborting
    <3> QED
      BY Zenon, <1>0, <2>1, <3>1, <3>2, <3>4, <3>5, NoneIsNone, DropClears DEF DropInv
  <2>3. CASE ~ StillVictim(p, cur[p])
    <3>1. /\ UNCHANGED <<tag, dropped, unlinked>>
          /\ pc'[p] = "unpin" /\ ret'[p] = "getvictim"
      BY Zenon, <1>0, <1>3, <2>3 DEF InvalidateVictimBuffer, UnpinThen, Go, rels, Typed,
          LocalsTyped
    <3>2. DropsAlone(p)'
      BY Zenon, <1>0, <2>1, <3>1 DEF DropsAlone, Aborting, Dropping
    <3> QED
      BY Zenon, <1>0, <2>1, <3>1, <3>2, DropQuiet
  <2> QED
    BY <2>2, <2>3
<1>4. CASE BufTableInsert(p)
  <2>1. /\ cur[p] \in Buffers /\ pc[p] = "insert"
        /\ UNCHANGED <<want, cur, outer, dropped, unlinked>>
        /\ p # Checkpointer /\ want[p] \in Pages /\ pins[cur[p]] = {p}
    BY Zenon, <1>0, <1>4, NoneIsNone DEF BufTableInsert, loc, rels, AtWork, HasBuffer, Pinning,
        AtVictim, Allocating
  <2>2. want[p] \notin dropped
    BY Zenon, <1>0, <2>1, NoneIsNone DEF DropsAlone, Dropping
  <2>3. \A b \in Buffers : tag'[b] # tag[b] => b = cur[p] /\ tag'[b] = want[p]
    BY Zenon, <1>4 DEF BufTableInsert, Typed, HeadersTyped
  <2>4. ~ Aborting(p) /\ (outer[p] # NoBuffer => outer[p] # cur[p])
    BY Zenon, <1>0, <2>1 DEF Aborting, KeepsOuter, Pinning, AtVictim
  <2>5. ASSUME NEW q \in Procs, outer[q] # NoBuffer, ~ Aborting(q)
        PROVE  tag'[outer[q]] = tag[outer[q]]
    <3>1. q \in pins[outer[q]] /\ outer[q] \in Buffers
      BY Zenon, <2>5 DEF MapInv, KeepsOuter, Typed, LocalsTyped
    <3>2. tag'[outer[q]] # tag[outer[q]] => outer[q] = cur[p] /\ q = p
      BY Zenon, <2>1, <2>3, <2>4, <3>1
    <3> QED
      BY <2>4, <2>5, <3>2
  <2>6. pc'[p] \in {"startin", "unpin"}
    BY Zenon, <1>0, <1>4 DEF BufTableInsert, UnpinThen, Go, Typed, LocalsTyped
  <2>7. DropsAlone(p)'
    BY Zenon, <1>0, <2>1, <2>2, <2>4, <2>5, <2>6 DEF DropsAlone, Dropping
  <2>8. LeavesDrops(p)
    BY Zenon, <2>1, <2>2, <2>3, <2>5 DEF LeavesDrops
  <2>9. DroppedStaysGone'
    BY Zenon, <2>1, <2>2, <2>3 DEF DropInv, DroppedStaysGone
  <2> QED
    BY Zenon, <1>0, <2>1, <2>7, <2>8, <2>9, DropStep DEF DropInv
<1>5. CASE DropRelationBuffers(p)
  <2>1. /\ pc[p] = "drop" /\ p # Checkpointer /\ outer[p] = NoBuffer /\ want[p] \in dropped
        /\ Scanned(p) /\ UNCHANGED <<tag, dropped, outer>> /\ scan[p] \in Nat /\ want[p] \in Pages
    BY Zenon, <1>0, <1>5, NoneIsNone DEF DropRelationBuffers, hdr, AtWork, Dropping,
        DropsAlone, Typed, LocalsTyped
  <2>2. CASE scan[p] = NBuffers
    <3>1. /\ pc'[p] = "idle" /\ want'[p] = NoPage /\ unlinked' = unlinked \cup {want[p]}
      BY SMTT(40), Z3T(40), <1>0, <1>5, <2>1, <2>2, NextBuffer DEF DropRelationBuffers, Go,
          Typed, LocalsTyped
    <3>2. \A b \in Buffers : tag[b] # want[p]
      BY SMTT(40), Z3T(40), <2>1, <2>2, NextBuffer DEF Scanned, Buffers
    <3>3. DroppedStaysGone' /\ unlinked' \subseteq dropped'
      BY Zenon, <2>1, <3>1, <3>2 DEF DropInv, DroppedStaysGone
    <3>4. DropsAlone(p)'
      BY Zenon, <2>1, <3>1 DEF DropsAlone, Dropping
    <3>5. LeavesDrops(p)
      BY Zenon, <2>1 DEF LeavesDrops
    <3> QED
      BY Zenon, <1>0, <2>1, <3>1, <3>3, <3>4, <3>5, DropStep DEF DropInv
  <2>3. CASE scan[p] < NBuffers
    <3>1. /\ UNCHANGED <<want, unlinked>> /\ scan'[p] = scan[p] + 1
          /\ \/ tag[scan[p]] = want[p] /\ pc'[p] = "invalidate" /\ cur'[p] = scan[p]
             \/ tag[scan[p]] # want[p] /\ pc'[p] = "drop"
      BY SMTT(40), Z3T(40), <1>0, <1>5, <2>1, <2>3, NextBuffer DEF DropRelationBuffers, Go,
          Typed, LocalsTyped
    <3>2. \A b \in Buffers : b < scan[p] + 1 => b < scan[p] \/ b = scan[p]
      BY SMTT(40), Z3T(40), <2>1, NextBuffer DEF Buffers
    <3>3. Scanned(p)'
      BY Zenon, <2>1, <3>1, <3>2 DEF Scanned
    <3>4. DropsAlone(p)'
      BY Zenon, <2>1, <3>1, <3>3 DEF DropsAlone, Dropping
    <3> QED
      BY Zenon, <1>0, <2>1, <3>1, <3>4, DropQuiet
  <2> QED
    BY Zenon, <1>5, <2>2, <2>3 DEF DropRelationBuffers
<1>6. CASE InvalidateBuffer(p)
  <2>1. /\ cur[p] \in Buffers /\ pc[p] = "invalidate"
        /\ UNCHANGED <<want, cur, outer, scan, dropped, unlinked>>
        /\ p # Checkpointer /\ outer[p] = NoBuffer /\ want[p] \in dropped /\ Scanned(p)
    BY Zenon, <1>0, <1>6, NoneIsNone DEF InvalidateBuffer, rels, ckpt, loc, AtWork, HasBuffer,
        DropsAlone, Dropping
  <2>2. CASE tag[cur[p]] = want[p] /\ pins[cur[p]] = {}
    <3>1. /\ tag' = [tag EXCEPT ![cur[p]] = NoPage] /\ pc'[p] = "dropdelete" /\ want[p] \in Pages
      BY Zenon, <1>0, <1>6, <2>2 DEF InvalidateBuffer, ClearBuffer, Go, AtWork, Dropping,
          Typed, LocalsTyped
    <3>2. tag'[cur[p]] = NoPage /\ \A b \in Buffers : tag'[b] # tag[b] =>
              b = cur[p] /\ tag'[b] = NoPage
      BY Zenon, <2>1, <3>1 DEF Typed, HeadersTyped
    <3>3. Scanned(p)'
      BY Zenon, <2>1, <3>1, <3>2, NoneIsNone DEF Scanned
    <3>4. ASSUME NEW q \in Procs, outer[q] # NoBuffer, ~ Aborting(q)
          PROVE  tag'[outer[q]] = tag[outer[q]]
      <4>1. q \in pins[outer[q]] /\ outer[q] \in Buffers
        BY Zenon, <3>4 DEF MapInv, KeepsOuter, Typed, LocalsTyped
      <4> QED
        BY Zenon, <2>2, <3>2, <4>1
    <3>5. DropsAlone(p)'
      BY Zenon, <2>1, <3>1, <3>3 DEF DropsAlone, Dropping
    <3> QED
      BY Zenon, <1>0, <2>1, <3>2, <3>4, <3>5, NoneIsNone, DropClears DEF DropInv
  <2>3. CASE ~ (tag[cur[p]] = want[p] /\ pins[cur[p]] = {})
    <3>1. /\ UNCHANGED tag /\ ((pc'[p] = "drop" /\ tag[cur[p]] # want[p]) \/ pc'[p] = "waitio")
      BY Zenon, <1>0, <1>6, <2>3 DEF InvalidateBuffer, RetryPinned, Go, Typed, LocalsTyped
    <3>2. Scanned(p)'
      BY Zenon, <2>1, <3>1 DEF Scanned
    <3>3. DropsAlone(p)'
      BY Zenon, <2>1, <3>1, <3>2 DEF DropsAlone, Dropping
    <3> QED
      BY Zenon, <1>0, <2>1, <3>1, <3>3, DropQuiet
  <2> QED
    BY <2>2, <2>3
<1>7. CASE \/ StrategyGetBuffer(p) \/ TryFreeBuffer(p) \/ ClockSweepTick(p)
  <2>1. UNCHANGED <<tag, dropped, unlinked>>
    BY Zenon, <1>0, <1>7 DEF StrategyGetBuffer, TryFreeBuffer, ClockSweepTick, hdr, rels
  <2>2. DropsAlone(p)'
    BY Zenon, <1>0, <1>7, <2>1 DEF StrategyGetBuffer, TryFreeBuffer, ClockSweepTick,
        ClaimVictim, Go, ckpt, loc, DropsAlone, Scanned, KeepsOuter, Aborting,
        Dropping, Unpinning, Typed, LocalsTyped
  <2> QED
    BY Zenon, <1>0, <2>1, <2>2, DropQuiet
<1>8. CASE \/ TrySweptBuffer(p) \/ LockVictim(p) \/ DeleteVictimMapping(p)
  <2>1. UNCHANGED <<tag, dropped, unlinked>>
    BY Zenon, <1>0, <1>8 DEF TrySweptBuffer, LockVictim, DeleteVictimMapping, hdr, rels
  <2>2. DropsAlone(p)'
    BY Zenon, <1>0, <1>8, <2>1 DEF TrySweptBuffer, LockVictim, DeleteVictimMapping,
        UnpinThen, ClaimVictim, VictimLocked, Go, ckpt, loc, DropsAlone, Scanned,
        KeepsOuter, Aborting, Dropping, Unpinning, Typed, LocalsTyped
  <2> QED
    BY <1>0, <2>1, <2>2, DropQuiet
<1>9. CASE \/ FreeVictim(p) \/ PinExisting(p) \/ StartInput(p) \/ ReadPage(p)
  <2>1. UNCHANGED <<tag, dropped, unlinked>>
    BY Zenon, <1>0, <1>9 DEF FreeVictim, PinExisting, StartInput, ReadPage, hdr, rels
  <2>2. DropsAlone(p)'
    BY Zenon, <1>0, <1>9, <2>1 DEF FreeVictim, PinExisting, StartInput, ReadPage, AfterPin,
        Go, ckpt, loc, DropsAlone, Scanned, KeepsOuter, Aborting, Dropping,
        Unpinning, Typed, LocalsTyped
  <2> QED
    BY <1>0, <2>1, <2>2, DropQuiet
<1>10. CASE \/ LockShare(p) \/ LockExclusive(p) \/ UnlockBuffer(p) \/ ReleaseBuffer(p)
  <2>1. UNCHANGED <<tag, dropped, unlinked>>
    BY Zenon, <1>0, <1>10 DEF LockShare, LockExclusive, UnlockBuffer, ReleaseBuffer, hdr,
        rels
  <2>2. DropsAlone(p)'
    BY Zenon, <1>0, <1>10, <2>1 DEF LockShare, LockExclusive, UnlockBuffer, ReleaseBuffer,
        UnpinThen, Go, ckpt, loc, DropsAlone, Scanned, KeepsOuter, Aborting,
        Dropping, Unpinning, Typed, LocalsTyped
  <2> QED
    BY <1>0, <2>1, <2>2, DropQuiet
<1>11. CASE \/ MarkBufferDirty(p) \/ LogChange(p)
  <2>1. UNCHANGED <<tag, dropped, unlinked>>
    BY Zenon, <1>0, <1>11 DEF MarkBufferDirty, LogChange, hdr, rels
  <2>2. DropsAlone(p)'
    BY Zenon, <1>0, <1>11, <2>1 DEF MarkBufferDirty, LogChange, Go, ckpt, loc, DropsAlone,
        Scanned, KeepsOuter, Aborting, Dropping, Unpinning, Typed, LocalsTyped
  <2> QED
    BY <1>0, <2>1, <2>2, DropQuiet
<1>12. CASE \/ SetHint(p) \/ MarkBufferDirtyHint(p) \/ SetHintDirty(p)
  <2>1. UNCHANGED <<tag, dropped, unlinked>>
    BY Zenon, <1>0, <1>12 DEF SetHint, MarkBufferDirtyHint, SetHintDirty, hdr, rels
  <2>2. DropsAlone(p)'
    BY Zenon, <1>0, <1>12, <2>1 DEF SetHint, MarkBufferDirtyHint, SetHintDirty, Go, ckpt,
        loc, DropsAlone, Scanned, KeepsOuter, Aborting, Dropping, Unpinning, Typed,
        LocalsTyped
  <2> QED
    BY <1>0, <2>1, <2>2, DropQuiet
<1>13. CASE \/ LockBufferForCleanup(p) \/ CheckCleanup(p) \/ UnlockForWait(p)
            \/ WakeUp(p) \/ AfterWait(p)
  <2>1. UNCHANGED <<tag, dropped, unlinked>>
    BY Zenon, <1>0, <1>13 DEF LockBufferForCleanup, CheckCleanup, UnlockForWait, WakeUp,
        AfterWait, hdr, rels
  <2>2. DropsAlone(p)'
    BY Zenon, <1>0, <1>13, <2>1 DEF LockBufferForCleanup, CheckCleanup, UnlockForWait,
        WakeUp, AfterWait, Go, ckpt, loc, DropsAlone, Scanned, KeepsOuter, Aborting,
        Dropping, Unpinning, Typed, LocalsTyped
  <2> QED
    BY <1>0, <2>1, <2>2, DropQuiet
<1>14. CASE \/ WaitIO(p) \/ DeleteDropped(p) \/ FreeDropped(p)
  <2>1. UNCHANGED <<tag, dropped, unlinked>>
    BY Zenon, <1>0, <1>14 DEF WaitIO, DeleteDropped, FreeDropped, hdr, rels
  <2>2. DropsAlone(p)'
    BY Zenon, <1>0, <1>14, <2>1 DEF WaitIO, DeleteDropped, FreeDropped, Go, ckpt, loc,
        DropsAlone, Scanned, KeepsOuter, Aborting, Dropping, Unpinning, Typed,
        LocalsTyped
  <2> QED
    BY <1>0, <2>1, <2>2, DropQuiet
<1> QED
  BY ZenonT(40), <1>1, <1>2, <1>3, <1>4, <1>5, <1>6, <1>7, <1>8, <1>9, <1>10, <1>11, <1>12,
      <1>13, <1>14 DEF Backend

\* Dropped pages, in the steps of the checkpointer.
LEMMA DropsCheckpoint ==
    ASSUME Typed, MapInv, DropInv, Checkpoint
    PROVE  DropInv'
<1>0. /\ Checkpointer \in Procs /\ AtWork(Checkpointer) /\ KeepsOuter(Checkpointer)
      /\ Local(Checkpointer)
      /\ DropsAlone(Checkpointer) /\ want[Checkpointer] = NoPage
  BY Zenon, LocalCheckpoint DEF MapInv, DropInv, Procs
<1>1. CASE \/ CreateCheckPoint \/ MarkForCheckpoint \/ BufferSync \/ SyncOneBuffer
           \/ EndCheckPoint
  <2>1. UNCHANGED <<tag, dropped, unlinked>>
    BY Zenon, <1>0, <1>1 DEF CreateCheckPoint, MarkForCheckpoint, BufferSync, SyncOneBuffer,
        EndCheckPoint, hdr, rels
  <2>2. DropsAlone(Checkpointer)' /\ want'[Checkpointer] = NoPage
    BY Zenon, <1>0, <1>1, <2>1 DEF CreateCheckPoint, MarkForCheckpoint, BufferSync,
        SyncOneBuffer, EndCheckPoint, Go, ckpt, loc, DropsAlone, Scanned, KeepsOuter,
        Aborting, Dropping, Unpinning, Typed, LocalsTyped
  <2> QED
    BY Zenon, <1>0, <2>1, <2>2, DropQuiet
<1> QED
  BY Zenon, <1>1 DEF Checkpoint

-----------------------------------------------------------------------------
(* Cleanup locks. *)

\* Process p has a cleanup lock on buffer cur[p].
Cleaning(p) == pc[p] = "clean" \/ (pc[p] = "dirtied" /\ ret[p] = "clean")

\* The locations at which a process has a page that it has not looked at yet.
NotLooked == {"pinned", "lockshare", "lockexcl", "cleanlock"}

\* The inductive invariant of cleanup locks.
CleanInv ==
    \A p, q \in Procs : Cleaning(p) /\ q # p /\ HasPage(q) /\ cur[q] = cur[p] =>
        pc[q] \in NotLooked

\* The first two say how r can come to hold a cleanup lock, the others how it can
\* come to look at a page.
LEMMA CleanStep ==
    ASSUME Typed, MapInv, LockInv, CleanInv, NEW r \in Procs, Local(r),
           Cleaning(r)' => \/ Cleaning(r) /\ cur'[r] = cur[r]
                           \/ pins[cur'[r]] = {r},
           HasPage(r)' /\ pc'[r] \notin NotLooked =>
              \/ HasPage(r) /\ pc[r] \notin NotLooked /\ cur'[r] = cur[r]
              \/ excl[cur'[r]] \in {NoProc, r}
    PROVE  CleanInv'
<1>1. ASSUME NEW p \in Procs, NEW q \in Procs, Cleaning(p)', q # p, HasPage(q)', cur'[q] = cur'[p]
      PROVE  pc'[q] \in NotLooked
  <2>1. ASSUME NEW s \in Procs \ {r}
        PROVE  /\ Cleaning(s)' <=> Cleaning(s)
               /\ HasPage(s)' <=> HasPage(s)
               /\ UNCHANGED <<pc[s], cur[s]>>
    BY Zenon DEF Local, Cleaning, HasPage
  <2>2. CASE p # r /\ q # r
    BY Zenon, <1>1, <2>1, <2>2 DEF CleanInv
  <2>3. CASE p = r
    <3>1. q \in pins[cur[q]]
      BY Zenon, <1>1, <2>1, <2>3 DEF MapInv, AtWork, HasPage, Pinning, Holding
    <3> QED
      BY Zenon, <1>1, <2>1, <2>3, <3>1 DEF CleanInv
  <2>4. CASE q = r
    <3>1. excl[cur[p]] = p
      BY Zenon, <1>1, <2>1, <2>4 DEF LockInv, LockedBy, Exclusively, Cleaning
    <3> QED
      BY Zenon, <1>1, <2>1, <2>4, <3>1, NoneIsNone DEF CleanInv
  <2> QED
    BY Zenon, <2>2, <2>3, <2>4
<1> QED
  BY Zenon, <1>1 DEF CleanInv

\* A step of r that neither gets a cleanup lock nor looks at a page.
LEMMA CleanQuiet ==
    ASSUME Typed, MapInv, LockInv, CleanInv, NEW r \in Procs, Local(r),
           Cleaning(r)' => Cleaning(r) /\ cur'[r] = cur[r],
           HasPage(r)' /\ pc'[r] \notin NotLooked =>
               HasPage(r) /\ pc[r] \notin NotLooked /\ cur'[r] = cur[r]
    PROVE  CleanInv'
  BY Zenon, CleanStep

\* Only a pin that a process has is the only pin of the buffer.
LEMMA OnlyPinOf ==
    ASSUME Typed, NEW b \in Buffers, NEW p \in pins[b]
    PROVE  OnlyPin(b) <=> pins[b] = {p}
<1>1. p \in Procs
  BY Zenon DEF Typed, HeadersTyped
<1> QED
  BY Zenon, <1>1 DEF OnlyPin

\* Cleanup locks, in the steps of any process.
LEMMA CleanShared ==
    ASSUME Typed, MapInv, LockInv, CleanInv, NEW p \in Procs, Shared(p)
    PROVE  CleanInv'
<1>0. /\ p \in Procs /\ AtWork(p) /\ KeepsOuter(p) /\ Local(p)
  BY Zenon, LocalShared DEF MapInv, Procs
<1>1. CASE UnpinBuffer(p)
  <2>1. pc[p] \in Unpinning /\ p \in Procs
    BY Zenon, <1>0, <1>1 DEF UnpinBuffer, Unpinning
  <2>2. CASE Go(p, "wakewaiter") /\ UNCHANGED <<ret, want, cur, outer>>
    BY Zenon, <1>0, <2>2, CleanQuiet DEF Go, Cleaning, HasPage, Typed, LocalsTyped
  <2>3. CASE Return(p)
    <3>1. /\ pc'[p] = ret[p]
          /\ ret[p] \in {"idle", "exclusive", "getvictim", "collide", "abort", "sync"}
          /\ ret[p] = "exclusive" => cur'[p] = outer[p] /\ outer[p] # NoBuffer
      BY Zenon, <1>0, <2>1, <2>3 DEF Return, Go, KeepsOuter, Typed, LocalsTyped
    <3>2. ret[p] = "exclusive" => excl[cur'[p]] = p
      BY Zenon, <1>0, <2>1, <3>1 DEF LockInv, LockedBy, Aborting, Unpinning
    <3> QED
      BY Zenon, <1>0, <3>1, <3>2, CleanStep DEF Cleaning, HasPage
  <2> QED
    BY Zenon, <1>1, <2>2, <2>3 DEF UnpinBuffer
<1>2. CASE WakeWaiter(p)
  <2>1. pc[p] \in Unpinning /\ p \in Procs
    BY ZenonT(40), <1>0, <1>2 DEF WakeWaiter, Unpinning
  <2>2. CASE Go(p, "signal") /\ UNCHANGED <<ret, want, cur, outer>>
    BY ZenonT(40), <1>0, <2>2, CleanQuiet DEF Go, Cleaning, HasPage, Typed, LocalsTyped
  <2>3. CASE Return(p)
    <3>1. /\ pc'[p] = ret[p]
          /\ ret[p] \in {"idle", "exclusive", "getvictim", "collide", "abort", "sync"}
          /\ ret[p] = "exclusive" => cur'[p] = outer[p] /\ outer[p] # NoBuffer
      BY Zenon, <1>0, <2>1, <2>3 DEF Return, Go, KeepsOuter, Typed, LocalsTyped
    <3>2. ret[p] = "exclusive" => excl[cur'[p]] = p
      BY Zenon, <1>0, <2>1, <3>1 DEF LockInv, LockedBy, Aborting, Unpinning
    <3> QED
      BY Zenon, <1>0, <3>1, <3>2, CleanStep DEF Cleaning, HasPage
  <2> QED
    BY Zenon, <1>2, <2>2, <2>3 DEF WakeWaiter
<1>3. CASE SendSignal(p)
  <2>1. pc[p] \in Unpinning /\ p \in Procs
    BY ZenonT(40), <1>0, <1>3 DEF SendSignal, Unpinning
  <2>3. CASE Return(p)
    <3>1. /\ pc'[p] = ret[p]
          /\ ret[p] \in {"idle", "exclusive", "getvictim", "collide", "abort", "sync"}
          /\ ret[p] = "exclusive" => cur'[p] = outer[p] /\ outer[p] # NoBuffer
      BY Zenon, <1>0, <2>1, <2>3 DEF Return, Go, KeepsOuter, Typed, LocalsTyped
    <3>2. ret[p] = "exclusive" => excl[cur'[p]] = p
      BY Zenon, <1>0, <2>1, <3>1 DEF LockInv, LockedBy, Aborting, Unpinning
    <3> QED
      BY Zenon, <1>0, <3>1, <3>2, CleanStep DEF Cleaning, HasPage
  <2> QED
    BY ZenonT(40), <1>3, <2>3 DEF SendSignal
<1>4. CASE \/ LockForFlush(p) \/ StartOutput(p) \/ XLogFlush(p)
  <2>1. Cleaning(p)' => Cleaning(p) /\ cur'[p] = cur[p]
    BY Zenon, <1>0, <1>4 DEF LockForFlush, StartOutput, XLogFlush, UnpinThen, AfterFlush,
        Go, loc, KeepsOuter, Cleaning, Typed, LocalsTyped
  <2>2. HasPage(p)' /\ pc'[p] \notin NotLooked =>
            HasPage(p) /\ pc[p] \notin NotLooked /\ cur'[p] = cur[p]
    BY Zenon, <1>0, <1>4 DEF LockForFlush, StartOutput, XLogFlush, UnpinThen, AfterFlush,
        Go, loc, KeepsOuter, HasPage, NotLooked, Typed, LocalsTyped
  <2> QED
    BY Zenon, <1>0, <2>1, <2>2, CleanQuiet
<1>5. CASE \/ WritePage(p) \/ EndWrite(p)
  <2>1. Cleaning(p)' => Cleaning(p) /\ cur'[p] = cur[p]
    BY Zenon, <1>0, <1>5 DEF WritePage, EndWrite, UnpinThen, AfterFlush, Go, loc,
        KeepsOuter, Cleaning, Typed, LocalsTyped
  <2>2. HasPage(p)' /\ pc'[p] \notin NotLooked =>
            HasPage(p) /\ pc[p] \notin NotLooked /\ cur'[p] = cur[p]
    BY Zenon, <1>0, <1>5 DEF WritePage, EndWrite, UnpinThen, AfterFlush, Go, loc,
        KeepsOuter, HasPage, NotLooked, Typed, LocalsTyped
  <2> QED
    BY Zenon, <1>0, <2>1, <2>2, CleanQuiet
<1>6. CASE \/ TransferFails(p) \/ AbortBufferIO(p) \/ ReleasePins(p)
  <2>1. Cleaning(p)' => Cleaning(p) /\ cur'[p] = cur[p]
    BY Zenon, <1>0, <1>6 DEF TransferFails, AbortBufferIO, ReleasePins, UnpinThen, Go, loc,
        KeepsOuter, Cleaning, Typed, LocalsTyped
  <2>2. HasPage(p)' /\ pc'[p] \notin NotLooked =>
            HasPage(p) /\ pc[p] \notin NotLooked /\ cur'[p] = cur[p]
    BY ZenonT(40), <1>0, <1>6 DEF TransferFails, AbortBufferIO, ReleasePins, UnpinThen, Go, loc,
        KeepsOuter, HasPage, NotLooked, Typed, LocalsTyped
  <2> QED
    BY <1>0, <2>1, <2>2, CleanQuiet
<1> QED
  BY Zenon, <1>1, <1>2, <1>3, <1>4, <1>5, <1>6 DEF Shared

\* Cleanup locks, in the steps of a backend.
LEMMA CleanBackend ==
    ASSUME Typed, MapInv, LockInv, CleanInv, NEW p \in Backends, Backend(p)
    PROVE  CleanInv'
<1>0. /\ p \in Procs /\ AtWork(p) /\ KeepsOuter(p) /\ Local(p)
  BY Zenon, LocalBackend DEF MapInv, Procs
<1>1. CASE LockShare(p)
  <2>1. UNCHANGED <<cur, ret>> /\ pc'[p] \notin {"clean", "dirtied"}
        /\ (excl[cur[p]] = NoProc \/ pc'[p] \in NotLooked)
    BY ZenonT(40), <1>0, <1>1 DEF LockShare, Go, loc, NotLooked, Typed, LocalsTyped
  <2> QED
    BY Zenon, <1>0, <2>1, CleanStep DEF Cleaning
<1>2. CASE LockExclusive(p)
  <2>1. UNCHANGED <<cur, ret>> /\ pc'[p] \notin {"clean", "dirtied"}
        /\ (excl[cur[p]] = NoProc \/ pc'[p] \in NotLooked)
    BY Zenon, <1>0, <1>2 DEF LockExclusive, Go, loc, NotLooked, Typed, LocalsTyped
  <2> QED
    BY Zenon, <1>0, <2>1, CleanStep DEF Cleaning
<1>3. CASE LockBufferForCleanup(p)
  <2>1. UNCHANGED <<cur, ret>> /\ pc'[p] \notin {"clean", "dirtied"}
        /\ (excl[cur[p]] = NoProc \/ pc'[p] \in NotLooked)
    BY Zenon, <1>0, <1>3 DEF LockBufferForCleanup, Go, loc, NotLooked, Typed, LocalsTyped
  <2> QED
    BY Zenon, <1>0, <2>1, CleanStep DEF Cleaning
<1>4. CASE CheckCleanup(p)
  <2>1. /\ cur[p] \in Buffers /\ p \in pins[cur[p]] /\ UNCHANGED <<cur, ret>>
        /\ pc[p] = "cleancheck"
    BY Zenon, <1>0, <1>4 DEF CheckCleanup, loc, AtWork, HasBuffer, Pinning, Holding
  <2>2. pc'[p] \in {"clean", "abort", "cleanunlock"} /\ (pc'[p] = "clean" => OnlyPin(cur[p]))
    BY Zenon, <1>0, <1>4 DEF CheckCleanup, Go, Typed, LocalsTyped
  <2>3. pc'[p] = "clean" => pins[cur[p]] = {p}
    BY Zenon, <2>1, <2>2, OnlyPinOf
  <2> QED
    BY Zenon, <1>0, <2>1, <2>2, <2>3, CleanStep DEF Cleaning, HasPage, NotLooked
<1>5. CASE \/ StrategyGetBuffer(p) \/ TryFreeBuffer(p) \/ ClockSweepTick(p)
  <2>1. Cleaning(p)' => Cleaning(p) /\ cur'[p] = cur[p]
    BY Zenon, <1>0, <1>5 DEF StrategyGetBuffer, TryFreeBuffer, ClockSweepTick, ClaimVictim,
        Go, loc, KeepsOuter, Cleaning, Typed, LocalsTyped
  <2>2. HasPage(p)' /\ pc'[p] \notin NotLooked =>
            HasPage(p) /\ pc[p] \notin NotLooked /\ cur'[p] = cur[p]
    BY Zenon, <1>0, <1>5 DEF StrategyGetBuffer, TryFreeBuffer, ClockSweepTick, ClaimVictim,
        Go, loc, KeepsOuter, HasPage, NotLooked, Typed, LocalsTyped
  <2> QED
    BY Zenon, <1>0, <2>1, <2>2, CleanQuiet
<1>6. CASE \/ TrySweptBuffer(p) \/ LockVictim(p) \/ DeleteVictimMapping(p)
  <2>1. Cleaning(p)' => Cleaning(p) /\ cur'[p] = cur[p]
    BY Zenon, <1>0, <1>6 DEF TrySweptBuffer, LockVictim, DeleteVictimMapping, UnpinThen,
        ClaimVictim, VictimLocked, Go, loc, KeepsOuter, Cleaning, Typed, LocalsTyped
  <2>2. HasPage(p)' /\ pc'[p] \notin NotLooked =>
            HasPage(p) /\ pc[p] \notin NotLooked /\ cur'[p] = cur[p]
    BY Zenon, <1>0, <1>6 DEF TrySweptBuffer, LockVictim, DeleteVictimMapping, UnpinThen,
        ClaimVictim, VictimLocked, Go, loc, KeepsOuter, HasPage, NotLooked, Typed,
        LocalsTyped
  <2> QED
    BY <1>0, <2>1, <2>2, CleanQuiet
<1>7. CASE \/ InvalidateVictimBuffer(p) \/ BufTableInsert(p)
  <2>1. Cleaning(p)' => Cleaning(p) /\ cur'[p] = cur[p]
    BY Zenon, <1>0, <1>7 DEF InvalidateVictimBuffer, BufTableInsert, UnpinThen, Go, loc,
        KeepsOuter, Cleaning, Typed, LocalsTyped
  <2>2. HasPage(p)' /\ pc'[p] \notin NotLooked =>
            HasPage(p) /\ pc[p] \notin NotLooked /\ cur'[p] = cur[p]
    BY Zenon, <1>0, <1>7 DEF InvalidateVictimBuffer, BufTableInsert, UnpinThen, Go, loc,
        KeepsOuter, HasPage, NotLooked, Typed, LocalsTyped
  <2> QED
    BY <1>0, <2>1, <2>2, CleanQuiet
<1>8. CASE \/ FreeVictim(p) \/ PinExisting(p) \/ StartInput(p) \/ ReadPage(p)
  <2>1. Cleaning(p)' => Cleaning(p) /\ cur'[p] = cur[p]
    BY Zenon, <1>0, <1>8 DEF FreeVictim, PinExisting, StartInput, ReadPage, AfterPin, Go,
        loc, KeepsOuter, Cleaning, Typed, LocalsTyped
  <2>2. HasPage(p)' /\ pc'[p] \notin NotLooked =>
            HasPage(p) /\ pc[p] \notin NotLooked /\ cur'[p] = cur[p]
    BY Zenon, <1>0, <1>8 DEF FreeVictim, PinExisting, StartInput, ReadPage, AfterPin, Go,
        loc, KeepsOuter, HasPage, NotLooked, Typed, LocalsTyped
  <2> QED
    BY <1>0, <2>1, <2>2, CleanQuiet
<1>9. CASE \/ UnlockBuffer(p) \/ ReleaseBuffer(p) \/ MarkBufferDirty(p) \/ LogChange(p)
  <2>1. Cleaning(p)' => Cleaning(p) /\ cur'[p] = cur[p]
    BY Zenon, <1>0, <1>9 DEF UnlockBuffer, ReleaseBuffer, MarkBufferDirty, LogChange,
        UnpinThen, Go, loc, KeepsOuter, Cleaning, Typed, LocalsTyped
  <2>2. HasPage(p)' /\ pc'[p] \notin NotLooked =>
            HasPage(p) /\ pc[p] \notin NotLooked /\ cur'[p] = cur[p]
    BY Zenon, <1>0, <1>9 DEF UnlockBuffer, ReleaseBuffer, MarkBufferDirty, LogChange,
        UnpinThen, Go, loc, KeepsOuter, HasPage, NotLooked, Typed, LocalsTyped
  <2> QED
    BY <1>0, <2>1, <2>2, CleanQuiet
<1>10. CASE \/ SetHint(p) \/ MarkBufferDirtyHint(p) \/ SetHintDirty(p)
  <2>1. Cleaning(p)' => Cleaning(p) /\ cur'[p] = cur[p]
    BY Zenon, <1>0, <1>10 DEF SetHint, MarkBufferDirtyHint, SetHintDirty, Go, loc,
        KeepsOuter, Cleaning, Typed, LocalsTyped
  <2>2. HasPage(p)' /\ pc'[p] \notin NotLooked =>
            HasPage(p) /\ pc[p] \notin NotLooked /\ cur'[p] = cur[p]
    BY ZenonT(40), <1>0, <1>10 DEF SetHint, MarkBufferDirtyHint, SetHintDirty, Go, loc,
        KeepsOuter, HasPage, NotLooked, Typed, LocalsTyped
  <2> QED
    BY <1>0, <2>1, <2>2, CleanQuiet
<1>11. CASE \/ UnlockForWait(p) \/ WakeUp(p) \/ AfterWait(p)
  <2>1. Cleaning(p)' => Cleaning(p) /\ cur'[p] = cur[p]
    BY Zenon, <1>0, <1>11 DEF UnlockForWait, WakeUp, AfterWait, Go, loc, KeepsOuter,
        Cleaning, Typed, LocalsTyped
  <2>2. HasPage(p)' /\ pc'[p] \notin NotLooked =>
            HasPage(p) /\ pc[p] \notin NotLooked /\ cur'[p] = cur[p]
    BY ZenonT(40), <1>0, <1>11 DEF UnlockForWait, WakeUp, AfterWait, Go, loc, KeepsOuter,
        HasPage, NotLooked, Typed, LocalsTyped
  <2> QED
    BY <1>0, <2>1, <2>2, CleanQuiet
<1>12. CASE \/ DropRelationBuffers(p) \/ InvalidateBuffer(p)
  <2>1. Cleaning(p)' => Cleaning(p) /\ cur'[p] = cur[p]
    BY Zenon, <1>0, <1>12 DEF DropRelationBuffers, InvalidateBuffer, RetryPinned, Go, loc,
        KeepsOuter, Cleaning, Typed, LocalsTyped
  <2>2. HasPage(p)' /\ pc'[p] \notin NotLooked =>
            HasPage(p) /\ pc[p] \notin NotLooked /\ cur'[p] = cur[p]
    BY ZenonT(40), <1>0, <1>12 DEF DropRelationBuffers, InvalidateBuffer, RetryPinned, Go, loc,
        KeepsOuter, HasPage, NotLooked, Typed, LocalsTyped
  <2> QED
    BY <1>0, <2>1, <2>2, CleanQuiet
<1>13. CASE \/ WaitIO(p) \/ DeleteDropped(p) \/ FreeDropped(p)
  <2>1. Cleaning(p)' => Cleaning(p) /\ cur'[p] = cur[p]
    BY Zenon, <1>0, <1>13 DEF WaitIO, DeleteDropped, FreeDropped, Go, loc, KeepsOuter,
        Cleaning, Typed, LocalsTyped
  <2>2. HasPage(p)' /\ pc'[p] \notin NotLooked =>
            HasPage(p) /\ pc[p] \notin NotLooked /\ cur'[p] = cur[p]
    BY Zenon, <1>0, <1>13 DEF WaitIO, DeleteDropped, FreeDropped, Go, loc, KeepsOuter,
        HasPage, NotLooked, Typed, LocalsTyped
  <2> QED
    BY <1>0, <2>1, <2>2, CleanQuiet
<1>14. ASSUME NEW t \in Pages, BufferAlloc(p, t)
      PROVE  CleanInv'
  <2>1. Cleaning(p)' => Cleaning(p) /\ cur'[p] = cur[p]
    BY Zenon, <1>0, <1>14 DEF BufferAlloc, AfterPin, MayRead, Go, KeepsOuter, Cleaning,
        Typed, LocalsTyped
  <2>2. HasPage(p)' /\ pc'[p] \notin NotLooked =>
            HasPage(p) /\ pc[p] \notin NotLooked /\ cur'[p] = cur[p]
    BY Zenon, <1>0, <1>14 DEF BufferAlloc, AfterPin, MayRead, Go, KeepsOuter, HasPage,
        NotLooked, Typed, LocalsTyped
  <2> QED
    BY Zenon, <1>0, <2>1, <2>2, CleanQuiet
<1>15. ASSUME NEW t \in Pages, DropRelation(p, t)
      PROVE  CleanInv'
  <2>1. Cleaning(p)' => Cleaning(p) /\ cur'[p] = cur[p]
    BY Zenon, <1>0, <1>15 DEF DropRelation, Go, KeepsOuter, Cleaning, Typed, LocalsTyped
  <2>2. HasPage(p)' /\ pc'[p] \notin NotLooked =>
            HasPage(p) /\ pc[p] \notin NotLooked /\ cur'[p] = cur[p]
    BY Zenon, <1>0, <1>15 DEF DropRelation, Go, KeepsOuter, HasPage, NotLooked, Typed,
        LocalsTyped
  <2> QED
    BY <1>0, <2>1, <2>2, CleanQuiet
<1> QED
  BY ZenonT(40), <1>1, <1>2, <1>3, <1>4, <1>5, <1>6, <1>7, <1>8, <1>9, <1>10, <1>11, <1>12,
      <1>13, <1>14, <1>15 DEF Backend

\* Cleanup locks, in the steps of the checkpointer.
LEMMA CleanCheckpoint ==
    ASSUME Typed, MapInv, LockInv, CleanInv, Checkpoint
    PROVE  CleanInv'
<1>0. /\ Checkpointer \in Procs /\ AtWork(Checkpointer) /\ KeepsOuter(Checkpointer)
      /\ Local(Checkpointer)
  BY Zenon, LocalCheckpoint DEF MapInv, Procs
<1>1. CASE \/ CreateCheckPoint \/ MarkForCheckpoint \/ BufferSync \/ SyncOneBuffer
           \/ EndCheckPoint
  <2>1. Cleaning(Checkpointer)' =>
            Cleaning(Checkpointer) /\ cur'[Checkpointer] = cur[Checkpointer]
    BY Zenon, <1>0, <1>1 DEF CreateCheckPoint, MarkForCheckpoint, BufferSync, SyncOneBuffer,
        EndCheckPoint, Go, loc, KeepsOuter, Cleaning, Typed, LocalsTyped
  <2>2. HasPage(Checkpointer)' /\ pc'[Checkpointer] \notin NotLooked =>
            HasPage(Checkpointer) /\ pc[Checkpointer] \notin NotLooked
            /\ cur'[Checkpointer] = cur[Checkpointer]
    BY ZenonT(40), <1>0, <1>1 DEF CreateCheckPoint, MarkForCheckpoint, BufferSync, SyncOneBuffer,
        EndCheckPoint, Go, loc, KeepsOuter, HasPage, NotLooked, Typed, LocalsTyped
  <2> QED
    BY Zenon, <1>0, <2>1, <2>2, CleanQuiet
<1> QED
  BY Zenon, <1>1 DEF Checkpoint

-----------------------------------------------------------------------------
(* Waiting for a cleanup lock. *)

\* A process that sleeps, or is about to, until its pin is the only one has a signal
\* to come: it is on the way, or whoever takes the last other pin off has to send it.
Woken(p) ==
    pc[p] \in {"cleanunlock", "asleep"} =>
       \/ signaled[p]
       \/ \E q \in Procs : pc[q] = "signal" /\ target[q] = p
       \/ /\ pin_waiter[cur[p]] = p
          /\ \/ pins[cur[p]] # {p}
             \/ \E q \in Procs : pc[q] = "wakewaiter" /\ cur[q] = cur[p]

\* Latches, targets and waiters are what they should be.
Signals == /\ signaled = [p \in Procs |-> signaled[p]] /\ target = [p \in Procs |-> target[p]]
           /\ pin_waiter \in [Buffers -> Procs \cup {NoProc}]
           /\ \A p \in Procs : pc[p] = "signal" => target[p] \in Procs

\* The inductive invariant of the waiters for a cleanup lock.
WakeInv == Signals /\ \A p \in Procs : Woken(p)

\* What a step of r does to the waiter p of buffer b.
StillWaits(r, p, b) ==
    \/ /\ pin_waiter'[b] = p
       /\ pins[b] # {p} => pins'[b] # {p} \/ (pc'[r] = "wakewaiter" /\ cur'[r] = b)
       /\ pc[r] = "wakewaiter" /\ cur[r] = b =>
             pins'[b] # {p} \/ (pc'[r] = "wakewaiter" /\ cur'[r] = b)
    \/ pc'[r] = "signal" /\ target'[r] = p

\* What remains to be shown for a step of r.
LEMMA WakeStep ==
    ASSUME Typed, MapInv, WakeInv, NEW r \in Procs, Local(r), Signals', Woken(r)',
           \A p \in Procs \ {r} : (signaled[p] => signaled'[p]) /\ target'[p] = target[p],
           pc[r] = "signal" =>
               signaled'[target[r]] \/ (pc'[r] = "signal" /\ target'[r] = target[r]),
           \A p \in Procs \ {r} : \A b \in Buffers :
              p \in pins[b] /\ pin_waiter[b] = p => StillWaits(r, p, b)
    PROVE  WakeInv'
<1>1. ASSUME NEW p \in Procs \ {r}, pc'[p] \in {"cleanunlock", "asleep"}
      PROVE  Woken(p)'
  <2>1. UNCHANGED <<pc[p], cur[p]>> /\ \A q \in Procs \ {r} :
            UNCHANGED <<pc[q], cur[q], target[q]>>
    BY Zenon DEF Local
  <2>2. cur[p] \in Buffers /\ p \in pins[cur[p]]
    BY ZenonT(40), <1>1, <2>1 DEF MapInv, AtWork, HasBuffer, Pinning, Holding
  <2>3. Woken(p)
    BY Zenon DEF WakeInv
  <2>4. CASE signaled[p]
    BY Zenon, <2>4 DEF Woken
  <2>5. CASE \E q \in Procs : pc[q] = "signal" /\ target[q] = p
    BY Zenon, <2>1, <2>5 DEF Woken
  <2>6. CASE pin_waiter[cur[p]] = p
    <3>1. StillWaits(r, p, cur[p])
      BY Zenon, <2>2, <2>6
    <3>2. CASE pc'[r] = "signal" /\ target'[r] = p
      BY Zenon, <3>2 DEF Woken
    <3>3. CASE pins'[cur[p]] # {p} /\ pin_waiter'[cur[p]] = p
      BY Zenon, <2>1, <3>3 DEF Woken
    <3>4. CASE pc'[r] = "wakewaiter" /\ cur'[r] = cur[p] /\ pin_waiter'[cur[p]] = p
      BY Zenon, <2>1, <3>4 DEF Woken
    <3>5. CASE pins[cur[p]] = {p} /\ pin_waiter'[cur[p]] = p
      <4>1. CASE signaled[p] \/ \E q \in Procs : pc[q] = "signal" /\ target[q] = p
        BY Zenon, <2>4, <2>5, <4>1
      <4>2. CASE \E q \in Procs : pc[q] = "wakewaiter" /\ cur[q] = cur[p]
        <5>1. PICK q \in Procs : pc[q] = "wakewaiter" /\ cur[q] = cur[p]
          BY Zenon, <4>2
        <5>2. CASE q = r
          BY ZenonT(40), <3>1, <3>2, <3>3, <3>4, <5>1, <5>2 DEF StillWaits
        <5>3. CASE q # r
          BY Zenon, <2>1, <3>5, <5>1, <5>3 DEF Woken
        <5> QED
          BY Zenon, <5>2, <5>3
      <4> QED
        BY ZenonT(40), <1>1, <2>1, <2>3, <3>5, <4>1, <4>2 DEF Woken
    <3> QED
      BY Zenon, <3>1, <3>2, <3>3, <3>4, <3>5 DEF StillWaits
  <2> QED
    BY Zenon, <1>1, <2>1, <2>3, <2>4, <2>5, <2>6 DEF Woken
<1>2. \A p \in Procs : Woken(p)'
  BY ZenonT(40), <1>1 DEF Woken
<1> QED
  BY Zenon, <1>2 DEF WakeInv

\* A step of r that takes no pin off and wakes nobody.
LEMMA WakeQuiet ==
    ASSUME Typed, MapInv, WakeInv, NEW r \in Procs, Local(r),
           UNCHANGED <<pin_waiter, target, signaled>>,
           \A b \in Buffers : pins[b] \subseteq pins'[b],
           pc[r] \notin {"wakewaiter", "signal"}, pc'[r] # "signal",
           pc'[r] \notin {"cleanunlock", "asleep"}
    PROVE  WakeInv'
<1>1. Signals'
  BY Zenon DEF WakeInv, Signals, Local
<1>2. Woken(r)'
  BY Zenon DEF Woken
<1>3. ASSUME NEW p \in Procs \ {r}, NEW b \in Buffers, p \in pins[b], pin_waiter[b] = p
      PROVE  StillWaits(r, p, b)
  BY Zenon, <1>3 DEF StillWaits
<1> QED
  BY Zenon, <1>1, <1>2, <1>3, WakeStep

\* Cleanup waiters, in the steps of any process.
LEMMA WakeShared ==
    ASSUME Typed, MapInv, WakeInv, NEW p \in Procs, Shared(p)
    PROVE  WakeInv'
<1>0. /\ p \in Procs /\ AtWork(p) /\ KeepsOuter(p) /\ Local(p)
  BY Zenon, LocalShared DEF MapInv, Procs
<1>1. CASE UnpinBuffer(p)
  <2>1. /\ cur[p] \in Buffers /\ pc[p] = "unpin" /\ UNCHANGED <<pin_waiter, target, signaled>>
        /\ pins' = [pins EXCEPT ![cur[p]] = @ \ {p}]
    BY Zenon, <1>0, <1>1 DEF UnpinBuffer, lat, AtWork, HasBuffer, Pinning
  <2>2. /\ pin_waiter[cur[p]] # NoProc => pc'[p] = "wakewaiter" /\ cur'[p] = cur[p]
        /\ pc'[p] \notin {"signal", "cleanunlock", "asleep"}
    BY Zenon, <1>0, <1>1, <2>1 DEF UnpinBuffer, Return, Go, KeepsOuter, Unpinning, Typed,
        LocalsTyped
  <2>3. \A b \in Buffers : b # cur[p] => pins'[b] = pins[b]
    BY Zenon, <2>1 DEF Typed, HeadersTyped
  <2>4. Signals' /\ Woken(p)'
    BY Zenon, <1>0, <2>1, <2>2 DEF WakeInv, Signals, Local, Woken
  <2>5. ASSUME NEW q \in Procs \ {p}, NEW b \in Buffers, q \in pins[b], pin_waiter[b] = q
        PROVE  StillWaits(p, q, b)
    BY Zenon, <2>1, <2>2, <2>3, <2>5, NoneIsNone DEF StillWaits
  <2> QED
    BY Zenon, <1>0, <2>1, <2>4, <2>5, WakeStep
<1>2. CASE WakeWaiter(p)
  <2>1. cur[p] \in Buffers /\ pc[p] = "wakewaiter" /\ UNCHANGED <<pins, signaled>>
    BY Zenon, <1>0, <1>2 DEF WakeWaiter, AtWork, HasBuffer, Pinning
  <2>2. CASE pin_waiter[cur[p]] # NoProc /\ OnlyPin(cur[p])
    <3>1. /\ target' = [target EXCEPT ![p] = pin_waiter[cur[p]]]
          /\ pin_waiter' = [pin_waiter EXCEPT ![cur[p]] = NoProc] /\ pc'[p] = "signal"
      BY Zenon, <1>0, <1>2, <2>2 DEF WakeWaiter, Go, Typed, LocalsTyped
    <3>2. /\ target'[p] = pin_waiter[cur[p]] /\ \A q \in Procs \ {p} : target'[q] = target[q]
          /\ \A b \in Buffers : b # cur[p] => pin_waiter'[b] = pin_waiter[b]
      BY Zenon, <1>0, <3>1 DEF WakeInv, Signals
    <3>3. Signals'
      <4>1. pin_waiter' \in [Buffers -> Procs \cup {NoProc}]
            /\ target' = [q \in Procs |-> target'[q]]
        BY Zenon, <3>1 DEF WakeInv, Signals
      <4>2. \A q \in Procs : pc'[q] = "signal" => target'[q] \in Procs
        BY SMTT(40), Z3T(40), <1>0, <2>1, <2>2, <3>2 DEF WakeInv, Signals, Local
      <4> QED
        BY Zenon, <2>1, <4>1, <4>2 DEF WakeInv, Signals
    <3>4. ASSUME NEW q \in Procs \ {p}, NEW b \in Buffers, q \in pins[b], pin_waiter[b] = q
          PROVE  StillWaits(p, q, b)
      BY Zenon, <2>1, <3>1, <3>2, <3>4 DEF StillWaits
    <3> QED
      BY ZenonT(40), <1>0, <2>1, <3>1, <3>2, <3>3, <3>4, WakeStep DEF Woken
  <2>3. CASE ~ (pin_waiter[cur[p]] # NoProc /\ OnlyPin(cur[p]))
    <3>1. UNCHANGED <<target, pin_waiter>> /\ pc'[p] \notin {"signal", "cleanunlock", "asleep"}
      BY Zenon, <1>0, <1>2, <2>1, <2>3 DEF WakeWaiter, Return, Go, KeepsOuter, Unpinning,
          Typed, LocalsTyped
    <3>2. Signals' /\ Woken(p)'
      BY Zenon, <1>0, <2>1, <3>1 DEF WakeInv, Signals, Local, Woken
    <3>3. ASSUME NEW q \in Procs \ {p}, NEW b \in Buffers, q \in pins[b], pin_waiter[b] = q
          PROVE  StillWaits(p, q, b)
      <4>1. b = cur[p] => pins[b] # {q}
        BY SMTT(40), Z3T(40), <2>3, <3>3, OnlyPinOf, NoneIsNone
      <4> QED
        BY Zenon, <2>1, <3>1, <3>3, <4>1 DEF StillWaits
    <3> QED
      BY Zenon, <1>0, <2>1, <3>1, <3>2, <3>3, WakeStep
  <2> QED
    BY Zenon, <2>2, <2>3
<1>3. CASE SendSignal(p)
  <2>1. /\ pc[p] = "signal" /\ UNCHANGED <<pins, pin_waiter>> /\ target[p] \in Procs
        /\ signaled' = [signaled EXCEPT ![target[p]] = TRUE]
        /\ target' = [target EXCEPT ![p] = NoProc]
    BY Zenon, <1>0, <1>3 DEF SendSignal, hdr, WakeInv, Signals
  <2>2. pc'[p] \notin {"signal", "cleanunlock", "asleep"}
    BY Zenon, <1>0, <1>3 DEF SendSignal, Return, Go, KeepsOuter, Unpinning, Typed, LocalsTyped
  <2>3. /\ signaled'[target[p]] /\ \A q \in Procs : signaled[q] => signaled'[q]
        /\ \A q \in Procs \ {p} : target'[q] = target[q]
    BY Zenon, <1>0, <2>1 DEF WakeInv, Signals
  <2>4. Signals' /\ Woken(p)'
    <3>1. target' = [q \in Procs |-> target'[q]] /\ signaled' = [q \in Procs |-> signaled'[q]]
      BY Zenon, <2>1 DEF WakeInv, Signals
    <3> QED
      BY ZenonT(40), <1>0, <2>1, <2>2, <2>3, <3>1 DEF WakeInv, Signals, Local, Woken
  <2>5. ASSUME NEW q \in Procs \ {p}, NEW b \in Buffers, q \in pins[b], pin_waiter[b] = q
        PROVE  StillWaits(p, q, b)
    BY Zenon, <2>1, <2>5 DEF StillWaits
  <2> QED
    BY Zenon, <1>0, <2>3, <2>4, <2>5, WakeStep
<1>4. CASE \/ LockForFlush(p) \/ StartOutput(p) \/ XLogFlush(p)
  <2>1. UNCHANGED <<pin_waiter, target, signaled>>
    BY Zenon, <1>0, <1>4 DEF LockForFlush, StartOutput, XLogFlush, hdr, lat
  <2>2. \A b \in Buffers : pins[b] \subseteq pins'[b]
    BY Zenon, <1>0, <1>4 DEF LockForFlush, StartOutput, XLogFlush, hdr, Typed, HeadersTyped
  <2>3. pc[p] \notin {"wakewaiter", "signal"} /\ pc'[p] \notin {"signal", "cleanunlock", "asleep"}
    BY ZenonT(40), <1>0, <1>4 DEF LockForFlush, StartOutput, XLogFlush, UnpinThen, AfterFlush,
        Go, KeepsOuter, Typed, LocalsTyped
  <2> QED
    BY Zenon, <1>0, <2>1, <2>2, <2>3, WakeQuiet
<1>5. CASE \/ WritePage(p) \/ EndWrite(p)
  <2>1. UNCHANGED <<pin_waiter, target, signaled>>
    BY Zenon, <1>0, <1>5 DEF WritePage, EndWrite, hdr, lat
  <2>2. \A b \in Buffers : pins[b] \subseteq pins'[b]
    BY ZenonT(40), <1>0, <1>5 DEF WritePage, EndWrite, hdr, Typed, HeadersTyped
  <2>3. pc[p] \notin {"wakewaiter", "signal"} /\ pc'[p] \notin {"signal", "cleanunlock", "asleep"}
    BY Zenon, <1>0, <1>5 DEF WritePage, EndWrite, UnpinThen, AfterFlush, Go, KeepsOuter,
        Typed, LocalsTyped
  <2> QED
    BY <1>0, <2>1, <2>2, <2>3, WakeQuiet
<1>6. CASE \/ TransferFails(p) \/ AbortBufferIO(p) \/ ReleasePins(p)
  <2>1. UNCHANGED <<pin_waiter, target, signaled>>
    BY Zenon, <1>0, <1>6 DEF TransferFails, AbortBufferIO, ReleasePins, hdr, lat
  <2>2. \A b \in Buffers : pins[b] \subseteq pins'[b]
    BY Zenon, <1>0, <1>6 DEF TransferFails, AbortBufferIO, ReleasePins, hdr, Typed,
        HeadersTyped
  <2>3. pc[p] \notin {"wakewaiter", "signal"} /\ pc'[p] \notin {"signal", "cleanunlock", "asleep"}
    BY ZenonT(40), <1>0, <1>6 DEF TransferFails, AbortBufferIO, ReleasePins, UnpinThen, Go,
        KeepsOuter, Typed, LocalsTyped
  <2> QED
    BY <1>0, <2>1, <2>2, <2>3, WakeQuiet
<1> QED
  BY Zenon, <1>1, <1>2, <1>3, <1>4, <1>5, <1>6 DEF Shared

\* Cleanup waiters, in the steps of a backend.
LEMMA WakeBackend ==
    ASSUME Typed, MapInv, WakeInv, NEW p \in Backends, Backend(p)
    PROVE  WakeInv'
<1>0. /\ p \in Procs /\ AtWork(p) /\ KeepsOuter(p) /\ Local(p)
  BY Zenon, LocalBackend DEF MapInv, Procs
<1>1. CASE InvalidateVictimBuffer(p)
  <2>1. cur[p] \in Buffers /\ pc[p] = "inval" /\ UNCHANGED <<pins, target, signaled>>
    BY Zenon, <1>0, <1>1 DEF InvalidateVictimBuffer, lat, AtWork, HasBuffer, Pinning, AtVictim
  <2>2. CASE StillVictim(p, cur[p])
    <3>1. pin_waiter' = [pin_waiter EXCEPT ![cur[p]] = NoProc] /\ pc'[p] = "delete"
      BY Zenon, <1>0, <1>1, <2>2 DEF InvalidateVictimBuffer, ClearBuffer, Go, Typed, LocalsTyped
    <3>2. Signals' /\ Woken(p)'
      BY Zenon, <1>0, <2>1, <3>1 DEF WakeInv, Signals, Local, Woken
    <3>3. ASSUME NEW q \in Procs \ {p}, NEW b \in Buffers, q \in pins[b], pin_waiter[b] = q
          PROVE  StillWaits(p, q, b)
      <4>1. b # cur[p]
        BY Zenon, <2>2, <3>3 DEF StillVictim
      <4>2. pin_waiter'[b] = q
        BY Zenon, <3>1, <3>3, <4>1 DEF WakeInv, Signals
      <4> QED
        BY Zenon, <2>1, <4>2 DEF StillWaits
    <3> QED
      BY Zenon, <1>0, <2>1, <3>2, <3>3, WakeStep
  <2>3. CASE ~ (StillVictim(p, cur[p]))
    <3>1. UNCHANGED pin_waiter /\ pc'[p] \notin {"signal", "cleanunlock", "asleep"}
      BY Zenon, <1>0, <1>1, <2>3 DEF InvalidateVictimBuffer, UnpinThen, Go, Typed, LocalsTyped
    <3> QED
      BY Zenon, <1>0, <2>1, <3>1, WakeQuiet
  <2> QED
    BY <2>2, <2>3
<1>2. CASE CheckCleanup(p)
  <2>1. /\ cur[p] \in Buffers /\ p \in pins[cur[p]] /\ pc[p] = "cleancheck"
        /\ UNCHANGED <<pins, target, signaled, cur>>
    BY Zenon, <1>0, <1>2 DEF CheckCleanup, lat, loc, AtWork, HasBuffer, Pinning, Holding
  <2>2. CASE ~ OnlyPin(cur[p]) /\ pin_waiter[cur[p]] = NoProc
    <3>1. pin_waiter' = [pin_waiter EXCEPT ![cur[p]] = p] /\ pc'[p] = "cleanunlock"
      BY Zenon, <1>0, <1>2, <2>2 DEF CheckCleanup, Go, Typed, LocalsTyped
    <3>2. Signals'
      BY Zenon, <1>0, <2>1, <3>1 DEF WakeInv, Signals, Local
    <3>3. /\ pin_waiter'[cur[p]] = p /\ pins'[cur[p]] # {p}
          /\ \A b \in Buffers : b # cur[p] => pin_waiter'[b] = pin_waiter[b]
      BY Zenon, <2>1, <2>2, <3>1, OnlyPinOf DEF WakeInv, Signals
    <3>4. Woken(p)'
      BY Zenon, <2>1, <3>3 DEF Woken
    <3>5. ASSUME NEW q \in Procs \ {p}, NEW b \in Buffers, q \in pins[b], pin_waiter[b] = q
          PROVE  StillWaits(p, q, b)
      BY Zenon, <2>1, <2>2, <3>3, <3>5, NoneIsNone DEF StillWaits
    <3> QED
      BY Zenon, <1>0, <2>1, <3>2, <3>4, <3>5, WakeStep
  <2>3. CASE ~ (~ OnlyPin(cur[p]) /\ pin_waiter[cur[p]] = NoProc)
    <3>1. UNCHANGED pin_waiter /\ pc'[p] \in {"clean", "abort"}
      BY Zenon, <1>0, <1>2, <2>3 DEF CheckCleanup, Go, Typed, LocalsTyped
    <3> QED
      BY Zenon, <1>0, <2>1, <3>1, WakeQuiet
  <2> QED
    BY Zenon, <2>2, <2>3
<1>3. CASE UnlockForWait(p)
  <2>1. /\ pc[p] = "cleanunlock" /\ pc'[p] = "asleep"
        /\ UNCHANGED <<pins, pin_waiter, target, signaled, cur>>
    BY Zenon, <1>0, <1>3 DEF UnlockForWait, Go, hdr, lat, loc, Typed, LocalsTyped
  <2>2. Signals'
    BY Zenon, <1>0, <2>1 DEF WakeInv, Signals, Local
  <2>3. \A q \in Procs : /\ pc[q] = "signal" => pc'[q] = "signal"
                         /\ pc[q] = "wakewaiter" => pc'[q] = "wakewaiter"
    BY Zenon, <1>0, <2>1 DEF Local
  <2>4. Woken(p)
    BY Zenon, <1>0 DEF WakeInv
  <2>5. Woken(p)'
    BY Zenon, <2>1, <2>3, <2>4 DEF Woken
  <2>6. ASSUME NEW q \in Procs \ {p}, NEW b \in Buffers, q \in pins[b], pin_waiter[b] = q
        PROVE  StillWaits(p, q, b)
    BY Zenon, <2>1, <2>6 DEF StillWaits
  <2> QED
    BY Zenon, <1>0, <2>1, <2>2, <2>5, <2>6, WakeStep
<1>4. CASE WakeUp(p)
  <2>1. /\ pc[p] = "asleep" /\ pc'[p] = "awake" /\ UNCHANGED <<pins, pin_waiter, target>>
        /\ signaled' = [signaled EXCEPT ![p] = FALSE]
    BY Zenon, <1>0, <1>4 DEF WakeUp, Go, hdr, Typed, LocalsTyped
  <2>2. Signals' /\ Woken(p)'
    BY Zenon, <1>0, <2>1 DEF WakeInv, Signals, Local, Woken
  <2>3. \A q \in Procs \ {p} : signaled'[q] = signaled[q]
    BY Zenon, <2>1 DEF WakeInv, Signals
  <2>4. ASSUME NEW q \in Procs \ {p}, NEW b \in Buffers, q \in pins[b], pin_waiter[b] = q
        PROVE  StillWaits(p, q, b)
    BY Zenon, <2>1, <2>4 DEF StillWaits
  <2> QED
    BY Zenon, <1>0, <2>1, <2>2, <2>3, <2>4, WakeStep
<1>5. CASE AfterWait(p)
  <2>1. /\ pc[p] \in {"awake", "asleep"} /\ pc'[p] \in {"cleanlock", "abort"}
        /\ UNCHANGED <<pins, target, signaled>>
        /\ pin_waiter' = [pin_waiter EXCEPT ![cur[p]] = IF @ = p THEN NoProc ELSE @]
    BY Zenon, <1>0, <1>5 DEF AfterWait, ForgetWaiter, Go, lat, Typed, LocalsTyped
  <2>2. cur[p] \in Buffers
    BY Zenon, <1>0, <2>1 DEF AtWork, HasBuffer, Pinning, Holding
  <2>3. \A b \in Buffers : pin_waiter[b] # p => pin_waiter'[b] = pin_waiter[b]
    BY Zenon, <2>1, <2>2 DEF WakeInv, Signals
  <2>4. Signals' /\ Woken(p)'
    BY Zenon, <1>0, <2>1, <2>2 DEF WakeInv, Signals, Local, Woken
  <2>5. ASSUME NEW q \in Procs \ {p}, NEW b \in Buffers, q \in pins[b], pin_waiter[b] = q
        PROVE  StillWaits(p, q, b)
    BY Zenon, <2>1, <2>3, <2>5 DEF StillWaits
  <2> QED
    BY Zenon, <1>0, <2>1, <2>4, <2>5, WakeStep
<1>6. CASE InvalidateBuffer(p)
  <2>1. cur[p] \in Buffers /\ pc[p] = "invalidate" /\ UNCHANGED <<pins, target, signaled>>
    BY Zenon, <1>0, <1>6 DEF InvalidateBuffer, lat, AtWork, HasBuffer, Pinning, AtVictim
  <2>2. CASE tag[cur[p]] = want[p] /\ pins[cur[p]] = {}
    <3>1. pin_waiter' = [pin_waiter EXCEPT ![cur[p]] = NoProc] /\ pc'[p] = "dropdelete"
      BY Zenon, <1>0, <1>6, <2>2 DEF InvalidateBuffer, ClearBuffer, Go, Typed, LocalsTyped
    <3>2. Signals' /\ Woken(p)'
      BY Zenon, <1>0, <2>1, <3>1 DEF WakeInv, Signals, Local, Woken
    <3>3. ASSUME NEW q \in Procs \ {p}, NEW b \in Buffers, q \in pins[b], pin_waiter[b] = q
          PROVE  StillWaits(p, q, b)
      <4>1. b # cur[p]
        BY Zenon, <2>2, <3>3 DEF StillVictim
      <4>2. pin_waiter'[b] = q
        BY Zenon, <3>1, <3>3, <4>1 DEF WakeInv, Signals
      <4> QED
        BY Zenon, <2>1, <4>2 DEF StillWaits
    <3> QED
      BY Zenon, <1>0, <2>1, <3>2, <3>3, WakeStep
  <2>3. CASE ~ (tag[cur[p]] = want[p] /\ pins[cur[p]] = {})
    <3>1. UNCHANGED pin_waiter /\ pc'[p] \notin {"signal", "cleanunlock", "asleep"}
      BY Zenon, <1>0, <1>6, <2>3 DEF InvalidateBuffer, RetryPinned, Go, Typed, LocalsTyped
    <3> QED
      BY Zenon, <1>0, <2>1, <3>1, WakeQuiet
  <2> QED
    BY <2>2, <2>3
<1>7. CASE \/ StrategyGetBuffer(p) \/ TryFreeBuffer(p) \/ ClockSweepTick(p)
  <2>1. UNCHANGED <<pin_waiter, target, signaled>>
    BY Zenon, <1>0, <1>7 DEF StrategyGetBuffer, TryFreeBuffer, ClockSweepTick, hdr, lat
  <2>2. \A b \in Buffers : pins[b] \subseteq pins'[b]
    BY Zenon, <1>0, <1>7 DEF StrategyGetBuffer, TryFreeBuffer, ClockSweepTick, ClaimVictim,
        hdr, Typed, HeadersTyped
  <2>3. pc[p] \notin {"wakewaiter", "signal"} /\ pc'[p] \notin {"signal", "cleanunlock", "asleep"}
    BY ZenonT(40), <1>0, <1>7 DEF StrategyGetBuffer, TryFreeBuffer, ClockSweepTick, ClaimVictim,
        Go, KeepsOuter, Typed, LocalsTyped
  <2> QED
    BY Zenon, <1>0, <2>1, <2>2, <2>3, WakeQuiet
<1>8. CASE \/ TrySweptBuffer(p) \/ LockVictim(p) \/ DeleteVictimMapping(p)
  <2>1. UNCHANGED <<pin_waiter, target, signaled>>
    BY Zenon, <1>0, <1>8 DEF TrySweptBuffer, LockVictim, DeleteVictimMapping, hdr, lat
  <2>2. \A b \in Buffers : pins[b] \subseteq pins'[b]
    BY ZenonT(40), <1>0, <1>8 DEF TrySweptBuffer, LockVictim, DeleteVictimMapping, ClaimVictim,
        hdr, Typed, HeadersTyped
  <2>3. pc[p] \notin {"wakewaiter", "signal"} /\ pc'[p] \notin {"signal", "cleanunlock", "asleep"}
    BY Zenon, <1>0, <1>8 DEF TrySweptBuffer, LockVictim, DeleteVictimMapping, UnpinThen,
        ClaimVictim, VictimLocked, Go, KeepsOuter, Typed, LocalsTyped
  <2> QED
    BY <1>0, <2>1, <2>2, <2>3, WakeQuiet
<1>9. CASE \/ BufTableInsert(p) \/ FreeVictim(p)
  <2>1. UNCHANGED <<pin_waiter, target, signaled>>
    BY Zenon, <1>0, <1>9 DEF BufTableInsert, FreeVictim, hdr, lat
  <2>2. \A b \in Buffers : pins[b] \subseteq pins'[b]
    BY Zenon, <1>0, <1>9 DEF BufTableInsert, FreeVictim, hdr, Typed, HeadersTyped
  <2>3. pc[p] \notin {"wakewaiter", "signal"} /\ pc'[p] \notin {"signal", "cleanunlock", "asleep"}
    BY Zenon, <1>0, <1>9 DEF BufTableInsert, FreeVictim, UnpinThen, Go, KeepsOuter, Typed,
        LocalsTyped
  <2> QED
    BY <1>0, <2>1, <2>2, <2>3, WakeQuiet
<1>10. CASE \/ StartInput(p) \/ ReadPage(p)
  <2>1. UNCHANGED <<pin_waiter, target, signaled>>
    BY Zenon, <1>0, <1>10 DEF StartInput, ReadPage, lat
  <2>2. \A b \in Buffers : pins[b] \subseteq pins'[b]
    BY ZenonT(40), <1>0, <1>10 DEF StartInput, ReadPage, Typed, HeadersTyped
  <2>3. pc[p] \notin {"wakewaiter", "signal"} /\ pc'[p] \notin {"signal", "cleanunlock", "asleep"}
    BY Zenon, <1>0, <1>10 DEF StartInput, ReadPage, Go, KeepsOuter, Typed, LocalsTyped
  <2> QED
    BY <1>0, <2>1, <2>2, <2>3, WakeQuiet
<1>11. CASE \/ LockShare(p) \/ LockExclusive(p) \/ UnlockBuffer(p) \/ ReleaseBuffer(p)
  <2>1. UNCHANGED <<pin_waiter, target, signaled>>
    BY Zenon, <1>0, <1>11 DEF LockShare, LockExclusive, UnlockBuffer, ReleaseBuffer, hdr, lat
  <2>2. \A b \in Buffers : pins[b] \subseteq pins'[b]
    BY Zenon, <1>0, <1>11 DEF LockShare, LockExclusive, UnlockBuffer, ReleaseBuffer, hdr,
        Typed, HeadersTyped
  <2>3. pc[p] \notin {"wakewaiter", "signal"} /\ pc'[p] \notin {"signal", "cleanunlock", "asleep"}
    BY ZenonT(40), <1>0, <1>11 DEF LockShare, LockExclusive, UnlockBuffer, ReleaseBuffer,
        UnpinThen, Go, KeepsOuter, Typed, LocalsTyped
  <2> QED
    BY <1>0, <2>1, <2>2, <2>3, WakeQuiet
<1>12. CASE \/ MarkBufferDirty(p) \/ LogChange(p)
  <2>1. UNCHANGED <<pin_waiter, target, signaled>>
    BY Zenon, <1>0, <1>12 DEF MarkBufferDirty, LogChange, hdr, lat
  <2>2. \A b \in Buffers : pins[b] \subseteq pins'[b]
    BY ZenonT(40), <1>0, <1>12 DEF MarkBufferDirty, LogChange, hdr, Typed, HeadersTyped
  <2>3. pc[p] \notin {"wakewaiter", "signal"} /\ pc'[p] \notin {"signal", "cleanunlock", "asleep"}
    BY Zenon, <1>0, <1>12 DEF MarkBufferDirty, LogChange, Go, KeepsOuter, Typed, LocalsTyped
  <2> QED
    BY <1>0, <2>1, <2>2, <2>3, WakeQuiet
<1>13. CASE \/ SetHint(p) \/ MarkBufferDirtyHint(p) \/ SetHintDirty(p)
            \/ LockBufferForCleanup(p)
  <2>1. UNCHANGED <<pin_waiter, target, signaled>>
    BY Zenon, <1>0, <1>13 DEF SetHint, MarkBufferDirtyHint, SetHintDirty,
        LockBufferForCleanup, hdr, lat
  <2>2. \A b \in Buffers : pins[b] \subseteq pins'[b]
    BY Zenon, <1>0, <1>13 DEF SetHint, MarkBufferDirtyHint, SetHintDirty,
        LockBufferForCleanup, hdr, Typed, HeadersTyped
  <2>3. pc[p] \notin {"wakewaiter", "signal"} /\ pc'[p] \notin {"signal", "cleanunlock", "asleep"}
    BY ZenonT(40), <1>0, <1>13 DEF SetHint, MarkBufferDirtyHint, SetHintDirty,
        LockBufferForCleanup, Go, KeepsOuter, Typed, LocalsTyped
  <2> QED
    BY <1>0, <2>1, <2>2, <2>3, WakeQuiet
<1>14. CASE \/ DropRelationBuffers(p) \/ WaitIO(p) \/ DeleteDropped(p) \/ FreeDropped(p)
  <2>1. UNCHANGED <<pin_waiter, target, signaled>>
    BY Zenon, <1>0, <1>14 DEF DropRelationBuffers, WaitIO, DeleteDropped, FreeDropped, hdr,
        lat
  <2>2. \A b \in Buffers : pins[b] \subseteq pins'[b]
    BY Zenon, <1>0, <1>14 DEF DropRelationBuffers, WaitIO, DeleteDropped, FreeDropped, hdr,
        Typed, HeadersTyped
  <2>3. pc[p] \notin {"wakewaiter", "signal"} /\ pc'[p] \notin {"signal", "cleanunlock", "asleep"}
    BY Zenon, <1>0, <1>14 DEF DropRelationBuffers, WaitIO, DeleteDropped, FreeDropped, Go,
        KeepsOuter, Typed, LocalsTyped
  <2> QED
    BY <1>0, <2>1, <2>2, <2>3, WakeQuiet
<1>15. ASSUME NEW t \in Pages, BufferAlloc(p, t)
      PROVE  WakeInv'
  <2>1. UNCHANGED <<pin_waiter, target, signaled>>
    BY Zenon, <1>0, <1>15 DEF BufferAlloc, lat
  <2>2. \A b \in Buffers : pins[b] \subseteq pins'[b]
    BY SMTT(40), Z3T(40), <1>0, <1>15 DEF BufferAlloc, PinBuffer, Typed, HeadersTyped
  <2>3. pc[p] \notin {"wakewaiter", "signal"} /\ pc'[p] \notin {"signal", "cleanunlock", "asleep"}
    BY Zenon, <1>0, <1>15 DEF BufferAlloc, AfterPin, MayRead, Go, KeepsOuter, Typed,
        LocalsTyped
  <2> QED
    BY Zenon, <1>0, <2>1, <2>2, <2>3, WakeQuiet
<1>16. ASSUME NEW t \in Pages, DropRelation(p, t)
      PROVE  WakeInv'
  <2>1. UNCHANGED <<pin_waiter, target, signaled>>
    BY Zenon, <1>0, <1>16 DEF DropRelation, hdr, lat
  <2>2. \A b \in Buffers : pins[b] \subseteq pins'[b]
    BY Zenon, <1>0, <1>16 DEF DropRelation, hdr, Typed, HeadersTyped
  <2>3. pc[p] \notin {"wakewaiter", "signal"} /\ pc'[p] \notin {"signal", "cleanunlock", "asleep"}
    BY Zenon, <1>0, <1>16 DEF DropRelation, Go, KeepsOuter, Typed, LocalsTyped
  <2> QED
    BY <1>0, <2>1, <2>2, <2>3, WakeQuiet
<1>17. CASE PinExisting(p)
  <2>1. UNCHANGED <<pin_waiter, target, signaled>>
    BY Zenon, <1>0, <1>17 DEF PinExisting, lat
  <2>2. \A b \in Buffers : pins[b] \subseteq pins'[b]
    BY Zenon, <1>0, <1>17 DEF PinExisting, PinBuffer, Typed, HeadersTyped
  <2>3. pc[p] \notin {"wakewaiter", "signal"} /\ pc'[p] \notin {"signal", "cleanunlock", "asleep"}
    BY Zenon, <1>0, <1>17 DEF PinExisting, AfterPin, Go, KeepsOuter, Typed, LocalsTyped
  <2> QED
    BY <1>0, <2>1, <2>2, <2>3, WakeQuiet
<1> QED
  BY ZenonT(40), <1>1, <1>2, <1>3, <1>4, <1>5, <1>6, <1>7, <1>8, <1>9, <1>10, <1>11, <1>12,
      <1>13, <1>14, <1>15, <1>16, <1>17 DEF Backend

\* Cleanup waiters, in the steps of the checkpointer.
LEMMA WakeCheckpoint ==
    ASSUME Typed, MapInv, WakeInv, Checkpoint
    PROVE  WakeInv'
<1>0. /\ Checkpointer \in Procs /\ AtWork(Checkpointer) /\ KeepsOuter(Checkpointer)
      /\ Local(Checkpointer)
  BY Zenon, LocalCheckpoint DEF MapInv, Procs
<1>1. CASE \/ CreateCheckPoint \/ MarkForCheckpoint \/ BufferSync \/ SyncOneBuffer
           \/ EndCheckPoint
  <2>1. UNCHANGED <<pin_waiter, target, signaled>>
    BY Zenon, <1>0, <1>1 DEF CreateCheckPoint, MarkForCheckpoint, BufferSync, SyncOneBuffer,
        EndCheckPoint, hdr, lat
  <2>2. \A b \in Buffers : pins[b] \subseteq pins'[b]
    BY Zenon, <1>0, <1>1 DEF CreateCheckPoint, MarkForCheckpoint, BufferSync, SyncOneBuffer,
        EndCheckPoint, hdr, Typed, HeadersTyped
  <2>3. pc[Checkpointer] \notin {"wakewaiter", "signal"}
        /\ pc'[Checkpointer] \notin {"signal", "cleanunlock", "asleep"}
    BY Zenon, <1>0, <1>1 DEF CreateCheckPoint, MarkForCheckpoint, BufferSync, SyncOneBuffer,
        EndCheckPoint, Go, KeepsOuter, Typed, LocalsTyped
  <2> QED
    BY Zenon, <1>0, <2>1, <2>2, <2>3, WakeQuiet
<1> QED
  BY Zenon, <1>1 DEF Checkpoint

-----------------------------------------------------------------------------
(* The invariant, and what follows from it. *)

\* Nobody holds a lock or performs I/O in an initial state.
LEMMA InitLocks == Init => LockInv /\ IoInv
<1> SUFFICES ASSUME Init
             PROVE  LockInv /\ IoInv
  OBVIOUS
<1>1. /\ \A p \in Procs : pc[p] = "idle" /\ outer[p] = NoBuffer
      /\ \A b \in Buffers : share[b] = {} /\ ~ io_in_progress[b]
  BY Zenon DEF Init
<1>2. LockInv
  BY Zenon, <1>1 DEF LockInv, ContentLocks, LockedBy, Exclusively, Sharing
<1>3. IoInv
  BY Zenon, <1>1 DEF IoInv, DoesIO
<1> QED
  BY <1>2, <1>3

\* At the start nothing has been dropped.
LEMMA InitDrops == Init => DropInv
<1> SUFFICES ASSUME Init
             PROVE  DropInv
  OBVIOUS
<1>1. /\ \A p \in Procs : pc[p] = "idle" /\ outer[p] = NoBuffer /\ want[p] = NoPage
      /\ dropped = {} /\ unlinked = {}
  BY Zenon DEF Init
<1>2. \A p \in Procs : DropsAlone(p)
  BY Zenon, <1>1 DEF DropsAlone, Dropping
<1> QED
  BY Zenon, <1>1, <1>2 DEF DropInv, DroppedStaysGone, Procs

\* At the start nobody holds or waits for a cleanup lock.
LEMMA InitCleanup == Init => CleanInv /\ WakeInv
<1> SUFFICES ASSUME Init
             PROVE  CleanInv /\ WakeInv
  OBVIOUS
<1>1. \A p \in Procs : pc[p] = "idle"
  BY Zenon DEF Init
<1>2. CleanInv /\ \A p \in Procs : Woken(p)
  BY Zenon, <1>1 DEF CleanInv, Cleaning, Woken
<1>3. Signals
  <2>1. /\ signaled = [p \in Procs |-> FALSE] /\ target = [p \in Procs |-> NoProc]
        /\ pin_waiter = [b \in Buffers |-> NoProc]
    BY Zenon DEF Init
  <2> QED
    BY Zenon, <1>1, <2>1 DEF Signals
<1> QED
  BY Zenon, <1>2, <1>3 DEF WakeInv

\* Content locks, in every step.
LEMMA LockInvStep ==
    ASSUME Typed, MapInv, LockInv, [Next]_vars
    PROVE  LockInv'
<1>1. CASE UNCHANGED vars
  <2>1. UNCHANGED <<share, excl, pc, ret, cur, outer>>
    BY Zenon, <1>1 DEF vars, locks, loc
  <2> QED
    BY Zenon, <2>1 DEF LockInv, ContentLocks, LockedBy, Aborting
<1> QED
  BY Zenon, <1>1, LocksShared, LocksBackend, LocksCheckpoint DEF Next, Finished

\* I/O, in every step.
LEMMA IoInvStep ==
    ASSUME Typed, MapInv, IoInv, [Next]_vars
    PROVE  IoInv'
<1>1. CASE UNCHANGED vars
  <2>1. UNCHANGED <<io_in_progress, valid, pc, cur>>
    BY Zenon, <1>1 DEF vars, hdr, loc
  <2> QED
    BY Zenon, <2>1 DEF IoInv, DoesIO
<1> QED
  BY Zenon, <1>1, IoShared, IoBackend, IoCheckpoint DEF Next, Finished

\* Dropped pages, in every step.
LEMMA DropInvStep ==
    ASSUME Typed, MapInv, DropInv, [Next]_vars
    PROVE  DropInv'
<1>1. CASE UNCHANGED vars
  <2>1. UNCHANGED <<tag, dropped, unlinked, pc, ret, want, cur, outer, scan>>
    BY Zenon, <1>1 DEF vars, hdr, rels, ckpt, loc
  <2>2. \A p \in Procs : DropsAlone(p)'
    BY Zenon, <2>1 DEF DropInv, DropsAlone, Scanned, Aborting
  <2> QED
    BY Zenon, <2>1, <2>2 DEF DropInv, DroppedStaysGone
<1> QED
  BY Zenon, <1>1, DropsShared, DropsBackend, DropsCheckpoint DEF Next, Finished

\* Cleanup locks, in every step.
LEMMA CleanInvStep ==
    ASSUME Typed, MapInv, LockInv, CleanInv, [Next]_vars
    PROVE  CleanInv'
<1>1. CASE UNCHANGED vars
  <2>1. UNCHANGED <<pc, ret, cur>>
    BY Zenon, <1>1 DEF vars, loc
  <2> QED
    BY Zenon, <2>1 DEF CleanInv, Cleaning, HasPage
<1> QED
  BY Zenon, <1>1, CleanShared, CleanBackend, CleanCheckpoint DEF Next, Finished

\* Waiters for a cleanup lock, in every step.
LEMMA WakeInvStep ==
    ASSUME Typed, MapInv, WakeInv, [Next]_vars
    PROVE  WakeInv'
<1>1. CASE UNCHANGED vars
  <2>1. UNCHANGED <<pins, pin_waiter, signaled, target, pc, cur>>
    BY Zenon, <1>1 DEF vars, hdr, lat, loc
  <2>2. Signals'
    BY Zenon, <2>1 DEF WakeInv, Signals
  <2>3. \A p \in Procs : Woken(p)'
    BY Zenon, <2>1 DEF WakeInv, Woken
  <2> QED
    BY Zenon, <2>2, <2>3 DEF WakeInv
<1> QED
  BY Zenon, <1>1, WakeShared, WakeBackend, WakeCheckpoint DEF Next, Finished

\* The inductive invariant.
BaseInv == Typed /\ MapInv /\ LockInv /\ IoInv /\ DropInv /\ CleanInv /\ WakeInv

\* Every step preserves it.
LEMMA BaseStep == BaseInv /\ [Next]_vars => BaseInv'
<1> SUFFICES ASSUME BaseInv, [Next]_vars
             PROVE  BaseInv'
  OBVIOUS
<1>1. Typed' /\ MapInv'
  BY TypedStep, MapInvStep DEF BaseInv
<1>2. LockInv' /\ IoInv' /\ DropInv'
  BY LockInvStep, IoInvStep, DropInvStep DEF BaseInv
<1>3. CleanInv' /\ WakeInv'
  BY CleanInvStep, WakeInvStep DEF BaseInv
<1> QED
  BY Zenon, <1>1, <1>2, <1>3 DEF BaseInv

\* BufMgr always satisfies it.
THEOREM BaseInvHolds == Spec => []BaseInv
<1>1. Init => BaseInv
  BY InitTyped, InitMapInv, InitLocks, InitDrops, InitCleanup DEF BaseInv
<1> QED
  BY <1>1, BaseStep, PTL DEF Spec

\* For any number of buffers, backends and partitions: no page is in two buffers, and
\* the mapping table and the tags agree except while one process that holds the
\* partition lock is between the two halves of an invalidation.
THEOREM MappingIsSound == Spec => []MappingSound
<1>1. BaseInv => MappingSound
  BY Zenon DEF BaseInv, MapInv
<1> QED
  BY <1>1, BaseInvHolds, PTL

\* A page that ReadBuffer returned stays in its buffer, valid, until it is released, and
\* the page kept through a nested read stays locked: no victim search and no drop
\* of a relation takes it away.
THEOREM HeldPagesStay == Spec => []HeldPageStays
<1>1. BaseInv => HeldPageStays
  <2> SUFFICES ASSUME BaseInv, NEW p \in Procs
               PROVE  /\ HasPage(p) => /\ p \in pins[cur[p]]
                                       /\ tag[cur[p]] = want[p] /\ valid[cur[p]]
                      /\ outer[p] # NoBuffer /\ ~ Aborting(p)
                            => excl[outer[p]] = p /\ p \in pins[outer[p]] /\ valid[outer[p]]
    BY Zenon DEF HeldPageStays
  <2>1. AtWork(p) /\ KeepsOuter(p) /\ LockedBy(p)
    BY Zenon DEF BaseInv, MapInv, LockInv
  <2>2. HasPage(p) => pc[p] \in Holding /\ pc[p] \in Pinning
    BY Zenon DEF HasPage, Holding, Pinning
  <2>3. HasPage(p) => p \in pins[cur[p]] /\ tag[cur[p]] = want[p] /\ valid[cur[p]]
    BY Zenon, <2>1, <2>2 DEF AtWork
  <2> QED
    BY Zenon, <2>1, <2>3 DEF KeepsOuter, LockedBy
<1> QED
  BY <1>1, BaseInvHolds, PTL

\* BM_IO_IN_PROGRESS is set exactly while one process performs the I/O, also when
\* transfers fail: WaitIO waits for somebody who ends it.
THEOREM IoIsOwned == Spec => []IoHasOwner
<1>1. BaseInv => IoHasOwner
  <2> SUFFICES ASSUME BaseInv, NEW b \in Buffers
               PROVE  io_in_progress[b] <=>
                         \E p \in Procs : /\ DoesIO(p) /\ cur[p] = b
                                          /\ \A q \in Procs : DoesIO(q) /\ cur[q] = b => q = p
    BY Zenon DEF IoHasOwner
  <2> QED
    BY SMTT(40), Z3T(40) DEF BaseInv, IoInv
<1> QED
  BY <1>1, BaseInvHolds, PTL

\* DropRelationBuffers misses no buffer, although victims are taken and pages
\* read in while its unlocked loop runs.
THEOREM DroppedPagesStayGone == Spec => []DroppedStaysGone
<1>1. BaseInv => DroppedStaysGone
  BY Zenon DEF BaseInv, DropInv
<1> QED
  BY <1>1, BaseInvHolds, PTL

\* LockBufferForCleanup: the holder of a cleanup lock is the only one with pointers
\* into the page.
THEOREM CleanupIsAlone == Spec => []CleanupAlone
<1>1. BaseInv => CleanupAlone
  BY Zenon DEF BaseInv, CleanInv, CleanupAlone, Cleaning, NotLooked
<1> QED
  BY <1>1, BaseInvHolds, PTL

\* LockBufferForCleanup and UnpinBuffer: no waiter for the pin count is forgotten.
THEOREM CleanupIsWoken == Spec => []CleanupWakeup
<1>1. BaseInv => CleanupWakeup
  <2> SUFFICES ASSUME BaseInv, NEW p \in Procs, pc[p] = "asleep"
               PROVE  \/ signaled[p]
                      \/ \E q \in Procs : pc[q] = "signal" /\ target[q] = p
                      \/ /\ pin_waiter[cur[p]] = p
                         /\ \/ pins[cur[p]] # {p}
                            \/ \E q \in Procs : pc[q] = "wakewaiter" /\ cur[q] = cur[p]
    BY Zenon DEF CleanupWakeup
  <2> QED
    BY Zenon DEF BaseInv, WakeInv, Woken
<1> QED
  BY <1>1, BaseInvHolds, PTL
=============================================================================
