------------------------- MODULE BufMgrPoolProofs -------------------------
(***************************************************************************)
(* Proofs about what the pages of BufMgr contain: a buffer that is ahead   *)
(* of its file is dirty, the pool implements PageStore, and after a crash  *)
(* replay from the redo pointer brings every page up to date.              *)
(***************************************************************************)
EXTENDS BufMgrProofs

-----------------------------------------------------------------------------
(* Page contents. *)

\* Somebody has set a hint in buffer b and not yet marked it dirty.
HintPending(b) == \E p \in Procs : pc[p] \in {"hint", "hintdirty"} /\ cur[p] = b

\* A page image whose last change has been logged.
IsImage(x) ==
    x = [lsn |-> x.lsn, hint |-> x.hint] /\ x.lsn \in 0 .. Len(log) /\ x.hint \in BOOLEAN

\* The log and the files are what they should be.
Storage == /\ log \in Seq(Pages)
           /\ content = [b \in Buffers |-> content[b]] /\ disk = [t \in Pages |-> disk[t]]
           /\ \A t \in Pages : IsImage(disk[t])

\* A buffer that is ahead of the file is dirty, or will be.
Stored(b) == valid[b] => /\ IsImage(content[b])
                         /\ content[b] # disk[tag[b]] => dirty[b] \/ HintPending(b)

\* What a process that wrote, or is changing, a page knows about its flags.
Written(p) ==
    /\ pc[p] = "endwrite" /\ content[cur[p]] # disk[tag[cur[p]]] =>
          just_dirtied[cur[p]] \/ HintPending(cur[p])
    /\ pc[p] = "dirtied" => dirty[cur[p]]

\* The inductive invariant of page contents.
ContentInv == /\ Storage
              /\ \A b \in Buffers : Stored(b)
              /\ \A p \in Procs : Written(p)

\* A hint that is set is marked dirty, or still to be.
HintsKept == \A b \in Buffers : HintPending(b) =>
    HintPending(b)' \/ (dirty'[b] /\ just_dirtied'[b])

\* A process that has set no hint forgets none.
LEMMA HintsStay ==
    ASSUME NEW q \in Procs, Local(q), pc[q] \notin {"hint", "hintdirty"}
    PROVE  HintsKept
  BY Zenon DEF HintsKept, HintPending, Local

\* The locations that Written looks at have the buffer pinned and the page in it.
LEMMA WritersPin ==
    ASSUME MapInv, NEW p \in Procs, pc[p] \in {"endwrite", "dirtied"}
    PROVE  cur[p] \in Buffers /\ p \in pins[cur[p]] /\ valid[cur[p]]
  BY Zenon DEF MapInv, AtWork, HasBuffer, Pinning, Holding, Writing

\* A step of q that leaves the pages alone and makes no buffer clean.
LEMMA ContentQuiet ==
    ASSUME Typed, MapInv, ContentInv, NEW q \in Procs, Local(q), HintsKept,
           UNCHANGED <<tag, valid, content, disk, log>>,
           \A b \in Buffers : (dirty[b] => dirty'[b]) /\ (just_dirtied[b] => just_dirtied'[b]),
           Written(q)'
    PROVE  ContentInv'
<1>1. Storage'
  BY Zenon DEF ContentInv, Storage, IsImage
<1>2. ASSUME NEW b \in Buffers
      PROVE  Stored(b)'
  BY Zenon DEF ContentInv, Stored, IsImage, HintsKept
<1>3. ASSUME NEW p \in Procs \ {q}
      PROVE  Written(p)'
  <2>1. UNCHANGED <<pc[p], cur[p]>>
    BY Zenon DEF Local
  <2>2. Written(p) /\ (pc[p] \in {"endwrite", "dirtied"} => cur[p] \in Buffers)
    BY Zenon, WritersPin DEF ContentInv
  <2> QED
    BY Zenon, <2>1, <2>2 DEF Written, HintsKept
<1> QED
  BY Zenon, <1>1, <1>2, <1>3 DEF ContentInv

\* A step of q that changes one buffer and at most the file of its page.
LEMMA ContentAt ==
    ASSUME Typed, MapInv, ContentInv, NEW q \in Procs, Local(q), HintsKept, NEW b \in Buffers,
           Storage', Len(log) <= Len(log'),
           \A c \in Buffers \ {b} :
              /\ UNCHANGED <<tag[c], valid[c], content[c], dirty[c], just_dirtied[c]>>
              /\ valid[c] => disk'[tag[c]] = disk[tag[c]],
           Stored(b)', Written(q)',
           \A p \in Procs \ {q} : pc[p] \in {"endwrite", "dirtied"} /\ cur[p] = b => Written(p)'
    PROVE  ContentInv'
<1>1. ASSUME NEW c \in Buffers \ {b}
      PROVE  Stored(c)'
  <2>1. ASSUME IsImage(content[c])
        PROVE  IsImage(content[c])'
    <3>1. Len(log) \in Nat /\ Len(log') \in Nat
      BY SMTT(40), Z3T(40) DEF ContentInv, Storage
    <3> QED
      BY SMTT(40), Z3T(40), <2>1, <3>1 DEF IsImage
  <2> QED
    BY SMTT(40), Z3T(40), <2>1 DEF ContentInv, Stored, HintsKept
<1>2. ASSUME NEW p \in Procs \ {q}
      PROVE  Written(p)'
  <2>1. UNCHANGED <<pc[p], cur[p]>>
    BY Zenon DEF Local
  <2>2. Written(p) /\ (pc[p] \in {"endwrite", "dirtied"} => cur[p] \in Buffers /\ valid[cur[p]])
    BY Zenon, WritersPin DEF ContentInv
  <2>3. CASE cur[p] = b
    BY Zenon, <2>1, <2>3 DEF Written
  <2>4. CASE cur[p] # b
    BY SMTT(40), Z3T(40), <2>1, <2>2, <2>4 DEF Written, HintsKept
  <2> QED
    BY <2>3, <2>4
<1> QED
  BY Zenon, <1>1, <1>2 DEF ContentInv

\* A step of q that touches no page and no flag that ContentInv is about.
LEMMA ContentSame ==
    ASSUME Typed, MapInv, ContentInv, NEW q \in Procs, Local(q),
           pc[q] \notin {"hint", "hintdirty"},
           UNCHANGED <<tag, valid, content, disk, log, dirty, just_dirtied>>,
           pc'[q] \notin {"endwrite", "dirtied"}
    PROVE  ContentInv'
  BY Zenon, HintsStay, ContentQuiet DEF Written

\* Page contents, in the steps of any process.
LEMMA ContentShared ==
    ASSUME Typed, MapInv, LockInv, IoInv, ContentInv, NEW p \in Procs, Shared(p)
    PROVE  ContentInv'
<1>0. /\ p \in Procs /\ AtWork(p) /\ KeepsOuter(p) /\ Local(p)
  BY Zenon, LocalShared DEF MapInv, Procs
<1>1. CASE XLogFlush(p)
  <2>1. cur[p] \in Buffers /\ pc[p] = "xlogflush"
    BY Zenon, <1>0, <1>1 DEF XLogFlush, AtWork, HasBuffer, Pinning, Holding, Writing, Reading,
        AtVictim
  <2>2. HintsKept
    BY <1>0, <2>1, HintsStay
  <2>3. /\ \A c \in Buffers \ {cur[p]} :
               UNCHANGED <<tag[c], valid[c], content[c], dirty[c], just_dirtied[c]>>
        /\ UNCHANGED <<tag, valid, content, disk, log, cur, dirty>> /\ pc'[p] = "write"
    BY Zenon, <1>0, <1>1, <2>1 DEF XLogFlush, Go, loc, Typed, HeadersTyped, LocalsTyped
  <2>4. Storage' /\ Len(log) <= Len(log')
    <3>1. Len(log) \in Nat
      BY SMTT(40), Z3T(40) DEF ContentInv, Storage
    <3> QED
      BY SMTT(40), Z3T(40), <2>3, <3>1 DEF ContentInv, Storage, IsImage
  <2>5. Stored(cur[p])'
    BY Zenon, <2>1, <2>2, <2>3 DEF ContentInv, Stored, IsImage, HintsKept
  <2>6. Written(p)'
    BY Zenon, <2>3 DEF Written
  <2>7. ASSUME NEW q \in Procs \ {p}, pc[q] \in {"endwrite", "dirtied"}, cur[q] = cur[p]
        PROVE  Written(q)'
    <3>1. pc[q] # "endwrite"
      BY Zenon, <2>1, <2>7 DEF IoInv, DoesIO
    <3> QED
      BY Zenon, <1>0, <2>3, <2>7, <3>1 DEF Written, ContentInv, Local
  <2> QED
    BY <1>0, <2>1, <2>2, <2>3, <2>4, <2>5, <2>6, <2>7, ContentAt
<1>2. CASE WritePage(p)
  <2>1. cur[p] \in Buffers /\ pc[p] = "write" /\ valid[cur[p]]
    BY Zenon, <1>0, <1>2 DEF WritePage, AtWork, HasBuffer, Pinning, Holding, Writing, Reading,
        AtVictim
  <2>2. HintsKept
    BY <1>0, <2>1, HintsStay
  <2>3. tag[cur[p]] \in Pages
    BY Zenon, <2>1 DEF MapInv, Headers, Typed, HeadersTyped
  <2>4. /\ UNCHANGED <<tag, valid, content, log, cur, dirty, just_dirtied>> /\ pc'[p] = "endwrite"
        /\ disk' = [disk EXCEPT ![tag[cur[p]]] = content[cur[p]]]
    BY Zenon, <1>0, <1>2 DEF WritePage, hdr, wal, loc, Go, Typed, LocalsTyped
  <2>5. /\ disk'[tag[cur[p]]] = content[cur[p]]
        /\ \A c \in Buffers \ {cur[p]} : valid[c] => disk'[tag[c]] = disk[tag[c]]
    <3>1. disk = [t \in Pages |-> disk[t]]
      BY Zenon DEF ContentInv, Storage
    <3>2. \A c \in Buffers \ {cur[p]} : valid[c] => tag[c] \in Pages /\ tag[c] # tag[cur[p]]
      BY SMTT(40), Z3T(40), <2>1, <2>3 DEF MapInv, Headers, MappingSound, Typed, HeadersTyped
    <3> QED
      BY <2>3, <2>4, <3>1, <3>2
  <2>6. Storage' /\ Len(log) <= Len(log')
    <3>0. Len(log) \in Nat
      BY SMTT(40), Z3T(40) DEF ContentInv, Storage
    <3>1. Len(log) \in Nat /\ IsImage(content[cur[p]])
      BY Zenon, <2>1, <3>0 DEF ContentInv, Stored
    <3>2. \A t \in Pages : disk'[t] = disk[t] \/ disk'[t] = content[cur[p]]
      BY Zenon, <2>4 DEF ContentInv, Storage
    <3>3. disk' = [t \in Pages |-> disk'[t]]
      BY Zenon, <2>4 DEF ContentInv, Storage
    <3> QED
      BY SMTT(40), Z3T(40), <2>4, <3>1, <3>2, <3>3 DEF ContentInv, Storage, IsImage
  <2>7. Stored(cur[p])' /\ Written(p)'
    BY Zenon, <2>1, <2>4, <2>5 DEF ContentInv, Stored, IsImage, Written
  <2>8. ASSUME NEW q \in Procs \ {p}, pc[q] \in {"endwrite", "dirtied"}, cur[q] = cur[p]
        PROVE  Written(q)'
    <3>1. pc'[q] = pc[q] /\ cur'[q] = cur[q] /\ Written(q)
      BY Zenon, <1>0 DEF Local, ContentInv
    <3> QED
      BY Zenon, <2>4, <2>5, <2>8, <3>1 DEF Written
  <2> QED
    BY Zenon, <1>0, <2>1, <2>2, <2>4, <2>5, <2>6, <2>7, <2>8, ContentAt
<1>3. CASE EndWrite(p)
  <2>1. cur[p] \in Buffers /\ pc[p] = "endwrite"
    BY Zenon, <1>0, <1>3 DEF EndWrite, AtWork, HasBuffer, Pinning, Holding, Writing, Reading,
        AtVictim
  <2>2. HintsKept
    BY <1>0, <2>1, HintsStay
  <2>3. /\ \A c \in Buffers \ {cur[p]} :
               UNCHANGED <<tag[c], valid[c], content[c], dirty[c], just_dirtied[c]>>
        /\ UNCHANGED <<tag, valid, content, disk, log, cur, just_dirtied>>
        /\ pc'[p] \in {"unpin", "inval"}
        /\ dirty'[cur[p]] <=> dirty[cur[p]] /\ just_dirtied[cur[p]]
    BY Zenon, <1>0, <1>3, <2>1 DEF EndWrite, DirtiedAgain, AfterFlush, UnpinThen, Go, wal, loc,
        Typed, HeadersTyped, LocalsTyped
  <2>4. Storage' /\ Len(log) <= Len(log')
    <3>1. Len(log) \in Nat
      BY SMTT(40), Z3T(40) DEF ContentInv, Storage
    <3> QED
      BY SMTT(40), Z3T(40), <2>3, <3>1 DEF ContentInv, Storage, IsImage
  <2>5. Stored(cur[p])'
    <3>1. Stored(cur[p]) /\ Written(p)
      BY Zenon, <1>0, <2>1 DEF ContentInv
    <3> QED
      BY Zenon, <2>1, <2>2, <2>3, <3>1 DEF Stored, Written, IsImage, HintsKept
  <2>6. Written(p)'
    BY Zenon, <2>3 DEF Written
  <2>7. ASSUME NEW q \in Procs \ {p}, pc[q] \in {"endwrite", "dirtied"}, cur[q] = cur[p]
        PROVE  Written(q)'
    <3>1. pc[q] # "dirtied" /\ pc[q] # "endwrite"
      <4>1. pc[q] # "endwrite"
        BY Zenon, <2>1, <2>7 DEF IoInv, DoesIO
      <4>2. pc[q] = "dirtied" => excl[cur[p]] = q /\ p \in share[cur[p]]
        BY Zenon, <1>0, <2>1, <2>7 DEF LockInv, LockedBy, Exclusively, Sharing
      <4> QED
        BY Zenon, <2>1, <4>1, <4>2, NoneIsNone DEF LockInv, ContentLocks
    <3> QED
      BY <2>7, <3>1
  <2> QED
    BY Zenon, <1>0, <2>1, <2>2, <2>3, <2>4, <2>5, <2>6, <2>7, ContentAt
<1>4. CASE \/ UnpinBuffer(p) \/ WakeWaiter(p) \/ SendSignal(p)
  <2>1. UNCHANGED <<tag, valid, content, disk, log, dirty, just_dirtied>>
    BY Zenon, <1>0, <1>4 DEF UnpinBuffer, WakeWaiter, SendSignal, hdr, flags, wal
  <2>2. pc[p] \notin {"hint", "hintdirty"} /\ pc'[p] \notin {"endwrite", "dirtied"}
    BY Zenon, <1>0, <1>4 DEF UnpinBuffer, WakeWaiter, SendSignal, Return, Go, KeepsOuter,
        Unpinning, Typed, LocalsTyped
  <2> QED
    BY <1>0, <2>1, <2>2, ContentSame
<1>5. CASE \/ LockForFlush(p) \/ StartOutput(p)
  <2>1. UNCHANGED <<tag, valid, content, disk, log, dirty, just_dirtied>>
    BY Zenon, <1>0, <1>5 DEF LockForFlush, StartOutput, hdr, wal
  <2>2. pc[p] \notin {"hint", "hintdirty"} /\ pc'[p] \notin {"endwrite", "dirtied"}
    BY Zenon, <1>0, <1>5 DEF LockForFlush, StartOutput, UnpinThen, AfterFlush, Go,
        KeepsOuter, Unpinning, Typed, LocalsTyped
  <2> QED
    BY <1>0, <2>1, <2>2, ContentSame
<1>6. CASE \/ TransferFails(p) \/ AbortBufferIO(p) \/ ReleasePins(p)
  <2>1. UNCHANGED <<tag, valid, content, disk, log, dirty, just_dirtied>>
    BY Zenon, <1>0, <1>6 DEF TransferFails, AbortBufferIO, ReleasePins, hdr, wal
  <2>2. pc[p] \notin {"hint", "hintdirty"} /\ pc'[p] \notin {"endwrite", "dirtied"}
    BY ZenonT(40), <1>0, <1>6 DEF TransferFails, AbortBufferIO, ReleasePins, UnpinThen, Go,
        KeepsOuter, Unpinning, Typed, LocalsTyped
  <2> QED
    BY <1>0, <2>1, <2>2, ContentSame
<1> QED
  BY Zenon, <1>1, <1>2, <1>3, <1>4, <1>5, <1>6 DEF Shared

\* Page contents, in the steps of a backend.
LEMMA ContentBackend ==
    ASSUME Typed, MapInv, LockInv, IoInv, ContentInv, NEW p \in Backends, Backend(p)
    PROVE  ContentInv'
<1>0. /\ p \in Procs /\ AtWork(p) /\ KeepsOuter(p) /\ Local(p)
  BY Zenon, LocalBackend DEF MapInv, Procs
<1>1. CASE InvalidateVictimBuffer(p)
  <2>1. cur[p] \in Buffers /\ pc[p] = "inval"
    BY Zenon, <1>0, <1>1 DEF InvalidateVictimBuffer, AtWork, HasBuffer, Pinning, Holding,
        Writing, Reading, AtVictim
  <2>2. HintsKept
    BY <1>0, <2>1, HintsStay
  <2>3. CASE StillVictim(p, cur[p])
    <3>1. /\ \A c \in Buffers \ {cur[p]} :
                 UNCHANGED <<tag[c], valid[c], content[c], dirty[c], just_dirtied[c]>>
          /\ UNCHANGED <<disk, log, cur>> /\ pc'[p] = "delete" /\ ~ valid'[cur[p]]
          /\ content' = [content EXCEPT ![cur[p]] = Garbage]
      BY Zenon, <1>0, <1>1, <2>1, <2>3 DEF InvalidateVictimBuffer, ClearBuffer, Go, wal, loc,
          ContentInv, Storage, Typed, HeadersTyped, LocalsTyped
    <3>2. Storage' /\ Len(log) <= Len(log')
      <4>1. Len(log) \in Nat
        BY SMTT(40), Z3T(40) DEF ContentInv, Storage
      <4>2. content' = [b \in Buffers |-> content'[b]]
        BY Zenon, <3>1 DEF ContentInv, Storage
      <4> QED
        BY SMTT(40), Z3T(40), <3>1, <4>1, <4>2 DEF ContentInv, Storage, IsImage
    <3>3. Stored(cur[p])' /\ Written(p)'
      BY Zenon, <3>1 DEF Stored, Written
    <3>4. \A q \in Procs \ {p} : pc[q] \in {"endwrite", "dirtied"} => cur[q] # cur[p]
      BY Zenon, <2>3, WritersPin DEF StillVictim
    <3> QED
      BY ZenonT(40), <1>0, <2>1, <2>2, <3>1, <3>2, <3>3, <3>4, ContentAt
  <2>4. CASE ~ (StillVictim(p, cur[p]))
    <3>1. UNCHANGED <<tag, valid, content, disk, log, dirty, just_dirtied>>
          /\ pc'[p] \notin {"endwrite", "dirtied"}
      BY Zenon, <1>0, <1>1, <2>4 DEF InvalidateVictimBuffer, flags, wal, UnpinThen, Go, Typed,
          LocalsTyped
    <3> QED
      BY Zenon, <1>0, <2>2, <3>1, ContentQuiet DEF Written
  <2> QED
    BY <2>3, <2>4
<1>2. CASE BufTableInsert(p)
  <2>1. cur[p] \in Buffers /\ pc[p] = "insert" /\ pins[cur[p]] = {p} /\ tag[cur[p]] = NoPage
    BY Zenon, <1>0, <1>2 DEF BufTableInsert, AtWork, HasBuffer, Pinning, Holding, Writing,
        Reading, AtVictim
  <2>2. HintsKept
    BY <1>0, <2>1, HintsStay
  <2>3. /\ UNCHANGED <<valid, content, disk, log, cur, dirty, just_dirtied>>
        /\ pc'[p] \notin {"endwrite", "dirtied"}
        /\ \A c \in Buffers \ {cur[p]} : tag'[c] = tag[c]
    BY Zenon, <1>0, <1>2, <2>1 DEF BufTableInsert, flags, wal, loc, UnpinThen, Go, Typed,
        HeadersTyped, LocalsTyped
  <2>4. ~ valid[cur[p]]
    BY Zenon, <2>1 DEF MapInv, Headers
  <2>5. Storage' /\ Len(log) <= Len(log')
    <3>1. Len(log) \in Nat
      BY SMTT(40), Z3T(40) DEF ContentInv, Storage
    <3> QED
      BY SMTT(40), Z3T(40), <2>3, <3>1 DEF ContentInv, Storage, IsImage
  <2>6. Stored(cur[p])' /\ Written(p)'
    BY Zenon, <2>3, <2>4 DEF Stored, Written
  <2>7. \A q \in Procs \ {p} : pc[q] \in {"endwrite", "dirtied"} => cur[q] # cur[p]
    BY <2>1, WritersPin
  <2> QED
    BY <1>0, <2>1, <2>2, <2>3, <2>5, <2>6, <2>7, ContentAt
<1>3. CASE ReadPage(p)
  <2>1. cur[p] \in Buffers /\ pc[p] = "read" /\ tag[cur[p]] \in Pages
    BY Zenon, <1>0, <1>3 DEF ReadPage, AtWork, HasBuffer, Pinning, Holding, Writing, Reading,
        AtVictim
  <2>2. HintsKept
    BY <1>0, <2>1, HintsStay
  <2>3. /\ \A c \in Buffers \ {cur[p]} :
               UNCHANGED <<tag[c], valid[c], content[c], dirty[c], just_dirtied[c]>>
        /\ UNCHANGED <<tag, disk, log, cur, dirty, just_dirtied>> /\ pc'[p] = "pinned"
        /\ content' = [content EXCEPT ![cur[p]] = disk[tag[cur[p]]]]
        /\ content'[cur[p]] = disk[tag[cur[p]]]
    BY Zenon, <1>0, <1>3, <2>1 DEF ReadPage, Go, wal, loc, ContentInv, Storage, Typed,
        HeadersTyped, LocalsTyped
  <2>4. Storage' /\ Len(log) <= Len(log')
    <3>1. Len(log) \in Nat
      BY SMTT(40), Z3T(40) DEF ContentInv, Storage
    <3>2. content' = [b \in Buffers |-> content'[b]]
      BY Zenon, <2>3 DEF ContentInv, Storage
    <3> QED
      BY SMTT(40), Z3T(40), <2>3, <3>1, <3>2 DEF ContentInv, Storage, IsImage
  <2>5. Stored(cur[p])'
    BY Zenon, <2>1, <2>3 DEF ContentInv, Storage, Stored, IsImage
  <2>6. Written(p)'
    BY Zenon, <2>3 DEF Written
  <2>7. ASSUME NEW q \in Procs \ {p}, pc[q] \in {"endwrite", "dirtied"}, cur[q] = cur[p]
        PROVE  Written(q)'
    BY Zenon, <1>0, <2>3, <2>7 DEF Written, ContentInv, Local
  <2> QED
    BY Zenon, <1>0, <2>1, <2>2, <2>3, <2>4, <2>5, <2>6, <2>7, ContentAt
<1>4. CASE MarkBufferDirty(p)
  <2>1. cur[p] \in Buffers /\ pc[p] \in {"exclusive", "clean"}
    BY Zenon, <1>0, <1>4 DEF MarkBufferDirty, AtWork, HasBuffer, Pinning, Holding, Writing,
        Reading, AtVictim
  <2>2. HintsKept
    BY <1>0, <2>1, HintsStay
  <2>3. /\ UNCHANGED <<tag, valid, content, disk, log, cur>> /\ pc'[p] = "dirtied"
        /\ \A b \in Buffers : (dirty[b] => dirty'[b]) /\ (just_dirtied[b] => just_dirtied'[b])
        /\ dirty'[cur[p]]
    BY Zenon, <1>0, <1>4, <2>1 DEF MarkBufferDirty, Go, wal, loc, Typed, HeadersTyped, LocalsTyped
  <2>4. Written(p)'
    BY Zenon, <2>3 DEF Written
  <2> QED
    BY <1>0, <2>2, <2>3, <2>4, ContentQuiet
<1>5. CASE LogChange(p)
  <2>1. cur[p] \in Buffers /\ pc[p] = "dirtied" /\ want[p] \in Pages /\ valid[cur[p]]
        /\ ret[p] \in {"exclusive", "clean"}
    BY Zenon, <1>0, <1>5 DEF LogChange, KeepsOuter, AtWork, HasBuffer, Pinning, Holding,
        Writing, Reading, AtVictim
  <2>2. HintsKept
    BY <1>0, <2>1, HintsStay
  <2>3. /\ \A c \in Buffers \ {cur[p]} :
               UNCHANGED <<tag[c], valid[c], content[c], dirty[c], just_dirtied[c]>>
        /\ UNCHANGED <<tag, valid, disk, cur, dirty, just_dirtied>>
        /\ pc'[p] \in {"exclusive", "clean"}
        /\ log' = Append(log, want[p])
        /\ content' = [content EXCEPT ![cur[p]] = [lsn |-> Len(log) + 1, hint |-> FALSE]]
        /\ content'[cur[p]] = [lsn |-> Len(log) + 1, hint |-> FALSE]
    BY Zenon, <1>0, <1>5, <2>1 DEF LogChange, Go, hdr, loc, ContentInv, Storage, Typed,
        HeadersTyped, LocalsTyped
  <2>4. Storage' /\ Len(log) <= Len(log')
    <3>1. log' \in Seq(Pages) /\ Len(log) \in Nat /\ Len(log') = Len(log) + 1
      BY SMTT(40), Z3T(40), <2>1, <2>3 DEF ContentInv, Storage
    <3>2. \A t \in Pages : IsImage(disk[t])'
      BY SMTT(40), Z3T(40), <2>3, <3>1 DEF ContentInv, Storage, IsImage
    <3>3. content' = [b \in Buffers |-> content'[b]] /\ disk' = [t \in Pages |-> disk'[t]]
      BY Zenon, <2>3 DEF ContentInv, Storage
    <3> QED
      BY SMTT(40), Z3T(40), <3>1, <3>2, <3>3 DEF Storage
  <2>5. Stored(cur[p])'
    <3>1. Len(log) \in Nat /\ Len(log') = Len(log) + 1
      BY SMTT(40), Z3T(40), <2>1, <2>3 DEF ContentInv, Storage
    <3>2. dirty[cur[p]]
      BY Zenon, <1>0, <2>1 DEF ContentInv, Written
    <3>3. IsImage(content[cur[p]])'
      <4>1. content'[cur[p]].lsn = Len(log) + 1 /\ content'[cur[p]].hint = FALSE
        BY SMTT(40), Z3T(40), <2>3
      <4>2. content'[cur[p]].lsn \in 0 .. Len(log')
        BY SMTT(40), Z3T(40), <3>1, <4>1
      <4>3. content'[cur[p]] = [lsn |-> content'[cur[p]].lsn, hint |-> content'[cur[p]].hint]
        BY <2>3, <4>1, Zenon
      <4> QED
        BY Zenon, <2>3, <4>1, <4>2, <4>3, Zenon DEF IsImage
    <3> QED
      BY Zenon, <2>3, <3>2, <3>3 DEF Stored
  <2>6. Written(p)'
    BY Zenon, <2>3 DEF Written
  <2>7. ASSUME NEW q \in Procs \ {p}, pc[q] \in {"endwrite", "dirtied"}, cur[q] = cur[p]
        PROVE  Written(q)'
    <3>1. excl[cur[p]] = p /\ (pc[q] = "endwrite" => q \in share[cur[p]])
          /\ (pc[q] = "dirtied" => excl[cur[p]] = q)
      BY Zenon, <1>0, <2>1, <2>7 DEF LockInv, LockedBy, Exclusively, Sharing
    <3> QED
      BY Zenon, <1>0, <2>1, <2>7, <3>1, NoneIsNone DEF LockInv, ContentLocks
  <2> QED
    BY Zenon, <1>0, <2>1, <2>2, <2>3, <2>4, <2>5, <2>6, <2>7, ContentAt
<1>6. CASE SetHint(p)
  <2>1. cur[p] \in Buffers /\ pc[p] = "shared" /\ valid[cur[p]]
    BY Zenon, <1>0, <1>6 DEF SetHint, AtWork, HasBuffer, Pinning, Holding, Writing, Reading,
        AtVictim
  <2>2. HintsKept
    BY <1>0, <2>1, HintsStay
  <2>3. /\ \A c \in Buffers \ {cur[p]} :
               UNCHANGED <<tag[c], valid[c], content[c], dirty[c], just_dirtied[c]>>
        /\ UNCHANGED <<tag, valid, disk, log, cur, dirty, just_dirtied>> /\ pc'[p] = "hint"
        /\ content' = [content EXCEPT ![cur[p]] = [lsn |-> content[cur[p]].lsn, hint |-> TRUE]]
        /\ content'[cur[p]] = [lsn |-> content[cur[p]].lsn, hint |-> TRUE]
    BY Zenon, <1>0, <1>6, <2>1 DEF SetHint, Go, hdr, wal, loc, ContentInv, Storage, Typed,
        HeadersTyped, LocalsTyped
  <2>4. Storage' /\ Len(log) <= Len(log')
    <3>1. Len(log) \in Nat
      BY SMTT(40), Z3T(40) DEF ContentInv, Storage
    <3>2. content' = [b \in Buffers |-> content'[b]]
      BY Zenon, <2>3 DEF ContentInv, Storage
    <3> QED
      BY SMTT(40), Z3T(40), <2>3, <3>1, <3>2 DEF ContentInv, Storage, IsImage
  <2>5. Stored(cur[p])'
    <3>1. HintPending(cur[p])'
      BY Zenon, <1>0, <2>3 DEF HintPending
    <3>2. IsImage(content[cur[p]])
      BY Zenon, <2>1 DEF ContentInv, Stored
    <3>3. IsImage(content[cur[p]])'
      <4>1. content'[cur[p]].lsn = content[cur[p]].lsn /\ content'[cur[p]].hint = TRUE
        BY SMTT(40), Z3T(40), <2>3
      <4> QED
        BY Zenon, <2>3, <3>2, <4>1 DEF IsImage
    <3> QED
      BY Zenon, <2>3, <3>1, <3>3 DEF Stored
  <2>6. Written(p)'
    BY Zenon, <2>3 DEF Written
  <2>7. ASSUME NEW q \in Procs \ {p}, pc[q] \in {"endwrite", "dirtied"}, cur[q] = cur[p]
        PROVE  Written(q)'
    <3>1. HintPending(cur[p])'
      BY Zenon, <1>0, <2>3 DEF HintPending
    <3> QED
      BY Zenon, <1>0, <2>3, <2>7, <3>1 DEF Written, ContentInv, Local
  <2> QED
    BY Zenon, <1>0, <2>1, <2>2, <2>3, <2>4, <2>5, <2>6, <2>7, ContentAt
<1>7. CASE MarkBufferDirtyHint(p)
  <2>1. cur[p] \in Buffers /\ pc[p] \in {"hint", "hintdirty"}
    BY Zenon, <1>0, <1>7 DEF MarkBufferDirtyHint, AtWork, HasBuffer, Pinning, Holding
  <2>2. /\ UNCHANGED <<tag, valid, content, disk, log, cur>> /\ pc'[p] \in {"shared", "hintdirty"}
        /\ \A b \in Buffers : (dirty[b] => dirty'[b]) /\ (just_dirtied[b] => just_dirtied'[b])
        /\ pc'[p] = "shared" => dirty'[cur[p]] /\ just_dirtied'[cur[p]]
    BY Zenon, <1>0, <1>7, <2>1 DEF MarkBufferDirtyHint, Go, hdr, wal, loc, Typed, HeadersTyped,
        LocalsTyped
  <2>3. HintsKept
    BY SMTT(40), Z3T(40), <1>0, <2>1, <2>2 DEF HintsKept, HintPending, Local
  <2>4. Written(p)'
    BY Zenon, <2>2 DEF Written
  <2> QED
    BY Zenon, <1>0, <2>2, <2>3, <2>4, ContentQuiet
<1>8. CASE SetHintDirty(p)
  <2>1. cur[p] \in Buffers /\ pc[p] \in {"hint", "hintdirty"}
    BY Zenon, <1>0, <1>8 DEF SetHintDirty, AtWork, HasBuffer, Pinning, Holding
  <2>2. /\ UNCHANGED <<tag, valid, content, disk, log, cur>> /\ pc'[p] \in {"shared", "hintdirty"}
        /\ \A b \in Buffers : (dirty[b] => dirty'[b]) /\ (just_dirtied[b] => just_dirtied'[b])
        /\ pc'[p] = "shared" => dirty'[cur[p]] /\ just_dirtied'[cur[p]]
    BY Zenon, <1>0, <1>8, <2>1 DEF SetHintDirty, Go, hdr, wal, loc, Typed, HeadersTyped,
        LocalsTyped
  <2>3. HintsKept
    BY SMTT(40), Z3T(40), <1>0, <2>1, <2>2 DEF HintsKept, HintPending, Local
  <2>4. Written(p)'
    BY Zenon, <2>2 DEF Written
  <2> QED
    BY <1>0, <2>2, <2>3, <2>4, ContentQuiet
<1>9. CASE InvalidateBuffer(p)
  <2>1. cur[p] \in Buffers /\ pc[p] = "invalidate"
    BY Zenon, <1>0, <1>9 DEF InvalidateBuffer, AtWork, HasBuffer, Pinning, Holding, Writing,
        Reading, AtVictim
  <2>2. HintsKept
    BY <1>0, <2>1, HintsStay
  <2>3. CASE tag[cur[p]] = want[p] /\ pins[cur[p]] = {}
    <3>1. /\ \A c \in Buffers \ {cur[p]} :
                 UNCHANGED <<tag[c], valid[c], content[c], dirty[c], just_dirtied[c]>>
          /\ UNCHANGED <<disk, log, cur>> /\ pc'[p] = "dropdelete" /\ ~ valid'[cur[p]]
          /\ content' = [content EXCEPT ![cur[p]] = Garbage]
      BY Zenon, <1>0, <1>9, <2>1, <2>3 DEF InvalidateBuffer, ClearBuffer, Go, wal, loc,
          ContentInv, Storage, Typed, HeadersTyped, LocalsTyped
    <3>2. Storage' /\ Len(log) <= Len(log')
      <4>1. Len(log) \in Nat
        BY SMTT(40), Z3T(40) DEF ContentInv, Storage
      <4>2. content' = [b \in Buffers |-> content'[b]]
        BY Zenon, <3>1 DEF ContentInv, Storage
      <4> QED
        BY SMTT(40), Z3T(40), <3>1, <4>1, <4>2 DEF ContentInv, Storage, IsImage
    <3>3. Stored(cur[p])' /\ Written(p)'
      BY Zenon, <3>1 DEF Stored, Written
    <3>4. \A q \in Procs \ {p} : pc[q] \in {"endwrite", "dirtied"} => cur[q] # cur[p]
      BY Zenon, <2>3, WritersPin DEF StillVictim
    <3> QED
      BY Zenon, <1>0, <2>1, <2>2, <3>1, <3>2, <3>3, <3>4, ContentAt
  <2>4. CASE ~ (tag[cur[p]] = want[p] /\ pins[cur[p]] = {})
    <3>1. UNCHANGED <<tag, valid, content, disk, log, dirty, just_dirtied>>
          /\ pc'[p] \notin {"endwrite", "dirtied"}
      BY Zenon, <1>0, <1>9, <2>4 DEF InvalidateBuffer, flags, wal, RetryPinned, Go, Typed,
          LocalsTyped
    <3> QED
      BY Zenon, <1>0, <2>2, <3>1, ContentQuiet DEF Written
  <2> QED
    BY Zenon, <2>3, <2>4
<1>10. CASE \/ StrategyGetBuffer(p) \/ TryFreeBuffer(p) \/ ClockSweepTick(p)
  <2>1. UNCHANGED <<tag, valid, content, disk, log, dirty, just_dirtied>>
    BY Zenon, <1>0, <1>10 DEF StrategyGetBuffer, TryFreeBuffer, ClockSweepTick, hdr, flags,
        wal
  <2>2. pc[p] \notin {"hint", "hintdirty"} /\ pc'[p] \notin {"endwrite", "dirtied"}
    BY Zenon, <1>0, <1>10 DEF StrategyGetBuffer, TryFreeBuffer, ClockSweepTick, ClaimVictim,
        Go, KeepsOuter, Unpinning, Typed, LocalsTyped
  <2> QED
    BY <1>0, <2>1, <2>2, ContentSame
<1>11. CASE \/ TrySweptBuffer(p) \/ LockVictim(p) \/ DeleteVictimMapping(p)
  <2>1. UNCHANGED <<tag, valid, content, disk, log, dirty, just_dirtied>>
    BY Zenon, <1>0, <1>11 DEF TrySweptBuffer, LockVictim, DeleteVictimMapping, hdr, flags,
        wal
  <2>2. pc[p] \notin {"hint", "hintdirty"} /\ pc'[p] \notin {"endwrite", "dirtied"}
    BY Zenon, <1>0, <1>11 DEF TrySweptBuffer, LockVictim, DeleteVictimMapping, UnpinThen,
        ClaimVictim, VictimLocked, Go, KeepsOuter, Unpinning, Typed, LocalsTyped
  <2> QED
    BY <1>0, <2>1, <2>2, ContentSame
<1>12. CASE \/ FreeVictim(p) \/ PinExisting(p) \/ StartInput(p)
  <2>1. UNCHANGED <<tag, valid, content, disk, log, dirty, just_dirtied>>
    BY Zenon, <1>0, <1>12 DEF FreeVictim, PinExisting, StartInput, hdr, flags, wal
  <2>2. pc[p] \notin {"hint", "hintdirty"} /\ pc'[p] \notin {"endwrite", "dirtied"}
    BY Zenon, <1>0, <1>12 DEF FreeVictim, PinExisting, StartInput, AfterPin, Go, KeepsOuter,
        Unpinning, Typed, LocalsTyped
  <2> QED
    BY <1>0, <2>1, <2>2, ContentSame
<1>13. CASE \/ LockShare(p) \/ LockExclusive(p) \/ UnlockBuffer(p) \/ ReleaseBuffer(p)
  <2>1. UNCHANGED <<tag, valid, content, disk, log, dirty, just_dirtied>>
    BY Zenon, <1>0, <1>13 DEF LockShare, LockExclusive, UnlockBuffer, ReleaseBuffer, hdr, wal
  <2>2. pc[p] \notin {"hint", "hintdirty"} /\ pc'[p] \notin {"endwrite", "dirtied"}
    BY Zenon, <1>0, <1>13 DEF LockShare, LockExclusive, UnlockBuffer, ReleaseBuffer,
        UnpinThen, Go, KeepsOuter, Unpinning, Typed, LocalsTyped
  <2> QED
    BY <1>0, <2>1, <2>2, ContentSame
<1>14. CASE \/ LockBufferForCleanup(p) \/ CheckCleanup(p) \/ UnlockForWait(p)
            \/ WakeUp(p) \/ AfterWait(p)
  <2>1. UNCHANGED <<tag, valid, content, disk, log, dirty, just_dirtied>>
    BY Zenon, <1>0, <1>14 DEF LockBufferForCleanup, CheckCleanup, UnlockForWait, WakeUp,
        AfterWait, hdr, flags, wal
  <2>2. pc[p] \notin {"hint", "hintdirty"} /\ pc'[p] \notin {"endwrite", "dirtied"}
    BY Zenon, <1>0, <1>14 DEF LockBufferForCleanup, CheckCleanup, UnlockForWait, WakeUp,
        AfterWait, Go, KeepsOuter, Unpinning, Typed, LocalsTyped
  <2> QED
    BY <1>0, <2>1, <2>2, ContentSame
<1>15. CASE \/ DropRelationBuffers(p) \/ WaitIO(p) \/ DeleteDropped(p) \/ FreeDropped(p)
  <2>1. UNCHANGED <<tag, valid, content, disk, log, dirty, just_dirtied>>
    BY Zenon, <1>0, <1>15 DEF DropRelationBuffers, WaitIO, DeleteDropped, FreeDropped, hdr,
        wal
  <2>2. pc[p] \notin {"hint", "hintdirty"} /\ pc'[p] \notin {"endwrite", "dirtied"}
    BY Zenon, <1>0, <1>15 DEF DropRelationBuffers, WaitIO, DeleteDropped, FreeDropped, Go,
        KeepsOuter, Unpinning, Typed, LocalsTyped
  <2> QED
    BY <1>0, <2>1, <2>2, ContentSame
<1>16. ASSUME NEW t \in Pages, BufferAlloc(p, t)
      PROVE  ContentInv'
  <2>1. UNCHANGED <<tag, valid, content, disk, log, dirty, just_dirtied>>
    BY Zenon, <1>0, <1>16 DEF BufferAlloc, flags, wal
  <2>2. pc[p] \notin {"hint", "hintdirty"} /\ pc'[p] \notin {"endwrite", "dirtied"}
    BY Zenon, <1>0, <1>16 DEF BufferAlloc, AfterPin, MayRead, Go, KeepsOuter, Unpinning,
        Typed, LocalsTyped
  <2> QED
    BY Zenon, <1>0, <2>1, <2>2, ContentSame
<1>17. ASSUME NEW t \in Pages, DropRelation(p, t)
      PROVE  ContentInv'
  <2>1. UNCHANGED <<tag, valid, content, disk, log, dirty, just_dirtied>>
    BY Zenon, <1>0, <1>17 DEF DropRelation, hdr, wal
  <2>2. pc[p] \notin {"hint", "hintdirty"} /\ pc'[p] \notin {"endwrite", "dirtied"}
    BY Zenon, <1>0, <1>17 DEF DropRelation, Go, KeepsOuter, Unpinning, Typed, LocalsTyped
  <2> QED
    BY <1>0, <2>1, <2>2, ContentSame
<1> QED
  BY ZenonT(40), <1>1, <1>2, <1>3, <1>4, <1>5, <1>6, <1>7, <1>8, <1>9, <1>10, <1>11, <1>12,
      <1>13, <1>14, <1>15, <1>16, <1>17 DEF Backend

\* Page contents, in the steps of the checkpointer.
LEMMA ContentCheckpoint ==
    ASSUME Typed, MapInv, LockInv, IoInv, ContentInv, Checkpoint
    PROVE  ContentInv'
<1>0. /\ Checkpointer \in Procs /\ AtWork(Checkpointer) /\ KeepsOuter(Checkpointer)
      /\ Local(Checkpointer)
  BY Zenon, LocalCheckpoint DEF MapInv, Procs
<1>1. CASE \/ CreateCheckPoint \/ MarkForCheckpoint \/ BufferSync \/ SyncOneBuffer
           \/ EndCheckPoint
  <2>1. UNCHANGED <<tag, valid, content, disk, log, dirty, just_dirtied>>
    BY Zenon, <1>0, <1>1 DEF CreateCheckPoint, MarkForCheckpoint, BufferSync, SyncOneBuffer,
        EndCheckPoint, hdr, flags, wal
  <2>2. pc[Checkpointer] \notin {"hint", "hintdirty"}
        /\ pc'[Checkpointer] \notin {"endwrite", "dirtied"}
    BY Zenon, <1>0, <1>1 DEF CreateCheckPoint, MarkForCheckpoint, BufferSync, SyncOneBuffer,
        EndCheckPoint, Go, KeepsOuter, Unpinning, Typed, LocalsTyped
  <2> QED
    BY <1>0, <2>1, <2>2, ContentSame
<1> QED
  BY Zenon, <1>1 DEF Checkpoint

\* Page contents, in every step.
LEMMA ContentInvStep ==
    ASSUME Typed, MapInv, LockInv, IoInv, ContentInv, [Next]_vars
    PROVE  ContentInv'
<1>1. CASE UNCHANGED vars
  <2>1. UNCHANGED <<tag, valid, dirty, just_dirtied, content, disk, log, pc, cur>>
    BY Zenon, <1>1 DEF vars, hdr, wal, loc
  <2>2. \A b \in Buffers : HintPending(b)' <=> HintPending(b)
    BY Zenon, <2>1 DEF HintPending
  <2>3. Storage'
    BY Zenon, <2>1 DEF ContentInv, Storage, IsImage
  <2>4. \A b \in Buffers : Stored(b)'
    BY Zenon, <2>1, <2>2 DEF ContentInv, Stored, IsImage
  <2>5. \A p \in Procs : Written(p)'
    BY Zenon, <2>1, <2>2, WritersPin DEF ContentInv, Written
  <2> QED
    BY Zenon, <2>3, <2>4, <2>5 DEF ContentInv
<1> QED
  BY Zenon, <1>1, ContentShared, ContentBackend, ContentCheckpoint DEF Next, Finished

\* The inductive invariant, with page contents.
PoolInv == BaseInv /\ ContentInv

\* Every step preserves it.
LEMMA PoolStep == PoolInv /\ [Next]_vars => PoolInv'
  BY BaseStep, ContentInvStep DEF PoolInv, BaseInv

-----------------------------------------------------------------------------
(* The pool implements PageStore. *)

\* A page in a valid buffer has the contents of that buffer, before and after a step.
LEMMA CurrentOf ==
    ASSUME MappingSound, NEW t \in Pages, t \notin dropped,
           NEW b \in Buffers, tag[b] = t, valid[b]
    PROVE  Current(t) = content[b]
<1>1. \A c \in Buffers : tag[c] = t => c = b
  BY Zenon, NoneIsNone DEF MappingSound
<1>2. (CHOOSE c \in Buffers : tag[c] = t /\ valid[c]) = b
  BY <1>1
<1> QED
  BY Zenon, <1>2 DEF Current

\* The same, after a step.
LEMMA CurrentOfNext ==
    ASSUME MappingSound', NEW t \in Pages, t \notin dropped',
           NEW b \in Buffers, tag'[b] = t, valid'[b]
    PROVE  Current(t)' = content'[b]
<1>1. \A c \in Buffers : tag'[c] = t => c = b
  BY Zenon, NoneIsNone DEF MappingSound
<1>2. (CHOOSE c \in Buffers : tag'[c] = t /\ valid'[c]) = b
  BY <1>1
<1> QED
  BY Zenon, <1>2 DEF Current

\* A page in no valid buffer has the contents of its file.
LEMMA CurrentFile ==
    ASSUME NEW t \in Pages, t \notin dropped, \A b \in Buffers : ~ (tag[b] = t /\ valid[b])
    PROVE  Current(t) = disk[t]
  BY Zenon DEF Current

\* The same, after a step.
LEMMA CurrentFileNext ==
    ASSUME NEW t \in Pages, t \notin dropped', \A b \in Buffers : ~ (tag'[b] = t /\ valid'[b])
    PROVE  Current(t)' = disk'[t]
  BY Zenon DEF Current

\* The step leaves what readers of page t see.
KeepsPage(t) ==
    /\ t \in dropped' <=> t \in dropped
    /\ t \notin dropped =>
          /\ disk'[t] = disk[t]
          /\ \A b \in Buffers : /\ (tag'[b] = t /\ valid'[b]) <=> (tag[b] = t /\ valid[b])
                                /\ tag[b] = t /\ valid[b] => content'[b] = content[b]

\* It does.
LEMMA PageKept ==
    ASSUME MappingSound, MappingSound', NEW t \in Pages, KeepsPage(t)
    PROVE  Current(t)' = Current(t)
<1>1. CASE t \in dropped
  BY Zenon, <1>1 DEF KeepsPage, Current
<1>2. CASE t \notin dropped /\ \E b \in Buffers : tag[b] = t /\ valid[b]
  <2>1. PICK b \in Buffers : tag[b] = t /\ valid[b]
    BY <1>2
  <2>2. Current(t) = content[b]
    BY Zenon, <1>2, <2>1, CurrentOf
  <2>3. t \notin dropped' /\ content'[b] = content[b]
    BY Zenon, <1>2, <2>1 DEF KeepsPage
  <2>4. tag'[b] = t /\ valid'[b]
    BY Zenon, <1>2, <2>1 DEF KeepsPage
  <2> QED
    BY <2>2, <2>3, <2>4, CurrentOfNext
<1>3. CASE t \notin dropped /\ ~ \E b \in Buffers : tag[b] = t /\ valid[b]
  <2>1. Current(t) = disk[t]
    BY Zenon, <1>3, CurrentFile
  <2>2. t \notin dropped' /\ disk'[t] = disk[t]
    BY Zenon, <1>3 DEF KeepsPage
  <2>3. \A b \in Buffers : ~ (tag'[b] = t /\ valid'[b])
    BY Zenon, <1>3 DEF KeepsPage
  <2> QED
    BY <2>1, <2>2, <2>3, CurrentFileNext
<1> QED
  BY <1>1, <1>2, <1>3

\* Readers see no difference.
SamePages == UNCHANGED dropped /\ \A t \in Pages : Current(t)' = Current(t)

\* Such a step is a stuttering step of PageStore.
LEMMA StoreStutters ==
    ASSUME SamePages
    PROVE  UNCHANGED Store!vars
<1>1. [t \in Pages |-> Current(t)]' = [t \in Pages |-> Current(t)]
  BY DEF SamePages
<1> QED
  BY Zenon, <1>1 DEF SamePages, Store!vars

\* A step that touches no page, file or tag is one.
LEMMA PagesUntouched ==
    ASSUME UNCHANGED <<tag, valid, content, disk, dropped>>
    PROVE  SamePages
  BY Zenon DEF Current, SamePages

\* A step that changes one page.
LEMMA OnePage ==
    ASSUME NEW t \in Pages, NEW x, Current(t)' = x,
           \A u \in Pages \ {t} : Current(u)' = Current(u)
    PROVE  [u \in Pages |-> Current(u)]' = [[u \in Pages |-> Current(u)] EXCEPT ![t] = x]
<1> DEFINE F == [u \in Pages |-> Current(u)]
           G == [u \in Pages |-> Current(u)']
<1>1. \A u \in Pages : G[u] = [F EXCEPT ![t] = x][u]
  <2>1. \A u \in Pages : F[u] = Current(u) /\ G[u] = Current(u)'
    OBVIOUS
  <2>2. DOMAIN F = Pages
    OBVIOUS
  <2> HIDE DEF F, G
  <2> QED
    BY <2>1, <2>2
<1>2. G = [u \in Pages |-> G[u]] /\ [F EXCEPT ![t] = x] = [u \in Pages |-> [F EXCEPT ![t] = x][u]]
  BY Zenon
<1>3. G = [F EXCEPT ![t] = x]
  <2> HIDE DEF F, G
  <2> QED
    BY <1>1, <1>2
<1> QED
  BY <1>3

\* GetVictimBuffer evicts a clean page: the file has what the buffer had.
LEMMA EvictionUnseen ==
    ASSUME PoolInv, PoolInv', NEW p \in Procs, InvalidateVictimBuffer(p)
    PROVE  SamePages
<1> DEFINE b == cur[p]
<1>1. CASE StillVictim(p, b)
  <2>1. /\ tag' = [tag EXCEPT ![b] = NoPage] /\ valid' = [valid EXCEPT ![b] = FALSE]
        /\ content' = [content EXCEPT ![b] = Garbage]
        /\ UNCHANGED <<disk, dropped>> /\ pins[b] = {p} /\ ~ dirty[b] /\ pc[p] = "inval"
    BY Zenon, <1>1 DEF InvalidateVictimBuffer, StillVictim, ClearBuffer, rels
  <2>2. b \in Buffers /\ MappingSound /\ MappingSound' /\ Stored(b)
    BY Zenon, <2>1 DEF PoolInv, BaseInv, MapInv, AtWork, HasBuffer, Pinning, AtVictim, ContentInv
  <2>3. ~ HintPending(b)
    <3>1. ASSUME NEW q \in Procs, pc[q] \in {"hint", "hintdirty"}, cur[q] = b
          PROVE  q \in pins[b]
      BY Zenon, <3>1 DEF PoolInv, BaseInv, MapInv, AtWork, Pinning, Holding
    <3> QED
      BY Zenon, <2>1, <3>1 DEF HintPending
  <2>4. valid[b] => content[b] = disk[tag[b]]
    BY Zenon, <2>1, <2>2, <2>3 DEF Stored
  <2>5. \A c \in Buffers \ {b} : UNCHANGED <<tag[c], valid[c], content[c]>>
    BY Zenon, <2>1, <2>2 DEF PoolInv, BaseInv, Typed, HeadersTyped, ContentInv, Storage
  <2>6. tag'[b] = NoPage
    BY Zenon, <2>1, <2>2 DEF PoolInv, BaseInv, Typed, HeadersTyped
  <2>7. ASSUME NEW t \in Pages
        PROVE  Current(t)' = Current(t)
    <3>1. CASE t \in dropped \/ tag[b] # t
      <4>1. KeepsPage(t)
        BY Zenon, <2>1, <2>5, <2>6, <3>1, NoneIsNone DEF KeepsPage
      <4> QED
        BY <2>2, <4>1, PageKept
    <3>2. CASE t \notin dropped /\ tag[b] = t
      <4>1. \A c \in Buffers \ {b} : tag[c] # t
        BY Zenon, <2>2, <3>2, NoneIsNone DEF MappingSound
      <4>2. Current(t)' = disk[t]
        <5>1. t \notin dropped' /\ disk'[t] = disk[t]
          BY Zenon, <2>1, <3>2
        <5>2. \A c \in Buffers : ~ (tag'[c] = t /\ valid'[c])
          BY Zenon, <2>5, <2>6, <4>1, NoneIsNone
        <5> QED
          BY <5>1, <5>2, CurrentFileNext
      <4>3. Current(t) = disk[t]
        <5>1. CASE valid[b]
          BY Zenon, <2>2, <2>4, <3>2, <5>1, CurrentOf
        <5>2. CASE ~ valid[b]
          BY <2>2, <3>2, <4>1, <5>2, CurrentFile
        <5> QED
          BY <5>1, <5>2
      <4> QED
        BY <4>2, <4>3
    <3> QED
      BY <3>1, <3>2
  <2> QED
    BY Zenon, <2>1, <2>7 DEF SamePages
<1>2. CASE ~ StillVictim(p, b)
  <2>1. UNCHANGED <<tag, valid, content, disk, dropped>>
    BY Zenon, <1>2 DEF InvalidateVictimBuffer, flags, rels
  <2> QED
    BY <2>1, PagesUntouched
<1> QED
  BY <1>1, <1>2

\* DropRelationBuffers clears only buffers of a page that is dropped already.
LEMMA InvalidationUnseen ==
    ASSUME PoolInv, PoolInv', NEW p \in Procs, InvalidateBuffer(p)
    PROVE  SamePages
<1> DEFINE b == cur[p]
<1>1. CASE tag[b] = want[p] /\ pins[b] = {}
  <2>1. /\ tag' = [tag EXCEPT ![b] = NoPage] /\ valid' = [valid EXCEPT ![b] = FALSE]
        /\ content' = [content EXCEPT ![b] = Garbage]
        /\ UNCHANGED <<disk, dropped>> /\ pc[p] = "invalidate"
    BY Zenon, <1>1 DEF InvalidateBuffer, ClearBuffer, rels
  <2>2. b \in Buffers /\ MappingSound /\ MappingSound' /\ tag[b] \in dropped
    BY Zenon, <1>1, <2>1 DEF PoolInv, BaseInv, MapInv, AtWork, HasBuffer, DropInv, DropsAlone,
        Dropping
  <2>3. \A c \in Buffers \ {b} : UNCHANGED <<tag[c], valid[c], content[c]>>
    BY Zenon, <2>1, <2>2 DEF PoolInv, BaseInv, Typed, HeadersTyped, ContentInv, Storage
  <2>4. tag'[b] = NoPage
    BY ZenonT(40), <2>1, <2>2 DEF PoolInv, BaseInv, Typed, HeadersTyped
  <2>5. \A t \in Pages : KeepsPage(t)
    BY SMTT(40), Z3T(40), <2>1, <2>2, <2>3, <2>4, NoneIsNone DEF KeepsPage
  <2> QED
    BY Zenon, <2>1, <2>2, <2>5, PageKept DEF SamePages
<1>2. CASE ~ (tag[b] = want[p] /\ pins[b] = {})
  <2>1. UNCHANGED <<tag, valid, content, disk, dropped>>
    BY Zenon, <1>2 DEF InvalidateBuffer, flags, rels
  <2> QED
    BY <2>1, PagesUntouched
<1> QED
  BY <1>1, <1>2

\* BufTableInsert gives the new tag to a buffer that is not valid yet.
LEMMA InsertUnseen ==
    ASSUME PoolInv, PoolInv', NEW p \in Procs, BufTableInsert(p)
    PROVE  SamePages
<1> DEFINE b == cur[p]
<1>1. CASE ~ Collision(want[p])
  <2>1. /\ tag' = [tag EXCEPT ![b] = want[p]]
        /\ UNCHANGED <<valid, content, disk, dropped>> /\ pc[p] = "insert"
    BY Zenon, <1>1 DEF BufTableInsert, flags, rels
  <2>2. b \in Buffers /\ MappingSound /\ MappingSound' /\ ~ valid[b]
    BY Zenon, <2>1 DEF PoolInv, BaseInv, MapInv, Headers, AtWork, HasBuffer, Pinning, AtVictim
  <2>3. \A c \in Buffers \ {b} : tag'[c] = tag[c]
    BY Zenon, <2>1, <2>2 DEF PoolInv, BaseInv, Typed, HeadersTyped
  <2>4. \A t \in Pages : KeepsPage(t)
    BY Zenon, <2>1, <2>2, <2>3 DEF KeepsPage
  <2> QED
    BY Zenon, <2>1, <2>2, <2>4, PageKept DEF SamePages
<1>2. CASE Collision(want[p])
  <2>1. UNCHANGED <<tag, valid, content, disk, dropped>>
    BY Zenon, <1>2 DEF BufTableInsert, flags, rels
  <2> QED
    BY <2>1, PagesUntouched
<1> QED
  BY <1>1, <1>2

\* A page that is read in has the contents of its file.
LEMMA ReadUnseen ==
    ASSUME PoolInv, PoolInv', NEW p \in Procs, ReadPage(p)
    PROVE  SamePages
<1> DEFINE b == cur[p]
<1>1. /\ content' = [content EXCEPT ![b] = disk[tag[b]]] /\ valid' = [valid EXCEPT ![b] = TRUE]
      /\ UNCHANGED <<tag, disk, dropped>> /\ pc[p] = "read"
  BY Zenon DEF ReadPage, rels
<1>2. /\ b \in Buffers /\ MappingSound /\ MappingSound' /\ ~ valid[b]
      /\ tag[b] \in Pages
  BY Zenon, <1>1 DEF PoolInv, BaseInv, MapInv, AtWork, HasBuffer, Pinning, Reading, IoInv
<1>3. /\ \A c \in Buffers \ {b} : UNCHANGED <<valid[c], content[c]>>
      /\ valid'[b] /\ content'[b] = disk[tag[b]]
  BY Zenon, <1>1, <1>2 DEF PoolInv, BaseInv, Typed, HeadersTyped, ContentInv, Storage
<1>4. ASSUME NEW t \in Pages
      PROVE  Current(t)' = Current(t)
  <2>1. CASE t \in dropped \/ tag[b] # t
    <3>1. KeepsPage(t)
      BY Zenon, <1>1, <1>3, <2>1 DEF KeepsPage
    <3> QED
      BY Zenon, <1>2, <3>1, PageKept
  <2>2. CASE t \notin dropped /\ tag[b] = t
    <3>1. \A c \in Buffers : ~ (tag[c] = t /\ valid[c])
      BY SMTT(40), Z3T(40), <1>2, <2>2, NoneIsNone DEF MappingSound
    <3>2. Current(t) = disk[t]
      BY Zenon, <2>2, <3>1, CurrentFile
    <3>3. t \notin dropped' /\ tag'[b] = t /\ valid'[b]
      BY Zenon, <1>1, <1>3, <2>2
    <3>4. Current(t)' = content'[b]
      BY Zenon, <1>2, <3>3, CurrentOfNext
    <3> QED
      BY Zenon, <1>3, <2>2, <3>2, <3>4
  <2> QED
    BY <2>1, <2>2
<1> QED
  BY Zenon, <1>1, <1>4 DEF SamePages

\* A write changes the file of a page whose buffer readers look at.
LEMMA WriteUnseen ==
    ASSUME PoolInv, PoolInv', NEW p \in Procs, WritePage(p)
    PROVE  SamePages
<1> DEFINE b == cur[p]
<1>1. /\ disk' = [disk EXCEPT ![tag[b]] = content[b]]
      /\ UNCHANGED <<tag, valid, content, dropped>> /\ pc[p] = "write"
  BY Zenon DEF WritePage, hdr, rels
<1>2. b \in Buffers /\ MappingSound /\ MappingSound' /\ valid[b]
  BY Zenon, <1>1 DEF PoolInv, BaseInv, MapInv, AtWork, HasBuffer, Pinning, Writing
<1>3. \A t \in Pages : t # tag[b] => disk'[t] = disk[t]
  BY Zenon, <1>1 DEF PoolInv, ContentInv, Storage
<1>4. ASSUME NEW t \in Pages
      PROVE  Current(t)' = Current(t)
  <2>1. CASE t \in dropped \/ tag[b] # t
    <3>1. KeepsPage(t)
      BY Zenon, <1>1, <1>3, <2>1 DEF KeepsPage
    <3> QED
      BY Zenon, <1>2, <3>1, PageKept
  <2>2. CASE t \notin dropped /\ tag[b] = t
    <3>1. Current(t) = content[b]
      BY Zenon, <1>2, <2>2, CurrentOf
    <3>2. t \notin dropped' /\ tag'[b] = t /\ valid'[b] /\ content'[b] = content[b]
      BY ZenonT(40), <1>1, <1>2, <2>2
    <3> QED
      BY Zenon, <1>2, <3>1, <3>2, CurrentOfNext
  <2> QED
    BY <2>1, <2>2
<1> QED
  BY Zenon, <1>1, <1>4 DEF SamePages

\* A step that changes the contents of one valid buffer changes that page.
LEMMA ContentSeen ==
    ASSUME PoolInv, PoolInv', NEW p \in Procs, HasPage(p), NEW t, t = want[p], NEW x,
           content' = [content EXCEPT ![cur[p]] = x], UNCHANGED <<tag, valid, disk, dropped>>
    PROVE  /\ t \in Pages /\ t \notin dropped
           /\ Current(t) = content[cur[p]] /\ IsImage(content[cur[p]])
           /\ Current(t)' = x
           /\ \A u \in Pages \ {t} : Current(u)' = Current(u)
<1> DEFINE b == cur[p]
<1>1. pc[p] \in Holding /\ pc[p] \in Pinning /\ pc[p] \in HasBuffer /\ pc[p] \notin Dropping
  BY Zenon DEF HasPage, Holding, Pinning, HasBuffer, Dropping
<1>2. /\ b \in Buffers /\ t \in Pages /\ tag[b] = t /\ valid[b]
      /\ MappingSound /\ MappingSound'
  BY Zenon, <1>1 DEF PoolInv, BaseInv, MapInv, AtWork
<1>3. t \notin dropped /\ IsImage(content[b])
  BY SMTT(40), Z3T(40), <1>1, <1>2, NoneIsNone DEF PoolInv, BaseInv, DropInv, DropsAlone,
  ContentInv,
      Stored
<1>4. content'[b] = x /\ \A c \in Buffers \ {b} : content'[c] = content[c]
  BY Zenon, <1>2 DEF PoolInv, ContentInv, Storage
<1>5. Current(t) = content[b]
  BY Zenon, <1>2, <1>3, CurrentOf
<1>6. Current(t)' = content'[b]
  <2>1. t \notin dropped' /\ tag'[b] = t /\ valid'[b]
    BY Zenon, <1>2, <1>3
  <2> QED
    BY Zenon, <1>2, <2>1, CurrentOfNext
<1>7. ASSUME NEW u \in Pages \ {t}
      PROVE  Current(u)' = Current(u)
  <2>1. KeepsPage(u)
    BY Zenon, <1>2, <1>4 DEF KeepsPage
  <2> QED
    BY Zenon, <1>2, <2>1, PageKept
<1> QED
  BY Zenon, <1>2, <1>3, <1>4, <1>5, <1>6, <1>7

\* XLogInsert and PageSetLSN are the logged change of PageStore.
LEMMA LogChangeSeen ==
    ASSUME PoolInv, PoolInv', NEW p \in Procs, LogChange(p)
    PROVE  Store!Next
<1> DEFINE F == [u \in Pages |-> Current(u)]
<1>0. PICK t, x : t = want[p] /\ x = [lsn |-> Len(log) + 1, hint |-> FALSE]
  BY Zenon
<1>1. /\ content' = [content EXCEPT ![cur[p]] = x] /\ UNCHANGED <<tag, valid, disk, dropped>>
      /\ HasPage(p)
  BY Zenon, <1>0 DEF LogChange, hdr, rels, HasPage
<1>2. /\ t \in Pages /\ t \notin dropped
      /\ Current(t) = content[cur[p]] /\ IsImage(content[cur[p]])
      /\ Current(t)' = x
      /\ \A u \in Pages \ {t} : Current(u)' = Current(u)
  BY Zenon, <1>0, <1>1, ContentSeen
<1>3. Current(t).lsn \in Nat /\ Current(t).lsn <= Len(log) /\ Len(log) \in Nat
  BY SMTT(40), Z3T(40), <1>2 DEF IsImage, PoolInv, ContentInv, Storage
<1>4. F' = [F EXCEPT ![t] = x]
  BY Zenon, <1>2, OnePage
<1>5. F[t] = Current(t) /\ F'[t] = x
  BY Zenon, <1>2
<1>6. /\ F'[t].lsn \in Nat /\ F'[t].lsn > F[t].lsn
      /\ x = [lsn |-> F'[t].lsn, hint |-> FALSE]
  <2> HIDE DEF F
  <2> QED
    BY SMTT(40), Z3T(40), <1>0, <1>3, <1>5
<1>7. Store!Change(t)
  BY Zenon, <1>1, <1>2, <1>4, <1>6 DEF Store!Change
<1> QED
  BY Zenon, <1>2, <1>7 DEF Store!Next

\* A hint bit set under the share lock is the hint of PageStore.
LEMMA SetHintSeen ==
    ASSUME PoolInv, PoolInv', NEW p \in Procs, SetHint(p)
    PROVE  Store!Next
<1> DEFINE F == [u \in Pages |-> Current(u)]
<1>0. PICK t, x : t = want[p] /\ x = [lsn |-> content[cur[p]].lsn, hint |-> TRUE]
  BY Zenon
<1>1. /\ content' = [content EXCEPT ![cur[p]] = x] /\ UNCHANGED <<tag, valid, disk, dropped>>
      /\ HasPage(p)
  BY Zenon, <1>0 DEF SetHint, hdr, rels, HasPage
<1>2. /\ t \in Pages /\ t \notin dropped
      /\ Current(t) = content[cur[p]] /\ Current(t)' = x
      /\ \A u \in Pages \ {t} : Current(u)' = Current(u)
  BY Zenon, <1>0, <1>1, ContentSeen
<1>3. F' = [F EXCEPT ![t] = x]
  BY Zenon, <1>2, OnePage
<1>4. F[t] = content[cur[p]]
  BY Zenon, <1>2
<1>5. Store!Hint(t)
  BY Zenon, <1>0, <1>1, <1>2, <1>3, <1>4 DEF Store!Hint
<1> QED
  BY Zenon, <1>2, <1>5 DEF Store!Next

\* DROP TABLE leaves the other pages.
LEMMA DropKeeps ==
    ASSUME PoolInv, PoolInv', NEW p \in Procs, NEW t \in Pages, DropRelation(p, t),
           NEW u \in Pages \ {t}
    PROVE  Current(u)' = Current(u)
<1>1. /\ UNCHANGED <<tag, valid, content, disk>> /\ t \notin dropped
      /\ dropped' = dropped \cup {t}
  BY Zenon DEF DropRelation, hdr
<1>2. KeepsPage(u)
  BY Zenon, <1>1 DEF KeepsPage
<1>3. MappingSound /\ MappingSound'
  BY Zenon DEF PoolInv, BaseInv, MapInv
<1> QED
  BY <1>2, <1>3, PageKept

\* DROP TABLE discards the page.
LEMMA DropSeen ==
    ASSUME PoolInv, PoolInv', NEW p \in Procs, NEW t \in Pages, DropRelation(p, t)
    PROVE  Store!Next
<1> DEFINE x == [lsn |-> 0, hint |-> FALSE]
           F == [u \in Pages |-> Current(u)]
<1>1. /\ UNCHANGED <<tag, valid, content, disk>> /\ t \notin dropped
      /\ dropped' = dropped \cup {t}
  BY Zenon DEF DropRelation, hdr
<1>2. Current(t)' = x
  BY Zenon, <1>1 DEF Current
<1>3. \A u \in Pages \ {t} : Current(u)' = Current(u)
  BY DropKeeps
<1>4. F' = [F EXCEPT ![t] = x]
  <2> HIDE DEF x
  <2> QED
    BY <1>2, <1>3, OnePage
<1>5. Store!Discard(t)
  BY Zenon, <1>1, <1>4 DEF Store!Discard
<1> QED
  BY Zenon, <1>5 DEF Store!Next

\* Every step is one that readers do not see, or a change, a hint or a drop.
LEMMA Seen ==
    ASSUME PoolInv, PoolInv', [Next]_vars
    PROVE  \/ SamePages /\ UNCHANGED log
           \/ \E p \in Procs : LogChange(p) \/ SetHint(p) \/ \E t \in Pages : DropRelation(p, t)
<1>1. CASE UNCHANGED vars
  <2>1. UNCHANGED <<tag, valid, content, disk, dropped, log>>
    BY Zenon, <1>1 DEF vars, hdr, rels, wal
  <2> QED
    BY <2>1, PagesUntouched
<1>2. ASSUME NEW p \in Procs, Shared(p)
      PROVE  SamePages /\ UNCHANGED log
  <2>1. CASE WritePage(p)
    BY Zenon, <2>1, WriteUnseen DEF WritePage, wal
  <2>2. CASE ~ WritePage(p)
    <3>1. UNCHANGED <<tag, valid, content, disk, dropped, log>>
      BY Zenon, <1>2, <2>2 DEF Shared, UnpinBuffer, WakeWaiter, SendSignal, LockForFlush,
          StartOutput, XLogFlush, EndWrite, TransferFails, AbortBufferIO, ReleasePins, hdr, flags,
          rels, wal
    <3> QED
      BY <3>1, PagesUntouched
  <2> QED
    BY <2>1, <2>2
<1>3. ASSUME NEW p \in Backends, Backend(p),
             ~ (LogChange(p) \/ SetHint(p) \/ \E t \in Pages : DropRelation(p, t))
      PROVE  SamePages /\ UNCHANGED log
  <2>0. p \in Procs
    BY DEF Procs
  <2>1. CASE InvalidateVictimBuffer(p) \/ InvalidateBuffer(p) \/ BufTableInsert(p) \/ ReadPage(p)
    <3>1. UNCHANGED log
      BY Zenon, <2>1 DEF InvalidateVictimBuffer, InvalidateBuffer, BufTableInsert, ReadPage, wal
    <3> QED
      BY <2>0, <2>1, <3>1, EvictionUnseen, InvalidationUnseen, InsertUnseen, ReadUnseen
  <2>2. CASE \/ \E t \in Pages : BufferAlloc(p, t)
             \/ StrategyGetBuffer(p) \/ TryFreeBuffer(p) \/ ClockSweepTick(p)
             \/ TrySweptBuffer(p) \/ LockVictim(p) \/ DeleteVictimMapping(p)
    <3>1. UNCHANGED <<tag, valid, content, disk, dropped, log>>
      BY Zenon, <2>2 DEF BufferAlloc, StrategyGetBuffer, TryFreeBuffer, ClockSweepTick,
          TrySweptBuffer, LockVictim, DeleteVictimMapping, hdr, flags, rels, wal
    <3> QED
      BY <3>1, PagesUntouched
  <2>3. CASE \/ FreeVictim(p) \/ PinExisting(p) \/ StartInput(p) \/ LockShare(p)
             \/ LockExclusive(p) \/ UnlockBuffer(p) \/ ReleaseBuffer(p) \/ MarkBufferDirty(p)
             \/ MarkBufferDirtyHint(p) \/ SetHintDirty(p)
    <3>1. UNCHANGED <<tag, valid, content, disk, dropped, log>>
      BY Zenon, <2>3 DEF FreeVictim, PinExisting, StartInput, LockShare, LockExclusive,
          UnlockBuffer, ReleaseBuffer, MarkBufferDirty, MarkBufferDirtyHint, SetHintDirty, hdr,
          flags, rels, wal
    <3> QED
      BY <3>1, PagesUntouched
  <2>4. CASE \/ LockBufferForCleanup(p) \/ CheckCleanup(p) \/ UnlockForWait(p) \/ WakeUp(p)
             \/ AfterWait(p) \/ DropRelationBuffers(p) \/ WaitIO(p) \/ DeleteDropped(p)
             \/ FreeDropped(p)
    <3>1. UNCHANGED <<tag, valid, content, disk, dropped, log>>
      BY Zenon, <2>4 DEF LockBufferForCleanup, CheckCleanup, UnlockForWait, WakeUp, AfterWait,
          DropRelationBuffers, WaitIO, DeleteDropped, FreeDropped, hdr, flags, rels, wal
    <3> QED
      BY <3>1, PagesUntouched
  <2> QED
    BY Zenon, <1>3, <2>1, <2>2, <2>3, <2>4 DEF Backend
<1>4. CASE Checkpoint
  <2>1. UNCHANGED <<tag, valid, content, disk, dropped, log>>
    BY Zenon, <1>4 DEF Checkpoint, CreateCheckPoint, MarkForCheckpoint, BufferSync, SyncOneBuffer,
        EndCheckPoint, hdr, flags, rels, wal
  <2> QED
    BY <2>1, PagesUntouched
<1> QED
  BY Zenon, <1>1, <1>2, <1>3, <1>4 DEF Next, Finished, Procs

\* Every step of the pool is a step of PageStore or is not seen.
LEMMA StoreStep == PoolInv /\ PoolInv' /\ [Next]_vars => [Store!Next]_(Store!vars)
<1> SUFFICES ASSUME PoolInv, PoolInv', [Next]_vars
             PROVE  Store!Next \/ UNCHANGED Store!vars
  OBVIOUS
<1> QED
  BY Seen, StoreStutters, LogChangeSeen, SetHintSeen, DropSeen

-----------------------------------------------------------------------------
(* LSNs: no page reaches its file before its log record is flushed. *)

\* LSN n is the one of a record that changes page t, or no LSN at all.
OwnLsn(t, n) == n # 0 => log[n] = t

\* How far the log is flushed and replayed from.
WalTyped == /\ flushed \in 0 .. Len(log) /\ redo \in 0 .. flushed /\ newredo \in 0 .. Len(log)

\* A page in a file is not younger than the flushed log.
FileLsn(t) == OwnLsn(t, disk[t].lsn) /\ disk[t].lsn <= flushed

\* A page in a buffer is not older than its file, and dirty if it is younger.
BufferLsn(b) ==
    valid[b] => /\ OwnLsn(tag[b], content[b].lsn)
                /\ disk[tag[b]].lsn <= content[b].lsn
                /\ content[b].lsn # disk[tag[b]].lsn => dirty[b]

\* Whoever writes a page has flushed the log up to its LSN, and its LSN does not change.
WriterLsn(p) ==
    /\ pc[p] = "write" => content[cur[p]].lsn <= flushed
    /\ pc[p] = "endwrite" => content[cur[p]].lsn = disk[tag[cur[p]]].lsn

\* No change that has been logged is lost.
AllLogged == \A t \in Pages \ dropped : \A i \in 1 .. Len(log) : log[i] = t => i <= Current(t).lsn

\* The inductive invariant of LSNs.
LsnInv == /\ WalTyped /\ AllLogged
          /\ \A t \in Pages : FileLsn(t)
          /\ \A b \in Buffers : BufferLsn(b)
          /\ \A p \in Procs : WriterLsn(p)

\* A checkpoint is being taken.
Checkpointing ==
    \/ pc[Checkpointer] \in {"mark", "sync", "syncone", "flushlock", "startout", "xlogflush",
                             "write", "endwrite"}
    \/ pc[Checkpointer] \in Unpinning /\ ret[Checkpointer] = "sync"

\* The file of the page in buffer b lacks a change from before the next redo pointer.
Behind(b) ==
    valid[b] /\ tag[b] \notin dropped
    /\ \E i \in 1 .. newredo : log[i] = tag[b] /\ i > disk[tag[b]].lsn

\* The checkpointer will still come to buffer b.
ToCome(b) ==
    \/ pc[Checkpointer] = "mark" /\ scan[Checkpointer] <= b
    \/ /\ checkpoint_needed[b]
       /\ \/ b \in todo
          \/ /\ cur[Checkpointer] = b
             /\ pc[Checkpointer] \in {"syncone", "flushlock", "startout", "xlogflush", "write"}

\* Every change before the redo pointer is in its file.
RedoDone == \A t \in Pages \ dropped : \A i \in 1 .. redo : log[i] = t => i <= disk[t].lsn

\* Every one before the next redo pointer is, or is in a buffer that the checkpointer
\* has not done with.
Pending == Checkpointing => \A b \in Buffers : Behind(b) => ToCome(b)

\* The inductive invariant of checkpoints.
CheckpointInv == /\ checkpoint_needed \in [Buffers -> BOOLEAN]
                 /\ RedoDone /\ Pending

\* The LSNs are numbers of log records.
LEMMA Lsns ==
    ASSUME PoolInv
    PROVE  /\ Len(log) \in Nat
           /\ \A t \in Pages : disk[t].lsn \in 0 .. Len(log)
           /\ \A b \in Buffers : valid[b] => tag[b] \in Pages /\ content[b].lsn \in 0 .. Len(log)
<1>1. Len(log) \in Nat
  BY SMTT(40), Z3T(40) DEF PoolInv, ContentInv, Storage
<1>2. \A t \in Pages : IsImage(disk[t])
  BY Zenon DEF PoolInv, ContentInv, Storage
<1>3. \A b \in Buffers : valid[b] => tag[b] \in Pages /\ IsImage(content[b])
  BY Zenon DEF PoolInv, BaseInv, ContentInv, Stored, MapInv, Headers, Typed, HeadersTyped
<1> QED
  BY Zenon, <1>1, <1>2, <1>3 DEF IsImage

\* A process that writes has the buffer pinned and its I/O to itself.
LEMMA WritersAlone ==
    ASSUME PoolInv, NEW p \in Procs, pc[p] \in {"write", "endwrite"}
    PROVE  /\ cur[p] \in Buffers /\ p \in pins[cur[p]] /\ valid[cur[p]] /\ DoesIO(p)
           /\ p \in share[cur[p]]
  BY Zenon DEF PoolInv, BaseInv, MapInv, AtWork, HasBuffer, Pinning, Writing, DoesIO, LockInv,
      LockedBy, Sharing

\* A step of q that leaves the pages alone and makes no buffer clean.
LEMMA LsnQuiet ==
    ASSUME PoolInv, LsnInv, NEW q \in Procs, Local(q),
           UNCHANGED <<tag, valid, content, disk, log>>,
           \A b \in Buffers : dirty[b] => dirty'[b], flushed <= flushed',
           WalTyped', AllLogged', WriterLsn(q)'
    PROVE  LsnInv'
<1>1. flushed \in Nat /\ flushed' \in Nat
  BY SMTT(40), Z3T(40), Lsns DEF LsnInv, WalTyped
<1>2. ASSUME NEW t \in Pages
      PROVE  FileLsn(t)'
  <2>1. OwnLsn(t, disk[t].lsn) /\ disk[t].lsn <= flushed /\ disk[t].lsn \in Nat
    BY SMTT(40), Z3T(40), Lsns DEF LsnInv, FileLsn
  <2>2. disk[t].lsn <= flushed'
    BY SMTT(40), Z3T(40), <1>1, <2>1
  <2> QED
    BY Zenon, <2>1, <2>2 DEF FileLsn, OwnLsn
<1>3. \A b \in Buffers : BufferLsn(b)'
  BY Zenon DEF LsnInv, BufferLsn, OwnLsn
<1>4. ASSUME NEW p \in Procs \ {q}
      PROVE  WriterLsn(p)'
  <2>1. UNCHANGED <<pc[p], cur[p]>> /\ WriterLsn(p)
    BY Zenon DEF Local, LsnInv
  <2>2. ASSUME pc[p] = "write"
        PROVE  content[cur[p]].lsn <= flushed'
    <3>1. content[cur[p]].lsn <= flushed /\ content[cur[p]].lsn \in Nat
      BY SMTT(40), Z3T(40), <2>1, <2>2, WritersAlone, Lsns DEF WriterLsn
    <3> QED
      BY SMTT(40), Z3T(40), <1>1, <3>1
  <2> QED
    BY Zenon, <2>1, <2>2 DEF WriterLsn
<1> QED
  BY Zenon, <1>2, <1>3, <1>4 DEF LsnInv

\* The files stay as they are while the log grows.
LEMMA FilesKept ==
    ASSUME PoolInv, LsnInv, UNCHANGED <<disk, flushed>>,
           \A i \in 1 .. Len(log) : log'[i] = log[i]
    PROVE  \A t \in Pages : FileLsn(t)'
<1> SUFFICES ASSUME NEW t \in Pages
             PROVE  FileLsn(t)'
  OBVIOUS
<1>1. FileLsn(t) /\ disk[t].lsn \in 0 .. Len(log)
  BY Zenon, Lsns DEF LsnInv
<1>2. disk[t].lsn # 0 => disk[t].lsn \in 1 .. Len(log)
  BY SMTT(40), Z3T(40), <1>1, Lsns
<1> QED
  BY Zenon, <1>1, <1>2 DEF FileLsn, OwnLsn

\* A step of q that changes one buffer and at most the file of its page.
LEMMA LsnAt ==
    ASSUME PoolInv, LsnInv, NEW q \in Procs, Local(q), NEW b \in Buffers,
           \A c \in Buffers \ {b} :
              /\ UNCHANGED <<tag[c], valid[c], content[c], dirty[c]>>
              /\ valid[c] => disk'[tag[c]] = disk[tag[c]],
           \A i \in 1 .. Len(log) : log'[i] = log[i], UNCHANGED flushed,
           WalTyped', AllLogged', \A t \in Pages : FileLsn(t)', BufferLsn(b)', WriterLsn(q)',
           \A p \in Procs \ {q} : pc[p] \in {"write", "endwrite"} /\ cur[p] = b => WriterLsn(p)'
    PROVE  LsnInv'
<1>1. ASSUME NEW c \in Buffers \ {b}
      PROVE  BufferLsn(c)'
  <2>1. CASE valid[c]
    <3>1. content[c].lsn # 0 => content[c].lsn \in 1 .. Len(log)
      BY SMTT(40), Z3T(40), <2>1, Lsns
    <3>2. /\ UNCHANGED <<tag[c], content[c], dirty[c]>>
          /\ disk'[tag'[c]] = disk[tag[c]] /\ BufferLsn(c)
      BY Zenon, <2>1 DEF LsnInv
    <3>3. OwnLsn(tag[c], content[c].lsn)'
      BY Zenon, <2>1, <3>1, <3>2 DEF BufferLsn, OwnLsn
    <3> QED
      BY Zenon, <2>1, <3>2, <3>3 DEF BufferLsn
  <2>2. CASE ~ valid[c]
    BY Zenon, <2>2 DEF BufferLsn
  <2> QED
    BY Zenon, <2>1, <2>2
<1>2. ASSUME NEW p \in Procs \ {q}
      PROVE  WriterLsn(p)'
  <2>1. UNCHANGED <<pc[p], cur[p]>> /\ WriterLsn(p)
    BY Zenon DEF Local, LsnInv
  <2>2. CASE pc[p] \in {"write", "endwrite"} /\ cur[p] # b
    <3>1. cur[p] \in Buffers \ {b} /\ valid[cur[p]]
      BY Zenon, <2>2, WritersAlone
    <3>2. /\ UNCHANGED <<tag[cur[p]], content[cur[p]]>>
          /\ disk'[tag[cur[p]]] = disk[tag[cur[p]]]
      BY Zenon, <2>1, <3>1
    <3> QED
      BY Zenon, <2>1, <3>2 DEF WriterLsn
  <2>3. CASE pc[p] \notin {"write", "endwrite"}
    BY Zenon, <2>1, <2>3 DEF WriterLsn
  <2> QED
    BY Zenon, <2>2, <2>3
<1> QED
  BY Zenon, <1>1, <1>2 DEF LsnInv

\* Every logged change stays in the page that readers see.
LEMMA AllLoggedStep ==
    ASSUME PoolInv, PoolInv', AllLogged, [Next]_vars
    PROVE  AllLogged'
<1>0. log \in Seq(Pages) /\ Len(log) \in Nat
  BY Zenon, Lsns DEF PoolInv, ContentInv, Storage
<1>1. CASE SamePages /\ UNCHANGED log
  BY Zenon, <1>1 DEF AllLogged, SamePages
<1>2. ASSUME NEW p \in Procs, LogChange(p)
      PROVE  AllLogged'
  <2>0. PICK t, x : t = want[p] /\ x = [lsn |-> Len(log) + 1, hint |-> FALSE]
    BY Zenon
  <2>1. /\ content' = [content EXCEPT ![cur[p]] = x] /\ UNCHANGED <<tag, valid, disk, dropped>>
        /\ HasPage(p) /\ log' = Append(log, t)
    BY Zenon, <1>2, <2>0 DEF LogChange, hdr, rels, HasPage
  <2>2. /\ t \in Pages /\ Current(t)' = x
        /\ \A u \in Pages \ {t} : Current(u)' = Current(u)
    BY Zenon, <2>0, <2>1, ContentSeen
  <2>3. /\ Len(log') = Len(log) + 1 /\ log'[Len(log) + 1] = t
        /\ \A i \in 1 .. Len(log) : log'[i] = log[i]
    BY SMTT(40), Z3T(40), <1>0, <2>1, <2>2
  <2>4. ASSUME NEW u \in Pages, u \notin dropped, NEW i \in 1 .. Len(log'), log'[i] = u
        PROVE  i <= Current(u)'.lsn
    <3>1. CASE u = t
      <4>1. Current(u)'.lsn = Len(log) + 1
        BY SMTT(40), Z3T(40), <2>0, <2>2, <3>1
      <4> QED
        BY SMTT(40), Z3T(40), <1>0, <2>3, <2>4, <4>1
    <3>2. CASE u # t
      <4>1. i \in 1 .. Len(log) /\ log[i] = u
        BY SMTT(40), Z3T(40), <1>0, <2>3, <2>4, <3>2
      <4> QED
        BY Zenon, <2>2, <2>4, <3>2, <4>1 DEF AllLogged
    <3> QED
      BY <3>1, <3>2
  <2> QED
    BY Zenon, <2>1, <2>4 DEF AllLogged
<1>3. ASSUME NEW p \in Procs, SetHint(p)
      PROVE  AllLogged'
  <2>0. PICK t, x : t = want[p] /\ x = [lsn |-> content[cur[p]].lsn, hint |-> TRUE]
    BY Zenon
  <2>1. /\ content' = [content EXCEPT ![cur[p]] = x]
        /\ UNCHANGED <<tag, valid, disk, dropped, log>>
        /\ HasPage(p)
    BY Zenon, <1>3, <2>0 DEF SetHint, hdr, rels, wal, HasPage
  <2>2. /\ t \in Pages /\ Current(t)' = x /\ Current(t) = content[cur[p]]
        /\ \A u \in Pages \ {t} : Current(u)' = Current(u)
    BY Zenon, <2>0, <2>1, ContentSeen
  <2>3. Current(t)'.lsn = Current(t).lsn
    BY SMTT(40), Z3T(40), <2>0, <2>2
  <2>4. \A u \in Pages : Current(u)'.lsn = Current(u).lsn
    BY Zenon, <2>2, <2>3
  <2> QED
    BY Zenon, <2>1, <2>4 DEF AllLogged
<1>4. ASSUME NEW p \in Procs, NEW t \in Pages, DropRelation(p, t)
      PROVE  AllLogged'
  <2>1. UNCHANGED log /\ dropped' = dropped \cup {t}
    BY Zenon, <1>4 DEF DropRelation, wal
  <2>2. \A u \in Pages \ {t} : Current(u)' = Current(u)
    BY <1>4, DropKeeps
  <2> QED
    BY Zenon, <2>1, <2>2 DEF AllLogged
<1> QED
  BY Zenon, Seen, <1>1, <1>2, <1>3, <1>4

\* A step of q that leaves pages, files and log alone and clears no mark.
Calm(q) ==
    /\ Local(q) /\ UNCHANGED <<tag, valid, content, disk, log, flushed, redo, newredo>>
    /\ dropped \subseteq dropped' /\ pc'[q] \notin {"write", "endwrite"}
    /\ \A b \in Buffers : /\ dirty[b] => dirty'[b]
                          /\ checkpoint_needed[b] => checkpoint_needed'[b]
    /\ checkpoint_needed' \in [Buffers -> BOOLEAN]
    /\ q # Checkpointer => UNCHANGED todo

\* A step of q that takes the page from a buffer, or enters a tag in an empty one.
Empties(q, b) ==
    /\ Local(q) /\ \A p \in Procs \ {q} : p \notin pins[b]
    /\ \A c \in Buffers \ {b} :
          UNCHANGED <<tag[c], valid[c], content[c], dirty[c], checkpoint_needed[c]>>
    /\ ~ valid'[b] /\ UNCHANGED <<disk, log, flushed, redo, newredo, dropped, todo>>
    /\ pc'[q] \notin {"write", "endwrite"}
    /\ checkpoint_needed' \in [Buffers -> BOOLEAN]

\* What any process does, but for writing, is calm.
LEMMA CalmShared ==
    ASSUME PoolInv, CheckpointInv, NEW p \in Procs, Shared(p), ~ XLogFlush(p), ~ WritePage(p),
           ~ EndWrite(p)
    PROVE  Calm(p)
<1>0. Typed /\ Local(p) /\ KeepsOuter(p)
  BY Zenon, LocalShared DEF PoolInv, BaseInv, MapInv
<1>1. CASE \/ UnpinBuffer(p) \/ WakeWaiter(p) \/ SendSignal(p)
  <2>1. /\ UNCHANGED <<tag, valid, content, disk, log, flushed, redo, newredo, dropped, dirty,
                       checkpoint_needed, todo>>
    BY Zenon, <1>1 DEF UnpinBuffer, WakeWaiter, SendSignal, hdr, flags, wal, rels, ckpt
  <2>2. pc'[p] \notin {"write", "endwrite"}
    BY Zenon, <1>0, <1>1 DEF UnpinBuffer, WakeWaiter, SendSignal, Return, Go, KeepsOuter,
        Unpinning, Typed, LocalsTyped
  <2> QED
    BY Zenon, <1>0, <2>1, <2>2 DEF Calm, CheckpointInv
<1>2. CASE \/ LockForFlush(p) \/ StartOutput(p) \/ TransferFails(p) \/ AbortBufferIO(p)
  <2>1. /\ UNCHANGED <<tag, valid, content, disk, log, flushed, redo, newredo, dropped, dirty,
                       checkpoint_needed, todo>>
    BY Zenon, <1>2 DEF LockForFlush, StartOutput, TransferFails, AbortBufferIO, hdr, flags, wal,
        rels, ckpt
  <2>2. pc'[p] \notin {"write", "endwrite"}
    BY Zenon, <1>0, <1>2 DEF LockForFlush, StartOutput, TransferFails, AbortBufferIO, UnpinThen,
        AfterFlush, Go, Typed, LocalsTyped
  <2> QED
    BY Zenon, <1>0, <2>1, <2>2 DEF Calm, CheckpointInv
<1>3. CASE ReleasePins(p)
  <2>1. /\ UNCHANGED <<tag, valid, content, disk, log, flushed, redo, newredo, dropped, dirty,
                       checkpoint_needed>>
        /\ p # Checkpointer => UNCHANGED todo
    BY Zenon, <1>3 DEF ReleasePins, hdr, flags, wal, rels
  <2>2. pc'[p] \notin {"write", "endwrite"}
    BY Zenon, <1>0, <1>3 DEF ReleasePins, UnpinThen, Go, Typed, LocalsTyped
  <2> QED
    BY Zenon, <1>0, <2>1, <2>2 DEF Calm, CheckpointInv
<1> QED
  BY Zenon, <1>1, <1>2, <1>3 DEF Shared

\* The steps of GetVictimBuffer and InvalidateBuffer that clear a buffer, and BufTableInsert.
LEMMA EmptiesBuffer ==
    ASSUME PoolInv, CheckpointInv, NEW p \in Backends,
           InvalidateVictimBuffer(p) \/ InvalidateBuffer(p) \/ BufTableInsert(p)
    PROVE  Calm(p) \/ (cur[p] \in Buffers /\ Empties(p, cur[p]))
<1>0. /\ p \in Procs /\ Typed /\ Local(p) /\ AtWork(p) /\ Headers
      /\ checkpoint_needed \in [Buffers -> BOOLEAN]
  BY Zenon, LocalBackend DEF PoolInv, BaseInv, MapInv, Backend, Procs, CheckpointInv
<1>1. cur[p] \in Buffers
  BY Zenon, <1>0 DEF InvalidateVictimBuffer, InvalidateBuffer, BufTableInsert, AtWork, HasBuffer,
      Pinning, AtVictim
<1>2. CASE InvalidateVictimBuffer(p)
  <2>1. CASE StillVictim(p, cur[p])
    <3>1. /\ \A c \in Buffers \ {cur[p]} :
                UNCHANGED <<tag[c], valid[c], content[c], dirty[c], checkpoint_needed[c]>>
          /\ ~ valid'[cur[p]] /\ UNCHANGED <<disk, log, flushed, redo, newredo, dropped, todo>>
          /\ checkpoint_needed' \in [Buffers -> BOOLEAN]
      BY Zenon, <1>0, <1>1, <1>2, <2>1 DEF InvalidateVictimBuffer, ClearBuffer, wal, rels, ckpt,
          Typed, HeadersTyped, PoolInv, ContentInv, Storage
    <3>2. /\ pc'[p] \notin {"write", "endwrite"} /\ \A q \in Procs \ {p} : q \notin pins[cur[p]]
      BY Zenon, <1>0, <1>2, <2>1 DEF InvalidateVictimBuffer, StillVictim, Go, Typed, LocalsTyped
    <3> QED
      BY Zenon, <1>0, <1>1, <3>1, <3>2 DEF Empties
  <2>2. CASE ~ StillVictim(p, cur[p])
    <3>1. /\ UNCHANGED <<tag, valid, content, disk, log, flushed, redo, newredo, dropped, dirty,
                         checkpoint_needed, todo>>
          /\ pc'[p] \notin {"write", "endwrite"}
      BY Zenon, <1>0, <1>2, <2>2 DEF InvalidateVictimBuffer, UnpinThen, Go, flags, wal, rels,
          ckpt, Typed, LocalsTyped
    <3> QED
      BY Zenon, <1>0, <3>1 DEF Calm
  <2> QED
    BY Zenon, <2>1, <2>2
<1>3. CASE InvalidateBuffer(p)
  <2>1. CASE tag[cur[p]] = want[p] /\ pins[cur[p]] = {}
    <3>1. /\ \A c \in Buffers \ {cur[p]} :
                UNCHANGED <<tag[c], valid[c], content[c], dirty[c], checkpoint_needed[c]>>
          /\ ~ valid'[cur[p]] /\ UNCHANGED <<disk, log, flushed, redo, newredo, dropped, todo>>
          /\ checkpoint_needed' \in [Buffers -> BOOLEAN]
      BY Zenon, <1>0, <1>1, <1>3, <2>1 DEF InvalidateBuffer, ClearBuffer, wal, rels, ckpt,
          Typed, HeadersTyped, PoolInv, ContentInv, Storage
    <3>2. /\ pc'[p] \notin {"write", "endwrite"} /\ \A q \in Procs \ {p} : q \notin pins[cur[p]]
      BY Zenon, <1>0, <1>3, <2>1 DEF InvalidateBuffer, Go, Typed, LocalsTyped
    <3> QED
      BY Zenon, <1>0, <1>1, <3>1, <3>2 DEF Empties
  <2>2. CASE ~ (tag[cur[p]] = want[p] /\ pins[cur[p]] = {})
    <3>1. /\ UNCHANGED <<tag, valid, content, disk, log, flushed, redo, newredo, dropped, dirty,
                         checkpoint_needed, todo>>
          /\ pc'[p] \notin {"write", "endwrite"}
      BY Zenon, <1>0, <1>3, <2>2 DEF InvalidateBuffer, RetryPinned, Go, flags, wal, rels, ckpt,
          Typed, LocalsTyped
    <3> QED
      BY Zenon, <1>0, <3>1 DEF Calm
  <2> QED
    BY Zenon, <2>1, <2>2
<1>4. CASE BufTableInsert(p)
  <2>1. pins[cur[p]] = {p} /\ ~ valid[cur[p]]
    BY Zenon, <1>0, <1>1, <1>4 DEF BufTableInsert, AtWork, Headers
  <2>2. /\ UNCHANGED <<valid, content, disk, log, flushed, redo, newredo, dropped, dirty,
                       checkpoint_needed, todo>>
        /\ \A c \in Buffers \ {cur[p]} : tag'[c] = tag[c]
    BY Zenon, <1>0, <1>1, <1>4 DEF BufTableInsert, flags, wal, rels, ckpt, Typed, HeadersTyped
  <2>3. pc'[p] \notin {"write", "endwrite"}
    BY Zenon, <1>0, <1>4 DEF BufTableInsert, UnpinThen, Go, Typed, LocalsTyped
  <2> QED
    BY Zenon, <1>0, <1>1, <2>1, <2>2, <2>3 DEF Empties
<1> QED
  BY Zenon, <1>2, <1>3, <1>4

\* What a backend does to no page and to no buffer's page is calm.
LEMMA CalmBackend ==
    ASSUME PoolInv, CheckpointInv, NEW p \in Backends, Backend(p),
           ~ (InvalidateVictimBuffer(p) \/ InvalidateBuffer(p) \/ BufTableInsert(p)),
           ~ (ReadPage(p) \/ LogChange(p) \/ SetHint(p))
    PROVE  Calm(p)
<1>0. p \in Procs /\ Typed /\ Local(p) /\ AtWork(p)
  BY Zenon, LocalBackend DEF PoolInv, BaseInv, MapInv, Procs
<1>1. ASSUME NEW t \in Pages, BufferAlloc(p, t) \/ DropRelation(p, t)
      PROVE  Calm(p)
  <2>1. /\ UNCHANGED <<tag, valid, content, disk, log, flushed, redo, newredo, dirty,
                       checkpoint_needed, todo>>
        /\ dropped \subseteq dropped'
    BY Zenon, <1>1 DEF BufferAlloc, DropRelation, hdr, flags, wal, rels, ckpt
  <2>2. pc'[p] \notin {"write", "endwrite"}
    BY Zenon, <1>0, <1>1 DEF BufferAlloc, DropRelation, AfterPin, Go, Typed, LocalsTyped
  <2> QED
    BY Zenon, <1>0, <2>1, <2>2 DEF Calm, CheckpointInv
<1>2. CASE \/ StrategyGetBuffer(p) \/ TryFreeBuffer(p) \/ ClockSweepTick(p)
           \/ TrySweptBuffer(p) \/ LockVictim(p) \/ DeleteVictimMapping(p)
  <2>1. UNCHANGED <<tag, valid, content, disk, log, flushed, redo, newredo, dropped, dirty,
                    checkpoint_needed, todo>>
    BY Zenon, <1>2 DEF StrategyGetBuffer, TryFreeBuffer, ClockSweepTick, TrySweptBuffer,
        LockVictim, DeleteVictimMapping, hdr, flags, wal, rels, ckpt
  <2>2. pc'[p] \notin {"write", "endwrite"}
    BY Zenon, <1>0, <1>2 DEF StrategyGetBuffer, TryFreeBuffer, ClockSweepTick, TrySweptBuffer,
        LockVictim, DeleteVictimMapping, UnpinThen, ClaimVictim, VictimLocked, Go, Typed,
        LocalsTyped
  <2> QED
    BY Zenon, <1>0, <2>1, <2>2 DEF Calm, CheckpointInv
<1>3. CASE \/ FreeVictim(p) \/ PinExisting(p) \/ StartInput(p) \/ LockShare(p)
           \/ LockExclusive(p) \/ UnlockBuffer(p) \/ ReleaseBuffer(p) \/ MarkBufferDirtyHint(p)
  <2>1. UNCHANGED <<tag, valid, content, disk, log, flushed, redo, newredo, dropped, dirty,
                    checkpoint_needed, todo>>
    BY Zenon, <1>3 DEF FreeVictim, PinExisting, StartInput, LockShare, LockExclusive,
        UnlockBuffer, ReleaseBuffer, MarkBufferDirtyHint, hdr, flags, wal, rels, ckpt
  <2>2. pc'[p] \notin {"write", "endwrite"}
    BY Zenon, <1>0, <1>3 DEF FreeVictim, PinExisting, StartInput, LockShare, LockExclusive,
        UnlockBuffer, ReleaseBuffer, MarkBufferDirtyHint, UnpinThen, AfterPin, Go, Typed,
        LocalsTyped
  <2> QED
    BY Zenon, <1>0, <2>1, <2>2 DEF Calm, CheckpointInv
<1>4. CASE MarkBufferDirty(p) \/ SetHintDirty(p)
  <2>1. UNCHANGED <<tag, valid, content, disk, log, flushed, redo, newredo, dropped,
                    checkpoint_needed, todo>>
    BY Zenon, <1>4 DEF MarkBufferDirty, SetHintDirty, wal, rels, ckpt
  <2>2. \A b \in Buffers : dirty[b] => dirty'[b]
    BY Zenon, <1>0, <1>4 DEF MarkBufferDirty, SetHintDirty, Typed, HeadersTyped
  <2>3. pc'[p] \notin {"write", "endwrite"}
    BY Zenon, <1>0, <1>4 DEF MarkBufferDirty, SetHintDirty, Go, Typed, LocalsTyped
  <2> QED
    BY Zenon, <1>0, <2>1, <2>2, <2>3 DEF Calm, CheckpointInv
<1>5. CASE \/ LockBufferForCleanup(p) \/ CheckCleanup(p) \/ UnlockForWait(p) \/ WakeUp(p)
           \/ AfterWait(p) \/ DropRelationBuffers(p) \/ WaitIO(p) \/ DeleteDropped(p)
           \/ FreeDropped(p)
  <2>1. UNCHANGED <<tag, valid, content, disk, log, flushed, redo, newredo, dropped, dirty,
                    checkpoint_needed, todo>>
    BY Zenon, <1>5 DEF LockBufferForCleanup, CheckCleanup, UnlockForWait, WakeUp, AfterWait,
        DropRelationBuffers, WaitIO, DeleteDropped, FreeDropped, hdr, flags, wal, rels, ckpt
  <2>2. pc'[p] \notin {"write", "endwrite"}
    BY Zenon, <1>0, <1>5 DEF LockBufferForCleanup, CheckCleanup, UnlockForWait, WakeUp, AfterWait,
        DropRelationBuffers, WaitIO, DeleteDropped, FreeDropped, Go, Typed, LocalsTyped
  <2> QED
    BY Zenon, <1>0, <2>1, <2>2 DEF Calm, CheckpointInv
<1> QED
  BY Zenon, <1>1, <1>2, <1>3, <1>4, <1>5 DEF Backend

\* So is BufferSync, but for the ends of a checkpoint.
LEMMA CalmCheckpoint ==
    ASSUME PoolInv, CheckpointInv, MarkForCheckpoint \/ BufferSync \/ SyncOneBuffer
    PROVE  Calm(Checkpointer)
<1>0. /\ Checkpointer \in Procs /\ Typed /\ Local(Checkpointer)
      /\ checkpoint_needed \in [Buffers -> BOOLEAN]
  BY Zenon, LocalCheckpoint DEF PoolInv, BaseInv, CheckpointInv, Checkpoint, Procs
<1>1. UNCHANGED <<tag, valid, content, disk, log, flushed, redo, newredo, dropped, dirty>>
  BY Zenon DEF MarkForCheckpoint, BufferSync, SyncOneBuffer, hdr, flags, wal, rels
<1>2. /\ checkpoint_needed' \in [Buffers -> BOOLEAN]
      /\ \A b \in Buffers : checkpoint_needed[b] => checkpoint_needed'[b]
  <2>1. CASE MarkForCheckpoint
    <3>1. /\ scan[Checkpointer] \in Buffers
          /\ checkpoint_needed' = [checkpoint_needed EXCEPT ![scan[Checkpointer]] =
                @ \/ dirty[scan[Checkpointer]]]
      BY Zenon, <2>1 DEF MarkForCheckpoint, PoolInv, BaseInv, MapInv, AtCheckpoint
    <3> QED
      BY Zenon, <1>0, <3>1
  <2>2. CASE BufferSync \/ SyncOneBuffer
    BY Zenon, <1>0, <2>2 DEF BufferSync, SyncOneBuffer, hdr, flags
  <2> QED
    BY <2>1, <2>2
<1>3. pc'[Checkpointer] \notin {"write", "endwrite"}
  BY Zenon, <1>0 DEF MarkForCheckpoint, BufferSync, SyncOneBuffer, Go, Typed, LocalsTyped
<1> QED
  BY Zenon, <1>0, <1>1, <1>2, <1>3 DEF Calm

\* LSNs, in a calm step.
LEMMA LsnCalm ==
    ASSUME PoolInv, LsnInv, NEW q \in Procs, Calm(q), AllLogged'
    PROVE  LsnInv'
<1>1. WalTyped'
  BY Zenon DEF Calm, LsnInv, WalTyped
<1>2. WriterLsn(q)'
  BY Zenon DEF Calm, WriterLsn
<1>3. flushed <= flushed'
  BY SMTT(40), Z3T(40), Lsns DEF Calm, LsnInv, WalTyped
<1>4. /\ Local(q) /\ UNCHANGED <<tag, valid, content, disk, log>>
      /\ \A b \in Buffers : dirty[b] => dirty'[b]
  BY Zenon DEF Calm
<1> QED
  BY Zenon, <1>1, <1>2, <1>3, <1>4, LsnQuiet

\* LSNs, when a buffer is emptied.
LEMMA LsnEmpties ==
    ASSUME PoolInv, LsnInv, NEW q \in Procs, NEW b \in Buffers, Empties(q, b), AllLogged'
    PROVE  LsnInv'
<1>1. WalTyped'
  BY Zenon DEF Empties, LsnInv, WalTyped
<1>2. WriterLsn(q)' /\ BufferLsn(b)'
  BY Zenon DEF Empties, WriterLsn, BufferLsn
<1>3. \A t \in Pages : FileLsn(t)'
  BY Zenon, FilesKept DEF Empties
<1>4. \A p \in Procs \ {q} : ~ (pc[p] \in {"write", "endwrite"} /\ cur[p] = b)
  BY Zenon, WritersAlone DEF Empties
<1>5. /\ Local(q) /\ UNCHANGED <<disk, log, flushed>>
      /\ \A c \in Buffers \ {b} : UNCHANGED <<tag[c], valid[c], content[c], dirty[c]>>
  BY Zenon DEF Empties
<1> QED
  BY Zenon, <1>1, <1>2, <1>3, <1>4, <1>5, LsnAt

\* LSNs, when a page is read in.
LEMMA LsnRead ==
    ASSUME PoolInv, LsnInv, NEW p \in Procs, Local(p), ReadPage(p), AllLogged'
    PROVE  LsnInv'
<1>0. PICK b : b = cur[p]
  OBVIOUS
<1>1. /\ pc[p] = "read" /\ b \in Buffers /\ tag[b] \in Pages
      /\ Typed /\ IoInv /\ content = [c \in Buffers |-> content[c]]
  BY Zenon, <1>0 DEF ReadPage, PoolInv, BaseInv, MapInv, AtWork, HasBuffer, Pinning, Reading,
      ContentInv, Storage
<1>2. /\ \A c \in Buffers \ {b} : UNCHANGED <<tag[c], valid[c], content[c], dirty[c]>>
      /\ UNCHANGED <<tag, disk, log, flushed, redo, newredo>>
      /\ content'[b] = disk[tag[b]] /\ pc'[p] = "pinned"
  BY Zenon, <1>0, <1>1 DEF ReadPage, Go, wal, Typed, HeadersTyped, LocalsTyped
<1>3. WalTyped' /\ WriterLsn(p)'
  BY Zenon, <1>2 DEF LsnInv, WalTyped, WriterLsn
<1>4. BufferLsn(b)'
  <2>1. FileLsn(tag[b]) /\ disk[tag[b]].lsn \in 0 .. Len(log)
    BY Zenon, <1>1, Lsns DEF LsnInv
  <2>2. disk[tag[b]].lsn <= disk[tag[b]].lsn
    BY SMTT(40), Z3T(40), <2>1, Lsns
  <2> QED
    BY Zenon, <1>2, <2>1, <2>2 DEF BufferLsn, FileLsn, OwnLsn
<1>5. \A t \in Pages : FileLsn(t)'
  BY Zenon, <1>2, FilesKept
<1>6. \A q \in Procs \ {p} : ~ (pc[q] \in {"write", "endwrite"} /\ cur[q] = b)
  BY Zenon, <1>0, <1>1, WritersAlone DEF IoInv, DoesIO
<1> QED
  BY Zenon, <1>1, <1>2, <1>3, <1>4, <1>5, <1>6, LsnAt

\* LSNs, when the log is flushed for a write.
LEMMA LsnFlush ==
    ASSUME PoolInv, LsnInv, NEW p \in Procs, Local(p), XLogFlush(p), AllLogged'
    PROVE  LsnInv'
<1>0. PICK b : b = cur[p]
  OBVIOUS
<1>1. /\ pc[p] = "xlogflush" /\ b \in Buffers /\ valid[b] /\ Typed
  BY Zenon, <1>0 DEF XLogFlush, PoolInv, BaseInv, MapInv, AtWork, HasBuffer, Pinning, Writing
<1>2. /\ UNCHANGED <<tag, valid, content, disk, log, redo, newredo, dirty, cur>>
      /\ flushed' = FlushTo(content[b].lsn) /\ pc'[p] = "write"
  BY Zenon, <1>0, <1>1 DEF XLogFlush, Go, loc, Typed, LocalsTyped
<1>3. content[b].lsn \in 0 .. Len(log) /\ Len(log) \in Nat
  BY Zenon, <1>1, Lsns
<1>4. flushed <= flushed' /\ content[b].lsn <= flushed' /\ flushed' \in 0 .. Len(log)
  BY SMTT(40), Z3T(40), <1>2, <1>3 DEF FlushTo, LsnInv, WalTyped
<1>5. WalTyped'
  BY SMTT(40), Z3T(40), <1>2, <1>3, <1>4 DEF LsnInv, WalTyped
<1>6. WriterLsn(p)'
  BY Zenon, <1>0, <1>2, <1>4 DEF WriterLsn
<1> QED
  BY Zenon, <1>2, <1>4, <1>5, <1>6, LsnQuiet

\* LSNs, when a page is written: its log record is flushed already.
LEMMA LsnWrite ==
    ASSUME PoolInv, LsnInv, NEW p \in Procs, Local(p), WritePage(p), AllLogged'
    PROVE  /\ LsnInv'
           /\ \A t \in Pages : disk[t].lsn <= disk'[t].lsn
<1>0. PICK b, t : b = cur[p] /\ t = tag[b]
  BY Zenon
<1>1. /\ pc[p] = "write" /\ b \in Buffers /\ valid[b] /\ DoesIO(p) /\ t \in Pages
      /\ Typed /\ IoInv /\ MapInv /\ disk = [u \in Pages |-> disk[u]]
  BY Zenon, <1>0, WritersAlone, Lsns DEF WritePage, PoolInv, BaseInv, ContentInv, Storage
<1>2. /\ UNCHANGED <<tag, valid, content, log, flushed, redo, newredo, dirty, cur>>
      /\ disk'[t] = content[b] /\ \A u \in Pages \ {t} : disk'[u] = disk[u]
      /\ pc'[p] = "endwrite"
  BY Zenon, <1>0, <1>1 DEF WritePage, Go, hdr, wal, loc, Typed, LocalsTyped
<1>3. /\ content[b].lsn <= flushed /\ OwnLsn(t, content[b].lsn)
      /\ disk[t].lsn <= content[b].lsn
  BY Zenon, <1>0, <1>1 DEF LsnInv, WriterLsn, BufferLsn
<1>4. WalTyped'
  BY Zenon, <1>2 DEF LsnInv, WalTyped
<1>5. \A u \in Pages : FileLsn(u)'
  BY Zenon, <1>2, <1>3 DEF LsnInv, FileLsn, OwnLsn
<1>6. content[b].lsn <= content[b].lsn /\ \A u \in Pages : disk[u].lsn <= disk[u].lsn
  BY SMTT(40), Z3T(40), <1>1, Lsns
<1>7. BufferLsn(b)' /\ WriterLsn(p)'
  BY Zenon, <1>0, <1>2, <1>3, <1>6 DEF BufferLsn, WriterLsn, OwnLsn
<1>8. \A c \in Buffers \ {b} : valid[c] => disk'[tag[c]] = disk[tag[c]]
  <2>1. \A c \in Buffers \ {b} : valid[c] => tag[c] \in Pages /\ tag[c] # t
    BY Zenon, <1>0, <1>1, Lsns, NoneIsNone DEF MapInv, MappingSound
  <2> QED
    BY Zenon, <1>2, <2>1
<1>9. \A q \in Procs \ {p} : ~ (pc[q] \in {"write", "endwrite"} /\ cur[q] = b)
  BY Zenon, <1>0, <1>1, WritersAlone DEF IoInv
<1>10. LsnInv'
  BY Zenon, <1>1, <1>2, <1>4, <1>5, <1>7, <1>8, <1>9, LsnAt
<1>11. \A u \in Pages : disk[u].lsn <= disk'[u].lsn
  BY Zenon, <1>2, <1>3, <1>6
<1> QED
  BY Zenon, <1>10, <1>11

\* LSNs, when a write has ended: the buffer that may become clean is not ahead of its file.
LEMMA LsnEndWrite ==
    ASSUME PoolInv, LsnInv, NEW p \in Procs, Local(p), EndWrite(p), AllLogged'
    PROVE  LsnInv'
<1>0. PICK b : b = cur[p]
  OBVIOUS
<1>1. pc[p] = "endwrite" /\ b \in Buffers /\ valid[b] /\ DoesIO(p) /\ Typed /\ IoInv
  BY Zenon, <1>0, WritersAlone DEF EndWrite, PoolInv, BaseInv
<1>2. /\ UNCHANGED <<tag, valid, content, disk, log, flushed, redo, newredo>>
      /\ \A c \in Buffers \ {b} : dirty'[c] = dirty[c]
      /\ pc'[p] \notin {"write", "endwrite"}
  BY Zenon, <1>0, <1>1 DEF EndWrite, AfterFlush, UnpinThen, Go, wal, Typed, HeadersTyped,
      LocalsTyped
<1>3. WalTyped' /\ WriterLsn(p)'
  BY Zenon, <1>2 DEF LsnInv, WalTyped, WriterLsn
<1>4. BufferLsn(b)'
  BY Zenon, <1>0, <1>1, <1>2 DEF LsnInv, BufferLsn, WriterLsn, OwnLsn
<1>5. \A t \in Pages : FileLsn(t)'
  BY Zenon, <1>2, FilesKept
<1>6. \A q \in Procs \ {p} : ~ (pc[q] \in {"write", "endwrite"} /\ cur[q] = b)
  BY Zenon, <1>0, <1>1, WritersAlone DEF IoInv
<1> QED
  BY Zenon, <1>1, <1>2, <1>3, <1>4, <1>5, <1>6, LsnAt

\* LSNs, when a change is logged: the page is dirty and nobody writes it.
LEMMA LsnChange ==
    ASSUME PoolInv, LsnInv, NEW p \in Procs, Local(p), LogChange(p), AllLogged'
    PROVE  /\ LsnInv'
           /\ \A i \in 1 .. Len(log) : log'[i] = log[i]
<1>0. PICK b, n : b = cur[p] /\ n = Len(log) + 1
  OBVIOUS
<1>1. /\ pc[p] = "dirtied" /\ b \in Buffers /\ want[p] \in Pages /\ valid[b] /\ tag[b] = want[p]
      /\ ret[p] \in {"exclusive", "clean"}
  BY Zenon, <1>0 DEF LogChange, PoolInv, BaseInv, MapInv, KeepsOuter, AtWork, HasBuffer, Pinning,
      Holding
<1>2. /\ Typed /\ LockInv /\ dirty[b] /\ log \in Seq(Pages)
      /\ content = [c \in Buffers |-> content[c]]
  BY Zenon, <1>0, <1>1 DEF PoolInv, BaseInv, ContentInv, Written, Storage
<1>3. /\ \A c \in Buffers \ {b} : content'[c] = content[c]
      /\ UNCHANGED <<tag, valid, disk, dirty, flushed, redo, newredo>>
      /\ pc'[p] \in {"exclusive", "clean"}
      /\ log' = Append(log, want[p])
      /\ content'[b] = [lsn |-> n, hint |-> FALSE]
  BY Zenon, <1>0, <1>1, <1>2 DEF LogChange, Go, hdr, Typed, LocalsTyped
<1>4. /\ Len(log) \in Nat /\ Len(log') = n /\ log'[n] = tag[b] /\ content'[b].lsn = n
      /\ \A i \in 1 .. Len(log) : log'[i] = log[i]
  BY SMTT(40), Z3T(40), <1>0, <1>1, <1>2, <1>3
<1>5. WalTyped'
  BY SMTT(40), Z3T(40), <1>0, <1>3, <1>4 DEF LsnInv, WalTyped
<1>6. WriterLsn(p)'
  BY Zenon, <1>3 DEF WriterLsn
<1>7. BufferLsn(b)'
  <2>1. disk[tag[b]].lsn <= n
    BY SMTT(40), Z3T(40), <1>0, <1>1, <1>4, Lsns
  <2> QED
    BY Zenon, <1>2, <1>3, <1>4, <2>1 DEF BufferLsn, OwnLsn
<1>8. \A t \in Pages : FileLsn(t)'
  BY Zenon, <1>3, <1>4, FilesKept
<1>9. \A q \in Procs \ {p} : ~ (pc[q] \in {"write", "endwrite"} /\ cur[q] = b)
  <2>1. excl[b] = p
    BY Zenon, <1>0, <1>1, <1>2 DEF LockInv, LockedBy, Exclusively
  <2> QED
    BY Zenon, <1>1, <1>2, <2>1, WritersAlone, NoneIsNone DEF LockInv, ContentLocks
<1> QED
  BY Zenon, <1>1, <1>3, <1>4, <1>5, <1>6, <1>7, <1>8, <1>9, LsnAt

\* LSNs, when a hint is set: it has none.
LEMMA LsnHint ==
    ASSUME PoolInv, LsnInv, NEW p \in Procs, Local(p), SetHint(p), AllLogged'
    PROVE  LsnInv'
<1>0. PICK b, n : b = cur[p] /\ n = content[b].lsn
  BY Zenon
<1>1. /\ pc[p] = "shared" /\ b \in Buffers /\ valid[b] /\ Typed
      /\ content = [c \in Buffers |-> content[c]]
  BY Zenon, <1>0 DEF SetHint, PoolInv, BaseInv, MapInv, AtWork, HasBuffer, Pinning, Holding,
      ContentInv, Storage
<1>2. /\ \A c \in Buffers \ {b} : content'[c] = content[c]
      /\ UNCHANGED <<tag, valid, disk, dirty, log, flushed, redo, newredo>>
      /\ pc'[p] = "hint" /\ content'[b] = [lsn |-> n, hint |-> TRUE]
  BY Zenon, <1>0, <1>1 DEF SetHint, Go, hdr, wal, Typed, LocalsTyped
<1>3. content'[b].lsn = content[b].lsn
  BY SMTT(40), Z3T(40), <1>0, <1>2
<1>4. WalTyped' /\ WriterLsn(p)'
  BY Zenon, <1>2 DEF LsnInv, WalTyped, WriterLsn
<1>5. BufferLsn(b)'
  BY Zenon, <1>1, <1>2, <1>3 DEF LsnInv, BufferLsn, OwnLsn
<1>6. \A t \in Pages : FileLsn(t)'
  BY Zenon, <1>2, FilesKept
<1>7. ASSUME NEW q \in Procs \ {p}, pc[q] \in {"write", "endwrite"}, cur[q] = b
      PROVE  WriterLsn(q)'
  <2>1. UNCHANGED <<pc[q], cur[q]>> /\ WriterLsn(q)
    BY Zenon DEF Local, LsnInv
  <2> QED
    BY Zenon, <1>2, <1>3, <1>7, <2>1 DEF WriterLsn
<1> QED
  BY Zenon, <1>1, <1>2, <1>4, <1>5, <1>6, <1>7, LsnAt

\* LSNs, when a checkpoint begins or ends.
LEMMA LsnCheckpoint ==
    ASSUME PoolInv, LsnInv, CreateCheckPoint \/ EndCheckPoint, AllLogged'
    PROVE  LsnInv'
<1>1. Checkpointer \in Procs /\ Typed /\ Local(Checkpointer) /\ Len(log) \in Nat
  BY Zenon, LocalCheckpoint, Lsns DEF Checkpoint, PoolInv, BaseInv, Procs
<1>2. /\ UNCHANGED <<tag, valid, content, disk, log, dirty>>
      /\ pc'[Checkpointer] \in {"mark", "idle"}
  BY Zenon, <1>1 DEF CreateCheckPoint, EndCheckPoint, hdr, Go, Typed, LocalsTyped
<1>3. \/ newredo' = Len(log) /\ UNCHANGED <<flushed, redo>>
      \/ flushed' = Len(log) /\ redo' = newredo /\ newredo' = 0
  BY Zenon DEF CreateCheckPoint, EndCheckPoint
<1>4. WalTyped' /\ flushed <= flushed'
  BY SMTT(40), Z3T(40), <1>1, <1>2, <1>3 DEF LsnInv, WalTyped
<1>5. WriterLsn(Checkpointer)'
  BY Zenon, <1>2 DEF WriterLsn
<1> QED
  BY Zenon, <1>1, <1>2, <1>4, <1>5, LsnQuiet

\* LSNs, in every step.
LEMMA LsnStep ==
    ASSUME PoolInv, PoolInv', LsnInv, CheckpointInv, [Next]_vars
    PROVE  LsnInv'
<1>0. AllLogged' /\ Typed
  BY Zenon, AllLoggedStep DEF LsnInv, PoolInv, BaseInv
<1>1. CASE UNCHANGED vars
  <2>1. UNCHANGED <<tag, valid, dirty, content, disk, log, flushed, redo, newredo, pc, cur>>
    BY Zenon, <1>1 DEF vars, hdr, wal, loc
  <2> QED
    BY Zenon, <1>0, <2>1 DEF LsnInv, WalTyped, FileLsn, BufferLsn, WriterLsn, OwnLsn
<1>2. ASSUME NEW p \in Procs, Shared(p)
      PROVE  LsnInv'
  <2>1. Local(p)
    BY <1>0, <1>2, LocalShared
  <2> QED
    BY Zenon, <1>0, <1>2, <2>1, CalmShared, LsnCalm, LsnFlush, LsnWrite, LsnEndWrite
<1>3. ASSUME NEW p \in Backends, Backend(p)
      PROVE  LsnInv'
  <2>1. Local(p) /\ p \in Procs
    BY Zenon, <1>0, <1>3, LocalBackend DEF Procs
  <2> QED
    BY Zenon, <1>0, <1>3, <2>1, CalmBackend, LsnCalm, EmptiesBuffer, LsnEmpties, LsnRead, LsnChange,
        LsnHint
<1>4. CASE Checkpoint
  <2>1. Checkpointer \in Procs
    BY Zenon DEF Procs
  <2> QED
    BY Zenon, <1>0, <1>4, <2>1, CalmCheckpoint, LsnCalm, LsnCheckpoint DEF Checkpoint
<1> QED
  BY Zenon, <1>1, <1>2, <1>3, <1>4 DEF Next, Finished

-----------------------------------------------------------------------------
(* Checkpoints: what is before the redo pointer is in the files. *)

\* Every change before the next redo pointer is in the buffer of its page.
LEMMA LoggedInBuffer ==
    ASSUME PoolInv, LsnInv, NEW b \in Buffers, valid[b], tag[b] \notin dropped,
           NEW i \in 1 .. newredo, log[i] = tag[b]
    PROVE  i <= content[b].lsn
<1>1. tag[b] \in Pages /\ MappingSound
  BY Zenon, Lsns DEF PoolInv, BaseInv, MapInv
<1>2. Current(tag[b]) = content[b]
  BY Zenon, <1>1, CurrentOf
<1>3. i \in 1 .. Len(log)
  BY SMTT(40), Z3T(40), Lsns DEF LsnInv, WalTyped
<1> QED
  BY Zenon, <1>1, <1>2, <1>3 DEF LsnInv, AllLogged

\* A buffer that has the LSN of its file lacks no change.
LEMMA BehindAhead ==
    ASSUME PoolInv, LsnInv, NEW b \in Buffers, Behind(b)
    PROVE  content[b].lsn # disk[tag[b]].lsn /\ dirty[b]
<1>1. PICK i \in 1 .. newredo : log[i] = tag[b] /\ i > disk[tag[b]].lsn
  BY Zenon DEF Behind
<1>2. valid[b] /\ tag[b] \notin dropped
  BY Zenon DEF Behind
<1>3. i <= content[b].lsn
  BY Zenon, <1>1, <1>2, LoggedInBuffer
<1>4. content[b].lsn # disk[tag[b]].lsn
  <2>1. content[b].lsn \in Nat /\ disk[tag[b]].lsn \in Nat /\ i \in Int
    BY SMTT(40), Z3T(40), <1>2, Lsns DEF LsnInv, WalTyped
  <2> QED
    BY SMTT(40), Z3T(40), <1>1, <1>3, <2>1
<1> QED
  BY Zenon, <1>2, <1>4 DEF LsnInv, BufferLsn

\* What was in the files stays there.
LEMMA RedoKept ==
    ASSUME PoolInv, PoolInv', LsnInv, RedoDone, UNCHANGED redo, dropped \subseteq dropped',
           \A i \in 1 .. Len(log) : log'[i] = log[i],
           \A t \in Pages : disk[t].lsn <= disk'[t].lsn
    PROVE  RedoDone'
<1> SUFFICES ASSUME NEW t \in Pages, t \notin dropped', NEW i \in 1 .. redo, log'[i] = t
             PROVE  i <= disk'[t].lsn
  BY Zenon DEF RedoDone
<1>1. i \in 1 .. Len(log)
  BY SMTT(40), Z3T(40), Lsns DEF LsnInv, WalTyped
<1>2. i <= disk[t].lsn
  BY Zenon, <1>1 DEF RedoDone
<1>3. disk[t].lsn \in Nat /\ disk'[t].lsn \in Nat
  <2>1. IsImage(disk[t])' /\ Len(log') \in Nat
    BY SMTT(40), Z3T(40) DEF PoolInv, ContentInv, Storage
  <2>2. disk'[t].lsn \in Nat
    BY SMTT(40), Z3T(40), <2>1 DEF IsImage
  <2> QED
    BY SMTT(40), Z3T(40), <2>2, Lsns
<1> QED
  BY SMTT(40), Z3T(40), <1>1, <1>2, <1>3

\* The checkpointer still comes to every buffer, in a step of anybody else.
LEMMA PendingKept ==
    ASSUME Pending, UNCHANGED <<pc[Checkpointer], ret[Checkpointer], cur[Checkpointer]>>,
           UNCHANGED <<scan[Checkpointer], todo>>,
           \A b \in Buffers : Behind(b)' =>
              Behind(b) /\ (checkpoint_needed[b] => checkpoint_needed'[b])
    PROVE  Pending'
<1>1. Checkpointing' <=> Checkpointing
  BY Zenon DEF Checkpointing
<1> QED
  BY Zenon, <1>1 DEF Pending, ToCome

\* The others leave the checkpointer's variables alone.
LEMMA CheckpointerSame ==
    ASSUME NEW q \in Procs \ {Checkpointer}, Local(q)
    PROVE  /\ UNCHANGED <<pc[Checkpointer], ret[Checkpointer], cur[Checkpointer]>>
           /\ UNCHANGED scan[Checkpointer]
  BY Zenon DEF Local, Procs

\* In a calm step no buffer falls behind.
LEMMA CalmBehind ==
    ASSUME NEW q \in Procs, Calm(q), NEW b \in Buffers, Behind(b)'
    PROVE  Behind(b)
  BY Zenon DEF Calm, Behind

\* Numbers are at most themselves.
LEMMA FilesStay ==
    ASSUME PoolInv, UNCHANGED disk
    PROVE  \A t \in Pages : disk[t].lsn <= disk'[t].lsn
  BY SMTT(40), Z3T(40), Lsns

\* Checkpoints, in the calm steps of the others.
LEMMA CheckpointCalm ==
    ASSUME PoolInv, PoolInv', LsnInv, CheckpointInv, NEW q \in Procs \ {Checkpointer}, Calm(q)
    PROVE  CheckpointInv'
<1>1. RedoDone'
  BY Zenon, RedoKept, FilesStay DEF Calm, CheckpointInv
<1>2. Pending'
  <2>1. /\ UNCHANGED <<pc[Checkpointer], ret[Checkpointer], cur[Checkpointer]>>
        /\ UNCHANGED scan[Checkpointer]
    BY Zenon, CheckpointerSame DEF Calm
  <2>2. /\ UNCHANGED todo /\ Pending
        /\ \A b \in Buffers : checkpoint_needed[b] => checkpoint_needed'[b]
    BY Zenon DEF Calm, CheckpointInv
  <2> QED
    BY Zenon, <2>1, <2>2, CalmBehind, PendingKept
<1> QED
  BY Zenon, <1>1, <1>2 DEF Calm, CheckpointInv

\* Checkpoints, when a buffer is emptied.
LEMMA CheckpointEmpties ==
    ASSUME PoolInv, PoolInv', LsnInv, CheckpointInv, NEW q \in Procs \ {Checkpointer},
           NEW b \in Buffers, Empties(q, b)
    PROVE  CheckpointInv'
<1>1. RedoDone'
  BY Zenon, RedoKept, FilesStay DEF Empties, CheckpointInv
<1>2. Pending'
  <2>1. /\ UNCHANGED <<pc[Checkpointer], ret[Checkpointer], cur[Checkpointer]>>
        /\ UNCHANGED scan[Checkpointer]
    BY Zenon, CheckpointerSame DEF Empties
  <2>2. UNCHANGED todo /\ Pending
    BY Zenon DEF Empties, CheckpointInv
  <2>3. ASSUME NEW c \in Buffers, Behind(c)'
        PROVE  Behind(c) /\ (checkpoint_needed[c] => checkpoint_needed'[c])
    <3>1. c # b
      BY Zenon, <2>3 DEF Behind, Empties
    <3> QED
      BY Zenon, <2>3, <3>1 DEF Behind, Empties
  <2> QED
    BY Zenon, <2>1, <2>2, <2>3, PendingKept
<1> QED
  BY Zenon, <1>1, <1>2 DEF Empties, CheckpointInv

\* A page is in one buffer.
LEMMA OneBuffer ==
    ASSUME MappingSound, NEW b \in Buffers, tag[b] \in Pages, NEW d \in Buffers, tag[d] = tag[b]
    PROVE  d = b
<1>1. tag[b] # NoPage /\ tag[d] # NoPage
  BY Zenon, NoneIsNone
<1>2. table[tag[b]] = b /\ table[tag[d]] = d
  BY Zenon, <1>1 DEF MappingSound
<1> QED
  BY Zenon, <1>2

\* Checkpoints, when a page is read in: the file was all there was of it.
LEMMA CheckpointRead ==
    ASSUME PoolInv, PoolInv', LsnInv, CheckpointInv, NEW p \in Procs \ {Checkpointer}, Local(p),
           ReadPage(p)
    PROVE  CheckpointInv'
<1>0. PICK b, t : b = cur[p] /\ t = tag[b]
  BY Zenon
<1>1. /\ pc[p] = "read" /\ b \in Buffers /\ t \in Pages /\ Typed /\ MappingSound /\ ~ valid[b]
  BY Zenon, <1>0 DEF ReadPage, PoolInv, BaseInv, MapInv, AtWork, HasBuffer, Pinning, Reading,
  IoInv
<1>2. /\ \A c \in Buffers \ {b} : valid'[c] = valid[c]
      /\ UNCHANGED <<tag, disk, log, redo, newredo, dropped, todo, checkpoint_needed>>
  BY Zenon, <1>0, <1>1 DEF ReadPage, wal, rels, ckpt, Typed, HeadersTyped
<1>3. RedoDone'
  BY Zenon, <1>2, RedoKept, FilesStay DEF CheckpointInv
<1>4. ASSUME NEW c \in Buffers, Behind(c)'
      PROVE  Behind(c)
  <2>1. CASE c # b
    BY Zenon, <1>2, <1>4, <2>1 DEF Behind
  <2>2. CASE c = b
    <3>1. PICK i \in 1 .. newredo : log[i] = t /\ i > disk[t].lsn
      BY Zenon, <1>0, <1>2, <1>4, <2>2 DEF Behind
    <3>2. t \notin dropped
      BY Zenon, <1>0, <1>2, <1>4, <2>2 DEF Behind
    <3>3. \A d \in Buffers : ~ (tag[d] = t /\ valid[d])
      BY Zenon, <1>0, <1>1, OneBuffer
    <3>4. Current(t) = disk[t]
      BY Zenon, <1>1, <3>2, <3>3, CurrentFile
    <3>5. i \in 1 .. Len(log)
      BY SMTT(40), Z3T(40), Lsns DEF LsnInv, WalTyped
    <3>6. i <= disk[t].lsn
      BY Zenon, <1>1, <3>1, <3>2, <3>4, <3>5 DEF LsnInv, AllLogged
    <3> QED
      BY SMTT(40), Z3T(40), <1>1, <3>1, <3>5, <3>6, Lsns
  <2> QED
    BY Zenon, <2>1, <2>2
<1>5. Pending'
  BY Zenon, <1>2, <1>4, CheckpointerSame, PendingKept DEF CheckpointInv
<1> QED
  BY Zenon, <1>2, <1>3, <1>5 DEF CheckpointInv

\* Checkpoints, when a page changes: the record is behind the next redo pointer.
LEMMA CheckpointChange ==
    ASSUME PoolInv, PoolInv', LsnInv, CheckpointInv, NEW p \in Procs \ {Checkpointer}, Local(p),
           LogChange(p) \/ SetHint(p), \A i \in 1 .. Len(log) : log'[i] = log[i]
    PROVE  CheckpointInv'
<1>1. UNCHANGED <<tag, valid, disk, redo, newredo, dropped, todo, checkpoint_needed>>
  BY Zenon DEF LogChange, SetHint, hdr, wal, rels, ckpt
<1>2. RedoDone'
  BY Zenon, <1>1, RedoKept, FilesStay DEF CheckpointInv
<1>3. \A i \in 1 .. newredo : i \in 1 .. Len(log)
  BY SMTT(40), Z3T(40), Lsns DEF LsnInv, WalTyped
<1>4. \A b \in Buffers : Behind(b)' => Behind(b)
  BY Zenon, <1>1, <1>3 DEF Behind
<1>5. Pending'
  BY Zenon, <1>1, <1>4, CheckpointerSame, PendingKept DEF CheckpointInv
<1> QED
  BY Zenon, <1>1, <1>2, <1>5 DEF CheckpointInv

\* Checkpoints, when the log is flushed.
LEMMA CheckpointFlush ==
    ASSUME PoolInv, PoolInv', LsnInv, CheckpointInv, NEW p \in Procs, Local(p), XLogFlush(p)
    PROVE  CheckpointInv'
<1>1. /\ UNCHANGED <<tag, valid, disk, log, redo, newredo, dropped, todo, checkpoint_needed>>
      /\ UNCHANGED <<cur, scan>>
  BY Zenon DEF XLogFlush, rels, ckpt, loc
<1>2. RedoDone'
  BY Zenon, <1>1, RedoKept, FilesStay DEF CheckpointInv
<1>3. \A b \in Buffers : Behind(b)' => Behind(b)
  BY Zenon, <1>1 DEF Behind
<1>4. CASE p # Checkpointer
  <2>1. Pending'
    BY Zenon, <1>1, <1>3, <1>4, CheckpointerSame, PendingKept DEF CheckpointInv
  <2> QED
    BY Zenon, <1>1, <1>2, <2>1 DEF CheckpointInv
<1>5. CASE p = Checkpointer
  <2>1. pc[Checkpointer] = "xlogflush" /\ pc'[Checkpointer] = "write"
    BY Zenon, <1>5 DEF XLogFlush, Go, PoolInv, BaseInv, Typed, LocalsTyped
  <2>2. Pending'
    BY Zenon, <1>1, <1>3, <2>1 DEF CheckpointInv, Pending, Checkpointing, ToCome
  <2> QED
    BY Zenon, <1>1, <1>2, <2>2 DEF CheckpointInv
<1> QED
  BY Zenon, <1>4, <1>5

\* Checkpoints, when a page is written: its file has caught up.
LEMMA CheckpointWrite ==
    ASSUME PoolInv, PoolInv', LsnInv, CheckpointInv, NEW p \in Procs, Local(p), WritePage(p),
           \A t \in Pages : disk[t].lsn <= disk'[t].lsn
    PROVE  CheckpointInv'
<1>0. PICK b, t : b = cur[p] /\ t = tag[b]
  BY Zenon
<1>1. /\ pc[p] = "write" /\ b \in Buffers /\ valid[b] /\ t \in Pages /\ Typed
      /\ disk = [u \in Pages |-> disk[u]]
  BY Zenon, <1>0, WritersAlone, Lsns DEF WritePage, PoolInv, BaseInv, ContentInv, Storage
<1>2. /\ UNCHANGED <<tag, valid, content, log, redo, newredo, dropped, todo, checkpoint_needed>>
      /\ UNCHANGED <<cur, scan>> /\ disk'[t] = content[b] /\ pc'[p] = "endwrite"
      /\ \A u \in Pages \ {t} : disk'[u] = disk[u]
  BY Zenon, <1>0, <1>1 DEF WritePage, hdr, wal, rels, ckpt, loc, Go, Typed, LocalsTyped
<1>3. RedoDone'
  BY Zenon, <1>2, RedoKept DEF CheckpointInv
<1>4. ASSUME NEW c \in Buffers, Behind(c)'
      PROVE  Behind(c) /\ c # b
  <2>1. PICK i \in 1 .. newredo : log[i] = tag[c] /\ i > disk'[tag[c]].lsn
    BY Zenon, <1>2, <1>4 DEF Behind
  <2>2. valid[c] /\ tag[c] \notin dropped /\ tag[c] \in Pages
    BY Zenon, <1>2, <1>4, Lsns DEF Behind
  <2>3. /\ disk[tag[c]].lsn \in Nat /\ content[b].lsn \in Nat /\ i \in Nat
        /\ i <= content[c].lsn
    BY SMTT(40), Z3T(40), <1>1, <2>1, <2>2, Lsns, LoggedInBuffer
  <2>4. c # b
    BY SMTT(40), Z3T(40), <1>0, <1>2, <2>1, <2>3
  <2>5. tag[c] # t
    <3>1. MappingSound
      BY Zenon DEF PoolInv, BaseInv, MapInv
    <3> QED
      BY Zenon, <3>1, <1>0, <1>1, <2>4, OneBuffer
  <2> QED
    BY Zenon, <1>2, <2>1, <2>2, <2>4, <2>5 DEF Behind
<1>5. CASE p # Checkpointer
  <2>1. Pending'
    BY Zenon, <1>2, <1>4, <1>5, CheckpointerSame, PendingKept DEF CheckpointInv
  <2> QED
    BY Zenon, <1>2, <1>3, <2>1 DEF CheckpointInv
<1>6. CASE p = Checkpointer
  <2>1. Pending'
    BY Zenon, <1>0, <1>1, <1>2, <1>4, <1>6 DEF CheckpointInv, Pending, Checkpointing, ToCome
  <2> QED
    BY Zenon, <1>2, <1>3, <2>1 DEF CheckpointInv
<1> QED
  BY Zenon, <1>5, <1>6

\* Checkpoints, when a write has ended: the mark that goes is no longer needed.
LEMMA CheckpointEndWrite ==
    ASSUME PoolInv, PoolInv', LsnInv, CheckpointInv, NEW p \in Procs, Local(p), EndWrite(p)
    PROVE  CheckpointInv'
<1>0. PICK b : b = cur[p]
  BY Zenon
<1>1. /\ pc[p] = "endwrite" /\ b \in Buffers /\ Typed /\ just_dirtied \in [Buffers -> BOOLEAN]
      /\ checkpoint_needed \in [Buffers -> BOOLEAN]
  BY Zenon, <1>0, WritersAlone DEF EndWrite, PoolInv, BaseInv, CheckpointInv, Typed, HeadersTyped
<1>2. /\ UNCHANGED <<tag, valid, disk, log, redo, newredo, dropped, todo>>
      /\ UNCHANGED <<cur, scan>>
      /\ checkpoint_needed' = [checkpoint_needed EXCEPT ![b] = @ /\ just_dirtied[b]]
  BY Zenon, <1>0 DEF EndWrite, DirtiedAgain, wal, rels, ckpt, loc
<1>3. /\ checkpoint_needed' \in [Buffers -> BOOLEAN]
      /\ \A c \in Buffers \ {b} : checkpoint_needed'[c] = checkpoint_needed[c]
  BY Zenon, <1>1, <1>2
<1>4. RedoDone'
  BY Zenon, <1>2, RedoKept, FilesStay DEF CheckpointInv
<1>5. ASSUME NEW c \in Buffers, Behind(c)'
      PROVE  Behind(c) /\ c # b
  <2>1. Behind(c)
    BY Zenon, <1>2, <1>5 DEF Behind
  <2>2. content[b].lsn = disk[tag[b]].lsn
    BY Zenon, <1>0, <1>1 DEF LsnInv, WriterLsn
  <2> QED
    BY Zenon, <2>1, <2>2, BehindAhead
<1>6. CASE p # Checkpointer
  <2>1. Pending'
    BY Zenon, <1>2, <1>3, <1>5, <1>6, CheckpointerSame, PendingKept DEF CheckpointInv
  <2> QED
    BY Zenon, <1>3, <1>4, <2>1 DEF CheckpointInv
<1>7. CASE p = Checkpointer
  <2>1. Checkpointing /\ ~ (pc[Checkpointer] = "mark")
    BY Zenon, <1>1, <1>7 DEF Checkpointing
  <2>2. Pending'
    BY Zenon, <1>0, <1>1, <1>2, <1>3, <1>5, <1>7, <2>1 DEF CheckpointInv, Pending, ToCome
  <2> QED
    BY Zenon, <1>3, <1>4, <2>2 DEF CheckpointInv
<1> QED
  BY <1>6, <1>7

\* A calm step of the checkpointer, once the buffers still to come are known.
LEMMA CheckpointOwn ==
    ASSUME PoolInv, PoolInv', LsnInv, CheckpointInv, Calm(Checkpointer), Pending'
    PROVE  CheckpointInv'
<1>1. RedoDone'
  BY Zenon, RedoKept, FilesStay DEF Calm, CheckpointInv
<1> QED
  BY Zenon, <1>1 DEF Calm, CheckpointInv

\* What the checkpointer does as any process does.
LEMMA PendingShared ==
    ASSUME PoolInv, LsnInv, CheckpointInv, Shared(Checkpointer), Calm(Checkpointer)
    PROVE  Pending'
<1> DEFINE c == Checkpointer
<1>0. Typed /\ AtCheckpoint /\ c \in Procs /\ Pending /\ pc'[c] \notin {"write", "endwrite"}
  BY Zenon DEF PoolInv, BaseInv, MapInv, Procs, CheckpointInv, Calm
<1>1. /\ \A b \in Buffers : Behind(b)' => Behind(b)
      /\ \A b \in Buffers : checkpoint_needed[b] => checkpoint_needed'[b]
  BY Zenon, <1>0, CalmBehind DEF Calm
<1>2. CASE UnpinBuffer(c) \/ WakeWaiter(c) \/ SendSignal(c)
  <2>1. pc[c] \in Unpinning /\ UNCHANGED <<todo, scan>>
    BY Zenon, <1>2 DEF UnpinBuffer, WakeWaiter, SendSignal, Unpinning, ckpt
  <2>2. Checkpointing' => ret[c] = "sync" /\ pc'[c] \notin {"mark", "idle"}
    BY Zenon, <1>0, <1>2, <2>1 DEF UnpinBuffer, WakeWaiter, SendSignal, Return, Go, Unpinning,
        Checkpointing, AtCheckpoint, Typed, LocalsTyped
  <2>3. pc[c] \notin {"mark", "syncone", "flushlock", "startout", "xlogflush", "write"}
    BY Zenon, <2>1 DEF Unpinning
  <2> QED
    BY Zenon, <1>0, <1>1, <2>1, <2>2, <2>3 DEF Pending, Checkpointing, ToCome
<1>3. CASE LockForFlush(c)
  <2>1. pc[c] = "flushlock" /\ pc'[c] = "startout" /\ UNCHANGED <<todo, scan, cur>>
    BY Zenon, <1>0, <1>3 DEF LockForFlush, Go, ckpt, loc, Typed, LocalsTyped
  <2> QED
    BY Zenon, <1>0, <1>1, <2>1 DEF Pending, Checkpointing, ToCome
<1>4. CASE StartOutput(c)
  <2>1. pc[c] = "startout" /\ UNCHANGED <<todo, scan, cur>>
    BY Zenon, <1>4 DEF StartOutput, ckpt, loc
  <2>2. dirty[cur[c]] => pc'[c] = "xlogflush"
    BY Zenon, <1>0, <1>4 DEF StartOutput, Go, Typed, LocalsTyped
  <2>3. ASSUME NEW b \in Buffers, Behind(b)'
        PROVE  ToCome(b)'
    <3>1. Behind(b) /\ dirty[b] /\ ToCome(b)
      BY Zenon, <1>0, <1>1, <2>1, <2>3, BehindAhead DEF Pending, Checkpointing
    <3> QED
      BY Zenon, <1>1, <2>1, <2>2, <3>1 DEF ToCome
  <2> QED
    BY Zenon, <2>3 DEF Pending
<1>5. CASE TransferFails(c) \/ AbortBufferIO(c) \/ ReleasePins(c)
  <2>1. ~ Checkpointing'
    BY Zenon, <1>0, <1>5 DEF TransferFails, AbortBufferIO, ReleasePins, UnpinThen, Go,
        Checkpointing, Unpinning, Typed, LocalsTyped
  <2> QED
    BY Zenon, <2>1 DEF Pending
<1>6. ~ (XLogFlush(c) \/ WritePage(c))
  BY Zenon, <1>0 DEF XLogFlush, WritePage, Go, Typed, LocalsTyped
<1>7. CASE EndWrite(c)
  <2>1. pc[c] = "endwrite" /\ UNCHANGED <<todo, scan, cur>>
    BY Zenon, <1>7 DEF EndWrite, ckpt, loc
  <2> QED
    BY Zenon, <1>0, <1>1, <2>1 DEF Pending, Checkpointing, ToCome
<1> QED
  BY Zenon, <1>2, <1>3, <1>4, <1>5, <1>6, <1>7 DEF Shared

\* BufferSync: a buffer with an older change is dirty when it is marked, and comes up.
LEMMA PendingSync ==
    ASSUME PoolInv, LsnInv, CheckpointInv, MarkForCheckpoint \/ BufferSync \/ SyncOneBuffer,
           Calm(Checkpointer)
    PROVE  Pending'
<1> DEFINE c == Checkpointer
<1>0. /\ Typed /\ AtCheckpoint /\ c \in Procs /\ Pending /\ scan \in [Procs -> Nat]
      /\ checkpoint_needed \in [Buffers -> BOOLEAN]
  BY Zenon DEF PoolInv, BaseInv, MapInv, Procs, CheckpointInv, Typed, LocalsTyped
<1>1. /\ \A b \in Buffers : Behind(b)' => Behind(b)
      /\ \A b \in Buffers : checkpoint_needed[b] => checkpoint_needed'[b]
  BY Zenon, <1>0, CalmBehind DEF Calm
<1>2. Checkpointing
  BY Zenon DEF MarkForCheckpoint, BufferSync, SyncOneBuffer, Checkpointing
<1> SUFFICES ASSUME NEW b \in Buffers, Behind(b)'
             PROVE  ToCome(b)'
  BY Zenon DEF Pending
<1>3. dirty[b] /\ ToCome(b) /\ Behind(b)
  BY Zenon, <1>0, <1>1, <1>2, BehindAhead DEF Pending
<1>4. CASE MarkForCheckpoint
  <2>0. PICK s : s = scan[c]
    BY Zenon
  <2>1. /\ pc[c] = "mark" /\ s \in Buffers /\ pc'[c] = IF s + 1 = NBuffers THEN "sync" ELSE "mark"
        /\ todo' = IF dirty[s] THEN todo \cup {s} ELSE todo
        /\ scan'[c] = (s + 1) % NBuffers
        /\ checkpoint_needed' = [checkpoint_needed EXCEPT ![s] = @ \/ dirty[s]]
    BY Zenon, <1>0, <1>4, <2>0 DEF MarkForCheckpoint, Go, AtCheckpoint, Typed, LocalsTyped
  <2>2. CASE b = s
    <3>1. checkpoint_needed'[b] /\ b \in todo'
      BY Zenon, <1>0, <1>3, <2>1, <2>2
    <3> QED
      BY Zenon, <3>1 DEF ToCome
  <2>3. CASE b # s /\ s <= b
    <3>1. s + 1 # NBuffers /\ (s + 1) % NBuffers <= b
      BY SMTT(40), Z3T(40), <2>1, <2>3, BufMgrAssumption DEF Buffers
    <3> QED
      BY Zenon, <2>1, <3>1 DEF ToCome
  <2>4. CASE b # s /\ ~ (s <= b)
    <3>1. checkpoint_needed[b] /\ b \in todo
      BY Zenon, <1>3, <2>0, <2>1, <2>4 DEF ToCome
    <3> QED
      BY Zenon, <1>1, <2>1, <3>1 DEF ToCome
  <2> QED
    BY Zenon, <2>2, <2>3, <2>4
<1>5. CASE BufferSync
  <2>1. PICK d \in todo : /\ pc[c] = "sync" /\ todo' = todo \ {d} /\ cur'[c] = d
                          /\ pc'[c] = IF checkpoint_needed[d] THEN "syncone" ELSE "sync"
    BY Zenon, <1>0, <1>5 DEF BufferSync, Go, Typed, LocalsTyped
  <2>2. checkpoint_needed[b] /\ b \in todo
    BY Zenon, <1>3, <2>1 DEF ToCome
  <2> QED
    BY Zenon, <1>1, <2>1, <2>2 DEF ToCome
<1>6. CASE SyncOneBuffer
  <2>1. /\ pc[c] = "syncone" /\ UNCHANGED <<todo, cur>>
        /\ valid[cur[c]] /\ dirty[cur[c]] => pc'[c] = "flushlock"
    BY Zenon, <1>0, <1>6 DEF SyncOneBuffer, Go, ckpt, loc, Typed, LocalsTyped
  <2>2. valid[b]
    BY Zenon, <1>3 DEF Behind
  <2> QED
    BY Zenon, <1>1, <1>3, <2>1, <2>2 DEF ToCome
<1> QED
  BY Zenon, <1>4, <1>5, <1>6

\* Checkpoints begin: every buffer is still to come.
LEMMA CheckpointBegins ==
    ASSUME PoolInv, PoolInv', LsnInv, CheckpointInv, CreateCheckPoint
    PROVE  CheckpointInv'
<1>1. UNCHANGED <<disk, log, redo, dropped, checkpoint_needed>>
  BY Zenon DEF CreateCheckPoint, hdr, rels
<1>2. RedoDone'
  BY Zenon, <1>1, RedoKept, FilesStay DEF CheckpointInv
<1>3. pc'[Checkpointer] = "mark" /\ scan'[Checkpointer] = 0
  BY Zenon DEF CreateCheckPoint, Go, PoolInv, BaseInv, Typed, LocalsTyped, Procs
<1>4. \A b \in Buffers : 0 <= b
  BY SMTT(40), Z3T(40), BufMgrAssumption DEF Buffers
<1>5. Pending'
  BY Zenon, <1>3, <1>4 DEF Pending, ToCome
<1> QED
  BY Zenon, <1>1, <1>2, <1>5 DEF CheckpointInv

\* Checkpoints end: no buffer is still to come, and no page in a file is behind.
LEMMA CheckpointEnds ==
    ASSUME PoolInv, LsnInv, CheckpointInv, EndCheckPoint
    PROVE  CheckpointInv'
<1>1. /\ pc[Checkpointer] = "sync" /\ todo = {} /\ pc'[Checkpointer] = "idle"
      /\ redo' = newredo /\ UNCHANGED <<disk, log, dropped, checkpoint_needed>>
  BY Zenon DEF EndCheckPoint, Go, hdr, rels, PoolInv, BaseInv, Typed, LocalsTyped, Procs
<1>2. \A b \in Buffers : ~ Behind(b)
  BY Zenon, <1>1 DEF CheckpointInv, Pending, Checkpointing, ToCome
<1>3. ASSUME NEW t \in Pages, t \notin dropped, NEW i \in 1 .. newredo, log[i] = t
      PROVE  i <= disk[t].lsn
  <2>1. CASE \E b \in Buffers : tag[b] = t /\ valid[b]
    <3>1. PICK b \in Buffers : tag[b] = t /\ valid[b]
      BY Zenon, <2>1
    <3>2. ~ (i > disk[t].lsn)
      BY Zenon, <1>2, <1>3, <3>1 DEF Behind
    <3>3. disk[t].lsn \in Nat /\ i \in Nat
      BY SMTT(40), Z3T(40), Lsns DEF LsnInv, WalTyped
    <3> QED
      BY SMTT(40), Z3T(40), <3>2, <3>3
  <2>2. CASE ~ \E b \in Buffers : tag[b] = t /\ valid[b]
    <3>1. Current(t) = disk[t]
      BY Zenon, <1>3, <2>2, CurrentFile
    <3>2. i \in 1 .. Len(log)
      BY SMTT(40), Z3T(40), Lsns DEF LsnInv, WalTyped
    <3> QED
      BY Zenon, <1>3, <3>1, <3>2 DEF LsnInv, AllLogged
  <2> QED
    BY Zenon, <2>1, <2>2
<1>4. RedoDone'
  BY Zenon, <1>1, <1>3 DEF RedoDone
<1>5. Pending'
  BY Zenon, <1>1 DEF Pending, Checkpointing, Unpinning
<1> QED
  BY Zenon, <1>1, <1>4, <1>5 DEF CheckpointInv

\* Checkpoints, in every step.
LEMMA CheckpointStep ==
    ASSUME PoolInv, PoolInv', LsnInv, LsnInv', CheckpointInv, [Next]_vars
    PROVE  CheckpointInv'
<1>0. Typed /\ AllLogged' /\ Checkpointer \in Procs /\ Checkpointer \notin Backends
  BY Zenon, NoneIsNone DEF LsnInv, PoolInv, BaseInv, Procs
<1>1. CASE UNCHANGED vars
  <2>1. UNCHANGED <<tag, valid, disk, log, redo, newredo, dropped, checkpoint_needed, todo, scan>>
        /\ UNCHANGED <<pc, ret, cur>>
    BY Zenon, <1>1 DEF vars, hdr, wal, rels, ckpt, loc
  <2>2. \A b \in Buffers : Behind(b)' <=> Behind(b)
    BY Zenon, <2>1 DEF Behind
  <2>3. Pending'
    BY Zenon, <2>1, <2>2, PendingKept DEF CheckpointInv
  <2>4. RedoDone'
    BY Zenon, <2>1 DEF CheckpointInv, RedoDone
  <2> QED
    BY Zenon, <2>1, <2>3, <2>4 DEF CheckpointInv
<1>2. ASSUME NEW p \in Procs, Shared(p)
      PROVE  CheckpointInv'
  <2>1. Local(p)
    BY Zenon, <1>0, <1>2, LocalShared
  <2>2. CASE XLogFlush(p) \/ WritePage(p) \/ EndWrite(p)
    BY Zenon, <1>0, <2>1, <2>2, CheckpointFlush, CheckpointWrite, LsnWrite, CheckpointEndWrite
  <2>3. CASE ~ (XLogFlush(p) \/ WritePage(p) \/ EndWrite(p))
    <3>1. Calm(p)
      BY Zenon, <1>2, <2>3, CalmShared
    <3> QED
      BY Zenon, <1>2, <3>1, CheckpointCalm, PendingShared, CheckpointOwn
  <2> QED
    BY Zenon, <2>2, <2>3
<1>3. ASSUME NEW p \in Backends, Backend(p)
      PROVE  CheckpointInv'
  <2>1. Local(p) /\ p \in Procs \ {Checkpointer}
    BY Zenon, <1>0, <1>3, LocalBackend DEF Procs
  <2>2. CASE LogChange(p)
    BY Zenon, <1>0, <2>1, <2>2, LsnChange, CheckpointChange
  <2>3. CASE SetHint(p)
    <3>1. UNCHANGED log
      BY Zenon, <2>3 DEF SetHint, wal
    <3> QED
      BY Zenon, <2>1, <2>3, <3>1, CheckpointChange
  <2>4. CASE InvalidateVictimBuffer(p) \/ InvalidateBuffer(p) \/ BufTableInsert(p)
    BY Zenon, <2>1, <2>4, EmptiesBuffer, CheckpointCalm, CheckpointEmpties
  <2>5. CASE ReadPage(p)
    BY Zenon, <2>1, <2>5, CheckpointRead
  <2> QED
    BY Zenon, <1>3, <2>1, <2>2, <2>3, <2>4, <2>5, CalmBackend, CheckpointCalm
<1>4. CASE Checkpoint
  BY Zenon, <1>4, CalmCheckpoint, PendingSync, CheckpointOwn, CheckpointBegins, CheckpointEnds
      DEF Checkpoint
<1> QED
  BY Zenon, <1>1, <1>2, <1>3, <1>4 DEF Next, Finished

-----------------------------------------------------------------------------
(* The greatest element of a set of LSNs. *)

LOCAL INSTANCE WellFoundedInduction

\* A nonempty set of naturals has a least element.
LEMMA NatMin == ASSUME NEW T, T \subseteq Nat, T # {}
   PROVE \E x \in T : \A y \in T : x <= y
<1> DEFINE R == {ss \in Nat \X Nat : ss[1] < ss[2]}
<1>1. IsWellFoundedOn(R, Nat)
  BY Zenon, NatLessThanWellFounded DEF OpToRel
<1>2. \E x \in T : \A y \in T : ~ (<<y, x>> \in R)
  BY Zenon, <1>1, WFMin
<1>3. PICK x \in T : \A y \in T : ~ (<<y, x>> \in R)
  BY Zenon, <1>2
<1>4. ASSUME NEW y \in T
      PROVE  x <= y
  <2>1. ~ (<<y, x>> \in R) /\ x \in Nat /\ y \in Nat
    BY Zenon, <1>3
  <2>2. ~ (y < x)
    BY Zenon, <2>1
  <2> QED
    BY SMTT(40), Z3T(40), <2>1, <2>2
<1> QED
  BY Zenon, <1>4

\* A nonempty set of naturals with a bound has a greatest element.
LEMMA GreatestUpTo == ASSUME NEW n \in Nat, NEW S, S \subseteq 0 .. n, S # {}
   PROVE \E x \in S : \A y \in S : y <= x
<1> DEFINE T == {n - i : i \in S}
<1>1. \E x \in T : \A y \in T : x <= y
  <2>1. \A i \in S : n - i \in Nat
    BY SMTT(40), Z3T(40)
  <2>2. T \subseteq Nat
    BY Zenon, <2>1
  <2>3. T # {}
    BY Zenon
  <2> HIDE DEF T
  <2> QED
    BY Zenon, <2>2, <2>3, NatMin
<1>2. PICK i \in S : \A y \in T : n - i <= y
  BY Zenon, <1>1
<1>3. \A j \in S : n - i <= n - j
  BY Zenon, <1>2
<1>4. \A j \in S : j <= i
  BY SMTT(40), Z3T(40), <1>3
<1> QED
  BY Zenon, <1>4

\* The greatest element of a set is the one that CHOOSE finds.
LEMMA GreatestIs ==
    ASSUME NEW S, S \subseteq Nat, NEW m \in S, \A j \in S : j <= m
    PROVE  (CHOOSE i \in S : \A j \in S : j <= i) = m
<1>1. \A i \in S : (\A j \in S : j <= i) => i = m
  BY SMTT(40), Z3T(40)
<1> QED
  BY Zenon, <1>1

\* The last change of a page is one of the records, or there is none.
LEMMA LastIs ==
    ASSUME log \in Seq(Pages), NEW t
    PROVE  /\ LastChange(t, Len(log)) \in 0 .. Len(log)
           /\ LastChange(t, Len(log)) # 0 => log[LastChange(t, Len(log))] = t
           /\ LastChange(t, Len(log)) # 0 => t \in {log[i] : i \in 1 .. Len(log)}
           /\ \A i \in 1 .. Len(log) : log[i] = t => i <= LastChange(t, Len(log))
<1> DEFINE S == {0} \cup {i \in 1 .. Len(log) : log[i] = t}
<1>1. Len(log) \in Nat /\ S \subseteq 0 .. Len(log) /\ S # {}
  BY SMTT(40), Z3T(40)
<1>2. \E i \in S : \A j \in S : j <= i
  <2> HIDE DEF S
  <2> QED
    BY Zenon, <1>1, GreatestUpTo
<1>3. LastChange(t, Len(log)) = CHOOSE i \in S : \A j \in S : j <= i
  BY Zenon DEF LastChange
<1>4. LastChange(t, Len(log)) \in S /\ \A j \in S : j <= LastChange(t, Len(log))
  <2> HIDE DEF S
  <2> QED
    BY Zenon, <1>2, <1>3
<1> QED
  BY Zenon, <1>1, <1>4

-----------------------------------------------------------------------------
(* Initial states, and what follows from the invariants. *)

\* At the start a page that differs from its file is dirty.
LEMMA InitContent == Init => ContentInv
<1> SUFFICES ASSUME Init
             PROVE  ContentInv
  BY Zenon
<1>1. /\ \A p \in Procs : pc[p] = "idle"
      /\ log \in Seq(Pages)
      /\ dirty = [b \in Buffers |-> tag[b] \in load.hinted \cup {log[i] : i \in 1 .. Len(log)}]
      /\ content = [b \in Buffers |->
                       IF valid[b]
                       THEN [lsn |-> LastChange(tag[b], Len(log)),
                       hint |-> tag[b] \in load.hinted]
                       ELSE Garbage]
      /\ disk = [t \in Pages |-> [lsn |-> 0, hint |-> FALSE]]
  <2>1. log = load.changed /\ load \in Workloads
    BY Zenon DEF Init
  <2>2. log \in Seq(Pages)
    BY Zenon, <2>1, BufMgrAssumption
  <2> QED
    BY Zenon, <2>2 DEF Init
<1>2. Storage
  <2>1. Len(log) \in Nat /\ content = [b \in Buffers |-> content[b]]
        /\ disk = [t \in Pages |-> disk[t]]
    BY SMTT(40), Z3T(40), <1>1
  <2>2. \A t \in Pages : disk[t] = [lsn |-> 0, hint |-> FALSE]
    BY Zenon, <1>1
  <2>3. ASSUME NEW t \in Pages
        PROVE  IsImage(disk[t])
    <3>1. disk[t] = [lsn |-> 0, hint |-> FALSE]
      BY Zenon, <2>2
    <3>2. disk[t].lsn = 0 /\ disk[t].hint = FALSE
      BY SMTT(40), Z3T(40), <3>1
    <3>3. 0 \in 0 .. Len(log)
      BY SMTT(40), Z3T(40), <2>1
    <3> QED
      BY Zenon, <3>1, <3>2, <3>3 DEF IsImage
  <2> QED
    BY Zenon, <1>1, <2>1, <2>3 DEF Storage
<1>3. ASSUME NEW b \in Buffers, valid[b]
      PROVE  /\ IsImage(content[b])
             /\ content[b] # disk[tag[b]] => dirty[b]
  <2> DEFINE n == LastChange(tag[b], Len(log))
             h == tag[b] \in load.hinted
  <2>1. content[b] = [lsn |-> n, hint |-> h]
    BY Zenon, <1>1, <1>3
  <2>2. n \in 0 .. Len(log) /\ (n # 0 => tag[b] \in {log[i] : i \in 1 .. Len(log)})
    BY Zenon, <1>1, LastIs
  <2>3. h \in BOOLEAN
    BY SMTT(40), Z3T(40)
  <2>4. dirty[b] <=> h \/ tag[b] \in {log[i] : i \in 1 .. Len(log)}
    BY Zenon, <1>1
  <2>5. disk[tag[b]] = [lsn |-> 0, hint |-> FALSE]
    <3>1. tag[b] \in Pages
      <4>1. tag[b] # NoPage
        BY Zenon, <1>3, InitMapInv DEF MapInv, Headers
      <4>2. tag[b] \in Pages \cup {NoPage}
        BY Zenon, InitTyped DEF Typed, HeadersTyped
      <4> QED
        BY Zenon, <4>1, <4>2
    <3> QED
      BY Zenon, <1>1, <3>1
  <2> HIDE DEF n, h
  <2>6. IsImage(content[b])
    BY SMTT(40), Z3T(40), <2>1, <2>2, <2>3 DEF IsImage
  <2>7. ~ dirty[b] => n = 0 /\ h = FALSE
    BY Zenon, <2>2, <2>3, <2>4
  <2> QED
    BY Zenon, <2>1, <2>5, <2>6, <2>7
<1> QED
  BY Zenon, <1>1, <1>2, <1>3 DEF ContentInv, Stored, Written

\* At the start every page has contents, and none is gone.
LEMMA StoreInit == Init => Store!Init
<1> SUFFICES ASSUME Init
             PROVE  Store!Init
  OBVIOUS
<1>1. dropped = {} /\ MappingSound /\ ContentInv
  BY Zenon, InitMapInv, InitContent DEF Init, MapInv
<1>2. ASSUME NEW x, IsImage(x)
      PROVE  x \in [lsn : Nat, hint : BOOLEAN]
  <2>1. Len(log) \in Nat
    BY SMTT(40), Z3T(40), <1>1 DEF ContentInv, Storage
  <2> QED
    BY SMTT(40), Z3T(40), <1>2, <2>1 DEF IsImage
<1>3. ASSUME NEW t \in Pages
      PROVE  Current(t) \in [lsn : Nat, hint : BOOLEAN]
  <2>1. CASE \E b \in Buffers : tag[b] = t /\ valid[b]
    <3>1. PICK b \in Buffers : tag[b] = t /\ valid[b]
      BY Zenon, <2>1
    <3>2. Current(t) = content[b] /\ IsImage(content[b])
      BY Zenon, <1>1, <3>1, CurrentOf DEF ContentInv, Stored
    <3> QED
      BY Zenon, <1>2, <3>2
  <2>2. CASE ~ \E b \in Buffers : tag[b] = t /\ valid[b]
    <3>1. Current(t) = disk[t] /\ IsImage(disk[t])
      BY Zenon, <1>1, <2>2, CurrentFile DEF ContentInv, Storage
    <3> QED
      BY Zenon, <1>2, <3>1
  <2> QED
    BY Zenon, <2>1, <2>2
<1>4. [t \in Pages |-> Current(t)] \in [Pages -> [lsn : Nat, hint : BOOLEAN]]
  BY Zenon, <1>3
<1> QED
  BY Zenon, <1>1, <1>4 DEF Store!Init

\* At the start a changed page is in the pool, and its LSN is that of its last change.
LEMMA InitLsn == Init => LsnInv
<1> SUFFICES ASSUME Init
             PROVE  LsnInv
  OBVIOUS
<1>1. /\ \A p \in Procs : pc[p] = "idle"
      /\ log = load.changed /\ load \in Workloads /\ flushed = 0 /\ redo = 0 /\ newredo = 0
      /\ tag = [b \in Buffers |-> IF b < Len(load.cached) THEN load.cached[b + 1] ELSE NoPage]
      /\ valid = [b \in Buffers |-> b < Len(load.cached)]
      /\ content = [b \in Buffers |->
                       IF valid[b]
                       THEN [lsn |-> LastChange(tag[b], Len(log)),
                       hint |-> tag[b] \in load.hinted]
                       ELSE Garbage]
      /\ disk = [t \in Pages |-> [lsn |-> 0, hint |-> FALSE]]
  BY Zenon DEF Init
<1>2. log \in Seq(Pages) /\ Len(log) \in Nat
  BY <1>1, BufMgrAssumption
<1>3. PoolInv
  BY Zenon, InitTyped, InitMapInv, InitLocks, InitDrops, InitCleanup, InitContent DEF PoolInv, BaseInv
<1>4. WalTyped
  BY SMTT(40), Z3T(40), <1>1, <1>2 DEF WalTyped
<1>5. \A t \in Pages : disk[t].lsn = 0
  BY Zenon, <1>1
<1>6. ASSUME NEW t \in Pages
      PROVE  FileLsn(t)
  BY SMTT(40), Z3T(40), <1>1, <1>5 DEF FileLsn, OwnLsn
<1>7. ASSUME NEW b \in Buffers, valid[b]
      PROVE  content[b].lsn = LastChange(tag[b], Len(log))
  <2>1. content[b] = [lsn |-> LastChange(tag[b], Len(log)), hint |-> tag[b] \in load.hinted]
    BY Zenon, <1>1, <1>7
  <2> QED
    BY <2>1
<1>8. ASSUME NEW b \in Buffers
      PROVE  BufferLsn(b)
  <2> SUFFICES ASSUME valid[b]
               PROVE  /\ OwnLsn(tag[b], content[b].lsn)
                      /\ disk[tag[b]].lsn <= content[b].lsn
                      /\ content[b].lsn # disk[tag[b]].lsn => dirty[b]
    BY Zenon DEF BufferLsn
  <2>1. OwnLsn(tag[b], content[b].lsn)
    BY Zenon, <1>2, <1>7, LastIs DEF OwnLsn
  <2>2. disk[tag[b]].lsn <= content[b].lsn
    BY SMTT(40), Z3T(40), <1>3, <1>5, Lsns
  <2>3. ~ HintPending(b)
    BY Zenon, <1>1 DEF HintPending
  <2> QED
    BY Zenon, <1>3, <2>1, <2>2, <2>3 DEF PoolInv, ContentInv, Stored
<1>9. \A p \in Procs : WriterLsn(p)
  BY Zenon, <1>1 DEF WriterLsn
<1>10. ASSUME NEW t \in Pages, t \notin dropped, NEW i \in 1 .. Len(log), log[i] = t
       PROVE  i <= Current(t).lsn
  <2>0. \A k \in 1 .. Len(load.changed) :
           \E j \in 1 .. Len(load.cached) : load.changed[k] = load.cached[j]
    BY Zenon, <1>1, BufMgrAssumption DEF BufMgrAssumption
  <2>1. PICK j \in 1 .. Len(load.cached) : log[i] = load.cached[j]
    BY Zenon, <1>1, <2>0
  <2>2. /\ j - 1 \in Buffers /\ j - 1 < Len(load.cached) /\ (j - 1) + 1 = j
    <3>1. Len(load.cached) \in Nat /\ Len(load.cached) <= NBuffers /\ NBuffers \in Nat
      BY <1>1, BufMgrAssumption
    <3> QED
      BY SMTT(40), Z3T(40), <3>1 DEF Buffers
  <2>3. tag[j - 1] = t /\ valid[j - 1]
    BY Zenon, <1>1, <1>10, <2>1, <2>2
  <2>4. Current(t) = content[j - 1]
    BY Zenon, <1>3, <1>10, <2>2, <2>3, CurrentOf DEF PoolInv, BaseInv, MapInv
  <2>5. i <= LastChange(t, Len(log))
    BY Zenon, <1>2, <1>10, LastIs
  <2> QED
    BY Zenon, <1>7, <2>2, <2>3, <2>4, <2>5
<1> QED
  BY Zenon, <1>4, <1>6, <1>8, <1>9, <1>10 DEF LsnInv, AllLogged

\* At the start no checkpoint is being taken.
LEMMA InitCheckpoint == Init => CheckpointInv
<1> SUFFICES ASSUME Init
             PROVE  CheckpointInv
  OBVIOUS
<1>1. /\ checkpoint_needed = [b \in Buffers |-> FALSE] /\ redo = 0
      /\ pc[Checkpointer] = "idle"
  BY Zenon DEF Init, Procs
<1>2. RedoDone
  BY SMTT(40), Z3T(40), <1>1 DEF RedoDone
<1>3. Pending
  BY Zenon, <1>1 DEF Pending, Checkpointing, Unpinning
<1> QED
  BY Zenon, <1>1, <1>2, <1>3 DEF CheckpointInv

\* The pool always satisfies it, for any number of buffers, pages and processes.
THEOREM PoolInvHolds == Spec => []PoolInv
<1>1. Init => PoolInv
  BY Zenon, InitTyped, InitMapInv, InitLocks, InitDrops, InitCleanup, InitContent DEF PoolInv, BaseInv
<1> QED
  BY <1>1, PoolStep, PTL DEF Spec

\* The shared buffer pool implements PageStore, for any number of buffers and
\* processes: eviction, writes, failed I/O, checkpoints and collisions never change
\* what a reader of a page gets, and no logged change and no hint is lost.
THEOREM PoolIsTransparent == Spec => Transparent
  BY StoreInit, StoreStep, PoolInvHolds, PTL DEF Spec, Transparent, Store!Spec

\* Replay from the redo pointer up to any end of the log that a crash leaves.
LEMMA ReplayIsComplete ==
    ASSUME PoolInv, LsnInv, CheckpointInv
    PROVE  CrashSafe
<1> SUFFICES ASSUME NEW t \in Pages, t \notin dropped, NEW n \in flushed .. Len(log)
             PROVE  LET S == {disk[t].lsn} \cup {i \in redo + 1 .. n : log[i] = t} IN
                    (CHOOSE i \in S : \A j \in S : j <= i) = LastChange(t, n)
  BY Zenon DEF CrashSafe
<1> DEFINE d == disk[t].lsn
           S == {d} \cup {i \in redo + 1 .. n : log[i] = t}
           T == {0} \cup {i \in 1 .. n : log[i] = t}
<1>1. /\ Len(log) \in Nat /\ flushed \in 0 .. Len(log) /\ redo \in 0 .. flushed
  BY Zenon, Lsns DEF LsnInv, WalTyped
<1>2. n \in Nat /\ n <= Len(log) /\ redo <= n /\ redo \in Nat /\ flushed <= n
  BY SMTT(40), Z3T(40), <1>1
<1>3. d \in Nat /\ d <= flushed /\ (d # 0 => log[d] = t)
  <2>1. FileLsn(t) /\ d \in 0 .. Len(log)
    BY Zenon, Lsns DEF LsnInv
  <2> QED
    BY SMTT(40), Z3T(40), <1>1, <2>1 DEF FileLsn, OwnLsn
<1>4. \A i \in 1 .. redo : log[i] = t => i <= d
  BY Zenon DEF CheckpointInv, RedoDone
<1> HIDE DEF d
<1>5. S \subseteq 0 .. n /\ S # {} /\ T \subseteq 0 .. n
  BY SMTT(40), Z3T(40), <1>1, <1>2, <1>3
<1>6. PICK m \in S : \A j \in S : j <= m
  <2> HIDE DEF S
  <2> QED
    BY Zenon, <1>2, <1>5, GreatestUpTo
<1>7. m \in T
  BY SMTT(40), Z3T(40), <1>1, <1>2, <1>3, <1>6
<1>8. ASSUME NEW j \in T
      PROVE  j <= m
  <2>1. d <= m /\ m \in Nat
    BY SMTT(40), Z3T(40), <1>1, <1>2, <1>3, <1>6
  <2>2. CASE j = 0
    BY SMTT(40), Z3T(40), <2>1, <2>2
  <2>3. CASE j \in 1 .. redo
    BY SMTT(40), Z3T(40), <1>2, <1>3, <1>4, <1>8, <2>1, <2>3
  <2>4. CASE j \in redo + 1 .. n
    <3>1. j \in S
      BY SMTT(40), Z3T(40), <1>2, <1>8, <2>4
    <3> QED
      BY Zenon, <1>6, <3>1
  <2> QED
    BY SMTT(40), Z3T(40), <1>2, <2>2, <2>3, <2>4
<1>9. LastChange(t, n) = CHOOSE i \in T : \A j \in T : j <= i
  BY Zenon DEF LastChange
<1>10. S \subseteq Nat /\ T \subseteq Nat
  BY SMTT(40), Z3T(40), <1>2, <1>5
<1>11. /\ (CHOOSE i \in S : \A j \in S : j <= i) = m
       /\ (CHOOSE i \in T : \A j \in T : j <= i) = m
  <2> HIDE DEF S, T
  <2> QED
    BY Zenon, <1>6, <1>7, <1>8, <1>10, GreatestIs
<1> QED
  BY Zenon, <1>9, <1>11 DEF d

\* A crash loses nothing that has been flushed and replays nothing onto a younger page:
\* the pool writes no page before its log record and no checkpoint moves the redo pointer
\* past a change that is not in its file, for any number of buffers, pages and processes.
THEOREM CrashLosesNothing == Spec => []CrashSafe
<1> DEFINE Inv == PoolInv /\ LsnInv /\ CheckpointInv
<1>1. Init => Inv
  BY Zenon, InitTyped, InitMapInv, InitLocks, InitDrops, InitCleanup, InitContent, InitLsn,
      InitCheckpoint DEF PoolInv, BaseInv
<1>2. Inv /\ [Next]_vars => Inv'
  BY Zenon, PoolStep, LsnStep, CheckpointStep
<1>3. Inv => CrashSafe
  BY Zenon, ReplayIsComplete
<1> QED
  BY <1>1, <1>2, <1>3, PTL DEF Spec
=============================================================================
