---------------------------- MODULE SInvalProofs ----------------------------
(***************************************************************************)
(* The message numbers of the invalidation queue stay in order, and away   *)
(* from the limits of an int; every message that a backend has yet to be   *)
(* told of is in its batch, in the queue, or covered by its reset; and     *)
(* ReceiveSharedInvalidMessages keeps its guarantee: whatever the number   *)
(* of backends and the sizes of the queue and the batches.                 *)
(***************************************************************************)
EXTENDS SInval, TLAPS

\* The types of what the argument is about.
Types ==
    /\ minMsgNum \in Int /\ maxMsgNum \in Int
    /\ lastBackend \in 0 .. MaxBackends
    /\ active \in [Slot -> BOOLEAN]
    /\ resetState \in [Slot -> BOOLEAN]
    /\ sendOnly \in [Slot -> BOOLEAN]
    /\ nextMsgNum \in [Slot -> Int]
    /\ writeLock \in {NoOne} \cup Slot
    /\ readLock \subseteq Slot
    /\ pc \in [Slot -> Location]
    /\ data \in [Slot -> Seq(Msg)]
    /\ max \in [Slot -> Int]
    /\ frames \in [Slot -> Seq({"drain", "process", "caught_up"})]

\* SICleanupQueue looks at the slots below lastBackend: no backend is above.
Slots ==
    \A b \in Slot : /\ active[b] => b <= lastBackend
                    /\ ~active[b] => pc[b] = "idle"

Locks ==
    \A b \in Slot :
        /\ pc[b] \in {"fill", "publish", "kick", "insert_clean", "receive_clean"}
               => writeLock = b
        /\ pc[b] \in {"fetch", "copy"} => b \in readLock

\* The test of SIInsertDataEntries still holds when the entries are published.
Room ==
    \A b \in Slot : pc[b] = "publish" =>
        maxMsgNum - minMsgNum + nthistime(b) <= MAXNUMMESSAGES

\* The max a reader works with, while its shared lock keeps cleaning away.
Fetched ==
    \A b \in Slot : pc[b] = "copy" =>
        /\ minMsgNum <= max[b] /\ max[b] <= maxMsgNum
        /\ Tracked(b) => nextMsgNum[b] <= max[b]

IInv == Types /\ MsgNumsOrdered /\ Slots /\ Locks /\ Room /\ Fetched


-----------------------------------------------------------------------------
\* A sequence is a function of the positions up to its length.
LEMMA SeqLength ==
    ASSUME NEW S, NEW s \in Seq(S)
    PROVE  Len(s) \in Nat /\ s \in [1 .. Len(s) -> S] /\ DOMAIN s = 1 .. Len(s)
BY SMTT(40), Z3T(40)

\* An element of a sequence.
LEMMA SeqElement ==
    ASSUME NEW S, NEW s \in Seq(S), NEW i \in 1 .. Len(s)
    PROVE  s[i] \in S
BY SMTT(40), Z3T(40)

\* Only the empty sequence has length 0.
LEMMA SeqEmpty ==
    ASSUME NEW S
    PROVE  /\ <<>> \in Seq(S) /\ Len(<<>>) = 0
           /\ \A s \in Seq(S) : s # <<>> => Len(s) \in Nat \ {0}
BY SMTT(40), Z3T(40)

\* What is left when the first element has been taken.
LEMMA SeqTail ==
    ASSUME NEW S, NEW s \in Seq(S), s # <<>>
    PROVE  \E t \in Seq(S) : /\ t = Tail(s) /\ Len(t) = Len(s) - 1
                             /\ \A i \in 1 .. Len(t) : t[i] = s[i + 1]
<1>1. /\ Tail(s) \in Seq(S) /\ Len(Tail(s)) = Len(s) - 1
      /\ \A i \in 1 .. Len(Tail(s)) : Tail(s)[i] = s[i + 1]
  BY SMTT(40), Z3T(40)
<1> QED
  BY Zenon, <1>1

\* One sequence after another.
LEMMA SeqConcat ==
    ASSUME NEW S, NEW s \in Seq(S), NEW t \in Seq(S)
    PROVE  /\ s \o t \in Seq(S)
           /\ Len(s \o t) = Len(s) + Len(t)
           /\ \A i \in 1 .. Len(s) + Len(t) :
                 (s \o t)[i] = IF i <= Len(s) THEN s[i] ELSE t[i - Len(s)]
BY SMTT(40), Z3T(40)

\* A part of a sequence.
LEMMA SeqPart ==
    ASSUME NEW S, NEW s, NEW m \in Int, NEW n \in Int, \A i \in m .. n : s[i] \in S
    PROVE  /\ SubSeq(s, m, n) \in Seq(S)
           /\ Len(SubSeq(s, m, n)) = IF m <= n THEN n - m + 1 ELSE 0
           /\ \A i \in 1 .. n - m + 1 : SubSeq(s, m, n)[i] = s[m + i - 1]
BY SMTT(40), Z3T(40)

\* The first m elements of a sequence.
LEMMA SeqPrefix ==
    ASSUME NEW S, NEW s \in Seq(S), NEW m \in Nat, m <= Len(s)
    PROVE  /\ SubSeq(s, 1, m) \in Seq(S) /\ Len(SubSeq(s, 1, m)) = m
           /\ \A i \in 1 .. m : SubSeq(s, 1, m)[i] = s[i]
BY SMTT(40), Z3T(40)

\* Taking the same number from both sides of a comparison.
LEMMA MinusMonotone ==
    ASSUME NEW a \in Int, NEW b \in Int, NEW w \in Nat, a <= b
    PROVE  a - w <= b - w
BY SMTT(40), Z3T(40)

\* The x - f messages from f on, and those of them after the first n.
LEMMA AfterFirst ==
    ASSUME NEW x \in Int, NEW f \in Int, NEW n \in Nat
    PROVE  0 + (x - f) = n + (x - (f + n))
BY SMTT(40), Z3T(40)

\* Counting from a later first position.
LEMMA IndexAfterFirst ==
    ASSUME NEW x \in Int, NEW f \in Int, NEW n \in Nat, NEW j \in 1 .. x - (f + n)
    PROVE  n + j \in 1 .. x - f /\ 0 + (n + j) = n + j /\ f + (n + j) - 1 = f + n + j - 1
BY SMTT(40), Z3T(40)

-----------------------------------------------------------------------------
\* Int32 leaves alone what an int can hold.
LEMMA Int32Exact ==
    ASSUME NEW i \in Int, -INT_MAX - 1 <= i, i <= INT_MAX
    PROVE  Int32(i) = i
BY SMTT(40), Z3T(40), SInvalAssumption DEF Int32

\* An int has a value after every operation.
LEMMA Int32Type == \A i \in Int : Int32(i) \in Int
BY SMTT(40), Z3T(40), SInvalAssumption DEF Int32

\* A round of SIInsertDataEntries inserts no more than what is left.
LEMMA NthistimeType ==
    ASSUME Types, NEW b \in Slot
    PROVE  nthistime(b) \in Nat /\ nthistime(b) <= WRITE_QUANTUM
BY SMTT(40), Z3T(40), SInvalAssumption, SeqLength DEF Types, nthistime

\* The message numbers when the segment has been created.
LEMMA InitIInv == Init => IInv
<1> SUFFICES ASSUME Init PROVE IInv
    OBVIOUS
<1> USE SInvalAssumption DEF Init, Slot
<1>1. Types
    BY SMTT(40), Z3T(40), SeqEmpty DEF Types, Location, NoOne
<1>2. MsgNumsOrdered
    BY SMTT(40), Z3T(40) DEF MsgNumsOrdered, Tracked
<1>3. Slots /\ Locks /\ Room /\ Fetched
    BY Zenon DEF Slots, Locks, Room, Fetched
<1> QED
    BY Zenon, <1>1, <1>2, <1>3 DEF IInv

-----------------------------------------------------------------------------
\* Steps of b that change none of the message numbers nor who is tracked.
Quiet == UNCHANGED <<minMsgNum, maxMsgNum, lastBackend, nextMsgNum, active,
                      resetState, sendOnly>>

\* The backends that count stay the same when no flag changes.
LEMMA QuietTracked ==
    ASSUME Quiet, NEW c \in Slot
    PROVE  Tracked(c)' <=> Tracked(c)
BY Zenon DEF Quiet, Tracked

\* The order of the numbers when none of them changes.
LEMMA QuietOrdered ==
    ASSUME MsgNumsOrdered, Quiet
    PROVE  MsgNumsOrdered'
BY Zenon, QuietTracked DEF Quiet, MsgNumsOrdered

\* SharedInvalBackendInit: a backend starts at the end of the queue.
LEMMA InitStep ==
    ASSUME IInv, NEW b \in Slot, NEW only \in BOOLEAN,
           SharedInvalBackendInit(b, only)
    PROVE  IInv'
<1> USE SInvalAssumption DEF IInv, SharedInvalBackendInit, FirstToRead
<1>1. Types'
    BY SMTT(40), Z3T(40) DEF Types, Slot, batch
<1>2. \A c \in Slot \ {b} : /\ Tracked(c)' = Tracked(c) /\ active'[c] = active[c]
                              /\ nextMsgNum'[c] = nextMsgNum[c]
    BY Zenon DEF Types, Tracked
<1>3. pc[b] = "idle" /\ pc' = pc /\ nextMsgNum'[b] = maxMsgNum
    BY Zenon DEF Slots, Types
<1>4. MsgNumsOrdered'
    BY SMTT(40), Z3T(40), <1>2, <1>3 DEF MsgNumsOrdered, Types
<1>5. Slots'
    BY SMTT(40), Z3T(40), <1>1, <1>2, <1>3 DEF Slots, Types, Slot
<1>6. Locks' /\ Room'
    BY Zenon, <1>3 DEF Locks, Room, nthistime
<1>7. Fetched'
    BY Zenon, <1>2, <1>3 DEF Fetched, Tracked
<1> QED
    BY <1>1, <1>4, <1>5, <1>6, <1>7

\* CleanupInvalidationState: an exit only takes a backend out of the count.
LEMMA ExitStep ==
    ASSUME IInv, NEW b \in Slot, CleanupInvalidationState(b)
    PROVE  IInv'
<1> USE SInvalAssumption DEF IInv, CleanupInvalidationState
<1>0. lastBackend' \in 0 .. MaxBackends
    BY SMTT(40), Z3T(40) DEF Types, Slot
<1>1. Types'
    BY SMTT(40), Z3T(40), <1>0 DEF Types
<1>2. \A c \in Slot \ {b} : /\ Tracked(c)' = Tracked(c) /\ active'[c] = active[c]
                              /\ nextMsgNum'[c] = nextMsgNum[c]
    BY Zenon DEF Types, Tracked
<1>3. ~active'[b] /\ pc[b] = "idle" /\ pc' = pc
    BY Zenon DEF Types
<1>4. MsgNumsOrdered'
    BY Zenon, <1>2, <1>3 DEF MsgNumsOrdered, Tracked
<1>5. Slots'
    BY Zenon, <1>2, <1>3 DEF Slots
<1>6. Locks' /\ Room'
    BY Zenon, <1>3 DEF Locks, Room, nthistime
<1>7. Fetched'
    BY Zenon, <1>2, <1>3 DEF Fetched, Tracked
<1> QED
    BY <1>1, <1>4, <1>5, <1>6, <1>7


\* What a step of b that is Quiet and moves b to l has to respect.
LEMMA QuietStep ==
    ASSUME IInv, Quiet, Types', NEW b \in Slot, NEW l \in Location,
           active[b], Goto(b, l), max' = max,
           \A c \in Slot \ {b} : data'[c] = data[c],
           \A c \in Slot \ {b} : c \in readLock => c \in readLock',
           \A c \in Slot \ {b} : writeLock = c => writeLock' = c,
           l \in {"fill", "publish", "kick", "insert_clean", "receive_clean"}
               => writeLock' = b,
           l = "fetch" => b \in readLock',
           l = "publish" =>
               maxMsgNum - minMsgNum + nthistime(b)' <= MAXNUMMESSAGES,
           l # "copy"
    PROVE  IInv'
<1> USE DEF IInv, Goto
<1>1. MsgNumsOrdered'
    BY QuietOrdered
<1>2. \A c \in Slot \ {b} : pc'[c] = pc[c]
    BY Zenon DEF Types
<1>3. pc'[b] = l
    BY Zenon DEF Types
<1>4. Slots'
    BY Zenon, <1>2, <1>3 DEF Slots, Quiet
<1>5. Locks'
    BY Zenon, <1>2, <1>3 DEF Locks
<1>6. Room'
    BY Zenon, <1>2, <1>3 DEF Room, nthistime, Quiet
<1>7. Fetched'
    BY Zenon, <1>2, <1>3, QuietTracked DEF Fetched, Quiet
<1> QED
    BY <1>1, <1>4, <1>5, <1>6, <1>7

\* ReceiveSharedInvalidMessages returns to a place that a nested call was made from.
LEMMA ReturnTarget ==
    ASSUME Types, NEW b \in Slot, Return(b)
    PROVE  /\ \E l \in {"idle", "drain", "process", "caught_up"} : Goto(b, l)
           /\ frames' \in [Slot -> Seq({"drain", "process", "caught_up"})]
<1>1. CASE frames[b] = <<>>
    BY Zenon, <1>1 DEF Return, Types
<1>2. CASE frames[b] # <<>>
  <2>1. /\ Head(frames[b]) \in {"drain", "process", "caught_up"}
        /\ Tail(frames[b]) \in Seq({"drain", "process", "caught_up"})
    <3>1. frames[b] \in Seq({"drain", "process", "caught_up"})
      BY Zenon DEF Types
    <3> QED
      BY SMTT(40), Z3T(40), <1>2, <3>1
  <2> QED
    BY Zenon, <1>2, <2>1 DEF Return, Types
<1> QED
    BY <1>1, <1>2

\* Where control goes on when a backend has been told something.
LEMMA ToldTarget ==
    ASSUME Types, NEW b \in Slot, NEW l \in {"drain", "process", "caught_up"}, Told(b, l)
    PROVE  /\ \E k \in {"drain", "process", "caught_up"} : Goto(b, k)
           /\ frames' \in [Slot -> Seq({"drain", "process", "caught_up"})]
<1>1. <<l>> \o frames[b] \in Seq({"drain", "process", "caught_up"})
    BY SMTT(40), Z3T(40), SeqConcat DEF Types
<1> QED
    BY Zenon, <1>1 DEF Told, Types

\* The steps of an insertion, publishing aside.
LEMMA InsertionStep ==
    ASSUME IInv, NEW b \in Slot, Insertion(b), ~Publish(b)
    PROVE  IInv'
<1> USE SInvalAssumption
<1>1. ASSUME NEW msgs \in Calls[b], SendSharedInvalidMessages(b, msgs)
      PROVE  IInv'
  <2> USE <1>1 DEF SendSharedInvalidMessages
  <2>1. Types'
    BY Zenon DEF IInv, Types, Goto, Location, seg, flags, batch, Slot
  <2>2. Quiet
    BY Zenon DEF Quiet, seg, flags
  <2> QED
    BY Zenon, <2>1, <2>2, QuietStep DEF Location, seg, IInv, Types
<1>2. CASE TakeWriteLock(b)
  <2> USE <1>2 DEF TakeWriteLock
  <2>1. Types'
    BY Zenon DEF IInv, Types, Goto, Location, seg, flags, batch, Slot
  <2>2. Quiet
    BY Zenon DEF Quiet, seg, flags
  <2>3. active[b]
    BY Zenon DEF IInv, Slots
  <2>4. writeLock = 0 /\ writeLock' = b
    BY Zenon DEF NoOne
  <2> QED
    BY SMTT(40), Z3T(40), <2>1, <2>2, <2>3, <2>4, QuietStep DEF Location, Slot
<1>3. CASE Fill(b)
  <2> USE <1>3 DEF Fill
  <2>1. Types'
    BY Zenon DEF IInv, Types, Goto, Location, flags, batch
  <2>2. Quiet
    BY Zenon DEF Quiet, flags
  <2>3. active[b] /\ writeLock = b
    BY Zenon DEF IInv, Slots, Locks
  <2>4. CASE MustClean(b)
    BY Zenon, <2>1, <2>2, <2>3, <2>4, QuietStep DEF Location
  <2>5. CASE ~MustClean(b)
    <3>1. maxMsgNum - minMsgNum + nthistime(b) <= MAXNUMMESSAGES
      BY SMTT(40), Z3T(40), <2>5, NthistimeType DEF MustClean, IInv, Types
    <3>2. nthistime(b)' = nthistime(b)
      BY Zenon DEF nthistime
    <3> QED
      BY Zenon, <2>1, <2>2, <2>3, <2>5, <3>1, <3>2, QuietStep DEF Location
  <2> QED
    BY <2>4, <2>5
<1>4. CASE Kick(b)
  <2> USE <1>4 DEF Kick
  <2>1. SubSeq(data[b], nthistime(b) + 1, Len(data[b])) \in Seq(Msg)
    <3>1. data[b] \in Seq(Msg) /\ nthistime(b) \in Nat
      BY Zenon, NthistimeType DEF IInv, Types
    <3> QED
      BY SMTT(40), Z3T(40), <3>1, SeqPart
  <2>2. Types'
    BY Zenon, <2>1 DEF IInv, Types, Goto, Location, seg, batch, NoOne
  <2>3. Quiet
    BY Zenon DEF Quiet, seg
  <2>4. active[b] /\ writeLock = b
    BY Zenon DEF IInv, Slots, Locks
  <2>5. \A c \in Slot \ {b} : data'[c] = data[c]
    BY Zenon DEF IInv, Types
  <2> QED
    BY Zenon, <2>2, <2>3, <2>4, <2>5, QuietStep DEF Location
<1> QED
  BY Zenon, <1>1, <1>2, <1>3, <1>4 DEF Insertion

\* The one step that adds to maxMsgNum: there is room, so an int can hold it.
LEMMA PublishStep ==
    ASSUME IInv, NEW b \in Slot, Publish(b)
    PROVE  IInv'
<1> USE SInvalAssumption DEF IInv, Publish
<1>1. nthistime(b) \in Nat /\ maxMsgNum - minMsgNum + nthistime(b) <= MAXNUMMESSAGES
    BY Zenon, NthistimeType DEF Room
<1>2. maxMsgNum' = maxMsgNum + nthistime(b)
    BY SMTT(40), Z3T(40), <1>1, Int32Exact DEF Types, MsgNumsOrdered
<1>3. Types'
    BY SMTT(40), Z3T(40), <1>1, <1>2 DEF Types, Goto, Location, flags, batch
<1>4. \A c \in Slot : /\ Tracked(c)' = Tracked(c)
                      /\ pc'[c] = IF c = b THEN "kick" ELSE pc[c]
    BY Zenon DEF Tracked, flags, Goto, Types
<1>5. MsgNumsOrdered'
    BY SMTT(40), Z3T(40), <1>1, <1>2, <1>4 DEF MsgNumsOrdered, Types
<1>6. Slots'
    BY Zenon, <1>4 DEF Slots, flags
<1>7. writeLock = b /\ Locks'
    BY Zenon, <1>4 DEF Locks
<1>8. Room'
    BY Zenon, <1>4, <1>7 DEF Room, Locks
<1>9. Fetched'
    BY SMTT(40), Z3T(40), <1>1, <1>2, <1>4 DEF Fetched, Types
<1> QED
    BY <1>3, <1>5, <1>6, <1>7, <1>8, <1>9


-----------------------------------------------------------------------------
\* The steps of a reception that read no message.
LEMMA ReceptionStep ==
    ASSUME IInv, NEW b \in Slot, Reception(b),
           ~FetchMax(b), ~TakeReset(b), ~CopyEntries(b)
    PROVE  IInv'
<1> USE SInvalAssumption
<1>1. CASE ReceiveSharedInvalidMessages(b)
  <2> USE <1>1 DEF ReceiveSharedInvalidMessages
  <2>1. Types' /\ Quiet
    BY Zenon DEF IInv, Types, Goto, Location, seg, flags, batch, Quiet
  <2> QED
    BY Zenon, <2>1, QuietStep DEF Location
<1>2. ASSUME NEW l \in {"drain", "process"}, Invalidate(b, l)
      PROVE  IInv'
  <2> USE <1>2 DEF Invalidate
  <2>1. /\ frames' \in [Slot -> Seq({"drain", "process", "caught_up"})]
        /\ \E k \in {"drain", "process", "caught_up"} : Goto(b, k)
    BY Zenon, ToldTarget DEF IInv
  <2>2. Types' /\ Quiet
    BY Zenon, <2>1 DEF IInv, Types, Goto, Location, seg, flags, Quiet
  <2>3. active[b]
    BY Zenon DEF IInv, Slots
  <2> QED
    BY Zenon, <2>1, <2>2, <2>3, QuietStep DEF Location
<1>3. CASE LoopEnds(b)
  <2> USE <1>3 DEF LoopEnds
  <2>1. \E l \in {"test", "caught_up"} : Goto(b, l)
    OBVIOUS
  <2>2. Types' /\ Quiet
    BY Zenon, <2>1 DEF IInv, Types, Goto, Location, seg, flags, batch, Quiet
  <2>3. active[b]
    BY Zenon DEF IInv, Slots
  <2> QED
    BY Zenon, <2>1, <2>2, <2>3, QuietStep DEF Location
<1>4. CASE TestHasMessages(b)
  <2> USE <1>4 DEF TestHasMessages
  <2>1. \E l \in {"lock", "caught_up"} : Goto(b, l)
    OBVIOUS
  <2>2. Types' /\ Quiet
    BY Zenon, <2>1 DEF IInv, Types, Goto, Location, seg, flags, Quiet
  <2>3. active[b]
    BY Zenon DEF IInv, Slots
  <2> QED
    BY Zenon, <2>1, <2>2, <2>3, QuietStep DEF Location
<1>5. CASE LockAndClear(b)
  <2> USE <1>5 DEF LockAndClear
  <2>1. Types' /\ Quiet
    BY Zenon DEF IInv, Types, Goto, Location, seg, batch, Quiet
  <2>2. active[b]
    BY Zenon DEF IInv, Slots
  <2> QED
    BY Zenon, <2>1, <2>2, QuietStep DEF Location
<1>6. CASE CaughtUp(b)
  <2> USE <1>6 DEF CaughtUp
  <2>1. /\ frames' \in [Slot -> Seq({"drain", "process", "caught_up"})]
        /\ \E l \in {"idle", "drain", "process", "caught_up", "pass_on"} : Goto(b, l)
    BY SMTT(40), Z3T(40), ReturnTarget DEF IInv, Types
  <2>2. Types' /\ Quiet
    BY Zenon, <2>1 DEF IInv, Types, Goto, Location, seg, flags, Quiet
  <2>3. active[b]
    BY Zenon DEF IInv, Slots
  <2> QED
    BY Zenon, <2>1, <2>2, <2>3, QuietStep DEF Location
<1> QED
  BY Zenon, <1>1, <1>2, <1>3, <1>4, <1>5, <1>6 DEF Reception

\* The max that a reader fetches is the current one.
LEMMA FetchStep ==
    ASSUME IInv, NEW b \in Slot, FetchMax(b)
    PROVE  IInv'
<1> USE DEF IInv, FetchMax
<1>1. Types' /\ Quiet
    BY Zenon DEF Types, Goto, Location, seg, flags, batch, Quiet
<1>2. \A c \in Slot : /\ pc'[c] = IF c = b THEN "copy" ELSE pc[c]
                      /\ max'[c] = IF c = b THEN maxMsgNum ELSE max[c]
    BY Zenon DEF Types, Goto
<1>3. MsgNumsOrdered'
    BY <1>1, QuietOrdered
<1>4. Slots' /\ Locks' /\ Room'
    BY Zenon, <1>1, <1>2 DEF Slots, Locks, Room, nthistime, Quiet
<1>5. Fetched'
    BY SMTT(40), Z3T(40), <1>1, <1>2, QuietTracked DEF Fetched, Quiet, MsgNumsOrdered, Types
<1> QED
    BY <1>1, <1>3, <1>4, <1>5

\* A reader moves forward, and not past the max it fetched.
LEMMA ReadStep ==
    ASSUME IInv, NEW b \in Slot, TakeReset(b) \/ CopyEntries(b)
    PROVE  IInv'
<1> USE SInvalAssumption DEF IInv
<1> DEFINE new == nextMsgNum'[b]
<1>1. /\ pc[b] = "copy" /\ active[b] /\ b \in readLock
      /\ readLock' = readLock \ {b}
      /\ UNCHANGED <<minMsgNum, maxMsgNum, lastBackend, active, sendOnly, writeLock, data>>
    BY Zenon DEF TakeReset, CopyEntries, Slots, Locks, seg
<1>2. minMsgNum <= max[b] /\ max[b] <= maxMsgNum
    BY Zenon, <1>1 DEF Fetched
<1>3. /\ resetState' \in [Slot -> BOOLEAN]
      /\ \A c \in Slot \ {b} : resetState'[c] = resetState[c]
    BY Zenon DEF TakeReset, CopyEntries, Types
<1>4. /\ \E l \in {"drain", "process", "caught_up"} : Goto(b, l)
      /\ frames' \in [Slot -> Seq({"drain", "process", "caught_up"})]
    BY Zenon, ToldTarget DEF TakeReset, CopyEntries, Types
<1>5. /\ nextMsgNum' \in [Slot -> Int]
      /\ \A c \in Slot \ {b} : nextMsgNum'[c] = nextMsgNum[c]
      /\ active[b] /\ ~sendOnly[b] => minMsgNum <= new /\ new <= maxMsgNum
  <2>1. CASE TakeReset(b)
    BY Zenon, <1>2, <2>1 DEF TakeReset, Types
  <2>2. CASE CopyEntries(b)
    <3>1. nextMsgNum' = [nextMsgNum EXCEPT ![b] = Int32(@ + Extracted(b))]
      BY Zenon, <2>2 DEF CopyEntries
    <3>2. Extracted(b) \in Int
      BY SMTT(40), Z3T(40) DEF Extracted, Types
    <3>3. ASSUME ~sendOnly[b]
          PROVE  minMsgNum <= new /\ new <= maxMsgNum
      <4>1. nextMsgNum[b] <= max[b] /\ minMsgNum <= nextMsgNum[b]
        BY Zenon, <1>1, <2>2, <3>3 DEF CopyEntries, Tracked, Fetched, MsgNumsOrdered
      <4>2. 0 <= Extracted(b) /\ nextMsgNum[b] + Extracted(b) <= max[b]
        BY SMTT(40), Z3T(40), <4>1 DEF Extracted, Types
      <4>3. nextMsgNum[b] + Extracted(b) <= INT_MAX /\ nextMsgNum[b] + Extracted(b) >= 0
        BY SMTT(40), Z3T(40), <1>2, <3>2, <4>1, <4>2 DEF MsgNumsOrdered, Types
      <4>4. Int32(nextMsgNum[b] + Extracted(b)) = nextMsgNum[b] + Extracted(b)
        BY SMTT(40), Z3T(40), <3>2, <4>3, Int32Exact DEF Types
      <4> QED
        BY SMTT(40), Z3T(40), <1>2, <3>1, <3>2, <4>1, <4>2, <4>4 DEF Types
    <3>4. Int32(nextMsgNum[b] + Extracted(b)) \in Int
      BY SMTT(40), Z3T(40), <3>2, Int32Type DEF Types
    <3> QED
      BY Zenon, <3>1, <3>3, <3>4 DEF Types
  <2> QED
    BY <2>1, <2>2
<1>6. max' \in [Slot -> Int] /\ \A c \in Slot \ {b} : max'[c] = max[c]
    BY SMTT(40), Z3T(40) DEF TakeReset, CopyEntries, Types
<1>7. Types'
  <2>1. pc' \in [Slot -> Location]
    BY Zenon, <1>4 DEF Types, Goto, Location
  <2>2. readLock' \subseteq Slot
    BY Zenon, <1>1 DEF Types
  <2> QED
    BY Zenon, <1>1, <1>3, <1>4, <1>5, <1>6, <2>1, <2>2 DEF Types
<1>8. \A c \in Slot \ {b} : Tracked(c)' = Tracked(c) /\ pc'[c] = pc[c]
    BY Zenon, <1>1, <1>3, <1>4 DEF Tracked, Goto, Types
<1>9. pc'[b] \in {"drain", "process", "caught_up"}
    BY Zenon, <1>4 DEF Goto, Types
<1>10. MsgNumsOrdered'
    BY Zenon, <1>1, <1>5, <1>8 DEF MsgNumsOrdered, Tracked
<1>11. Slots' /\ Locks' /\ Room'
    BY Zenon, <1>1, <1>8, <1>9 DEF Slots, Locks, Room, nthistime
<1>12. Fetched'
    BY Zenon, <1>1, <1>5, <1>6, <1>8, <1>9 DEF Fetched
<1> QED
    BY <1>7, <1>10, <1>11, <1>12

-----------------------------------------------------------------------------
\* SICleanupQueue: its reader lock shows that nobody is between fetching and
\* copying, so every number may move.
LEMMA CleanStep ==
    ASSUME IInv, NEW b \in Slot, Clean(b)
    PROVE  IInv'
<1> USE SInvalAssumption DEF IInv
<1>1. PICK k \in Nat : SICleanupQueue(b, k)
    BY SMTT(40), Z3T(40), NthistimeType DEF Clean
<1>2. /\ pc[b] \in {"insert_clean", "receive_clean"} /\ active[b] /\ writeLock = b
    BY Zenon DEF Clean, Slots, Locks
<1>3. /\ readLock = {}
      /\ UNCHANGED <<lastBackend, active, sendOnly, readLock, data, max>>
    BY Zenon, <1>1 DEF SICleanupQueue
<1>4. PICK min \in {maxMsgNum} \cup {nextMsgNum[c] : c \in Readers(k)} :
        /\ \A c \in Readers(k) : min <= nextMsgNum[c]
        /\ minMsgNum' = min - WrapAround(min)
        /\ maxMsgNum' = Int32(maxMsgNum - WrapAround(min))
        /\ nextMsgNum' = [c \in Slot |->
                             IF c <= lastBackend THEN Int32(nextMsgNum[c] - WrapAround(min))
                             ELSE nextMsgNum[c]]
    BY Zenon, <1>1 DEF SICleanupQueue, Renumbered
<1>5. \A c \in Readers(k) : c \in Slot /\ Tracked(c)
    BY SMTT(40), Z3T(40) DEF Readers, Types, Slot
<1>6. min \in Int /\ minMsgNum <= min /\ min <= maxMsgNum
  <2>1. minMsgNum \in Int /\ maxMsgNum \in Int /\ minMsgNum <= maxMsgNum
    BY Zenon DEF MsgNumsOrdered, Types
  <2>2. CASE min = maxMsgNum
    BY SMTT(40), Z3T(40), <2>1, <2>2
  <2>3. CASE \E c \in Readers(k) : min = nextMsgNum[c]
    <3>1. PICK c \in Readers(k) : min = nextMsgNum[c]
      BY <2>3
    <3>2. nextMsgNum[c] \in Int /\ minMsgNum <= nextMsgNum[c] /\ nextMsgNum[c] <= maxMsgNum
      BY Zenon, <1>5 DEF MsgNumsOrdered, Types
    <3> QED
      BY <3>1, <3>2
  <2> QED
    BY <1>4, <2>2, <2>3
<1>7. PICK w \in Nat : /\ w = WrapAround(min)
                       /\ 0 <= min - w /\ min - w < MSGNUMWRAPAROUND
    BY SMTT(40), Z3T(40), <1>6 DEF WrapAround, MsgNumsOrdered, Types
<1>8. /\ minMsgNum' = min - w
      /\ maxMsgNum' = maxMsgNum - w
      /\ nextMsgNum' = [c \in Slot |-> IF c <= lastBackend THEN Int32(nextMsgNum[c] - w)
                                       ELSE nextMsgNum[c]]
    BY SMTT(40), Z3T(40), <1>4, <1>6, <1>7, Int32Exact DEF MsgNumsOrdered, Types
<1>9. /\ resetState' \in [Slot -> BOOLEAN]
      /\ \A c \in Slot : Tracked(c)' => c \in Readers(k)
  <2>1. resetState' = [c \in Slot |-> resetState[c] \/ c \in TooFarBack(k)]
    BY Zenon, <1>1 DEF SICleanupQueue
  <2>2. ASSUME NEW c \in Slot, Tracked(c)' PROVE c \in Readers(k)
    <3>1. active[c] /\ ~sendOnly[c] /\ ~resetState'[c]
      BY Zenon, <1>3, <2>2 DEF Tracked
    <3>2. ~resetState[c] /\ c \notin TooFarBack(k)
      BY <2>1, <3>1
    <3>3. c \in 1 .. lastBackend
      BY SMTT(40), Z3T(40), <3>1 DEF Slots, Slot, Types
    <3> QED
      BY Zenon, <3>1, <3>2, <3>3 DEF Tracked, Readers
  <2> QED
    BY <2>1, <2>2
<1>10. ASSUME NEW c \in Readers(k)
       PROVE  min <= nextMsgNum[c] /\ nextMsgNum[c] <= maxMsgNum
              /\ nextMsgNum[c] \in Int /\ nextMsgNum'[c] = nextMsgNum[c] - w
  <2>1. c \in Slot /\ Tracked(c) /\ c <= lastBackend
    BY Zenon, <1>5 DEF Tracked, Slots
  <2>2. min <= nextMsgNum[c] /\ nextMsgNum[c] <= maxMsgNum /\ nextMsgNum[c] \in Int
    BY Zenon, <1>4, <2>1 DEF MsgNumsOrdered, Types
  <2>3. maxMsgNum <= INT_MAX /\ maxMsgNum \in Int
    BY SMTT(40), Z3T(40) DEF MsgNumsOrdered, Types
  <2>4. /\ nextMsgNum[c] - w \in Int
        /\ -INT_MAX - 1 <= nextMsgNum[c] - w
        /\ nextMsgNum[c] - w <= INT_MAX
    BY SMTT(40), Z3T(40), <1>6, <1>7, <2>2, <2>3
  <2> QED
    BY <1>8, <2>1, <2>2, <2>4, Int32Exact
<1>11. MsgNumsOrdered'
  <2>1. \A c \in Slot : Tracked(c)' => /\ minMsgNum' <= nextMsgNum'[c]
                                       /\ nextMsgNum'[c] <= maxMsgNum'
    <3> SUFFICES ASSUME NEW c \in Slot, Tracked(c)'
                 PROVE  minMsgNum' <= nextMsgNum'[c] /\ nextMsgNum'[c] <= maxMsgNum'
      OBVIOUS
    <3>1. c \in Readers(k)
      BY <1>9
    <3>2. maxMsgNum \in Int
      BY Zenon DEF Types
    <3>3. /\ min <= nextMsgNum[c] /\ nextMsgNum[c] <= maxMsgNum
          /\ nextMsgNum[c] \in Int /\ nextMsgNum'[c] = nextMsgNum[c] - w
      BY <1>10, <3>1
    <3>4. minMsgNum' = min - w /\ maxMsgNum' = maxMsgNum - w
      BY <1>8
    <3> HIDE DEF IInv
    <3> QED
      BY Zenon, <1>6, <1>7, <3>2, <3>3, <3>4, MinusMonotone
  <2> QED
    BY SMTT(40), Z3T(40), <1>6, <1>7, <1>8, <2>1 DEF MsgNumsOrdered, Types
<1>12. /\ frames' \in [Slot -> Seq({"drain", "process", "caught_up"})]
       /\ \E l \in {"fill", "idle", "drain", "process", "caught_up",
                    "insert_signal", "receive_signal"} :
              Goto(b, l) /\ (l = "fill" => writeLock' = b)
       /\ writeLock' \in {NoOne, b}
  <2>1. CASE /\ NeedSig(k) = {} /\ pc[b] = "insert_clean"
             /\ Goto(b, "fill") /\ UNCHANGED <<writeLock, frames>>
    BY Zenon, <1>2, <2>1 DEF Types
  <2>2. CASE /\ NeedSig(k) = {} /\ pc[b] = "receive_clean"
             /\ Return(b) /\ writeLock' = NoOne
    BY <2>2, ReturnTarget
  <2>3. CASE /\ writeLock' = NoOne /\ UNCHANGED frames
             /\ Goto(b, IF pc[b] = "insert_clean" THEN "insert_signal" ELSE "receive_signal")
    BY Zenon, <2>3 DEF Types
  <2> QED
    BY Zenon, <1>1, <2>1, <2>2, <2>3 DEF SICleanupQueue
<1>13. nextMsgNum' \in [Slot -> Int]
  <2>1. \A c \in Slot : Int32(nextMsgNum[c] - w) \in Int
    BY SMTT(40), Z3T(40), <1>7, Int32Type DEF Types
  <2> QED
    BY Zenon, <1>8, <2>1 DEF Types
<1>14. Types'
    BY SMTT(40), Z3T(40), <1>3, <1>4, <1>6, <1>7, <1>8, <1>9, <1>12, <1>13 DEF Types, Goto,
    Location
<1>15. /\ \A c \in Slot \ {b} : pc'[c] = pc[c]
       /\ pc'[b] \notin {"publish", "kick", "insert_clean", "receive_clean", "copy", "fetch"}
       /\ pc'[b] = "fill" => writeLock' = b
    BY Zenon, <1>12 DEF Goto, Types
<1>16. \A c \in Slot \ {b} : pc[c] \notin {"fill", "publish", "kick", "insert_clean",
                                           "receive_clean", "copy", "fetch"}
    BY Zenon, <1>2, <1>3 DEF Locks
<1>17. Slots' /\ Locks' /\ Room' /\ Fetched'
    BY Zenon, <1>2, <1>3, <1>15, <1>16 DEF Slots, Locks, Room, Fetched
<1> QED
    BY <1>11, <1>14, <1>17

-----------------------------------------------------------------------------
\* Sending and handling a signal moves no number.
LEMMA SignalStep ==
    ASSUME IInv, NEW b \in Slot, SendProcSignal(b) \/ HandleCatchupInterrupt(b)
    PROVE  IInv'
<1>1. CASE SendProcSignal(b)
  <2> USE <1>1 DEF SendProcSignal
  <2>1. /\ frames' \in [Slot -> Seq({"drain", "process", "caught_up"})]
        /\ \E l \in {"idle", "drain", "process", "caught_up", "insert"} : Goto(b, l)
    BY Zenon, ReturnTarget DEF IInv, Types
  <2>2. Types' /\ Quiet
    BY Zenon, <2>1 DEF IInv, Types, Goto, Location, seg, flags, Quiet
  <2>3. active[b]
    BY Zenon DEF IInv, Slots
  <2> QED
    BY Zenon, <2>1, <2>2, <2>3, QuietStep DEF Location
<1>2. CASE HandleCatchupInterrupt(b)
    BY Zenon, <1>2 DEF HandleCatchupInterrupt, IInv, Types, MsgNumsOrdered, Slots, Locks, Room,
                Fetched, Tracked, nthistime, seg, flags, batch
<1> QED
    BY <1>1, <1>2

\* A stuttering step changes no number.
LEMMA StutterIInv ==
    ASSUME IInv, UNCHANGED vars
    PROVE  IInv'
BY Zenon DEF vars, IInv, Types, MsgNumsOrdered, Slots, Locks, Room, Fetched, Tracked, nthistime

\* Every step keeps the message numbers in order.
LEMMA NextIInv == IInv /\ [Next]_vars => IInv'
<1> SUFFICES ASSUME IInv, [Next]_vars PROVE IInv'
    OBVIOUS
<1>1. CASE UNCHANGED vars
    BY <1>1, StutterIInv
<1>2. CASE Next
  <2>1. PICK b \in Slot :
            \/ \E only \in BOOLEAN : SharedInvalBackendInit(b, only)
            \/ CleanupInvalidationState(b)
            \/ Insertion(b) \/ Reception(b)
            \/ Clean(b) \/ SendProcSignal(b) \/ HandleCatchupInterrupt(b)
    BY Zenon, <1>2 DEF Next
  <2>2. CASE Insertion(b)
    BY <2>2, InsertionStep, PublishStep
  <2>3. CASE Reception(b)
    BY <2>3, ReceptionStep, FetchStep, ReadStep
  <2> QED
    BY <2>1, <2>2, <2>3, InitStep, ExitStep, CleanStep, SignalStep
<1> QED
    BY <1>1, <1>2

\* For every number of backends and every size of the queue, the message numbers
\* keep the order sinvaladt.c:35-38 relies on, no unread slot of the circular
\* buffer is reused, and no counter overflows.
THEOREM MessageNumbersOrdered == Spec => []MsgNumsOrdered
<1>1. IInv => MsgNumsOrdered
    BY Zenon DEF IInv
<1> QED
    BY <1>1, InitIInv, NextIInv, PTL DEF Spec

-----------------------------------------------------------------------------
(* Remainders: where the message with a given number is in the buffer. *)

\* Multiples of m, as far as remainders need them.
LEMMA MulGrows == ASSUME NEW m \in Nat \ {0}, NEW d \in Int
  PROVE /\ m * d \in Int /\ (d >= 1 => m * d >= m) /\ (d <= -1 => m * d <= -m)
  /\ (d = 0 => m * d = 0)
BY SMTT(40), Z3T(40)

\* The definition of \div and %.
LEMMA DivMod == ASSUME NEW m \in Nat \ {0}, NEW a \in Int
  PROVE /\ a % m \in 0 .. m - 1 /\ a \div m \in Int /\ a = m * (a \div m) + (a % m)
BY SMTT(40), Z3T(40)

\* Division with remainder.
LEMMA Quotient == ASSUME NEW m \in Nat \ {0}, NEW a \in Int
  PROVE \E k \in Int, r \in 0 .. m - 1 : r = a % m /\ a = m * k + r
BY Zenon, DivMod

\* A remainder is unique.
LEMMA ModIs == ASSUME NEW m \in Nat \ {0}, NEW a \in Int, NEW q \in Int, NEW r \in 0 .. m - 1,
a = m * q + r
  PROVE a % m = r
<1>1. PICK k \in Int, s \in 0 .. m - 1 : s = a % m /\ a = m * k + s
  BY Zenon, Quotient
<1>2. PICK d \in Int : d = k - q
  BY SMTT(40), Z3T(40)
<1>3. m * d = r - s
  <2>1. m * d = m * k - m * q
    BY SMTT(40), Z3T(40), <1>2
  <2>2. PICK x \in Int, y \in Int, z \in Int : x = m * k /\ y = m * q /\ z = m * d
    BY Zenon, MulGrows
  <2>3. z = x - y /\ a = x + s /\ a = y + r
    BY Zenon, <1>1, <2>1, <2>2
  <2>4. z = r - s
    BY SMTT(40), Z3T(40), <2>3
  <2> QED
    BY Zenon, <2>2, <2>4
<1>4. m * d \in Int /\ (d >= 1 => m * d >= m) /\ (d <= -1 => m * d <= -m)
  BY Zenon, MulGrows
<1>5. PICK e \in Int : e = m * d
  BY Zenon, <1>4
<1>6. d >= 1 => e >= m
  BY Zenon, <1>4, <1>5
<1>7. d <= -1 => e <= -m
  BY Zenon, <1>4, <1>5
<1>8. d = 0 => e = 0
  BY Zenon, MulGrows, <1>5
<1>9. r = s
  BY SMTT(40), Z3T(40), <1>3, <1>5, <1>6, <1>7, <1>8
<1> QED
  BY Zenon, <1>1, <1>9

\* Numbers that differ by a multiple of m have the same remainder.
LEMMA ModShift == ASSUME NEW m \in Nat \ {0}, NEW a \in Int, NEW w \in Int, w % m = 0
  PROVE (a - w) % m = a % m
<1>1. PICK k \in Int, r \in 0 .. m - 1 : r = a % m /\ a = m * k + r
  BY Zenon, Quotient
<1>2. PICK j \in Int : w = m * j + 0
  BY Zenon, DivMod
<1>3. PICK d \in Int : d = k - j
  BY SMTT(40), Z3T(40)
<1>4. m * d = m * k - m * j
  BY SMTT(40), Z3T(40), <1>3
<1>5. PICK x \in Int, y \in Int, z \in Int : x = m * k /\ y = m * j /\ z = m * d
  BY Zenon, MulGrows
<1>6. a - w = m * d + r /\ a - w \in Int
  <2>1. z = x - y /\ a = x + r /\ w = y + 0
    BY Zenon, <1>1, <1>2, <1>4, <1>5
  <2>2. a - w = z + r /\ a - w \in Int
    BY SMTT(40), Z3T(40), <2>1
  <2> QED
    BY Zenon, <1>5, <2>2
<1> QED
  BY Zenon, <1>1, <1>6, ModIs

\* Distinct numbers less than m apart have distinct remainders.
LEMMA ModApart == ASSUME NEW m \in Nat \ {0}, NEW a \in Int, NEW k \in 0 .. m - 1
  PROVE (((a + k) % m) - a) % m = k
<1>1. PICK j \in Int, r \in 0 .. m - 1 : r = (a + k) % m /\ a + k = m * j + r
  <2>1. a + k \in Int
    BY SMTT(40), Z3T(40)
  <2> QED
    BY Zenon, <2>1, DivMod
<1>2. PICK d \in Int : d = - j
  BY SMTT(40), Z3T(40)
<1>3. m * d = - (m * j) /\ m * j \in Int
  BY SMTT(40), Z3T(40), <1>2
<1>4. r - a = m * d + k /\ r - a \in Int
  <2>1. PICK x \in Int, y \in Int : x = m * j /\ y = m * d
    BY Zenon, MulGrows
  <2>2. y = - x /\ a + k = x + r
    BY Zenon, <1>1, <1>3, <2>1
  <2>3. r - a = y + k /\ r - a \in Int
    BY SMTT(40), Z3T(40), <2>2
  <2> QED
    BY Zenon, <2>1, <2>3
<1> QED
  BY Zenon, <1>1, <1>4, ModIs

\* Counted from a on, the place of the number t before a is t before the end.
LEMMA ModBehind ==
    ASSUME NEW m \in Nat \ {0}, NEW a \in Int, NEW t \in 1 .. m
    PROVE  (((a - t) % m) - a) % m = m - t
<1>1. PICK z \in Int, k \in 0 .. m - 1, r \in Int :
          z = a - m /\ k = m - t /\ r = (a - t) % m /\ z + k = a - t
  <2>1. a - m \in Int /\ m - t \in 0 .. m - 1 /\ (a - m) + (m - t) = a - t /\ a - t \in Int
    BY SMTT(40), Z3T(40)
  <2>2. (a - t) % m \in 0 .. m - 1
    BY Zenon, <2>1, DivMod
  <2>3. (a - t) % m \in Int
    BY SMTT(40), Z3T(40), <2>2
  <2> QED
    BY Zenon, <2>1, <2>3
<1>2. (r - z) % m = k
  BY Zenon, <1>1, ModApart
<1>3. m % m = 0
  <2>1. m = m * 1 + 0 /\ m \in Int /\ 0 \in 0 .. m - 1 /\ 1 \in Int
    BY SMTT(40), Z3T(40)
  <2> QED
    BY Zenon, <2>1, ModIs
<1>4. r - z \in Int /\ m \in Int /\ (r - z) - m = r - a
  BY SMTT(40), Z3T(40), <1>1
<1>5. ((r - z) - m) % m = (r - z) % m
  BY Zenon, <1>3, <1>4, ModShift
<1> QED
  BY Zenon, <1>1, <1>2, <1>4, <1>5

-----------------------------------------------------------------------------
(* What the queue holds for each backend, and what it has been told. *)

Content == Msg \cup {RESET, "unused"}

QTypes ==
    /\ buffer \in [0 .. MAXNUMMESSAGES - 1 -> Content]
    /\ hasMessages \in [Slot -> BOOLEAN]
    /\ messages \in [Slot -> Seq(Content)]
    /\ nummsgs \in [Slot -> Int]
    /\ owed \in [Slot -> Seq(Content \X Mark)]

Receiving == {"drain", "test", "lock", "fetch", "copy", "process", "caught_up", "pass_on",
              "receive_clean", "receive_signal"}
Receives(b) == active[b] /\ ~sendOnly[b]

\* Only the loops over the batch have messages of it left.
Place(b) ==
    /\ pc[b] \in Receiving => ~sendOnly[b]
    /\ messages[b] # <<>> => pc[b] \in {"drain", "process"}
    /\ ~active[b] => owed[b] = <<>>

\* The first message that b will read, or that comes after its reset, and how
\* much of what b is owed comes before it.
From(b) == IF ~resetState[b] THEN nextMsgNum[b]
           ELSE IF pc[b] = "copy" THEN max[b] ELSE maxMsgNum
Ahead(b) == Len(messages[b]) + (IF resetState[b] THEN 1 ELSE 0)

\* QueueHoldsUnread, entry by entry.
Holds(b) ==
    Receives(b) =>
        /\ Len(owed[b]) = Ahead(b) + (maxMsgNum - From(b))
        /\ \A i \in 1 .. Len(messages[b]) : owed[b][i][1] = messages[b][i]
        /\ resetState[b] => owed[b][Len(messages[b]) + 1][1] = RESET
        /\ \A j \in 1 .. maxMsgNum - From(b) :
              owed[b][Ahead(b) + j][1] = buffer[(From(b) + j - 1) % MAXNUMMESSAGES]

\* What b is owed after the first n is marked as in ms.
Rest(b, n, ms) == \A i \in 1 .. Len(owed[b]) : i > n => owed[b][i][2] \in ms

\* What comes after the max that b has fetched.
Seen(b) == Ahead(b) + (max[b] - From(b))

\* While hasMessages is not set, nothing waits for b whose insertion is over; b
\* clears it before it fetches maxMsgNum.
Visible(b) ==
    Receives(b) /\ ~hasMessages[b] =>
        /\ pc[b] \notin {"fetch", "copy"} => Rest(b, Len(messages[b]), {"new"})
        /\ pc[b] = "copy" => Rest(b, Seen(b), {"new"})

\* Nothing is due that b will not come to before it returns.
Timely(b) ==
    /\ pc[b] = "copy" => Rest(b, Seen(b), {"new", "queued"})
    /\ pc[b] = "process" /\ nummsgs[b] # MAXINVALMSGS
           => Rest(b, Len(messages[b]), {"new", "queued"})
    /\ pc[b] \in {"caught_up", "pass_on", "receive_clean", "receive_signal"}
           => Rest(b, 0, {"new", "queued"})

Served(b) == Place(b) /\ Holds(b) /\ Visible(b) /\ Timely(b)

\* The entries that SIInsertDataEntries has written and not yet made visible.
Written ==
    \A b \in Slot : pc[b] = "publish" =>
        \A k \in 0 .. nthistime(b) - 1 :
            buffer[(maxMsgNum + k) % MAXNUMMESSAGES] = data[b][k + 1]

\* Between the two stores of an insertion its writer has the lock.
NewInKick ==
    (\E c \in Slot : \E i \in 1 .. Len(owed[c]) : owed[c][i][2] = "new")
        => \E b \in Slot : pc[b] = "kick"

\* The inductive invariant of what the backends are told.
QInv == QTypes /\ Written /\ NewInKick /\ \A b \in Slot : Served(b)

-----------------------------------------------------------------------------
\* Nothing that Served(c) speaks of changes.
Untouched(c) ==
    /\ UNCHANGED <<maxMsgNum, buffer>>
    /\ pc'[c] = pc[c] /\ active'[c] = active[c] /\ sendOnly'[c] = sendOnly[c]
    /\ resetState'[c] = resetState[c] /\ hasMessages'[c] = hasMessages[c]
    /\ nextMsgNum'[c] = nextMsgNum[c] /\ max'[c] = max[c]
    /\ messages'[c] = messages[c] /\ nummsgs'[c] = nummsgs[c] /\ owed'[c] = owed[c]

\* What is true of c stays true when nothing of c changes.
LEMMA UntouchedServed ==
    ASSUME NEW c \in Slot, Served(c), Untouched(c)
    PROVE  Served(c)'
<1>1. From(c)' = From(c) /\ Ahead(c)' = Ahead(c) /\ Seen(c)' = Seen(c)
  BY Zenon DEF Untouched, From, Ahead, Seen
<1>2. Holds(c)' /\ Place(c)'
  BY Zenon, <1>1 DEF Served, Untouched, Holds, Place, Receives
<1>3. Visible(c)' /\ Timely(c)'
  BY Zenon, <1>1 DEF Served, Untouched, Visible, Timely, Rest, Receives
<1> QED
  BY Zenon, <1>2, <1>3 DEF Served

\* A step that concerns b alone.
LEMMA OwnStep ==
    ASSUME QInv, IInv, NEW b \in Slot, NEW l, Goto(b, l), l # "publish", pc[b] # "kick",
           UNCHANGED <<maxMsgNum, buffer>>, QTypes', Served(b)',
           \A c \in Slot \ {b} : Untouched(c) /\ data'[c] = data[c],
           \A i \in 1 .. Len(owed'[b]) : owed'[b][i][2] = "new" =>
               \E j \in 1 .. Len(owed[b]) : owed[b][j][2] = "new"
    PROVE  QInv'
<1>1. \A c \in Slot : pc'[c] = IF c = b THEN l ELSE pc[c]
  BY Zenon DEF IInv, Types, Goto
<1>2. Written'
  <2> SUFFICES ASSUME NEW c \in Slot, pc'[c] = "publish", NEW k \in 0 .. nthistime(c)' - 1
               PROVE  buffer'[(maxMsgNum' + k) % MAXNUMMESSAGES] = data'[c][k + 1]
    BY Zenon DEF Written
  <2>1. c # b /\ pc[c] = "publish" /\ data'[c] = data[c]
    BY Zenon, <1>1
  <2>2. nthistime(c)' = nthistime(c)
    BY Zenon, <2>1 DEF nthistime
  <2> QED
    BY Zenon, <2>1, <2>2 DEF Written, QInv
<1>3. NewInKick'
  <2> SUFFICES ASSUME NEW c \in Slot, NEW i \in 1 .. Len(owed'[c]), owed'[c][i][2] = "new"
               PROVE  \E w \in Slot : pc'[w] = "kick"
    BY Zenon DEF NewInKick
  <2>1. \E j \in 1 .. Len(owed[c]) : owed[c][j][2] = "new"
    <3>1. CASE c = b
      BY Zenon, <3>1
    <3>2. CASE c # b
      <4>1. owed'[c] = owed[c]
        BY Zenon, <3>2 DEF Untouched
      <4> QED
        BY Zenon, <4>1
    <3> QED
      BY <3>1, <3>2
  <2>2. PICK w \in Slot : pc[w] = "kick"
    BY Zenon, <2>1 DEF NewInKick, QInv
  <2> QED
    BY Zenon, <1>1, <2>2
<1>4. \A c \in Slot : Served(c)'
  BY Zenon, UntouchedServed DEF QInv
<1> QED
  BY Zenon, <1>2, <1>3, <1>4 DEF QInv

\* b goes elsewhere, and all else that concerns b stays.
LEMMA ServedMoves ==
    ASSUME NEW b \in Slot, Served(b),
           UNCHANGED <<maxMsgNum, buffer, active, sendOnly, resetState, hasMessages, nextMsgNum,
           max,
                       messages, owed>>,
           pc[b] \notin {"fetch", "copy"}, pc'[b] \notin {"fetch", "copy"},
           Place(b)', Timely(b)'
    PROVE  Served(b)'
<1>1. From(b)' = From(b) /\ Ahead(b)' = Ahead(b)
  BY Zenon DEF From, Ahead
<1>2. Holds(b)'
  BY Zenon, <1>1 DEF Served, Holds, Receives
<1>3. Visible(b)'
  BY Zenon, <1>1 DEF Served, Visible, Rest, Receives
<1> QED
  BY Zenon, <1>2, <1>3 DEF Served

\* A step by which b does no more than go elsewhere.
LEMMA Moves ==
    ASSUME QInv, IInv, NEW b \in Slot, NEW l, Goto(b, l), l \notin {"publish", "fetch", "copy"},
           pc[b] \notin {"kick", "fetch", "copy"},
           UNCHANGED <<maxMsgNum, buffer, active, sendOnly, resetState, hasMessages, nextMsgNum,
           max,
                       messages, owed>>,
           nummsgs' \in [Slot -> Int], \A c \in Slot \ {b} : nummsgs'[c] = nummsgs[c],
           \A c \in Slot \ {b} : data'[c] = data[c],
           l \in Receiving => ~sendOnly[b],
           messages[b] # <<>> => l \in {"drain", "process"},
           l = "process" /\ nummsgs'[b] # MAXINVALMSGS
               => Rest(b, Len(messages[b]), {"new", "queued"}),
           l \in {"caught_up", "pass_on", "receive_clean", "receive_signal"}
               => Rest(b, 0, {"new", "queued"})
    PROVE  QInv'
<1>1. \A c \in Slot : pc'[c] = IF c = b THEN l ELSE pc[c]
  BY Zenon DEF IInv, Types, Goto
<1>2. \A c \in Slot \ {b} : Untouched(c)
  BY Zenon, <1>1 DEF Untouched
<1>3. Place(b)'
  BY Zenon, <1>1 DEF QInv, Served, Place
<1>4. Timely(b)'
  BY Zenon, <1>1 DEF Timely, Rest
<1>5. Served(b)'
  BY Zenon, <1>1, <1>3, <1>4, ServedMoves DEF QInv
<1>6. QTypes'
  BY Zenon DEF QInv, QTypes
<1>7. \A i \in 1 .. Len(owed'[b]) : owed'[b][i][2] = "new" =>
               \E j \in 1 .. Len(owed[b]) : owed[b][j][2] = "new"
  BY Zenon
<1> QED
  BY Zenon, <1>2, <1>5, <1>6, <1>7, OwnStep

\* Where a call of ReceiveSharedInvalidMessages comes back from, nothing is due.
LEMMA ReturnMoves ==
    ASSUME QInv, IInv, NEW b \in Slot, Return(b),
           pc[b] \in {"caught_up", "receive_signal"},
           UNCHANGED <<maxMsgNum, buffer, active, sendOnly, resetState, hasMessages, nextMsgNum,
           max,
                       messages, nummsgs, owed, data>>
    PROVE  QInv'
<1>1. PICK l \in {"idle", "drain", "process", "caught_up"} : Goto(b, l)
  BY Zenon, ReturnTarget DEF IInv
<1>2. ~sendOnly[b] /\ messages[b] = <<>> /\ Rest(b, 0, {"new", "queued"})
  BY Zenon DEF QInv, Served, Place, Timely, Receiving
<1>3. Len(messages[b]) = 0
  BY SMTT(40), Z3T(40), <1>2
<1>4. Rest(b, Len(messages[b]), {"new", "queued"})
  BY Zenon, <1>2, <1>3
<1>5. nummsgs' \in [Slot -> Int] /\ \A c \in Slot \ {b} : nummsgs'[c] = nummsgs[c]
  BY Zenon DEF QInv, QTypes
<1>6. l \notin {"publish", "fetch", "copy"} /\ pc[b] \notin {"kick", "fetch", "copy"}
  BY Zenon
<1> QED
  BY Zenon, <1>1, <1>2, <1>4, <1>5, <1>6, Moves

\* The steps of a backend that change neither the queue nor what it is owed.
LEMMA QuietMoves ==
    ASSUME QInv, IInv, NEW b \in Slot,
           \/ \E msgs \in Calls[b] : SendSharedInvalidMessages(b, msgs)
           \/ TakeWriteLock(b) \/ LoopEnds(b) \/ TestHasMessages(b) \/ CaughtUp(b)
           \/ SendProcSignal(b)
    PROVE  QInv'
<1>0. /\ Place(b) /\ Timely(b) /\ Visible(b) /\ nummsgs \in [Slot -> Int]
      /\ \A c \in Slot \ {b} : nummsgs[c] = nummsgs[c]
      /\ data \in [Slot -> Seq(Msg)] /\ (active[b] \/ pc[b] = "idle")
  BY Zenon DEF QInv, Served, QTypes, IInv, Types, Slots
<1>1. ASSUME NEW msgs \in Calls[b], SendSharedInvalidMessages(b, msgs)
      PROVE  QInv'
  <2>1. /\ pc[b] = "idle" /\ Goto(b, "insert") /\ messages[b] = <<>>
        /\ data' = [data EXCEPT ![b] = msgs]
        /\ UNCHANGED <<maxMsgNum, buffer, active, sendOnly, resetState, hasMessages, nextMsgNum,
           max,
                       messages, nummsgs, owed>>
    BY Zenon, <1>0, <1>1 DEF SendSharedInvalidMessages, seg, flags, batch, Place
  <2>2. \A c \in Slot \ {b} : data'[c] = data[c] /\ nummsgs'[c] = nummsgs[c]
    BY Zenon, <1>0, <2>1
  <2>3. "insert" \notin Receiving /\ nummsgs' \in [Slot -> Int]
    BY Zenon, <1>0, <2>1 DEF Receiving
  <2> QED
    BY Zenon, <2>1, <2>2, <2>3, Moves
<1>2. CASE TakeWriteLock(b)
  <2>1. PICK l \in {"fill", "receive_clean"} :
          /\ Goto(b, l) /\ (l = "fill" => pc[b] = "insert")
          /\ l = "receive_clean" => pc[b] = "pass_on"
          /\ pc[b] \in {"insert", "pass_on"}
    BY Zenon, <1>2 DEF TakeWriteLock
  <2>2. UNCHANGED <<maxMsgNum, buffer, active, sendOnly, resetState, hasMessages, nextMsgNum, max,
                    messages, nummsgs, owed, data>>
    BY Zenon, <1>2 DEF TakeWriteLock, seg, flags, batch
  <2>3. l \in Receiving => ~sendOnly[b]
    BY Zenon, <1>0, <2>1 DEF Place, Receiving
  <2>4. messages[b] = <<>> /\ (l = "receive_clean" => Rest(b, 0, {"new", "queued"}))
    BY Zenon, <1>0, <2>1 DEF Place, Timely
  <2>5. /\ l \notin {"publish", "fetch", "copy", "process", "caught_up", "pass_on",
           "receive_signal"}
        /\ pc[b] \notin {"kick", "fetch", "copy"}
    BY Zenon, <2>1
  <2> QED
    BY Zenon, <1>0, <2>1, <2>2, <2>3, <2>4, <2>5, Moves
<1>3. CASE LoopEnds(b)
  <2>1. PICK l \in {"test", "caught_up"} :
          /\ Goto(b, l) /\ pc[b] \in {"drain", "process"} /\ messages[b] = <<>>
          /\ l = "caught_up" => pc[b] = "process" /\ nummsgs[b] # MAXINVALMSGS
    BY Zenon, <1>3 DEF LoopEnds
  <2>2. UNCHANGED <<maxMsgNum, buffer, active, sendOnly, resetState, hasMessages, nextMsgNum, max,
                    messages, nummsgs, owed, data>>
    BY Zenon, <1>3 DEF LoopEnds, seg, flags, batch
  <2>3. ~sendOnly[b] /\ Len(messages[b]) = 0
    <3>1. ~sendOnly[b]
      BY Zenon, <1>0, <2>1 DEF Place, Receiving
    <3>2. Len(messages[b]) = 0
      BY SMTT(40), Z3T(40), <2>1
    <3> QED
      BY <3>1, <3>2
  <2>4. l = "caught_up" => Rest(b, 0, {"new", "queued"})
    BY Zenon, <1>0, <2>1, <2>3 DEF Timely
  <2>5. /\ l \notin {"publish", "fetch", "copy", "process", "receive_clean", "pass_on",
           "receive_signal"}
        /\ pc[b] \notin {"kick", "fetch", "copy"}
    BY Zenon, <2>1
  <2> QED
    BY Zenon, <1>0, <2>1, <2>2, <2>3, <2>4, <2>5, Moves
<1>4. CASE TestHasMessages(b)
  <2>1. PICK l \in {"lock", "caught_up"} :
          Goto(b, l) /\ pc[b] = "test" /\ (l = "caught_up" => ~hasMessages[b])
    BY Zenon, <1>4 DEF TestHasMessages
  <2>2. /\ UNCHANGED <<maxMsgNum, buffer, active, sendOnly, resetState, hasMessages, nextMsgNum,
           max,
                       messages, owed, data>>
        /\ nummsgs' = [nummsgs EXCEPT ![b] = 0]
    BY Zenon, <1>4 DEF TestHasMessages, seg, flags
  <2>3. ~sendOnly[b] /\ Len(messages[b]) = 0 /\ messages[b] = <<>> /\ active[b]
    <3>1. ~sendOnly[b] /\ messages[b] = <<>> /\ active[b]
      BY Zenon, <1>0, <2>1 DEF Place, Receiving
    <3>2. Len(messages[b]) = 0
      BY SMTT(40), Z3T(40), <3>1
    <3> QED
      BY <3>1, <3>2
  <2>4. l = "caught_up" => Rest(b, 0, {"new", "queued"})
    BY Zenon, <1>0, <2>1, <2>3 DEF Visible, Receives, Rest
  <2>5. /\ l \notin {"publish", "fetch", "copy", "process", "receive_clean", "pass_on",
           "receive_signal"}
        /\ pc[b] \notin {"kick", "fetch", "copy"}
    BY Zenon, <2>1
  <2>6. nummsgs' \in [Slot -> Int] /\ \A c \in Slot \ {b} : nummsgs'[c] = nummsgs[c]
    BY SMTT(40), Z3T(40), <1>0, <2>2
  <2> QED
    BY Zenon, <1>0, <2>1, <2>2, <2>3, <2>4, <2>5, <2>6, Moves
<1>5. CASE CaughtUp(b)
  <2>1. UNCHANGED <<maxMsgNum, buffer, active, sendOnly, resetState, hasMessages, nextMsgNum, max,
                    messages, nummsgs, owed, data>> /\ pc[b] = "caught_up"
    BY Zenon, <1>5 DEF CaughtUp, seg, flags
  <2>2. CASE Return(b)
    BY Zenon, <2>1, <2>2, ReturnMoves
  <2>3. CASE Goto(b, "pass_on")
    <3>1. ~sendOnly[b] /\ messages[b] = <<>> /\ Rest(b, 0, {"new", "queued"})
      BY Zenon, <1>0, <2>1 DEF Place, Timely, Receiving
    <3> QED
      BY Zenon, <1>0, <2>1, <2>3, <3>1, Moves
  <2> QED
    BY Zenon, <1>5, <2>2, <2>3 DEF CaughtUp
<1>6. CASE SendProcSignal(b)
  <2>1. UNCHANGED <<maxMsgNum, buffer, active, sendOnly, resetState, hasMessages, nextMsgNum, max,
                    messages, nummsgs, owed, data>>
    BY Zenon, <1>6 DEF SendProcSignal, seg, flags
  <2>2. CASE pc[b] = "receive_signal" /\ Return(b)
    BY Zenon, <2>1, <2>2, ReturnMoves
  <2>3. CASE pc[b] = "insert_signal" /\ Goto(b, "insert")
    <3>1. messages[b] = <<>> /\ "insert" \notin Receiving
      BY Zenon, <1>0, <2>3 DEF Place, Receiving
    <3> QED
      BY Zenon, <1>0, <2>1, <2>3, <3>1, Moves
  <2> QED
    BY Zenon, <1>6, <2>2, <2>3 DEF SendProcSignal
<1> QED
  BY Zenon, <1>1, <1>2, <1>3, <1>4, <1>5, <1>6

\* A backend that starts owes nothing, one that exits is told no more.
LEMMA ComesAndGoes ==
    ASSUME QInv, IInv, IInv', NEW b \in Slot,
           (\E only \in BOOLEAN : SharedInvalBackendInit(b, only)) \/ CleanupInvalidationState(b)
    PROVE  QInv'
<1>1. /\ pc[b] = "idle" /\ pc' = pc
      /\ UNCHANGED <<maxMsgNum, buffer, data, max>>
  BY Zenon DEF SharedInvalBackendInit, CleanupInvalidationState, IInv, Slots
<1>2. Goto(b, "idle")
  BY Zenon, <1>1 DEF Goto, IInv, Types
<1>3. messages[b] = <<>> /\ (~active[b] => owed[b] = <<>>)
  BY Zenon, <1>1 DEF QInv, Served, Place
<1>4. /\ messages' = [messages EXCEPT ![b] = <<>>] /\ owed' = [owed EXCEPT ![b] = <<>>]
      /\ nummsgs' \in [Slot -> Int] /\ \A c \in Slot \ {b} : nummsgs'[c] = nummsgs[c]
  <2>1. CASE \E only \in BOOLEAN : SharedInvalBackendInit(b, only)
    <3>1. ~active[b] /\ UNCHANGED <<messages, owed, nummsgs>>
      BY Zenon, <2>1 DEF SharedInvalBackendInit, batch
    <3> QED
      BY Zenon, <1>3, <3>1 DEF QInv, QTypes
  <2>2. CASE CleanupInvalidationState(b)
    <3>1. /\ messages' = [messages EXCEPT ![b] = <<>>] /\ owed' = [owed EXCEPT ![b] = <<>>]
          /\ nummsgs' = [nummsgs EXCEPT ![b] = 0]
      BY Zenon, <2>2 DEF CleanupInvalidationState
    <3>2. nummsgs \in [Slot -> Int]
      BY Zenon DEF QInv, QTypes
    <3> QED
      BY SMTT(40), Z3T(40), <3>1, <3>2
  <2> QED
    BY <2>1, <2>2
<1>5. /\ hasMessages' \in [Slot -> BOOLEAN]
      /\ \A c \in Slot \ {b} : /\ active'[c] = active[c] /\ sendOnly'[c] = sendOnly[c]
                               /\ resetState'[c] = resetState[c]
                               /\ hasMessages'[c] = hasMessages[c]
                               /\ nextMsgNum'[c] = nextMsgNum[c]
      /\ ~resetState'[b] /\ (active'[b] => nextMsgNum'[b] = maxMsgNum)
  BY Zenon DEF SharedInvalBackendInit, CleanupInvalidationState, FirstToRead, QInv, QTypes, IInv,
  Types
<1>6. QTypes'
  <2>1. \A S : <<>> \in Seq(S)
    BY Zenon, SeqEmpty
  <2> QED
    BY Zenon, <1>1, <1>4, <1>5, <2>1 DEF QInv, QTypes
<1>7. \A c \in Slot \ {b} : Untouched(c)
  BY Zenon, <1>1, <1>4, <1>5 DEF Untouched, QInv, QTypes
<1>8. messages'[b] = <<>> /\ owed'[b] = <<>> /\ pc'[b] = "idle"
  BY Zenon, <1>1, <1>4 DEF QInv, QTypes
<1>9. Len(owed'[b]) = 0 /\ Len(messages'[b]) = 0
  BY SMTT(40), Z3T(40), <1>8
<1>10. Served(b)'
  <2>1. \A i \in 1 .. Len(owed'[b]) : FALSE
    BY SMTT(40), Z3T(40), <1>9
  <2>2. Place(b)' /\ Visible(b)' /\ Timely(b)'
    BY Zenon, <1>8, <2>1 DEF Place, Visible, Timely, Rest, Receiving
  <2>3. active'[b] =>
            Ahead(b)' = 0 /\ From(b)' = maxMsgNum /\ maxMsgNum \in Int /\ maxMsgNum' = maxMsgNum
    BY SMTT(40), Z3T(40), <1>1, <1>5, <1>9 DEF Ahead, From, IInv, Types
  <2>4. Holds(b)'
    <3> SUFFICES ASSUME Receives(b)' PROVE Holds(b)'
      BY Zenon DEF Holds
    <3>1. Ahead(b)' = 0 /\ From(b)' = maxMsgNum' /\ maxMsgNum' \in Int /\ ~resetState'[b]
      BY Zenon, <1>5, <2>3 DEF Receives
    <3>2. \A x \in Int : 0 + (x - x) = 0 /\ x - x = 0
      BY SMTT(40), Z3T(40)
    <3>3. \A i \in 1 .. 0 : FALSE
      BY SMTT(40), Z3T(40)
    <3> QED
      BY Zenon, <1>9, <3>1, <3>2, <3>3 DEF Holds
  <2> QED
    BY Zenon, <2>2, <2>4 DEF Served
<1>11. \A i \in 1 .. Len(owed'[b]) : FALSE
  BY SMTT(40), Z3T(40), <1>9
<1>12. \A c \in Slot \ {b} : Untouched(c) /\ data'[c] = data[c]
  BY Zenon, <1>1, <1>7
<1>13. "idle" # "publish" /\ pc[b] # "kick"
  BY Zenon, <1>1
<1> QED
  BY Zenon, <1>1, <1>2, <1>6, <1>10, <1>11, <1>12, <1>13, OwnStep

-----------------------------------------------------------------------------
\* A function on 1 .. k is a sequence of length k.
LEMMA FunIsSeq ==
    ASSUME NEW T, NEW k \in Nat, NEW f \in [1 .. k -> T]
    PROVE  f \in Seq(T) /\ Len(f) = k
<1>1. f \in Seq(T)
  BY SMTT(40), Z3T(40)
<1>2. Len(f) \in Nat /\ DOMAIN f = 1 .. Len(f)
  BY Zenon, <1>1, SeqLength
<1>3. PICK j \in Nat : j = Len(f) /\ 1 .. j = 1 .. k
  BY Zenon, <1>2
<1>4. j = k
  BY SMTT(40), Z3T(40), <1>3
<1> QED
  BY Zenon, <1>1, <1>3, <1>4

\* Marked changes the marks only.
LEMMA MarkedIsSeq ==
    ASSUME NEW s \in Seq(Content \X Mark), NEW m \in Mark, NEW n \in Mark
    PROVE  Marked(s, m, n) \in Seq(Content \X Mark) /\ Len(Marked(s, m, n)) = Len(s)
<1>1. Len(s) \in Nat /\ \A i \in 1 .. Len(s) : s[i] \in Content \X Mark
  BY Zenon, SeqLength, SeqElement
<1>2. \A i \in 1 .. Len(s) : s[i] = <<s[i][1], s[i][2]>> /\ s[i][1] \in Content
  BY SMTT(40), Z3T(40), <1>1
<1>3. \A i \in 1 .. Len(s) :
        (IF s[i][2] = m THEN <<s[i][1], n>> ELSE s[i]) \in Content \X Mark
  BY SMTT(40), Z3T(40), <1>1, <1>2
<1>4. Marked(s, m, n) = [i \in 1 .. Len(s) |-> IF s[i][2] = m THEN <<s[i][1], n>> ELSE s[i]]
  BY Zenon DEF Marked
<1>5. Marked(s, m, n) \in [1 .. Len(s) -> Content \X Mark]
  BY Zenon, <1>3, <1>4
<1> QED
  BY Zenon, <1>1, <1>5, FunIsSeq

\* The entries of Marked.
LEMMA MarkedAt ==
    ASSUME NEW s, NEW m, NEW n, NEW i \in 1 .. Len(s)
    PROVE  /\ Marked(s, m, n)[i][1] = s[i][1]
           /\ s[i][2] = m => Marked(s, m, n)[i][2] = n
           /\ s[i][2] # m => Marked(s, m, n)[i][2] = s[i][2]
<1>1. Marked(s, m, n)[i] = IF s[i][2] = m THEN <<s[i][1], n>> ELSE s[i]
  BY Zenon DEF Marked
<1> QED
  BY SMTT(40), Z3T(40), <1>1

\* What b will read lies between minMsgNum and maxMsgNum.
LEMMA FromBounds ==
    ASSUME IInv, NEW c \in Slot, Receives(c)
    PROVE  /\ From(c) \in Int /\ minMsgNum <= From(c) /\ From(c) <= maxMsgNum
           /\ minMsgNum \in Int /\ maxMsgNum \in Int /\ maxMsgNum - minMsgNum <= MAXNUMMESSAGES
           /\ maxMsgNum - From(c) \in Nat
<1>1. /\ minMsgNum \in Int /\ maxMsgNum \in Int /\ nextMsgNum[c] \in Int /\ max[c] \in Int
      /\ minMsgNum <= maxMsgNum /\ maxMsgNum - minMsgNum <= MAXNUMMESSAGES
  BY Zenon DEF IInv, Types, MsgNumsOrdered
<1>2. ~resetState[c] => minMsgNum <= nextMsgNum[c] /\ nextMsgNum[c] <= maxMsgNum
  BY Zenon DEF IInv, MsgNumsOrdered, Tracked, Receives
<1>3. pc[c] = "copy" => minMsgNum <= max[c] /\ max[c] <= maxMsgNum
  BY Zenon DEF IInv, Fetched
<1>4. From(c) \in Int /\ minMsgNum <= From(c) /\ From(c) <= maxMsgNum
  BY SMTT(40), Z3T(40), <1>1, <1>2, <1>3 DEF From
<1> QED
  BY SMTT(40), Z3T(40), <1>1, <1>4

\* SIInsertDataEntries overwrites nothing that is unread.
LEMMA FillIs ==
    ASSUME QInv, IInv, NEW b \in Slot, Fill(b), ~MustClean(b)
    PROVE  /\ buffer' \in [0 .. MAXNUMMESSAGES - 1 -> Content]
           /\ \A t \in 1 .. MAXNUMMESSAGES - nthistime(b) :
                 buffer'[(maxMsgNum - t) % MAXNUMMESSAGES] = buffer[(maxMsgNum - t) % MAXNUMMESSAGES]
           /\ \A k \in 0 .. nthistime(b) - 1 :
                 buffer'[(maxMsgNum + k) % MAXNUMMESSAGES] = data[b][k + 1]
<1>1. PICK M \in Nat \ {0}, a \in Int, n \in Nat :
          /\ M = MAXNUMMESSAGES /\ a = maxMsgNum /\ n = nthistime(b)
          /\ n <= M /\ n <= Len(data[b])
  <2>1. /\ MAXNUMMESSAGES \in Nat \ {0} /\ maxMsgNum \in Int /\ nthistime(b) \in Nat
        /\ nthistime(b) <= WRITE_QUANTUM /\ data[b] \in Seq(Msg)
    BY Zenon, SInvalAssumption, NthistimeType DEF IInv, Types, SInvalAssumption
  <2>2. nthistime(b) <= MAXNUMMESSAGES
    BY SMTT(40), Z3T(40), <2>1, SInvalAssumption
  <2>3. nthistime(b) <= Len(data[b])
    BY SMTT(40), Z3T(40), <2>1, SInvalAssumption, SeqLength DEF nthistime
  <2> QED
    BY Zenon, <2>1, <2>2, <2>3
<1>2. data[b] \in Seq(Msg) /\ buffer \in [0 .. M - 1 -> Content]
  BY Zenon, <1>1 DEF QInv, QTypes, IInv, Types
<1>3. buffer' = [i \in 0 .. M - 1 |-> IF (i - a) % M < n THEN data[b][((i - a) % M) + 1]
      ELSE buffer[i]]
  BY Zenon, <1>1, <1>2 DEF Fill
<1>4. \A i \in 0 .. M - 1 : (i - a) % M \in 0 .. M - 1
  <2> TAKE i \in 0 .. M - 1
  <2>1. i - a \in Int
    BY SMTT(40), Z3T(40)
  <2> QED
    BY Zenon, <2>1, DivMod
<1>5. buffer' \in [0 .. M - 1 -> Content]
  <2> SUFFICES ASSUME NEW i \in 0 .. M - 1
               PROVE  (IF (i - a) % M < n THEN data[b][((i - a) % M) + 1]
                      ELSE buffer[i]) \in Content
    BY Zenon, <1>3
  <2>1. PICK k \in 0 .. M - 1 : k = (i - a) % M
    BY Zenon, <1>4
  <2>2. CASE k < n
    <3>1. k + 1 \in 1 .. Len(data[b])
      BY SMTT(40), Z3T(40), <1>1, <1>2, <2>2
    <3>2. data[b][k + 1] \in Msg
      BY Zenon, <1>2, <3>1, SeqElement
    <3> QED
      BY Zenon, <2>1, <2>2, <3>2 DEF Content
  <2>3. CASE ~ (k < n)
    BY Zenon, <1>2, <2>1, <2>3
  <2> QED
    BY <2>2, <2>3
<1>6. ASSUME NEW t \in 1 .. M - n
      PROVE  buffer'[(a - t) % M] = buffer[(a - t) % M]
  <2>1. t \in 1 .. M /\ a - t \in Int
    BY SMTT(40), Z3T(40)
  <2>2. PICK i \in 0 .. M - 1 : i = (a - t) % M
    BY Zenon, <2>1, DivMod
  <2>3. (i - a) % M = M - t
    BY Zenon, <2>1, <2>2, ModBehind
  <2>4. ~ ((i - a) % M < n)
    <3>1. ~ (M - t < n)
      BY SMTT(40), Z3T(40)
    <3> QED
      BY Zenon, <2>3, <3>1
  <2> QED
    BY Zenon, <1>3, <2>2, <2>4
<1>7. ASSUME NEW k \in 0 .. n - 1
      PROVE  buffer'[(a + k) % M] = data[b][k + 1]
  <2>1. k \in 0 .. M - 1 /\ k < n /\ a + k \in Int
    BY SMTT(40), Z3T(40), <1>1
  <2>2. PICK i \in 0 .. M - 1 : i = (a + k) % M
    BY Zenon, <2>1, DivMod
  <2>3. (i - a) % M = k
    BY Zenon, <2>1, <2>2, ModApart
  <2> QED
    BY Zenon, <1>3, <2>1, <2>2, <2>3
<1> QED
  BY Zenon, <1>1, <1>5, <1>6, <1>7

\* SIInsertDataEntries, when the entries are written and not yet visible.
LEMMA FillServes ==
    ASSUME QInv, IInv, NEW b \in Slot, Fill(b)
    PROVE  QInv'
<1>0. /\ pc[b] = "fill" /\ messages[b] = <<>> /\ writeLock = b
      /\ UNCHANGED <<maxMsgNum, active, sendOnly, resetState, hasMessages, nextMsgNum, max,
                     messages, nummsgs, owed, data>>
      /\ nummsgs \in [Slot -> Int]
  BY Zenon DEF Fill, flags, batch, QInv, Served, Place, QTypes, IInv, Locks
<1>1. CASE MustClean(b)
  <2>1. Goto(b, "insert_clean") /\ UNCHANGED buffer /\ "insert_clean" \notin Receiving
    BY Zenon, <1>1 DEF Fill, Receiving
  <2> QED
    BY Zenon, <1>0, <2>1, Moves
<1>2. CASE ~MustClean(b)
  <2>1. PICK n \in Nat : n = nthistime(b)
    BY Zenon, NthistimeType DEF IInv
  <2>2. /\ buffer' \in [0 .. MAXNUMMESSAGES - 1 -> Content]
        /\ \A t \in 1 .. MAXNUMMESSAGES - n :
              buffer'[(maxMsgNum - t) % MAXNUMMESSAGES] = buffer[(maxMsgNum - t) % MAXNUMMESSAGES]
        /\ \A k \in 0 .. n - 1 : buffer'[(maxMsgNum + k) % MAXNUMMESSAGES] = data[b][k + 1]
    BY Zenon, <1>2, <2>1, FillIs
  <2>3. \A c \in Slot : pc'[c] = IF c = b THEN "publish" ELSE pc[c]
    BY Zenon, <1>2 DEF Fill, Goto, IInv, Types
  <2>4. maxMsgNum - minMsgNum + n <= MAXNUMMESSAGES
    <3>1. minMsgNum \in Int /\ maxMsgNum \in Int /\ MAXNUMMESSAGES \in Int
      BY SMTT(40), Z3T(40), SInvalAssumption DEF IInv, Types
    <3>2. ~ (maxMsgNum - minMsgNum + n > MAXNUMMESSAGES)
      BY Zenon, <1>2, <2>1 DEF MustClean
    <3> QED
      BY SMTT(40), Z3T(40), <3>1, <3>2
  <2>5. ASSUME NEW c \in Slot
        PROVE  Served(c)'
    <3>1. From(c)' = From(c) /\ Ahead(c)' = Ahead(c) /\ Seen(c)' = Seen(c)
      BY Zenon, <1>0, <2>3 DEF From, Ahead, Seen
    <3>2. Place(c)' /\ Visible(c)' /\ Timely(c)'
      <4>1. Place(c) /\ Visible(c) /\ Timely(c)
        BY Zenon DEF QInv, Served
      <4>2. Place(c)'
        BY Zenon, <1>0, <2>3, <4>1 DEF Place, Receiving
      <4>3. Visible(c)' /\ Timely(c)'
        BY Zenon, <1>0, <2>3, <3>1, <4>1 DEF Visible, Timely, Rest, Receives
      <4> QED
        BY <4>2, <4>3
    <3>3. ASSUME Receives(c), NEW j \in 1 .. maxMsgNum - From(c)
          PROVE  buffer'[(From(c) + j - 1) % MAXNUMMESSAGES] = buffer[(From(c) + j - 1) % MAXNUMMESSAGES]
      <4>1. PICK f \in Int : /\ f = From(c) /\ minMsgNum <= f /\ f <= maxMsgNum
                             /\ minMsgNum \in Int /\ maxMsgNum \in Int
        BY Zenon, <3>3, FromBounds
      <4>2. PICK t \in 1 .. MAXNUMMESSAGES - n : maxMsgNum - t = f + j - 1
        <5>1. j \in 1 .. maxMsgNum - f
          BY Zenon, <3>3, <4>1
        <5>2. maxMsgNum - (f + j - 1) \in 1 .. MAXNUMMESSAGES - n
          BY SMTT(40), Z3T(40), <2>4, <4>1, <5>1, SInvalAssumption
        <5>3. maxMsgNum - (maxMsgNum - (f + j - 1)) = f + j - 1
          BY SMTT(40), Z3T(40), <4>1, <5>1
        <5> QED
          BY Zenon, <5>2, <5>3
      <4> QED
        BY Zenon, <2>2, <4>1, <4>2
    <3>4. Holds(c)'
      <4>1. Holds(c)
        BY Zenon DEF QInv, Served
      <4> QED
        BY Zenon, <1>0, <3>1, <3>3, <4>1 DEF Holds, Receives
    <3> QED
      BY Zenon, <3>2, <3>4 DEF Served
  <2>6. QTypes'
    BY Zenon, <1>0, <2>2 DEF QInv, QTypes
  <2>7. Written'
    <3> SUFFICES ASSUME NEW c \in Slot, pc'[c] = "publish", NEW k \in 0 .. nthistime(c)' - 1
                 PROVE  buffer'[(maxMsgNum' + k) % MAXNUMMESSAGES] = data'[c][k + 1]
      BY Zenon DEF Written
    <3>1. c = b
      BY Zenon, <1>0, <2>3 DEF IInv, Locks
    <3>2. nthistime(c)' = n
      BY Zenon, <1>0, <2>1, <3>1 DEF nthistime
    <3> QED
      BY Zenon, <1>0, <2>2, <3>1, <3>2
  <2>8. NewInKick'
    BY Zenon, <1>0, <2>3 DEF QInv, NewInKick
  <2> QED
    BY Zenon, <2>5, <2>6, <2>7, <2>8 DEF QInv
<1> QED
  BY <1>1, <1>2

\* How much of what c is owed comes before the queue.
LEMMA AheadIs ==
    ASSUME QTypes, NEW c \in Slot
    PROVE  /\ Ahead(c) \in Nat /\ Len(messages[c]) \in Nat /\ Len(owed[c]) \in Nat
           /\ Len(messages[c]) <= Ahead(c) /\ (resetState[c] => Ahead(c) = Len(messages[c]) + 1)
           /\ (~resetState[c] => Ahead(c) = Len(messages[c]))
<1>1. PICK m \in Nat : m = Len(messages[c])
  BY Zenon, SeqLength DEF QTypes
<1>2. Len(owed[c]) \in Nat
  BY Zenon, SeqLength DEF QTypes
<1>3. Ahead(c) = m + (IF resetState[c] THEN 1 ELSE 0)
  BY Zenon, <1>1 DEF Ahead
<1>4. CASE resetState[c]
  <2>1. Ahead(c) = m + 1
    BY Zenon, <1>3, <1>4
  <2>2. m + 1 \in Nat /\ m <= m + 1
    BY SMTT(40), Z3T(40)
  <2> QED
    BY Zenon, <1>1, <1>2, <1>4, <2>1, <2>2
<1>5. CASE ~resetState[c]
  <2>1. Ahead(c) = m + 0
    BY Zenon, <1>3, <1>5
  <2>2. m + 0 = m /\ m <= m
    BY SMTT(40), Z3T(40)
  <2> QED
    BY Zenon, <1>1, <1>2, <1>5, <2>1, <2>2
<1> QED
  BY <1>4, <1>5

\* What Publish makes of what c is owed.
LEMMA PublishIs ==
    ASSUME QInv, IInv, NEW b \in Slot, Publish(b), NEW c \in Slot,
           NEW n \in Nat, n = nthistime(b)
    PROVE  /\ owed'[c] \in Seq(Content \X Mark)
           /\ \/ owed'[c] = owed[c] /\ ~ Tracked(c) /\ ~ (resetState[c] /\ pc[c] = "copy")
              \/ /\ Tracked(c) \/ (resetState[c] /\ pc[c] = "copy")
                 /\ Len(owed'[c]) = Len(owed[c]) + n
                 /\ \A i \in 1 .. Len(owed[c]) : owed'[c][i] = owed[c][i]
                 /\ \A i \in 1 .. n : owed'[c][Len(owed[c]) + i] = <<data[b][i], "new">>
<1> DEFINE new == [i \in 1 .. n |-> <<data[b][i], "new">>]
<1>1. owed[c] \in Seq(Content \X Mark) /\ data[b] \in Seq(Msg)
  BY Zenon DEF QInv, QTypes, IInv, Types
<1>2. n <= Len(data[b])
  BY SMTT(40), Z3T(40), <1>1, SInvalAssumption, SeqLength DEF nthistime
<1>3. new \in Seq(Content \X Mark) /\ Len(new) = n
  <2>1. \A i \in 1 .. n : data[b][i] \in Msg
    <3> TAKE i \in 1 .. n
    <3>1. i \in 1 .. Len(data[b])
      BY SMTT(40), Z3T(40), <1>1, <1>2
    <3> QED
      BY Zenon, <1>1, <3>1, SeqElement
  <2>2. \A i \in 1 .. n : <<data[b][i], "new">> \in Content \X Mark
    BY SMTT(40), Z3T(40), <2>1 DEF Content, Mark
  <2>3. new \in [1 .. n -> Content \X Mark]
    BY Zenon, <2>2
  <2> HIDE DEF new
  <2> QED
    BY Zenon, <2>3, FunIsSeq
<1>4. \A i \in 1 .. n : new[i] = <<data[b][i], "new">>
  BY Zenon
<1>5. owed'[c] = IF Tracked(c) \/ (resetState[c] /\ pc[c] = "copy") THEN owed[c] \o new
      ELSE owed[c]
  BY Zenon DEF Publish
<1> HIDE DEF new
<1>6. /\ owed[c] \o new \in Seq(Content \X Mark) /\ Len(owed[c] \o new) = Len(owed[c]) + n
      /\ \A i \in 1 .. Len(owed[c]) : (owed[c] \o new)[i] = owed[c][i]
      /\ \A i \in 1 .. n : (owed[c] \o new)[Len(owed[c]) + i] = new[i]
  BY SMTT(40), Z3T(40), <1>1, <1>3, SeqConcat
<1> QED
  BY Zenon, <1>1, <1>4, <1>5, <1>6

\* maxMsgNum advances: the new entries are owed to all that will read them.
LEMMA PublishServes ==
    ASSUME QInv, IInv, NEW b \in Slot, Publish(b)
    PROVE  QInv'
<1>0. /\ pc[b] = "publish" /\ writeLock = b
      /\ UNCHANGED <<buffer, active, sendOnly, resetState, hasMessages, nextMsgNum, max,
                     messages, nummsgs, data>>
      /\ DOMAIN owed' = Slot
  BY Zenon DEF Publish, flags, batch, IInv, Locks
<1>1. PICK n \in Nat : n = nthistime(b) /\ n <= WRITE_QUANTUM
  BY Zenon, NthistimeType DEF IInv
<1>2. /\ maxMsgNum' = maxMsgNum + n /\ maxMsgNum \in Int /\ minMsgNum \in Int
      /\ maxMsgNum - minMsgNum + n <= MAXNUMMESSAGES
  <2>1. maxMsgNum - minMsgNum + n <= MAXNUMMESSAGES /\ maxMsgNum \in Int /\ minMsgNum \in Int
    BY Zenon, <1>0, <1>1 DEF IInv, Room, Types
  <2>2. maxMsgNum' = Int32(maxMsgNum + n)
    BY Zenon, <1>1 DEF Publish
  <2>3. maxMsgNum + n \in Int /\ -INT_MAX - 1 <= maxMsgNum + n /\ maxMsgNum + n <= INT_MAX
    BY SMTT(40), Z3T(40), <2>1, SInvalAssumption DEF IInv, MsgNumsOrdered
  <2> QED
    BY Zenon, <2>1, <2>2, <2>3, Int32Exact
<1>3. \A c \in Slot : pc'[c] = IF c = b THEN "kick" ELSE pc[c]
  BY Zenon DEF Publish, Goto, IInv, Types
<1>4. \A k \in 0 .. n - 1 : buffer[(maxMsgNum + k) % MAXNUMMESSAGES] = data[b][k + 1]
  BY Zenon, <1>0, <1>1 DEF QInv, Written
<1>5. ASSUME NEW c \in Slot
      PROVE  Served(c)'
  <2>0. /\ Place(c) /\ Holds(c) /\ Visible(c) /\ Timely(c) /\ owed[c] \in Seq(Content \X Mark)
        /\ owed'[c] \in Seq(Content \X Mark) /\ messages[c] \in Seq(Content)
        /\ Len(messages[c]) \in Nat /\ Len(owed[c]) \in Nat /\ Len(owed'[c]) \in Nat
    BY Zenon, <1>1, PublishIs, SeqLength DEF QInv, QTypes, Served
  <2>1. /\ (pc'[c] = "copy" <=> pc[c] = "copy") /\ Ahead(c)' = Ahead(c)
        /\ pc'[c] = "fetch" <=> pc[c] = "fetch"
        /\ pc[c] = "copy" => From(c)' = From(c) /\ Seen(c)' = Seen(c)
        /\ pc'[c] \in Receiving => pc'[c] = pc[c]
        /\ pc[c] \in {"drain", "process"} => pc'[c] = pc[c]
    BY Zenon, <1>0, <1>3 DEF From, Ahead, Seen, Receiving
  <2>2. CASE owed'[c] = owed[c] /\ ~ Tracked(c) /\ ~ (resetState[c] /\ pc[c] = "copy")
    <3>1. Place(c)' /\ Visible(c)' /\ Timely(c)'
      BY Zenon, <1>0, <2>0, <2>1, <2>2 DEF Place, Visible, Timely, Rest, Receives, Receiving
    <3>2. ASSUME Receives(c)
          PROVE  /\ resetState[c] /\ From(c) = maxMsgNum /\ From(c)' = maxMsgNum'
                 /\ Len(owed'[c]) = Ahead(c)' + (maxMsgNum' - From(c)')
                 /\ \A j \in 1 .. maxMsgNum' - From(c)' : FALSE
      <4>1. resetState[c] /\ From(c) = maxMsgNum /\ From(c)' = maxMsgNum'
        BY Zenon, <1>0, <2>1, <2>2, <3>2 DEF Tracked, Receives, From
      <4>2. Len(owed[c]) = Ahead(c) + (maxMsgNum - From(c))
        BY Zenon, <2>0, <3>2 DEF Holds
      <4>3. Len(owed'[c]) = Ahead(c)' + (maxMsgNum' - From(c)')
        <5>1. maxMsgNum - From(c) = 0 /\ maxMsgNum' - From(c)' = 0
          BY SMTT(40), Z3T(40), <1>2, <4>1
        <5> QED
          BY Zenon, <2>1, <2>2, <4>2, <5>1
      <4>4. \A j \in 1 .. maxMsgNum' - From(c)' : FALSE
        BY SMTT(40), Z3T(40), <1>2, <4>1
      <4> QED
        BY <4>1, <4>3, <4>4
    <3>3. Holds(c)'
      BY Zenon, <1>0, <2>0, <2>1, <2>2, <3>2 DEF Holds, Receives
    <3> QED
      BY Zenon, <3>1, <3>3 DEF Served
  <2>3. CASE /\ Tracked(c) \/ (resetState[c] /\ pc[c] = "copy")
             /\ Len(owed'[c]) = Len(owed[c]) + n
             /\ \A i \in 1 .. Len(owed[c]) : owed'[c][i] = owed[c][i]
             /\ \A i \in 1 .. n : owed'[c][Len(owed[c]) + i] = <<data[b][i], "new">>
    <3>1. /\ Receives(c) /\ From(c)' = From(c) /\ Seen(c)' = Seen(c)
          /\ pc[c] \in Receiving => ~sendOnly[c]
      <4>1. active[c] /\ (Tracked(c) => ~sendOnly[c])
        BY Zenon, <2>3 DEF Tracked, IInv, Slots
      <4>2. Receives(c)
        BY Zenon, <2>0, <2>3, <4>1 DEF Receives, Place, Receiving
      <4>3. From(c)' = From(c)
        BY Zenon, <1>0, <2>1, <2>3 DEF From, Tracked
      <4> QED
        BY Zenon, <1>0, <2>0, <2>1, <4>2, <4>3 DEF Seen, Place
    <3>2. Place(c)'
      BY Zenon, <1>0, <2>0, <2>1, <3>1 DEF Place, Receives, Receiving
    <3>3. \A i \in 1 .. Len(owed'[c]) :
              \/ i \in 1 .. Len(owed[c]) /\ owed'[c][i][2] = owed[c][i][2]
              \/ owed'[c][i][2] = "new"
      <4> TAKE i \in 1 .. Len(owed'[c])
      <4>1. CASE i \in 1 .. Len(owed[c])
        BY Zenon, <2>3, <4>1
      <4>2. CASE i \notin 1 .. Len(owed[c])
        <5>1. PICK k \in 1 .. n : i = Len(owed[c]) + k
          <6>1. i - Len(owed[c]) \in 1 .. n /\ i = Len(owed[c]) + (i - Len(owed[c]))
            BY SMTT(40), Z3T(40), <2>0, <2>3, <4>2
          <6> QED
            BY Zenon, <6>1
        <5>2. owed'[c][i] = <<data[b][k], "new">>
          BY Zenon, <2>3, <5>1
        <5> QED
          BY SMTT(40), Z3T(40), <5>2
      <4> QED
        BY <4>1, <4>2
    <3>4. Visible(c)' /\ Timely(c)'
      <4>1. \A k, ms : "new" \in ms /\ Rest(c, k, ms) => Rest(c, k, ms)'
        BY Zenon, <3>3 DEF Rest
      <4> QED
        BY Zenon, <1>0, <2>0, <2>1, <3>1, <4>1 DEF Visible, Timely, Receives, Receiving
    <3>5. Holds(c)'
      <4>1. PICK f \in Int, a \in Nat : /\ f = From(c) /\ a = Ahead(c) /\ f <= maxMsgNum
                                        /\ Len(owed[c]) = a + (maxMsgNum - f)
        <5>1. Ahead(c) \in Nat
          BY Zenon, AheadIs DEF QInv
        <5> QED
          BY Zenon, <2>0, <3>1, <5>1, FromBounds DEF Holds
      <4>2. Len(owed'[c]) = a + (maxMsgNum' - f)
        BY SMTT(40), Z3T(40), <1>2, <2>3, <4>1
      <4>3. Len(messages[c]) <= Len(owed[c])
            /\ (resetState[c] => Len(messages[c]) + 1 \in 1 .. Len(owed[c]))
        <5>1. Len(messages[c]) \in Nat /\ Len(messages[c]) <= a
              /\ (resetState[c] => a = Len(messages[c]) + 1)
          BY Zenon, <4>1, AheadIs DEF QInv
        <5>2. a <= Len(owed[c])
          BY SMTT(40), Z3T(40), <1>2, <4>1
        <5>3. PICK m \in Nat, w \in Nat : m = Len(messages[c]) /\ w = Len(owed[c])
          BY Zenon, <2>0
        <5>4. m <= w /\ (a = m + 1 => m + 1 \in 1 .. w)
          BY SMTT(40), Z3T(40), <5>1, <5>2, <5>3
        <5> QED
          BY Zenon, <5>1, <5>3, <5>4
      <4>4. \A i \in 1 .. Len(messages[c]) : owed'[c][i][1] = messages'[c][i]
        <5>1. \A i \in 1 .. Len(messages[c]) : i \in 1 .. Len(owed[c])
          BY SMTT(40), Z3T(40), <2>0, <4>3
        <5> QED
          BY Zenon, <1>0, <2>0, <2>3, <3>1, <5>1 DEF Holds
      <4>5. resetState[c] => owed'[c][Len(messages[c]) + 1][1] = RESET
        BY Zenon, <2>0, <2>3, <3>1, <4>3 DEF Holds
      <4>6. ASSUME NEW j \in 1 .. maxMsgNum' - f
            PROVE  owed'[c][a + j][1] = buffer[(f + j - 1) % MAXNUMMESSAGES]
        <5>1. CASE j \in 1 .. maxMsgNum - f
          <6>1. a + j \in 1 .. Len(owed[c])
            BY SMTT(40), Z3T(40), <1>2, <4>1, <5>1
          <6>2. owed[c][a + j][1] = buffer[(f + j - 1) % MAXNUMMESSAGES]
            BY Zenon, <2>0, <3>1, <4>1, <5>1 DEF Holds
          <6> QED
            BY Zenon, <2>3, <6>1, <6>2
        <5>2. CASE j \notin 1 .. maxMsgNum - f
          <6>1. PICK k \in 0 .. n - 1 : /\ k + 1 \in 1 .. n /\ a + j = Len(owed[c]) + (k + 1)
                                        /\ maxMsgNum + k = f + j - 1
            <7>1. PICK k \in Int : k = j - (maxMsgNum - f) - 1
              BY SMTT(40), Z3T(40), <1>2, <4>1
            <7>2. k \in 0 .. n - 1 /\ k + 1 \in 1 .. n
              BY SMTT(40), Z3T(40), <1>2, <4>1, <5>2, <7>1
            <7>3. a + j = Len(owed[c]) + (k + 1) /\ maxMsgNum + k = f + j - 1
              BY SMTT(40), Z3T(40), <1>2, <4>1, <7>1
            <7> QED
              BY Zenon, <7>2, <7>3
          <6>2. owed'[c][a + j] = <<data[b][k + 1], "new">>
            BY Zenon, <2>3, <6>1
          <6>3. owed'[c][a + j][1] = data[b][k + 1]
            BY SMTT(40), Z3T(40), <6>2
          <6> QED
            BY Zenon, <1>4, <6>1, <6>3
        <5> QED
          BY <5>1, <5>2
      <4> QED
        BY Zenon, <1>0, <2>1, <3>1, <4>1, <4>2, <4>4, <4>5, <4>6 DEF Holds, Receives
    <3> QED
      BY Zenon, <3>2, <3>4, <3>5 DEF Served
  <2>4. \/ owed'[c] = owed[c] /\ ~ Tracked(c) /\ ~ (resetState[c] /\ pc[c] = "copy")
        \/ /\ Tracked(c) \/ (resetState[c] /\ pc[c] = "copy")
           /\ Len(owed'[c]) = Len(owed[c]) + n
           /\ \A i \in 1 .. Len(owed[c]) : owed'[c][i] = owed[c][i]
           /\ \A i \in 1 .. n : owed'[c][Len(owed[c]) + i] = <<data[b][i], "new">>
    BY SMTT(40), Z3T(40), <1>1, PublishIs
  <2> QED
    BY <2>2, <2>3, <2>4
<1>6. QTypes'
  <2>1. \A c \in Slot : owed'[c] \in Seq(Content \X Mark)
    BY Zenon, <1>1, PublishIs
  <2>2. owed' = [c \in Slot |-> owed'[c]]
    BY Zenon DEF Publish
  <2> QED
    BY Zenon, <1>0, <2>1, <2>2 DEF QInv, QTypes
<1>7. Written'
  BY Zenon, <1>0, <1>3 DEF Written, IInv, Locks
<1>8. NewInKick'
  BY Zenon, <1>3 DEF NewInKick
<1> QED
  BY Zenon, <1>5, <1>6, <1>7, <1>8 DEF QInv

\* What b is told does not depend on the marks.
LEMMA RemarkedHolds ==
    ASSUME QInv, IInv, NEW c \in Slot, Holds(c), UNCHANGED <<maxMsgNum, buffer>>,
           From(c)' = From(c), Ahead(c)' = Ahead(c), messages'[c] = messages[c],
           active'[c] = active[c], sendOnly'[c] = sendOnly[c], resetState'[c] = resetState[c],
           Len(owed'[c]) = Len(owed[c]),
           \A i \in 1 .. Len(owed[c]) : owed'[c][i][1] = owed[c][i][1]
    PROVE  Holds(c)'
<1> SUFFICES ASSUME Receives(c)
             PROVE  Holds(c)'
  BY Zenon DEF Holds, Receives
<1>1. PICK a \in Nat, d \in Nat, m \in Nat :
        /\ a = Ahead(c) /\ d = maxMsgNum - From(c) /\ m = Len(messages[c])
        /\ Len(owed[c]) = a + d /\ m <= a /\ (resetState[c] => m + 1 <= a)
  <2>1. Ahead(c) \in Nat /\ Len(messages[c]) \in Nat /\ Len(messages[c]) <= Ahead(c)
        /\ (resetState[c] => Len(messages[c]) + 1 <= Ahead(c))
    <3>1. \A k \in Nat : k + 1 <= k + 1
      BY SMTT(40), Z3T(40)
    <3> QED
      BY Zenon, <3>1, AheadIs DEF QInv
  <2>2. maxMsgNum - From(c) \in Nat
    BY Zenon, FromBounds
  <2>3. Len(owed[c]) = Ahead(c) + (maxMsgNum - From(c))
    BY Zenon DEF Holds
  <2> QED
    BY Zenon, <2>1, <2>2, <2>3
<1>2. /\ \A i \in 1 .. m : i \in 1 .. Len(owed[c])
      /\ resetState[c] => m + 1 \in 1 .. Len(owed[c])
      /\ \A j \in 1 .. d : a + j \in 1 .. Len(owed[c])
  BY SMTT(40), Z3T(40), <1>1
<1>3. /\ Len(owed'[c]) = Len(owed[c])
      /\ \A i \in 1 .. Len(owed[c]) : owed'[c][i][1] = owed[c][i][1]
      /\ messages'[c] = messages[c]
  OBVIOUS
<1>4. /\ Len(owed[c]) = Ahead(c) + (maxMsgNum - From(c))
      /\ \A i \in 1 .. m : owed[c][i][1] = messages[c][i]
      /\ resetState[c] => owed[c][m + 1][1] = RESET
      /\ \A j \in 1 .. d : owed[c][a + j][1] = buffer[(From(c) + j - 1) % MAXNUMMESSAGES]
  BY Zenon, <1>1 DEF Holds
<1>5. /\ \A i \in 1 .. m : owed'[c][i][1] = messages'[c][i]
      /\ resetState'[c] => owed'[c][m + 1][1] = RESET
      /\ \A j \in 1 .. d : owed'[c][a + j][1] = buffer'[(From(c)' + j - 1) % MAXNUMMESSAGES]
  BY Zenon, <1>2, <1>3, <1>4
<1> QED
  BY Zenon, <1>1, <1>3, <1>4, <1>5 DEF Holds

\* With its second store an insertion is over, and everyone is told to look.
LEMMA KickServes ==
    ASSUME QInv, IInv, NEW b \in Slot, Kick(b)
    PROVE  QInv'
<1>0. /\ pc[b] = "kick" /\ writeLock = b
      /\ UNCHANGED <<maxMsgNum, buffer, active, sendOnly, resetState, nextMsgNum, max, messages,
         nummsgs>>
      /\ hasMessages' = [c \in Slot |-> c <= lastBackend \/ hasMessages[c]]
      /\ owed' = [c \in Slot |-> Marked(owed[c], "new", "queued")]
  BY Zenon DEF Kick, seg, batch, IInv, Locks
<1>1. PICK l \in {"insert", "idle"} : Goto(b, l)
  BY Zenon DEF Kick
<1>2. \A c \in Slot : pc'[c] = IF c = b THEN l ELSE pc[c]
  BY Zenon, <1>1 DEF Goto, IInv, Types
<1>3. \A c \in Slot :
        /\ owed'[c] \in Seq(Content \X Mark) /\ Len(owed'[c]) = Len(owed[c])
        /\ \A i \in 1 .. Len(owed[c]) :
              /\ owed'[c][i][1] = owed[c][i][1]
              /\ owed'[c][i][2] = IF owed[c][i][2] = "new" THEN "queued" ELSE owed[c][i][2]
  <2> TAKE c \in Slot
  <2>1. owed[c] \in Seq(Content \X Mark) /\ "new" \in Mark /\ "queued" \in Mark
    BY Zenon DEF QInv, QTypes, Mark
  <2>2. owed'[c] = Marked(owed[c], "new", "queued")
    BY Zenon, <1>0
  <2>3. owed'[c] \in Seq(Content \X Mark) /\ Len(owed'[c]) = Len(owed[c])
    BY Zenon, <2>1, <2>2, MarkedIsSeq
  <2>4. \A i \in 1 .. Len(owed[c]) :
              /\ owed'[c][i][1] = owed[c][i][1]
              /\ owed'[c][i][2] = IF owed[c][i][2] = "new" THEN "queued" ELSE owed[c][i][2]
    <3> TAKE i \in 1 .. Len(owed[c])
    <3>1. /\ owed'[c][i][1] = owed[c][i][1]
          /\ owed[c][i][2] = "new" => owed'[c][i][2] = "queued"
          /\ owed[c][i][2] # "new" => owed'[c][i][2] = owed[c][i][2]
      BY SMTT(40), Z3T(40), <2>2, MarkedAt
    <3> QED
      BY Zenon, <3>1
  <2> QED
    BY <2>3, <2>4
<1>4. ASSUME NEW c \in Slot
      PROVE  Served(c)'
  <2>0. Place(c) /\ Holds(c) /\ Timely(c) /\ messages[c] \in Seq(Content)
    BY Zenon DEF QInv, QTypes, Served
  <2>1. /\ From(c)' = From(c) /\ Ahead(c)' = Ahead(c) /\ Seen(c)' = Seen(c)
        /\ pc'[c] \in Receiving => pc'[c] = pc[c]
        /\ pc[c] \in {"drain", "process"} => pc'[c] = pc[c]
    BY Zenon, <1>0, <1>2 DEF From, Ahead, Seen, Receiving
  <2>2. Place(c)'
    <3>1. ~active[c] => owed'[c] = <<>>
      <4>1. owed[c] = <<>> => Len(owed[c]) = 0
        BY SMTT(40), Z3T(40)
      <4>2. Len(owed'[c]) = 0 => owed'[c] = <<>>
        BY SMTT(40), Z3T(40), <1>3
      <4> QED
        BY Zenon, <1>3, <2>0, <4>1, <4>2 DEF Place
    <3> QED
      BY Zenon, <1>0, <2>0, <2>1, <3>1 DEF Place
  <2>3. Visible(c)'
    BY Zenon, <1>0 DEF Visible, Receives, IInv, Slots
  <2>4. Timely(c)'
    <3>1. \A k : Rest(c, k, {"new", "queued"}) => Rest(c, k, {"new", "queued"})'
      BY Zenon, <1>3 DEF Rest
    <3> QED
      BY Zenon, <1>0, <2>0, <2>1, <3>1 DEF Timely, Receiving
  <2>5. Holds(c)'
    <3>1. /\ active'[c] = active[c] /\ sendOnly'[c] = sendOnly[c]
          /\ resetState'[c] = resetState[c]
          /\ messages'[c] = messages[c] /\ Len(owed'[c]) = Len(owed[c])
          /\ \A i \in 1 .. Len(owed[c]) : owed'[c][i][1] = owed[c][i][1]
      BY Zenon, <1>0, <1>3
    <3> QED
      BY Zenon, <1>0, <2>0, <2>1, <3>1, RemarkedHolds
  <2> QED
    BY Zenon, <2>2, <2>3, <2>4, <2>5 DEF Served
<1>5. QTypes'
  <2>1. hasMessages' \in [Slot -> BOOLEAN]
    BY SMTT(40), Z3T(40), <1>0 DEF QInv, QTypes
  <2>2. owed' \in [Slot -> Seq(Content \X Mark)]
    BY Zenon, <1>0, <1>3
  <2> QED
    BY Zenon, <1>0, <2>1, <2>2 DEF QInv, QTypes
<1>6. Written'
  BY Zenon, <1>0, <1>2 DEF Written, IInv, Locks
<1>7. NewInKick'
  BY Zenon, <1>3 DEF NewInKick
<1> QED
  BY Zenon, <1>4, <1>5, <1>6, <1>7 DEF QInv

\* A call of ReceiveSharedInvalidMessages from outside of any other.
LEMMA ReceiveServes ==
    ASSUME QInv, IInv, NEW b \in Slot, ReceiveSharedInvalidMessages(b)
    PROVE  QInv'
<1>0. /\ pc[b] = "idle" /\ active[b] /\ ~sendOnly[b] /\ Goto(b, "drain")
      /\ UNCHANGED <<maxMsgNum, buffer, active, sendOnly, resetState, hasMessages, nextMsgNum,
         max,
                     messages, nummsgs, data>>
      /\ owed' = [owed EXCEPT ![b] = Marked(@, "queued", "due")]
      /\ Place(b) /\ Holds(b) /\ Visible(b) /\ owed \in [Slot -> Seq(Content \X Mark)]
  BY Zenon DEF ReceiveSharedInvalidMessages, seg, flags, batch, QInv, QTypes, Served
<1>1. \A c \in Slot : pc'[c] = IF c = b THEN "drain" ELSE pc[c]
  BY Zenon, <1>0 DEF Goto, IInv, Types
<1>2. /\ owed'[b] = Marked(owed[b], "queued", "due") /\ owed[b] \in Seq(Content \X Mark)
      /\ \A c \in Slot \ {b} : owed'[c] = owed[c]
      /\ "queued" \in Mark /\ "due" \in Mark
  BY Zenon, <1>0 DEF Mark
<1>3. owed'[b] \in Seq(Content \X Mark) /\ Len(owed'[b]) = Len(owed[b])
  BY Zenon, <1>2, MarkedIsSeq
<1>4. ASSUME NEW i \in 1 .. Len(owed[b])
      PROVE  /\ owed'[b][i][1] = owed[b][i][1]
             /\ owed[b][i][2] = "queued" => owed'[b][i][2] = "due"
             /\ owed[b][i][2] # "queued" => owed'[b][i][2] = owed[b][i][2]
  BY SMTT(40), Z3T(40), <1>2, MarkedAt
<1>5. QTypes'
  <2>1. owed' \in [Slot -> Seq(Content \X Mark)]
    BY Zenon, <1>0, <1>2, <1>3
  <2> QED
    BY Zenon, <1>0, <2>1 DEF QInv, QTypes
<1>6. From(b)' = From(b) /\ Ahead(b)' = Ahead(b)
  BY Zenon, <1>0, <1>1 DEF From, Ahead
<1>7. Holds(b)'
  BY Zenon, <1>0, <1>3, <1>4, <1>6, RemarkedHolds
<1>8. Place(b)' /\ Timely(b)'
  BY Zenon, <1>0, <1>1 DEF Place, Timely
<1>9. Visible(b)'
  <2>1. \A i \in 1 .. Len(owed[b]) : owed[b][i][2] \in {"new"} => owed'[b][i][2] \in {"new"}
    BY Zenon, <1>4
  <2>2. Rest(b, Len(messages[b]), {"new"}) => Rest(b, Len(messages[b]), {"new"})'
    BY Zenon, <1>0, <1>3, <2>1 DEF Rest
  <2> QED
    BY Zenon, <1>0, <1>1, <2>2 DEF Visible, Receives
<1>10. \A c \in Slot \ {b} : Untouched(c) /\ data'[c] = data[c]
  BY Zenon, <1>0, <1>1, <1>2 DEF Untouched
<1>11. \A i \in 1 .. Len(owed'[b]) : owed'[b][i][2] = "new" =>
           \E j \in 1 .. Len(owed[b]) : owed[b][j][2] = "new"
  BY Zenon, <1>3, <1>4
<1>12. Served(b)' /\ "drain" # "publish" /\ pc[b] # "kick"
  BY Zenon, <1>0, <1>7, <1>8, <1>9 DEF Served
<1> QED
  BY Zenon, <1>0, <1>5, <1>10, <1>11, <1>12, OwnStep

\* What b is owed once it has been told the first of it.
LEMMA ToldIs ==
    ASSUME QInv, NEW b \in Slot, NEW l, Told(b, l), owed[b] # <<>>
    PROVE  /\ owed' \in [Slot -> Seq(Content \X Mark)]
           /\ \A c \in Slot \ {b} : owed'[c] = owed[c]
           /\ Len(owed[b]) \in Nat \ {0} /\ Len(owed'[b]) = Len(owed[b]) - 1
           /\ \A i \in 1 .. Len(owed'[b]) : /\ owed'[b][i][1] = owed[b][i + 1][1]
                                            /\ owed'[b][i][2] = "new" <=> owed[b][i + 1][2] = "new"
           /\ \/ /\ Goto(b, l)
                 /\ \A i \in 1 .. Len(owed'[b]) : owed'[b][i][2] = owed[b][i + 1][2]
              \/ Goto(b, "drain")
<1>0. owed \in [Slot -> Seq(Content \X Mark)] /\ owed[b] \in Seq(Content \X Mark)
  BY Zenon DEF QInv, QTypes
<1>1. PICK t \in Seq(Content \X Mark) :
          /\ t = Tail(owed[b]) /\ Len(t) = Len(owed[b]) - 1
          /\ \A i \in 1 .. Len(t) : t[i] = owed[b][i + 1]
  BY Zenon, <1>0, SeqTail
<1>2. Len(owed[b]) \in Nat \ {0}
  BY Zenon, <1>0, SeqEmpty
<1>3. CASE Goto(b, l) /\ owed' = [owed EXCEPT ![b] = Tail(@)]
  <2>1. owed' = [owed EXCEPT ![b] = t]
    BY Zenon, <1>1, <1>3
  <2>2. owed'[b] = t /\ \A c \in Slot \ {b} : owed'[c] = owed[c]
    BY Zenon, <1>0, <2>1
  <2>3. owed' \in [Slot -> Seq(Content \X Mark)]
    BY Zenon, <1>0, <2>1
  <2>4. \A i \in 1 .. Len(owed'[b]) : owed'[b][i] = owed[b][i + 1]
    BY Zenon, <1>1, <2>2
  <2> QED
    BY Zenon, <1>1, <1>2, <1>3, <2>2, <2>3, <2>4
<1>4. CASE Goto(b, "drain") /\ owed' = [owed EXCEPT ![b] = Marked(Tail(@), "queued", "due")]
  <2>1. owed' = [owed EXCEPT ![b] = Marked(t, "queued", "due")]
    BY Zenon, <1>1, <1>4
  <2>2. owed'[b] = Marked(t, "queued", "due") /\ \A c \in Slot \ {b} : owed'[c] = owed[c]
    BY Zenon, <1>0, <2>1
  <2>3. owed'[b] \in Seq(Content \X Mark) /\ Len(owed'[b]) = Len(t)
    BY Zenon, <2>2, MarkedIsSeq DEF Mark
  <2>4. owed' \in [Slot -> Seq(Content \X Mark)]
    BY Zenon, <1>0, <2>1, <2>2, <2>3
  <2>5. \A i \in 1 .. Len(owed'[b]) : /\ owed'[b][i][1] = owed[b][i + 1][1]
                                      /\ owed'[b][i][2] = "new" <=> owed[b][i + 1][2] = "new"
    <3> TAKE i \in 1 .. Len(owed'[b])
    <3>1. i \in 1 .. Len(t) /\ t[i] = owed[b][i + 1]
      BY Zenon, <1>1, <2>3
    <3>2. /\ owed'[b][i][1] = t[i][1]
          /\ t[i][2] = "queued" => owed'[b][i][2] = "due"
          /\ t[i][2] # "queued" => owed'[b][i][2] = t[i][2]
      BY SMTT(40), Z3T(40), <2>2, <3>1, MarkedAt
    <3> QED
      BY Zenon, <3>1, <3>2
  <2> QED
    BY Zenon, <1>1, <1>2, <1>4, <2>2, <2>3, <2>4, <2>5
<1> QED
  BY Zenon, <1>3, <1>4 DEF Told

\* When b has been told the first of what it is owed, the rest holds as before.
LEMMA ToldHolds ==
    ASSUME QInv, IInv, IInv', NEW b \in Slot, NEW l, Told(b, l), Receives(b), Receives(b)',
           NEW a \in Nat, a + 1 = Ahead(b), a = Ahead(b)', From(b)' = From(b),
           UNCHANGED <<maxMsgNum, buffer>>,
           NEW m \in Nat, m = Len(messages'[b]), m <= a,
           m = 0 \/ (m + 1 = Len(messages[b]) /\ \A i \in 1 .. m :
               messages'[b][i] = messages[b][i + 1]),
           resetState'[b] => resetState[b] /\ m + 1 = Len(messages[b]) /\ m + 1 <= a
    PROVE  owed[b] # <<>> /\ Holds(b)'
<1>0. /\ Holds(b) /\ owed[b] \in Seq(Content \X Mark)
  BY Zenon DEF QInv, Served, QTypes
<1>1. PICK d \in Nat : d = maxMsgNum - From(b) /\ Len(owed[b]) = a + 1 + d
  BY Zenon, <1>0, FromBounds DEF Holds
<1>2. owed[b] # <<>>
  <2>1. Len(owed[b]) # 0
    BY SMTT(40), Z3T(40), <1>1
  <2> QED
    BY Zenon, <2>1, SeqEmpty
<1>3. /\ Len(owed'[b]) = Len(owed[b]) - 1
      /\ \A i \in 1 .. Len(owed'[b]) : owed'[b][i][1] = owed[b][i + 1][1]
  BY Zenon, <1>2, ToldIs
<1>4. Len(owed'[b]) = a + d
  BY SMTT(40), Z3T(40), <1>1, <1>3
<1>5. \A i \in 1 .. m : owed'[b][i][1] = messages'[b][i]
  <2> SUFFICES ASSUME NEW i \in 1 .. m
               PROVE  owed'[b][i][1] = messages'[b][i]
    OBVIOUS
  <2>1. m # 0 /\ i \in 1 .. a + d /\ i + 1 \in 1 .. m + 1
    BY SMTT(40), Z3T(40)
  <2>2. i + 1 \in 1 .. Len(messages[b]) /\ messages'[b][i] = messages[b][i + 1]
    BY Zenon, <2>1
  <2>3. owed[b][i + 1][1] = messages[b][i + 1]
    BY Zenon, <1>0, <2>2 DEF Holds
  <2> QED
    BY Zenon, <1>3, <1>4, <2>1, <2>2, <2>3
<1>6. resetState'[b] => owed'[b][m + 1][1] = RESET
  <2> SUFFICES ASSUME resetState'[b]
               PROVE  owed'[b][m + 1][1] = RESET
    OBVIOUS
  <2>1. owed[b][m + 1 + 1][1] = RESET
    BY Zenon, <1>0 DEF Holds
  <2>2. m + 1 \in 1 .. a + d
    BY SMTT(40), Z3T(40)
  <2> QED
    BY Zenon, <1>3, <1>4, <2>1, <2>2
<1>7. \A j \in 1 .. d : owed'[b][a + j][1] = buffer[(From(b) + j - 1) % MAXNUMMESSAGES]
  <2> SUFFICES ASSUME NEW j \in 1 .. d
               PROVE  owed'[b][a + j][1] = buffer[(From(b) + j - 1) % MAXNUMMESSAGES]
    OBVIOUS
  <2>1. a + j \in 1 .. a + d /\ (a + 1) + j = (a + j) + 1
    BY SMTT(40), Z3T(40)
  <2>2. owed[b][(a + 1) + j][1] = buffer[(From(b) + j - 1) % MAXNUMMESSAGES]
    BY Zenon, <1>0, <1>1 DEF Holds
  <2>3. a + j \in 1 .. Len(owed'[b])
    BY Zenon, <1>4, <2>1
  <2>4. owed'[b][a + j][1] = owed[b][(a + j) + 1][1]
    BY Zenon, <1>3, <2>3
  <2> QED
    BY Zenon, <2>1, <2>2, <2>4
<1>8. Holds(b)'
  BY Zenon, <1>1, <1>4, <1>5, <1>6, <1>7 DEF Holds
<1> QED
  BY <1>2, <1>8

\* b is told the first of what it is owed, and the marks of the rest move up.
LEMMA ToldRest ==
    ASSUME QInv, NEW b \in Slot, NEW l, Told(b, l), owed[b] # <<>>, NEW k \in Nat
    PROVE  /\ Rest(b, k + 1, {"new"}) => Rest(b, k, {"new"})'
           /\ Goto(b, l) /\ ~ Goto(b, "drain") /\ Rest(b, k + 1, {"new", "queued"})
                  => Rest(b, k, {"new", "queued"})'
<1>1. /\ Len(owed[b]) \in Nat \ {0} /\ Len(owed'[b]) = Len(owed[b]) - 1
      /\ \A i \in 1 .. Len(owed'[b]) : owed'[b][i][2] = "new" <=> owed[b][i + 1][2] = "new"
      /\ ~ Goto(b, "drain") => \A i \in 1 .. Len(owed'[b]) : owed'[b][i][2] = owed[b][i + 1][2]
  BY Zenon, ToldIs
<1>2. \A i \in 1 .. Len(owed'[b]) : i + 1 \in 1 .. Len(owed[b]) /\ (i > k => i + 1 > k + 1)
  BY SMTT(40), Z3T(40), <1>1
<1>3. ASSUME Rest(b, k + 1, {"new"})
      PROVE  Rest(b, k, {"new"})'
  BY Zenon, <1>1, <1>2, <1>3 DEF Rest
<1>4. ASSUME ~ Goto(b, "drain"), Rest(b, k + 1, {"new", "queued"})
      PROVE  Rest(b, k, {"new", "queued"})'
  <2>1. \A i \in 1 .. Len(owed'[b]) : owed'[b][i][2] = owed[b][i + 1][2]
    BY Zenon, <1>1, <1>4
  <2>2. \A i \in 1 .. Len(owed'[b]) : i > k => owed[b][i + 1][2] \in {"new", "queued"}
    BY Zenon, <1>2, <1>4 DEF Rest
  <2> QED
    BY Zenon, <2>1, <2>2 DEF Rest
<1> QED
  BY <1>3, <1>4

\* Telling b something adds no message.
LEMMA ToldNew ==
    ASSUME QInv, NEW b \in Slot, NEW l, Told(b, l), owed[b] # <<>>
    PROVE  \A i \in 1 .. Len(owed'[b]) : owed'[b][i][2] = "new" =>
               \E j \in 1 .. Len(owed[b]) : owed[b][j][2] = "new"
<1>1. /\ Len(owed[b]) \in Nat \ {0} /\ Len(owed'[b]) = Len(owed[b]) - 1
      /\ \A i \in 1 .. Len(owed'[b]) : owed'[b][i][2] = "new" <=> owed[b][i + 1][2] = "new"
  BY Zenon, ToldIs
<1>2. \A i \in 1 .. Len(owed'[b]) : i + 1 \in 1 .. Len(owed[b])
  BY SMTT(40), Z3T(40), <1>1
<1> QED
  BY Zenon, <1>1, <1>2

\* invalFunction(), in either loop over the batch.
LEMMA InvalidateServes ==
    ASSUME QInv, IInv, IInv', NEW b \in Slot, NEW l \in {"drain", "process"}, Invalidate(b, l)
    PROVE  QInv'
<1>0. /\ pc[b] = l /\ messages[b] # <<>> /\ Told(b, l)
      /\ messages' = [messages EXCEPT ![b] = Tail(@)]
      /\ UNCHANGED <<maxMsgNum, buffer, active, sendOnly, resetState, hasMessages, nextMsgNum,
         max,
                     nummsgs, data>>
      /\ Place(b) /\ Visible(b) /\ Timely(b) /\ messages \in [Slot -> Seq(Content)]
  BY Zenon DEF Invalidate, seg, flags, QInv, QTypes, Served
<1>1. PICK k \in {l, "drain"} : Goto(b, k)
  BY Zenon, <1>0 DEF Told
<1>2. /\ k \in {"drain", "process"} /\ (k = "process" => k = l)
      /\ \A c \in Slot : pc'[c] = IF c = b THEN k ELSE pc[c]
  BY Zenon, <1>1 DEF Goto, IInv, Types
<1>3. /\ messages'[b] \in Seq(Content) /\ Len(messages'[b]) = Len(messages[b]) - 1
      /\ \A i \in 1 .. Len(messages'[b]) : messages'[b][i] = messages[b][i + 1]
      /\ \A c \in Slot \ {b} : messages'[c] = messages[c]
      /\ Len(messages[b]) \in Nat \ {0} /\ messages' \in [Slot -> Seq(Content)]
  <2>1. PICK t \in Seq(Content) : /\ t = Tail(messages[b]) /\ Len(t) = Len(messages[b]) - 1
                                  /\ \A i \in 1 .. Len(t) : t[i] = messages[b][i + 1]
    BY Zenon, <1>0, SeqTail
  <2>2. messages' = [messages EXCEPT ![b] = t]
    BY Zenon, <1>0, <2>1
  <2>3. Len(messages[b]) \in Nat \ {0}
    BY Zenon, <1>0, SeqEmpty
  <2> QED
    BY Zenon, <1>0, <2>1, <2>2, <2>3
<1>4. PICK m \in Nat : m = Len(messages'[b]) /\ Len(messages[b]) = m + 1
  BY SMTT(40), Z3T(40), <1>3
<1>5. Receives(b) /\ Receives(b)' /\ From(b)' = From(b)
  BY Zenon, <1>0, <1>2 DEF Receives, Place, Receiving, IInv, Slots, From
<1>6. PICK a \in Nat : /\ a + 1 = Ahead(b) /\ a = Ahead(b)' /\ m <= a
                       /\ resetState'[b] => resetState[b] /\ m + 1 <= a
  <2>1. Ahead(b)' = m + (IF resetState[b] THEN 1 ELSE 0)
        /\ Ahead(b) = m + 1 + (IF resetState[b] THEN 1 ELSE 0)
    BY Zenon, <1>0, <1>4 DEF Ahead
  <2>2. CASE resetState[b]
    <3>1. m + 1 \in Nat /\ (m + 1) + 1 = m + 1 + 1 /\ m <= m + 1 /\ m + 1 <= m + 1
      BY SMTT(40), Z3T(40)
    <3> QED
      BY Zenon, <1>0, <2>1, <2>2, <3>1
  <2>3. CASE ~resetState[b]
    <3>1. m + 0 = m /\ m + 1 + 0 = m + 1 /\ m <= m
      BY SMTT(40), Z3T(40)
    <3> QED
      BY Zenon, <1>0, <2>1, <2>3, <3>1
  <2> QED
    BY <2>2, <2>3
<1>7. owed[b] # <<>> /\ Holds(b)'
  BY Zenon, <1>0, <1>3, <1>4, <1>5, <1>6, ToldHolds
<1>8. Place(b)'
  BY Zenon, <1>0, <1>2, <1>5 DEF Place, Receives
<1>9. Visible(b)'
  <2>1. Rest(b, m + 1, {"new"}) => Rest(b, m, {"new"})'
    BY Zenon, <1>0, <1>7, ToldRest
  <2>2. pc[b] \notin {"fetch", "copy"} /\ pc'[b] \notin {"fetch", "copy"}
    BY Zenon, <1>0, <1>2
  <2>3. ~ hasMessages[b] => Rest(b, m + 1, {"new"})
    BY Zenon, <1>0, <1>4, <1>5, <2>2 DEF Visible
  <2> QED
    BY Zenon, <1>0, <1>4, <2>1, <2>2, <2>3 DEF Visible
<1>10. Timely(b)'
  <2> SUFFICES ASSUME pc'[b] = "process", nummsgs'[b] # MAXINVALMSGS
               PROVE  Rest(b, m, {"new", "queued"})'
    BY Zenon, <1>2, <1>4 DEF Timely
  <2>1. k = "process" /\ l = "process" /\ Goto(b, l)
    BY Zenon, <1>1, <1>2
  <2>2. ~ Goto(b, "drain")
    BY Zenon, <2>1 DEF Goto, IInv, Types
  <2>3. Rest(b, m + 1, {"new", "queued"})
    BY Zenon, <1>0, <1>4, <2>1 DEF Timely
  <2> QED
    BY Zenon, <1>0, <1>7, <2>1, <2>2, <2>3, ToldRest
<1>11. /\ QTypes' /\ \A c \in Slot \ {b} : Untouched(c) /\ data'[c] = data[c]
  <2>1. owed' \in [Slot -> Seq(Content \X Mark)] /\ \A c \in Slot \ {b} : owed'[c] = owed[c]
    BY Zenon, <1>0, <1>7, ToldIs
  <2> QED
    BY Zenon, <1>0, <1>2, <1>3, <2>1 DEF QInv, QTypes, Untouched
<1>12. \A i \in 1 .. Len(owed'[b]) : owed'[b][i][2] = "new" =>
           \E j \in 1 .. Len(owed[b]) : owed[b][j][2] = "new"
  BY Zenon, <1>0, <1>7, ToldNew
<1>13. Served(b)' /\ k # "publish" /\ pc[b] # "kick"
  BY Zenon, <1>0, <1>2, <1>7, <1>8, <1>9, <1>10 DEF Served
<1> QED
  BY Zenon, <1>0, <1>1, <1>11, <1>12, <1>13, OwnStep

\* "SI reset message extracted": b skips to the max it has fetched.
LEMMA TakeResetServes ==
    ASSUME QInv, IInv, IInv', NEW b \in Slot, TakeReset(b)
    PROVE  QInv'
<1>0. /\ pc[b] = "copy" /\ resetState[b] /\ Told(b, "caught_up") /\ messages[b] = <<>>
      /\ nextMsgNum' = [nextMsgNum EXCEPT ![b] = max[b]]
      /\ resetState' = [resetState EXCEPT ![b] = FALSE]
      /\ max' = [max EXCEPT ![b] = 0]
      /\ UNCHANGED <<maxMsgNum, buffer, active, sendOnly, hasMessages, messages, nummsgs, data>>
      /\ Place(b) /\ Visible(b) /\ Timely(b)
  BY Zenon DEF TakeReset, seg, QInv, Served, Place
<1>1. PICK k \in {"caught_up", "drain"} : Goto(b, k)
  BY Zenon, <1>0 DEF Told
<1>2. \A c \in Slot : pc'[c] = IF c = b THEN k ELSE pc[c]
  BY Zenon, <1>1 DEF Goto, IInv, Types
<1>3. Len(messages[b]) = 0 /\ Len(messages'[b]) = 0
  BY SMTT(40), Z3T(40), <1>0
<1>4. /\ nextMsgNum'[b] = max[b] /\ ~resetState'[b] /\ max[b] \in Int
      /\ \A c \in Slot \ {b} : /\ nextMsgNum'[c] = nextMsgNum[c] /\ resetState'[c] = resetState[c]
                               /\ max'[c] = max[c]
  BY Zenon, <1>0 DEF IInv, Types
<1>5. Receives(b) /\ Receives(b)' /\ From(b) = max[b] /\ From(b)' = max[b]
  BY Zenon, <1>0, <1>4 DEF Receives, Place, Receiving, IInv, Slots, From
<1>6. 0 + 1 = Ahead(b) /\ 0 = Ahead(b)' /\ Seen(b) = 0 + 1 /\ 0 \in Nat /\ 0 <= 0
  BY SMTT(40), Z3T(40), <1>0, <1>3, <1>4, <1>5 DEF Ahead, Seen
<1>7. owed[b] # <<>> /\ Holds(b)'
  BY Zenon, <1>0, <1>3, <1>4, <1>5, <1>6, ToldHolds
<1>8. Place(b)'
  BY Zenon, <1>0, <1>2, <1>5 DEF Place, Receives
<1>9. Visible(b)'
  <2>1. Rest(b, 0 + 1, {"new"}) => Rest(b, 0, {"new"})'
    BY Zenon, <1>0, <1>6, <1>7, ToldRest
  <2>2. ~ hasMessages[b] => Rest(b, 0 + 1, {"new"})
    BY Zenon, <1>0, <1>5, <1>6 DEF Visible
  <2>3. pc'[b] \notin {"fetch", "copy"}
    BY Zenon, <1>2
  <2> QED
    BY Zenon, <1>0, <1>3, <2>1, <2>2, <2>3 DEF Visible
<1>10. Timely(b)'
  <2> SUFFICES ASSUME pc'[b] = "caught_up"
               PROVE  Rest(b, 0, {"new", "queued"})'
    BY Zenon, <1>2 DEF Timely
  <2>1. k = "caught_up" /\ Goto(b, "caught_up")
    BY Zenon, <1>1, <1>2
  <2>2. ~ Goto(b, "drain")
    BY Zenon, <2>1 DEF Goto, IInv, Types
  <2>3. Rest(b, 0 + 1, {"new", "queued"})
    BY Zenon, <1>0, <1>6 DEF Timely
  <2> QED
    BY Zenon, <1>0, <1>6, <1>7, <2>1, <2>2, <2>3, ToldRest
<1>11. /\ QTypes' /\ \A c \in Slot \ {b} : Untouched(c) /\ data'[c] = data[c]
  <2>1. owed' \in [Slot -> Seq(Content \X Mark)] /\ \A c \in Slot \ {b} : owed'[c] = owed[c]
    BY Zenon, <1>0, <1>7, ToldIs
  <2> QED
    BY Zenon, <1>0, <1>2, <1>4, <2>1 DEF QInv, QTypes, Untouched
<1>12. \A i \in 1 .. Len(owed'[b]) : owed'[b][i][2] = "new" =>
           \E j \in 1 .. Len(owed[b]) : owed[b][j][2] = "new"
  BY Zenon, <1>0, <1>7, ToldNew
<1>13. Served(b)' /\ k # "publish" /\ pc[b] # "kick"
  BY Zenon, <1>0, <1>2, <1>7, <1>8, <1>9, <1>10 DEF Served
<1> QED
  BY Zenon, <1>0, <1>1, <1>11, <1>12, <1>13, OwnStep

\* hasMessages is cleared under the lock, and then maxMsgNum is read.
LEMMA FetchServes ==
    ASSUME QInv, IInv, NEW b \in Slot, LockAndClear(b) \/ FetchMax(b)
    PROVE  QInv'
<1>0. /\ Place(b) /\ Holds(b) /\ Visible(b) /\ messages[b] = <<>>
      /\ UNCHANGED <<maxMsgNum, buffer, active, sendOnly, resetState, nextMsgNum,
                     messages, nummsgs, data, owed>>
  BY Zenon DEF LockAndClear, FetchMax, seg, flags, batch, QInv, Served, Place
<1>1. \A i \in 1 .. Len(owed'[b]) : owed'[b][i][2] = "new" =>
           \E j \in 1 .. Len(owed[b]) : owed[b][j][2] = "new"
  BY Zenon, <1>0
<1>2. CASE LockAndClear(b)
  <2>1. /\ pc[b] = "lock" /\ Goto(b, "fetch") /\ UNCHANGED max
        /\ hasMessages' = [hasMessages EXCEPT ![b] = FALSE]
    BY Zenon, <1>2 DEF LockAndClear
  <2>2. \A c \in Slot : pc'[c] = IF c = b THEN "fetch" ELSE pc[c]
    BY Zenon, <2>1 DEF Goto, IInv, Types
  <2>3. QTypes' /\ \A c \in Slot \ {b} : Untouched(c) /\ data'[c] = data[c]
    BY Zenon, <1>0, <2>1, <2>2 DEF QInv, QTypes, Untouched
  <2>4. From(b)' = From(b) /\ Ahead(b)' = Ahead(b)
    BY Zenon, <1>0, <2>1, <2>2 DEF From, Ahead
  <2>5. Holds(b)'
    BY Zenon, <1>0, <2>4 DEF Holds, Receives
  <2>6. Place(b)' /\ Visible(b)' /\ Timely(b)'
    BY Zenon, <1>0, <2>1, <2>2 DEF Place, Visible, Timely, Receiving
  <2> QED
    BY Zenon, <1>0, <1>1, <2>1, <2>3, <2>5, <2>6, OwnStep DEF Served
<1>3. CASE FetchMax(b)
  <2>1. /\ pc[b] = "fetch" /\ Goto(b, "copy") /\ UNCHANGED hasMessages
        /\ max' = [max EXCEPT ![b] = maxMsgNum]
    BY Zenon, <1>3 DEF FetchMax, flags
  <2>2. \A c \in Slot : pc'[c] = IF c = b THEN "copy" ELSE pc[c]
    BY Zenon, <2>1 DEF Goto, IInv, Types
  <2>3. max'[b] = maxMsgNum /\ \A c \in Slot \ {b} : max'[c] = max[c]
    BY Zenon, <2>1 DEF IInv, Types
  <2>4. QTypes' /\ \A c \in Slot \ {b} : Untouched(c) /\ data'[c] = data[c]
    BY Zenon, <1>0, <2>1, <2>2, <2>3 DEF QInv, QTypes, Untouched
  <2>5. From(b)' = From(b) /\ Ahead(b)' = Ahead(b)
    BY Zenon, <1>0, <2>1, <2>2, <2>3 DEF From, Ahead
  <2>6. Holds(b)'
    BY Zenon, <1>0, <2>5 DEF Holds, Receives
  <2>7. Receives(b)
    BY Zenon, <1>0, <2>1 DEF Receives, Place, Receiving, IInv, Slots
  <2>8. Seen(b)' = Len(owed[b]) /\ Len(owed[b]) \in Nat
    <3>1. Len(owed[b]) = Ahead(b) + (maxMsgNum - From(b))
      BY Zenon, <1>0, <2>7 DEF Holds
    <3> QED
      BY Zenon, <2>3, <2>5, <3>1, AheadIs DEF Seen, QInv
  <2>9. \A i \in 1 .. Len(owed'[b]) : ~ (i > Seen(b)')
    BY SMTT(40), Z3T(40), <1>0, <2>8
  <2>10. Place(b)' /\ Visible(b)' /\ Timely(b)'
    BY Zenon, <1>0, <2>1, <2>2, <2>9 DEF Place, Visible, Timely, Rest, Receiving
  <2> QED
    BY Zenon, <1>0, <1>1, <2>1, <2>4, <2>6, <2>10, OwnStep DEF Served
<1> QED
  BY <1>2, <1>3

\* What SIGetDataEntries copies is what comes next, and no more than max allows.
LEMMA CopyServes ==
    ASSUME QInv, IInv, NEW b \in Slot, CopyEntries(b)
    PROVE  QInv'
<1>0. /\ pc[b] = "copy" /\ ~resetState[b] /\ messages[b] = <<>> /\ Goto(b, "process")
      /\ messages' = [messages EXCEPT ![b] = Entries(nextMsgNum[b], Extracted(b))]
      /\ nummsgs' = [nummsgs EXCEPT ![b] = Extracted(b)]
      /\ nextMsgNum' = [nextMsgNum EXCEPT ![b] = Int32(@ + Extracted(b))]
      /\ hasMessages' = [hasMessages EXCEPT ![b] = HasMore(b, @)]
      /\ max' = [max EXCEPT ![b] = 0]
      /\ UNCHANGED <<maxMsgNum, buffer, active, sendOnly, resetState, data, owed>>
      /\ Place(b) /\ Holds(b) /\ Visible(b) /\ Timely(b)
  BY Zenon DEF CopyEntries, seg, QInv, Served, Place
<1>1. Receives(b) /\ Tracked(b)
  BY Zenon, <1>0 DEF Receives, Tracked, Place, Receiving, IInv, Slots
<1>2. PICK f \in Int, x \in Int, n \in Nat, M \in Nat \ {0} :
          /\ f = nextMsgNum[b] /\ x = max[b] /\ n = Extracted(b) /\ M = MAXNUMMESSAGES
          /\ 0 <= f /\ f + n <= x /\ x <= maxMsgNum /\ x - f <= M /\ maxMsgNum <= INT_MAX
          /\ n = x - f \/ (n = MAXINVALMSGS /\ n < x - f)
  <2>1. /\ nextMsgNum[b] \in Int /\ max[b] \in Int /\ nextMsgNum[b] <= max[b]
        /\ max[b] <= maxMsgNum /\ 0 <= minMsgNum /\ minMsgNum <= nextMsgNum[b]
        /\ maxMsgNum - minMsgNum <= MAXNUMMESSAGES /\ minMsgNum < MSGNUMWRAPAROUND
        /\ minMsgNum \in Int /\ maxMsgNum \in Int
    BY Zenon, <1>0, <1>1 DEF IInv, Types, Fetched, MsgNumsOrdered
  <2>2. PICK f \in Int, x \in Int : f = nextMsgNum[b] /\ x = max[b]
    BY Zenon, <2>1
  <2>3. Extracted(b) = IF x - f < MAXINVALMSGS THEN x - f ELSE MAXINVALMSGS
    BY Zenon, <2>2 DEF Extracted
  <2>4. PICK n \in Nat : n = Extracted(b) /\ f + n <= x
        /\ (n = x - f \/ (n = MAXINVALMSGS /\ n < x - f))
    <3>1. CASE x - f < MAXINVALMSGS
      <4>1. x - f \in Nat /\ f + (x - f) <= x
        BY SMTT(40), Z3T(40), <2>1, <2>2
      <4> QED
        BY Zenon, <2>3, <3>1, <4>1
    <3>2. CASE ~ (x - f < MAXINVALMSGS)
      <4>1. MAXINVALMSGS \in Nat /\ f + MAXINVALMSGS <= x
            /\ (MAXINVALMSGS = x - f \/ MAXINVALMSGS < x - f)
        BY SMTT(40), Z3T(40), <2>1, <2>2, <3>2, SInvalAssumption
      <4> QED
        BY Zenon, <2>3, <3>2, <4>1
    <3> QED
      BY <3>1, <3>2
  <2>5. MAXNUMMESSAGES \in Nat \ {0}
    BY Zenon, SInvalAssumption DEF SInvalAssumption
  <2>6. 0 <= f /\ x <= maxMsgNum /\ x - f <= MAXNUMMESSAGES /\ maxMsgNum <= INT_MAX
    BY SMTT(40), Z3T(40), <2>1, <2>2, <2>5, SInvalAssumption
  <2> QED
    BY Zenon, <2>2, <2>4, <2>5, <2>6
<1>3. \A c \in Slot : pc'[c] = IF c = b THEN "process" ELSE pc[c]
  BY Zenon, <1>0 DEF Goto, IInv, Types
<1>4. Int32(f + n) = f + n
  <2>1. f + n \in Int /\ -INT_MAX - 1 <= f + n /\ f + n <= INT_MAX
    BY SMTT(40), Z3T(40), <1>2, SInvalAssumption DEF IInv, Types
  <2> QED
    BY Zenon, <2>1, Int32Exact
<1>5. PICK ms \in Seq(Content) :
        /\ Len(ms) = n /\ ms = Entries(f, n)
        /\ \A i \in 1 .. n : ms[i] = buffer[(f + i - 1) % M]
  <2>1. \A i \in 1 .. n : buffer[(f + i - 1) % M] \in Content
    <3> TAKE i \in 1 .. n
    <3>1. f + i - 1 \in Int
      BY SMTT(40), Z3T(40)
    <3>2. (f + i - 1) % M \in 0 .. M - 1
      BY Zenon, <3>1, DivMod
    <3> QED
      BY Zenon, <1>2, <3>2 DEF QInv, QTypes
  <2>2. Entries(f, n) = [i \in 1 .. n |-> buffer[(f + i - 1) % M]]
    BY Zenon, <1>2 DEF Entries
  <2>3. Entries(f, n) \in [1 .. n -> Content]
    BY Zenon, <2>1, <2>2
  <2>4. Entries(f, n) \in Seq(Content) /\ Len(Entries(f, n)) = n
    BY Zenon, <2>3, FunIsSeq
  <2> QED
    BY Zenon, <2>2, <2>4
<1>6. /\ messages'[b] = ms /\ nummsgs'[b] = n /\ nextMsgNum'[b] = f + n
      /\ hasMessages'[b] = HasMore(b, hasMessages[b])
      /\ \A c \in Slot \ {b} : /\ messages'[c] = messages[c] /\ nummsgs'[c] = nummsgs[c]
                               /\ nextMsgNum'[c] = nextMsgNum[c]
                               /\ hasMessages'[c] = hasMessages[c]
                               /\ max'[c] = max[c]
  BY Zenon, <1>0, <1>2, <1>4, <1>5 DEF QInv, QTypes, IInv, Types
<1>7. QTypes'
  <2>1. HasMore(b, hasMessages[b]) \in BOOLEAN
    BY Zenon DEF HasMore, QInv, QTypes
  <2>2. messages' = [messages EXCEPT ![b] = ms] /\ nummsgs' = [nummsgs EXCEPT ![b] = n]
        /\ n \in Int
    BY SMTT(40), Z3T(40), <1>0, <1>2, <1>5
  <2> QED
    BY Zenon, <1>0, <2>1, <2>2 DEF QInv, QTypes
<1>8. \A c \in Slot \ {b} : Untouched(c) /\ data'[c] = data[c]
  BY Zenon, <1>0, <1>3, <1>6 DEF Untouched
<1>9. /\ From(b) = f /\ From(b)' = f + n /\ Ahead(b) = 0 /\ Ahead(b)' = n /\ Seen(b) = x - f
      /\ maxMsgNum \in Int
  <2>1. From(b) = f /\ From(b)' = f + n
    BY Zenon, <1>0, <1>2, <1>6 DEF From
  <2>2. Len(messages[b]) = 0 /\ maxMsgNum \in Int
    BY SMTT(40), Z3T(40), <1>0 DEF IInv, Types
  <2>3. Ahead(b) = 0 + 0 /\ Ahead(b)' = n + 0 /\ Seen(b) = Ahead(b) + (x - f)
    BY Zenon, <1>0, <1>2, <1>5, <1>6, <2>1, <2>2 DEF Ahead, Seen
  <2>4. 0 + 0 = 0 /\ n + 0 = n /\ 0 + (x - f) = x - f
    BY SMTT(40), Z3T(40)
  <2> QED
    BY Zenon, <2>1, <2>2, <2>3, <2>4
<1>10. Holds(b)'
  <2>1. /\ Len(owed[b]) = 0 + (maxMsgNum - f)
        /\ \A j \in 1 .. maxMsgNum - f : owed[b][0 + j][1] = buffer[(f + j - 1) % M]
    BY Zenon, <1>0, <1>1, <1>2, <1>9 DEF Holds
  <2>2. Len(owed'[b]) = n + (maxMsgNum - (f + n))
    BY Zenon, <1>0, <1>9, <2>1, AfterFirst
  <2>3. \A i \in 1 .. n : owed'[b][i][1] = messages'[b][i]
    <3> TAKE i \in 1 .. n
    <3>1. i \in 1 .. maxMsgNum - f /\ 0 + i = i
      BY SMTT(40), Z3T(40), <1>2, <1>9
    <3> QED
      BY Zenon, <1>0, <1>5, <1>6, <2>1, <3>1
  <2>4. \A j \in 1 .. maxMsgNum - (f + n) : owed'[b][n + j][1] = buffer[(f + n + j - 1) % M]
    <3> TAKE j \in 1 .. maxMsgNum - (f + n)
    <3>1. n + j \in 1 .. maxMsgNum - f /\ 0 + (n + j) = n + j /\ f + (n + j) - 1 = f + n + j - 1
      <4>1. maxMsgNum \in Int
        BY Zenon, <1>9
      <4> QED
        BY Zenon, <4>1, IndexAfterFirst
    <3> QED
      BY Zenon, <1>0, <2>1, <3>1
  <2>5. Len(owed'[b]) = Ahead(b)' + (maxMsgNum' - From(b)')
    BY Zenon, <1>0, <1>9, <2>2
  <2>6. \A i \in 1 .. Len(messages'[b]) : owed'[b][i][1] = messages'[b][i]
    BY Zenon, <1>5, <1>6, <2>3
  <2>7. \A j \in 1 .. maxMsgNum' - From(b)' :
              owed'[b][Ahead(b)' + j][1] = buffer'[(From(b)' + j - 1) % MAXNUMMESSAGES]
    BY Zenon, <1>0, <1>2, <1>9, <2>4
  <2> QED
    BY Zenon, <1>0, <2>5, <2>6, <2>7 DEF Holds
<1>11. Place(b)'
  BY Zenon, <1>0, <1>1, <1>3 DEF Place, Receives
<1>12. Visible(b)'
  <2> SUFFICES ASSUME ~ hasMessages'[b]
               PROVE  Rest(b, n, {"new"})'
    BY Zenon, <1>3, <1>5, <1>6 DEF Visible
  <2>1. ~ hasMessages[b] /\ f + n >= x
    BY Zenon, <1>2, <1>6 DEF HasMore
  <2>2. n = x - f
    BY SMTT(40), Z3T(40), <1>2, <2>1
  <2>3. Rest(b, n, {"new"})
    BY Zenon, <1>0, <1>1, <1>9, <2>1, <2>2 DEF Visible
  <2> QED
    BY Zenon, <1>0, <2>3 DEF Rest
<1>13. Timely(b)'
  <2> SUFFICES ASSUME n # MAXINVALMSGS
               PROVE  Rest(b, n, {"new", "queued"})'
    BY Zenon, <1>3, <1>5, <1>6 DEF Timely
  <2>1. Rest(b, n, {"new", "queued"})
    BY Zenon, <1>0, <1>2, <1>9 DEF Timely
  <2> QED
    BY Zenon, <1>0, <2>1 DEF Rest
<1>14. \A i \in 1 .. Len(owed'[b]) : owed'[b][i][2] = "new" =>
           \E j \in 1 .. Len(owed[b]) : owed[b][j][2] = "new"
  BY Zenon, <1>0
<1> QED
  BY Zenon, <1>0, <1>7, <1>8, <1>10, <1>11, <1>12, <1>13, <1>14, OwnStep DEF Served

-----------------------------------------------------------------------------
\* A reset takes the place of what c had not extracted.
LEMMA ForgottenIs ==
    ASSUME QTypes, NEW c \in Slot, NEW m \in Nat, m = Len(messages[c]), m <= Len(owed[c])
    PROVE  /\ Forgotten(c) \in Seq(Content \X Mark) /\ Len(Forgotten(c)) = m + 1
           /\ \A i \in 1 .. m : Forgotten(c)[i] = owed[c][i]
           /\ Forgotten(c)[m + 1][1] = RESET
           /\ Forgotten(c)[m + 1][2] \in {"queued", "due"}
           /\ Rest(c, m, {"new", "queued"}) => Forgotten(c)[m + 1][2] = "queued"
<1>0. owed[c] \in Seq(Content \X Mark) /\ Len(owed[c]) \in Nat
  BY Zenon, SeqLength DEF QTypes
<1> DEFINE lost == SubSeq(owed[c], m + 1, Len(owed[c]))
           late == \E i \in DOMAIN lost : lost[i][2] = "due"
<1>1. PICK k \in {"queued", "due"} : k = IF late THEN "due" ELSE "queued"
  BY Zenon
<1>2. Rest(c, m, {"new", "queued"}) => ~late
  <2> SUFFICES ASSUME Rest(c, m, {"new", "queued"}), NEW i \in DOMAIN lost
               PROVE  lost[i][2] # "due"
    BY Zenon
  <2>1. \A j \in m + 1 .. Len(owed[c]) : owed[c][j] \in Content \X Mark
    <3> TAKE j \in m + 1 .. Len(owed[c])
    <3>1. j \in 1 .. Len(owed[c])
      BY SMTT(40), Z3T(40), <1>0
    <3> QED
      BY Zenon, <1>0, <3>1, SeqElement
  <2>2. m + 1 \in Int /\ Len(owed[c]) \in Int
    BY SMTT(40), Z3T(40), <1>0
  <2>3. /\ lost \in Seq(Content \X Mark)
        /\ Len(lost) = IF m + 1 <= Len(owed[c]) THEN Len(owed[c]) - (m + 1) + 1 ELSE 0
        /\ \A j \in 1 .. Len(owed[c]) - (m + 1) + 1 : lost[j] = owed[c][m + 1 + j - 1]
    <3>1. PICK u \in Int, v \in Int : u = m + 1 /\ v = Len(owed[c])
      BY Zenon, <2>2
    <3>2. \A j \in u .. v : owed[c][j] \in Content \X Mark
      BY Zenon, <2>1, <3>1
    <3>3. /\ SubSeq(owed[c], u, v) \in Seq(Content \X Mark)
          /\ Len(SubSeq(owed[c], u, v)) = IF u <= v THEN v - u + 1 ELSE 0
          /\ \A j \in 1 .. v - u + 1 : SubSeq(owed[c], u, v)[j] = owed[c][u + j - 1]
      BY SMTT(40), Z3T(40), <3>2, SeqPart
    <3> QED
      BY Zenon, <3>1, <3>3
  <2>4. i \in 1 .. Len(lost)
    BY Zenon, <2>3, SeqLength
  <2> HIDE DEF lost
  <2>5. /\ i \in 1 .. Len(owed[c]) - (m + 1) + 1
        /\ m + 1 + i - 1 \in 1 .. Len(owed[c]) /\ m + 1 + i - 1 > m
    <3>1. PICK w \in Nat : w = Len(owed[c])
      BY Zenon, <1>0
    <3>2. CASE m + 1 <= w
      <4>1. i \in 1 .. w - (m + 1) + 1
        BY Zenon, <2>3, <2>4, <3>1, <3>2
      <4>2. m + 1 + i - 1 \in 1 .. w /\ m + 1 + i - 1 > m
        BY SMTT(40), Z3T(40), <3>2, <4>1
      <4> QED
        BY Zenon, <3>1, <4>1, <4>2
    <3>3. CASE ~ (m + 1 <= w)
      <4>1. i \in 1 .. 0
        BY Zenon, <2>3, <2>4, <3>1, <3>3
      <4> QED
        BY SMTT(40), Z3T(40), <4>1
    <3> QED
      BY <3>2, <3>3
  <2>6. owed[c][m + 1 + i - 1][2] \in {"new", "queued"}
    BY Zenon, <2>5 DEF Rest
  <2> QED
    BY Zenon, <2>3, <2>5, <2>6
<1>3. Rest(c, m, {"new", "queued"}) => k = "queued"
  BY Zenon, <1>1, <1>2
<1>4. Forgotten(c) = SubSeq(owed[c], 1, m) \o << <<RESET, k>> >>
  BY Zenon, <1>1 DEF Forgotten
<1> HIDE DEF lost, late
<1>5. PICK s \in Seq(Content \X Mark) : /\ s = SubSeq(owed[c], 1, m) /\ Len(s) = m
                                        /\ \A i \in 1 .. m : s[i] = owed[c][i]
  <2>1. /\ SubSeq(owed[c], 1, m) \in Seq(Content \X Mark) /\ Len(SubSeq(owed[c], 1, m)) = m
        /\ \A i \in 1 .. m : SubSeq(owed[c], 1, m)[i] = owed[c][i]
    BY Zenon, <1>0, SeqPrefix
  <2> QED
    BY Zenon, <2>1
<1>6. PICK e \in Content \X Mark : e = <<RESET, k>> /\ e[1] = RESET /\ e[2] = k
  <2>1. <<RESET, k>> \in Content \X Mark /\ <<RESET, k>>[1] = RESET /\ <<RESET, k>>[2] = k
    BY SMTT(40), Z3T(40) DEF Content, Mark
  <2> QED
    BY Zenon, <2>1
<1>7. PICK r \in Seq(Content \X Mark) : r = << <<RESET, k>> >> /\ Len(r) = 1 /\ r[1] = e
  <2>1. <<e>> \in Seq(Content \X Mark) /\ Len(<<e>>) = 1 /\ <<e>>[1] = e
    BY SMTT(40), Z3T(40)
  <2> QED
    BY Zenon, <1>6, <2>1
<1>8. /\ s \o r \in Seq(Content \X Mark) /\ Len(s \o r) = Len(s) + Len(r)
      /\ \A i \in 1 .. Len(s) + Len(r) : (s \o r)[i] = IF i <= Len(s) THEN s[i] ELSE r[i - Len(s)]
  BY SMTT(40), Z3T(40), SeqConcat
<1>9. /\ Len(s \o r) = m + 1 /\ \A i \in 1 .. m : (s \o r)[i] = s[i]
      /\ (s \o r)[m + 1] = e
  <2>1. /\ m + 1 \in 1 .. m + 1 /\ ~ (m + 1 <= m) /\ m + 1 - m = 1
        /\ \A i \in 1 .. m : i \in 1 .. m + 1 /\ i <= m
    BY SMTT(40), Z3T(40)
  <2>2. /\ Len(s \o r) = m + 1
        /\ \A i \in 1 .. m + 1 : (s \o r)[i] = IF i <= m THEN s[i] ELSE r[i - m]
    BY Zenon, <1>5, <1>7, <1>8
  <2>3. (s \o r)[m + 1] = r[1]
    <3>1. PICK u \in 1 .. m + 1 : u = m + 1 /\ ~ (u <= m) /\ u - m = 1
      BY SMTT(40), Z3T(40)
    <3>2. (s \o r)[u] = r[u - m]
      BY Zenon, <2>2, <3>1
    <3> QED
      BY Zenon, <3>1, <3>2
  <2>4. \A i \in 1 .. m : (s \o r)[i] = s[i]
    BY Zenon, <2>1, <2>2
  <2> QED
    BY Zenon, <1>7, <2>1, <2>2, <2>3, <2>4
<1>10. Forgotten(c) = s \o r
  BY Zenon, <1>4, <1>5, <1>7
<1> QED
  BY Zenon, <1>3, <1>5, <1>6, <1>8, <1>9, <1>10

\* What SICleanupQueue does to the numbers: all of them move by the same w.
LEMMA CleanIs ==
    ASSUME IInv, NEW b \in Slot, Clean(b)
    PROVE  \E k \in 0 .. MAXNUMMESSAGES, w \in Nat :
              /\ w % MAXNUMMESSAGES = 0 /\ maxMsgNum' = maxMsgNum - w
              /\ \A c \in Slot :
                    /\ resetState'[c] <=> (resetState[c] \/ c \in TooFarBack(k))
                    /\ owed'[c] = IF c \in TooFarBack(k) THEN Forgotten(c) ELSE owed[c]
                    /\ Tracked(c) /\ c \notin TooFarBack(k) => nextMsgNum'[c] = nextMsgNum[c] - w
<1>1. PICK k \in 0 .. MAXNUMMESSAGES : SICleanupQueue(b, k)
  <2>1. nthistime(b) \in 0 .. MAXNUMMESSAGES /\ 0 \in 0 .. MAXNUMMESSAGES
    BY SMTT(40), Z3T(40), NthistimeType, SInvalAssumption DEF IInv
  <2> QED
    BY Zenon, <2>1 DEF Clean
<1>2. PICK min \in {maxMsgNum} \cup {nextMsgNum[c] : c \in Readers(k)} :
        /\ \A c \in Readers(k) : min <= nextMsgNum[c]
        /\ maxMsgNum' = Int32(maxMsgNum - WrapAround(min))
        /\ nextMsgNum' = [c \in Slot |->
                             IF c <= lastBackend THEN Int32(nextMsgNum[c] - WrapAround(min))
                             ELSE nextMsgNum[c]]
  BY Zenon, <1>1 DEF SICleanupQueue, Renumbered
<1>3. /\ minMsgNum \in Int /\ maxMsgNum \in Int /\ nextMsgNum \in [Slot -> Int]
      /\ 0 <= minMsgNum /\ minMsgNum < MSGNUMWRAPAROUND /\ minMsgNum <= maxMsgNum
      /\ maxMsgNum - minMsgNum <= MAXNUMMESSAGES
      /\ \A c \in Slot : Tracked(c) => /\ minMsgNum <= nextMsgNum[c] /\ nextMsgNum[c] <= maxMsgNum
                                       /\ c <= lastBackend
  BY Zenon DEF IInv, Types, MsgNumsOrdered, Slots, Tracked
<1>4. \A c \in Readers(k) : c \in Slot /\ Tracked(c)
  <2>1. lastBackend \in 0 .. MaxBackends /\ MaxBackends \in Nat
    BY Zenon, SInvalAssumption DEF SInvalAssumption, IInv, Types
  <2>2. \A c \in 1 .. lastBackend : c \in Slot
    BY SMTT(40), Z3T(40), <2>1 DEF Slot
  <2> QED
    BY Zenon, <2>2 DEF Readers
<1>5. min \in Int /\ minMsgNum <= min /\ min <= maxMsgNum
  <2>1. CASE min = maxMsgNum
    BY SMTT(40), Z3T(40), <1>3, <2>1
  <2>2. CASE \E c \in Readers(k) : min = nextMsgNum[c]
    BY Zenon, <1>3, <1>4, <2>2
  <2> QED
    BY Zenon, <1>2, <2>1, <2>2
<1>6. PICK w \in Nat : w = WrapAround(min) /\ w % MAXNUMMESSAGES = 0 /\ w <= min
  <2>1. 0 % MAXNUMMESSAGES = 0 /\ 0 <= min
    <3>1. PICK M \in Nat \ {0} : M = MAXNUMMESSAGES
      BY Zenon, SInvalAssumption DEF SInvalAssumption
    <3>2. 0 = M * 0 + 0 /\ 0 \in 0 .. M - 1 /\ 0 \in Int
      BY SMTT(40), Z3T(40)
    <3>3. 0 % M = 0
      BY Zenon, <3>2, ModIs
    <3>4. 0 <= min
      BY SMTT(40), Z3T(40), <1>3, <1>5
    <3> QED
      BY Zenon, <3>1, <3>3, <3>4
  <2>2. MSGNUMWRAPAROUND \in Nat /\ MSGNUMWRAPAROUND % MAXNUMMESSAGES = 0 /\ 0 \in Nat
    BY Zenon, SInvalAssumption DEF SInvalAssumption
  <2>3. min >= MSGNUMWRAPAROUND => MSGNUMWRAPAROUND <= min
    BY SMTT(40), Z3T(40), <1>5, <2>2
  <2> QED
    BY Zenon, <2>1, <2>2, <2>3 DEF WrapAround
<1>7. ASSUME NEW x \in Int, min <= x, x <= maxMsgNum
      PROVE  Int32(x - w) = x - w
  <2>1. x - w \in Int /\ -INT_MAX - 1 <= x - w /\ x - w <= INT_MAX
    BY SMTT(40), Z3T(40), <1>3, <1>5, <1>6, <1>7, SInvalAssumption
  <2> QED
    BY Zenon, <2>1, Int32Exact
<1>8. maxMsgNum' = maxMsgNum - w
  <2>1. maxMsgNum <= maxMsgNum
    BY SMTT(40), Z3T(40), <1>3
  <2> QED
    BY Zenon, <1>2, <1>3, <1>5, <1>6, <1>7, <2>1
<1>9. ASSUME NEW c \in Slot, Tracked(c), c \notin TooFarBack(k)
      PROVE  nextMsgNum'[c] = nextMsgNum[c] - w
  <2>1. c \in 1 .. lastBackend /\ c <= lastBackend
    BY SMTT(40), Z3T(40), <1>3, <1>9 DEF IInv, Types, Slot
  <2>2. c \in Readers(k)
    BY Zenon, <1>9, <2>1 DEF Readers
  <2>3. min <= nextMsgNum[c] /\ nextMsgNum[c] <= maxMsgNum /\ nextMsgNum[c] \in Int
    BY Zenon, <1>2, <1>3, <1>9, <2>2
  <2> QED
    BY Zenon, <1>2, <1>6, <1>7, <2>1, <2>3
<1>10. \A c \in Slot : /\ resetState'[c] <=> (resetState[c] \/ c \in TooFarBack(k))
                       /\ owed'[c] = IF c \in TooFarBack(k) THEN Forgotten(c) ELSE owed[c]
  BY Zenon, <1>1 DEF SICleanupQueue
<1> QED
  BY Zenon, <1>6, <1>8, <1>9, <1>10

\* Where the backends are around a cleaning.
LEMMA CleanGoes ==
    ASSUME QInv, IInv, NEW b \in Slot, Clean(b)
    PROVE  /\ UNCHANGED <<buffer, active, hasMessages, sendOnly, data, max, messages, nummsgs>>
           /\ owed' = [c \in Slot |-> owed'[c]]
           /\ \A c \in Slot :
                 /\ pc[c] \notin {"fetch", "copy", "kick"}
                 /\ pc'[c] \notin {"fetch", "copy", "kick"}
                 /\ pc'[c] # "publish"
                 /\ pc'[c] \in Receiving => pc[c] \in Receiving
                 /\ messages[c] # <<>> => pc'[c] \in {"drain", "process"}
                 /\ pc'[c] = "process" /\ nummsgs[c] # MAXINVALMSGS
                        => Rest(c, Len(messages[c]), {"new", "queued"})
                 /\ pc'[c] \in {"caught_up", "pass_on", "receive_clean", "receive_signal"}
                        => Rest(c, 0, {"new", "queued"}) /\ messages[c] = <<>>
<1>1. PICK k : SICleanupQueue(b, k)
  BY Zenon DEF Clean
<1>2. /\ readLock = {} /\ writeLock = b /\ pc[b] \in {"insert_clean", "receive_clean"}
      /\ \A c \in Slot : pc[c] \notin {"fetch", "copy", "kick"} /\ (c # b => pc[c] # "publish")
  BY Zenon, <1>1 DEF Clean, SICleanupQueue, IInv, Locks
<1>3. /\ UNCHANGED <<buffer, active, hasMessages, sendOnly, data, max, messages, nummsgs>>
      /\ owed' = [c \in Slot |-> owed'[c]]
  BY Zenon, <1>1 DEF SICleanupQueue
<1>4. PICK l : /\ Goto(b, l)
               /\ \/ pc[b] = "insert_clean" /\ l \in {"fill", "insert_signal"}
                  \/ pc[b] = "receive_clean"
                     /\ l \in {"idle", "drain", "process", "caught_up", "receive_signal"}
  <2>1. CASE NeedSig(k) = {} /\ pc[b] = "insert_clean" /\ Goto(b, "fill")
    BY Zenon, <2>1
  <2>2. CASE NeedSig(k) = {} /\ pc[b] = "receive_clean" /\ Return(b)
    BY Zenon, <2>2, ReturnTarget DEF IInv
  <2>3. CASE Goto(b, IF pc[b] = "insert_clean" THEN "insert_signal" ELSE "receive_signal")
    BY Zenon, <1>2, <2>3
  <2> QED
    BY Zenon, <1>1, <2>1, <2>2, <2>3 DEF SICleanupQueue
<1>5. \A c \in Slot : pc'[c] = IF c = b THEN l ELSE pc[c]
  BY Zenon, <1>4 DEF Goto, IInv, Types
<1>6. ASSUME NEW c \in Slot
      PROVE  /\ pc'[c] \notin {"fetch", "copy", "kick"}
             /\ pc'[c] # "publish"
             /\ pc'[c] \in Receiving => pc[c] \in Receiving
             /\ messages[c] # <<>> => pc'[c] \in {"drain", "process"}
             /\ pc'[c] = "process" /\ nummsgs[c] # MAXINVALMSGS
                    => Rest(c, Len(messages[c]), {"new", "queued"})
             /\ pc'[c] \in {"caught_up", "pass_on", "receive_clean", "receive_signal"}
                    => Rest(c, 0, {"new", "queued"}) /\ messages[c] = <<>>
  <2>0. Place(c) /\ Timely(c)
    BY Zenon DEF QInv, Served
  <2>1. CASE c # b
    BY Zenon, <1>2, <1>5, <2>0, <2>1 DEF Place, Timely
  <2>2. CASE c = b /\ pc[b] = "insert_clean" /\ l \in {"fill", "insert_signal"}
    BY Zenon, <1>5, <2>0, <2>2 DEF Place, Receiving
  <2>3. CASE c = b /\ pc[b] = "receive_clean"
             /\ l \in {"idle", "drain", "process", "caught_up", "receive_signal"}
    <3>1. Rest(c, 0, {"new", "queued"}) /\ messages[c] = <<>> /\ pc[c] \in Receiving
      BY Zenon, <2>0, <2>3 DEF Place, Timely, Receiving
    <3>2. Len(messages[c]) = 0
      BY SMTT(40), Z3T(40), <3>1
    <3> QED
      BY Zenon, <1>5, <2>3, <3>1, <3>2
  <2> QED
    BY Zenon, <1>4, <2>1, <2>2, <2>3
<1> QED
  BY Zenon, <1>2, <1>3, <1>6

\* SICleanupQueue loses no message without a reset: what a backend in reset state
\* had not read is covered by it, and the numbers of the others move together.
LEMMA CleanServes ==
    ASSUME QInv, IInv, NEW b \in Slot, Clean(b)
    PROVE  QInv'
<1>1. PICK k \in 0 .. MAXNUMMESSAGES, w \in Nat :
              /\ w % MAXNUMMESSAGES = 0 /\ maxMsgNum' = maxMsgNum - w
              /\ \A c \in Slot :
                    /\ resetState'[c] <=> (resetState[c] \/ c \in TooFarBack(k))
                    /\ owed'[c] = IF c \in TooFarBack(k) THEN Forgotten(c) ELSE owed[c]
                    /\ Tracked(c) /\ c \notin TooFarBack(k) => nextMsgNum'[c] = nextMsgNum[c] - w
  BY Zenon, CleanIs
<1>2. /\ UNCHANGED <<buffer, active, hasMessages, sendOnly, data, max, messages, nummsgs>>
      /\ owed' = [c \in Slot |-> owed'[c]]
      /\ \A c \in Slot :
                 /\ pc[c] \notin {"fetch", "copy", "kick"}
                 /\ pc'[c] \notin {"fetch", "copy", "kick"}
                 /\ pc'[c] # "publish"
                 /\ pc'[c] \in Receiving => pc[c] \in Receiving
                 /\ messages[c] # <<>> => pc'[c] \in {"drain", "process"}
                 /\ pc'[c] = "process" /\ nummsgs[c] # MAXINVALMSGS
                        => Rest(c, Len(messages[c]), {"new", "queued"})
                 /\ pc'[c] \in {"caught_up", "pass_on", "receive_clean", "receive_signal"}
                        => Rest(c, 0, {"new", "queued"}) /\ messages[c] = <<>>
  BY Zenon, CleanGoes
<1>3. maxMsgNum \in Int /\ QTypes
  BY Zenon DEF IInv, Types, QInv
<1>4. \A c \in Slot : \A i \in 1 .. Len(owed[c]) : owed[c][i][2] # "new"
  BY Zenon, <1>2 DEF QInv, NewInKick
<1>5. ASSUME NEW c \in Slot
      PROVE  Served(c)' /\ owed'[c] \in Seq(Content \X Mark)
                /\ \A i \in 1 .. Len(owed'[c]) : owed'[c][i][2] # "new"
  <2>0. /\ Place(c) /\ Holds(c) /\ Visible(c) /\ owed[c] \in Seq(Content \X Mark)
        /\ messages'[c] = messages[c] /\ nummsgs'[c] = nummsgs[c]
        /\ hasMessages'[c] = hasMessages[c]
        /\ active'[c] = active[c] /\ sendOnly'[c] = sendOnly[c]
    BY Zenon, <1>2 DEF QInv, QTypes, Served
  <2>1. PICK m \in Nat : m = Len(messages[c])
    BY Zenon, <1>3, AheadIs
  <2>2. CASE c \in TooFarBack(k)
    <3>1. /\ Receives(c) /\ ~resetState[c] /\ nextMsgNum[c] \in Int /\ resetState'[c]
          /\ nextMsgNum[c] < maxMsgNum - MAXNUMMESSAGES + k /\ owed'[c] = Forgotten(c)
      BY Zenon, <1>1, <2>2 DEF TooFarBack, Tracked, Receives, IInv, Types
    <3>2. nextMsgNum[c] < maxMsgNum
      BY SMTT(40), Z3T(40), <1>3, <3>1, SInvalAssumption
    <3>3. Len(owed[c]) = m + (maxMsgNum - nextMsgNum[c])
      <4>1. From(c) = nextMsgNum[c] /\ Ahead(c) = m
        BY Zenon, <1>3, <2>1, <3>1, AheadIs DEF From
      <4> QED
        BY Zenon, <2>0, <3>1, <4>1 DEF Holds
    <3>4. m <= Len(owed[c]) /\ m + 1 \in 1 .. Len(owed[c]) /\ m + 1 > m
      BY SMTT(40), Z3T(40), <1>3, <3>1, <3>2, <3>3
    <3>5. hasMessages[c]
      <4>1. ~ Rest(c, m, {"new"})
        BY Zenon, <1>4, <3>4 DEF Rest
      <4> QED
        BY Zenon, <1>2, <2>0, <2>1, <3>1, <4>1 DEF Visible
    <3>6. /\ owed'[c] \in Seq(Content \X Mark) /\ Len(owed'[c]) = m + 1
          /\ \A i \in 1 .. m : owed'[c][i] = owed[c][i]
          /\ owed'[c][m + 1][1] = RESET
          /\ owed'[c][m + 1][2] \in {"queued", "due"}
          /\ Rest(c, m, {"new", "queued"}) => owed'[c][m + 1][2] = "queued"
      <4>1. /\ Forgotten(c) \in Seq(Content \X Mark) /\ Len(Forgotten(c)) = m + 1
            /\ \A i \in 1 .. m : Forgotten(c)[i] = owed[c][i]
            /\ Forgotten(c)[m + 1][1] = RESET
            /\ Forgotten(c)[m + 1][2] \in {"queued", "due"}
            /\ Rest(c, m, {"new", "queued"}) => Forgotten(c)[m + 1][2] = "queued"
        BY SMTT(40), Z3T(40), <1>3, <2>1, <3>4, ForgottenIs
      <4> QED
        BY Zenon, <3>1, <4>1
    <3>7. \A i \in 1 .. m + 1 : i \in 1 .. m \/ i = m + 1
      BY SMTT(40), Z3T(40)
    <3>8. \A i \in 1 .. m : i \in 1 .. Len(owed[c])
      <4>1. PICK z \in Nat : z = Len(owed[c])
        BY Zenon, <1>3, AheadIs
      <4>2. m <= z
        BY Zenon, <3>4, <4>1
      <4>3. \A i \in 1 .. m : i \in 1 .. z
        BY SMTT(40), Z3T(40), <4>2
      <4> QED
        BY Zenon, <4>1, <4>3
    <3>9. \A i \in 1 .. Len(owed'[c]) : owed'[c][i][2] # "new"
      BY Zenon, <1>4, <3>6, <3>7, <3>8
    <3>10. Place(c)' /\ Visible(c)'
      BY Zenon, <1>2, <2>0, <3>1, <3>5 DEF Place, Visible, Receives
    <3>11. Timely(c)'
      <4>1. Rest(c, m, {"new", "queued"}) => Rest(c, m, {"new", "queued"})'
        <5>1. \A i \in 1 .. m + 1 : i > m => i = m + 1
          BY SMTT(40), Z3T(40)
        <5> QED
          BY Zenon, <3>6, <5>1 DEF Rest
      <4>2. messages[c] = <<>> => m = 0
        BY SMTT(40), Z3T(40), <2>1
      <4> QED
        BY Zenon, <1>2, <2>0, <2>1, <4>1, <4>2 DEF Timely
    <3>12. Holds(c)'
      <4>1. From(c)' = maxMsgNum' /\ Ahead(c)' = m + 1
        BY Zenon, <1>2, <2>0, <2>1, <3>1 DEF From, Ahead
      <4>2. m + 1 = m + 1 + (maxMsgNum' - maxMsgNum') /\ \A j \in 1 .. maxMsgNum' - maxMsgNum' :
                FALSE
        BY SMTT(40), Z3T(40), <1>1, <1>3
      <4>3. \A i \in 1 .. m : owed'[c][i][1] = messages'[c][i]
        BY Zenon, <2>0, <2>1, <3>1, <3>6 DEF Holds
      <4> QED
        BY Zenon, <2>0, <2>1, <3>6, <4>1, <4>2, <4>3 DEF Holds
    <3> QED
      BY Zenon, <3>6, <3>9, <3>10, <3>11, <3>12 DEF Served
  <2>3. CASE c \notin TooFarBack(k)
    <3>1. owed'[c] = owed[c] /\ (resetState'[c] <=> resetState[c])
      BY Zenon, <1>1, <2>3
    <3>2. Place(c)' /\ Visible(c)' /\ Timely(c)'
      BY Zenon, <1>2, <2>0, <3>1 DEF Place, Visible, Timely, Rest, Receives
    <3>3. ASSUME Receives(c)
          PROVE  /\ From(c)' = From(c) - w /\ From(c) \in Int
                 /\ maxMsgNum' - From(c)' = maxMsgNum - From(c)
      <4>1. From(c)' = From(c) - w
        BY Zenon, <1>1, <1>2, <2>3, <3>1, <3>3 DEF From, Tracked, Receives
      <4>2. From(c) \in Int
        BY Zenon, <3>3, FromBounds
      <4>3. (maxMsgNum - w) - (From(c) - w) = maxMsgNum - From(c)
        BY SMTT(40), Z3T(40), <1>3, <4>2
      <4> QED
        BY Zenon, <1>1, <4>1, <4>2, <4>3
    <3>4. ASSUME Receives(c), NEW j \in 1 .. maxMsgNum - From(c)
          PROVE  buffer'[(From(c)' + j - 1) % MAXNUMMESSAGES] = buffer[(From(c) + j - 1) % MAXNUMMESSAGES]
      <4>1. PICK f \in Int, M \in Nat \ {0} : f = From(c) /\ M = MAXNUMMESSAGES
        BY Zenon, <3>3, <3>4, SInvalAssumption DEF SInvalAssumption
      <4>2. PICK d \in Int : d = maxMsgNum - From(c) /\ j \in 1 .. d
        <5>1. maxMsgNum - f \in Int
          BY SMTT(40), Z3T(40), <1>3
        <5> QED
          BY Zenon, <3>4, <4>1, <5>1
      <4>3. PICK a \in Int : a = f + j - 1 /\ f - w + j - 1 = a - w
        BY SMTT(40), Z3T(40), <4>2
      <4>4. (a - w) % M = a % M
        <5>1. w % M = 0 /\ w \in Int
          BY SMTT(40), Z3T(40), <1>1, <4>1
        <5> QED
          BY Zenon, <5>1, ModShift
      <4> QED
        BY Zenon, <1>2, <3>3, <3>4, <4>1, <4>3, <4>4
    <3>5. Holds(c)'
      <4>1. Ahead(c)' = Ahead(c)
        BY Zenon, <2>0, <3>1 DEF Ahead
      <4> QED
        BY Zenon, <2>0, <3>1, <3>3, <3>4, <4>1 DEF Holds, Receives
    <3> QED
      BY Zenon, <1>4, <2>0, <3>1, <3>2, <3>5 DEF Served
  <2> QED
    BY <2>2, <2>3
<1>6. QTypes'
  <2>1. \A c \in Slot : owed'[c] \in Seq(Content \X Mark)
    BY Zenon, <1>5
  <2>2. owed' \in [Slot -> Seq(Content \X Mark)]
    BY Zenon, <1>2, <2>1
  <2> QED
    BY Zenon, <1>2, <2>2 DEF QInv, QTypes
<1>7. Written' /\ NewInKick'
  BY Zenon, <1>2, <1>5 DEF Written, NewInKick
<1> QED
  BY Zenon, <1>5, <1>6, <1>7 DEF QInv

-----------------------------------------------------------------------------
\* Nobody is owed anything when the segment has been created.
LEMMA InitQInv == Init => QInv
<1> SUFFICES ASSUME Init
             PROVE  QInv
  OBVIOUS
<1>1. QTypes
  <2>1. "unused" \in Content /\ 0 \in Int
    BY SMTT(40), Z3T(40) DEF Content
  <2>2. <<>> \in Seq(Content) /\ <<>> \in Seq(Content \X Mark)
    BY Zenon, SeqEmpty
  <2> QED
    BY Zenon, <2>1, <2>2 DEF Init, QTypes
<1>2. Written
  BY Zenon DEF Init, Written
<1>3. NewInKick
  <2>1. \A c \in Slot : owed[c] = <<>>
    BY Zenon DEF Init
  <2>2. \A i \in 1 .. Len(<<>>) : FALSE
    BY SMTT(40), Z3T(40)
  <2> QED
    BY Zenon, <2>1, <2>2 DEF NewInKick
<1>4. \A b \in Slot : Served(b)
  <2> TAKE b \in Slot
  <2>1. pc[b] = "idle" /\ ~active[b] /\ messages[b] = <<>> /\ owed[b] = <<>>
    BY Zenon DEF Init
  <2> QED
    BY Zenon, <2>1 DEF Served, Place, Holds, Visible, Timely, Receives, Receiving
<1> QED
  BY Zenon, <1>1, <1>2, <1>3, <1>4 DEF QInv

\* A step that changes nothing of the queue and the batches.
LEMMA StutterQInv ==
    ASSUME QInv,
           UNCHANGED <<maxMsgNum, buffer, active, sendOnly, resetState, hasMessages, nextMsgNum,
           max,
                       messages, nummsgs, owed, data, pc>>
    PROVE  QInv'
<1>1. \A b \in Slot : Untouched(b) /\ Served(b)
  BY Zenon DEF Untouched, QInv
<1>2. \A b \in Slot : Served(b)'
  BY Zenon, <1>1, UntouchedServed
<1>3. QTypes' /\ NewInKick'
  BY Zenon DEF QInv, QTypes, NewInKick
<1>4. Written'
  BY Zenon DEF QInv, Written, nthistime
<1> QED
  BY Zenon, <1>2, <1>3, <1>4 DEF QInv

\* Every step keeps what the backends are owed in the queue or in their batches.
LEMMA NextQInv == QInv /\ IInv /\ IInv' /\ [Next]_vars => QInv'
<1> SUFFICES ASSUME QInv, IInv, IInv', [Next]_vars
             PROVE  QInv'
  OBVIOUS
<1>1. CASE UNCHANGED vars
  BY Zenon, <1>1, StutterQInv DEF vars
<1>2. ASSUME NEW b \in Slot,
             \/ \E only \in BOOLEAN : SharedInvalBackendInit(b, only)
             \/ CleanupInvalidationState(b)
      PROVE  QInv'
  BY Zenon, <1>2, ComesAndGoes
<1>3. ASSUME NEW b \in Slot, Insertion(b)
      PROVE  QInv'
  BY Zenon, <1>3, QuietMoves, FillServes, PublishServes, KickServes DEF Insertion
<1>4. ASSUME NEW b \in Slot, Reception(b)
      PROVE  QInv'
  BY Zenon, <1>4, QuietMoves, ReceiveServes, InvalidateServes, FetchServes, TakeResetServes,
     CopyServes DEF Reception
<1>5. ASSUME NEW b \in Slot, Clean(b)
      PROVE  QInv'
  BY Zenon, <1>5, CleanServes
<1>6. ASSUME NEW b \in Slot, SendProcSignal(b)
      PROVE  QInv'
  BY Zenon, <1>6, QuietMoves
<1>7. ASSUME NEW b \in Slot, HandleCatchupInterrupt(b)
      PROVE  QInv'
  BY Zenon, <1>7, StutterQInv DEF HandleCatchupInterrupt, seg, flags, batch
<1> QED
  BY Zenon, <1>1, <1>2, <1>3, <1>4, <1>5, <1>6, <1>7 DEF Next

\* Holds, entry by entry, is an equality of sequences.
LEMMA HoldsUnread == QInv /\ IInv => QueueHoldsUnread
<1> SUFFICES ASSUME QInv, IInv, NEW b \in Slot, active[b] /\ ~sendOnly[b]
             PROVE  LET from == IF ~resetState[b] THEN nextMsgNum[b]
                                ELSE IF pc[b] = "copy" THEN max[b] ELSE maxMsgNum
                        reset == IF resetState[b] THEN <<RESET>> ELSE <<>>
                    IN Untold(b) = messages[b] \o reset \o Entries(from, maxMsgNum - from)
  BY Zenon DEF QueueHoldsUnread
<1> DEFINE reset == IF resetState[b] THEN <<RESET>> ELSE <<>>
<1>0. Receives(b) /\ Holds(b) /\ QTypes /\ messages[b] \in Seq(Content)
  BY Zenon DEF Receives, QInv, Served, QTypes
<1>1. PICK d \in Nat, f \in Int, M \in Nat \ {0} :
        d = maxMsgNum - From(b) /\ f = From(b) /\ M = MAXNUMMESSAGES
  BY Zenon, <1>0, FromBounds, SInvalAssumption DEF SInvalAssumption
<1>2. PICK m \in Nat, a \in Nat :
        /\ m = Len(messages[b]) /\ a = Ahead(b)
        /\ (resetState[b] => a = m + 1) /\ (~resetState[b] => a = m)
  BY Zenon, <1>0, AheadIs
<1>3. PICK r \in Seq(Content) : /\ r = reset /\ Len(r) = a - m
                                /\ (resetState[b] => r[1] = RESET)
  <2>1. CASE resetState[b]
    <3>2. reset = <<RESET>> /\ a = m + 1
      BY Zenon, <1>2, <2>1
    <3> HIDE DEF reset
    <3>3. reset \in Seq(Content) /\ Len(reset) = a - m /\ reset[1] = RESET
      BY SMTT(40), Z3T(40), <3>2 DEF Content
    <3> QED
      BY Zenon, <3>3
  <2>2. CASE ~resetState[b]
    <3>1. <<>> \in Seq(Content) /\ Len(<<>>) = m - m
      BY SMTT(40), Z3T(40)
    <3> QED
      BY Zenon, <1>2, <2>2, <3>1
  <2> QED
    BY <2>1, <2>2
<1> HIDE DEF reset
<1>4. PICK e \in Seq(Content) : /\ e = Entries(f, d) /\ Len(e) = d
                                /\ \A i \in 1 .. d : e[i] = buffer[(f + i - 1) % M]
  <2>1. \A i \in 1 .. d : buffer[(f + i - 1) % M] \in Content
    <3> TAKE i \in 1 .. d
    <3>1. f + i - 1 \in Int
      BY SMTT(40), Z3T(40)
    <3>2. (f + i - 1) % M \in 0 .. M - 1
      BY Zenon, <3>1, DivMod
    <3> QED
      BY Zenon, <1>0, <1>1, <3>2 DEF QTypes
  <2>2. Entries(f, d) = [i \in 1 .. d |-> buffer[(f + i - 1) % M]]
    BY Zenon, <1>1 DEF Entries
  <2>3. Entries(f, d) \in [1 .. d -> Content]
    BY Zenon, <2>1, <2>2
  <2>4. Entries(f, d) \in Seq(Content) /\ Len(Entries(f, d)) = d
    BY Zenon, <2>3, FunIsSeq
  <2> QED
    BY Zenon, <2>2, <2>4
<1>5. PICK s \in Seq(Content) : s = messages[b]
  BY Zenon, <1>0
<1>6. PICK u \in Seq(Content) :
        /\ u = s \o r /\ Len(u) = a
        /\ \A i \in 1 .. m : u[i] = s[i]
        /\ resetState[b] => u[m + 1] = RESET
  <2>1. /\ s \o r \in Seq(Content) /\ Len(s \o r) = Len(s) + Len(r)
        /\ \A i \in 1 .. Len(s) + Len(r) : (s \o r)[i] = IF i <= Len(s) THEN s[i]
           ELSE r[i - Len(s)]
    BY SMTT(40), Z3T(40), SeqConcat
  <2>2. PICK u \in Seq(Content) : u = s \o r
    BY Zenon, <2>1
  <2>3. Len(s) = m /\ Len(r) = a - m /\ m + (a - m) = a /\ m <= a
    BY SMTT(40), Z3T(40), <1>2, <1>3, <1>5
  <2>4. /\ Len(u) = a
        /\ \A i \in 1 .. a : u[i] = IF i <= m THEN s[i] ELSE r[i - m]
    BY Zenon, <2>1, <2>2, <2>3
  <2>5. \A i \in 1 .. m : i \in 1 .. a /\ i <= m
    BY SMTT(40), Z3T(40), <2>3
  <2>6. \A i \in 1 .. m : u[i] = s[i]
    BY Zenon, <2>4, <2>5
  <2>7. resetState[b] => u[m + 1] = RESET
    <3> SUFFICES ASSUME resetState[b]
                 PROVE  u[m + 1] = RESET
      OBVIOUS
    <3>1. PICK k \in 1 .. a : k = m + 1 /\ ~ (k <= m) /\ k - m = 1
      BY SMTT(40), Z3T(40), <1>2
    <3>2. u[k] = r[k - m]
      BY Zenon, <2>4, <3>1
    <3> QED
      BY Zenon, <1>3, <3>1, <3>2
  <2> QED
    BY Zenon, <2>2, <2>4, <2>6, <2>7
<1>7. PICK v \in Seq(Content) :
        /\ v = u \o e /\ Len(v) = a + d
        /\ \A i \in 1 .. a : v[i] = u[i]
        /\ \A j \in 1 .. d : v[a + j] = e[j]
  <2>1. /\ u \o e \in Seq(Content) /\ Len(u \o e) = Len(u) + Len(e)
        /\ \A i \in 1 .. Len(u) + Len(e) : (u \o e)[i] = IF i <= Len(u) THEN u[i]
           ELSE e[i - Len(u)]
    BY SMTT(40), Z3T(40), SeqConcat
  <2>2. PICK v \in Seq(Content) : v = u \o e
    BY Zenon, <2>1
  <2>3. /\ Len(v) = a + d
        /\ \A i \in 1 .. a + d : v[i] = IF i <= a THEN u[i] ELSE e[i - a]
    BY Zenon, <1>4, <1>6, <2>1, <2>2
  <2>4. \A i \in 1 .. a : i \in 1 .. a + d /\ i <= a
    BY SMTT(40), Z3T(40)
  <2>5. \A i \in 1 .. a : v[i] = u[i]
    BY Zenon, <2>3, <2>4
  <2>6. \A j \in 1 .. d : v[a + j] = e[j]
    <3> TAKE j \in 1 .. d
    <3>1. PICK k \in 1 .. a + d : k = a + j /\ ~ (k <= a) /\ k - a = j
      BY SMTT(40), Z3T(40)
    <3>2. v[k] = e[k - a]
      BY Zenon, <2>3, <3>1
    <3> QED
      BY Zenon, <3>1, <3>2
  <2> QED
    BY Zenon, <2>2, <2>3, <2>5, <2>6
<1>8. /\ Len(owed[b]) = a + d
      /\ \A i \in 1 .. m : owed[b][i][1] = s[i]
      /\ resetState[b] => owed[b][m + 1][1] = RESET
      /\ \A j \in 1 .. d : owed[b][a + j][1] = buffer[(f + j - 1) % M]
  BY Zenon, <1>0, <1>1, <1>2, <1>5 DEF Holds
<1>9. \A i \in 1 .. a + d : owed[b][i][1] = v[i]
  <2> TAKE i \in 1 .. a + d
  <2>1. CASE i \in 1 .. m
    <3>1. i \in 1 .. a
      BY SMTT(40), Z3T(40), <1>2, <2>1
    <3>2. v[i] = u[i] /\ u[i] = s[i]
      BY Zenon, <1>6, <1>7, <2>1, <3>1
    <3>3. owed[b][i][1] = s[i]
      BY Zenon, <1>8, <2>1
    <3> QED
      BY Zenon, <3>2, <3>3
  <2>2. CASE resetState[b] /\ i = m + 1
    <3>1. i \in 1 .. a
      BY SMTT(40), Z3T(40), <1>2, <2>2
    <3> QED
      BY Zenon, <1>6, <1>7, <1>8, <2>2, <3>1
  <2>3. CASE i > a
    <3>1. PICK j \in 1 .. d : i = a + j
      <4>1. i - a \in 1 .. d /\ i = a + (i - a)
        BY SMTT(40), Z3T(40), <2>3
      <4> QED
        BY Zenon, <4>1
    <3>2. v[a + j] = e[j]
      BY Zenon, <1>7
    <3>3. owed[b][a + j][1] = buffer[(f + j - 1) % M]
      BY Zenon, <1>8
    <3>4. e[j] = buffer[(f + j - 1) % M]
      BY Zenon, <1>4
    <3> QED
      BY Zenon, <3>1, <3>2, <3>3, <3>4
  <2>4. i \in 1 .. m \/ (resetState[b] /\ i = m + 1) \/ i > a
    <3>1. CASE resetState[b]
      BY SMTT(40), Z3T(40), <1>2, <3>1
    <3>2. CASE ~resetState[b]
      BY SMTT(40), Z3T(40), <1>2, <3>2
    <3> QED
      BY <3>1, <3>2
  <2> QED
    BY <2>1, <2>2, <2>3, <2>4
<1>10. Untold(b) = v
  <2>1. Untold(b) = [i \in 1 .. a + d |-> owed[b][i][1]]
    BY Zenon, <1>8 DEF Untold
  <2>2. v = [i \in 1 .. a + d |-> v[i]]
    <3>1. v \in [1 .. Len(v) -> Content]
      BY Zenon, SeqLength
    <3> QED
      BY Zenon, <1>7, <3>1
  <2> QED
    BY Zenon, <1>9, <2>1, <2>2
<1>11. v = messages[b] \o reset \o Entries(f, maxMsgNum - f)
  BY Zenon, <1>1, <1>3, <1>4, <1>5, <1>6, <1>7
<1> QED
  BY Zenon, <1>1, <1>10, <1>11 DEF From, reset

\* Every message that a backend has not been told of is in its batch or in the
\* queue, in order and once, or is covered by a reset that it has yet to take
\* (SIInsertDataEntries, SIGetDataEntries, SICleanupQueue): for any number of
\* backends, any sizes of queue and batch and any depth of nested calls.
THEOREM QueueHoldsTheUnread == Spec => []QueueHoldsUnread
<1>1. Init => IInv /\ QInv
  BY InitIInv, InitQInv
<1>2. IInv /\ QInv /\ [Next]_vars => (IInv /\ QInv)'
  BY NextIInv, NextQInv
<1>3. IInv /\ QInv => QueueHoldsUnread
  BY HoldsUnread
<1> QED
  BY <1>1, <1>2, <1>3, PTL DEF Spec

\* When ReceiveSharedInvalidMessages comes to its end, every message whose
\* insertion was over when it was called has been processed, though hasMessages
\* and maxMsgNum are read without the writer's lock and calls may nest.
THEOREM ReceiveGuaranteeHolds == Spec => []ReceiveGuarantee
<1>1. Init => IInv /\ QInv
  BY InitIInv, InitQInv
<1>2. IInv /\ QInv /\ [Next]_vars => (IInv /\ QInv)'
  BY NextIInv, NextQInv
<1>3. QInv => ReceiveGuarantee
  <2> SUFFICES ASSUME QInv, NEW b \in Slot, pc[b] = "caught_up", NEW i \in DOMAIN owed[b]
               PROVE  owed[b][i][2] # "due"
    BY Zenon DEF ReceiveGuarantee
  <2>1. DOMAIN owed[b] = 1 .. Len(owed[b]) /\ Len(owed[b]) \in Nat
    BY Zenon, SeqLength DEF QInv, QTypes
  <2>2. i \in 1 .. Len(owed[b]) /\ i > 0
    BY SMTT(40), Z3T(40), <2>1
  <2>3. Rest(b, 0, {"new", "queued"})
    BY Zenon DEF QInv, Served, Timely
  <2> QED
    BY Zenon, <2>2, <2>3 DEF Rest
<1> QED
  BY <1>1, <1>2, <1>3, PTL DEF Spec
=============================================================================
