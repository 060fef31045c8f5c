---------------------------- MODULE ShmMqProofs ----------------------------
(***************************************************************************)
(* Messages arrive whole, unchanged and in order, for every size of the    *)
(* ring, every set of lengths and any number of messages; and whoever      *)
(* waits is told what it waits for.                                        *)
(*                                                                         *)
(* The history variable stream, the units written so far, links the two    *)
(* sides: the ring holds its end (RingIntact), the sender's handle says    *)
(* which message it ends in (SenderAt), the receiver's handle which unit   *)
(* of it was consumed last (ReceiverAt), and Runs how messages follow each *)
(* other in it.                                                            *)
(***************************************************************************)
EXTENDS ShmMq, TLAPS

\* Where the sender is within a call, between calls and after its last one.
Calling == {"space", "test", "act", "full", "sleep", "retry", "written",
            "w_ptr", "w_detached", "w_status", "w_sleep", "g_detached", "g_status", "g_peer"}
Resting == {"new", "notify", "idle", "whom", "publish", "flush"}
Leaving == {"detach", "leave", "gone"}

Units == [msg : Nat, pos : Nat, len : Nat]

Types ==
    /\ mq_bytes_read \in Nat
    /\ mq_bytes_written \in Nat
    /\ mqh_send_pending \in Nat
    /\ mqh_consume_pending \in Nat
    /\ rb \in Nat
    /\ written \in Nat
    /\ nbytes \in Nat
    /\ mqh_expected_bytes \in Nat
    /\ datap \in Int
    /\ pc \in [Proc -> Labels]
    /\ pc["sender"] \in Calling \cup Resting \cup Leaving
    /\ mqh_length_word_complete \in [Proc -> BOOLEAN]
    /\ mqh_partial_bytes \in [Proc -> Nat]
    /\ mq_detached \in BOOLEAN
    /\ mq_ring \in [0 .. RingSize - 1 -> Units]
    /\ stream \in Seq(Units)
    /\ sent \in Seq(Nat)
    /\ mqh_buffer \in Seq(Units)
    /\ received \in Seq(Seq(Units))

Counts ==
    /\ Len(stream) = wb
    /\ read <= mq_bytes_written
    /\ rb <= mq_bytes_read
    /\ Len(stream) - mq_bytes_read <= RingSize
    /\ pc["sender"] \in {"test", "act"} => Len(stream) - rb <= RingSize
    /\ pc["receiver"] = "take" => /\ written <= mq_bytes_written
                                  /\ read <= written
                                  /\ Enough(written - read)

\* Unit n of the stream is unit i of message m.
Is(n, m, i) ==
    /\ m \in 1 .. Len(sent)
    /\ i \in 0 .. sent[m]
    /\ stream[n] = Unit(m, i, sent[m])

\* A message is written from its length word to its end, then the next one begins.
Runs ==
    /\ \A n \in 1 .. Len(stream) : \E m \in Nat, i \in Nat : Is(n, m, i)
    /\ Len(stream) > 0 => Is(1, 1, 0)
    /\ \A n \in 1 .. Len(stream) : \A m \in Nat, i \in Nat :
          Is(n, m, i) =>
              /\ \A j \in Nat : n + j <= Len(stream) /\ i + j <= sent[m] => Is(n + j, m, i + j)
              /\ i = sent[m] /\ n < Len(stream) => Is(n + 1, m + 1, 0)

\* The first n units of the stream are the first k messages.
Boundary(n, k) == IF n = 0 THEN k = 0 ELSE k \in Nat /\ Is(n, k, sent[k])

SenderInStep ==
    IF pc["sender"] \in Calling
    THEN /\ Len(sent) > 0
         /\ nbytes = sent[Len(sent)]
         /\ IF mqh_length_word_complete["sender"]
            THEN /\ Len(stream) > 0
                 /\ Is(Len(stream), Len(sent), mqh_partial_bytes["sender"])
                 /\ mqh_partial_bytes["sender"] = nbytes <=> pc["sender"] = "written"
            ELSE /\ Boundary(Len(stream), Len(sent) - 1)
                 /\ mqh_partial_bytes["sender"] = 0
                 /\ pc["sender"] # "written"
    ELSE pc["sender"] \in Resting =>
            /\ Boundary(Len(stream), Len(sent))
            /\ ~mqh_length_word_complete["sender"]
            /\ mqh_partial_bytes["sender"] = 0

\* Once the sender has been told that the queue is detached it writes no more.
SenderAt == SenderInStep \/ (mq_detached /\ pc["sender"] \notin {"act", "written"})

ReceiverAt ==
    LET k == Len(received) IN
    IF mqh_length_word_complete["receiver"]
    THEN /\ read > 0
         /\ Is(read, k + 1, mqh_partial_bytes["receiver"])
         /\ mqh_expected_bytes = sent[k + 1]
         /\ mqh_partial_bytes["receiver"] < mqh_expected_bytes
         /\ mqh_buffer = [i \in 1 .. mqh_partial_bytes["receiver"] |-> Unit(k + 1, i, sent[k + 1])]
    ELSE /\ Boundary(read, k)
         /\ mqh_partial_bytes["receiver"] = 0
         /\ mqh_buffer = <<>>

\* The message last returned, if it is in the ring, has not been given back.
Held ==
    datap # NoPointer =>
        /\ pc["receiver"] \in {"idle", "detach", "leave", "gone"}
        /\ received # <<>>
        /\ LET data == received[Len(received)] IN
           /\ datap + Len(data) <= RingSize
           /\ Len(data) <= mqh_consume_pending
           /\ \A i \in 1 .. Len(data) :
                 /\ datap + i - 1 = Offset(read - Len(data) + i - 1)
                 /\ data[i] = stream[read - Len(data) + i]

IInv == Types /\ Counts /\ RingIntact /\ Runs /\ SenderAt /\ ReceiverAt /\ Fifo /\ Held

-----------------------------------------------------------------------------
(***************************************************************************)
(* The two sides wake each other up.  Between the moment a process last    *)
(* looks at something and the moment it waits, that something can change.  *)
(* The invariant says of each such change that the latch is set already,   *)
(* or that whoever made the change has yet to set it.                      *)
(***************************************************************************)
\* The places of the receiver within a receive operation, once it knows the sender.
Reading == {"consume", "consumed", "available", "take", "nodata", "recheck", "reclaim",
            "reclaimed", "sleep"}
Waiting == {"w_ptr", "w_detached", "w_status", "w_sleep", "w_sender",
            "g_detached", "g_status", "g_peer"}

WTypes ==
    /\ worker \in Proc /\ early \in BOOLEAN
    /\ bgwStatus \in {"not_yet_started", "started", "stopped"}
    /\ latch \in [Proc -> BOOLEAN] /\ mq_set \in [Proc -> BOOLEAN]
    /\ mqh_counterparty_attached \in [Proc -> BOOLEAN] /\ seen \in [Proc -> BOOLEAN]
    /\ pc["receiver"] \in Reading \cup Waiting \cup Leaving
                            \cup {"new", "notify", "idle", "retry", "told"}

\* What the place where p is says about what it knows of q, its counterparty.
PlacedAt(p, q) ==
    /\ mq_set[p] <=> pc[p] # "new"
    /\ mqh_counterparty_attached[p] => mq_set[q]
    /\ pc[p] \in {"leave", "gone"} => mq_detached
    /\ pc[p] \in {"w_status", "w_sleep"} => ~seen[p]
    /\ pc[p] = "w_detached" /\ seen[p] => mq_set[q]
    /\ pc[p] \in Waiting => ~mqh_counterparty_attached[p]
Placed ==
    /\ PlacedAt("sender", "receiver") /\ PlacedAt("receiver", "sender")
    /\ bgwStatus = "not_yet_started" => pc[worker] = "new"
    /\ bgwStatus = "stopped" => pc[worker] \in {"new", "gone"}
    /\ pc["sender"] = "new" => mq_bytes_written = 0 /\ mqh_send_pending = 0
    /\ pc["sender"] \in {"full", "sleep"} => mqh_counterparty_attached["sender"]
    /\ pc["sender"] = "g_peer" => ~seen["sender"]
    /\ pc["receiver"] \in Reading => mqh_counterparty_attached["receiver"]
    /\ ~mqh_counterparty_attached["receiver"] => written = 0
    /\ pc["receiver"] = "g_peer" /\ seen["receiver"] => mq_detached
    /\ pc["receiver"] = "recheck" => mq_detached
    /\ ~early /\ pc["sender"] \in Calling \cup {"whom", "publish", "flush"} => mq_set["receiver"]
    /\ ~early /\ pc["sender"] = "publish" => seen["sender"]

\* p has found the queue not detached, the worker running, or the counterparty not there,
\* and does not look again before it waits.
PassedDetached(p) ==
    \/ pc[p] \in {"act", "full", "sleep", "retry", "w_status", "w_sleep", "g_status", "reclaim",
                  "reclaimed"}
    \/ pc[p] = "g_peer" /\ ~seen[p]
PassedStatus ==
    pc["receiver"] \in {"w_sleep", "retry"} \/ (pc["receiver"] = "g_peer" /\ ~seen["receiver"])
PassedSet(p) ==
    \/ pc[p] = "w_detached" /\ ~seen[p]
    \/ pc[p] \in {"w_status", "w_sleep"}
    \/ pc[p] = "retry" /\ ~mqh_counterparty_attached[p]

\* What it has missed since it is told by a latch that is set, or about to be.
DetachTold(p, q) == PassedDetached(p) /\ mq_detached => latch[p] \/ pc[q] = "leave"
ToldOfDetach == DetachTold("sender", "receiver") /\ DetachTold("receiver", "sender")
ToldOfWorker ==
    worker = "sender" /\ bgwStatus = "stopped" /\ ~mq_set["sender"] /\ PassedStatus
        => latch["receiver"]
PeerTold(p, q) == PassedSet(p) /\ mq_set[q] => latch[p] \/ pc[q] = "notify"
ToldOfPeer == PeerTold("sender", "receiver") /\ PeerTold("receiver", "sender")
ToldOfSpace ==
    pc["sender"] \in {"test", "act", "full", "sleep", "retry", "g_detached", "g_status", "g_peer"}
        /\ mq_bytes_read # rb
        => latch["sender"] \/ pc["receiver"] \in {"consumed", "reclaimed"}
ToldOfData ==
    ~early /\ mqh_counterparty_attached["receiver"]
        /\ pc["receiver"] \in {"nodata", "reclaim", "reclaimed", "sleep", "retry"}
        /\ mq_bytes_written # written
        => latch["receiver"] \/ pc["sender"] \in {"full", "flush", "detach", "leave"}

\* A sender that waits has filled the ring, and a receiver that waits found too little.
SenderFilled ==
    mqh_counterparty_attached["sender"] /\ pc["sender"] \in {"full", "sleep", "retry"}
        => mqh_send_pending = 0 /\ mq_bytes_written - rb >= RingSize
TooLittle == ~Enough(written - read)
ReceiverDrained ==
    mqh_counterparty_attached["receiver"] =>
        /\ pc["receiver"] \in {"nodata", "recheck", "reclaim", "reclaimed", "sleep", "retry"}
               => TooLittle
        /\ pc["receiver"] \in {"reclaimed", "sleep", "retry"} => mqh_consume_pending = 0

\* Once the queue is detached, one side has left or the sender has never written.
Silent ==
    /\ mq_bytes_written = 0 /\ mqh_send_pending = 0
    /\ pc["sender"] \in {"new", "notify", "idle", "space", "test", "detach", "leave", "gone"}
DetachedFor ==
    mq_detached => \/ pc["receiver"] \in {"leave", "gone"} \/ pc["sender"] \in {"leave", "gone"}
                   \/ Silent
                   \/ bgwStatus = "stopped" /\ worker = "receiver" /\ pc["receiver"] = "new"
ReceiverTold ==
    pc["receiver"] = "told" =>
        /\ mq_detached
        /\ \/ mq_bytes_written = 0
           \/ /\ mqh_counterparty_attached["receiver"] /\ written = mq_bytes_written
              /\ TooLittle

WInv ==
    /\ WTypes /\ Placed
    /\ ToldOfDetach /\ ToldOfWorker /\ ToldOfPeer /\ ToldOfSpace /\ ToldOfData
    /\ SenderFilled /\ ReceiverDrained /\ DetachedFor /\ ReceiverTold

-----------------------------------------------------------------------------
\* A change of the worker's status sets the latch of the process that started it.
LEMMA WakesWorker ==
    ASSUME Types, WInv, BackgroundWorker
    PROVE  WInv'
<1>1. /\ worker \in {"sender", "receiver"}
      /\ \/ bgwStatus = "not_yet_started" /\ bgwStatus' \in {"started", "stopped"}
         \/ /\ bgwStatus = "started" /\ pc[worker] \in {"new", "gone"}
            /\ bgwStatus' = "stopped"
      /\ worker = "sender" => latch'["receiver"] /\ latch'["sender"] = latch["sender"]
      /\ worker = "receiver" => latch'["sender"] /\ latch'["receiver"] = latch["receiver"]
      /\ UNCHANGED <<worker, early, mq_detached, mq_bytes_read, mq_bytes_written>>
      /\ UNCHANGED <<mqh_send_pending, rb, written, mqh_consume_pending, pc>>
      /\ UNCHANGED <<mq_set, mqh_counterparty_attached, seen>>
  <2>1. worker = "sender" \/ worker = "receiver"
    BY Zenon DEF WInv, WTypes, Proc
  <2>2. CASE worker = "sender"
    BY SMTT(40), Z3T(40), <2>1, <2>2 DEF Types, WInv, WTypes, Proc, life, counters, sending,
       receiving, progress, Calling, Resting, Leaving, Reading, Waiting, BackgroundWorker,
       SetLatch, Peer
  <2>3. CASE worker = "receiver"
    BY SMTT(40), Z3T(40), <2>1, <2>3 DEF Types, WInv, WTypes, Proc, life, counters, sending,
       receiving, progress, Calling, Resting, Leaving, Reading, Waiting, BackgroundWorker,
       SetLatch, Peer
  <2> QED
    BY Zenon, <2>1, <2>2, <2>3
<1>2. TooLittle' = TooLittle
  BY SMTT(40), Z3T(40) DEF Types, Proc, life, counters, sending,
     receiving, progress, BackgroundWorker, TooLittle, Enough, LeftToReceive, read
<1>3. WTypes'
  BY SMTT(40), Z3T(40), <1>1 DEF Types, WInv, WTypes, Proc, life, counters,
     sending, receiving, progress, Calling, Resting, Leaving, Reading, Waiting,
     BackgroundWorker, SetLatch, Peer
<1>4. Placed'
  BY SMTT(40), Z3T(40), <1>1 DEF WInv, Placed, PlacedAt, Calling, Reading,
     Waiting
<1>5. ToldOfDetach'
  BY SMTT(40), Z3T(40), <1>1 DEF WInv, Placed, PlacedAt, ToldOfDetach,
     DetachTold, PassedDetached
<1>6. ToldOfWorker' /\ ToldOfPeer'
  BY SMTT(40), Z3T(40), <1>1 DEF WInv, Placed, PlacedAt,
     ToldOfWorker, PassedStatus, ToldOfPeer, PeerTold, PassedSet, Reading, Waiting
<1>7. ToldOfSpace' /\ ToldOfData'
  BY SMTT(40), Z3T(40), <1>1 DEF WInv, Placed, PlacedAt,
     ToldOfSpace, ToldOfData, Calling, Reading, Waiting
<1>8. SenderFilled'
  BY SMTT(40), Z3T(40), <1>1 DEF WInv, SenderFilled, Placed, PlacedAt,
     Waiting
<1>9. DetachedFor'
  BY SMTT(40), Z3T(40), <1>1 DEF WInv, Placed, PlacedAt, DetachedFor,
     Silent, Calling
<1>10. ReceiverDrained' /\ ReceiverTold'
  BY SMTT(40), Z3T(40), <1>1, <1>2 DEF WInv, Placed,
     PlacedAt, ReceiverDrained, ReceiverTold, DetachedFor, Silent, Reading, Waiting
<1> QED
  BY Zenon, <1>3, <1>4, <1>5, <1>6, <1>7, <1>8, <1>9, <1>10 DEF WInv

\* A latch set for another reason only wakes somebody up.
LEMMA WakesLatch ==
    ASSUME NEW p \in Proc, Types, WInv, UnrelatedLatch(p)
    PROVE  WInv'
<1>1. /\ worker \in {"sender", "receiver"}
      /\ \/ p = "sender" /\ latch'["sender"] /\ latch'["receiver"] = latch["receiver"]
         \/ p = "receiver" /\ latch'["receiver"] /\ latch'["sender"] = latch["sender"]
      /\ UNCHANGED <<worker, early, bgwStatus, mq_detached, mq_bytes_read>>
      /\ UNCHANGED <<mq_bytes_written, mqh_send_pending, rb, written>>
      /\ UNCHANGED <<mqh_consume_pending, pc, mq_set, mqh_counterparty_attached>>
      /\ UNCHANGED <<seen>>
  <2>1. p = "sender" \/ p = "receiver"
    BY Zenon DEF Proc
  <2>2. CASE p = "sender"
    BY SMTT(40), Z3T(40), <2>1, <2>2 DEF Types, WInv, WTypes, Proc, life, counters, sending,
       receiving, progress, Calling, Resting, Leaving, Reading, Waiting, UnrelatedLatch,
       SetLatch
  <2>3. CASE p = "receiver"
    BY SMTT(40), Z3T(40), <2>1, <2>3 DEF Types, WInv, WTypes, Proc, life, counters, sending,
       receiving, progress, Calling, Resting, Leaving, Reading, Waiting, UnrelatedLatch,
       SetLatch
  <2> QED
    BY Zenon, <2>1, <2>2, <2>3
<1>2. TooLittle' = TooLittle
  BY SMTT(40), Z3T(40) DEF Types, Proc, life, counters, sending,
     receiving, progress, UnrelatedLatch, TooLittle, Enough, LeftToReceive, read
<1>3. WTypes'
  BY SMTT(40), Z3T(40), <1>1 DEF Types, WInv, WTypes, Proc, life, counters,
     sending, receiving, progress, Calling, Resting, Leaving, Reading, Waiting, UnrelatedLatch,
     SetLatch
<1>4. Placed'
  BY SMTT(40), Z3T(40), <1>1 DEF WInv, Placed, PlacedAt, Calling, Reading,
     Waiting
<1>5. ToldOfDetach'
  BY SMTT(40), Z3T(40), <1>1 DEF WInv, Placed, PlacedAt, ToldOfDetach,
     DetachTold, PassedDetached
<1>6. ToldOfWorker' /\ ToldOfPeer'
  BY Zenon, <1>1 DEF WInv, Placed, PlacedAt,
     ToldOfWorker, PassedStatus, ToldOfPeer, PeerTold, PassedSet, Reading, Waiting
<1>7. ToldOfSpace' /\ ToldOfData'
  BY Zenon, <1>1 DEF WInv, Placed, PlacedAt,
     ToldOfSpace, ToldOfData, Calling, Reading, Waiting
<1>8. SenderFilled'
  BY SMTT(40), Z3T(40), <1>1 DEF WInv, SenderFilled, Placed, PlacedAt,
     Waiting
<1>9. DetachedFor'
  BY SMTT(40), Z3T(40), <1>1 DEF WInv, Placed, PlacedAt, DetachedFor,
     Silent, Calling
<1>10. ReceiverDrained' /\ ReceiverTold'
  BY SMTT(40), Z3T(40), <1>1, <1>2 DEF WInv, Placed,
     PlacedAt, ReceiverDrained, ReceiverTold, DetachedFor, Silent, Reading, Waiting
<1> QED
  BY Zenon, <1>3, <1>4, <1>5, <1>6, <1>7, <1>8, <1>9, <1>10 DEF WInv

\* Whoever attaches second finds the other set and goes on to notify it.
LEMMA WakesAttach ==
    ASSUME NEW p \in Proc, Types, WInv, shm_mq_attach(p)
    PROVE  WInv'
<1>1. /\ worker \in {"sender", "receiver"}
      /\ p = worker => bgwStatus = "started"
      /\ \/ /\ p = "sender" /\ pc["sender"] = "new" /\ mq_set'["sender"]
            /\ pc'["receiver"] = pc["receiver"] /\ mq_set'["receiver"] = mq_set["receiver"]
            /\ pc'["sender"] = IF mq_set["receiver"] THEN "notify" ELSE "idle"
         \/ /\ p = "receiver" /\ pc["receiver"] = "new" /\ mq_set'["receiver"]
            /\ pc'["sender"] = pc["sender"] /\ mq_set'["sender"] = mq_set["sender"]
            /\ pc'["receiver"] = IF mq_set["sender"] THEN "notify" ELSE "idle"
      /\ UNCHANGED <<worker, early, bgwStatus, mq_detached, mq_bytes_read>>
      /\ UNCHANGED <<mq_bytes_written, mqh_send_pending, rb, written>>
      /\ UNCHANGED <<mqh_consume_pending, latch, mqh_counterparty_attached, seen>>
  <2>1. p = "sender" \/ p = "receiver"
    BY Zenon DEF Proc
  <2>2. CASE p = "sender"
    BY SMTT(40), Z3T(40), <2>1, <2>2 DEF Types, WInv, WTypes, Proc, life, counters, sending,
       receiving, progress, Calling, Resting, Leaving, Reading, Waiting, shm_mq_attach, Goto,
       Peer
  <2>3. CASE p = "receiver"
    BY SMTT(40), Z3T(40), <2>1, <2>3 DEF Types, WInv, WTypes, Proc, life, counters, sending,
       receiving, progress, Calling, Resting, Leaving, Reading, Waiting, shm_mq_attach, Goto,
       Peer
  <2> QED
    BY Zenon, <2>1, <2>2, <2>3
<1>2. TooLittle' = TooLittle
  BY SMTT(40), Z3T(40) DEF Types, Proc, life, counters, sending,
     receiving, progress, shm_mq_attach, TooLittle, Enough, LeftToReceive, read
<1>3. WTypes'
  BY Zenon, <1>1 DEF Types, WInv, WTypes, Proc, life, counters,
     sending, receiving, progress, Calling, Resting, Leaving, Reading, Waiting, shm_mq_attach,
     Goto, Peer
<1>4. Placed'
  BY Zenon, <1>1 DEF WInv, Placed, PlacedAt, Calling, Reading,
     Waiting
<1>5. ToldOfDetach'
  BY Zenon, <1>1 DEF WInv, Placed, PlacedAt, ToldOfDetach,
     DetachTold, PassedDetached
<1>6. ToldOfWorker' /\ ToldOfPeer'
  BY Zenon, <1>1 DEF WInv, Placed, PlacedAt,
     ToldOfWorker, PassedStatus, ToldOfPeer, PeerTold, PassedSet, Reading, Waiting
<1>7. ToldOfSpace' /\ ToldOfData'
  BY Zenon, <1>1 DEF WInv, Placed, PlacedAt,
     ToldOfSpace, ToldOfData, Calling, Reading, Waiting
<1>8. SenderFilled'
  BY Zenon, <1>1 DEF WInv, SenderFilled, Placed, PlacedAt,
     Waiting
<1>9. DetachedFor'
  BY Zenon, <1>1 DEF WInv, Placed, PlacedAt, DetachedFor,
     Silent, Calling
<1>10. ReceiverDrained' /\ ReceiverTold'
  BY Zenon, <1>1, <1>2 DEF WInv, Placed,
     PlacedAt, ReceiverDrained, ReceiverTold, DetachedFor, Silent, Reading, Waiting
<1> QED
  BY Zenon, <1>3, <1>4, <1>5, <1>6, <1>7, <1>8, <1>9, <1>10 DEF WInv

\* SetLatch leaves the counterparty with its latch set, so it has been told.
LEMMA WakesNotify ==
    ASSUME NEW p \in Proc, Types, WInv, NotifyPeer(p)
    PROVE  WInv'
<1>1. /\ worker \in {"sender", "receiver"}
      /\ \/ /\ p = "sender" /\ latch'["receiver"] /\ latch'["sender"] = latch["sender"]
            /\ pc'["receiver"] = pc["receiver"]
            /\ \/ pc["sender"] \in {"notify", "flush"} /\ pc'["sender"] = "idle"
               \/ pc["sender"] = "full" /\ pc'["sender"] \in {"retry", "sleep"}
               \/ pc["sender"] = "leave" /\ pc'["sender"] = "gone"
         \/ /\ p = "receiver" /\ latch'["sender"] /\ latch'["receiver"] = latch["receiver"]
            /\ pc'["sender"] = pc["sender"]
            /\ \/ pc["receiver"] = "notify" /\ pc'["receiver"] = "idle"
               \/ pc["receiver"] = "reclaimed" /\ pc'["receiver"] \in {"retry", "sleep"}
               \/ pc["receiver"] = "consumed" /\ pc'["receiver"] = "available"
               \/ pc["receiver"] = "leave" /\ pc'["receiver"] = "gone"
      /\ UNCHANGED <<worker, early, bgwStatus, mq_detached, mq_bytes_read>>
      /\ UNCHANGED <<mq_bytes_written, mqh_send_pending, rb, written>>
      /\ UNCHANGED <<mqh_consume_pending, mq_set, mqh_counterparty_attached, seen>>
  <2>1. p = "sender" \/ p = "receiver"
    BY Zenon DEF Proc
  <2>2. CASE p = "sender"
    BY SMTT(40), Z3T(40), <2>1, <2>2 DEF Types, WInv, WTypes, Proc, life, counters, sending,
       receiving, progress, Calling, Resting, Leaving, Reading, Waiting, NotifyPeer, Goto,
       SetLatch, Peer
  <2>3. CASE p = "receiver"
    BY SMTT(40), Z3T(40), <2>1, <2>3 DEF Types, WInv, WTypes, Proc, life, counters, sending,
       receiving, progress, Calling, Resting, Leaving, Reading, Waiting, NotifyPeer, Goto,
       SetLatch, Peer
  <2> QED
    BY Zenon, <2>1, <2>2, <2>3
<1>2. TooLittle' = TooLittle
  BY SMTT(40), Z3T(40) DEF Types, Proc, life, counters, sending,
     receiving, progress, NotifyPeer, TooLittle, Enough, LeftToReceive, read
<1>3. WTypes'
  BY Zenon, <1>1 DEF Types, WInv, WTypes, Proc, life, counters,
     sending, receiving, progress, Calling, Resting, Leaving, Reading, Waiting, NotifyPeer,
     Goto, SetLatch, Peer
<1>4. Placed'
  BY SMTT(40), Z3T(40), <1>1 DEF WInv, Placed, PlacedAt, Calling, Reading,
     Waiting
<1>5. ToldOfDetach'
  BY Zenon, <1>1 DEF WInv, Placed, PlacedAt, ToldOfDetach,
     DetachTold, PassedDetached
<1>6. ToldOfWorker' /\ ToldOfPeer'
  BY Zenon, <1>1 DEF WInv, Placed, PlacedAt,
     ToldOfWorker, PassedStatus, ToldOfPeer, PeerTold, PassedSet, Reading, Waiting
<1>7. ToldOfSpace' /\ ToldOfData'
  BY Zenon, <1>1 DEF WInv, Placed, PlacedAt,
     ToldOfSpace, ToldOfData, Calling, Reading, Waiting
<1>8. SenderFilled'
  BY Zenon, <1>1 DEF WInv, SenderFilled, Placed, PlacedAt,
     Waiting
<1>9. DetachedFor'
  BY Zenon, <1>1 DEF WInv, Placed, PlacedAt, DetachedFor,
     Silent, Calling
<1>10. ReceiverDrained' /\ ReceiverTold'
  BY Zenon, <1>1, <1>2 DEF WInv, Placed,
     PlacedAt, ReceiverDrained, ReceiverTold, DetachedFor, Silent, Reading, Waiting
<1> QED
  BY Zenon, <1>3, <1>4, <1>5, <1>6, <1>7, <1>8, <1>9, <1>10 DEF WInv

\* Only the owner of a latch resets it, and then it looks at everything again.
LEMMA WakesAwake ==
    ASSUME NEW p \in Proc, Types, WInv, Awake(p)
    PROVE  WInv'
<1>1. /\ worker \in {"sender", "receiver"}
      /\ \/ /\ p = "sender" /\ latch["sender"] /\ ~latch'["sender"]
            /\ latch'["receiver"] = latch["receiver"] /\ pc'["receiver"] = pc["receiver"]
            /\ \/ pc["sender"] = "w_sleep" /\ pc'["sender"] = "w_ptr"
               \/ pc["sender"] \in {"sleep", "retry"} /\ pc'["sender"] = "space"
         \/ /\ p = "receiver" /\ latch["receiver"] /\ ~latch'["receiver"]
            /\ latch'["sender"] = latch["sender"] /\ pc'["sender"] = pc["sender"]
            /\ \/ pc["receiver"] = "w_sleep" /\ pc'["receiver"] = "w_ptr"
               \/ pc["receiver"] = "sleep" /\ pc'["receiver"] = "available"
               \/ pc["receiver"] = "retry" /\ pc'["receiver"] = "idle"
      /\ UNCHANGED <<worker, early, bgwStatus, mq_detached, mq_bytes_read>>
      /\ UNCHANGED <<mq_bytes_written, mqh_send_pending, rb, written>>
      /\ UNCHANGED <<mqh_consume_pending, mq_set, mqh_counterparty_attached, seen>>
  <2>1. p = "sender" \/ p = "receiver"
    BY Zenon DEF Proc
  <2>2. CASE p = "sender"
    BY SMTT(40), Z3T(40), <2>1, <2>2 DEF Types, WInv, WTypes, Proc, life, counters, sending,
       receiving, progress, Calling, Resting, Leaving, Reading, Waiting, Awake, Goto
  <2>3. CASE p = "receiver"
    BY Zenon, <2>1, <2>3 DEF Types, WInv, WTypes, Proc, life, counters, sending,
       receiving, progress, Calling, Resting, Leaving, Reading, Waiting, Awake, Goto
  <2> QED
    BY Zenon, <2>1, <2>2, <2>3
<1>2. TooLittle' = TooLittle
  BY SMTT(40), Z3T(40) DEF Types, Proc, life, counters, sending,
     receiving, progress, Awake, TooLittle, Enough, LeftToReceive, read
<1>3. WTypes'
  BY Zenon, <1>1 DEF Types, WInv, WTypes, Proc, life, counters,
     sending, receiving, progress, Calling, Resting, Leaving, Reading, Waiting, Awake, Goto
<1>4. Placed'
  BY ZenonT(40), <1>1 DEF WInv, Placed, PlacedAt, Calling, Reading,
     Waiting
<1>5. ToldOfDetach'
  BY Zenon, <1>1 DEF WInv, Placed, PlacedAt, ToldOfDetach,
     DetachTold, PassedDetached
<1>6. ToldOfWorker' /\ ToldOfPeer'
  BY Zenon, <1>1 DEF WInv, Placed, PlacedAt,
     ToldOfWorker, PassedStatus, ToldOfPeer, PeerTold, PassedSet, Reading, Waiting
<1>7. ToldOfSpace' /\ ToldOfData'
  BY Zenon, <1>1 DEF WInv, Placed, PlacedAt,
     ToldOfSpace, ToldOfData, Calling, Reading, Waiting
<1>8. SenderFilled'
  BY Zenon, <1>1 DEF WInv, SenderFilled, Placed, PlacedAt,
     Waiting
<1>9. DetachedFor'
  BY Zenon, <1>1 DEF WInv, Placed, PlacedAt, DetachedFor,
     Silent, Calling
<1>10. ReceiverDrained' /\ ReceiverTold'
  BY Zenon, <1>1, <1>2 DEF WInv, Placed,
     PlacedAt, ReceiverDrained, ReceiverTold, DetachedFor, Silent, Reading, Waiting
<1> QED
  BY Zenon, <1>3, <1>4, <1>5, <1>6, <1>7, <1>8, <1>9, <1>10 DEF WInv

\* A step of p in shm_mq_wait_internal or shm_mq_counterparty_gone, where q is its
\* counterparty: where p goes, and what seen, mqh_counterparty_attached and mq_detached
\* become.
Looks(p, q, l, s, a, d) ==
    /\ \/ /\ pc[p] = "w_ptr" /\ l = "w_detached"
          /\ s = mq_set[q] /\ a = mqh_counterparty_attached[p] /\ d = mq_detached
       \/ /\ pc[p] \in {"w_detached", "w_sender", "g_peer"} /\ mq_set[q]
          /\ l = IF p = "sender" THEN "space" ELSE "consume"
          /\ s = seen[p] /\ a = TRUE /\ d = mq_detached
       \/ /\ pc[p] = "w_detached" /\ ~seen[p] /\ ~mq_detached
          /\ l = IF p = worker THEN "w_sleep" ELSE "w_status"
          /\ s = seen[p] /\ a = mqh_counterparty_attached[p] /\ d = mq_detached
       \/ /\ pc[p] = "w_status" /\ ~WorkerGone(p) /\ l = "w_sleep"
          /\ s = seen[p] /\ a = mqh_counterparty_attached[p] /\ d = mq_detached
       \/ /\ pc[p] \in {"w_detached", "w_status"} /\ p = "receiver" /\ l = "w_sender"
          /\ s = seen[p] /\ a = mqh_counterparty_attached[p] /\ d = mq_detached
       \/ /\ pc[p] \in {"w_detached", "w_status", "g_detached", "g_status"} /\ p = "sender"
          /\ mq_detached \/ WorkerGone(p)
          /\ l = "idle" /\ s \in BOOLEAN /\ a = mqh_counterparty_attached[p] /\ d = TRUE
       \/ /\ pc[p] = "w_sender" /\ p = "receiver" /\ ~mq_set["sender"] /\ l = "told"
          /\ s = seen[p] /\ a = mqh_counterparty_attached[p] /\ d = TRUE
       \/ /\ pc[p] \in {"g_detached", "g_status"} /\ p = "receiver"
          /\ mq_detached \/ WorkerGone(p)
          /\ l = "g_peer" /\ s = TRUE /\ a = mqh_counterparty_attached[p] /\ d = TRUE
       \/ /\ pc[p] = "g_detached" /\ ~mq_detached
          /\ l = IF p = worker THEN "g_peer" ELSE "g_status"
          /\ s = FALSE /\ a = mqh_counterparty_attached[p] /\ d = mq_detached
       \/ /\ pc[p] = "g_status" /\ ~WorkerGone(p) /\ l = "g_peer"
          /\ s = FALSE /\ a = mqh_counterparty_attached[p] /\ d = mq_detached
       \/ /\ pc[p] = "g_peer" /\ ~mq_set[q]
          /\ l = IF p = "receiver" /\ seen[p] THEN "told" ELSE "retry"
          /\ s = seen[p] /\ a = mqh_counterparty_attached[p] /\ d = mq_detached
Scan(p, l, s, a, d) ==
    /\ pc' = [pc EXCEPT ![p] = l]
    /\ seen' = [seen EXCEPT ![p] = s]
    /\ mqh_counterparty_attached' = [mqh_counterparty_attached EXCEPT ![p] = a]
    /\ mq_detached' = d
    /\ Looks(p, Peer(p), l, s, a, d)
    /\ mqh_length_word_complete'["receiver"] = mqh_length_word_complete["receiver"]
    /\ mqh_partial_bytes'["receiver"] = mqh_partial_bytes["receiver"]
    /\ UNCHANGED <<life, latch, mq_set, counters, nowait, sending, receiving>>

\* What such a step changes is a matter of p alone.
LEMMA ScanPoints ==
    ASSUME NEW p \in Proc, NEW q \in Proc, q = Peer(p), NEW l, NEW s, NEW a, NEW d,
           Types, WInv, Scan(p, l, s, a, d)
    PROVE  /\ worker \in {"sender", "receiver"} /\ p # q
           /\ pc[p] \in Waiting /\ mq_detached \in BOOLEAN
           /\ pc'[p] = l /\ pc'[q] = pc[q] /\ seen'[p] = s /\ seen'[q] = seen[q]
           /\ mqh_counterparty_attached'[p] = a
           /\ mqh_counterparty_attached'[q] = mqh_counterparty_attached[q]
           /\ mq_detached' = d /\ Looks(p, q, l, s, a, d)
           /\ UNCHANGED <<worker, early, bgwStatus, mq_bytes_read, mq_bytes_written>>
           /\ UNCHANGED <<mqh_send_pending, rb, written, mqh_consume_pending, latch, mq_set>>
           /\ TooLittle' = TooLittle /\ WTypes'
           /\ d => mq_detached \/ WorkerGone(p) \/ (p = "receiver" /\ ~mq_set["sender"])
<1>1. /\ p # q /\ WTypes
      /\ pc \in [Proc -> Labels] /\ mq_detached \in BOOLEAN
  BY SMTT(40), Z3T(40) DEF Types, WInv, Proc, Peer
<1>2. /\ pc'[p] = l /\ pc'[q] = pc[q] /\ seen'[p] = s /\ seen'[q] = seen[q]
      /\ mqh_counterparty_attached'[p] = a
      /\ mqh_counterparty_attached'[q] = mqh_counterparty_attached[q]
      /\ mq_detached' = d /\ Looks(p, q, l, s, a, d)
  BY Zenon, <1>1 DEF Scan, WTypes
<1>3. /\ UNCHANGED <<worker, early, bgwStatus, mq_bytes_read, mq_bytes_written>>
      /\ UNCHANGED <<mqh_send_pending, rb, written, mqh_consume_pending, latch, mq_set>>
  BY Zenon DEF Scan, life, counters, sending, receiving
<1>4. TooLittle' = TooLittle
  BY Zenon, <1>3 DEF Scan, receiving, TooLittle, Enough, LeftToReceive, read
<1>5. pc[p] \in Waiting
  BY Zenon, <1>2 DEF Looks, Waiting
<1>6. s \in BOOLEAN /\ a \in BOOLEAN
  BY Zenon, <1>1, <1>2 DEF Looks, WTypes
<1>7. p = "receiver" => l \in Waiting \cup {"consume", "told", "retry"}
  BY Zenon, <1>2 DEF Looks, Waiting
<1>8. pc'["receiver"] \in Reading \cup Waiting \cup Leaving
                             \cup {"new", "notify", "idle", "retry", "told"}
  <2>1. CASE p = "receiver"
    BY Zenon, <1>2, <1>7, <2>1 DEF Reading
  <2>2. CASE q = "receiver"
    BY Zenon, <1>1, <1>2, <2>2 DEF WTypes
  <2>3. p = "receiver" \/ q = "receiver"
    BY SMTT(40), Z3T(40) DEF Proc, Peer
  <2> QED
    BY Zenon, <2>1, <2>2, <2>3
<1>9. WTypes'
  BY Zenon, <1>1, <1>3, <1>6, <1>8 DEF Scan, WTypes
<1>10. d => mq_detached \/ WorkerGone(p) \/ (p = "receiver" /\ ~mq_set["sender"])
  BY Zenon, <1>2 DEF Looks
<1> QED
  BY Zenon, <1>1, <1>2, <1>3, <1>4, <1>5, <1>9, <1>10 DEF WTypes, Proc

\* Such a step forgets nothing: what p has not looked at since, it will be told of.
LEMMA WakesScan ==
    ASSUME NEW p \in Proc, NEW l, NEW s, NEW a, NEW d,
           Types, WInv, Scan(p, l, s, a, d)
    PROVE  WInv'
<1>1. /\ Peer(p) \in Proc /\ (p = "sender" \/ p = "receiver")
      /\ Peer("sender") = "receiver" /\ Peer("receiver") = "sender"
  BY SMTT(40), Z3T(40) DEF Proc, Peer
<1>2. /\ worker \in {"sender", "receiver"}
      /\ pc[p] \in Waiting /\ mq_detached \in BOOLEAN /\ mq_detached' = d
      /\ UNCHANGED <<worker, early, bgwStatus, mq_bytes_read, mq_bytes_written>>
      /\ UNCHANGED <<mqh_send_pending, rb, written, mqh_consume_pending, latch, mq_set>>
      /\ TooLittle' = TooLittle /\ WTypes'
      /\ d => mq_detached \/ WorkerGone(p) \/ (p = "receiver" /\ ~mq_set["sender"])
  BY ZenonT(40), <1>1, ScanPoints
<1>3. CASE p = "sender"
  <2>1. /\ pc'["sender"] = l /\ pc'["receiver"] = pc["receiver"]
        /\ seen'["sender"] = s /\ seen'["receiver"] = seen["receiver"]
        /\ mqh_counterparty_attached'["sender"] = a
        /\ mqh_counterparty_attached'["receiver"] = mqh_counterparty_attached["receiver"]
        /\ Looks("sender", "receiver", l, s, a, d)
    <3>1. "receiver" = Peer(p) /\ "receiver" \in Proc
      BY Zenon, <1>1, <1>3 DEF Proc
    <3>2. /\ pc'[p] = l /\ pc'[Peer(p)] = pc[Peer(p)]
          /\ seen'[p] = s /\ seen'[Peer(p)] = seen[Peer(p)]
          /\ mqh_counterparty_attached'[p] = a
          /\ mqh_counterparty_attached'[Peer(p)] = mqh_counterparty_attached[Peer(p)]
          /\ Looks(p, Peer(p), l, s, a, d)
      BY ZenonT(40), <1>1, ScanPoints
    <3> QED
      BY Zenon, <3>1, <3>2, <1>3
  <2>2. Placed'
    BY SMTT(40), Z3T(40), <1>2, <1>3, <2>1 DEF WInv, Looks, WorkerGone, Placed,
       PlacedAt, Calling, Reading, Waiting
  <2>3. ToldOfDetach'
    BY SMTT(40), Z3T(40), <1>2, <1>3, <2>1 DEF WInv, Looks, WorkerGone,
       Placed, PlacedAt, ToldOfDetach, DetachTold, PassedDetached
  <2>4. ToldOfWorker' /\ ToldOfPeer'
    BY SMTT(40), Z3T(40), <1>2, <1>3, <2>1 DEF WInv,
       Looks, WorkerGone, Placed, PlacedAt, ToldOfWorker, PassedStatus, ToldOfPeer, PeerTold,
       PassedSet, Reading, Waiting
  <2>5. ToldOfSpace' /\ ToldOfData'
    BY SMTT(40), Z3T(40), <1>2, <1>3, <2>1 DEF WInv, Looks,
       WorkerGone, Placed, PlacedAt, ToldOfSpace, ToldOfData, Calling, Reading, Waiting
  <2>6. SenderFilled'
    <3>1. ~(mqh_counterparty_attached'["sender"] /\ pc'["sender"] \in {"full", "sleep", "retry"})
      BY Zenon, <1>2, <1>3, <2>1 DEF WInv, Looks, WorkerGone, Placed, PlacedAt,
         Waiting
    <3> QED
      BY Zenon, <3>1 DEF SenderFilled
  <2>7. DetachedFor'
    BY Zenon, <1>2, <1>3, <2>1 DEF WInv, WTypes, Proc,
       WorkerGone, Waiting, Placed, PlacedAt, DetachedFor, Silent
  <2>8. ReceiverDrained' /\ ReceiverTold'
    BY Zenon, <1>2, <1>3, <2>1 DEF WInv,
       Looks, WorkerGone, Placed, PlacedAt, ReceiverDrained, ReceiverTold, DetachedFor, Silent,
       Reading, Waiting
  <2> QED
    BY Zenon, <1>2, <2>2, <2>3, <2>4, <2>5, <2>6, <2>7, <2>8 DEF WInv
<1>4. CASE p = "receiver"
  <2>1. /\ pc'["receiver"] = l /\ pc'["sender"] = pc["sender"]
        /\ seen'["receiver"] = s /\ seen'["sender"] = seen["sender"]
        /\ mqh_counterparty_attached'["receiver"] = a
        /\ mqh_counterparty_attached'["sender"] = mqh_counterparty_attached["sender"]
        /\ Looks("receiver", "sender", l, s, a, d)
    <3>1. "sender" = Peer(p) /\ "sender" \in Proc
      BY Zenon, <1>1, <1>4 DEF Proc
    <3>2. /\ pc'[p] = l /\ pc'[Peer(p)] = pc[Peer(p)]
          /\ seen'[p] = s /\ seen'[Peer(p)] = seen[Peer(p)]
          /\ mqh_counterparty_attached'[p] = a
          /\ mqh_counterparty_attached'[Peer(p)] = mqh_counterparty_attached[Peer(p)]
          /\ Looks(p, Peer(p), l, s, a, d)
      BY Zenon, <1>1, ScanPoints
    <3> QED
      BY Zenon, <3>1, <3>2, <1>4
  <2>2. Placed'
    BY SMTT(40), Z3T(40), <1>2, <1>4, <2>1 DEF WInv, Looks, WorkerGone, Placed,
       PlacedAt, Calling, Reading, Waiting
  <2>3. ToldOfDetach'
    BY SMTT(40), Z3T(40), <1>2, <1>4, <2>1 DEF WInv, Looks, WorkerGone,
       Placed, PlacedAt, ToldOfDetach, DetachTold, PassedDetached
  <2>4. ToldOfWorker' /\ ToldOfPeer'
    BY ZenonT(40), <1>2, <1>4, <2>1 DEF WInv,
       Looks, WorkerGone, Placed, PlacedAt, ToldOfWorker, PassedStatus, ToldOfPeer, PeerTold,
       PassedSet, Reading, Waiting
  <2>5. ToldOfSpace' /\ ToldOfData'
    BY Zenon, <1>2, <1>4, <2>1 DEF WInv, Looks,
       WorkerGone, Placed, PlacedAt, ToldOfSpace, ToldOfData, Calling, Reading, Waiting
  <2>6. SenderFilled'
    BY Zenon, <1>2, <2>1 DEF WInv, SenderFilled
  <2>7. DetachedFor'
    BY Zenon, <1>2, <1>4, <2>1 DEF WInv, WTypes, Proc,
       WorkerGone, Waiting, Placed, PlacedAt, DetachedFor, Silent
  <2>8. ReceiverDrained' /\ ReceiverTold'
    BY Zenon, <1>2, <1>4, <2>1 DEF WInv,
       Looks, WorkerGone, Placed, PlacedAt, ReceiverDrained, ReceiverTold, DetachedFor, Silent,
       Reading, Waiting
  <2> QED
    BY Zenon, <1>2, <2>2, <2>3, <2>4, <2>5, <2>6, <2>7, <2>8 DEF WInv
<1> QED
  BY Zenon, <1>1, <1>3, <1>4

\* The two sides.
LEMMA Parties == "sender" \in Proc /\ "receiver" \in Proc /\ Proc = {"sender", "receiver"}
  BY Zenon DEF Proc

\* Assigning a function the value it has.
LEMMA Keeps ==
    ASSUME NEW S, NEW T, NEW f \in [S -> T], NEW x \in S
    PROVE  f = [f EXCEPT ![x] = f[x]]
  BY Zenon

\* shm_mq_wait_internal is such a step.
LEMMA WaitScans ==
    ASSUME NEW p \in Proc, Types, WInv, shm_mq_wait_internal(p)
    PROVE  WInv'
<1>1. /\ WTypes /\ Placed
      /\ pc \in [Proc -> Labels] /\ mq_detached \in BOOLEAN
      /\ mqh_length_word_complete \in [Proc -> BOOLEAN] /\ mqh_partial_bytes \in [Proc -> Nat]
  BY Zenon DEF Types, WInv
<1>2. /\ seen = [seen EXCEPT ![p] = seen[p]] /\ seen[p] \in BOOLEAN
      /\ mqh_counterparty_attached =
             [mqh_counterparty_attached EXCEPT ![p] = mqh_counterparty_attached[p]]
  BY Zenon, <1>1, Keeps DEF WTypes
<1>3. /\ mqh_length_word_complete'["receiver"] = mqh_length_word_complete["receiver"]
      /\ mqh_partial_bytes'["receiver"] = mqh_partial_bytes["receiver"]
      /\ UNCHANGED <<life, latch, mq_set, counters, nowait, sending, receiving>>
  BY Zenon, <1>1, Parties DEF shm_mq_wait_internal, Detached, progress
<1>4. p = "sender" \/ p = "receiver"
  BY Zenon DEF Proc
<1>5. CASE Scan(p, "w_detached", mq_set[Peer(p)],
                mqh_counterparty_attached[p], mq_detached)
  BY Zenon, <1>5, WakesScan
<1>6. CASE Scan(p, IF p = "sender" THEN "space" ELSE "consume", seen[p], TRUE, mq_detached)
  BY Zenon, <1>6, WakesScan
<1>7. CASE Scan(p, IF p = worker THEN "w_sleep" ELSE "w_status", seen[p],
                mqh_counterparty_attached[p], mq_detached)
  BY Zenon, <1>7, WakesScan
<1>8. CASE Scan(p, "w_sleep", seen[p], mqh_counterparty_attached[p], mq_detached)
  BY Zenon, <1>8, WakesScan
<1>9. CASE Scan(p, "w_sender", seen[p], mqh_counterparty_attached[p], mq_detached)
  BY Zenon, <1>9, WakesScan
<1>10. CASE Scan(p, "idle", seen[p], mqh_counterparty_attached[p], TRUE)
  BY Zenon, <1>10, WakesScan
<1>11. CASE Scan(p, "told", seen[p], mqh_counterparty_attached[p], TRUE)
  BY Zenon, <1>11, WakesScan
<1>12. CASE /\ pc[p] = "w_ptr"
            /\ seen' = [seen EXCEPT ![p] = mq_set[Peer(p)]]
            /\ Goto(p, "w_detached")
            /\ UNCHANGED <<mq_detached, mqh_counterparty_attached, progress>>
  BY Zenon, <1>2, <1>3, <1>5, <1>12 DEF Scan, Looks, Goto
<1>13. CASE /\ pc[p] = "w_detached" /\ ~mq_detached /\ seen[p]
            /\ Attached(p)
            /\ UNCHANGED <<mq_detached, seen, progress>>
  <2>1. PlacedAt(p, Peer(p))
    BY SMTT(40), Z3T(40), <1>1, <1>4 DEF Placed, Peer
  <2> QED
    BY Zenon, <2>1, <1>2, <1>3, <1>6, <1>13 DEF Scan, Looks, Goto, Attached, PlacedAt
<1>14. CASE /\ pc[p] = "w_detached" /\ ~mq_detached /\ ~seen[p]
            /\ Goto(p, IF p = worker THEN "w_sleep" ELSE "w_status")
            /\ UNCHANGED <<mq_detached, seen, mqh_counterparty_attached, progress>>
  BY Zenon, <1>2, <1>3, <1>7, <1>14 DEF Scan, Looks, Goto
<1>15. CASE /\ pc[p] = "w_status" /\ ~WorkerGone(p)
            /\ Goto(p, "w_sleep")
            /\ UNCHANGED <<mq_detached, seen, mqh_counterparty_attached, progress>>
  BY Zenon, <1>2, <1>3, <1>8, <1>15 DEF Scan, Looks, Goto
<1>16. CASE /\ \/ pc[p] = "w_detached" /\ mq_detached
               \/ pc[p] = "w_status" /\ WorkerGone(p)
            /\ IF p = "sender"
               THEN Detached(p) /\ mq_detached' = TRUE
               ELSE Goto(p, "w_sender") /\ UNCHANGED <<mq_detached, progress>>
            /\ UNCHANGED <<seen, mqh_counterparty_attached>>
  <2>1. CASE p = "sender"
    BY Zenon, <2>1, <1>2, <1>3, <1>10, <1>16 DEF Scan, Looks, Goto, Detached
  <2>2. CASE p # "sender"
    BY Zenon, <2>2, <1>2, <1>3, <1>4, <1>9, <1>16 DEF Scan, Looks, Goto
  <2> QED
    BY <2>1, <2>2
<1>17. CASE /\ pc[p] = "w_sender" /\ mq_set["sender"]
            /\ Attached(p)
            /\ UNCHANGED <<mq_detached, seen, progress>>
  <2>1. p = "receiver" /\ Peer(p) = "sender"
    BY SMTT(40), Z3T(40), <1>4, <1>17 DEF Peer, Types, Calling, Resting, Leaving
  <2> QED
    BY Zenon, <2>1, <1>2, <1>3, <1>6, <1>17 DEF Scan, Looks, Goto, Attached
<1>18. CASE /\ pc[p] = "w_sender" /\ ~mq_set["sender"]
            /\ Detached(p)
            /\ mq_detached' = TRUE
            /\ UNCHANGED <<seen, mqh_counterparty_attached>>
  <2>1. p = "receiver" /\ p # "sender"
    BY SMTT(40), Z3T(40), <1>4, <1>18 DEF Types, Calling, Resting, Leaving
  <2> QED
    BY Zenon, <2>1, <1>2, <1>3, <1>11, <1>18 DEF Scan, Looks, Goto, Detached
<1> QED
  BY Zenon, <1>12, <1>13, <1>14, <1>15, <1>16, <1>17, <1>18 DEF shm_mq_wait_internal

\* shm_mq_counterparty_gone is such a step.
LEMMA GoneScans ==
    ASSUME NEW p \in Proc, Types, WInv, shm_mq_counterparty_gone(p)
    PROVE  WInv'
<1>1. /\ WTypes /\ Placed
      /\ pc \in [Proc -> Labels] /\ mq_detached \in BOOLEAN
      /\ mqh_length_word_complete \in [Proc -> BOOLEAN] /\ mqh_partial_bytes \in [Proc -> Nat]
  BY Zenon DEF Types, WInv
<1>2. /\ seen = [seen EXCEPT ![p] = seen[p]] /\ seen[p] \in BOOLEAN
      /\ mqh_counterparty_attached =
             [mqh_counterparty_attached EXCEPT ![p] = mqh_counterparty_attached[p]]
  BY Zenon, <1>1, Keeps DEF WTypes
<1>3. /\ mqh_length_word_complete'["receiver"] = mqh_length_word_complete["receiver"]
      /\ mqh_partial_bytes'["receiver"] = mqh_partial_bytes["receiver"]
      /\ UNCHANGED <<life, latch, mq_set, counters, nowait, sending, receiving>>
  BY Zenon, <1>1, Parties DEF shm_mq_counterparty_gone, Detached, progress
<1>4. p = "sender" \/ p = "receiver"
  BY Zenon DEF Proc
<1>5. CASE Scan(p, "idle", TRUE, mqh_counterparty_attached[p], TRUE)
  BY Zenon, <1>5, WakesScan
<1>6. CASE Scan(p, "g_peer", TRUE, mqh_counterparty_attached[p], TRUE)
  BY Zenon, <1>6, WakesScan
<1>7. CASE Scan(p, "g_peer", FALSE, mqh_counterparty_attached[p], mq_detached)
  BY Zenon, <1>7, WakesScan
<1>8. CASE Scan(p, IF p = worker THEN "g_peer" ELSE "g_status", FALSE,
                mqh_counterparty_attached[p], mq_detached)
  BY Zenon, <1>8, WakesScan
<1>9. CASE Scan(p, IF p = "sender" THEN "space" ELSE "consume", seen[p], TRUE, mq_detached)
  BY Zenon, <1>9, WakesScan
<1>10. CASE Scan(p, IF p = "receiver" /\ seen[p] THEN "told" ELSE "retry", seen[p],
                 mqh_counterparty_attached[p], mq_detached)
  BY Zenon, <1>10, WakesScan
<1>11. CASE /\ \/ pc[p] = "g_detached" /\ mq_detached
               \/ pc[p] = "g_status" /\ WorkerGone(p)
            /\ mq_detached' = TRUE
            /\ seen' = [seen EXCEPT ![p] = TRUE]
            /\ IF p = "sender" THEN Detached(p)
               ELSE Goto(p, "g_peer") /\ UNCHANGED progress
            /\ UNCHANGED mqh_counterparty_attached
  <2>1. CASE p = "sender"
    BY Zenon, <2>1, <1>2, <1>3, <1>5, <1>11 DEF Scan, Looks, Goto, Detached
  <2>2. CASE p # "sender"
    BY Zenon, <2>2, <1>2, <1>3, <1>4, <1>6, <1>11 DEF Scan, Looks, Goto
  <2> QED
    BY <2>1, <2>2
<1>12. CASE /\ \/ pc[p] = "g_detached" /\ ~mq_detached
               \/ pc[p] = "g_status" /\ ~WorkerGone(p)
            /\ seen' = [seen EXCEPT ![p] = FALSE]
            /\ Goto(p, IF p # worker /\ pc[p] = "g_detached" THEN "g_status" ELSE "g_peer")
            /\ UNCHANGED <<mq_detached, mqh_counterparty_attached, progress>>
  <2>1. CASE pc[p] = "g_detached" /\ ~mq_detached
    <3>1. (IF p # worker /\ pc[p] = "g_detached" THEN "g_status" ELSE "g_peer")
              = IF p = worker THEN "g_peer" ELSE "g_status"
      BY Zenon, <2>1
    <3> QED
      BY Zenon, <2>1, <3>1, <1>2, <1>3, <1>8, <1>12 DEF Scan, Looks, Goto
  <2>2. CASE pc[p] = "g_status" /\ ~WorkerGone(p)
    <3>1. (IF p # worker /\ pc[p] = "g_detached" THEN "g_status" ELSE "g_peer") = "g_peer"
      BY SMTT(40), Z3T(40), <2>2
    <3> QED
      BY Zenon, <2>2, <3>1, <1>2, <1>3, <1>7, <1>12 DEF Scan, Looks, Goto
  <2> QED
    BY Zenon, <2>1, <2>2, <1>12
<1>13. CASE /\ pc[p] = "g_peer" /\ mq_set[Peer(p)]
            /\ Attached(p)
            /\ UNCHANGED <<mq_detached, seen, progress>>
  BY Zenon, <1>2, <1>3, <1>9, <1>13 DEF Scan, Looks, Goto, Attached
<1>14. CASE /\ pc[p] = "g_peer" /\ ~mq_set[Peer(p)]
            /\ IF p = "receiver" /\ seen[p] THEN Detached(p)
               ELSE Goto(p, "retry") /\ UNCHANGED progress
            /\ UNCHANGED <<mq_detached, seen, mqh_counterparty_attached>>
  <2>1. pc' = [pc EXCEPT ![p] = IF p = "receiver" /\ seen[p] THEN "told" ELSE "retry"]
    BY SMTT(40), Z3T(40), <1>4, <1>14 DEF Goto, Detached
  <2> QED
    BY Zenon, <2>1, <1>2, <1>3, <1>10, <1>14 DEF Scan, Looks
<1> QED
  BY Zenon, <1>11, <1>12, <1>13, <1>14 DEF shm_mq_counterparty_gone

\* shm_mq_detach_internal sets mq_detached and goes on to notify its victim.
LEMMA WakesDetachInternal ==
    ASSUME NEW p \in Proc, Types, WInv, shm_mq_detach_internal(p)
    PROVE  WInv'
<1>1. /\ worker \in {"sender", "receiver"}
      /\ mq_detached' = TRUE
      /\ \/ /\ p = "sender" /\ pc'["receiver"] = pc["receiver"]
            /\ pc'["sender"] = IF mq_set["receiver"] THEN "leave" ELSE "gone"
            /\ pc["sender"] \in {"detach", "idle", "told", "sleep", "retry", "w_sleep"}
         \/ /\ p = "receiver" /\ pc'["sender"] = pc["sender"]
            /\ pc'["receiver"] = IF mq_set["sender"] THEN "leave" ELSE "gone"
            /\ pc["receiver"] \in {"detach", "idle", "told", "sleep", "retry", "w_sleep"}
      /\ UNCHANGED <<worker, early, bgwStatus, mq_bytes_read, mq_bytes_written>>
      /\ UNCHANGED <<mqh_send_pending, rb, written, mqh_consume_pending, latch>>
      /\ UNCHANGED <<mq_set, mqh_counterparty_attached, seen>>
  <2>1. p = "sender" \/ p = "receiver"
    BY Zenon DEF Proc
  <2>2. CASE p = "sender"
    BY Zenon, <2>1, <2>2 DEF Types, WInv, WTypes, Proc, life, counters, sending,
       receiving, progress, Calling, Resting, Leaving, Reading, Waiting,
       shm_mq_detach_internal, Goto, Victim, Peer
  <2>3. CASE p = "receiver"
    BY Zenon, <2>1, <2>3 DEF Types, WInv, WTypes, Proc, life, counters, sending,
       receiving, progress, Calling, Resting, Leaving, Reading, Waiting,
       shm_mq_detach_internal, Goto, Victim, Peer
  <2> QED
    BY Zenon, <2>1, <2>2, <2>3
<1>2. TooLittle' = TooLittle
  BY Zenon DEF Types, Proc, life, counters, sending,
     receiving, progress, shm_mq_detach_internal, TooLittle, Enough, LeftToReceive, read
<1>3. WTypes'
  BY Zenon, <1>1 DEF Types, WInv, WTypes, Proc, life, counters,
     sending, receiving, progress, Calling, Resting, Leaving, Reading, Waiting,
     shm_mq_detach_internal, Goto, Victim, Peer
<1>4. Placed'
  BY Zenon, <1>1 DEF WInv, Placed, PlacedAt, Calling, Reading,
     Waiting
<1>5. ToldOfDetach'
  BY Zenon, <1>1 DEF WInv, Placed, PlacedAt, ToldOfDetach,
     DetachTold, PassedDetached
<1>6. ToldOfWorker' /\ ToldOfPeer'
  BY Zenon, <1>1 DEF WInv, Placed, PlacedAt,
     ToldOfWorker, PassedStatus, ToldOfPeer, PeerTold, PassedSet, Reading, Waiting
<1>7. ToldOfSpace' /\ ToldOfData'
  BY Zenon, <1>1 DEF WInv, Placed, PlacedAt,
     ToldOfSpace, ToldOfData, Calling, Reading, Waiting
<1>8. SenderFilled'
  BY Zenon, <1>1 DEF WInv, SenderFilled, Placed, PlacedAt,
     Waiting
<1>9. DetachedFor'
  BY Zenon, <1>1 DEF WInv, Placed, PlacedAt, DetachedFor,
     Silent, Calling
<1>10. ReceiverDrained' /\ ReceiverTold'
  BY Zenon, <1>1, <1>2 DEF WInv, Placed,
     PlacedAt, ReceiverDrained, ReceiverTold, DetachedFor, Silent, Reading, Waiting
<1> QED
  BY Zenon, <1>3, <1>4, <1>5, <1>6, <1>7, <1>8, <1>9, <1>10 DEF WInv

\* A call of shm_mq_send begins by looking for space.
LEMMA WakesSend ==
    ASSUME Types, WInv, shm_mq_send
    PROVE  WInv'
<1>1. /\ worker \in {"sender", "receiver"}
      /\ pc["sender"] = "idle" /\ pc'["sender"] = "space" /\ (early \/ mq_set["receiver"])
      /\ pc'["receiver"] = pc["receiver"]
      /\ UNCHANGED <<worker, early, bgwStatus, mq_detached, mq_bytes_read>>
      /\ UNCHANGED <<mq_bytes_written, mqh_send_pending, rb, written>>
      /\ UNCHANGED <<mqh_consume_pending, latch, mq_set>>
      /\ UNCHANGED <<mqh_counterparty_attached, seen>>
  BY Zenon DEF Types, WInv, WTypes, Proc, life, counters, sending, receiving,
     progress, Calling, Resting, Leaving, Reading, Waiting, shm_mq_send, Goto
<1>2. TooLittle' = TooLittle
  BY Zenon DEF Types, Proc, life, counters, sending,
     receiving, progress, shm_mq_send, TooLittle, Enough, LeftToReceive, read
<1>3. WTypes'
  BY Zenon, <1>1 DEF Types, WInv, WTypes, Proc, life, counters,
     sending, receiving, progress, Calling, Resting, Leaving, Reading, Waiting, shm_mq_send,
     Goto
<1>4. Placed'
  BY Zenon, <1>1 DEF WInv, Placed, PlacedAt, Calling, Reading,
     Waiting
<1>5. ToldOfDetach'
  BY Zenon, <1>1 DEF WInv, Placed, PlacedAt, ToldOfDetach,
     DetachTold, PassedDetached
<1>6. ToldOfWorker' /\ ToldOfPeer'
  BY Zenon, <1>1 DEF WInv, Placed, PlacedAt,
     ToldOfWorker, PassedStatus, ToldOfPeer, PeerTold, PassedSet, Reading, Waiting
<1>7. ToldOfSpace' /\ ToldOfData'
  BY Zenon, <1>1 DEF WInv, Placed, PlacedAt,
     ToldOfSpace, ToldOfData, Calling, Reading, Waiting
<1>8. SenderFilled'
  BY Zenon, <1>1 DEF WInv, SenderFilled, Placed, PlacedAt,
     Waiting
<1>9. DetachedFor'
  BY Zenon, <1>1 DEF WInv, Placed, PlacedAt, DetachedFor,
     Silent, Calling
<1>10. ReceiverDrained' /\ ReceiverTold'
  BY Zenon, <1>1, <1>2 DEF WInv, Placed,
     PlacedAt, ReceiverDrained, ReceiverTold, DetachedFor, Silent, Reading, Waiting
<1> QED
  BY Zenon, <1>3, <1>4, <1>5, <1>6, <1>7, <1>8, <1>9, <1>10 DEF WInv

\* Here the sender reads mq_bytes_read anew.
LEMMA WakesLookForSpace ==
    ASSUME Types, WInv, LookForSpace
    PROVE  WInv'
<1>1. /\ worker \in {"sender", "receiver"}
      /\ \/ pc["sender"] = "space" /\ rb' = mq_bytes_read /\ pc'["sender"] = "test"
         \/ /\ pc["sender"] = "test" /\ rb' = rb
            /\ pc'["sender"] = IF mq_detached THEN "idle" ELSE "act"
      /\ pc'["receiver"] = pc["receiver"]
      /\ UNCHANGED <<worker, early, bgwStatus, mq_detached, mq_bytes_read>>
      /\ UNCHANGED <<mq_bytes_written, mqh_send_pending, written>>
      /\ UNCHANGED <<mqh_consume_pending, latch, mq_set>>
      /\ UNCHANGED <<mqh_counterparty_attached, seen>>
  BY Zenon DEF Types, WInv, WTypes, Proc, life, counters, sending, receiving,
     progress, Calling, Resting, Leaving, Reading, Waiting, LookForSpace, Goto, Detached
<1>2. TooLittle' = TooLittle
  BY Zenon DEF Types, Proc, life, counters, sending,
     receiving, progress, LookForSpace, Detached, TooLittle, Enough, LeftToReceive, read
<1>3. WTypes'
  BY Zenon, <1>1 DEF Types, WInv, WTypes, Proc, life, counters,
     sending, receiving, progress, Calling, Resting, Leaving, Reading, Waiting, LookForSpace,
     Goto, Detached
<1>4. Placed'
  BY Zenon, <1>1 DEF WInv, Placed, PlacedAt, Calling, Reading,
     Waiting
<1>5. ToldOfDetach'
  BY Zenon, <1>1 DEF WInv, Placed, PlacedAt, ToldOfDetach,
     DetachTold, PassedDetached
<1>6. ToldOfWorker' /\ ToldOfPeer'
  BY Zenon, <1>1 DEF WInv, Placed, PlacedAt,
     ToldOfWorker, PassedStatus, ToldOfPeer, PeerTold, PassedSet, Reading, Waiting
<1>7. ToldOfSpace' /\ ToldOfData'
  BY Zenon, <1>1 DEF WInv, Placed, PlacedAt,
     ToldOfSpace, ToldOfData, Calling, Reading, Waiting
<1>8. SenderFilled'
  BY Zenon, <1>1 DEF WInv, SenderFilled, Placed, PlacedAt,
     Waiting
<1>9. DetachedFor'
  BY Zenon, <1>1 DEF WInv, Placed, PlacedAt, DetachedFor,
     Silent, Calling
<1>10. ReceiverDrained' /\ ReceiverTold'
  BY Zenon, <1>1, <1>2 DEF WInv, Placed,
     PlacedAt, ReceiverDrained, ReceiverTold, DetachedFor, Silent, Reading, Waiting
<1> QED
  BY Zenon, <1>3, <1>4, <1>5, <1>6, <1>7, <1>8, <1>9, <1>10 DEF WInv

\* A sender that finds no space has units left to send, so the ring is full.
LEMMA WakesRingFull ==
    ASSUME IInv, WInv, RingFull
    PROVE  WInv'
<1>1. /\ worker \in {"sender", "receiver"}
      /\ pc["sender"] = "act"
      /\ \/ /\ mqh_counterparty_attached["sender"] /\ pc'["sender"] = "full"
            /\ mqh_send_pending' = 0
            /\ mq_bytes_written' = mq_bytes_written + mqh_send_pending
         \/ /\ ~mqh_counterparty_attached["sender"]
            /\ pc'["sender"] \in {"g_detached", "w_ptr"}
            /\ UNCHANGED <<mq_bytes_written, mqh_send_pending>>
      /\ pc'["receiver"] = pc["receiver"]
      /\ UNCHANGED <<worker, early, bgwStatus, mq_detached, mq_bytes_read, rb>>
      /\ UNCHANGED <<written, mqh_consume_pending, latch, mq_set>>
      /\ UNCHANGED <<mqh_counterparty_attached, seen>>
  BY Zenon DEF IInv, Types, WInv, WTypes, Proc, life, counters, sending, receiving,
     progress, Calling, Resting, Leaving, Reading, Waiting, RingFull, Goto,
     shm_mq_inc_bytes_written
<1>2. TooLittle' = TooLittle
  BY Zenon DEF IInv, Types, Proc, life, counters,
     sending, receiving, progress, RingFull, TooLittle, Enough, LeftToReceive, read
<1>3. WTypes'
  BY Zenon, <1>1 DEF IInv, Types, WInv, WTypes, Proc, life, counters,
     sending, receiving, progress, Calling, Resting, Leaving, Reading, Waiting, RingFull, Goto,
     shm_mq_inc_bytes_written
<1>4. Placed'
  BY Zenon, <1>1 DEF WInv, Placed, PlacedAt, Calling, Reading,
     Waiting
<1>5. ToldOfDetach'
  BY Zenon, <1>1 DEF WInv, Placed, PlacedAt, ToldOfDetach,
     DetachTold, PassedDetached
<1>6. ToldOfWorker' /\ ToldOfPeer'
  BY Zenon, <1>1 DEF WInv, Placed, PlacedAt,
     ToldOfWorker, PassedStatus, ToldOfPeer, PeerTold, PassedSet, Reading, Waiting
<1>7. ToldOfSpace' /\ ToldOfData'
  BY Zenon, <1>1 DEF WInv, Placed, PlacedAt,
     ToldOfSpace, ToldOfData, Calling, Reading, Waiting
<1>8. SenderFilled'
  <2>1. Types
    BY Zenon DEF IInv
  <2>2. mqh_length_word_complete["sender"] => mqh_partial_bytes["sender"] < nbytes
    <3>1. SenderInStep
      BY Zenon, <1>1 DEF IInv, SenderAt
    <3>2. mqh_length_word_complete["sender"] =>
              /\ mqh_partial_bytes["sender"] \in 0 .. sent[Len(sent)]
              /\ nbytes = sent[Len(sent)]
              /\ mqh_partial_bytes["sender"] # nbytes
      BY Zenon, <3>1, <1>1 DEF SenderInStep, Is, Calling
    <3> QED
      BY SMTT(40), Z3T(40), <2>1, <3>2 DEF Types
  <2>3. LeftToSend > 0 /\ LeftToSend \in Int
    BY SMTT(40), Z3T(40), <2>1, <2>2 DEF LeftToSend, Types, Proc
  <2>4. available = 0
    BY Zenon DEF RingFull
  <2>5. mq_bytes_written + mqh_send_pending - rb >= RingSize
    BY SMTT(40), Z3T(40), <2>1, <2>3, <2>4, MqAssumption DEF available, Min, Used, wb, Types
  <2> QED
    BY SMTT(40), Z3T(40), <1>1, <2>1, <2>5 DEF Types, SenderFilled
<1>9. DetachedFor'
  BY Zenon, <1>1 DEF WInv, Placed, PlacedAt, DetachedFor,
     Silent, Calling
<1>10. ReceiverDrained' /\ ReceiverTold'
  BY Zenon, <1>1, <1>2 DEF WInv, Placed,
     PlacedAt, ReceiverDrained, ReceiverTold, DetachedFor, Silent, Reading, Waiting
<1> QED
  BY Zenon, <1>3, <1>4, <1>5, <1>6, <1>7, <1>8, <1>9, <1>10 DEF WInv

\* Units copied to the ring are not published yet.
LEMMA WakesWriteChunk ==
    ASSUME Types, WInv, WriteChunk
    PROVE  WInv'
<1>1. /\ worker \in {"sender", "receiver"}
      /\ pc["sender"] = "act" /\ pc'["sender"] \in {"written", "space"}
      /\ pc'["receiver"] = pc["receiver"]
      /\ UNCHANGED <<worker, early, bgwStatus, mq_detached, mq_bytes_read>>
      /\ UNCHANGED <<mq_bytes_written, rb, written, mqh_consume_pending, latch>>
      /\ UNCHANGED <<mq_set, mqh_counterparty_attached, seen>>
  BY Zenon DEF Types, WInv, WTypes, Proc, life, counters, sending, receiving,
     progress, Calling, Resting, Leaving, Reading, Waiting, WriteChunk, Goto
<1>2. TooLittle' = TooLittle
  BY Zenon DEF Types, Proc, WriteChunk, receiving,
     counters, TooLittle, Enough, LeftToReceive, read
<1>3. WTypes'
  BY Zenon, <1>1 DEF Types, WInv, WTypes, Proc, life, counters,
     sending, receiving, progress, Calling, Resting, Leaving, Reading, Waiting, WriteChunk,
     Goto
<1>4. Placed'
  BY Zenon, <1>1 DEF WInv, Placed, PlacedAt, Calling, Reading,
     Waiting
<1>5. ToldOfDetach'
  BY Zenon, <1>1 DEF WInv, Placed, PlacedAt, ToldOfDetach,
     DetachTold, PassedDetached
<1>6. ToldOfWorker' /\ ToldOfPeer'
  BY Zenon, <1>1 DEF WInv, Placed, PlacedAt,
     ToldOfWorker, PassedStatus, ToldOfPeer, PeerTold, PassedSet, Reading, Waiting
<1>7. ToldOfSpace' /\ ToldOfData'
  BY Zenon, <1>1 DEF WInv, Placed, PlacedAt,
     ToldOfSpace, ToldOfData, Calling, Reading, Waiting
<1>8. SenderFilled'
  BY Zenon, <1>1 DEF WInv, SenderFilled, Placed, PlacedAt,
     Waiting
<1>9. DetachedFor'
  BY Zenon, <1>1 DEF WInv, Placed, PlacedAt, DetachedFor,
     Silent, Calling
<1>10. ReceiverDrained' /\ ReceiverTold'
  BY Zenon, <1>1, <1>2 DEF WInv, Placed,
     PlacedAt, ReceiverDrained, ReceiverTold, DetachedFor, Silent, Reading, Waiting
<1> QED
  BY Zenon, <1>3, <1>4, <1>5, <1>6, <1>7, <1>8, <1>9, <1>10 DEF WInv

\* What is published at the end of shm_mq_sendv is followed by a notification.
LEMMA WakesFinishSend ==
    ASSUME Types, WInv, FinishSend
    PROVE  WInv'
<1>1. /\ worker \in {"sender", "receiver"}
      /\ \/ /\ pc["sender"] = "written" /\ pc'["sender"] \in {"idle", "whom"}
            /\ seen'["sender"] = seen["sender"]
            /\ mqh_counterparty_attached'["sender"] = mqh_counterparty_attached["sender"]
            /\ UNCHANGED <<mq_bytes_written, mqh_send_pending>>
         \/ /\ pc["sender"] = "whom" /\ pc'["sender"] = "publish"
            /\ seen'["sender"] = mq_set["receiver"]
            /\ mqh_counterparty_attached'["sender"] = mq_set["receiver"]
            /\ UNCHANGED <<mq_bytes_written, mqh_send_pending>>
         \/ /\ pc["sender"] = "publish" /\ pc'["sender"] = "idle"
            /\ seen'["sender"] = seen["sender"]
            /\ mqh_counterparty_attached'["sender"] = mqh_counterparty_attached["sender"]
            /\ UNCHANGED <<mq_bytes_written, mqh_send_pending>>
         \/ /\ pc["sender"] = "publish"
            /\ pc'["sender"] = IF seen["sender"] THEN "flush" ELSE "idle"
            /\ seen'["sender"] = seen["sender"]
            /\ mqh_counterparty_attached'["sender"] = mqh_counterparty_attached["sender"]
      /\ pc'["receiver"] = pc["receiver"]
      /\ mqh_counterparty_attached'["receiver"] = mqh_counterparty_attached["receiver"]
      /\ seen'["receiver"] = seen["receiver"]
      /\ UNCHANGED <<worker, early, bgwStatus, mq_detached, mq_bytes_read, rb>>
      /\ UNCHANGED <<written, mqh_consume_pending, latch, mq_set>>
  BY Zenon DEF Types, WInv, WTypes, Proc, life, counters, sending, receiving,
     progress, Calling, Resting, Leaving, Reading, Waiting, FinishSend, Goto,
     shm_mq_inc_bytes_written
<1>2. TooLittle' = TooLittle
  BY Zenon DEF Types, Proc, life, counters, sending,
     receiving, progress, FinishSend, TooLittle, Enough, LeftToReceive, read
<1>3. WTypes'
  BY SMTT(40), Z3T(40), <1>1 DEF Types, WInv, WTypes, Proc, life, counters,
     sending, receiving, progress, Calling, Resting, Leaving, Reading, Waiting, FinishSend,
     Goto, shm_mq_inc_bytes_written
<1>4. Placed'
  BY ZenonT(40), <1>1 DEF WInv, Placed, PlacedAt, Calling, Reading,
     Waiting
<1>5. ToldOfDetach'
  BY Zenon, <1>1 DEF WInv, Placed, PlacedAt, ToldOfDetach,
     DetachTold, PassedDetached
<1>6. ToldOfWorker' /\ ToldOfPeer'
  BY Zenon, <1>1 DEF WInv, Placed, PlacedAt,
     ToldOfWorker, PassedStatus, ToldOfPeer, PeerTold, PassedSet, Reading, Waiting
<1>7. ToldOfSpace' /\ ToldOfData'
  BY Zenon, <1>1 DEF WInv, Placed, PlacedAt,
     ToldOfSpace, ToldOfData, Calling, Reading, Waiting
<1>8. SenderFilled'
  <2>1. pc'["sender"] \notin {"full", "sleep", "retry"}
    BY Zenon, <1>1
  <2> QED
    BY Zenon, <2>1 DEF SenderFilled
<1>9. DetachedFor'
  BY Zenon, <1>1 DEF WInv, Placed, PlacedAt, DetachedFor,
     Silent, Calling
<1>10. ReceiverDrained' /\ ReceiverTold'
  BY Zenon, <1>1, <1>2 DEF WInv, Placed,
     PlacedAt, ReceiverDrained, ReceiverTold, DetachedFor, Silent, Reading, Waiting
<1> QED
  BY Zenon, <1>3, <1>4, <1>5, <1>6, <1>7, <1>8, <1>9, <1>10 DEF WInv

\* shm_mq_detach publishes what is pending and goes on to shm_mq_detach_internal.
LEMMA WakesDetach ==
    ASSUME NEW p \in Proc, Types, WInv, shm_mq_detach(p)
    PROVE  WInv'
<1>1. /\ worker \in {"sender", "receiver"}
      /\ \/ /\ p = "sender" /\ pc'["receiver"] = pc["receiver"]
            /\ pc["sender"] \in {"idle", "retry"} /\ pc'["sender"] = "detach"
            /\ mq_bytes_written' = mq_bytes_written + mqh_send_pending
            /\ mqh_send_pending' = 0
         \/ /\ p = "receiver" /\ pc'["sender"] = pc["sender"]
            /\ pc["receiver"] \in {"idle", "told"} /\ pc'["receiver"] = "detach"
            /\ UNCHANGED <<mq_bytes_written, mqh_send_pending>>
      /\ UNCHANGED <<worker, early, bgwStatus, mq_detached, mq_bytes_read, rb>>
      /\ UNCHANGED <<written, mqh_consume_pending, latch, mq_set>>
      /\ UNCHANGED <<mqh_counterparty_attached, seen>>
  <2>1. p = "sender" \/ p = "receiver"
    BY Zenon DEF Proc
  <2>2. CASE p = "sender"
    BY Zenon, <2>1, <2>2 DEF Types, WInv, WTypes, Proc, life, counters, sending,
       receiving, progress, Calling, Resting, Leaving, Reading, Waiting, shm_mq_detach, Goto,
       shm_mq_inc_bytes_written
  <2>3. CASE p = "receiver"
    BY Zenon, <2>1, <2>3 DEF Types, WInv, WTypes, Proc, life, counters, sending,
       receiving, progress, Calling, Resting, Leaving, Reading, Waiting, shm_mq_detach, Goto,
       shm_mq_inc_bytes_written
  <2> QED
    BY Zenon, <2>1, <2>2, <2>3
<1>2. TooLittle' = TooLittle
  BY Zenon DEF Types, Proc, life, counters, sending,
     receiving, progress, shm_mq_detach, TooLittle, Enough, LeftToReceive, read
<1>3. WTypes'
  BY Zenon, <1>1 DEF Types, WInv, WTypes, Proc, life, counters,
     sending, receiving, progress, Calling, Resting, Leaving, Reading, Waiting, shm_mq_detach,
     Goto, shm_mq_inc_bytes_written
<1>4. Placed'
  BY ZenonT(40), <1>1 DEF WInv, Placed, PlacedAt, Calling, Reading,
     Waiting
<1>5. ToldOfDetach'
  BY Zenon, <1>1 DEF WInv, Placed, PlacedAt, ToldOfDetach,
     DetachTold, PassedDetached
<1>6. ToldOfWorker' /\ ToldOfPeer'
  BY Zenon, <1>1 DEF WInv, Placed, PlacedAt,
     ToldOfWorker, PassedStatus, ToldOfPeer, PeerTold, PassedSet, Reading, Waiting
<1>7. ToldOfSpace' /\ ToldOfData'
  BY Zenon, <1>1 DEF WInv, Placed, PlacedAt,
     ToldOfSpace, ToldOfData, Calling, Reading, Waiting
<1>8. SenderFilled'
  BY Zenon, <1>1 DEF WInv, SenderFilled, Placed, PlacedAt,
     Waiting
<1>9. DetachedFor'
  BY SMTT(40), Z3T(40), <1>1 DEF WInv, Placed, PlacedAt, DetachedFor,
     Silent, Calling
<1>10. ReceiverDrained' /\ ReceiverTold'
  BY SMTT(40), Z3T(40), <1>1, <1>2 DEF WInv, Placed,
     PlacedAt, ReceiverDrained, ReceiverTold, DetachedFor, Silent, Reading, Waiting
<1> QED
  BY Zenon, <1>3, <1>4, <1>5, <1>6, <1>7, <1>8, <1>9, <1>10 DEF WInv

\* A call of shm_mq_receive has yet to look at everything.
LEMMA WakesReceive ==
    ASSUME Types, WInv, shm_mq_receive
    PROVE  WInv'
<1>1. /\ worker \in {"sender", "receiver"}
      /\ pc["receiver"] = "idle"
      /\ \/ mqh_counterparty_attached["receiver"] /\ pc'["receiver"] = "consume"
         \/ ~mqh_counterparty_attached["receiver"] /\ pc'["receiver"] \in {"g_detached", "w_ptr"}
      /\ pc'["sender"] = pc["sender"]
      /\ UNCHANGED <<worker, early, bgwStatus, mq_detached, mq_bytes_read>>
      /\ UNCHANGED <<mq_bytes_written, mqh_send_pending, rb, written>>
      /\ UNCHANGED <<mqh_consume_pending, latch, mq_set>>
      /\ UNCHANGED <<mqh_counterparty_attached, seen>>
  BY Zenon DEF Types, WInv, WTypes, Proc, life, counters, sending, receiving,
     progress, Calling, Resting, Leaving, Reading, Waiting, shm_mq_receive, Goto
<1>2. TooLittle' = TooLittle
  BY Zenon DEF Types, Proc, life, counters, sending,
     receiving, progress, shm_mq_receive, TooLittle, Enough, LeftToReceive, read
<1>3. WTypes'
  BY Zenon, <1>1 DEF Types, WInv, WTypes, Proc, life, counters,
     sending, receiving, progress, Calling, Resting, Leaving, Reading, Waiting, shm_mq_receive,
     Goto
<1>4. Placed'
  BY Zenon, <1>1 DEF WInv, Placed, PlacedAt, Calling, Reading,
     Waiting
<1>5. ToldOfDetach'
  BY Zenon, <1>1 DEF WInv, Placed, PlacedAt, ToldOfDetach,
     DetachTold, PassedDetached
<1>6. ToldOfWorker' /\ ToldOfPeer'
  BY Zenon, <1>1 DEF WInv, Placed, PlacedAt,
     ToldOfWorker, PassedStatus, ToldOfPeer, PeerTold, PassedSet, Reading, Waiting
<1>7. ToldOfSpace' /\ ToldOfData'
  BY Zenon, <1>1 DEF WInv, Placed, PlacedAt,
     ToldOfSpace, ToldOfData, Calling, Reading, Waiting
<1>8. SenderFilled'
  BY Zenon, <1>1 DEF WInv, SenderFilled, Placed, PlacedAt,
     Waiting
<1>9. DetachedFor'
  BY Zenon, <1>1 DEF WInv, Placed, PlacedAt, DetachedFor,
     Silent, Calling
<1>10. ReceiverDrained' /\ ReceiverTold'
  BY Zenon, <1>1, <1>2 DEF WInv, Placed,
     PlacedAt, ReceiverDrained, ReceiverTold, DetachedFor, Silent, Reading, Waiting
<1> QED
  BY Zenon, <1>3, <1>4, <1>5, <1>6, <1>7, <1>8, <1>9, <1>10 DEF WInv

\* Giving back what was consumed is followed by a notification of the sender.
LEMMA WakesGiveBack ==
    ASSUME Types, WInv, GiveBack
    PROVE  WInv'
<1>1. /\ worker \in {"sender", "receiver"}
      /\ \/ pc["receiver"] = "consume" /\ pc'["receiver"] = "consumed"
         \/ pc["receiver"] = "consume" /\ pc'["receiver"] = "available" /\ UNCHANGED mq_bytes_read
         \/ /\ pc["receiver"] = "reclaim" /\ pc'["receiver"] = "reclaimed"
            /\ mqh_consume_pending' = 0
      /\ pc'["sender"] = pc["sender"]
      /\ UNCHANGED <<worker, early, bgwStatus, mq_detached, mq_bytes_written>>
      /\ UNCHANGED <<mqh_send_pending, rb, written, latch, mq_set>>
      /\ UNCHANGED <<mqh_counterparty_attached, seen>>
  BY Zenon DEF Types, WInv, WTypes, Proc, life, counters, sending, receiving,
     progress, Calling, Resting, Leaving, Reading, Waiting, GiveBack, Goto,
     shm_mq_inc_bytes_read
<1>2. TooLittle' = TooLittle
  BY SMTT(40), Z3T(40) DEF Types, GiveBack, shm_mq_inc_bytes_read, TooLittle, Enough,
     LeftToReceive, read, progress
<1>3. WTypes'
  BY Zenon, <1>1 DEF Types, WInv, WTypes, Proc, life, counters,
     sending, receiving, progress, Calling, Resting, Leaving, Reading, Waiting, GiveBack, Goto,
     shm_mq_inc_bytes_read
<1>4. Placed'
  BY Zenon, <1>1 DEF WInv, Placed, PlacedAt, Calling, Reading,
     Waiting
<1>5. ToldOfDetach'
  BY Zenon, <1>1 DEF WInv, Placed, PlacedAt, ToldOfDetach,
     DetachTold, PassedDetached
<1>6. ToldOfWorker' /\ ToldOfPeer'
  BY Zenon, <1>1 DEF WInv, Placed, PlacedAt,
     ToldOfWorker, PassedStatus, ToldOfPeer, PeerTold, PassedSet, Reading, Waiting
<1>7. ToldOfSpace' /\ ToldOfData'
  BY Zenon, <1>1 DEF WInv, Placed, PlacedAt,
     ToldOfSpace, ToldOfData, Calling, Reading, Waiting
<1>8. SenderFilled'
  BY Zenon, <1>1 DEF WInv, SenderFilled, Placed, PlacedAt,
     Waiting
<1>9. DetachedFor'
  BY Zenon, <1>1 DEF WInv, Placed, PlacedAt, DetachedFor,
     Silent, Calling
<1>10. ReceiverDrained' /\ ReceiverTold'
  BY Zenon, <1>1, <1>2 DEF WInv, Placed,
     PlacedAt, ReceiverDrained, ReceiverTold, DetachedFor, Silent, Reading, Waiting
<1> QED
  BY Zenon, <1>3, <1>4, <1>5, <1>6, <1>7, <1>8, <1>9, <1>10 DEF WInv

\* The receiver waits, or is told of the end, only when it has too little to go on.
LEMMA WakesLookForData ==
    ASSUME Types, WInv, LookForData
    PROVE  WInv'
<1>1. /\ worker \in {"sender", "receiver"}
      /\ \/ /\ pc["receiver"] = "available" /\ written' = mq_bytes_written
            /\ \/ pc'["receiver"] = "take"
               \/ pc'["receiver"] = "nodata" /\ TooLittle'
         \/ /\ pc["receiver"] = "nodata" /\ written' = written /\ TooLittle' = TooLittle
            /\ \/ mq_detached /\ pc'["receiver"] = "recheck"
               \/ ~mq_detached /\ pc'["receiver"] = "reclaim"
               \/ /\ ~mq_detached /\ mqh_consume_pending = 0
                  /\ pc'["receiver"] \in {"retry", "sleep"}
         \/ /\ pc["receiver"] = "recheck" /\ written' = written /\ TooLittle' = TooLittle
            /\ pc'["receiver"] = IF written # mq_bytes_written THEN "available" ELSE "told"
      /\ pc'["sender"] = pc["sender"]
      /\ UNCHANGED <<worker, early, bgwStatus, mq_detached, mq_bytes_read>>
      /\ UNCHANGED <<mq_bytes_written, mqh_send_pending, rb, mqh_consume_pending>>
      /\ UNCHANGED <<latch, mq_set, mqh_counterparty_attached, seen>>
  <2>1. /\ (written - read)' = written' - read
        /\ \A u : Enough(u)' <=> Enough(u)
    BY Zenon DEF LookForData, Enough, LeftToReceive, read, progress, counters
  <2> QED
    BY SMTT(40), Z3T(40), <2>1 DEF Types, WInv, WTypes, Proc, life, counters, sending, receiving,
       progress, Calling, Resting, Leaving, Reading, Waiting, LookForData, Goto, MustWait,
       WrittenMeanwhile, TooLittle
<1>3. WTypes'
  BY Zenon, <1>1 DEF Types, WInv, WTypes, Proc, life, counters,
     sending, receiving, progress, Calling, Resting, Leaving, Reading, Waiting, LookForData,
     Goto, MustWait, WrittenMeanwhile
<1>4. Placed'
  BY SMTT(40), Z3T(40), <1>1 DEF WInv, Placed, PlacedAt, Calling, Reading,
     Waiting
<1>5. ToldOfDetach'
  BY Zenon, <1>1 DEF WInv, Placed, PlacedAt, ToldOfDetach,
     DetachTold, PassedDetached
<1>6. ToldOfWorker' /\ ToldOfPeer'
  BY Zenon, <1>1 DEF WInv, Placed, PlacedAt,
     ToldOfWorker, PassedStatus, ToldOfPeer, PeerTold, PassedSet, Reading, Waiting
<1>7. ToldOfSpace' /\ ToldOfData'
  BY Zenon, <1>1 DEF WInv, Placed, PlacedAt,
     ToldOfSpace, ToldOfData, Calling, Reading, Waiting
<1>8. SenderFilled'
  BY Zenon, <1>1 DEF WInv, SenderFilled, Placed, PlacedAt,
     Waiting
<1>9. DetachedFor'
  BY Zenon, <1>1 DEF WInv, Placed, PlacedAt, DetachedFor,
     Silent, Calling
<1>10. ReceiverDrained' /\ ReceiverTold'
  BY SMTT(40), Z3T(40), <1>1 DEF WInv, Placed,
     PlacedAt, ReceiverDrained, ReceiverTold, DetachedFor, Silent, Reading, Waiting
<1> QED
  BY Zenon, <1>3, <1>4, <1>5, <1>6, <1>7, <1>8, <1>9, <1>10 DEF WInv

\* After the length word the receiver looks again, or returns.
LEMMA WakesTakeLength ==
    ASSUME Types, WInv, TakeLength
    PROVE  WInv'
<1>1. /\ worker \in {"sender", "receiver"}
      /\ pc["receiver"] = "take" /\ pc'["receiver"] \in {"idle", "available"}
      /\ pc'["sender"] = pc["sender"]
      /\ UNCHANGED <<worker, early, bgwStatus, mq_detached, mq_bytes_read>>
      /\ UNCHANGED <<mq_bytes_written, mqh_send_pending, rb, written, latch>>
      /\ UNCHANGED <<mq_set, mqh_counterparty_attached, seen>>
  BY Zenon DEF Types, WInv, WTypes, Proc, life, counters, sending, receiving,
     progress, Calling, Resting, Leaving, Reading, Waiting, TakeLength, Goto, Return
<1>3. WTypes'
  BY Zenon, <1>1 DEF Types, WInv, WTypes, Proc, life, counters,
     sending, receiving, progress, Calling, Resting, Leaving, Reading, Waiting, TakeLength,
     Goto, Return
<1>4. Placed'
  BY Zenon, <1>1 DEF WInv, Placed, PlacedAt, Calling, Reading,
     Waiting
<1>5. ToldOfDetach'
  BY Zenon, <1>1 DEF WInv, Placed, PlacedAt, ToldOfDetach,
     DetachTold, PassedDetached
<1>6. ToldOfWorker' /\ ToldOfPeer'
  BY Zenon, <1>1 DEF WInv, Placed, PlacedAt,
     ToldOfWorker, PassedStatus, ToldOfPeer, PeerTold, PassedSet, Reading, Waiting
<1>7. ToldOfSpace' /\ ToldOfData'
  BY Zenon, <1>1 DEF WInv, Placed, PlacedAt,
     ToldOfSpace, ToldOfData, Calling, Reading, Waiting
<1>8. SenderFilled'
  BY Zenon, <1>1 DEF WInv, SenderFilled, Placed, PlacedAt,
     Waiting
<1>9. DetachedFor'
  BY Zenon, <1>1 DEF WInv, Placed, PlacedAt, DetachedFor,
     Silent, Calling
<1>10. ReceiverDrained' /\ ReceiverTold'
  BY Zenon, <1>1 DEF WInv, Placed,
     PlacedAt, ReceiverDrained, ReceiverTold, DetachedFor, Silent, Reading, Waiting
<1> QED
  BY Zenon, <1>3, <1>4, <1>5, <1>6, <1>7, <1>8, <1>9, <1>10 DEF WInv

\* After a piece of the data the receiver looks again, or returns.
LEMMA WakesTakeData ==
    ASSUME Types, WInv, TakeData
    PROVE  WInv'
<1>1. /\ worker \in {"sender", "receiver"}
      /\ pc["receiver"] = "take" /\ pc'["receiver"] \in {"idle", "available"}
      /\ pc'["sender"] = pc["sender"]
      /\ UNCHANGED <<worker, early, bgwStatus, mq_detached, mq_bytes_read>>
      /\ UNCHANGED <<mq_bytes_written, mqh_send_pending, rb, written, latch>>
      /\ UNCHANGED <<mq_set, mqh_counterparty_attached, seen>>
  BY Zenon DEF Types, WInv, WTypes, Proc, life, counters, sending, receiving,
     progress, Calling, Resting, Leaving, Reading, Waiting, TakeData, Goto, Return
<1>3. WTypes'
  BY Zenon, <1>1 DEF Types, WInv, WTypes, Proc, life, counters,
     sending, receiving, progress, Calling, Resting, Leaving, Reading, Waiting, TakeData, Goto,
     Return
<1>4. Placed'
  BY SMTT(40), Z3T(40), <1>1 DEF WInv, Placed, PlacedAt, Calling, Reading,
     Waiting
<1>5. ToldOfDetach'
  BY SMTT(40), Z3T(40), <1>1 DEF WInv, Placed, PlacedAt, ToldOfDetach,
     DetachTold, PassedDetached
<1>6. ToldOfWorker' /\ ToldOfPeer'
  BY SMTT(40), Z3T(40), <1>1 DEF WInv, Placed, PlacedAt,
     ToldOfWorker, PassedStatus, ToldOfPeer, PeerTold, PassedSet, Reading, Waiting
<1>7. ToldOfSpace' /\ ToldOfData'
  BY SMTT(40), Z3T(40), <1>1 DEF WInv, Placed, PlacedAt,
     ToldOfSpace, ToldOfData, Calling, Reading, Waiting
<1>8. SenderFilled'
  BY SMTT(40), Z3T(40), <1>1 DEF WInv, SenderFilled, Placed, PlacedAt,
     Waiting
<1>9. DetachedFor'
  BY SMTT(40), Z3T(40), <1>1 DEF WInv, Placed, PlacedAt, DetachedFor,
     Silent, Calling
<1>10. ReceiverDrained' /\ ReceiverTold'
  BY SMTT(40), Z3T(40), <1>1 DEF WInv, Placed,
     PlacedAt, ReceiverDrained, ReceiverTold, DetachedFor, Silent, Reading, Waiting
<1> QED
  BY Zenon, <1>3, <1>4, <1>5, <1>6, <1>7, <1>8, <1>9, <1>10 DEF WInv

-----------------------------------------------------------------------------
\* Arithmetic of the ring.
LEMMA OffsetRange == ASSUME NEW n \in Nat PROVE Offset(n) \in 0 .. RingSize - 1
  BY SMTT(40), Z3T(40), MqAssumption DEF Offset

\* A position is so many whole turns of the ring and an offset.
LEMMA OffsetQuotient ==
    ASSUME NEW n \in Nat
    PROVE  \E q \in Nat : RingSize * q \in Nat /\ Offset(n) = n - RingSize * q
<1>1. Offset(n) = n - RingSize * (n \div RingSize)
  BY SMTT(40), Z3T(40), MqAssumption DEF Offset
<1>2. n \div RingSize \in Nat
  BY SMTT(40), Z3T(40), MqAssumption
<1>3. RingSize * (n \div RingSize) \in Nat
  BY SMTT(40), Z3T(40), MqAssumption, <1>2
<1> QED
  BY <1>1, <1>2, <1>3

\* The turns and the offset are determined by the position.
LEMMA OffsetUnique ==
    ASSUME NEW n \in Nat, NEW q \in Nat, NEW r \in Nat, r < RingSize, n = RingSize * q + r
    PROVE  Offset(n) = r
  BY SMTT(40), Z3T(40), MqAssumption DEF Offset

\* Up to the end of the ring, units that follow each other lie next to each other.
LEMMA OffsetNext ==
    ASSUME NEW n \in Nat, NEW i \in Nat, Offset(n) + i < RingSize
    PROVE  Offset(n + i) = Offset(n) + i
<1>1. PICK q \in Nat : RingSize * q \in Nat /\ Offset(n) = n - RingSize * q
  BY OffsetQuotient
<1>2. Offset(n) + i \in Nat /\ n + i \in Nat
  BY SMTT(40), Z3T(40), OffsetRange, MqAssumption
<1>3. n + i = RingSize * q + (Offset(n) + i)
  BY SMTT(40), Z3T(40), <1>1, <1>2
<1> QED
  BY Zenon, <1>2, <1>3, OffsetUnique

\* Less than one turn is not a whole number of turns.
LEMMA RingMultiples ==
    ASSUME NEW k \in Nat, NEW l \in Nat, k < l
    PROVE  RingSize * k + RingSize <= RingSize * l
<1>1. PICK d \in Nat : l = k + 1 + d
  <2>1. l - k - 1 \in Nat /\ l = k + 1 + (l - k - 1)
    BY SMTT(40), Z3T(40)
  <2> QED
    BY <2>1
<1>2. RingSize * l = RingSize * k + RingSize + RingSize * d
  BY SMTT(40), Z3T(40), <1>1, MqAssumption
<1>3. RingSize * d \in Nat /\ RingSize * k \in Nat
  BY SMTT(40), Z3T(40), MqAssumption
<1> QED
  BY SMTT(40), Z3T(40), <1>2, <1>3, MqAssumption

\* Units less than a ring apart do not share a place.
LEMMA OffsetDiffers ==
    ASSUME NEW a \in Nat, NEW b \in Nat, a < b, b - a < RingSize
    PROVE  Offset(a) # Offset(b)
<1> SUFFICES ASSUME Offset(a) = Offset(b) PROVE FALSE
  OBVIOUS
<1>1. PICK qa \in Nat : RingSize * qa \in Nat /\ Offset(a) = a - RingSize * qa
  BY Zenon, OffsetQuotient
<1>2. PICK qb \in Nat : RingSize * qb \in Nat /\ Offset(b) = b - RingSize * qb
  BY Zenon, OffsetQuotient
<1>3. qa < qb => RingSize * qa + RingSize <= RingSize * qb
  BY Zenon, RingMultiples
<1>4. qb < qa => RingSize * qb + RingSize <= RingSize * qa
  BY Zenon, RingMultiples
<1>5. qa = qb \/ qa < qb \/ qb < qa
  BY SMTT(40), Z3T(40)
<1>6. a - RingSize * qa = b - RingSize * qb
  BY Zenon, <1>1, <1>2
<1> QED
  BY SMTT(40), Z3T(40), <1>1, <1>2, <1>3, <1>4, <1>5, <1>6, MqAssumption

\* Sequences that grow at the end.
LEMMA Extend ==
    ASSUME NEW S, NEW s \in Seq(S), NEW k \in Nat, NEW t \in [1 .. k -> S]
    PROVE  /\ s \o t \in Seq(S)
           /\ Len(s \o t) = Len(s) + k
           /\ \A i \in 1 .. Len(s) : (s \o t)[i] = s[i]
           /\ \A i \in 1 .. k : (s \o t)[Len(s) + i] = t[i]
<1>1. t \in Seq(S) /\ Len(t) = k
  BY SMTT(40), Z3T(40)
<1> QED
  BY SMTT(40), Z3T(40), <1>1

\* What a unit of a message says.
LEMMA UnitFields ==
    ASSUME NEW m \in Nat, NEW i \in Nat, NEW l \in Nat
    PROVE  /\ Unit(m, i, l) \in Units
           /\ Unit(m, i, l).msg = m
           /\ Unit(m, i, l).pos = i
           /\ i = 0 => Unit(m, i, l).len = l
  BY Zenon DEF Unit, Units

-----------------------------------------------------------------------------
\* The queue starts empty, with nothing written.
LEMMA InvInit == Init => IInv
<1> SUFFICES ASSUME Init PROVE IInv
  OBVIOUS
<1> USE DEF Init
<1>0. "sender" \in Proc /\ "receiver" \in Proc
  BY Zenon DEF Proc
<1>1. Types
  <2>1. mq_ring \in [0 .. RingSize - 1 -> Units]
    BY Zenon, UnitFields DEF NoUnit
  <2>2. pc \in [Proc -> Labels] /\ pc["sender"] \in Resting
    BY Zenon, <1>0 DEF Labels, Resting
  <2>3. /\ stream \in Seq(Units) /\ sent \in Seq(Nat) /\ mqh_buffer \in Seq(Units)
        /\ received \in Seq(Seq(Units))
    BY SMTT(40), Z3T(40)
  <2>4. /\ mqh_length_word_complete \in [Proc -> BOOLEAN] /\ mqh_partial_bytes \in [Proc -> Nat]
        /\ mq_detached \in BOOLEAN
    BY Zenon
  <2>5. datap \in Int
    BY SMTT(40), Z3T(40) DEF NoPointer
  <2> QED
    BY Zenon, <2>1, <2>2, <2>3, <2>4, <2>5 DEF Types
<1>2. Counts
  BY SMTT(40), Z3T(40), <1>0, MqAssumption DEF Counts, wb, read
<1>3. RingIntact
  BY SMTT(40), Z3T(40) DEF RingIntact, wb
<1>4. Runs
  BY SMTT(40), Z3T(40) DEF Runs
<1>5. SenderAt
  BY Zenon, <1>0 DEF SenderAt, SenderInStep, Calling, Resting, Boundary
<1>6. ReceiverAt
  BY SMTT(40), Z3T(40), <1>0 DEF ReceiverAt, Boundary, read
<1>7. Fifo
  BY SMTT(40), Z3T(40) DEF Fifo
<1>8. Held
  BY Zenon DEF Held
<1> QED
  BY Zenon, <1>1, <1>2, <1>3, <1>4, <1>5, <1>6, <1>7, <1>8 DEF IInv

\* What depends only on the stream and the messages.
LEMMA SameStream ==
    ASSUME UNCHANGED <<stream, sent>>
    PROVE  /\ \A n, m, i : Is(n, m, i)' <=> Is(n, m, i)
           /\ \A n, k : Boundary(n, k)' <=> Boundary(n, k)
           /\ Runs => Runs'
<1>1. \A n, m, i : Is(n, m, i)' <=> Is(n, m, i)
  BY Zenon DEF Is
<1>2. \A n, k : Boundary(n, k)' <=> Boundary(n, k)
  BY Zenon DEF Boundary, Is
<1>3. Runs => Runs'
  BY SMTT(40), Z3T(40) DEF Runs, Is
<1> QED
  BY Zenon, <1>1, <1>2, <1>3

-----------------------------------------------------------------------------
Holding == {"idle", "detach", "leave", "gone"}

\* A step that touches neither the counters nor the data.
LEMMA QuietStep ==
    ASSUME IInv,
           UNCHANGED <<counters, sending, receiving>>,
           pc' \in [Proc -> Labels],
           pc'["sender"] \in Calling \cup Resting \cup Leaving,
           mq_detached' \in BOOLEAN,
           mqh_length_word_complete' \in [Proc -> BOOLEAN],
           mqh_partial_bytes' \in [Proc -> Nat],
           mqh_length_word_complete'["receiver"] = mqh_length_word_complete["receiver"],
           mqh_partial_bytes'["receiver"] = mqh_partial_bytes["receiver"],
           pc["receiver"] \in Holding => pc'["receiver"] \in Holding,
           pc'["receiver"] = "take" => pc["receiver"] = "take",
           pc'["sender"] \in {"test", "act"} => pc'["sender"] = pc["sender"],
           SenderAt'
    PROVE  IInv'
<1> USE DEF counters, sending, receiving
<1>1. Types'
  BY Zenon DEF IInv, Types
<1>2. read' = read /\ wb' = wb
  BY Zenon DEF read, wb
<1>3. Counts'
  BY Zenon, <1>2 DEF IInv, Counts, Enough, LeftToReceive
<1>4. RingIntact'
  BY Zenon, <1>2 DEF IInv, RingIntact
<1>5. Runs'
  BY Zenon, SameStream DEF IInv
<1>6. ReceiverAt'
  BY Zenon, <1>2, SameStream DEF IInv, ReceiverAt
<1>7. Fifo'
  BY Zenon DEF IInv, Fifo
<1>8. Held'
  BY Zenon, <1>2 DEF IInv, Held, Holding
<1> QED
  BY Zenon, <1>1, <1>3, <1>4, <1>5, <1>6, <1>7, <1>8 DEF IInv

\* How the sender moves without writing.
LEMMA SenderKeeps ==
    ASSUME SenderAt,
           UNCHANGED <<stream, sent, nbytes>>,
           mq_detached => mq_detached',
           \/ /\ mqh_length_word_complete'["sender"] = mqh_length_word_complete["sender"]
              /\ mqh_partial_bytes'["sender"] = mqh_partial_bytes["sender"]
              /\ \/ pc'["sender"] = pc["sender"]
                 \/ /\ pc["sender"] \in Calling \ {"written"}
                    /\ pc'["sender"] \in Calling \ {"written", "act"}
                 \/ pc["sender"] \in Resting /\ pc'["sender"] \in Resting
           \/ pc'["sender"] \in Leaving
           \/ mq_detached' /\ pc'["sender"] \notin {"act", "written"}
    PROVE  SenderAt'
<1>1. Len(stream)' = Len(stream) /\ Len(sent)' = Len(sent) /\ sent' = sent /\ nbytes' = nbytes
  BY Zenon
<1>2. CASE mq_detached' /\ pc'["sender"] \notin {"act", "written"}
  BY Zenon, <1>2 DEF SenderAt
<1>3. CASE pc'["sender"] \in Leaving
  BY Zenon, <1>3 DEF SenderAt, SenderInStep, Calling, Resting, Leaving
<1>4. CASE /\ mqh_length_word_complete'["sender"] = mqh_length_word_complete["sender"]
           /\ mqh_partial_bytes'["sender"] = mqh_partial_bytes["sender"]
           /\ \/ pc'["sender"] = pc["sender"]
              \/ /\ pc["sender"] \in Calling \ {"written"}
                 /\ pc'["sender"] \in Calling \ {"written", "act"}
              \/ pc["sender"] \in Resting /\ pc'["sender"] \in Resting
  <2>1. CASE ~SenderInStep
    BY Zenon, <2>1, <1>4 DEF SenderAt, Calling, Resting
  <2>2. CASE SenderInStep
    <3>1. SenderInStep'
      BY Zenon, <2>2, <1>4, <1>1, SameStream DEF SenderInStep, Calling, Resting
    <3> QED
      BY Zenon, <3>1 DEF SenderAt
  <2> QED
    BY Zenon, <2>1, <2>2
<1> QED
  BY Zenon, <1>2, <1>3, <1>4

\* Steps that change neither where a process is nor how far.
LEMMA KeepsLatches ==
    ASSUME IInv, BackgroundWorker \/ \E p \in Proc : UnrelatedLatch(p)
    PROVE  IInv'
<1>1. UNCHANGED <<counters, sending, receiving, pc, mq_detached, progress>>
  BY Zenon DEF BackgroundWorker, UnrelatedLatch
<1>2. SenderAt'
  BY Zenon, <1>1, SenderKeeps DEF IInv, sending, progress
<1> QED
  BY Zenon, <1>1, <1>2, QuietStep DEF IInv, Types, progress

SenderMoves(from, to) ==
    \/ from \in Calling \ {"written"} /\ to \in Calling \ {"written", "test", "act"}
    \/ from \in Resting /\ to \in Resting
    \/ to \in Leaving

\* One process goes from one label to another.
LEMMA Moves ==
    ASSUME IInv,
           UNCHANGED <<counters, sending, receiving, progress>>,
           mq_detached' \in BOOLEAN,
           mq_detached => mq_detached',
           NEW p \in Proc, NEW l \in Labels, pc' = [pc EXCEPT ![p] = l],
           p = "sender" => SenderMoves(pc[p], l),
           p = "receiver" => l # "take" /\ (pc[p] \in Holding => l \in Holding)
    PROVE  IInv'
<1>1. /\ pc \in [Proc -> Labels]
      /\ pc["sender"] \in Calling \cup Resting \cup Leaving
      /\ SenderAt
      /\ mq_detached \in BOOLEAN
      /\ mqh_length_word_complete \in [Proc -> BOOLEAN]
      /\ mqh_partial_bytes \in [Proc -> Nat]
  BY Zenon DEF IInv, Types
<1>2. pc' \in [Proc -> Labels]
  BY Zenon, <1>1
<1>3. CASE p = "sender"
  <2>1. pc'["receiver"] = pc["receiver"] /\ pc'["sender"] = l
    BY Zenon, <1>1, <1>3, Parties
  <2>2. SenderAt'
    BY Zenon, <1>1, <1>3, <2>1, SenderKeeps DEF sending, progress, SenderMoves
  <2>3. l \in Calling \cup Resting \cup Leaving /\ l \notin {"test", "act"}
    BY Zenon, <1>3, <1>1 DEF Calling, Resting, Leaving, SenderMoves
  <2> QED
    BY Zenon, <1>1, <1>2, <2>1, <2>2, <2>3, QuietStep DEF progress
<1>4. CASE p = "receiver"
  <2>1. pc'["sender"] = pc["sender"] /\ pc'["receiver"] = l
    BY Zenon, <1>1, <1>4, Parties
  <2>2. SenderAt'
    BY Zenon, <1>1, <2>1, SenderKeeps DEF sending, progress
  <2> QED
    BY Zenon, <1>1, <1>2, <1>4, <2>1, <2>2, QuietStep DEF progress
<1> QED
  BY Zenon, <1>3, <1>4, Parties

\* Attaching and setting a latch leave counters and data alone.
LEMMA KeepsNotify ==
    ASSUME IInv, NEW p \in Proc, shm_mq_attach(p) \/ NotifyPeer(p) \/ Awake(p)
    PROVE  IInv'
<1>1. /\ UNCHANGED <<counters, sending, receiving, mq_detached, progress>>
      /\ pc \in [Proc -> Labels]
      /\ pc["sender"] \in Calling \cup Resting \cup Leaving
      /\ mq_detached \in BOOLEAN
  BY Zenon DEF IInv, Types, shm_mq_attach, NotifyPeer, Awake
<1>2. PICK l \in Labels : /\ pc' = [pc EXCEPT ![p] = l]
                          /\ \/ pc[p] = "new" /\ l \in {"notify", "idle"}
                             \/ pc[p] \in {"notify", "flush"} /\ l = "idle"
                             \/ pc[p] \in {"full", "reclaimed"} /\ l \in {"retry", "sleep"}
                             \/ pc[p] = "consumed" /\ l = "available"
                             \/ pc[p] = "leave" /\ l = "gone"
                             \/ pc[p] = "w_sleep" /\ l = "w_ptr"
                             \/ pc[p] \in {"sleep", "retry"} /\ l = "space" /\ p = "sender"
                             \/ pc[p] \in {"sleep", "retry"} /\ l \in {"available", "idle"} /\ p # "sender"
  BY Zenon, <1>1 DEF shm_mq_attach, NotifyPeer, Awake, Goto, Labels
<1>3. p = "sender" => SenderMoves(pc[p], l)
  BY Zenon, <1>1, <1>2 DEF SenderMoves, Calling, Resting, Leaving
<1>4. p = "receiver" => l # "take" /\ (pc[p] \in Holding => l \in Holding)
  BY Zenon, <1>2 DEF Holding
<1> QED
  BY Zenon, <1>1, <1>2, <1>3, <1>4, Moves

\* The sender forgets how far it was, because the queue is detached.
LEMMA SenderTold ==
    ASSUME IInv, Detached("sender"), mq_detached' = TRUE,
           UNCHANGED <<counters, sending, receiving>>
    PROVE  IInv'
<1>1. /\ pc \in [Proc -> Labels]
      /\ mqh_length_word_complete \in [Proc -> BOOLEAN]
      /\ mqh_partial_bytes \in [Proc -> Nat]
      /\ SenderAt
  BY Zenon DEF IInv, Types
<1>2. /\ pc' = [pc EXCEPT !["sender"] = "idle"]
      /\ mqh_length_word_complete' = [mqh_length_word_complete EXCEPT !["sender"] = FALSE]
      /\ mqh_partial_bytes' = [mqh_partial_bytes EXCEPT !["sender"] = 0]
  BY Zenon DEF Detached, Goto
<1>3. /\ pc'["sender"] = "idle" /\ pc'["receiver"] = pc["receiver"]
      /\ mqh_length_word_complete'["receiver"] = mqh_length_word_complete["receiver"]
      /\ mqh_partial_bytes'["receiver"] = mqh_partial_bytes["receiver"]
      /\ pc' \in [Proc -> Labels]
      /\ mqh_length_word_complete' \in [Proc -> BOOLEAN]
      /\ mqh_partial_bytes' \in [Proc -> Nat]
  BY Zenon, <1>1, <1>2, Parties DEF Labels
<1>4. SenderAt'
  BY Zenon, <1>1, <1>3, SenderKeeps DEF sending
<1>5. pc'["sender"] \in Resting
  BY Zenon, <1>3 DEF Resting
<1> QED
  BY Zenon, <1>3, <1>4, <1>5, QuietStep

\* So do the two loops that wait for the counterparty.
LEMMA KeepsWait ==
    ASSUME IInv, NEW p \in Proc, shm_mq_wait_internal(p) \/ shm_mq_counterparty_gone(p)
    PROVE  IInv'
<1>1. /\ UNCHANGED <<counters, sending, receiving>>
      /\ pc \in [Proc -> Labels]
      /\ pc["sender"] \in Calling \cup Resting \cup Leaving
      /\ mq_detached \in BOOLEAN
  BY Zenon DEF IInv, Types, shm_mq_wait_internal, shm_mq_counterparty_gone
<1>2. CASE p = "sender" /\ Detached(p)
  <2>1. mq_detached' = TRUE
    BY Zenon, <1>1, <1>2 DEF shm_mq_wait_internal, shm_mq_counterparty_gone, Detached, Attached, Goto
  <2> QED
    BY Zenon, <1>1, <1>2, <2>1, SenderTold
<1>3. CASE ~(p = "sender" /\ Detached(p))
  <2>1. UNCHANGED progress /\ mq_detached' \in BOOLEAN /\ (mq_detached => mq_detached')
    BY Zenon, <1>1, <1>3 DEF shm_mq_wait_internal, shm_mq_counterparty_gone, Detached
  <2>2. PICK l \in Labels :
           /\ pc' = [pc EXCEPT ![p] = l]
           /\ pc[p] \in {"w_ptr", "w_detached", "w_status", "w_sender", "g_detached", "g_status", "g_peer"}
           /\ p = "sender" => l \in {"w_detached", "w_status", "w_sleep", "g_status", "g_peer", "retry", "space"}
           /\ l # "take"
    BY Zenon, <1>1, <1>3 DEF shm_mq_wait_internal, shm_mq_counterparty_gone, Detached, Attached, Goto, Labels
  <2>3. p = "sender" => SenderMoves(pc[p], l)
    BY Zenon, <1>1, <2>2 DEF SenderMoves, Calling, Resting, Leaving
  <2>4. p = "receiver" => l # "take" /\ (pc[p] \in Holding => l \in Holding)
    BY Zenon, <2>2 DEF Holding
  <2> QED
    BY Zenon, <1>1, <2>1, <2>2, <2>3, <2>4, Moves
<1> QED
  BY Zenon, <1>2, <1>3

\* The detach of the segment's callback only sets mq_detached.
LEMMA KeepsDetachInternal ==
    ASSUME IInv, NEW p \in Proc, shm_mq_detach_internal(p)
    PROVE  IInv'
<1>1. /\ UNCHANGED <<counters, sending, receiving, progress>>
      /\ mq_detached' = TRUE
      /\ pc \in [Proc -> Labels]
  BY Zenon DEF IInv, Types, shm_mq_detach_internal
<1>2. PICK l \in Labels : l \in {"leave", "gone"} /\ pc' = [pc EXCEPT ![p] = l]
  BY Zenon, <1>1 DEF shm_mq_detach_internal, Goto, Labels
<1>3. SenderMoves(pc[p], l) /\ l \in Holding /\ l # "take"
  BY Zenon, <1>2 DEF SenderMoves, Leaving, Holding
<1> QED
  BY Zenon, <1>1, <1>2, <1>3, Moves

\* A call: the message is the next one, and nothing of it is written yet.
LEMMA KeepsSend ==
    ASSUME IInv, shm_mq_send
    PROVE  IInv'
<1>1. /\ Types /\ Counts /\ RingIntact /\ Runs /\ SenderAt /\ ReceiverAt /\ Fifo /\ Held
  BY Zenon DEF IInv
<1>2. PICK len \in Lengths : nbytes' = len /\ sent' = Append(sent, len)
  BY Zenon DEF shm_mq_send
<1>3. len \in Nat /\ sent \in Seq(Nat)
  BY Zenon, <1>1, <1>2, MqAssumption DEF Types
<1>4. /\ sent' \in Seq(Nat)
      /\ Len(sent') = Len(sent) + 1
      /\ sent'[Len(sent) + 1] = len
      /\ \A m \in 1 .. Len(sent) : sent'[m] = sent[m]
      /\ Len(sent) \in Nat
  BY SMTT(40), Z3T(40), <1>2, <1>3
<1>5. /\ UNCHANGED <<mq_detached, counters, progress, mqh_send_pending, rb, mq_ring, stream>>
      /\ UNCHANGED receiving
      /\ pc["sender"] = "idle"
      /\ pc' = [pc EXCEPT !["sender"] = "space"]
  BY Zenon DEF shm_mq_send, Goto
<1>6. /\ pc' \in [Proc -> Labels] /\ pc'["sender"] = "space" /\ pc'["receiver"] = pc["receiver"]
  BY Zenon, <1>1, <1>5, Parties DEF Types, Labels
<1>7. read' = read /\ wb' = wb
  BY Zenon, <1>5 DEF read, wb, counters, receiving
<1>8. \A n, m, i : Is(n, m, i) => Is(n, m, i)'
  BY SMTT(40), Z3T(40), <1>4, <1>5 DEF Is
<1>9. \A n \in 1 .. Len(stream), m \in Nat, i \in Nat : Is(n, m, i)' => Is(n, m, i)
  <2> SUFFICES ASSUME NEW n \in 1 .. Len(stream), NEW m \in Nat, NEW i \in Nat, Is(n, m, i)'
               PROVE  Is(n, m, i)
    BY Zenon
  <2>1. PICK m1 \in Nat, i1 \in Nat : Is(n, m1, i1)
    BY Zenon, <1>1 DEF Runs
  <2>2. stream[n].msg = m1 /\ stream[n].pos = i1
    BY SMTT(40), Z3T(40), <2>1 DEF Is, Unit
  <2>3. stream[n].msg = m /\ stream[n].pos = i
    BY SMTT(40), Z3T(40), <1>5 DEF Is, Unit
  <2> QED
    BY Zenon, <2>1, <2>2, <2>3
<1>10. Types'
  BY Zenon, <1>1, <1>2, <1>3, <1>4, <1>5, <1>6 DEF Types, counters, receiving, progress, Calling
<1>11. Counts'
  BY Zenon, <1>1, <1>5, <1>6, <1>7 DEF Counts, Enough, LeftToReceive, counters, receiving, progress
<1>12. RingIntact'
  BY Zenon, <1>1, <1>5, <1>7 DEF RingIntact, counters
<1>13. Runs'
  <2>1. \A n \in 1 .. Len(stream)' : \E m \in Nat, i \in Nat : Is(n, m, i)'
    BY Zenon, <1>1, <1>5, <1>8 DEF Runs
  <2>2. Len(stream)' > 0 => Is(1, 1, 0)'
    BY Zenon, <1>1, <1>5, <1>8 DEF Runs
  <2>3. ASSUME NEW n \in 1 .. Len(stream)', NEW m \in Nat, NEW i \in Nat, Is(n, m, i)'
        PROVE  /\ \A j \in Nat : n + j <= Len(stream)' /\ i + j <= sent'[m] => Is(n + j, m, i + j)'
               /\ i = sent'[m] /\ n < Len(stream)' => Is(n + 1, m + 1, 0)'
    <3>1. Is(n, m, i) /\ n \in 1 .. Len(stream)
      BY Zenon, <2>3, <1>5, <1>9
    <3>2. sent'[m] = sent[m]
      BY Zenon, <3>1, <1>4 DEF Is
    <3> QED
      BY Zenon, <3>1, <3>2, <1>1, <1>5, <1>8 DEF Runs
  <2> QED
    BY Zenon, <2>1, <2>2, <2>3 DEF Runs
<1>14. Len(stream) = 0 \/ Len(stream) \in 1 .. Len(stream)
  BY SMTT(40), Z3T(40), <1>1 DEF Types
<1>15. \A n, k : Boundary(n, k) => Boundary(n, k)'
  BY Zenon, <1>4, <1>5, <1>8 DEF Boundary, Is
<1>16. SenderAt'
  <2>1. CASE SenderInStep
    <3>1. /\ Boundary(Len(stream), Len(sent))
          /\ ~mqh_length_word_complete["sender"]
          /\ mqh_partial_bytes["sender"] = 0
      BY Zenon, <2>1, <1>5 DEF SenderInStep, Calling, Resting
    <3>2. Boundary(Len(stream), Len(sent) - 1)'
      BY SMTT(40), Z3T(40), <3>1, <1>4, <1>5 DEF Boundary, Is
    <3>3. SenderInStep'
      BY SMTT(40), Z3T(40), <3>1, <3>2, <1>2, <1>4, <1>5, <1>6 DEF SenderInStep, Calling, progress
    <3> QED
      BY Zenon, <3>3 DEF SenderAt
  <2>2. CASE ~SenderInStep
    BY Zenon, <2>2, <1>1, <1>5, <1>6 DEF SenderAt
  <2> QED
    BY <2>1, <2>2
<1>17. ReceiverAt'
  <2>1. CASE mqh_length_word_complete["receiver"]
    <3>1. Is(read, Len(received) + 1, mqh_partial_bytes["receiver"])
      BY Zenon, <2>1, <1>1 DEF ReceiverAt
    <3>2. sent'[Len(received) + 1] = sent[Len(received) + 1]
      BY Zenon, <3>1, <1>4 DEF Is
    <3> QED
      BY Zenon, <2>1, <3>1, <3>2, <1>1, <1>5, <1>7, <1>8 DEF ReceiverAt, receiving, progress
  <2>2. CASE ~mqh_length_word_complete["receiver"]
    BY Zenon, <2>2, <1>1, <1>5, <1>7, <1>15 DEF ReceiverAt, receiving, progress
  <2> QED
    BY <2>1, <2>2
<1>18. Fifo'
  <2>1. received \in Seq(Seq(Units)) /\ received' = received
    BY Zenon, <1>1, <1>5 DEF Types, receiving
  <2>2. ASSUME NEW i \in DOMAIN received
        PROVE  i <= Len(sent') /\ received[i] = Payload(i, sent'[i])
    <3>1. i \in Nat \ {0} /\ i <= Len(sent) /\ received[i] = Payload(i, sent[i])
      BY SMTT(40), Z3T(40), <2>1, <1>1 DEF Fifo
    <3>2. i \in 1 .. Len(sent) /\ i <= Len(sent')
      BY SMTT(40), Z3T(40), <3>1, <1>4
    <3>3. sent'[i] = sent[i]
      BY Zenon, <3>2, <1>4
    <3> QED
      BY Zenon, <3>1, <3>2, <3>3
  <2> QED
    BY Zenon, <2>1, <2>2 DEF Fifo
<1>19. Held'
  BY Zenon, <1>1, <1>5, <1>6, <1>7 DEF Held, receiving
<1> QED
  BY Zenon, <1>10, <1>11, <1>12, <1>13, <1>16, <1>17, <1>18, <1>19 DEF IInv

\* A step that moves the counters, and leaves the data and their positions alone.
LEMMA CountingStep ==
    ASSUME IInv,
           UNCHANGED <<mq_ring, stream, sent, nbytes, mq_detached, mqh_expected_bytes, mqh_buffer,
                       received>>,
           pc' \in [Proc -> Labels],
           pc'["sender"] \in Calling \cup Resting \cup Leaving,
           mqh_length_word_complete' \in [Proc -> BOOLEAN],
           mqh_partial_bytes' \in [Proc -> Nat],
           mqh_length_word_complete'["receiver"] = mqh_length_word_complete["receiver"],
           mqh_partial_bytes'["receiver"] = mqh_partial_bytes["receiver"],
           mqh_send_pending' \in Nat, mqh_consume_pending' \in Nat,
           rb' \in Nat, written' \in Nat,
           wb' = wb, read' = read,
           mq_bytes_read' \in Nat, mq_bytes_read <= mq_bytes_read',
           mq_bytes_written' \in Nat, mq_bytes_written <= mq_bytes_written',
           rb' <= mq_bytes_read',
           pc'["sender"] \in {"test", "act"} => Len(stream) - rb' <= RingSize,
           pc'["receiver"] = "take" => /\ written' <= mq_bytes_written'
                                       /\ read <= written'
                                       /\ Enough(written' - read),
           \/ datap' = NoPointer
           \/ /\ datap' = datap
              /\ pc["receiver"] \in Holding => pc'["receiver"] \in Holding
              /\ mqh_consume_pending' = mqh_consume_pending,
           SenderAt'
    PROVE  IInv'
<1>1. /\ Types /\ Counts /\ RingIntact /\ Runs /\ SenderAt /\ ReceiverAt /\ Fifo /\ Held
  BY Zenon DEF IInv
<1>2. Types'
  <2>1. datap' \in Int
    BY SMTT(40), Z3T(40), <1>1 DEF Types, NoPointer
  <2> QED
    BY Zenon, <1>1, <2>1 DEF Types
<1>3. Counts'
  <2>0. /\ Len(stream) \in Nat /\ mq_bytes_read \in Nat /\ mq_bytes_written \in Nat
        /\ read \in Nat /\ RingSize \in Nat
    BY SMTT(40), Z3T(40), <1>1, MqAssumption DEF Types, read
  <2>1. Len(stream)' = wb'
    BY Zenon, <1>1 DEF Counts
  <2>3. read' <= mq_bytes_written'
    BY SMTT(40), Z3T(40), <1>1, <2>0 DEF Counts
  <2>4. Len(stream)' - mq_bytes_read' <= RingSize
    BY SMTT(40), Z3T(40), <1>1, <2>0 DEF Counts
  <2>2. pc'["receiver"] = "take" => /\ written' <= mq_bytes_written'
                                    /\ read' <= written'
                                    /\ Enough(written - read)'
    BY Zenon DEF Enough, LeftToReceive
  <2> QED
    BY Zenon, <2>1, <2>2, <2>3, <2>4 DEF Counts
<1>4. RingIntact'
  <2>1. \A n \in mq_bytes_read' .. wb - 1 : n \in mq_bytes_read .. wb - 1
    BY SMTT(40), Z3T(40), <1>1 DEF Types, wb
  <2> QED
    BY Zenon, <1>1, <2>1 DEF RingIntact
<1>5. Runs'
  BY Zenon, <1>1, SameStream
<1>6. ReceiverAt'
  BY Zenon, <1>1, SameStream DEF ReceiverAt
<1>7. Fifo'
  BY Zenon, <1>1 DEF Fifo
<1>8. Held'
  <2>1. CASE datap' = NoPointer
    BY Zenon, <2>1 DEF Held
  <2>2. CASE datap' = datap /\ datap # NoPointer
    <3>1. pc["receiver"] \in Holding
      BY Zenon, <1>1, <2>2 DEF Held, Holding
    <3>2. pc'["receiver"] \in Holding /\ mqh_consume_pending' = mqh_consume_pending
      BY Zenon, <2>2, <3>1 DEF Holding
    <3> QED
      BY Zenon, <1>1, <2>2, <3>2 DEF Held, Holding
  <2> QED
    BY Zenon, <2>1, <2>2
<1> QED
  BY Zenon, <1>2, <1>3, <1>4, <1>5, <1>6, <1>7, <1>8 DEF IInv

\* shm_mq_send_bytes reads mq_bytes_read: rb is never too far.
LEMMA KeepsLookForSpace ==
    ASSUME IInv, LookForSpace
    PROVE  IInv'
<1>1. /\ Types /\ Counts /\ SenderAt
  BY Zenon DEF IInv
<1>2. CASE pc["sender"] = "test" /\ mq_detached
  <2>1. Detached("sender") /\ UNCHANGED <<counters, sending, receiving>> /\ mq_detached' = TRUE
    BY Zenon, <1>1, <1>2 DEF LookForSpace, sending, Types
  <2> QED
    BY Zenon, <2>1, SenderTold
<1>3. CASE ~(pc["sender"] = "test" /\ mq_detached)
  <2>1. PICK l \in {"test", "act"} :
           /\ pc' = [pc EXCEPT !["sender"] = l]
           /\ pc["sender"] \in {"space", "test"}
           /\ l = "test" => rb' = mq_bytes_read
           /\ l = "act" => rb' = rb /\ pc["sender"] = "test" /\ ~mq_detached
    BY Zenon, <1>3 DEF LookForSpace, Goto
  <2>2. /\ UNCHANGED <<mq_detached, counters, progress, mqh_send_pending, nbytes, mq_ring, sent, stream>>
        /\ UNCHANGED receiving
    BY Zenon, <1>3 DEF LookForSpace
  <2>3. /\ pc' \in [Proc -> Labels] /\ pc'["sender"] = l /\ pc'["receiver"] = pc["receiver"]
    BY Zenon, <1>1, <2>1, Parties DEF Types, Labels
  <2>4. /\ rb' \in Nat /\ rb' <= mq_bytes_read /\ Len(stream) - rb' <= RingSize
    BY SMTT(40), Z3T(40), <1>1, <2>1 DEF Types, Counts
  <2>5. SenderAt'
    <3>1. CASE l = "test"
      BY Zenon, <3>1, <1>1, <2>1, <2>2, <2>3, SenderKeeps DEF Calling, progress
    <3>2. CASE l = "act"
      <4>1. SenderInStep
        BY Zenon, <3>2, <2>1, <1>1 DEF SenderAt
      <4>2. SenderInStep'
        BY Zenon, <4>1, <3>2, <2>1, <2>2, <2>3, SameStream DEF SenderInStep, Calling, progress
      <4> QED
        BY Zenon, <4>2 DEF SenderAt
    <3> QED
      BY Zenon, <3>1, <3>2, <2>1
  <2>6. wb' = wb /\ read' = read
    BY Zenon, <2>2 DEF wb, read, counters, receiving
  <2> QED
    BY SMTT(40), Z3T(40), <1>1, <2>1, <2>2, <2>3, <2>4, <2>5, <2>6, CountingStep
    DEF Types, Counts, counters, receiving, progress, Calling
<1> QED
  BY <1>2, <1>3

\* Making pending units visible does not change what was written.
LEMMA Publishing ==
    ASSUME Types,
           shm_mq_inc_bytes_written \/ UNCHANGED <<mq_bytes_written, mqh_send_pending>>
    PROVE  /\ mqh_send_pending' \in Nat /\ mq_bytes_written' \in Nat
           /\ wb' = wb
           /\ mq_bytes_written <= mq_bytes_written'
<1>1. mqh_send_pending \in Nat /\ mq_bytes_written \in Nat
  BY Zenon DEF Types
<1> QED
  BY SMTT(40), Z3T(40), <1>1 DEF shm_mq_inc_bytes_written, wb

\* The sender publishes or not, and goes somewhere from where it does not write.
LEMMA SenderCounts ==
    ASSUME IInv,
           shm_mq_inc_bytes_written \/ UNCHANGED <<mq_bytes_written, mqh_send_pending>>,
           UNCHANGED <<mq_ring, stream, sent, nbytes, mq_detached, receiving, rb, mq_bytes_read>>,
           mqh_length_word_complete' \in [Proc -> BOOLEAN],
           mqh_partial_bytes' \in [Proc -> Nat],
           mqh_length_word_complete'["receiver"] = mqh_length_word_complete["receiver"],
           mqh_partial_bytes'["receiver"] = mqh_partial_bytes["receiver"],
           NEW l \in (Calling \cup Resting \cup Leaving) \ {"test", "act"},
           pc' = [pc EXCEPT !["sender"] = l],
           SenderAt'
    PROVE  IInv'
<1>1. /\ Types /\ Counts
  BY Zenon DEF IInv
<1>2. /\ mqh_send_pending' \in Nat /\ mq_bytes_written' \in Nat /\ wb' = wb
      /\ mq_bytes_written <= mq_bytes_written'
  BY Zenon, <1>1, Publishing
<1>3. /\ pc' \in [Proc -> Labels] /\ pc'["sender"] = l /\ pc'["receiver"] = pc["receiver"]
  BY Zenon, <1>1, Parties DEF Types, Labels, Calling, Resting, Leaving
<1>4. read' = read /\ read \in Nat
  BY SMTT(40), Z3T(40), <1>1 DEF read, receiving, Types
<1>5. /\ mq_bytes_read \in Nat /\ mq_bytes_written \in Nat /\ rb \in Nat /\ written \in Nat
      /\ mqh_consume_pending \in Nat
      /\ rb <= mq_bytes_read
  BY Zenon, <1>1 DEF Types, Counts
<1>6. pc'["receiver"] = "take" => /\ written <= mq_bytes_written'
                                  /\ read <= written
                                  /\ Enough(written - read)
  BY SMTT(40), Z3T(40), <1>1, <1>2, <1>3, <1>5 DEF Counts
<1> QED
  BY SMTT(40), Z3T(40), <1>2, <1>3, <1>4, <1>5, <1>6, CountingStep DEF receiving

\* A full ring makes shm_mq_send_bytes publish, and wait or return.
LEMMA KeepsRingFull ==
    ASSUME IInv, RingFull
    PROVE  IInv'
<1>1. /\ Types /\ SenderAt
  BY Zenon DEF IInv
<1>2. PICK l \in {"full", "g_detached", "w_ptr"} : pc' = [pc EXCEPT !["sender"] = l]
  BY Zenon DEF RingFull, Goto
<1>3. /\ shm_mq_inc_bytes_written \/ UNCHANGED <<mq_bytes_written, mqh_send_pending>>
      /\ UNCHANGED <<mq_ring, stream, sent, nbytes, mq_detached, receiving, rb, mq_bytes_read, progress>>
      /\ pc["sender"] = "act"
  BY Zenon DEF RingFull
<1>4. pc'["sender"] = l
  BY Zenon, <1>1, <1>2, Parties DEF Types
<1>5. SenderAt'
  BY Zenon, <1>1, <1>2, <1>3, <1>4, SenderKeeps DEF Calling, progress
<1>6. l \in (Calling \cup Resting \cup Leaving) \ {"test", "act"}
  BY Zenon DEF Calling
<1> QED
  BY Zenon, <1>1, <1>2, <1>3, <1>5, <1>6, SenderCounts DEF progress, Types

\* shm_mq_detach publishes what is pending and gives nothing else away.
LEMMA KeepsDetach ==
    ASSUME IInv, NEW p \in Proc, shm_mq_detach(p)
    PROVE  IInv'
<1>1. /\ Types /\ SenderAt
  BY Zenon DEF IInv
<1>2. CASE p = "sender"
  <2>1. /\ shm_mq_inc_bytes_written
        /\ UNCHANGED <<mq_ring, stream, sent, nbytes, mq_detached, receiving, rb, mq_bytes_read, progress>>
        /\ pc' = [pc EXCEPT !["sender"] = "detach"]
    BY Zenon, <1>2 DEF shm_mq_detach, Goto
  <2>2. pc'["sender"] = "detach"
    BY Zenon, <1>1, <2>1, Parties DEF Types
  <2>3. SenderAt'
    BY Zenon, <1>1, <2>1, <2>2, SenderKeeps DEF Leaving
  <2>4. "detach" \in (Calling \cup Resting \cup Leaving) \ {"test", "act"}
    BY Zenon DEF Leaving
  <2> QED
    BY Zenon, <1>1, <2>1, <2>3, <2>4, SenderCounts DEF progress, Types
<1>3. CASE p = "receiver"
  <2>1. /\ UNCHANGED <<counters, sending, receiving, progress, mq_detached>>
        /\ pc' = [pc EXCEPT ![p] = "detach"]
    BY Zenon, <1>3 DEF shm_mq_detach, Goto, counters, sending
  <2>2. "detach" \in Labels /\ "detach" \in Holding /\ mq_detached \in BOOLEAN /\ p # "sender"
    BY Zenon, <1>1, <1>3 DEF Labels, Holding, Types
  <2> QED
    BY Zenon, <2>1, <2>2, Moves
<1> QED
  BY Zenon, <1>2, <1>3, Parties

\* The end of shm_mq_sendv: the message is complete.
LEMMA KeepsFinishSend ==
    ASSUME IInv, FinishSend
    PROVE  IInv'
<1>1. /\ Types /\ SenderAt
  BY Zenon DEF IInv
<1>2. /\ shm_mq_inc_bytes_written \/ UNCHANGED <<mq_bytes_written, mqh_send_pending>>
      /\ UNCHANGED <<mq_ring, stream, sent, nbytes, mq_detached, receiving, rb, mq_bytes_read>>
  BY Zenon DEF FinishSend
<1>3. CASE pc["sender"] = "written"
  <2>1. PICK l \in {"idle", "whom"} : pc' = [pc EXCEPT !["sender"] = l]
    BY Zenon, <1>3 DEF FinishSend, Goto
  <2>2. /\ mqh_length_word_complete' = [mqh_length_word_complete EXCEPT !["sender"] = FALSE]
        /\ mqh_partial_bytes' = [mqh_partial_bytes EXCEPT !["sender"] = 0]
    BY Zenon, <1>3 DEF FinishSend
  <2>3. /\ mqh_length_word_complete' \in [Proc -> BOOLEAN]
        /\ mqh_partial_bytes' \in [Proc -> Nat]
        /\ mqh_length_word_complete'["receiver"] = mqh_length_word_complete["receiver"]
        /\ mqh_partial_bytes'["receiver"] = mqh_partial_bytes["receiver"]
        /\ ~mqh_length_word_complete'["sender"]
        /\ mqh_partial_bytes'["sender"] = 0
        /\ pc'["sender"] = l
    BY Zenon, <1>1, <2>1, <2>2, Parties DEF Types
  <2>4. SenderInStep
    BY Zenon, <1>1, <1>3 DEF SenderAt
  <2>5. /\ Len(stream) > 0
        /\ Is(Len(stream), Len(sent), sent[Len(sent)])
    BY Zenon, <2>4, <1>3 DEF SenderInStep, Calling
  <2>6. Boundary(Len(stream), Len(sent))
    BY SMTT(40), Z3T(40), <2>5, <1>1 DEF Boundary, Types
  <2>7. SenderInStep'
    BY Zenon, <2>1, <2>3, <2>6, <1>2, SameStream DEF SenderInStep, Calling, Resting
  <2>8. SenderAt' /\ l \in (Calling \cup Resting \cup Leaving) \ {"test", "act"}
    BY Zenon, <2>7 DEF SenderAt, Resting
  <2> QED
    BY Zenon, <1>2, <2>1, <2>3, <2>8, SenderCounts
<1>4. CASE pc["sender"] \in {"whom", "publish"}
  <2>1. /\ UNCHANGED progress
        /\ \E l \in {"publish", "flush", "idle"} : pc' = [pc EXCEPT !["sender"] = l]
    BY Zenon, <1>4 DEF FinishSend, Goto
  <2>2. PICK l \in {"publish", "flush", "idle"} : pc' = [pc EXCEPT !["sender"] = l]
    BY Zenon, <2>1
  <2>3. pc'["sender"] = l
    BY Zenon, <1>1, <2>2, Parties DEF Types
  <2>4. SenderAt'
    BY Zenon, <1>1, <1>2, <1>4, <2>1, <2>2, <2>3, SenderKeeps DEF Resting, progress
  <2>5. l \in (Calling \cup Resting \cup Leaving) \ {"test", "act"}
    BY Zenon DEF Resting
  <2> QED
    BY Zenon, <1>1, <1>2, <2>1, <2>2, <2>4, <2>5, SenderCounts DEF progress, Types
<1> QED
  BY Zenon, <1>3, <1>4 DEF FinishSend

\* The receiver gives back or not, and has then no message in the ring.
LEMMA ReceiverCounts ==
    ASSUME IInv,
           UNCHANGED <<sending, mq_detached, mq_bytes_written, progress, mqh_expected_bytes,
                       mqh_buffer, received>>,
           shm_mq_inc_bytes_read \/ UNCHANGED <<mq_bytes_read, mqh_consume_pending>>,
           written' \in Nat,
           datap' \in {datap, NoPointer},
           pc["receiver"] \in Holding => datap' = NoPointer,
           NEW l \in Labels,
           pc' = [pc EXCEPT !["receiver"] = l],
           l = "take" => /\ written' = mq_bytes_written
                         /\ Enough(written' - read)
    PROVE  IInv'
<1>1. /\ Types /\ Counts /\ SenderAt /\ Held
  BY Zenon DEF IInv
<1>2. /\ mq_bytes_read \in Nat /\ mqh_consume_pending \in Nat /\ mq_bytes_written \in Nat
      /\ mqh_send_pending \in Nat /\ rb \in Nat
      /\ rb <= mq_bytes_read /\ read <= mq_bytes_written
      /\ pc["sender"] \in {"test", "act"} => Len(stream) - rb <= RingSize
  BY Zenon, <1>1 DEF Types, Counts
<1>3. /\ mq_bytes_read' \in Nat /\ mqh_consume_pending' \in Nat /\ read' = read
      /\ mq_bytes_read <= mq_bytes_read'
  BY SMTT(40), Z3T(40), <1>2 DEF shm_mq_inc_bytes_read, read
<1>4. /\ pc' \in [Proc -> Labels] /\ pc'["sender"] = pc["sender"] /\ pc'["receiver"] = l
      /\ pc["sender"] \in Calling \cup Resting \cup Leaving
  BY Zenon, <1>1, Parties DEF Types
<1>5. SenderAt'
  BY Zenon, <1>1, <1>4, SenderKeeps DEF sending, progress
<1>6. datap' = NoPointer
  BY Zenon, <1>1 DEF Held, Holding
<1>7. wb' = wb /\ rb' = rb /\ rb <= mq_bytes_read'
  BY SMTT(40), Z3T(40), <1>2, <1>3 DEF wb, sending
<1>8. l = "take" => written' <= mq_bytes_written /\ read <= written' /\ Enough(written' - read)
  BY SMTT(40), Z3T(40), <1>2
<1> QED
  BY SMTT(40), Z3T(40), <1>1, <1>2, <1>3, <1>4, <1>5, <1>6, <1>7, <1>8, CountingStep DEF sending, progress, Types

\* The receiver's steps that consume nothing new.
LEMMA KeepsReceive ==
    ASSUME IInv, shm_mq_receive \/ GiveBack \/ LookForData
    PROVE  IInv'
<1>1. /\ Types
  BY Zenon DEF IInv
<1>2. /\ UNCHANGED <<sending, mq_detached, mq_bytes_written, progress, mqh_expected_bytes,
                     mqh_buffer, received>>
      /\ shm_mq_inc_bytes_read \/ UNCHANGED <<mq_bytes_read, mqh_consume_pending>>
  BY Zenon DEF shm_mq_receive, GiveBack, LookForData, counters
<1>3. written' \in Nat
  BY Zenon, <1>1 DEF shm_mq_receive, GiveBack, LookForData, Types
<1>4. /\ datap' \in {datap, NoPointer}
      /\ pc["receiver"] \in Holding => datap' = NoPointer
  BY Zenon DEF shm_mq_receive, GiveBack, LookForData, Holding
<1>5. PICK l \in Labels : /\ pc' = [pc EXCEPT !["receiver"] = l]
                          /\ l = "take" => /\ written' = mq_bytes_written
                                           /\ Enough(mq_bytes_written - read)
  BY Zenon DEF shm_mq_receive, GiveBack, LookForData, Goto, Labels, MustWait
<1> QED
  BY Zenon, <1>2, <1>3, <1>4, <1>5, ReceiverCounts

-----------------------------------------------------------------------------
\* A unit belongs to one message, at one place.
LEMMA IsUnique ==
    ASSUME NEW n \in Nat, NEW m, NEW i, NEW m1, NEW i1, Is(n, m, i), Is(n, m1, i1)
    PROVE  m = m1 /\ i = i1
  BY SMTT(40), Z3T(40) DEF Is, Unit

\* A position past the end of the stream is in the new part.
LEMMA Beyond ==
    ASSUME NEW L \in Nat, NEW k \in Nat, NEW b \in Int, b >= -1, NEW n \in Nat, n > L, n <= L + k
    PROVE  n - L \in 1 .. k /\ L + (n - L) = n /\ b + (n - L) \in Nat
  BY SMTT(40), Z3T(40)

\* What Runs says of one unit.
LEMMA RunOn ==
    ASSUME Runs, NEW n \in 1 .. Len(stream), NEW m \in Nat, NEW i \in Nat, Is(n, m, i)
    PROVE  /\ \A j \in Nat : n + j <= Len(stream) /\ i + j <= sent[m] => Is(n + j, m, i + j)
           /\ i = sent[m] /\ n < Len(stream) => Is(n + 1, m + 1, 0)
  BY Zenon DEF Runs

\* The sender writes units b + 1 to b + k of its message, behind unit b of it or, if b
\* is -1, behind the message before it.
LEMMA StreamGrows ==
    ASSUME Types, Runs, Types', NEW L, NEW M, L = Len(stream), M = Len(sent),
           NEW b \in Int, b >= -1, NEW k \in Nat \ {0},
           M > 0, sent' = sent, b + k <= sent[M],
           Len(stream') = L + k,
           \A n \in 1 .. L : stream'[n] = stream[n],
           \A i \in 1 .. k : stream'[L + i] = Unit(M, b + i, sent[M]),
           IF b = -1 THEN Boundary(L, M - 1) ELSE L > 0 /\ Is(L, M, b)
    PROVE  /\ \A n \in 1 .. L : \A m, i : Is(n, m, i)' <=> Is(n, m, i)
           /\ Is(L + k, M, b + k)'
           /\ Runs'
<1>1. /\ L \in Nat /\ M \in Nat \ {0} /\ sent \in Seq(Nat) /\ sent[M] \in Nat
      /\ \A m \in 1 .. M : sent[m] \in Nat
  <2>1. stream \in Seq(Units) /\ sent \in Seq(Nat)
    BY Zenon DEF Types
  <2>2. L \in Nat /\ M \in Nat
    BY SMTT(40), Z3T(40), <2>1
  <2>3. \A m \in 1 .. M : sent[m] \in Nat
    BY SMTT(40), Z3T(40), <2>1
  <2> QED
    BY SMTT(40), Z3T(40), <2>1, <2>2, <2>3
<1>2. \A n \in 1 .. L : \A m, i : Is(n, m, i)' <=> Is(n, m, i)
  BY Zenon DEF Is
<1>3. \A i \in 1 .. k : Is(L + i, M, b + i)'
  <2> SUFFICES ASSUME NEW i \in 1 .. k
               PROVE  Is(L + i, M, b + i)'
    BY Zenon
  <2>1. b + i \in 0 .. sent[M]
    BY SMTT(40), Z3T(40), <1>1
  <2> QED
    BY SMTT(40), Z3T(40), <1>1, <2>1 DEF Is
<1>4. \A n \in 1 .. L + k : \E m \in Nat, i \in Nat : Is(n, m, i)'
  <2> SUFFICES ASSUME NEW n \in 1 .. L + k
               PROVE  \E m \in Nat, i \in Nat : Is(n, m, i)'
    BY Zenon
  <2>1. CASE n <= L
    <3>1. n \in 1 .. L
      BY SMTT(40), Z3T(40), <2>1, <1>1
    <3> QED
      BY Zenon, <3>1, <1>2 DEF Runs
  <2>2. CASE n > L
    <3>1. n - L \in 1 .. k /\ L + (n - L) = n /\ b + (n - L) \in Nat
      BY SMTT(40), Z3T(40), <2>2, <1>1, Beyond
    <3> QED
      BY Zenon, <3>1, <1>1, <1>3
  <2> QED
    BY SMTT(40), Z3T(40), <2>1, <2>2, <1>1
<1>5. Is(1, 1, 0)'
  <2>1. CASE L > 0
    BY SMTT(40), Z3T(40), <2>1, <1>1, <1>2 DEF Runs
  <2>2. CASE L = 0
    <3>1. b = -1 /\ M = 1
      BY SMTT(40), Z3T(40), <2>2, <1>1 DEF Boundary
    <3>2. Is(L + 1, M, b + 1)'
      BY SMTT(40), Z3T(40), <1>3
    <3> QED
      BY SMTT(40), Z3T(40), <2>2, <3>1, <3>2
  <2> QED
    BY SMTT(40), Z3T(40), <2>1, <2>2, <1>1
<1>6. ASSUME NEW n \in 1 .. L + k, NEW m \in Nat, NEW i \in Nat, Is(n, m, i)'
      PROVE  /\ \A j \in Nat : n + j <= L + k /\ i + j <= sent[m] => Is(n + j, m, i + j)'
             /\ i = sent[m] /\ n < L + k => Is(n + 1, m + 1, 0)'
  <2>0. m \in 1 .. M /\ sent[m] \in Nat
    BY Zenon, <1>6, <1>1 DEF Is
  <2>1. CASE n <= L
    <3>0. n \in 1 .. L
      BY SMTT(40), Z3T(40), <2>1, <1>1
    <3>1. Is(n, m, i)
      BY Zenon, <3>0, <1>2, <1>6
    <3>2. ASSUME NEW j \in Nat, n + j <= L + k, i + j <= sent[m]
          PROVE  Is(n + j, m, i + j)'
      <4>1. CASE n + j <= L
        <5>1. Is(n + j, m, i + j)
          BY Zenon, <4>1, <3>1, <3>2, <3>0, RunOn
        <5> QED
          BY SMTT(40), Z3T(40), <5>1, <4>1, <1>1, <1>2
      <4>2. CASE n + j > L
        <5>1. /\ L - n \in Nat /\ n + (L - n) = L /\ i + (L - n) < i + j /\ i + (L - n) <= sent[m]
              /\ i + (L - n) < sent[m] /\ L > 0 /\ L \in 1 .. L
          BY SMTT(40), Z3T(40), <4>2, <2>0, <2>1, <3>2, <1>1
        <5>2. Is(L, m, i + (L - n))
          <6>0. \A o \in Nat : n + o <= L /\ i + o <= sent[m] => Is(n + o, m, i + o)
            BY Zenon, <3>1, <3>0, RunOn
          <6>2. PICK o \in Nat : o = L - n
            BY Zenon, <5>1
          <6>3. n + o <= L /\ i + o <= sent[m]
            BY SMTT(40), Z3T(40), <5>1, <6>2, <1>1
          <6>1. Is(n + o, m, i + o)
            BY <6>0, <6>3, Zenon
          <6> QED
            BY Zenon, <6>1, <6>2, <5>1
        <5>3. CASE b = -1
          <6>1. Is(L, M - 1, sent[M - 1])
            BY SMTT(40), Z3T(40), <5>1, <5>3 DEF Boundary
          <6> QED
            BY SMTT(40), Z3T(40), <6>1, <5>1, <5>2, <1>1, IsUnique
        <5>4. CASE b # -1
          <6>1. m = M /\ i + (L - n) = b
            BY Zenon, <5>2, <5>4, <1>1, IsUnique
          <6>0. n + j \in Nat
            BY SMTT(40), Z3T(40), <1>1
          <6>2. n + j - L \in 1 .. k /\ L + (n + j - L) = n + j /\ b + (n + j - L) = i + j
            <7>1. n + j - L \in 1 .. k /\ L + (n + j - L) = n + j
              BY SMTT(40), Z3T(40), <6>0, <4>2, <3>2, <1>1, Beyond
            <7>2. b + (n + j - L) = i + j
              BY SMTT(40), Z3T(40), <6>1, <1>1
            <7> QED
              BY Zenon, <7>1, <7>2
          <6>3. Is(L + (n + j - L), M, b + (n + j - L))'
            BY Zenon, <6>2, <1>3
          <6> QED
            BY Zenon, <6>1, <6>2, <6>3
        <5> QED
          BY Zenon, <5>3, <5>4
      <4> QED
        BY SMTT(40), Z3T(40), <4>1, <4>2, <1>1
    <3>3. ASSUME i = sent[m], n < L + k
          PROVE  Is(n + 1, m + 1, 0)'
      <4>1. CASE n < L
        <5>1. Is(n + 1, m + 1, 0)
          BY Zenon, <4>1, <3>1, <3>3, <3>0, RunOn
        <5>2. n + 1 \in 1 .. L
          BY SMTT(40), Z3T(40), <4>1, <1>1
        <5> QED
          BY Zenon, <5>1, <5>2, <1>2
      <4>2. CASE n = L
        <5>1. CASE b = -1
          <6>1. Is(L, M - 1, sent[M - 1])
            BY SMTT(40), Z3T(40), <5>1, <4>2, <1>1 DEF Boundary
          <6>2. m = M - 1
            BY Zenon, <6>1, <4>2, <3>1, <1>1, IsUnique
          <6>3. Is(L + 1, M, b + 1)'
            BY SMTT(40), Z3T(40), <1>3
          <6> QED
            BY SMTT(40), Z3T(40), <6>2, <6>3, <5>1, <4>2, <1>1
        <5>2. CASE b # -1
          <6>1. m = M /\ i = b
            BY Zenon, <5>2, <4>2, <3>1, <1>1, IsUnique
          <6> QED
            BY SMTT(40), Z3T(40), <6>1, <3>3, <1>1
        <5> QED
          BY Zenon, <5>1, <5>2
      <4>3. n < L \/ n = L
        BY SMTT(40), Z3T(40), <3>0, <2>1, <1>1
      <4> QED
        BY Zenon, <4>1, <4>2, <4>3
    <3> QED
      BY Zenon, <3>2, <3>3
  <2>2. CASE n > L
    <3>1. n - L \in 1 .. k /\ L + (n - L) = n
      BY SMTT(40), Z3T(40), <2>2, <1>1
    <3>2. Is(n, M, b + (n - L))'
      BY Zenon, <3>1, <1>3
    <3>3. m = M /\ i = b + (n - L)
      <4>1. Unit(m, i, sent[m]) = Unit(M, b + (n - L), sent[M])
        BY Zenon, <3>2, <1>6 DEF Is
      <4>2. /\ Unit(m, i, sent[m]).msg = m /\ Unit(m, i, sent[m]).pos = i
            /\ Unit(M, b + (n - L), sent[M]).msg = M
            /\ Unit(M, b + (n - L), sent[M]).pos = b + (n - L)
        BY Zenon DEF Unit
      <4> QED
        BY Zenon, <4>1, <4>2
    <3>4. ASSUME NEW j \in Nat, n + j <= L + k, i + j <= sent[m]
          PROVE  Is(n + j, m, i + j)'
      <4>0. n + j \in Nat /\ n + j > L
        BY SMTT(40), Z3T(40), <2>2, <1>1
      <4>1. n + j - L \in 1 .. k /\ L + (n + j - L) = n + j /\ b + (n + j - L) = i + j
        BY SMTT(40), Z3T(40), <4>0, <3>3, <3>4, <1>1, Beyond
      <4>2. Is(L + (n + j - L), M, b + (n + j - L))'
        BY Zenon, <4>1, <1>3
      <4> QED
        BY Zenon, <4>1, <4>2, <3>3
    <3>5. ~(i = sent[m] /\ n < L + k)
      BY SMTT(40), Z3T(40), <3>1, <3>3, <1>1
    <3> QED
      BY Zenon, <3>4, <3>5
  <2>3. n <= L \/ n > L
    BY SMTT(40), Z3T(40), <1>1
  <2> QED
    BY <2>1, <2>2, <2>3, Zenon
<1>7. Runs'
  BY Zenon, <1>4, <1>5, <1>6 DEF Runs
<1>8. Is(L + k, M, b + k)'
  BY SMTT(40), Z3T(40), <1>3, <1>1
<1> QED
  BY Zenon, <1>2, <1>7, <1>8

\* How much the sender writes.
LEMMA ChunkFits ==
    ASSUME Types, Counts, SenderInStep, pc["sender"] = "act", available > 0
    PROVE  /\ sendnow \in Nat \ {0}
           /\ Len(stream) + sendnow - rb <= RingSize
           /\ Offset(Len(stream)) + sendnow <= RingSize
           /\ mqh_length_word_complete["sender"] =>
                 mqh_partial_bytes["sender"] + sendnow <= nbytes
           /\ ~mqh_length_word_complete["sender"] => sendnow = 1
<1>1. /\ wb \in Nat /\ rb \in Nat /\ Len(stream) = wb /\ Len(stream) - rb <= RingSize
      /\ RingSize \in Nat \ {0} /\ nbytes \in Nat /\ mqh_partial_bytes["sender"] \in Nat
  BY SMTT(40), Z3T(40), MqAssumption, Parties DEF Types, Counts, wb
<1>2. /\ WriteOffset \in Nat /\ WriteOffset < RingSize /\ WriteOffset = Offset(Len(stream))
  BY SMTT(40), Z3T(40), <1>1, OffsetRange DEF WriteOffset
<1>3. LeftToSend \in Int
  BY SMTT(40), Z3T(40), <1>1 DEF LeftToSend
<1>4. /\ sendnow \in Int /\ sendnow > 0 /\ sendnow <= RingSize - Used
      /\ sendnow <= LeftToSend /\ sendnow <= RingSize - WriteOffset
  BY SMTT(40), Z3T(40), <1>1, <1>2, <1>3 DEF sendnow, available, Min, Used
<1>5. Len(stream) + sendnow - rb <= RingSize
  BY SMTT(40), Z3T(40), <1>1, <1>4 DEF Used
<1>6. Offset(Len(stream)) + sendnow <= RingSize
  BY SMTT(40), Z3T(40), <1>1, <1>2, <1>4
<1>7. mqh_length_word_complete["sender"] => mqh_partial_bytes["sender"] + sendnow <= nbytes
  BY SMTT(40), Z3T(40), <1>1, <1>4 DEF LeftToSend
<1>8. ~mqh_length_word_complete["sender"] => sendnow = 1
  BY SMTT(40), Z3T(40), <1>1, <1>4 DEF LeftToSend
<1> QED
  BY SMTT(40), Z3T(40), <1>4, <1>5, <1>6, <1>7, <1>8

\* The memcpy of shm_mq_send_bytes: the new units fit and go on where the stream ended.
LEMMA KeepsWriteChunk ==
    ASSUME IInv, WriteChunk
    PROVE  IInv'
<1>1. /\ Types /\ Counts /\ RingIntact /\ Runs /\ SenderAt /\ ReceiverAt /\ Fifo /\ Held
      /\ pc["sender"] = "act" /\ available > 0
  BY Zenon DEF IInv, WriteChunk
<1>2. SenderInStep
  BY Zenon, <1>1 DEF SenderAt
<1>3. PICK L \in Nat, M \in Nat, k \in Nat \ {0}, b \in Int :
         /\ L = Len(stream) /\ M = Len(sent) /\ k = sendnow
         /\ b = IF mqh_length_word_complete["sender"] THEN mqh_partial_bytes["sender"] ELSE -1
  <2>1. Len(stream) \in Nat /\ Len(sent) \in Nat /\ mqh_partial_bytes["sender"] \in Nat
    BY SMTT(40), Z3T(40), <1>1, Parties DEF Types
  <2>2. sendnow \in Nat \ {0}
    BY Zenon, <1>1, <1>2, ChunkFits
  <2>3. (IF mqh_length_word_complete["sender"] THEN mqh_partial_bytes["sender"] ELSE -1) \in Int
    BY SMTT(40), Z3T(40), <2>1
  <2> QED
    BY Zenon, <2>1, <2>2, <2>3
<1>4. /\ M > 0 /\ nbytes = sent[M] /\ nbytes \in Nat /\ b >= -1
      /\ IF b = -1 THEN Boundary(L, M - 1) ELSE L > 0 /\ Is(L, M, b)
  BY SMTT(40), Z3T(40), <1>1, <1>2, <1>3, Parties DEF SenderInStep, Calling, Types
<1>5. /\ L + k - rb <= RingSize /\ Offset(L) + k <= RingSize /\ b + k <= nbytes
      /\ ~mqh_length_word_complete["sender"] => k = 1 /\ b + k = 0
  BY SMTT(40), Z3T(40), <1>1, <1>2, <1>3, <1>4, ChunkFits DEF Types
<1>6. \A i \in 1 .. k : NextUnit(i) = Unit(M, b + i, sent[M]) /\ NextUnit(i) \in Units
  <2> SUFFICES ASSUME NEW i \in 1 .. k
               PROVE  NextUnit(i) = Unit(M, b + i, sent[M]) /\ NextUnit(i) \in Units
    BY Zenon
  <2>1. b + i \in Nat
    BY SMTT(40), Z3T(40), <1>3, <1>4
  <2>2. NextUnit(i) = Unit(M, b + i, sent[M])
    <3>1. CASE mqh_length_word_complete["sender"]
      BY Zenon, <3>1, <1>3, <1>4 DEF NextUnit
    <3>2. CASE ~mqh_length_word_complete["sender"]
      <4>1. b + i = 0
        BY SMTT(40), Z3T(40), <3>2, <1>5
      <4> QED
        BY Zenon, <3>2, <4>1, <1>3, <1>4 DEF NextUnit
    <3> QED
      BY Zenon, <3>1, <3>2
  <2>3. sent[M] \in Nat
    BY Zenon, <1>4
  <2> QED
    BY SMTT(40), Z3T(40), <2>1, <2>2, <2>3, <1>3, UnitFields
<1>7. /\ stream \in Seq(Units) /\ mq_ring \in [0 .. RingSize - 1 -> Units]
      /\ stream' = stream \o [i \in 1 .. k |-> NextUnit(i)]
      /\ mq_ring' = [i \in 0 .. RingSize - 1 |->
                        IF i - Offset(L) + 1 \in 1 .. k THEN NextUnit(i - Offset(L) + 1)
                        ELSE mq_ring[i]]
      /\ L = wb
  BY Zenon, <1>1, <1>3 DEF WriteChunk, WriteOffset, Counts, Types
<1>8. /\ stream' \in Seq(Units) /\ Len(stream') = L + k
      /\ \A n \in 1 .. L : stream'[n] = stream[n]
      /\ \A i \in 1 .. k : stream'[L + i] = NextUnit(i)
  <2> DEFINE t == [i \in 1 .. k |-> NextUnit(i)]
  <2>1. t \in [1 .. k -> Units]
    BY Zenon, <1>6
  <2>2. /\ stream \o t \in Seq(Units) /\ Len(stream \o t) = Len(stream) + k
        /\ \A i \in 1 .. Len(stream) : (stream \o t)[i] = stream[i]
        /\ \A i \in 1 .. k : (stream \o t)[Len(stream) + i] = t[i]
    BY SMTT(40), Z3T(40), <2>1, <1>7, Extend
  <2> QED
    BY Zenon, <2>2, <1>3, <1>7
<1>9. mq_ring' \in [0 .. RingSize - 1 -> Units]
  BY Zenon, <1>6, <1>7
<1>10. /\ UNCHANGED <<mq_detached, counters, nbytes, rb, sent, receiving>>
       /\ mqh_send_pending' = mqh_send_pending + k
  BY Zenon, <1>3 DEF WriteChunk
<1>11. /\ mqh_length_word_complete' \in [Proc -> BOOLEAN]
       /\ mqh_partial_bytes' \in [Proc -> Nat]
       /\ mqh_length_word_complete'["receiver"] = mqh_length_word_complete["receiver"]
       /\ mqh_partial_bytes'["receiver"] = mqh_partial_bytes["receiver"]
       /\ mqh_length_word_complete'["sender"]
       /\ mqh_partial_bytes'["sender"] = b + k
  <2>1. /\ mqh_length_word_complete \in [Proc -> BOOLEAN]
        /\ mqh_partial_bytes \in [Proc -> Nat]
    BY Zenon, <1>1 DEF Types
  <2>2. CASE mqh_length_word_complete["sender"]
    <3>1. /\ mqh_partial_bytes' = [mqh_partial_bytes EXCEPT !["sender"] = @ + k]
          /\ UNCHANGED mqh_length_word_complete
          /\ b = mqh_partial_bytes["sender"]
      BY Zenon, <2>2, <1>3 DEF WriteChunk
    <3> QED
      BY SMTT(40), Z3T(40), <2>1, <2>2, <3>1, Parties
  <2>3. CASE ~mqh_length_word_complete["sender"]
    <3>1. /\ mqh_length_word_complete' = [mqh_length_word_complete EXCEPT !["sender"] = TRUE]
          /\ UNCHANGED mqh_partial_bytes
          /\ mqh_partial_bytes["sender"] = 0
      BY Zenon, <2>3, <1>1, <1>2 DEF WriteChunk, SenderInStep, Calling
    <3> QED
      BY Zenon, <2>1, <2>3, <3>1, <1>5, Parties
  <2> QED
    BY Zenon, <2>2, <2>3
<1>12. /\ pc' \in [Proc -> Labels] /\ pc'["receiver"] = pc["receiver"]
       /\ pc'["sender"] = IF b + k = nbytes THEN "written" ELSE "space"
  BY Zenon, <1>1, <1>11, Parties DEF WriteChunk, Goto, Types, Labels
<1>13. Types'
  <2>1. mqh_send_pending' \in Nat
    BY SMTT(40), Z3T(40), <1>1, <1>10 DEF Types
  <2>2. pc'["sender"] \in Calling
    BY Zenon, <1>12 DEF Calling
  <2> QED
    BY Zenon, <1>1, <1>8, <1>9, <1>10, <1>11, <1>12, <2>1, <2>2 DEF Types, counters, receiving
<1>14. /\ \A n \in 1 .. L : \A m, i : Is(n, m, i)' <=> Is(n, m, i)
       /\ Is(L + k, M, b + k)'
       /\ Runs'
  <2>1. \A i \in 1 .. k : stream'[L + i] = Unit(M, b + i, sent[M])
    BY Zenon, <1>6, <1>8
  <2>2. b + k <= sent[M] /\ sent' = sent
    BY Zenon, <1>4, <1>5, <1>10
  <2> QED
    BY ZenonT(40), <1>1, <1>3, <1>4, <1>8, <1>13, <2>1, <2>2, StreamGrows
<1>15. read' = read /\ read \in Nat /\ wb' = wb + k /\ read <= L
  <2>1. /\ mq_bytes_read \in Nat /\ mqh_consume_pending \in Nat /\ mq_bytes_written \in Nat
        /\ mqh_send_pending \in Nat /\ read <= mq_bytes_written
    BY Zenon, <1>1 DEF Types, Counts
  <2> QED
    BY SMTT(40), Z3T(40), <2>1, <1>7, <1>10 DEF read, wb, counters, receiving
<1>16. Counts'
  <2>1. /\ rb \in Nat /\ mq_bytes_read \in Nat /\ rb <= mq_bytes_read /\ RingSize \in Nat
        /\ mq_bytes_read' = mq_bytes_read /\ rb' = rb
    BY Zenon, <1>1, <1>10, MqAssumption DEF Types, Counts, counters
  <2>2. Len(stream)' = wb' /\ Len(stream)' - mq_bytes_read' <= RingSize
    BY SMTT(40), Z3T(40), <2>1, <1>5, <1>7, <1>8, <1>15
  <2>3. pc'["sender"] \notin {"test", "act"}
    BY Zenon, <1>12
  <2>4. pc'["receiver"] = "take" => Enough(written - read)'
    BY Zenon, <1>1, <1>10, <1>11, <1>12, <1>15 DEF Counts, Enough, LeftToReceive, receiving
  <2> QED
    BY Zenon, <1>1, <1>10, <1>12, <1>15, <2>1, <2>2, <2>3, <2>4 DEF Counts, counters, receiving
<1>17. RingIntact'
  <2> SUFFICES ASSUME NEW n \in mq_bytes_read .. L + k - 1
               PROVE  mq_ring'[Offset(n)] = stream'[n + 1]
    <3>1. mq_bytes_read' = mq_bytes_read /\ wb' - 1 = L + k - 1
      BY SMTT(40), Z3T(40), <1>7, <1>10, <1>15 DEF counters
    <3> QED
      BY Zenon, <3>1 DEF RingIntact
  <2>0. /\ mq_bytes_read \in Nat /\ rb \in Nat /\ rb <= mq_bytes_read /\ n \in Nat
        /\ RingSize \in Nat \ {0}
    BY SMTT(40), Z3T(40), <1>1, MqAssumption DEF Types, Counts
  <2>1. Offset(n) \in 0 .. RingSize - 1 /\ Offset(L) \in 0 .. RingSize - 1
    BY Zenon, <2>0, OffsetRange
  <2>2. CASE n < L
    <3>1. Offset(n) - Offset(L) + 1 \notin 1 .. k
      <4> SUFFICES ASSUME Offset(n) - Offset(L) + 1 \in 1 .. k
                   PROVE  FALSE
        BY Zenon
      <4> DEFINE d == Offset(n) - Offset(L)
      <4>1. d \in Nat /\ d < k /\ Offset(L) + d < RingSize /\ Offset(L) + d = Offset(n)
        BY SMTT(40), Z3T(40), <2>1, <1>5, <2>0
      <4>2. Offset(L + d) = Offset(n)
        BY Zenon, <4>1, OffsetNext
      <4>3. L + d \in Nat /\ n < L + d /\ (L + d) - n < RingSize
        <5> HIDE DEF d
        <5> QED
          BY SMTT(40), Z3T(40), <4>1, <2>0, <2>2, <1>5
      <4> QED
        BY Zenon, <4>2, <4>3, <2>0, OffsetDiffers
    <3>2. mq_ring'[Offset(n)] = mq_ring[Offset(n)]
      BY Zenon, <3>1, <2>1, <1>7
    <3>3. n \in mq_bytes_read .. wb - 1 /\ n + 1 \in 1 .. L
      BY SMTT(40), Z3T(40), <2>0, <2>2, <1>7
    <3> QED
      BY Zenon, <3>2, <3>3, <1>1, <1>8 DEF RingIntact
  <2>3. CASE n >= L
    <3>1. PICK j \in Nat : n = L + j /\ j < k
      <4>1. n - L \in Nat /\ n = L + (n - L) /\ n - L < k
        BY SMTT(40), Z3T(40), <2>3, <2>0
      <4> QED
        BY Zenon, <4>1
    <3>2. Offset(n) = Offset(L) + j
      <4>1. Offset(L) + j < RingSize
        BY SMTT(40), Z3T(40), <2>0, <2>1, <3>1, <1>5
      <4> QED
        BY Zenon, <3>1, <4>1, OffsetNext
    <3>3. Offset(n) - Offset(L) + 1 = j + 1 /\ j + 1 \in 1 .. k /\ n + 1 = L + (j + 1)
      BY SMTT(40), Z3T(40), <3>1, <3>2, <2>1
    <3>4. mq_ring'[Offset(n)] = NextUnit(j + 1)
      BY Zenon, <3>3, <2>1, <1>7
    <3> QED
      BY Zenon, <3>3, <3>4, <1>8
  <2> QED
    BY SMTT(40), Z3T(40), <2>2, <2>3, <2>0
<1>18. SenderAt'
  <2>1. Len(stream)' = L + k /\ L + k > 0 /\ Len(sent)' = M /\ sent' = sent /\ nbytes' = nbytes
    BY SMTT(40), Z3T(40), <1>3, <1>8, <1>10
  <2>2. Is(Len(stream), Len(sent), mqh_partial_bytes["sender"])'
    BY Zenon, <2>1, <1>11, <1>14 DEF Is
  <2>3. mqh_partial_bytes'["sender"] = nbytes <=> pc'["sender"] = "written"
    BY Zenon, <1>11, <1>12
  <2>4. SenderInStep'
    BY Zenon, <2>1, <2>2, <2>3, <1>4, <1>11, <1>12 DEF SenderInStep, Calling
  <2> QED
    BY Zenon, <2>4 DEF SenderAt
<1>19. ReceiverAt'
  <2>1. /\ received' = received /\ mqh_expected_bytes' = mqh_expected_bytes
        /\ mqh_buffer' = mqh_buffer /\ sent' = sent
    BY Zenon, <1>10 DEF receiving
  <2>2. CASE mqh_length_word_complete["receiver"]
    <3>1. read \in 1 .. L /\ Is(read, Len(received) + 1, mqh_partial_bytes["receiver"])
      BY SMTT(40), Z3T(40), <2>2, <1>1, <1>3, <1>15 DEF ReceiverAt
    <3>2. Is(read, Len(received) + 1, mqh_partial_bytes["receiver"])'
      BY Zenon, <3>1, <2>1, <1>8, <1>11, <1>15 DEF Is
    <3> QED
      BY Zenon, <2>1, <2>2, <3>2, <1>1, <1>11, <1>15 DEF ReceiverAt
  <2>3. CASE ~mqh_length_word_complete["receiver"]
    <3>1. Boundary(read, Len(received))'
      BY SMTT(40), Z3T(40), <2>1, <2>3, <1>1, <1>3, <1>8, <1>15 DEF ReceiverAt, Boundary, Is
    <3> QED
      BY Zenon, <2>1, <2>3, <3>1, <1>1, <1>11, <1>15 DEF ReceiverAt
  <2> QED
    BY Zenon, <2>2, <2>3
<1>20. Fifo'
  BY Zenon, <1>1, <1>10 DEF Fifo, receiving
<1>21. Held'
  <2> SUFFICES ASSUME datap # NoPointer
               PROVE  Held'
    BY Zenon, <1>10 DEF Held, receiving
  <2>1. /\ received' = received /\ datap' = datap /\ mqh_consume_pending' = mqh_consume_pending
    BY Zenon, <1>10 DEF receiving
  <2>2. \A i \in 1 .. Len(received[Len(received)]) :
           read - Len(received[Len(received)]) + i \in 1 .. L
    <3>1. /\ Len(received[Len(received)]) \in Nat /\ mqh_consume_pending \in Nat
          /\ Len(received[Len(received)]) <= mqh_consume_pending /\ mq_bytes_read \in Nat
      BY SMTT(40), Z3T(40), <1>1 DEF Held, Types
    <3>2. mqh_consume_pending <= read
      BY SMTT(40), Z3T(40), <3>1 DEF read
    <3> QED
      BY SMTT(40), Z3T(40), <3>1, <3>2, <1>3, <1>15
  <2> QED
    BY Zenon, <2>1, <2>2, <1>1, <1>8, <1>12, <1>15 DEF Held
<1> QED
  BY Zenon, <1>13, <1>14, <1>16, <1>17, <1>18, <1>19, <1>20, <1>21 DEF IInv

-----------------------------------------------------------------------------
\* What the receiver finds in the ring.
LEMMA InRing ==
    ASSUME Types, Counts, RingIntact, NEW i \in Nat,
           read + i < mq_bytes_written, Offset(read) + i < RingSize
    PROVE  /\ read + i + 1 \in 1 .. Len(stream)
           /\ mq_ring[Offset(read) + i] = stream[read + i + 1]
<1>1. /\ read \in Nat /\ mq_bytes_read \in Nat /\ mqh_consume_pending \in Nat
      /\ mq_bytes_written \in Nat /\ mqh_send_pending \in Nat /\ Len(stream) = wb
      /\ mq_bytes_read <= read
  BY SMTT(40), Z3T(40) DEF Types, Counts, read
<1>2. read + i + 1 \in 1 .. Len(stream) /\ read + i \in mq_bytes_read .. wb - 1
  BY SMTT(40), Z3T(40), <1>1 DEF wb
<1>3. Offset(read + i) = Offset(read) + i
  BY Zenon, <1>1, OffsetNext
<1>4. mq_ring[Offset(read + i)] = stream[read + i + 1]
  BY Zenon, <1>2 DEF RingIntact
<1> QED
  BY Zenon, <1>2, <1>3, <1>4

\* A chunk the receiver takes is not empty.
LEMMA SomeToTake ==
    ASSUME Types, Counts, pc["receiver"] = "take", LeftToReceive \in Nat \ {0}
    PROVE  /\ Contiguous \in Nat \ {0}
           /\ read + Contiguous <= written
           /\ written <= mq_bytes_written
           /\ Offset(read) + Contiguous <= RingSize
<1>1. /\ read \in Nat /\ written \in Nat /\ RingSize \in Nat \ {0} /\ read <= written
      /\ Enough(written - read) /\ written <= mq_bytes_written
  BY SMTT(40), Z3T(40), MqAssumption DEF Types, Counts, read
<1>2. Offset(read) \in Nat /\ Offset(read) < RingSize
  BY SMTT(40), Z3T(40), <1>1, OffsetRange
<1>3. written - read >= 1
  BY SMTT(40), Z3T(40), <1>1, <1>2 DEF Enough
<1> QED
  BY SMTT(40), Z3T(40), <1>1, <1>2, <1>3 DEF Contiguous, Min

\* The unit after the first k messages.
LEMMA MessageStart ==
    ASSUME Types, Runs, NEW n \in Nat, NEW k \in Nat, Boundary(n, k), n < Len(stream)
    PROVE  Is(n + 1, k + 1, 0)
<1>0. Len(stream) \in Nat
  BY SMTT(40), Z3T(40) DEF Types
<1>1. CASE n = 0
  BY SMTT(40), Z3T(40), <1>1, <1>0 DEF Boundary, Runs
<1>2. CASE n > 0
  <2>1. Is(n, k, sent[k]) /\ n \in 1 .. Len(stream)
    BY SMTT(40), Z3T(40), <1>0, <1>2 DEF Boundary
  <2>2. sent[k] \in Nat
    BY SMTT(40), Z3T(40), <2>1 DEF Is, Types
  <2> QED
    BY Zenon, <2>1, <2>2, RunOn
<1> QED
  BY SMTT(40), Z3T(40), <1>1, <1>2

\* The receiver takes n units.
LEMMA TakingStep ==
    ASSUME IInv, pc["receiver"] = "take",
           NEW n \in Nat, Consume(n), read + n <= mq_bytes_written,
           UNCHANGED <<mq_detached, counters, sending, written>>,
           mqh_length_word_complete' \in [Proc -> BOOLEAN],
           mqh_partial_bytes' \in [Proc -> Nat],
           mqh_length_word_complete'["sender"] = mqh_length_word_complete["sender"],
           mqh_partial_bytes'["sender"] = mqh_partial_bytes["sender"],
           mqh_expected_bytes' \in Nat, datap' \in Int,
           mqh_buffer' \in Seq(Units), received' \in Seq(Seq(Units)),
           NEW l \in {"available", "idle"}, pc' = [pc EXCEPT !["receiver"] = l],
           ReceiverAt', Fifo', Held'
    PROVE  IInv'
<1>1. /\ Types /\ Counts /\ RingIntact /\ Runs /\ SenderAt
  BY Zenon DEF IInv
<1>2. /\ pc' \in [Proc -> Labels] /\ pc'["sender"] = pc["sender"] /\ pc'["receiver"] = l
  BY Zenon, <1>1, Parties DEF Types, Labels
<1>3. mqh_consume_pending' \in Nat /\ read' = read + n /\ wb' = wb
  BY SMTT(40), Z3T(40), <1>1 DEF Types, Consume, read, wb, counters, sending
<1>4. Types'
  BY Zenon, <1>1, <1>2, <1>3 DEF Types, counters, sending
<1>5. Counts'
  <2>1. /\ Len(stream)' = wb' /\ read' <= mq_bytes_written'
        /\ rb' <= mq_bytes_read' /\ Len(stream)' - mq_bytes_read' <= RingSize
        /\ pc'["sender"] \in {"test", "act"} => Len(stream)' - rb' <= RingSize
    BY Zenon, <1>1, <1>2, <1>3 DEF Counts, counters, sending
  <2> QED
    BY Zenon, <2>1, <1>2 DEF Counts
<1>6. RingIntact'
  BY Zenon, <1>1, <1>3 DEF RingIntact, counters, sending
<1>7. Runs'
  BY Zenon, <1>1, SameStream DEF sending
<1>8. SenderAt'
  BY Zenon, <1>1, <1>2, SenderKeeps DEF sending
<1> QED
  BY Zenon, <1>4, <1>5, <1>6, <1>7, <1>8 DEF IInv

\* A message that has been taken to its end.
LEMMA FifoGrows ==
    ASSUME Types, Fifo, UNCHANGED sent, Len(received) + 1 <= Len(sent),
           received' = Append(received, Payload(Len(received) + 1, sent[Len(received) + 1]))
    PROVE  Fifo'
<1>1. received \in Seq(Seq(Units)) /\ sent \in Seq(Nat) /\ Len(received) \in Nat
  BY SMTT(40), Z3T(40) DEF Types
<1>2. DOMAIN received' = 1 .. Len(received) + 1
  BY SMTT(40), Z3T(40), <1>1
<1>3. \A i \in 1 .. Len(received) : received'[i] = received[i] /\ i \in DOMAIN received
  BY SMTT(40), Z3T(40), <1>1
<1>4. received'[Len(received) + 1] = Payload(Len(received) + 1, sent[Len(received) + 1])
  BY SMTT(40), Z3T(40), <1>1
<1>5. ASSUME NEW i \in DOMAIN received'
      PROVE  i <= Len(sent) /\ received'[i] = Payload(i, sent[i])
  <2>1. i \in 1 .. Len(received) \/ i = Len(received) + 1
    BY SMTT(40), Z3T(40), <1>1, <1>2
  <2> QED
    BY Zenon, <2>1, <1>3, <1>4 DEF Fifo
<1> QED
  BY Zenon, <1>5 DEF Fifo

\* Two ways to count back from the end of a chunk.
LEMMA Regroup == \A r, n, len \in Nat : (r + n) - len = r + (n - len)
  BY SMTT(40), Z3T(40)

\* Units are units.
LEMMA UnitTyped == \A m, i, len \in Nat : Unit(m, i, len) \in Units
  BY Zenon DEF Unit, Units

\* A message returned whole is the message that was sent.
LEMMA Returned ==
    ASSUME IInv, pc["receiver"] = "take",
           NEW n \in Nat \ {0}, Consume(n), read + n <= mq_bytes_written,
           NEW k \in Nat, k = Len(received), k + 1 <= Len(sent),
           NEW len \in Nat, len = sent[k + 1], Is(read + n, k + 1, len),
           NEW from \in Int, Return(Payload(k + 1, len), from),
           UNCHANGED <<mq_detached, counters, sending, written>>, mqh_expected_bytes' \in Nat,
           from # NoPointer =>
               /\ from + len <= RingSize
               /\ len <= n
               /\ \A i \in 1 .. len : /\ from + i - 1 = Offset(read + n - len + i - 1)
                                      /\ stream[read + n - len + i] = Unit(k + 1, i, len)
    PROVE  IInv'
<1> DEFINE data == Payload(k + 1, len)
<1>1. /\ Types /\ Counts /\ Fifo
  BY Zenon DEF IInv
<1>2. /\ received \in Seq(Seq(Units)) /\ mqh_consume_pending \in Nat /\ mq_bytes_read \in Nat
      /\ mqh_length_word_complete \in [Proc -> BOOLEAN] /\ mqh_partial_bytes \in [Proc -> Nat]
      /\ pc \in [Proc -> Labels] /\ sent' = sent /\ stream' = stream
  BY Zenon, <1>1 DEF Types, sending
<1>3. data \in Seq(Units) /\ Len(data) = len /\ \A i \in 1 .. len : data[i] = Unit(k + 1, i, len)
  <2>1. \A i \in 1 .. len : Unit(k + 1, i, len) \in Units
    BY SMTT(40), Z3T(40), UnitTyped
  <2>2. data \in [1 .. len -> Units]
    BY Zenon, <2>1 DEF Payload
  <2>3. data \in Seq(Units) /\ Len(data) = len
    BY SMTT(40), Z3T(40), <2>2
  <2> QED
    BY Zenon, <2>3 DEF Payload
<1>4. /\ received' = Append(received, data) /\ datap' = from /\ mqh_buffer' = <<>>
      /\ mqh_length_word_complete' = [mqh_length_word_complete EXCEPT !["receiver"] = FALSE]
      /\ mqh_partial_bytes' = [mqh_partial_bytes EXCEPT !["receiver"] = 0]
      /\ pc' = [pc EXCEPT !["receiver"] = "idle"]
  BY Zenon DEF Return, Goto
<1> HIDE DEF data
<1>5. /\ received' \in Seq(Seq(Units)) /\ Len(received') = k + 1 /\ received'[k + 1] = data
      /\ received' # <<>>
  BY SMTT(40), Z3T(40), <1>2, <1>3, <1>4
<1>6. /\ mqh_length_word_complete' \in [Proc -> BOOLEAN]
      /\ mqh_partial_bytes' \in [Proc -> Nat]
      /\ mqh_length_word_complete'["sender"] = mqh_length_word_complete["sender"]
      /\ mqh_partial_bytes'["sender"] = mqh_partial_bytes["sender"]
      /\ ~mqh_length_word_complete'["receiver"] /\ mqh_partial_bytes'["receiver"] = 0
      /\ pc'["receiver"] = "idle"
  BY Zenon, <1>2, <1>4, Parties
<1>7. read \in Nat /\ read' = read + n /\ mqh_consume_pending' = mqh_consume_pending + n
  BY SMTT(40), Z3T(40), <1>2 DEF Consume, read, counters
<1>8. ReceiverAt'
  <2>1. Is(read, Len(received), sent[Len(received)])'
    BY Zenon, <1>2, <1>5, <1>7 DEF Is
  <2>2. read' > 0 /\ Len(received)' \in Nat
    BY SMTT(40), Z3T(40), <1>5, <1>7
  <2>3. Boundary(read, Len(received))'
    BY SMTT(40), Z3T(40), <2>1, <2>2 DEF Boundary
  <2> QED
    BY Zenon, <2>3, <1>4, <1>6 DEF ReceiverAt
<1>9. Fifo'
  BY Zenon, <1>1, <1>2, <1>4, FifoGrows DEF data
<1>10. Held'
  <2> SUFFICES ASSUME from # NoPointer
               PROVE  Held'
    BY Zenon, <1>4 DEF Held
  <2>1. len <= mqh_consume_pending'
    BY SMTT(40), Z3T(40), <1>2, <1>7
  <2>2. received'[Len(received')] = data /\ Len(data) = len
    BY Zenon, <1>3, <1>5
  <2>3. \A i \in 1 .. len : /\ datap' + i - 1 = Offset(read' - len + i - 1)
                            /\ data[i] = stream'[read' - len + i]
    <3>1. \A i \in 1 .. len : /\ from + i - 1 = Offset(read + n - len + i - 1)
                              /\ data[i] = stream[read + n - len + i]
      BY Zenon, <1>3
    <3>2. datap' = from /\ read' = read + n /\ stream' = stream
      BY Zenon, <1>2, <1>4, <1>7
    <3>3. ASSUME NEW i \in 1 .. len
          PROVE  /\ datap' + i - 1 = Offset(read' - len + i - 1)
                 /\ data[i] = stream'[read' - len + i]
      <4>1. /\ from + i - 1 = Offset(read + n - len + i - 1)
            /\ data[i] = stream[read + n - len + i]
        BY Zenon, <3>1
      <4>2. datap' + i - 1 = from + i - 1
        BY Zenon, <3>2
      <4>3. read' - len = read + (n - len)
        <5>1. read \in Nat /\ n \in Nat /\ len \in Nat
          BY Zenon, <1>7
        <5>2. (read + n) - len = read + (n - len)
          BY SMTT(40), Z3T(40), <5>1
        <5> QED
          BY Zenon, <5>2, <3>2
      <4>4. data[i] = stream'[read + n - len + i]
        BY Zenon, <4>1, <3>2
      <4> QED
        BY Zenon, <4>1, <4>2, <4>3, <4>4
    <3> QED
      BY Zenon, <3>3
  <2>4. datap' + len <= RingSize
    BY Zenon, <1>4
  <2> QED
    BY SMTT(40), Z3T(40), <2>1, <2>2, <2>3, <2>4, <1>5, <1>6 DEF Held
<1>11. datap' \in Int /\ mqh_buffer' \in Seq(Units)
  BY SMTT(40), Z3T(40), <1>4
<1> QED
  BY Zenon, <1>4, <1>5, <1>6, <1>8, <1>9, <1>10, <1>11, TakingStep

\* shm_mq_receive reads a length word.
LEMMA KeepsTakeLength ==
    ASSUME IInv, TakeLength
    PROVE  IInv'
<1>1. /\ Types /\ Counts /\ RingIntact /\ Runs /\ ReceiverAt /\ Fifo /\ Held
      /\ pc["receiver"] = "take" /\ ~mqh_length_word_complete["receiver"]
  BY Zenon DEF IInv, TakeLength
<1>2. /\ UNCHANGED <<mq_detached, counters, sending, written>>
      /\ read \in Nat /\ Len(received) \in Nat /\ Len(stream) \in Nat /\ RingSize \in Nat \ {0}
      /\ received \in Seq(Seq(Units)) /\ mqh_buffer \in Seq(Units)
      /\ mqh_length_word_complete \in [Proc -> BOOLEAN] /\ mqh_partial_bytes \in [Proc -> Nat]
      /\ pc \in [Proc -> Labels] /\ mq_bytes_written \in Nat /\ written \in Nat
      /\ mq_bytes_written <= Len(stream)
  <2>1. /\ mqh_send_pending \in Nat /\ mq_bytes_written \in Nat /\ Len(stream) = wb
    BY Zenon, <1>1 DEF Types, Counts
  <2>2. mq_bytes_written <= Len(stream)
    BY SMTT(40), Z3T(40), <2>1 DEF wb
  <2>3. UNCHANGED <<mq_detached, counters, sending, written>>
    BY Zenon DEF TakeLength
  <2>4. /\ received \in Seq(Seq(Units)) /\ mqh_buffer \in Seq(Units) /\ stream \in Seq(Units)
        /\ mqh_length_word_complete \in [Proc -> BOOLEAN] /\ mqh_partial_bytes \in [Proc -> Nat]
        /\ pc \in [Proc -> Labels] /\ written \in Nat
        /\ mq_bytes_read \in Nat /\ mqh_consume_pending \in Nat
    BY Zenon, <1>1 DEF Types
  <2>5. read \in Nat /\ Len(received) \in Nat /\ Len(stream) \in Nat /\ RingSize \in Nat \ {0}
    BY SMTT(40), Z3T(40), <2>4, MqAssumption DEF read
  <2> QED
    BY Zenon, <2>1, <2>2, <2>3, <2>4, <2>5
<1>3. PICK k \in Nat : k = Len(received)
  BY Zenon, <1>2
<1>4. /\ Contiguous \in Nat \ {0} /\ read + Contiguous <= mq_bytes_written
      /\ Offset(read) + Contiguous <= RingSize /\ Offset(read) \in Nat
  <2>1. LeftToReceive \in Nat \ {0}
    BY SMTT(40), Z3T(40), <1>1 DEF LeftToReceive
  <2>2. Contiguous \in Nat /\ Offset(read) \in Nat
    BY SMTT(40), Z3T(40), <2>1, <1>1, <1>2, SomeToTake, OffsetRange
  <2> QED
    BY SMTT(40), Z3T(40), <2>1, <2>2, <1>1, <1>2, SomeToTake
<1>5. /\ Boundary(read, k) /\ mqh_partial_bytes["receiver"] = 0 /\ mqh_buffer = <<>>
  BY Zenon, <1>1, <1>3 DEF ReceiverAt
<1>6. Is(read + 1, k + 1, 0)
  <2>1. read < Len(stream)
    BY SMTT(40), Z3T(40), <1>2, <1>4
  <2> QED
    BY Zenon, <2>1, <1>1, <1>2, <1>5, MessageStart
<1>7. PICK len \in Nat : len = sent[k + 1]
  BY SMTT(40), Z3T(40), <1>6, <1>1 DEF Is, Types
<1>8. k + 1 <= Len(sent) /\ stream[read + 1] = Unit(k + 1, 0, len)
  BY SMTT(40), Z3T(40), <1>6, <1>7, <1>3 DEF Is
<1>9. \A i \in Nat : i < Contiguous =>
         /\ read + i + 1 \in 1 .. Len(stream)
         /\ Offset(read) + i < RingSize
         /\ mq_ring[Offset(read) + i] = stream[read + i + 1]
  <2> SUFFICES ASSUME NEW i \in Nat, i < Contiguous
               PROVE  /\ read + i + 1 \in 1 .. Len(stream)
                      /\ Offset(read) + i < RingSize
                      /\ mq_ring[Offset(read) + i] = stream[read + i + 1]
    BY Zenon
  <2>1. read + i < mq_bytes_written /\ Offset(read) + i < RingSize
    BY SMTT(40), Z3T(40), <1>2, <1>4
  <2> QED
    BY Zenon, <2>1, <1>1, InRing
<1>10. mq_ring[Offset(read)].len = len
  <2>1. mq_ring[Offset(read) + 0] = stream[read + 0 + 1]
    BY SMTT(40), Z3T(40), <1>4, <1>9
  <2>2. mq_ring[Offset(read)] = stream[read + 1]
    BY SMTT(40), Z3T(40), <2>1, <1>2, <1>4
  <2> QED
    BY SMTT(40), Z3T(40), <2>2, <1>8 DEF Unit
<1>11. CASE Contiguous >= 1 + len
  <2>1. Consume(1 + len) /\ Return(Ring(1, len), Offset(read) + 1) /\ UNCHANGED mqh_expected_bytes
    BY Zenon, <1>1, <1>10, <1>11 DEF TakeLength
  <2>2. \A i \in 1 .. len : /\ Is(read + 1 + i, k + 1, i)
                            /\ stream[read + 1 + i] = Unit(k + 1, i, len)
                            /\ mq_ring[Offset(read) + 1 + i - 1] = Unit(k + 1, i, len)
                            /\ Offset(read) + 1 + i - 1 = Offset(read + i)
    <3> SUFFICES ASSUME NEW i \in 1 .. len
                 PROVE  /\ Is(read + 1 + i, k + 1, i)
                        /\ stream[read + 1 + i] = Unit(k + 1, i, len)
                        /\ mq_ring[Offset(read) + 1 + i - 1] = Unit(k + 1, i, len)
                        /\ Offset(read) + 1 + i - 1 = Offset(read + i)
      BY Zenon
    <3>1. i \in Nat /\ i < Contiguous /\ Offset(read) + 1 + i - 1 = Offset(read) + i
          /\ read + 1 + i = read + i + 1 /\ 0 + i = i /\ i <= sent[k + 1]
      BY SMTT(40), Z3T(40), <1>2, <1>4, <1>7, <1>11
    <3>2. /\ read + i + 1 \in 1 .. Len(stream)
          /\ Offset(read) + i < RingSize
          /\ mq_ring[Offset(read) + i] = stream[read + i + 1]
      BY Zenon, <3>1, <1>9
    <3>3. Is(read + 1 + i, k + 1, 0 + i)
      <4>1. read + 1 \in 1 .. Len(stream) /\ read + 1 + i <= Len(stream)
        BY SMTT(40), Z3T(40), <3>1, <3>2, <1>2
      <4>2. \A j \in Nat : read + 1 + j <= Len(stream) /\ 0 + j <= sent[k + 1] => Is(read + 1 + j, k + 1, 0 + j)
        BY SMTT(40), Z3T(40), <4>1, <1>1, <1>6, RunOn
      <4> QED
        BY Zenon, <4>1, <4>2, <3>1
    <3>4. Is(read + 1 + i, k + 1, i) /\ stream[read + 1 + i] = Unit(k + 1, i, len)
      BY Zenon, <3>1, <3>3, <1>7 DEF Is
    <3>5. Offset(read + i) = Offset(read) + i
      BY Zenon, <3>1, <3>2, <1>2, OffsetNext
    <3> QED
      BY Zenon, <3>1, <3>2, <3>4, <3>5
  <2>3. Ring(1, len) = Payload(k + 1, len)
    BY Zenon, <2>2 DEF Ring, Payload
  <2>4. Is(read + (1 + len), k + 1, len)
    <3>1. read + (1 + len) = read + 1 + len /\ (len = 0 => read + 1 + len = read + 1) /\ (len # 0 => len \in 1 .. len)
      BY SMTT(40), Z3T(40), <1>2
    <3> QED
      BY Zenon, <3>1, <2>2, <1>6
  <2>5. /\ Offset(read) + 1 + len <= RingSize /\ len <= 1 + len
        /\ Offset(read) + 1 \in Int /\ 1 + len \in Nat \ {0}
        /\ read + (1 + len) <= mq_bytes_written
    BY SMTT(40), Z3T(40), <1>2, <1>4, <1>11
  <2>6. \A i \in 1 .. len : /\ Offset(read) + 1 + i - 1 = Offset(read + (1 + len) - len + i - 1)
                            /\ stream[read + (1 + len) - len + i] = Unit(k + 1, i, len)
    <3> SUFFICES ASSUME NEW i \in 1 .. len
                 PROVE  /\ Offset(read) + 1 + i - 1 = Offset(read + (1 + len) - len + i - 1)
                        /\ stream[read + (1 + len) - len + i] = Unit(k + 1, i, len)
      BY Zenon
    <3>1. read + (1 + len) - len + i - 1 = read + i /\ read + (1 + len) - len + i = read + 1 + i
      BY SMTT(40), Z3T(40), <1>2
    <3> QED
      BY Zenon, <3>1, <2>2
  <2>7. mqh_expected_bytes' \in Nat /\ Return(Payload(k + 1, len), Offset(read) + 1)
    BY Zenon, <2>1, <2>3, <1>1 DEF Types
  <2> QED
    BY ZenonT(40), <2>1, <2>4, <2>5, <2>6, <2>7, <1>1, <1>2, <1>3, <1>7, <1>8, Returned
<1>12. CASE ~(Contiguous >= 1 + len)
  <2>1. /\ Consume(1) /\ mqh_expected_bytes' = len
        /\ mqh_length_word_complete' = [mqh_length_word_complete EXCEPT !["receiver"] = TRUE]
        /\ pc' = [pc EXCEPT !["receiver"] = "available"]
        /\ UNCHANGED <<mqh_partial_bytes, mqh_buffer, datap, received>>
    BY Zenon, <1>1, <1>10, <1>12 DEF TakeLength, Goto
  <2>2. len > 0 /\ read + 1 <= mq_bytes_written
    BY SMTT(40), Z3T(40), <1>2, <1>4, <1>12
  <2>3. /\ mqh_length_word_complete' \in [Proc -> BOOLEAN]
        /\ mqh_length_word_complete'["sender"] = mqh_length_word_complete["sender"]
        /\ mqh_length_word_complete'["receiver"]
    BY Zenon, <2>1, <1>2, Parties
  <2>4. read' = read + 1 /\ sent' = sent /\ stream' = stream
    BY SMTT(40), Z3T(40), <2>1, <1>1, <1>2 DEF Consume, read, counters, sending, Types
  <2>5. ReceiverAt'
    <3>1. Is(read, Len(received) + 1, mqh_partial_bytes["receiver"])'
      BY Zenon, <2>1, <2>4, <1>3, <1>5, <1>6 DEF Is
    <3>2. mqh_buffer' = [i \in 1 .. mqh_partial_bytes'["receiver"] |-> Unit(Len(received') + 1, i, sent'[Len(received') + 1])]
      BY SMTT(40), Z3T(40), <2>1, <1>5
    <3> QED
      BY SMTT(40), Z3T(40), <2>1, <2>2, <2>3, <2>4, <3>1, <3>2, <1>2, <1>3, <1>5, <1>7 DEF ReceiverAt
  <2>6. Fifo'
    BY Zenon, <2>1, <2>4, <1>1 DEF Fifo
  <2>7. Held'
    BY Zenon, <2>1, <1>1 DEF Held
  <2>8. datap' \in Int
    BY Zenon, <2>1, <1>1 DEF Types
  <2> QED
    BY Zenon, <2>1, <2>2, <2>3, <2>5, <2>6, <2>7, <2>8, <1>1, <1>2, TakingStep
<1> QED
  BY Zenon, <1>11, <1>12

\* shm_mq_receive reads the units of a message, at once or into mqh_buffer.
LEMMA KeepsTakeData ==
    ASSUME IInv, TakeData
    PROVE  IInv'
<1>1. /\ Types /\ Counts /\ RingIntact /\ Runs /\ ReceiverAt /\ Fifo /\ Held
      /\ pc["receiver"] = "take" /\ mqh_length_word_complete["receiver"]
  BY Zenon DEF IInv, TakeData
<1>2. /\ UNCHANGED <<mq_detached, counters, sending, written, mqh_expected_bytes>>
      /\ read \in Nat /\ Len(received) \in Nat /\ Len(stream) \in Nat /\ RingSize \in Nat \ {0}
      /\ received \in Seq(Seq(Units)) /\ mqh_buffer \in Seq(Units) /\ mqh_expected_bytes \in Nat
      /\ mqh_length_word_complete \in [Proc -> BOOLEAN] /\ mqh_partial_bytes \in [Proc -> Nat]
      /\ pc \in [Proc -> Labels] /\ mq_bytes_written \in Nat /\ written \in Nat
      /\ mq_bytes_written <= Len(stream) /\ read <= mq_bytes_written
  <2>1. /\ mqh_send_pending \in Nat /\ mq_bytes_written \in Nat /\ Len(stream) = wb
    BY Zenon, <1>1 DEF Types, Counts
  <2>2. mq_bytes_written <= Len(stream) /\ read <= mq_bytes_written
    BY SMTT(40), Z3T(40), <2>1, <1>1 DEF wb, Counts
  <2> QED
    BY SMTT(40), Z3T(40), <2>2, <1>1, MqAssumption DEF TakeData, Types, read
<1>3. PICK k \in Nat, p \in Nat : k = Len(received) /\ p = mqh_partial_bytes["receiver"]
  BY Zenon, <1>2, Parties
<1>4. /\ read > 0 /\ Is(read, k + 1, p) /\ mqh_expected_bytes = sent[k + 1]
      /\ p < mqh_expected_bytes
      /\ mqh_buffer = [i \in 1 .. p |-> Unit(k + 1, i, sent[k + 1])]
  BY Zenon, <1>1, <1>3 DEF ReceiverAt
<1>5. PICK len \in Nat : len = mqh_expected_bytes /\ len = sent[k + 1] /\ p < len
  BY Zenon, <1>2, <1>4
<1>6. /\ Contiguous \in Nat \ {0} /\ read + Contiguous <= mq_bytes_written
      /\ Offset(read) + Contiguous <= RingSize /\ Offset(read) \in Nat
      /\ LeftToReceive = len - p
  <2>1. LeftToReceive \in Nat \ {0} /\ LeftToReceive = len - p
    BY SMTT(40), Z3T(40), <1>1, <1>3, <1>5 DEF LeftToReceive
  <2>2. Contiguous \in Nat /\ Offset(read) \in Nat
    BY SMTT(40), Z3T(40), <2>1, <1>1, <1>2, SomeToTake, OffsetRange
  <2> QED
    BY SMTT(40), Z3T(40), <2>1, <2>2, <1>1, <1>2, SomeToTake
<1>7. PICK n \in Nat \ {0} : n = Min(Contiguous, LeftToReceive) /\ n <= Contiguous /\ p + n <= len
  <2>1. /\ Min(Contiguous, LeftToReceive) \in Nat \ {0}
        /\ Min(Contiguous, LeftToReceive) <= Contiguous
        /\ p + Min(Contiguous, LeftToReceive) <= len
    BY SMTT(40), Z3T(40), <1>5, <1>6 DEF Min
  <2> QED
    BY Zenon, <2>1
<1>8. /\ read + n <= mq_bytes_written /\ Offset(read) + n <= RingSize
      /\ read \in 1 .. Len(stream) /\ k + 1 <= Len(sent)
  <2>1. k + 1 \in 1 .. Len(sent) /\ Len(sent) \in Nat
    BY SMTT(40), Z3T(40), <1>1, <1>4 DEF Is, Types
  <2> QED
    BY SMTT(40), Z3T(40), <2>1, <1>2, <1>4, <1>6, <1>7
<1>9. \A i \in 1 .. n : /\ Is(read + i, k + 1, p + i)
                        /\ stream[read + i] = Unit(k + 1, p + i, len)
                        /\ mq_ring[Offset(read) + 0 + i - 1] = Unit(k + 1, p + i, len)
                        /\ Offset(read) + i - 1 = Offset(read + i - 1)
  <2> SUFFICES ASSUME NEW i \in 1 .. n
               PROVE  /\ Is(read + i, k + 1, p + i)
                      /\ stream[read + i] = Unit(k + 1, p + i, len)
                      /\ mq_ring[Offset(read) + 0 + i - 1] = Unit(k + 1, p + i, len)
                      /\ Offset(read) + i - 1 = Offset(read + i - 1)
    BY Zenon
  <2>1. PICK j \in Nat : j = i - 1
    <3>1. i - 1 \in Nat
      BY SMTT(40), Z3T(40)
    <3> QED
      BY Zenon, <3>1
  <2>2. /\ read + j < mq_bytes_written /\ Offset(read) + j < RingSize
        /\ read + j + 1 = read + i /\ Offset(read) + 0 + i - 1 = Offset(read) + j
        /\ Offset(read) + i - 1 = Offset(read) + j /\ read + i - 1 = read + j
        /\ i \in Nat /\ read + i <= Len(stream) /\ p + i <= len
    <3>1. /\ read \in Nat /\ Offset(read) \in Nat /\ RingSize \in Nat /\ mq_bytes_written \in Nat
          /\ Len(stream) \in Nat /\ mq_bytes_written <= Len(stream) /\ i \in Nat /\ i <= n
      BY SMTT(40), Z3T(40), <1>2, <1>6
    <3>2. read + j < mq_bytes_written /\ Offset(read) + j < RingSize
      BY SMTT(40), Z3T(40), <3>1, <2>1, <1>8
    <3>3. read + i <= Len(stream) /\ p + i <= len
      BY SMTT(40), Z3T(40), <3>1, <1>7, <1>8
    <3> QED
      BY SMTT(40), Z3T(40), <3>1, <3>2, <3>3, <2>1
  <2>3. mq_ring[Offset(read) + j] = stream[read + j + 1]
    BY Zenon, <2>2, <1>1, InRing
  <2>4. Offset(read + j) = Offset(read) + j
    BY Zenon, <2>2, <1>2, OffsetNext
  <2>5. Is(read + i, k + 1, p + i)
    <3>1. \A o \in Nat : read + o <= Len(stream) /\ p + o <= sent[k + 1] => Is(read + o, k + 1, p + o)
      BY SMTT(40), Z3T(40), <1>1, <1>4, <1>8, RunOn
    <3> QED
      BY Zenon, <3>1, <2>2, <1>5
  <2>6. stream[read + i] = Unit(k + 1, p + i, len)
    BY Zenon, <2>5, <1>5 DEF Is
  <2> QED
    BY Zenon, <2>2, <2>3, <2>4, <2>5, <2>6
<1> DEFINE data == mqh_buffer \o Ring(0, n)
<1>10. data \in Seq(Units) /\ Len(data) = p + n /\ \A i \in 1 .. p + n : data[i] = Unit(k + 1, i, len)
  <2> DEFINE t == Ring(0, n)
  <2>1. \A i \in 1 .. n : t[i] = Unit(k + 1, p + i, len)
    BY Zenon, <1>9 DEF Ring
  <2>2. t \in [1 .. n -> Units]
    <3>1. \A i \in 1 .. n : Unit(k + 1, p + i, len) \in Units
      BY SMTT(40), Z3T(40) DEF Unit, Units
    <3> QED
      BY Zenon, <3>1, <1>9 DEF Ring
  <2>3. Len(mqh_buffer) = p /\ \A i \in 1 .. p : mqh_buffer[i] = Unit(k + 1, i, len)
    BY SMTT(40), Z3T(40), <1>4, <1>5
  <2> HIDE DEF t
  <2>4. /\ mqh_buffer \o t \in Seq(Units) /\ Len(mqh_buffer \o t) = Len(mqh_buffer) + n
        /\ \A i \in 1 .. Len(mqh_buffer) : (mqh_buffer \o t)[i] = mqh_buffer[i]
        /\ \A i \in 1 .. n : (mqh_buffer \o t)[Len(mqh_buffer) + i] = t[i]
    <3>1. mqh_buffer \in Seq(Units) /\ n \in Nat
      BY Zenon, <1>2
    <3> QED
      BY SMTT(40), Z3T(40), <3>1, <2>2, Extend
  <2>5. ASSUME NEW i \in 1 .. p + n
        PROVE  (mqh_buffer \o t)[i] = Unit(k + 1, i, len)
    <3>1. CASE i <= p
      BY SMTT(40), Z3T(40), <3>1, <2>3, <2>4
    <3>2. CASE i > p
      <4>1. PICK j \in 1 .. n : i = p + j
        <5>1. i - p \in 1 .. n /\ i = p + (i - p)
          BY SMTT(40), Z3T(40), <3>2
        <5> QED
          BY Zenon, <5>1
      <4> QED
        BY Zenon, <4>1, <2>1, <2>3, <2>4
    <3>3. i <= p \/ i > p
      BY SMTT(40), Z3T(40)
    <3> QED
      BY Zenon, <3>1, <3>2, <3>3
  <2> QED
    BY Zenon, <2>3, <2>4, <2>5 DEF t
<1>11. /\ Consume(n)
       /\ IF p + n = len
          THEN Return(data, IF NotCopied THEN Offset(read) ELSE NoPointer)
          ELSE /\ mqh_partial_bytes' = [mqh_partial_bytes EXCEPT !["receiver"] = p + n]
               /\ mqh_buffer' = data
               /\ pc' = [pc EXCEPT !["receiver"] = "available"]
               /\ UNCHANGED <<mqh_length_word_complete, datap, received>>
  BY Zenon, <1>3, <1>5, <1>7 DEF TakeData, Goto
<1> HIDE DEF data
<1>12. CASE p + n = len
  <2>1. data = Payload(k + 1, len)
    <3>1. DOMAIN data = 1 .. len
      BY SMTT(40), Z3T(40), <1>10, <1>12
    <3>2. data \in [1 .. len -> Units]
      BY SMTT(40), Z3T(40), <1>10, <3>1
    <3> QED
      BY Zenon, <1>10, <1>12, <3>1, <3>2 DEF Payload
  <2>2. PICK from \in Int : /\ from = IF p = 0 THEN Offset(read) ELSE NoPointer
                            /\ Return(Payload(k + 1, len), from)
    <3>1. (IF p = 0 THEN Offset(read) ELSE NoPointer) \in Int
      BY SMTT(40), Z3T(40), <1>6 DEF NoPointer
    <3> QED
      BY Zenon, <3>1, <2>1, <1>3, <1>11, <1>12 DEF NotCopied
  <2>3. Is(read + n, k + 1, len)
    BY SMTT(40), Z3T(40), <1>9, <1>12
  <2>4. from # NoPointer =>
            /\ from + len <= RingSize
            /\ len <= n
            /\ \A i \in 1 .. len : /\ from + i - 1 = Offset(read + n - len + i - 1)
                                   /\ stream[read + n - len + i] = Unit(k + 1, i, len)
    <3> SUFFICES ASSUME from # NoPointer
                 PROVE  /\ from + len <= RingSize
                        /\ len <= n
                        /\ \A i \in 1 .. len :
                              /\ from + i - 1 = Offset(read + n - len + i - 1)
                              /\ stream[read + n - len + i] = Unit(k + 1, i, len)
      BY Zenon
    <3>1. p = 0 /\ from = Offset(read) /\ len = n
      BY SMTT(40), Z3T(40), <2>2, <1>12
    <3>2. from + len <= RingSize /\ len <= n
      BY SMTT(40), Z3T(40), <3>1, <1>8
    <3>3. ASSUME NEW i \in 1 .. len
          PROVE  /\ from + i - 1 = Offset(read + n - len + i - 1)
                 /\ stream[read + n - len + i] = Unit(k + 1, i, len)
      <4>1. read + n - len + i - 1 = read + i - 1 /\ read + n - len + i = read + i /\ p + i = i
        BY SMTT(40), Z3T(40), <3>1, <1>2
      <4> QED
        BY Zenon, <3>1, <4>1, <1>9
    <3> QED
      BY Zenon, <3>2, <3>3
  <2>5. mqh_expected_bytes' \in Nat /\ UNCHANGED <<mq_detached, counters, sending, written>>
    BY Zenon, <1>2
  <2>6. /\ pc["receiver"] = "take" /\ Consume(n) /\ read + n <= mq_bytes_written
        /\ k = Len(received) /\ k + 1 <= Len(sent) /\ len = sent[k + 1]
    BY Zenon, <1>1, <1>3, <1>5, <1>8, <1>11
  <2>7. Return(Payload(k + 1, len), from)
    BY Zenon, <2>2
  <2> QED
    BY Zenon, <2>3, <2>4, <2>5, <2>6, <2>7, Returned
<1>13. CASE p + n # len
  <2>1. /\ mqh_partial_bytes' = [mqh_partial_bytes EXCEPT !["receiver"] = p + n]
        /\ mqh_buffer' = data
        /\ pc' = [pc EXCEPT !["receiver"] = "available"]
        /\ UNCHANGED <<mqh_length_word_complete, datap, received>>
    BY Zenon, <1>11, <1>13
  <2>2. /\ mqh_partial_bytes' \in [Proc -> Nat]
        /\ mqh_partial_bytes'["sender"] = mqh_partial_bytes["sender"]
        /\ mqh_partial_bytes'["receiver"] = p + n
    BY SMTT(40), Z3T(40), <2>1, <1>2, Parties
  <2>3. read' = read + n /\ sent' = sent /\ stream' = stream /\ mqh_expected_bytes' = len
    <3>1. read' = read + n
      BY SMTT(40), Z3T(40), <1>1, <1>2, <1>5, <1>11 DEF Consume, read, counters, sending, Types
    <3> QED
      BY Zenon, <3>1, <1>2, <1>5 DEF sending
  <2>4. ReceiverAt'
    <3>1. Is(read, Len(received) + 1, mqh_partial_bytes["receiver"])'
      <4>1. Is(read + n, k + 1, p + n)
        BY SMTT(40), Z3T(40), <1>9
      <4> QED
        BY Zenon, <4>1, <2>1, <2>2, <2>3, <1>3 DEF Is
    <3>2. data = [i \in 1 .. p + n |-> Unit(k + 1, i, len)]
      <4>1. DOMAIN data = 1 .. p + n
        BY SMTT(40), Z3T(40), <1>10
      <4>2. data \in [1 .. p + n -> Units]
        BY SMTT(40), Z3T(40), <1>10, <4>1
      <4> QED
        BY Zenon, <1>10, <4>1, <4>2
    <3>3. read' > 0 /\ p + n < len
      <4>1. p + n < len
        BY SMTT(40), Z3T(40), <1>7, <1>13
      <4>2. read \in Nat /\ read' = read + n
        BY Zenon, <2>3, <1>2
      <4> QED
        BY SMTT(40), Z3T(40), <4>1, <4>2
    <3>4. /\ mqh_length_word_complete'["receiver"]
          /\ Len(received)' = k
          /\ mqh_expected_bytes' = sent'[k + 1]
      BY Zenon, <2>1, <2>3, <1>1, <1>3, <1>5
    <3>5. mqh_buffer' = [i \in 1 .. mqh_partial_bytes'["receiver"] |-> Unit(k + 1, i, sent'[k + 1])]
      BY Zenon, <3>2, <2>1, <2>2, <2>3, <1>5
    <3> QED
      BY Zenon, <3>1, <3>3, <3>4, <3>5, <2>2, <2>3 DEF ReceiverAt
  <2>5. Fifo'
    BY Zenon, <2>1, <2>3, <1>1 DEF Fifo
  <2>6. Held'
    BY Zenon, <2>1, <1>1 DEF Held
  <2>7. /\ datap' \in Int /\ mqh_buffer' \in Seq(Units) /\ received' \in Seq(Seq(Units))
        /\ mqh_expected_bytes' \in Nat /\ mqh_length_word_complete' \in [Proc -> BOOLEAN]
        /\ mqh_length_word_complete'["sender"] = mqh_length_word_complete["sender"]
    BY Zenon, <2>1, <2>3, <1>1, <1>2, <1>10 DEF Types
  <2> QED
    BY Zenon, <2>1, <2>2, <2>4, <2>5, <2>6, <2>7, <1>1, <1>2, <1>8, <1>11, TakingStep
<1> QED
  BY Zenon, <1>12, <1>13

-----------------------------------------------------------------------------
\* Every step keeps the invariant of the data.
LEMMA InvStep ==
    ASSUME IInv, [Next]_vars
    PROVE  IInv'
<1>1. CASE BackgroundWorker
  BY <1>1, KeepsLatches
<1>2. CASE shm_mq_send
  BY <1>2, KeepsSend
<1>3. ASSUME NEW p \in Proc,
             \/ Step(p) \/ UnrelatedLatch(p) \/ shm_mq_attach(p)
             \/ shm_mq_detach(p) \/ shm_mq_detach_internal(p)
      PROVE  IInv'
  <2>1. CASE UnrelatedLatch(p)
    BY Zenon, <2>1, KeepsLatches
  <2>2. CASE shm_mq_attach(p) \/ NotifyPeer(p) \/ Awake(p)
    BY Zenon, <2>2, KeepsNotify
  <2>3. CASE shm_mq_wait_internal(p) \/ shm_mq_counterparty_gone(p)
    BY Zenon, <2>3, KeepsWait
  <2>4. CASE shm_mq_detach(p)
    BY Zenon, <2>4, KeepsDetach
  <2>5. CASE shm_mq_detach_internal(p)
    BY <2>5, KeepsDetachInternal
  <2>6. CASE Sender
    BY Zenon, <2>6, KeepsLookForSpace, KeepsRingFull, KeepsWriteChunk, KeepsFinishSend DEF Sender
  <2>7. CASE Receiver
    BY Zenon, <2>7, KeepsReceive, KeepsTakeLength, KeepsTakeData DEF Receiver
  <2> QED
    BY Zenon, <1>3, <2>1, <2>2, <2>3, <2>4, <2>5, <2>6, <2>7 DEF Step
<1>4. CASE UNCHANGED vars
  <2>1. /\ UNCHANGED <<counters, sending, receiving, pc, mq_detached, progress>>
    BY Zenon, <1>4 DEF vars, life, counters, progress, sending, receiving
  <2>2. SenderAt'
    BY Zenon, <2>1, SenderKeeps DEF IInv, sending, progress
  <2> QED
    BY Zenon, <2>1, <2>2, QuietStep DEF IInv, Types, progress
<1> QED
  BY Zenon, <1>1, <1>2, <1>3, <1>4 DEF Next

\* The invariant of the data holds.
LEMMA Invariance == Spec => []IInv
<1>1. Init => IInv
  BY InvInit
<1>2. IInv /\ [Next]_vars => IInv'
  BY InvStep
<1> QED
  BY <1>1, <1>2, PTL DEF Spec

\* The sender never overwrites what the receiver may still read, wherever the counters,
\* the pending amounts and the end of the ring are.
THEOREM RingStaysIntact == Spec => []RingIntact
<1>1. IInv => RingIntact
  BY Zenon DEF IInv
<1> QED
  BY <1>1, Invariance, PTL

\* Messages arrive whole, unchanged and in the order they were sent, through partial
\* sends, partial receives and wraps.
THEOREM MessagesArriveInOrder == Spec => []Fifo
<1>1. IInv => Fifo
  BY Zenon DEF IInv
<1> QED
  BY <1>1, Invariance, PTL

\* The memory that shm_mq_receive returned a pointer into is not written to until the
\* next call.
THEOREM ReturnedMessageStays == Spec => []MessageStaysValid
<1>1. IInv => MessageStaysValid
  <2> SUFFICES ASSUME IInv, datap # NoPointer
               PROVE  MessageStaysValid
    BY Zenon DEF MessageStaysValid
  <2>1. Types /\ Counts /\ RingIntact /\ Held
    BY Zenon DEF IInv
  <2>2. PICK data \in Seq(Units) : data = received[Len(received)]
    BY SMTT(40), Z3T(40), <2>1 DEF Held, Types
  <2>3. /\ datap + Len(data) <= RingSize /\ Len(data) <= mqh_consume_pending
        /\ \A i \in 1 .. Len(data) : /\ datap + i - 1 = Offset(read - Len(data) + i - 1)
                                     /\ data[i] = stream[read - Len(data) + i]
    BY Zenon, <2>1, <2>2 DEF Held
  <2>4. ASSUME NEW i \in DOMAIN data
        PROVE  mq_ring[datap + i - 1] = data[i]
    <3>1. /\ i \in 1 .. Len(data) /\ Len(data) \in Nat /\ mqh_consume_pending \in Nat
          /\ mq_bytes_read \in Nat /\ mq_bytes_written \in Nat /\ mqh_send_pending \in Nat
          /\ read <= mq_bytes_written
      BY SMTT(40), Z3T(40), <2>1 DEF Types, Counts
    <3>2. PICK x \in Nat : x = read - Len(data) + i - 1
      <4>1. read - Len(data) + i - 1 \in Nat
        BY SMTT(40), Z3T(40), <3>1, <2>3 DEF read
      <4> QED
        BY Zenon, <4>1
    <3>3. x \in mq_bytes_read .. wb - 1 /\ x + 1 = read - Len(data) + i
      BY SMTT(40), Z3T(40), <3>1, <3>2, <2>3 DEF read, wb
    <3>4. mq_ring[Offset(x)] = stream[x + 1]
      BY Zenon, <3>3, <2>1 DEF RingIntact
    <3> QED
      BY Zenon, <3>1, <3>2, <3>3, <3>4, <2>3
  <2> QED
    BY Zenon, <2>2, <2>3, <2>4 DEF MessageStaysValid
<1> QED
  BY <1>1, Invariance, PTL

-----------------------------------------------------------------------------
\* Nobody waits at the start.
LEMMA WakesInit == Init => WInv
<1> SUFFICES ASSUME Init PROVE WInv
  OBVIOUS
<1>1. pc = [p \in Proc |-> "new"] /\ "sender" \in Proc /\ "receiver" \in Proc
  BY Zenon DEF Init, Proc
<1>2. WTypes
  BY Zenon, <1>1 DEF Init, WTypes, Proc, Reading, Waiting, Leaving
<1>3. Placed
  BY Zenon, <1>1 DEF Init, Placed, PlacedAt, Proc, Reading, Waiting, Calling
<1>4. ToldOfDetach /\ ToldOfWorker /\ ToldOfPeer /\ ToldOfSpace /\ ToldOfData
  BY Zenon, <1>1 DEF Init, ToldOfDetach, ToldOfWorker, ToldOfPeer, ToldOfSpace,
     ToldOfData, DetachTold, PeerTold, PassedDetached, PassedStatus, PassedSet
<1>5. SenderFilled /\ ReceiverDrained /\ DetachedFor /\ ReceiverTold
  BY Zenon, <1>1 DEF Init, SenderFilled, ReceiverDrained, DetachedFor, ReceiverTold
<1> QED
  BY Zenon, <1>2, <1>3, <1>4, <1>5 DEF WInv

\* Every step keeps the invariant of the wake-ups.
LEMMA WakesStep ==
    ASSUME IInv, WInv, [Next]_vars
    PROVE  WInv'
<1>0. Types
  BY Zenon DEF IInv
<1>1. CASE BackgroundWorker
  BY Zenon, <1>0, <1>1, WakesWorker
<1>2. CASE shm_mq_send
  BY Zenon, <1>0, <1>2, WakesSend
<1>3. ASSUME NEW p \in Proc,
             \/ Step(p) \/ UnrelatedLatch(p) \/ shm_mq_attach(p)
             \/ shm_mq_detach(p) \/ shm_mq_detach_internal(p)
      PROVE  WInv'
  <2>1. CASE UnrelatedLatch(p) \/ shm_mq_attach(p)
    BY Zenon, <1>0, <2>1, WakesLatch, WakesAttach
  <2>2. CASE NotifyPeer(p) \/ Awake(p)
    BY Zenon, <1>0, <2>2, WakesNotify, WakesAwake
  <2>3. CASE shm_mq_wait_internal(p) \/ shm_mq_counterparty_gone(p)
    BY Zenon, <1>0, <2>3, WaitScans, GoneScans
  <2>4. CASE shm_mq_detach(p) \/ shm_mq_detach_internal(p)
    BY Zenon, <1>0, <2>4, WakesDetach, WakesDetachInternal
  <2>5. CASE Sender
    BY Zenon, <1>0, <2>5, WakesLookForSpace, WakesRingFull, WakesWriteChunk, WakesFinishSend
       DEF Sender
  <2>6. CASE Receiver
    BY Zenon, <1>0, <2>6, WakesReceive, WakesGiveBack, WakesLookForData, WakesTakeLength,
       WakesTakeData DEF Receiver
  <2> QED
    BY Zenon, <1>3, <2>1, <2>2, <2>3, <2>4, <2>5, <2>6 DEF Step
<1>4. CASE UNCHANGED vars
  <2>1. /\ UNCHANGED <<worker, early, bgwStatus, latch, mq_set, mq_detached, mq_bytes_read>>
        /\ UNCHANGED <<mq_bytes_written, pc, mqh_counterparty_attached, mqh_send_pending>>
        /\ UNCHANGED <<rb, mqh_consume_pending, mqh_expected_bytes, written, seen, progress>>
    BY Zenon, <1>4 DEF vars, life, counters, sending, receiving
  <2>2. WTypes' /\ Placed'
    <3>1. WTypes'
      BY Zenon, <2>1 DEF WInv, WTypes
    <3>2. Placed'
      BY ZenonT(40), <2>1 DEF WInv, Placed, PlacedAt
    <3> QED
      BY Zenon, <3>1, <3>2
  <2>3. ToldOfDetach' /\ ToldOfWorker' /\ ToldOfPeer' /\ ToldOfSpace' /\ ToldOfData'
    BY ZenonT(40), <2>1 DEF WInv, ToldOfDetach, ToldOfWorker, ToldOfPeer, ToldOfSpace, ToldOfData,
       DetachTold, PeerTold, PassedDetached, PassedStatus, PassedSet
  <2>4. SenderFilled' /\ DetachedFor'
    BY Zenon, <2>1 DEF WInv, SenderFilled, DetachedFor, Silent
  <2>5. ReceiverDrained' /\ ReceiverTold'
    BY Zenon, <2>1 DEF WInv, ReceiverDrained, ReceiverTold, TooLittle, Enough,
       LeftToReceive, read, progress
  <2> QED
    BY Zenon, <2>2, <2>3, <2>4, <2>5 DEF WInv
<1> QED
  BY Zenon, <1>1, <1>2, <1>3, <1>4 DEF Next

\* Along the stream the numbers of the messages do not go down.
Ascending == \A n, n2 \in 1 .. Len(stream) : n <= n2 => stream[n].msg <= stream[n2].msg

\* The message a unit belongs to is in the unit.
LEMMA MessageOf ==
    ASSUME Types, NEW n, NEW m \in Nat, NEW i \in Nat, Is(n, m, i)
    PROVE  stream[n].msg = m /\ m \in 1 .. Len(sent)
<1>1. m \in 1 .. Len(sent) /\ stream[n] = Unit(m, i, sent[m])
  BY Zenon DEF Is
<1>2. sent[m] \in Nat
  BY SMTT(40), Z3T(40), <1>1 DEF Types
<1>3. Unit(m, i, sent[m]).msg = m
  BY SMTT(40), Z3T(40), <1>2, UnitFields
<1> QED
  BY Zenon, <1>1, <1>3

\* Of two units the later one belongs to the same message or to a later one.
LEMMA MessagesInOrder ==
    ASSUME Types, Ascending, NEW n \in Nat, NEW n2 \in Nat, 1 <= n, n <= n2,
           n2 <= Len(stream),
           NEW m \in Nat, NEW i \in Nat, NEW m2 \in Nat, NEW i2 \in Nat,
           Is(n, m, i), Is(n2, m2, i2)
    PROVE  m <= m2
<1>1. stream[n].msg = m /\ stream[n2].msg = m2
  BY Zenon, MessageOf
<1>2. n \in 1 .. Len(stream) /\ n2 \in 1 .. Len(stream)
  BY SMTT(40), Z3T(40) DEF Types
<1> QED
  BY Zenon, <1>1, <1>2 DEF Ascending

\* shm_mq_send_bytes alone adds to the stream, at its end and for the last message.
LEMMA AscendingStep ==
    ASSUME IInv, Ascending, [Next]_vars
    PROVE  Ascending'
<1>1. stream' = stream \/ WriteChunk
  <2>1. CASE UNCHANGED vars \/ BackgroundWorker
    BY Zenon, <2>1 DEF vars, sending, BackgroundWorker
  <2>2. CASE shm_mq_send
    BY Zenon, <2>2 DEF shm_mq_send, sending
  <2>3. ASSUME NEW p \in Proc,
               \/ UnrelatedLatch(p) \/ shm_mq_attach(p)
               \/ shm_mq_detach(p) \/ shm_mq_detach_internal(p)
        PROVE  stream' = stream
    BY Zenon, <2>3 DEF UnrelatedLatch, shm_mq_attach, shm_mq_detach, shm_mq_detach_internal,
       sending
  <2>4. ASSUME NEW p \in Proc, Step(p) PROVE stream' = stream \/ WriteChunk
    <3>1. CASE \/ NotifyPeer(p) \/ Awake(p) \/ shm_mq_wait_internal(p)
               \/ shm_mq_counterparty_gone(p)
      BY Zenon, <3>1 DEF NotifyPeer, Awake, shm_mq_wait_internal, shm_mq_counterparty_gone,
         sending
    <3>2. CASE Sender
      BY Zenon, <3>2 DEF Sender, LookForSpace, RingFull, FinishSend, sending
    <3>3. CASE Receiver
      BY Zenon, <3>3 DEF Receiver, shm_mq_receive, GiveBack, LookForData, TakeLength, TakeData,
         sending
    <3> QED
      BY Zenon, <2>4, <3>1, <3>2, <3>3 DEF Step
  <2> QED
    BY Zenon, <2>1, <2>2, <2>3, <2>4 DEF Next
<1>2. CASE stream' = stream
  BY Zenon, <1>2 DEF Ascending
<1>3. CASE WriteChunk
  <2>1. /\ Types /\ Counts /\ Runs /\ SenderAt /\ pc["sender"] = "act" /\ available > 0
    BY Zenon, <1>3 DEF IInv, WriteChunk
  <2>2. PICK k \in Nat : k = sendnow
    <3>1. SenderInStep
      BY Zenon, <2>1 DEF SenderAt
    <3> QED
      BY Zenon, <2>1, <3>1, ChunkFits
  <2> DEFINE t == [i \in 1 .. k |-> NextUnit(i)]
             L == Len(stream)
             M == Len(sent)
  <2>3. L \in Nat /\ M \in Nat /\ stream \in Seq(Units)
        /\ nbytes \in Nat /\ mqh_partial_bytes["sender"] \in Nat
    BY SMTT(40), Z3T(40), <2>1, Parties DEF Types
  <2>4. \A i \in 1 .. k : NextUnit(i) \in Units /\ NextUnit(i).msg = M
    <3> SUFFICES ASSUME NEW i \in 1 .. k PROVE NextUnit(i) \in Units /\ NextUnit(i).msg = M
      BY Zenon
    <3>1. /\ mqh_partial_bytes["sender"] + i \in Nat /\ 0 \in Nat
      BY SMTT(40), Z3T(40), <2>3
    <3>2. PICK j \in Nat : NextUnit(i) = Unit(M, j, nbytes)
      BY Zenon, <3>1 DEF NextUnit
    <3> HIDE DEF M
    <3> QED
      BY SMTT(40), Z3T(40), <2>3, <3>2, UnitFields
  <2>5. t \in [1 .. k -> Units] /\ \A i \in 1 .. k : t[i].msg = M
    BY Zenon, <2>4
  <2>6. stream' = stream \o t
    BY Zenon, <1>3, <2>2 DEF WriteChunk
  <2> HIDE DEF t
  <2>7. /\ Len(stream') = L + k
        /\ \A i \in 1 .. L : stream'[i] = stream[i]
        /\ \A i \in 1 .. k : stream'[L + i] = t[i]
    <3>1. /\ Len(stream \o t) = Len(stream) + k
          /\ \A i \in 1 .. Len(stream) : (stream \o t)[i] = stream[i]
          /\ \A i \in 1 .. k : (stream \o t)[Len(stream) + i] = t[i]
      BY SMTT(40), Z3T(40), <2>3, <2>5, Extend
    <3> QED
      BY Zenon, <3>1, <2>6
  <2>8. \A n \in 1 .. L : stream[n].msg \in 1 .. M
    <3> SUFFICES ASSUME NEW n \in 1 .. L PROVE stream[n].msg \in 1 .. M
      BY Zenon
    <3>1. PICK m \in Nat, i \in Nat : Is(n, m, i)
      BY Zenon, <2>1 DEF Runs
    <3>2. stream[n].msg = m /\ m \in 1 .. Len(sent)
      BY Zenon, <2>1, <3>1, MessageOf
    <3> QED
      BY Zenon, <3>2
  <2>9. ASSUME NEW n \in 1 .. L + k, n > L PROVE stream'[n].msg = M
    <3>1. n - L \in 1 .. k /\ L + (n - L) = n
      BY SMTT(40), Z3T(40), <2>3, <2>9
    <3>2. stream'[L + (n - L)] = t[n - L]
      BY Zenon, <3>1, <2>7
    <3> QED
      BY Zenon, <3>1, <3>2, <2>5
  <2>10. ASSUME NEW n \in 1 .. L + k, NEW n2 \in 1 .. L + k, n <= n2
         PROVE  stream'[n].msg <= stream'[n2].msg
    <3>1. CASE n2 <= L
      <4>1. n \in 1 .. L /\ n2 \in 1 .. L
        BY SMTT(40), Z3T(40), <2>3, <2>10, <3>1
      <4> QED
        BY Zenon, <4>1, <2>7, <2>10 DEF Ascending
    <3>2. CASE n2 > L
      <4>1. stream'[n2].msg = M
        BY Zenon, <3>2, <2>9
      <4>2. stream'[n].msg \in 1 .. M \/ stream'[n].msg = M
        <5>1. n \in 1 .. L \/ n > L
          BY SMTT(40), Z3T(40), <2>3
        <5> QED
          BY Zenon, <5>1, <2>7, <2>8, <2>9
      <4> QED
        BY SMTT(40), Z3T(40), <4>1, <4>2, <2>3
    <3> QED
      BY SMTT(40), Z3T(40), <3>1, <3>2, <2>3
  <2> QED
    BY Zenon, <2>7, <2>10 DEF Ascending
<1> QED
  BY Zenon, <1>1, <1>2, <1>3

\* The three invariants together.
LEMMA WakesInvariance == Spec => [](IInv /\ WInv /\ Ascending)
<1>1. Init => IInv /\ WInv /\ Ascending
  <2>1. Init => Ascending
    <3> SUFFICES ASSUME Init PROVE Ascending
      OBVIOUS
    <3>1. 1 .. Len(stream) = {}
      BY SMTT(40), Z3T(40) DEF Init
    <3> QED
      BY Zenon, <3>1 DEF Ascending
  <2> QED
    BY Zenon, <2>1, InvInit, WakesInit
<1>2. (IInv /\ WInv /\ Ascending) /\ [Next]_vars => (IInv /\ WInv /\ Ascending)'
  BY Zenon, InvStep, WakesStep, AscendingStep
<1> QED
  BY <1>1, <1>2, PTL DEF Spec

\* Whoever waits in the queue, or for its latch between two calls, and has something to
\* do is about to be told: neither a detach, an attach or the end of the worker, nor
\* units that are published or given back, can slip in between the last look and the
\* wait, in callers that send only when the receiver is there.
THEOREM WaitersAreWoken == Spec => []WokenUnlessEarly
<1>1. IInv /\ WInv => WokenUnlessEarly
  <2> SUFFICES ASSUME IInv, WInv, ~early, NEW p \in Proc, Waits(p), HasNews(p)
               PROVE  AboutToNotify(Peer(p))
    BY Zenon DEF WokenUnlessEarly, Woken
  <2>0. /\ Types /\ WTypes /\ Placed
        /\ pc[p] \in {"sleep", "retry", "w_sleep"} /\ ~latch[p]
    BY Zenon DEF IInv, WInv, Waits
  <2> USE DEF AboutToNotify, Proc, Peer
  <2>1. CASE mq_detached
    BY Zenon, <2>0, <2>1 DEF WInv, ToldOfDetach, DetachTold, PassedDetached
  <2>2. CASE ~mq_detached /\ WorkerGone(p)
    <3>1. /\ worker # p /\ bgwStatus = "stopped" /\ pc[worker] \in {"new", "gone"}
          /\ pc[worker] # "gone"
      BY Zenon, <2>0, <2>2 DEF WorkerGone, Placed, PlacedAt, WTypes
    <3>2. worker = Peer(p) /\ ~mq_set[Peer(p)] /\ ~mqh_counterparty_attached[p]
      BY Zenon, <2>0, <3>1 DEF Placed, PlacedAt, WTypes
    <3>3. CASE p = "sender"
      BY Zenon, <2>0, <3>2, <3>3 DEF Placed, Calling
    <3>4. CASE p = "receiver"
      <4>1. pc["receiver"] # "sleep"
        BY Zenon, <2>0, <3>2, <3>4 DEF Placed, Reading
      <4>2. PassedStatus
        BY Zenon, <2>0, <3>4, <4>1 DEF PassedStatus
      <4> QED
        BY Zenon, <2>0, <3>1, <3>2, <3>4, <4>2 DEF WInv, ToldOfWorker
    <3> QED
      BY Zenon, <3>3, <3>4
  <2>3. CASE ~mqh_counterparty_attached[p] /\ mq_set[Peer(p)]
    <3>1. CASE p = "sender"
      <4>1. /\ ~latch["sender"] /\ mq_set["receiver"] /\ Peer(p) = "receiver"
            /\ pc["sender"] \in {"retry", "w_sleep"} /\ ~mqh_counterparty_attached["sender"]
        BY Zenon, <2>0, <2>3, <3>1 DEF Placed
      <4>2. PassedSet("sender")
        BY Zenon, <4>1 DEF PassedSet
      <4> QED
        BY Zenon, <4>1, <4>2 DEF WInv, ToldOfPeer, PeerTold
    <3>2. CASE p = "receiver"
      <4>1. /\ ~latch["receiver"] /\ mq_set["sender"] /\ Peer(p) = "sender"
            /\ pc["receiver"] \in {"retry", "w_sleep"}
            /\ ~mqh_counterparty_attached["receiver"]
        BY Zenon, <2>0, <2>3, <3>2 DEF Placed, Reading
      <4>2. PassedSet("receiver")
        BY Zenon, <4>1 DEF PassedSet
      <4> QED
        BY Zenon, <4>1, <4>2 DEF WInv, ToldOfPeer, PeerTold
    <3> QED
      BY Zenon, <3>1, <3>2
  <2>4. CASE p = "sender" /\ pc[p] # "w_sleep" /\ mq_bytes_read # rb
    BY Zenon, <2>0, <2>4 DEF WInv, ToldOfSpace
  <2>5. CASE p = "receiver" /\ pc[p] # "w_sleep" /\ mq_bytes_written # written
    <3>1. CASE mqh_counterparty_attached["receiver"]
      BY Zenon, <2>0, <2>5, <3>1 DEF WInv, ToldOfData
    <3>2. CASE ~mqh_counterparty_attached["receiver"]
      <4>1. mq_set["sender"]
        BY Zenon, <2>0, <2>5, <3>2 DEF Placed, PlacedAt
      <4> QED
        BY Zenon, <2>3, <2>5, <3>2, <4>1
    <3> QED
      BY Zenon, <3>1, <3>2
  <2> QED
    BY Zenon, <2>1, <2>2, <2>3, <2>4, <2>5 DEF HasNews
<1> QED
  BY <1>1, WakesInvariance, PTL

\* The sender does not wait for space while the receiver waits for data: a ring with no
\* space left holds enough for the receiver to go on, whatever the sizes of the ring and
\* of the messages, and neither side keeps back what the other needs.
THEOREM SidesNeverStandOff == Spec => []NoStandoff
<1>1. IInv /\ WInv => NoStandoff
  <2> SUFFICES ASSUME IInv, WInv, ~early, ~mq_detached,
                      \A p \in Proc : Waits(p) /\ mqh_counterparty_attached[p]
               PROVE  FALSE
    BY Zenon DEF NoStandoff
  <2>1. /\ Types /\ WTypes /\ Placed /\ Counts
        /\ pc["sender"] \in {"sleep", "retry", "w_sleep"} /\ ~latch["sender"]
        /\ pc["receiver"] \in {"sleep", "retry", "w_sleep"} /\ ~latch["receiver"]
        /\ mqh_counterparty_attached["sender"] /\ mqh_counterparty_attached["receiver"]
    BY Zenon, Parties DEF IInv, WInv, Waits
  <2>2. pc["sender"] \in {"sleep", "retry"} /\ pc["receiver"] \in {"sleep", "retry"}
    BY Zenon, <2>1 DEF Placed, PlacedAt, Waiting
  <2>3. mq_bytes_read = rb
    BY Zenon, <2>1, <2>2 DEF WInv, ToldOfSpace
  <2>4. mq_bytes_written = written
    BY Zenon, <2>1, <2>2 DEF WInv, ToldOfData
  <2>5. mq_bytes_written - rb >= RingSize
    BY Zenon, <2>1, <2>2 DEF WInv, SenderFilled
  <2>6. ~Enough(written - read) /\ mqh_consume_pending = 0
    BY Zenon, <2>1, <2>2 DEF WInv, ReceiverDrained, TooLittle
  <2>7. read = mq_bytes_read /\ Offset(read) \in 0 .. RingSize - 1
    <3>1. read = mq_bytes_read /\ read \in Nat
      BY SMTT(40), Z3T(40), <2>1, <2>6 DEF Types, read
    <3> QED
      BY Zenon, <3>1, OffsetRange
  <2> QED
    BY SMTT(40), Z3T(40), <2>1, <2>3, <2>4, <2>5, <2>6, <2>7, MqAssumption DEF Types, Enough
<1> QED
  BY <1>1, WakesInvariance, PTL

-----------------------------------------------------------------------------
\* The receiver is told that the queue is detached only after every message that was
\* visible to it: the second look at mq_bytes_written, after mq_detached was seen, finds
\* what the sender wrote before it left, and nothing is written after that.
THEOREM DetachIsToldLast == Spec => []DetachedWhenDrained
<1>1. IInv /\ WInv /\ Ascending => DetachedWhenDrained
  <2> SUFFICES ASSUME IInv, WInv, Ascending, pc["receiver"] = "told"
               PROVE  mq_detached /\ \A m \in Visible : m <= Len(received)
    BY Zenon DEF DetachedWhenDrained
  <2>1. /\ Types /\ Counts /\ Runs /\ ReceiverAt /\ ReceiverTold
    BY Zenon DEF IInv, WInv
  <2>2. mq_detached
    BY Zenon, <2>1 DEF ReceiverTold
  <2>3. ASSUME NEW m \in Visible PROVE m <= Len(received)
    <3>1. /\ m \in DOMAIN sent
          /\ \E n \in 1 .. mq_bytes_written : stream[n].msg = m /\ stream[n].pos = sent[m]
      BY Zenon DEF Visible
    <3>2. PICK n \in 1 .. mq_bytes_written : stream[n].msg = m /\ stream[n].pos = sent[m]
      BY Zenon, <3>1
    <3>3. /\ m \in Nat /\ sent[m] \in Nat /\ n \in Nat /\ 1 <= n /\ n <= Len(stream)
          /\ n \in 1 .. Len(stream) /\ Len(stream) \in Nat /\ n <= mq_bytes_written
          /\ read \in Nat /\ read <= Len(stream) /\ read <= mq_bytes_written
          /\ Len(received) \in Nat /\ mq_bytes_written # 0
      BY SMTT(40), Z3T(40), <2>1, <3>1, <3>2 DEF Types, Counts, wb, read
    <3>4. Is(n, m, sent[m])
      <4>1. PICK m1 \in Nat, i1 \in Nat : Is(n, m1, i1)
        BY Zenon, <2>1, <3>3 DEF Runs
      <4>2. m1 = m /\ i1 = sent[m]
        BY SMTT(40), Z3T(40), <3>2, <4>1 DEF Is, Unit
      <4> QED
        BY Zenon, <4>1, <4>2
    <3>5. /\ written = mq_bytes_written
          /\ written \in Nat /\ ~Enough(written - read)
      BY Zenon, <2>1, <3>3 DEF ReceiverTold, TooLittle, Types
    <3>6. written - read < LeftToReceive
      <4>1. ~(written - read >= LeftToReceive)
        BY Zenon, <3>5 DEF Enough
      <4>2. written \in Nat /\ LeftToReceive \in Int
        BY SMTT(40), Z3T(40), <2>1 DEF Types, Proc, LeftToReceive
      <4> QED
        BY SMTT(40), Z3T(40), <3>3, <4>1, <4>2
    <3>7. CASE mqh_length_word_complete["receiver"]
      <4> DEFINE k == Len(received) + 1
                 i == mqh_partial_bytes["receiver"]
      <4>1. /\ read > 0 /\ Is(read, k, i) /\ mqh_expected_bytes = sent[k]
            /\ i < mqh_expected_bytes
        BY Zenon, <2>1, <3>7 DEF ReceiverAt
      <4>2. k \in Nat /\ i \in Nat /\ mqh_expected_bytes \in Nat /\ k = Len(received) + 1
        BY SMTT(40), Z3T(40), <2>1, <3>3 DEF Types, Proc
      <4>3. written - read < mqh_expected_bytes - i
        BY Zenon, <3>6, <3>7 DEF LeftToReceive
      <4> HIDE DEF k, i
      <4>4. n <= read
        <5> SUFFICES ASSUME n > read PROVE FALSE
          BY SMTT(40), Z3T(40), <3>3
        <5>1. PICK j \in Nat : n = read + j
          <6>1. n - read \in Nat /\ n = read + (n - read)
            BY SMTT(40), Z3T(40), <3>3
          <6> QED
            BY Zenon, <6>1
        <5>2. /\ read + j <= Len(stream) /\ read \in 1 .. Len(stream)
              /\ i + j < sent[k] /\ i + j <= sent[k]
          <6>1. written \in Nat /\ n <= written /\ j <= written - read
            BY SMTT(40), Z3T(40), <5>1, <3>3, <3>5
          <6>2. i + j < mqh_expected_bytes
            BY SMTT(40), Z3T(40), <6>1, <3>3, <4>2, <4>3
          <6> QED
            BY SMTT(40), Z3T(40), <5>1, <6>2, <4>1, <4>2, <3>3
        <5>3. Is(n, k, i + j)
          BY Zenon, <2>1, <4>1, <4>2, <5>1, <5>2, RunOn
        <5>4. m = k /\ sent[m] = i + j
          BY Zenon, <5>3, <3>3, <3>4, IsUnique
        <5> QED
          BY SMTT(40), Z3T(40), <5>2, <5>4, <4>1, <4>2
      <4>5. m <= k
        BY Zenon, <2>1, <3>3, <3>4, <4>1, <4>2, <4>4, MessagesInOrder
      <4>6. m # k
        <5> SUFFICES ASSUME m = k PROVE FALSE
          BY Zenon
        <5>1. n # read
          <6> SUFFICES ASSUME n = read PROVE FALSE
            BY Zenon
          <6>1. i = sent[m]
            BY Zenon, <3>3, <3>4, <4>1, IsUnique
          <6> QED
            BY SMTT(40), Z3T(40), <6>1, <4>1, <4>2
        <5>2. /\ n < Len(stream) /\ n + 1 \in Nat /\ 1 <= n + 1 /\ n + 1 <= read
              /\ m + 1 \in Nat /\ 0 \in Nat
          BY SMTT(40), Z3T(40), <5>1, <4>4, <3>3
        <5>3. Is(n + 1, m + 1, 0)
          BY Zenon, <2>1, <3>3, <3>4, <5>2, RunOn
        <5>4. m + 1 <= k
          BY Zenon, <2>1, <3>3, <5>2, <5>3, <4>1, <4>2, MessagesInOrder
        <5> QED
          BY SMTT(40), Z3T(40), <5>4, <3>3
      <4> QED
        BY SMTT(40), Z3T(40), <4>2, <4>5, <4>6, <3>3
    <3>8. CASE ~mqh_length_word_complete["receiver"]
      <4>1. n <= read
        <5>1. written - read < 1 /\ written \in Nat
          BY Zenon, <2>1, <3>6, <3>8 DEF LeftToReceive, Types
        <5> QED
          BY SMTT(40), Z3T(40), <3>3, <3>5, <5>1
      <4>2. Is(read, Len(received), sent[Len(received)])
        <5>1. Boundary(read, Len(received)) /\ read # 0
          BY SMTT(40), Z3T(40), <2>1, <3>3, <3>8, <4>1 DEF ReceiverAt
        <5> QED
          BY Zenon, <5>1 DEF Boundary
      <4>3. sent[Len(received)] \in Nat
        BY SMTT(40), Z3T(40), <2>1, <4>2 DEF Is, Types
      <4> QED
        BY Zenon, <2>1, <3>3, <3>4, <4>1, <4>2, <4>3, MessagesInOrder
    <3> QED
      BY Zenon, <3>7, <3>8
  <2> QED
    BY Zenon, <2>2, <2>3
<1> QED
  BY <1>1, WakesInvariance, PTL

=============================================================================
