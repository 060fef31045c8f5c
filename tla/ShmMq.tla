------------------------------- MODULE ShmMq -------------------------------
(***************************************************************************)
(* The single-reader, single-writer message queue in shared memory of      *)
(* src/backend/storage/ipc/shm_mq.c, and the ways its callers use it       *)
(* (tqueue.c blocks, pqmq.c tries again when its latch is set).            *)
(*                                                                         *)
(* Lengths and offsets are in units of MAXIMUM_ALIGNOF bytes, the size of  *)
(* a length word; everything the queue does is in whole units, padding     *)
(* included.  Counters do not reach 2^64.  One step is one access to       *)
(* shared memory, and a memcpy is one step: it touches only units that the *)
(* other side does not (RingIntact).  The memory barriers are taken to do  *)
(* what they promise.                                                      *)
(***************************************************************************)
EXTENDS Integers, Sequences

CONSTANTS
    RingSize,       \* mq_ring_size
    Lengths,        \* bound: the lengths of messages
    MaxMessages     \* bound: calls of shm_mq_send

ASSUME MqAssumption ==
    /\ RingSize \in Nat \ {0}
    /\ Lengths \subseteq Nat
    /\ MaxMessages \in Nat

Proc == {"sender", "receiver"}
Peer(p) == IF p = "sender" THEN "receiver" ELSE "sender"

VARIABLES
    worker,         \* the one of the two that is a background worker of the other
    early,          \* does the sender's caller send before the receiver is there?
    bgwStatus,      \* what GetBackgroundWorkerPid says of the worker
    latch,
    mq_set,         \* are mq_sender and mq_receiver set?
    mq_detached, mq_bytes_read, mq_bytes_written, mq_ring,
    pc, nowait,
    mqh_counterparty_attached, mqh_length_word_complete, mqh_partial_bytes,
    mqh_send_pending, nbytes, force_flush, rb,
    mqh_consume_pending, mqh_expected_bytes, mqh_buffer, written,
    datap,          \* where the message last returned begins, if it is in the ring
    seen,           \* what shm_mq_wait_internal or shm_mq_counterparty_gone found
    sent,           \* history: the lengths of the messages, in the order of the calls
    stream,         \* history: the units written to the ring
    received        \* history: the messages returned

life == <<worker, early, bgwStatus>>
counters == <<mq_bytes_read, mq_bytes_written>>
sending == <<mqh_send_pending, nbytes, force_flush, rb, mq_ring, sent, stream>>
receiving == <<mqh_consume_pending, mqh_expected_bytes, mqh_buffer, written, datap, received>>
progress == <<mqh_length_word_complete, mqh_partial_bytes>>
vars == <<life, latch, mq_set, mq_detached, counters, pc, nowait,
          mqh_counterparty_attached, progress, sending, receiving, seen>>

\* A unit of message m: its length word at 0, then its data.
Unit(m, i, len) == [msg |-> m, pos |-> i, len |-> IF i = 0 THEN len ELSE 0]
NoUnit == Unit(0, 0, 0)
NoPointer == -1
Payload(m, len) == [i \in 1 .. len |-> Unit(m, i, len)]

Min(a, b) == IF a < b THEN a ELSE b
Offset(n) == n % RingSize
Goto(p, l) == pc' = [pc EXCEPT ![p] = l]
SetLatch(p) == latch' = [latch EXCEPT ![p] = TRUE]

\* shm_mq_create
Init ==
    /\ worker \in Proc
    /\ early \in BOOLEAN
    /\ bgwStatus = "not_yet_started"
    /\ latch = [p \in Proc |-> FALSE]
    /\ mq_set = [p \in Proc |-> FALSE]
    /\ mq_detached = FALSE
    /\ mq_bytes_read = 0
    /\ mq_bytes_written = 0
    /\ mq_ring = [i \in 0 .. RingSize - 1 |-> NoUnit]
    /\ pc = [p \in Proc |-> "new"]
    /\ nowait = [p \in Proc |-> FALSE]
    /\ mqh_counterparty_attached = [p \in Proc |-> FALSE]
    /\ mqh_length_word_complete = [p \in Proc |-> FALSE]
    /\ mqh_partial_bytes = [p \in Proc |-> 0]
    /\ mqh_send_pending = 0
    /\ nbytes = 0
    /\ force_flush = FALSE
    /\ rb = 0
    /\ mqh_consume_pending = 0
    /\ mqh_expected_bytes = 0
    /\ mqh_buffer = <<>>
    /\ written = 0
    /\ datap = NoPointer
    /\ seen = [p \in Proc |-> FALSE]
    /\ sent = <<>>
    /\ stream = <<>>
    /\ received = <<>>

-----------------------------------------------------------------------------
\* The postmaster starts the worker, or cannot, and later finds that it exited; the
\* other process is notified with a signal whose handler sets its latch.
BackgroundWorker ==
    /\ \/ bgwStatus = "not_yet_started" /\ bgwStatus' \in {"started", "stopped"}
       \/ bgwStatus = "started" /\ pc[worker] \in {"new", "gone"} /\ bgwStatus' = "stopped"
    /\ SetLatch(Peer(worker))
    /\ UNCHANGED <<worker, early, mq_set, mq_detached, counters, pc, nowait,
                   mqh_counterparty_attached, progress, sending, receiving, seen>>

\* Latches serve other purposes too.
UnrelatedLatch(p) ==
    /\ ~latch[p]
    /\ pc[p] \in {"sleep", "retry", "w_sleep"}
    /\ SetLatch(p)
    /\ UNCHANGED <<life, mq_set, mq_detached, counters, pc, nowait,
                   mqh_counterparty_attached, progress, sending, receiving, seen>>

\* shm_mq_set_sender or shm_mq_set_receiver, and shm_mq_attach.
shm_mq_attach(p) ==
    /\ pc[p] = "new"
    /\ p = worker => bgwStatus = "started"
    /\ mq_set' = [mq_set EXCEPT ![p] = TRUE]
    /\ Goto(p, IF mq_set[Peer(p)] THEN "notify" ELSE "idle")
    /\ UNCHANGED <<life, latch, mq_detached, counters, nowait,
                   mqh_counterparty_attached, progress, sending, receiving, seen>>

\* SetLatch of the counterparty, at the end of an operation or in the middle of it.
NotifyPeer(p) ==
    /\ \/ pc[p] \in {"notify", "flush"} /\ Goto(p, "idle")
       \/ pc[p] \in {"full", "reclaimed"} /\ Goto(p, IF nowait[p] THEN "retry" ELSE "sleep")
       \/ pc[p] = "consumed" /\ Goto(p, "available")
       \/ pc[p] = "leave" /\ Goto(p, "gone")
    /\ SetLatch(Peer(p))
    /\ UNCHANGED <<life, mq_set, mq_detached, counters, nowait,
                   mqh_counterparty_attached, progress, sending, receiving, seen>>

\* WaitLatch and ResetLatch: in the queue, or of a caller that got SHM_MQ_WOULD_BLOCK
\* and calls again.
Awake(p) ==
    /\ latch[p]
    /\ \/ pc[p] = "w_sleep" /\ Goto(p, "w_ptr")
       \/ pc[p] = "sleep" /\ Goto(p, IF p = "sender" THEN "space" ELSE "available")
       \/ pc[p] = "retry" /\ Goto(p, IF p = "sender" THEN "space" ELSE "idle")
    /\ latch' = [latch EXCEPT ![p] = FALSE]
    /\ UNCHANGED <<life, mq_set, mq_detached, counters, nowait,
                   mqh_counterparty_attached, progress, sending, receiving, seen>>

\* The counterparty is there: a sender looks for space again, a receiver goes on.
Attached(p) ==
    /\ mqh_counterparty_attached' = [mqh_counterparty_attached EXCEPT ![p] = TRUE]
    /\ Goto(p, IF p = "sender" THEN "space" ELSE "consume")

\* SHM_MQ_DETACHED: the sender forgets how far it was, the receiver is done.
Detached(p) ==
    /\ Goto(p, IF p = "sender" THEN "idle" ELSE "told")
    /\ IF p = "sender"
       THEN /\ mqh_length_word_complete' = [mqh_length_word_complete EXCEPT ![p] = FALSE]
            /\ mqh_partial_bytes' = [mqh_partial_bytes EXCEPT ![p] = 0]
       ELSE UNCHANGED progress

WorkerGone(p) == p # worker /\ bgwStatus = "stopped"

\* shm_mq_wait_internal, and shm_mq_receive's second look at mq_sender.
shm_mq_wait_internal(p) ==
    /\ \/ /\ pc[p] = "w_ptr"
          /\ seen' = [seen EXCEPT ![p] = mq_set[Peer(p)]]
          /\ Goto(p, "w_detached")
          /\ UNCHANGED <<mq_detached, mqh_counterparty_attached, progress>>
       \/ /\ pc[p] = "w_detached" /\ ~mq_detached /\ seen[p]
          /\ Attached(p)
          /\ UNCHANGED <<mq_detached, seen, progress>>
       \/ /\ pc[p] = "w_detached" /\ ~mq_detached /\ ~seen[p]
          /\ Goto(p, IF p = worker THEN "w_sleep" ELSE "w_status")
          /\ UNCHANGED <<mq_detached, seen, mqh_counterparty_attached, progress>>
       \/ /\ pc[p] = "w_status" /\ ~WorkerGone(p)
          /\ Goto(p, "w_sleep")
          /\ UNCHANGED <<mq_detached, seen, mqh_counterparty_attached, progress>>
       \/ /\ \/ pc[p] = "w_detached" /\ mq_detached
             \/ pc[p] = "w_status" /\ WorkerGone(p)
          /\ IF p = "sender"
             THEN Detached(p) /\ mq_detached' = TRUE
             ELSE Goto(p, "w_sender") /\ UNCHANGED <<mq_detached, progress>>
          /\ UNCHANGED <<seen, mqh_counterparty_attached>>
       \/ /\ pc[p] = "w_sender" /\ mq_set["sender"]
          /\ Attached(p)
          /\ UNCHANGED <<mq_detached, seen, progress>>
       \/ /\ pc[p] = "w_sender" /\ ~mq_set["sender"]
          /\ Detached(p)
          /\ mq_detached' = TRUE
          /\ UNCHANGED <<seen, mqh_counterparty_attached>>
    /\ UNCHANGED <<life, latch, mq_set, counters, nowait, sending, receiving>>

\* shm_mq_counterparty_gone, and what shm_mq_send_bytes and shm_mq_receive do next
\* when they must not wait.
shm_mq_counterparty_gone(p) ==
    /\ \/ /\ \/ pc[p] = "g_detached" /\ mq_detached
             \/ pc[p] = "g_status" /\ WorkerGone(p)
          /\ mq_detached' = TRUE
          /\ seen' = [seen EXCEPT ![p] = TRUE]
          /\ IF p = "sender" THEN Detached(p) ELSE Goto(p, "g_peer") /\ UNCHANGED progress
          /\ UNCHANGED mqh_counterparty_attached
       \/ /\ \/ pc[p] = "g_detached" /\ ~mq_detached
             \/ pc[p] = "g_status" /\ ~WorkerGone(p)
          /\ seen' = [seen EXCEPT ![p] = FALSE]
          /\ Goto(p, IF p # worker /\ pc[p] = "g_detached" THEN "g_status" ELSE "g_peer")
          /\ UNCHANGED <<mq_detached, mqh_counterparty_attached, progress>>
       \/ /\ pc[p] = "g_peer" /\ mq_set[Peer(p)]
          /\ Attached(p)
          /\ UNCHANGED <<mq_detached, seen, progress>>
       \/ /\ pc[p] = "g_peer" /\ ~mq_set[Peer(p)]
          /\ IF p = "receiver" /\ seen[p] THEN Detached(p) ELSE Goto(p, "retry") /\ UNCHANGED progress
          /\ UNCHANGED <<mq_detached, seen, mqh_counterparty_attached>>
    /\ UNCHANGED <<life, latch, mq_set, counters, nowait, sending, receiving>>

-----------------------------------------------------------------------------
\* A call of shm_mq_send or shm_mq_sendv.
shm_mq_send ==
    /\ pc["sender"] = "idle"
    /\ Len(sent) < MaxMessages
    /\ early \/ mq_set["receiver"]
    /\ \E len \in Lengths : nbytes' = len /\ sent' = Append(sent, len)
    /\ \E nw \in BOOLEAN : nowait' = [nowait EXCEPT !["sender"] = nw]
    /\ force_flush' \in BOOLEAN
    /\ Goto("sender", "space")
    /\ UNCHANGED <<life, latch, mq_set, mq_detached, counters, mqh_counterparty_attached,
                   progress, mqh_send_pending, rb, mq_ring, stream, receiving, seen>>

\* The top of the loop in shm_mq_send_bytes.
LookForSpace ==
    /\ \/ /\ pc["sender"] = "space"
          /\ rb' = mq_bytes_read
          /\ Goto("sender", "test")
          /\ UNCHANGED progress
       \/ /\ pc["sender"] = "test"
          /\ IF mq_detached THEN Detached("sender") ELSE Goto("sender", "act") /\ UNCHANGED progress
          /\ UNCHANGED rb
    /\ UNCHANGED <<life, latch, mq_set, mq_detached, counters, nowait, mqh_counterparty_attached,
                   mqh_send_pending, nbytes, force_flush, mq_ring, sent, stream, receiving, seen>>

wb == mq_bytes_written + mqh_send_pending
Used == wb - rb
LeftToSend == IF mqh_length_word_complete["sender"]
              THEN nbytes - mqh_partial_bytes["sender"] ELSE 1
available == Min(RingSize - Used, LeftToSend)
WriteOffset == Offset(wb)
sendnow == Min(available, RingSize - WriteOffset)

\* The ring is full: wait for the receiver to attach, or else for it to read.
shm_mq_inc_bytes_written ==
    /\ mq_bytes_written' = mq_bytes_written + mqh_send_pending
    /\ mqh_send_pending' = 0

RingFull ==
    /\ pc["sender"] = "act"
    /\ available = 0
    /\ IF mqh_counterparty_attached["sender"]
       THEN shm_mq_inc_bytes_written /\ Goto("sender", "full")
       ELSE /\ Goto("sender", IF nowait["sender"] THEN "g_detached" ELSE "w_ptr")
            /\ UNCHANGED <<mq_bytes_written, mqh_send_pending>>
    /\ UNCHANGED <<life, latch, mq_set, mq_detached, mq_bytes_read, nowait,
                   mqh_counterparty_attached, progress, nbytes, force_flush, rb, mq_ring,
                   sent, stream, receiving, seen>>

\* The units of the message the sender is at, from the next one on.
NextUnitAgain(i) ==
    Unit(Len(sent), IF mqh_length_word_complete["sender"] THEN i ELSE 0, nbytes)
NextUnit(i) ==
    Unit(Len(sent),
         IF mqh_length_word_complete["sender"] THEN mqh_partial_bytes["sender"] + i ELSE 0,
         nbytes)

\* The memcpy of shm_mq_send_bytes, and the bookkeeping of shm_mq_sendv.
WriteChunk ==
    /\ pc["sender"] = "act"
    /\ available > 0
    /\ mq_ring' = [i \in 0 .. RingSize - 1 |->
                      LET k == i - WriteOffset + 1
                      IN IF k \in 1 .. sendnow THEN NextUnit(k) ELSE mq_ring[i]]
    /\ stream' = stream \o [i \in 1 .. sendnow |-> NextUnit(i)]
    /\ mqh_send_pending' = mqh_send_pending + sendnow
    /\ IF mqh_length_word_complete["sender"]
       THEN /\ mqh_partial_bytes' = [mqh_partial_bytes EXCEPT !["sender"] = @ + sendnow]
            /\ UNCHANGED mqh_length_word_complete
       ELSE /\ mqh_length_word_complete' = [mqh_length_word_complete EXCEPT !["sender"] = TRUE]
            /\ UNCHANGED mqh_partial_bytes
    /\ Goto("sender", IF mqh_partial_bytes'["sender"] = nbytes THEN "written" ELSE "space")
    /\ UNCHANGED <<life, latch, mq_set, mq_detached, counters, nowait,
                   mqh_counterparty_attached, nbytes, force_flush, rb, sent, receiving, seen>>

FlushNow == force_flush \/ mqh_send_pending > RingSize \div 4

\* The end of shm_mq_sendv: whom to notify, and whether there is something to notify.
FinishSend ==
    /\ \/ /\ pc["sender"] = "written"
          /\ mqh_length_word_complete' = [mqh_length_word_complete EXCEPT !["sender"] = FALSE]
          /\ mqh_partial_bytes' = [mqh_partial_bytes EXCEPT !["sender"] = 0]
          /\ Goto("sender", IF mq_detached THEN "idle" ELSE "whom")
          /\ UNCHANGED <<seen, mqh_counterparty_attached, mq_bytes_written, mqh_send_pending>>
       \/ /\ pc["sender"] = "whom"
          /\ seen' = [seen EXCEPT !["sender"] = mq_set["receiver"]]
          /\ mqh_counterparty_attached' =
                [mqh_counterparty_attached EXCEPT !["sender"] = mq_set["receiver"]]
          /\ Goto("sender", "publish")
          /\ UNCHANGED <<progress, mq_bytes_written, mqh_send_pending>>
       \/ /\ pc["sender"] = "publish"
          /\ IF FlushNow
             THEN shm_mq_inc_bytes_written /\ Goto("sender", IF seen["sender"] THEN "flush" ELSE "idle")
             ELSE Goto("sender", "idle") /\ UNCHANGED <<mq_bytes_written, mqh_send_pending>>
          /\ UNCHANGED <<progress, seen, mqh_counterparty_attached>>
    /\ UNCHANGED <<life, latch, mq_set, mq_detached, mq_bytes_read, nowait, nbytes,
                   force_flush, rb, mq_ring, sent, stream, receiving>>

-----------------------------------------------------------------------------
\* A call of shm_mq_receive; the message returned last is no longer used.
shm_mq_receive ==
    /\ pc["receiver"] = "idle"
    /\ datap' = NoPointer
    /\ \E nw \in BOOLEAN :
          /\ nowait' = [nowait EXCEPT !["receiver"] = nw]
          /\ Goto("receiver", IF mqh_counterparty_attached["receiver"] THEN "consume"
                              ELSE IF nw THEN "g_detached" ELSE "w_ptr")
    /\ UNCHANGED <<life, latch, mq_set, mq_detached, counters, mqh_counterparty_attached,
                   progress, sending, mqh_consume_pending, mqh_expected_bytes, mqh_buffer,
                   written, received, seen>>

ConsumeNow == mqh_consume_pending > RingSize \div 4

shm_mq_inc_bytes_read ==
    /\ mq_bytes_read' = mq_bytes_read + mqh_consume_pending
    /\ mqh_consume_pending' = 0

\* Give back what was consumed: when it is much, or before waiting.
GiveBack ==
    /\ \/ /\ pc["receiver"] = "consume" /\ ConsumeNow
          /\ shm_mq_inc_bytes_read
          /\ Goto("receiver", "consumed")
       \/ /\ pc["receiver"] = "consume" /\ ~ConsumeNow
          /\ Goto("receiver", "available")
          /\ UNCHANGED <<mq_bytes_read, mqh_consume_pending>>
       \/ /\ pc["receiver"] = "reclaim"
          /\ shm_mq_inc_bytes_read
          /\ Goto("receiver", "reclaimed")
    /\ UNCHANGED <<life, latch, mq_set, mq_detached, mq_bytes_written, nowait,
                   mqh_counterparty_attached, progress, sending, mqh_expected_bytes,
                   mqh_buffer, written, datap, received, seen>>

read == mq_bytes_read + mqh_consume_pending
LeftToReceive == IF mqh_length_word_complete["receiver"]
                 THEN mqh_expected_bytes - mqh_partial_bytes["receiver"] ELSE 1
EnoughInAll(used) == used >= LeftToReceive
Enough(used) == used >= LeftToReceive \/ Offset(read) + used >= RingSize
MustWait == IF nowait["receiver"] THEN "retry" ELSE "sleep"

WrittenAnyway == FALSE
WrittenMeanwhile == written # mq_bytes_written

\* The loop of shm_mq_receive_bytes.
LookForData ==
    /\ \/ /\ pc["receiver"] = "available"
          /\ written' = mq_bytes_written
          /\ Goto("receiver", IF Enough(mq_bytes_written - read) THEN "take" ELSE "nodata")
       \/ /\ pc["receiver"] = "nodata"
          /\ Goto("receiver", IF mq_detached THEN "recheck"
                              ELSE IF mqh_consume_pending > 0 THEN "reclaim" ELSE MustWait)
          /\ UNCHANGED written
       \/ /\ pc["receiver"] = "recheck"
          /\ Goto("receiver", IF WrittenMeanwhile THEN "available" ELSE "told")
          /\ UNCHANGED written
    /\ UNCHANGED <<life, latch, mq_set, mq_detached, counters, nowait, mqh_counterparty_attached,
                   progress, sending, mqh_consume_pending, mqh_expected_bytes, mqh_buffer,
                   datap, received, seen>>

\* How many units can be read in one piece, and the next n of them after the first k.
Contiguous == Min(written - read, RingSize - Offset(read))
Ring(k, n) == [i \in 1 .. n |-> mq_ring[Offset(read) + k + i - 1]]

Consume(n) == mqh_consume_pending' = mqh_consume_pending + n

Return(data, from) ==
    /\ received' = Append(received, data)
    /\ datap' = from
    /\ mqh_length_word_complete' = [mqh_length_word_complete EXCEPT !["receiver"] = FALSE]
    /\ mqh_partial_bytes' = [mqh_partial_bytes EXCEPT !["receiver"] = 0]
    /\ mqh_buffer' = <<>>
    /\ Goto("receiver", "idle")

\* The length word, and the message with it if all of it is there.
TakeLength ==
    /\ pc["receiver"] = "take"
    /\ ~mqh_length_word_complete["receiver"]
    /\ LET len == mq_ring[Offset(read)].len
       IN IF Contiguous >= 1 + len
          THEN /\ Consume(1 + len)
               /\ Return(Ring(1, len), Offset(read) + 1)
               /\ UNCHANGED mqh_expected_bytes
          ELSE /\ Consume(1)
               /\ mqh_expected_bytes' = len
               /\ mqh_length_word_complete' = [mqh_length_word_complete EXCEPT !["receiver"] = TRUE]
               /\ Goto("receiver", "available")
               /\ UNCHANGED <<mqh_partial_bytes, mqh_buffer, datap, received>>
    /\ UNCHANGED <<life, latch, mq_set, mq_detached, counters, nowait,
                   mqh_counterparty_attached, sending, written, seen>>

CopyNothing == TRUE
NotCopied == mqh_partial_bytes["receiver"] = 0

\* The data: in one piece where it is, or copied piece by piece.
TakeData ==
    /\ pc["receiver"] = "take"
    /\ mqh_length_word_complete["receiver"]
    /\ LET n == Min(Contiguous, LeftToReceive)
           partial == mqh_partial_bytes["receiver"] + n
           data == mqh_buffer \o Ring(0, n)
       IN /\ Consume(n)
          /\ IF partial = mqh_expected_bytes
             THEN Return(data, IF NotCopied THEN Offset(read) ELSE NoPointer)
             ELSE /\ mqh_partial_bytes' = [mqh_partial_bytes EXCEPT !["receiver"] = partial]
                  /\ mqh_buffer' = data
                  /\ Goto("receiver", "available")
                  /\ UNCHANGED <<mqh_length_word_complete, datap, received>>
    /\ UNCHANGED <<life, latch, mq_set, mq_detached, counters, nowait,
                   mqh_counterparty_attached, sending, mqh_expected_bytes, written, seen>>

-----------------------------------------------------------------------------
\* shm_mq_detach publishes what is pending: at the end, or in mq_putmessage when the
\* interrupt of a send wants to send as well.
shm_mq_detach(p) ==
    /\ pc[p] \in {"idle", "told"} \cup (IF p = "sender" THEN {"retry"} ELSE {})
    /\ IF p = "sender" THEN shm_mq_inc_bytes_written
       ELSE UNCHANGED <<mq_bytes_written, mqh_send_pending>>
    /\ Goto(p, "detach")
    /\ UNCHANGED <<life, latch, mq_set, mq_detached, mq_bytes_read, nowait,
                   mqh_counterparty_attached, progress, nbytes, force_flush, rb, mq_ring,
                   sent, stream, receiving, seen>>

NoVictim(p) == FALSE
Victim(p) == mq_set[Peer(p)]

\* In shm_mq_detach, or as the callback when an error or an interrupt ends the caller.
shm_mq_detach_internal(p) ==
    /\ pc[p] \in {"detach", "idle", "told", "sleep", "retry", "w_sleep"}
    /\ mq_detached' = TRUE
    /\ Goto(p, IF Victim(p) THEN "leave" ELSE "gone")
    /\ UNCHANGED <<life, latch, mq_set, counters, nowait, mqh_counterparty_attached,
                   progress, sending, receiving, seen>>

Sender == \/ LookForSpace
          \/ RingFull
          \/ WriteChunk
          \/ FinishSend

Receiver == \/ shm_mq_receive
            \/ GiveBack
            \/ LookForData
            \/ TakeLength
            \/ TakeData

\* What a process does inside the queue.
Step(p) == \/ NotifyPeer(p)
           \/ Awake(p)
           \/ shm_mq_wait_internal(p)
           \/ shm_mq_counterparty_gone(p)
           \/ IF p = "sender" THEN Sender ELSE Receiver

Next == \/ BackgroundWorker
        \/ shm_mq_send
        \/ \E p \in Proc : \/ Step(p)
                           \/ UnrelatedLatch(p)
                           \/ shm_mq_attach(p)
                           \/ shm_mq_detach(p)
                           \/ shm_mq_detach_internal(p)

Spec == Init /\ [][Next]_vars

-----------------------------------------------------------------------------
Labels == {"new", "notify", "idle", "space", "test", "act", "full", "written", "whom",
           "publish", "flush", "consume", "consumed", "available", "take", "nodata",
           "recheck", "reclaim", "reclaimed", "told", "sleep", "retry", "detach", "leave",
           "gone", "w_ptr", "w_detached", "w_status", "w_sleep", "w_sender", "g_detached",
           "g_status", "g_peer"}

\* What was written and not yet given back is in the ring as it was written: the sender
\* never writes to units that the receiver may still read.
RingIntact ==
    \A n \in mq_bytes_read .. wb - 1 : mq_ring[Offset(n)] = stream[n + 1]

\* Messages arrive whole, unchanged and in the order they were sent, whatever their
\* length, wherever they wrap and however often sending and receiving are interrupted.
Fifo ==
    \A i \in DOMAIN received : i <= Len(sent) /\ received[i] = Payload(i, sent[i])

\* "the return value remains valid until the next receive operation"
MessageStaysValid ==
    datap # NoPointer =>
        LET data == received[Len(received)]
        IN /\ datap + Len(data) <= RingSize
           /\ \A i \in DOMAIN data : mq_ring[datap + i - 1] = data[i]

\* The messages whose last unit the receiver can see.
Visible == {m \in DOMAIN sent : \E n \in 1 .. mq_bytes_written :
                stream[n].msg = m /\ stream[n].pos = sent[m]}

\* The receiver hears that the queue is detached only when it is, for good, and when it
\* has had every message that was made visible before.
DetachedWhenDrained ==
    pc["receiver"] = "told" => mq_detached /\ \A m \in Visible : m <= Len(received)

Waits(p) == pc[p] \in {"sleep", "retry", "w_sleep"} /\ ~latch[p]
HasNews(p) == \/ mq_detached
              \/ WorkerGone(p)
              \/ ~mqh_counterparty_attached[p] /\ mq_set[Peer(p)]
              \/ p = "sender" /\ pc[p] # "w_sleep" /\ mq_bytes_read # rb
              \/ p = "receiver" /\ pc[p] # "w_sleep" /\ mq_bytes_written # written
AboutToNotify(p) == pc[p] \in {"notify", "full", "flush", "consumed", "reclaimed", "detach", "leave"}

\* Whoever waits for its latch and has something to do is about to be told.
Woken == \A p \in Proc : Waits(p) /\ HasNews(p) => AboutToNotify(Peer(p))

\* The same, for callers that send only when the receiver is there.
WokenUnlessEarly == early \/ Woken

\* The two sides of the queue never wait for each other.
NoStandoff ==
    ~early /\ ~mq_detached =>
        ~(\A p \in Proc : Waits(p) /\ mqh_counterparty_attached[p])

=============================================================================
