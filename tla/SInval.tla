------------------------------- MODULE SInval -------------------------------
(***************************************************************************)
(* The shared invalidation queue: src/backend/storage/ipc/sinvaladt.c, and *)
(* the loop by which a backend reads it, storage/ipc/sinval.c.             *)
(*                                                                         *)
(* A backend is the slot it occupies.  What SInvalWriteLock alone protects *)
(* is changed in the step that releases it, and SICleanupQueue, which      *)
(* locks out everybody, is one step; a reader, which only shares           *)
(* SInvalReadLock, interleaves with a writer.                              *)
(*                                                                         *)
(* pc[b] is where b is, named after what comes next:                       *)
(*   insert, fill, publish, kick   SIInsertDataEntries                     *)
(*   drain                         the loop over an outer call's messages  *)
(*   test, lock, fetch, copy       SIGetDataEntries                        *)
(*   process, caught_up            the rest of ReceiveSharedInvalidMessages*)
(*   pass_on                       its SICleanupQueue, for the write lock  *)
(*   X_clean, X_signal             SICleanupQueue called from X            *)
(***************************************************************************)
EXTENDS Integers, Sequences, FiniteSets

CONSTANTS
    MaxBackends,
    MAXNUMMESSAGES, MSGNUMWRAPAROUND, CLEANUP_MIN, CLEANUP_QUANTUM,
    SIG_THRESHOLD, WRITE_QUANTUM, MAXINVALMSGS,
    INT_MAX,            \* of the width of the message numbers
    Msg,                \* the messages
    Calls,              \* what each backend may send: sequences of messages
    MaxDepth            \* bound on the recursion of ReceiveShared...

ASSUME SInvalAssumption ==
    /\ MaxBackends \in Nat \ {0}
    /\ MAXNUMMESSAGES \in Nat \ {0}
    /\ MSGNUMWRAPAROUND \in Nat
    /\ MSGNUMWRAPAROUND % MAXNUMMESSAGES = 0
    /\ MSGNUMWRAPAROUND >= MAXNUMMESSAGES
    /\ INT_MAX \in Nat
    /\ INT_MAX >= MSGNUMWRAPAROUND + MAXNUMMESSAGES
    /\ CLEANUP_MIN \in Nat
    /\ CLEANUP_QUANTUM \in Nat \ {0}
    /\ SIG_THRESHOLD \in Nat
    /\ WRITE_QUANTUM \in 1 .. MAXNUMMESSAGES
    /\ MAXINVALMSGS \in Nat \ {0}
    /\ Calls \in [1 .. MaxBackends -> SUBSET Seq(Msg)]
    /\ MaxDepth \in Nat

Slot == 1 .. MaxBackends

VARIABLES
    minMsgNum, maxMsgNum, nextThreshold, lastBackend, buffer,
    active, resetState, signaled, hasMessages, sendOnly, nextMsgNum,  \* ProcState
    writeLock, readLock,    \* who holds them; the second in shared mode
    pc,
    data,                   \* what a writer has still to insert
    max, needSig,           \* locals of SIGetDataEntries and SICleanupQueue
    messages, nummsgs,      \* the static batch, from nextmsg on, and its size
    frames,                 \* where the outer calls of ReceiveShared... are
    signalFlags,            \* PROCSIG_CATCHUP_INTERRUPT sent and not yet handled
    catchupInterruptPending,
    owed                    \* history: what b has still to be told

seg == <<minMsgNum, maxMsgNum, nextThreshold, lastBackend, buffer>>
flags == <<active, resetState, signaled, hasMessages, sendOnly>>
batch == <<messages, nummsgs, frames>>
catchup == <<signalFlags, catchupInterruptPending>>
vars == <<minMsgNum, maxMsgNum, nextThreshold, lastBackend, buffer, active,
          resetState, signaled, hasMessages, sendOnly, nextMsgNum, writeLock, readLock, pc, data, max, needSig, messages,
          nummsgs, frames, signalFlags, catchupInterruptPending, owed>>

NoOne == 0
RESET == "reset"
Mark == {"new", "queued", "due"}

Location ==
    {"idle", "insert", "fill", "publish", "kick", "drain", "test", "lock",
     "fetch", "copy", "process", "caught_up", "pass_on",
     "insert_clean", "receive_clean", "insert_signal", "receive_signal"}

Goto(b, l) == pc' = [pc EXCEPT ![b] = l]

\* What an int holds after an addition or subtraction whose result is i;
\* PostgreSQL is built with -fwrapv.
Int32(i) ==
    IF i > INT_MAX THEN i - 2 * (INT_MAX + 1)
    ELSE IF i < -INT_MAX - 1 THEN i + 2 * (INT_MAX + 1) ELSE i

\* Counted when minMsgNum is computed: neither inactive, nor reset, nor sendOnly.
Tracked(b) ==
    active[b] /\ ~resetState[b] /\ ~sendOnly[b]

\* History.  A message is owed from when maxMsgNum covers it, "queued" when the
\* insertion is over, and "due" when b then begins to receive.
Marked(s, from, to) ==
    [i \in 1 .. Len(s) |-> IF s[i][2] = from THEN <<s[i][1], to>> ELSE s[i]]
Untold(b) == [i \in 1 .. Len(owed[b]) |-> owed[b][i][1]]

-----------------------------------------------------------------------------
\* CreateSharedInvalidationState(), and no backend yet.
Init ==
    /\ minMsgNum = 0 /\ maxMsgNum = 0
    /\ nextThreshold = CLEANUP_MIN
    /\ lastBackend = 0
    /\ buffer = [i \in 0 .. MAXNUMMESSAGES - 1 |-> "unused"]
    /\ active = [b \in Slot |-> FALSE] /\ sendOnly = [b \in Slot |-> FALSE]
    /\ resetState = [b \in Slot |-> FALSE] /\ signaled = [b \in Slot |-> FALSE]
    /\ hasMessages = [b \in Slot |-> FALSE]
    /\ nextMsgNum = [b \in Slot |-> 0]
    /\ writeLock = NoOne /\ readLock = {}
    /\ pc = [b \in Slot |-> "idle"]
    /\ data = [b \in Slot |-> <<>>]
    /\ max = [b \in Slot |-> 0]
    /\ needSig = [b \in Slot |-> NoOne]
    /\ messages = [b \in Slot |-> <<>>]
    /\ nummsgs = [b \in Slot |-> 0]
    /\ frames = [b \in Slot |-> <<>>]
    /\ signalFlags = {}
    /\ catchupInterruptPending = [b \in Slot |-> FALSE]
    /\ owed = [b \in Slot |-> <<>>]

\* The messages that are there when a backend starts are not for it.
FirstToReadOldest == minMsgNum
FirstToRead == maxMsgNum

\* A backend starts in the first free slot.
SharedInvalBackendInit(b, only) ==
    /\ writeLock = NoOne
    /\ ~active[b] /\ b <= lastBackend + 1
    /\ \A i \in 1 .. b - 1 : active[i]
    /\ active' = [active EXCEPT ![b] = TRUE]
    /\ resetState' = [resetState EXCEPT ![b] = FALSE]
    /\ signaled' = [signaled EXCEPT ![b] = FALSE]
    /\ hasMessages' = [hasMessages EXCEPT ![b] = FALSE]
    /\ sendOnly' = [sendOnly EXCEPT ![b] = only]
    /\ nextMsgNum' = [nextMsgNum EXCEPT ![b] = FirstToRead]
    /\ lastBackend' = IF b > lastBackend THEN b ELSE lastBackend
    /\ UNCHANGED <<minMsgNum, maxMsgNum, nextThreshold, buffer, writeLock, readLock,
                   pc, data, max, needSig, batch, catchup, owed>>

\* A backend exits, between its calls; what it had in local memory is gone,
\* and a signal to it no longer finds its pid.
CleanupInvalidationState(b) ==
    /\ pc[b] = "idle" /\ writeLock = NoOne
    /\ active[b]
    /\ active' = [active EXCEPT ![b] = FALSE]
    /\ resetState' = [resetState EXCEPT ![b] = FALSE]
    /\ signaled' = [signaled EXCEPT ![b] = FALSE]
    /\ nextMsgNum' = [nextMsgNum EXCEPT ![b] = 0]
    /\ \E i \in {0} \cup {j \in Slot : active'[j]} :
        /\ lastBackend' = i
        /\ \A j \in Slot : active'[j] => j <= i
    /\ messages' = [messages EXCEPT ![b] = <<>>]
    /\ nummsgs' = [nummsgs EXCEPT ![b] = 0]
    /\ catchupInterruptPending' = [catchupInterruptPending EXCEPT ![b] = FALSE]
    /\ signalFlags' = signalFlags \ {b}
    /\ needSig' = [c \in Slot |-> IF needSig[c] = b THEN NoOne ELSE needSig[c]]
    /\ owed' = [owed EXCEPT ![b] = <<>>]
    /\ UNCHANGED <<minMsgNum, maxMsgNum, nextThreshold, buffer, hasMessages, sendOnly,
                   writeLock, readLock, pc, data, max, frames>>

-----------------------------------------------------------------------------
\* SIInsertDataEntries(), called with msgs.
SendSharedInvalidMessages(b, msgs) ==
    /\ pc[b] = "idle" /\ active[b]
    /\ msgs # <<>>
    /\ data' = [data EXCEPT ![b] = msgs]
    /\ Goto(b, "insert")
    /\ UNCHANGED <<seg, flags, nextMsgNum, writeLock, readLock, max, needSig,
                   batch, catchup, owed>>

\* Min(n, WRITE_QUANTUM)
nthistime(b) == IF Len(data[b]) < WRITE_QUANTUM THEN Len(data[b]) ELSE WRITE_QUANTUM

\* LWLockAcquire(SInvalWriteLock), by an insertion and by a caught-up reader.
TakeWriteLock(b) ==
    /\ writeLock = NoOne
    /\ writeLock' = b
    /\ \/ pc[b] = "insert" /\ Goto(b, "fill")
       \/ pc[b] = "pass_on" /\ Goto(b, "receive_clean")
    /\ UNCHANGED <<seg, flags, nextMsgNum, readLock, data, max, needSig, batch,
                   catchup, owed>>

MustClean(b) ==
    \/ maxMsgNum - minMsgNum + nthistime(b) > MAXNUMMESSAGES
    \/ maxMsgNum - minMsgNum >= nextThreshold

\* The test of the inner loop, and then the entries, not visible yet.
Fill(b) ==
    /\ pc[b] = "fill"
    /\ IF MustClean(b)
       THEN Goto(b, "insert_clean") /\ UNCHANGED buffer
       ELSE /\ Goto(b, "publish")
            /\ buffer' = [i \in DOMAIN buffer |->
                             LET k == (i - maxMsgNum) % MAXNUMMESSAGES
                             IN IF k < nthistime(b) THEN data[b][k + 1] ELSE buffer[i]]
    /\ UNCHANGED <<minMsgNum, maxMsgNum, nextThreshold, lastBackend, flags,
                   nextMsgNum, writeLock, readLock, data, max, needSig, batch,
                   catchup, owed>>

\* maxMsgNum advances: readers may now see the entries.
Publish(b) ==
    LET new == [i \in 1 .. nthistime(b) |-> <<data[b][i], "new">>] IN
    /\ pc[b] = "publish"
    /\ maxMsgNum' = Int32(maxMsgNum + nthistime(b))
    /\ owed' = [c \in Slot |->
                   IF Tracked(c) \/ (resetState[c] /\ pc[c] = "copy")
                   THEN owed[c] \o new ELSE owed[c]]
    /\ Goto(b, "kick")
    /\ UNCHANGED <<minMsgNum, nextThreshold, lastBackend, buffer, flags, nextMsgNum,
                   writeLock, readLock, data, max, needSig, batch,
                   catchup>>

\* Everyone is told to look, and the lock is released.
Kick(b) ==
    /\ pc[b] = "kick"
    /\ hasMessages' = [c \in Slot |-> c <= lastBackend \/ hasMessages[c]]
    /\ owed' = [c \in Slot |-> Marked(owed[c], "new", "queued")]
    /\ data' = [data EXCEPT ![b] = SubSeq(@, nthistime(b) + 1, Len(@))]
    /\ writeLock' = NoOne
    /\ Goto(b, IF Len(data[b]) > nthistime(b) THEN "insert" ELSE "idle")
    /\ UNCHANGED <<seg, active, resetState, signaled, sendOnly, nextMsgNum, readLock, max,
                   needSig, batch,
                   catchup>>

-----------------------------------------------------------------------------
\* ReceiveSharedInvalidMessages(): a call from outside of any other, and one
\* that processing a message, or a reset, makes.
ReceiveSharedInvalidMessages(b) ==
    /\ pc[b] = "idle" /\ active[b] /\ ~sendOnly[b]
    /\ Goto(b, "drain")
    /\ owed' = [owed EXCEPT ![b] = Marked(@, "queued", "due")]
    /\ UNCHANGED <<seg, flags, nextMsgNum, writeLock, readLock, data, max, needSig,
                   batch, catchup>>

\* b has been told what heads owed[b]; the code called for it may receive
\* again, and control then comes back to l.
Told(b, l) ==
    \/ /\ Goto(b, l)
       /\ owed' = [owed EXCEPT ![b] = Tail(@)]
       /\ UNCHANGED frames
    \/ /\ Len(frames[b]) < MaxDepth
       /\ Goto(b, "drain")
       /\ frames' = [frames EXCEPT ![b] = <<l>> \o @]
       /\ owed' = [owed EXCEPT ![b] = Marked(Tail(@), "queued", "due")]

\* invalFunction(&msg), in the loop at l.
Invalidate(b, l) ==
    /\ pc[b] = l /\ l \in {"drain", "process"}
    /\ messages[b] # <<>>
    /\ messages' = [messages EXCEPT ![b] = Tail(@)]
    /\ Told(b, l)
    /\ UNCHANGED <<seg, flags, nextMsgNum, writeLock, readLock, data, max, needSig,
                   nummsgs, catchup>>

\* The call returns, to the call outside of it if there is one.
Return(b) ==
    IF frames[b] = <<>>
    THEN Goto(b, "idle") /\ UNCHANGED frames
    ELSE Goto(b, Head(frames[b])) /\ frames' = [frames EXCEPT ![b] = Tail(@)]

\* A loop over the batch ends; the outer do loop goes on after a full batch.
LoopEnds(b) ==
    /\ messages[b] = <<>>
    /\ \/ pc[b] = "drain" /\ Goto(b, "test")
       \/ /\ pc[b] = "process"
          /\ Goto(b, IF nummsgs[b] = MAXINVALMSGS THEN "test" ELSE "caught_up")
    /\ UNCHANGED <<seg, flags, nextMsgNum, writeLock, readLock, data, max, needSig,
                   batch, catchup, owed>>

\* SIGetDataEntries(): the unlocked test.
TestHasMessages(b) ==
    /\ pc[b] = "test"
    /\ nummsgs' = [nummsgs EXCEPT ![b] = 0]
    /\ Goto(b, IF hasMessages[b] THEN "lock" ELSE "caught_up")
    /\ UNCHANGED <<seg, flags, nextMsgNum, writeLock, readLock, data, max, needSig,
                   messages, frames, catchup, owed>>

\* SInvalReadLock in shared mode; hasMessages is cleared before maxMsgNum is read.
LockAndClear(b) ==
    /\ pc[b] = "lock"
    /\ readLock' = readLock \cup {b}
    /\ hasMessages' = [hasMessages EXCEPT ![b] = FALSE]
    /\ Goto(b, "fetch")
    /\ UNCHANGED <<seg, active, resetState, signaled, sendOnly, nextMsgNum, writeLock, data, max, needSig, batch,
                   catchup, owed>>

FetchMax(b) ==
    /\ pc[b] = "fetch"
    /\ max' = [max EXCEPT ![b] = maxMsgNum]
    /\ Goto(b, "copy")
    /\ UNCHANGED <<seg, flags, nextMsgNum, writeLock, readLock, data, needSig, batch,
                   catchup, owed>>

\* "SI reset message extracted", and resetFunction().
TakeReset(b) ==
    /\ pc[b] = "copy" /\ resetState[b]
    /\ nextMsgNum' = [nextMsgNum EXCEPT ![b] = max[b]]
    /\ resetState' = [resetState EXCEPT ![b] = FALSE]
    /\ signaled' = [signaled EXCEPT ![b] = FALSE]
    /\ readLock' = readLock \ {b}
    /\ max' = [max EXCEPT ![b] = 0]
    /\ Told(b, "caught_up")
    /\ UNCHANGED <<seg, active, hasMessages, sendOnly, writeLock, data, needSig, messages, nummsgs,
                   catchup>>

\* The number of messages one call extracts.
Extracted(b) ==
    IF max[b] - nextMsgNum[b] < MAXINVALMSGS THEN max[b] - nextMsgNum[b] ELSE MAXINVALMSGS

\* The entries from number n on, k of them.
Entries(n, k) == [i \in 1 .. k |-> buffer[(n + i - 1) % MAXNUMMESSAGES]]

HasMoreNever(b, old) == old
HasMore(b, old) == IF nextMsgNum[b] + Extracted(b) >= max[b] THEN old ELSE TRUE

CopyEntries(b) ==
    /\ pc[b] = "copy" /\ ~resetState[b]
    /\ messages' = [messages EXCEPT ![b] = Entries(nextMsgNum[b], Extracted(b))]
    /\ nummsgs' = [nummsgs EXCEPT ![b] = Extracted(b)]
    /\ nextMsgNum' = [nextMsgNum EXCEPT ![b] = Int32(@ + Extracted(b))]
    /\ signaled' = [signaled EXCEPT ![b] = @ /\ nextMsgNum[b] + Extracted(b) < max[b]]
    /\ hasMessages' = [hasMessages EXCEPT ![b] = HasMore(b, @)]
    /\ readLock' = readLock \ {b}
    /\ max' = [max EXCEPT ![b] = 0]
    /\ Goto(b, "process")
    /\ UNCHANGED <<seg, active, resetState, sendOnly, writeLock, data, needSig, frames, catchup,
                   owed>>

\* "We are now caught up."
CaughtUp(b) ==
    /\ pc[b] = "caught_up"
    /\ catchupInterruptPending' = [catchupInterruptPending EXCEPT ![b] = FALSE]
    /\ UNCHANGED signalFlags
    /\ IF catchupInterruptPending[b]
       THEN Goto(b, "pass_on") /\ UNCHANGED frames
       ELSE Return(b)
    /\ UNCHANGED <<seg, flags, nextMsgNum, writeLock, readLock, data, max, needSig,
                   messages, nummsgs, owed>>

-----------------------------------------------------------------------------
\* SICleanupQueue(), with both locks held.
TooFarBack(minFree) ==
    {c \in 1 .. lastBackend :
        Tracked(c) /\ nextMsgNum[c] < maxMsgNum - MAXNUMMESSAGES + minFree}
Readers(minFree) == {c \in 1 .. lastBackend : Tracked(c)} \ TooFarBack(minFree)

\* The furthest back of the backends that need a signal and had none.
NeedSig(minFree) ==
    LET late == {c \in Readers(minFree) : /\ ~signaled[c]
                                          /\ nextMsgNum[c] < maxMsgNum - SIG_THRESHOLD}
    IN {c \in late : \A d \in late : \/ nextMsgNum[c] < nextMsgNum[d]
                                     \/ nextMsgNum[c] = nextMsgNum[d] /\ c <= d}

NextThreshold(numMsgs) ==
    IF numMsgs < CLEANUP_MIN THEN CLEANUP_MIN
    ELSE (numMsgs \div CLEANUP_QUANTUM + 1) * CLEANUP_QUANTUM

\* How much every message number is decremented, when the least is min.
WrapAroundNever(min) == 0
WrapAround(min) == IF min >= MSGNUMWRAPAROUND THEN MSGNUMWRAPAROUND ELSE 0

Renumbered(c, w) ==
    IF c <= lastBackend THEN Int32(nextMsgNum[c] - w) ELSE nextMsgNum[c]

\* resetState now stands for all that c had not extracted yet.
Forgotten(c) ==
    LET lost == SubSeq(owed[c], Len(messages[c]) + 1, Len(owed[c]))
        late == \E i \in DOMAIN lost : lost[i][2] = "due"
    IN SubSeq(owed[c], 1, Len(messages[c]))
           \o << <<RESET, IF late THEN "due" ELSE "queued">> >>

\* The locks are released, the caller's too when somebody is to be signaled.
SICleanupQueue(b, minFree) ==
    /\ readLock = {}
    /\ \E min \in {maxMsgNum} \cup {nextMsgNum[c] : c \in Readers(minFree)} :
        /\ \A c \in Readers(minFree) : min <= nextMsgNum[c]
        /\ minMsgNum' = min - WrapAround(min)
        /\ maxMsgNum' = Int32(maxMsgNum - WrapAround(min))
        /\ nextMsgNum' = [c \in Slot |-> Renumbered(c, WrapAround(min))]
        /\ nextThreshold' = NextThreshold(maxMsgNum - min)
    /\ resetState' = [c \in Slot |-> resetState[c] \/ c \in TooFarBack(minFree)]
    /\ signaled' = [c \in Slot |-> signaled[c] \/ c \in NeedSig(minFree)]
    /\ owed' = [c \in Slot |-> IF c \in TooFarBack(minFree) THEN Forgotten(c) ELSE owed[c]]
    /\ \/ /\ NeedSig(minFree) = {} /\ pc[b] = "insert_clean"
          /\ Goto(b, "fill")
          /\ UNCHANGED <<needSig, writeLock, frames>>
       \/ /\ NeedSig(minFree) = {} /\ pc[b] = "receive_clean"
          /\ Return(b)
          /\ writeLock' = NoOne
          /\ UNCHANGED needSig
       \/ /\ needSig' \in {[needSig EXCEPT ![b] = c] : c \in NeedSig(minFree)}
          /\ writeLock' = NoOne
          /\ Goto(b, IF pc[b] = "insert_clean" THEN "insert_signal" ELSE "receive_signal")
          /\ UNCHANGED frames
    /\ UNCHANGED <<lastBackend, buffer, active, hasMessages, sendOnly, readLock, data,
                   max, messages, nummsgs, catchup>>

Clean(b) ==
    \/ pc[b] = "insert_clean" /\ SICleanupQueue(b, nthistime(b))
    \/ pc[b] = "receive_clean" /\ SICleanupQueue(b, 0)

\* Without the locks; an insertion then takes the write lock and tests again.
SendProcSignal(b) ==
    /\ signalFlags' = signalFlags \cup ({needSig[b]} \ {NoOne})
    /\ needSig' = [needSig EXCEPT ![b] = NoOne]
    /\ \/ pc[b] = "insert_signal" /\ Goto(b, "insert") /\ UNCHANGED frames
       \/ pc[b] = "receive_signal" /\ Return(b)
    /\ UNCHANGED <<seg, flags, nextMsgNum, writeLock, readLock, data, max, messages,
                   nummsgs, catchupInterruptPending, owed>>

HandleCatchupInterrupt(b) ==
    /\ b \in signalFlags
    /\ signalFlags' = signalFlags \ {b}
    /\ catchupInterruptPending' = [catchupInterruptPending EXCEPT ![b] = TRUE]
    /\ UNCHANGED <<seg, flags, nextMsgNum, writeLock, readLock, pc, data, max,
                   needSig, batch, owed>>

-----------------------------------------------------------------------------
Insertion(b) ==
    \/ \E msgs \in Calls[b] : SendSharedInvalidMessages(b, msgs)
    \/ TakeWriteLock(b) \/ Fill(b) \/ Publish(b) \/ Kick(b)

Reception(b) ==
    \/ ReceiveSharedInvalidMessages(b)
    \/ \E l \in {"drain", "process"} : Invalidate(b, l)
    \/ LoopEnds(b) \/ TestHasMessages(b) \/ LockAndClear(b) \/ FetchMax(b)
    \/ TakeReset(b) \/ CopyEntries(b) \/ CaughtUp(b)

Next ==
    \E b \in Slot :
        \/ \E only \in BOOLEAN : SharedInvalBackendInit(b, only)
        \/ CleanupInvalidationState(b)
        \/ Insertion(b) \/ Reception(b)
        \/ Clean(b) \/ SendProcSignal(b) \/ HandleCatchupInterrupt(b)

Spec == Init /\ [][Next]_vars

-----------------------------------------------------------------------------
\* What sinvaladt.c:35-38 says of the counters: "we have maxMsgNum >= nextMsgNum
\* >= minMsgNum for every backend", those in reset state or sending only aside;
\* the queue never holds more than MAXNUMMESSAGES, and the wraparound of
\* SICleanupQueue keeps the numbers away from the limits of an int.
MsgNumsOrdered ==
    /\ 0 <= minMsgNum /\ minMsgNum < MSGNUMWRAPAROUND
    /\ minMsgNum <= maxMsgNum /\ maxMsgNum - minMsgNum <= MAXNUMMESSAGES
    /\ \A b \in Slot : Tracked(b) => /\ minMsgNum <= nextMsgNum[b]
                                     /\ nextMsgNum[b] <= maxMsgNum

\* What SIGetDataEntries would give b, and the batch b is processing, are
\* together what was sent since b last caught up, in order, none missing, none
\* twice and none overwritten; a reset stands for what it made b lose.
QueueHoldsUnread ==
    \A b \in Slot : active[b] /\ ~sendOnly[b] =>
        LET from == IF ~resetState[b] THEN nextMsgNum[b]
                    ELSE IF pc[b] = "copy" THEN max[b] ELSE maxMsgNum
            reset == IF resetState[b] THEN <<RESET>> ELSE <<>>
        IN Untold(b) = messages[b] \o reset \o Entries(from, maxMsgNum - from)

\* The guarantee of ReceiveSharedInvalidMessages: every message whose insertion
\* was over when it was called has been processed when it returns, in the call
\* or in one nested in it.
ReceiveGuarantee ==
    \A b \in Slot : pc[b] = "caught_up" =>
        \A i \in DOMAIN owed[b] : owed[b][i][2] # "due"

=============================================================================
