------------------------------- MODULE LWLock -------------------------------
(***************************************************************************)
(* Lightweight locks: src/backend/storage/lmgr/lwlock.c.  One lock, the    *)
(* processes that use it, and the process semaphores they sleep on.        *)
(*                                                                         *)
(* lock->state is one atomic word; its fields are the first five           *)
(* variables, and an action that changes several of them is one atomic     *)
(* operation of the source.  The compare-and-exchange loops are the        *)
(* exchange that succeeds.  Between the atomic operations processes        *)
(* interleave freely; memory that the wait list lock protects is changed   *)
(* in the step that releases it.                                           *)
(*                                                                         *)
(* pc[p] is where p is in its present call, named after what comes next:   *)
(*   attempt, reattempt     LWLockAttemptLock(), first and second time     *)
(*   check, recheck         LWLockConflictsWithVar(), its test of state    *)
(*   X, X_in                about to take the wait list lock for X, and    *)
(*                          inside: queue, read, reread, dequeue, update,  *)
(*                          clear, wakeup                                  *)
(*   queued, retry, absorb  about to set LW_FLAG_RELEASE_OK                *)
(*   sleep, dequeue_sleep   PGSemaphoreLock()                              *)
(*   wake, signal           the loop over the local list wakeup            *)
(***************************************************************************)
EXTENDS Naturals, Sequences, FiniteSets

CONSTANTS
    Proc,
    Workloads       \* what the callers do: the calls of each, the modes, the
                    \* values of the variable (0 while the lock is free), and
                    \* the bound on the signals each semaphore gets from elsewhere

LockModes == {"shared", "exclusive"}
CallName == {"acquire", "conditional", "orwait", "waitvar"}

ASSUME LWLockAssumption ==
    /\ IsFiniteSet(Proc)
    /\ \A w \in Workloads :
         /\ w.calls \in [Proc -> SUBSET CallName] /\ w.modes \subseteq LockModes
         /\ w.values \subseteq Nat /\ w.foreign \in [Proc -> Nat]

VARIABLES
    load,                   \* the workload, chosen at the start
    exclusive, shared,      \* LW_VAL_EXCLUSIVE and LW_VAL_SHARED counts
    has_waiters, release_ok, locked,    \* LW_FLAG_*
    waiters,                \* lock->waiters
    valptr,                 \* *valptr, the variable that goes with the lock
    lwWaiting, lwWaitMode, sem,         \* of each PGPROC
    foreign,                \* history: signals sem got from elsewhere
    pc, call, mode, val,    \* where p is, in which call, and its arguments
    extraWaits, wakeup,     \* locals of the functions
    own                     \* the mode p was granted: held_lwlocks, lock->owner

state == <<exclusive, shared, has_waiters, release_ok, locked>>
flags == <<has_waiters, release_ok, locked>>
proc == <<lwWaiting, lwWaitMode>>
args == <<call, mode, val>>
vars == <<load, exclusive, shared, has_waiters, release_ok, locked, waiters, valptr,
          lwWaiting, lwWaitMode, sem, foreign, pc, call, mode, val, extraWaits,
          wakeup, own>>

Entries == {"queue", "read", "reread", "dequeue", "update", "clear", "wakeup"}
Inside == {"queue_flag", "queue_in", "read_in", "reread_in", "dequeue_in",
           "dequeue_out", "dequeue_gone", "update_in", "clear_in", "wakeup_in"}
Location == Entries \cup Inside \cup
    {"idle", "attempt", "reattempt", "check", "recheck", "queued", "retry", "absorb",
     "sleep", "dequeue_sleep", "release", "wake", "signal"}

Goto(p, l) == pc' = [pc EXCEPT ![p] = l]

KeepAbsorbed(p) == 0
\* while (extraWaits-- > 0) PGSemaphoreUnlock(...)
GiveBack(p) == extraWaits[p]

\* The call returns; s is p's semaphore count.
Return(p, s) ==
    /\ Goto(p, "idle")
    /\ sem' = [sem EXCEPT ![p] = s + GiveBack(p)]
    /\ extraWaits' = [extraWaits EXCEPT ![p] = 0]

GoOn(p, l) ==
    /\ Goto(p, l)
    /\ UNCHANGED <<sem, extraWaits>>

-----------------------------------------------------------------------------
\* LWLockInitialize(), and processes outside of any call.
Init ==
    /\ load \in Workloads
    /\ exclusive = 0 /\ shared = 0
    /\ has_waiters = FALSE /\ release_ok = TRUE /\ locked = FALSE
    /\ waiters = <<>>
    /\ valptr = 0
    /\ lwWaiting = [p \in Proc |-> "not_waiting"]
    /\ lwWaitMode = [p \in Proc |-> "exclusive"]
    /\ sem = [p \in Proc |-> 0]
    /\ foreign = [p \in Proc |-> 0]
    /\ pc = [p \in Proc |-> "idle"]
    /\ call = [p \in Proc |-> "acquire"]
    /\ mode = [p \in Proc |-> "exclusive"]
    /\ val = [p \in Proc |-> 0]
    /\ extraWaits = [p \in Proc |-> 0]
    /\ wakeup = [p \in Proc |-> <<>>]
    /\ own = [p \in Proc |-> "none"]

-----------------------------------------------------------------------------
(* LWLockAttemptLock() *)

CanLockUnlessExclusive(m) == exclusive = 0

\* lock_free
CanLock(m) == exclusive = 0 /\ (m = "exclusive" => shared = 0)

Grant(p, m) ==
    /\ exclusive' = IF m = "exclusive" THEN exclusive + 1 ELSE exclusive
    /\ shared' = IF m = "shared" THEN shared + 1 ELSE shared
    /\ own' = [own EXCEPT ![p] = m]
    /\ UNCHANGED flags

-----------------------------------------------------------------------------
(* The calls.  A caller does not take the lock again while it holds it. *)

Start(p, c, l, m, v) ==
    /\ pc[p] = "idle" /\ own[p] = "none"
    /\ c \in load.calls[p] /\ m \in load.modes
    /\ call' = [call EXCEPT ![p] = c]
    /\ mode' = [mode EXCEPT ![p] = m]
    /\ val' = [val EXCEPT ![p] = v]
    /\ Goto(p, l)
    /\ UNCHANGED <<state, waiters, valptr, proc, sem, foreign, extraWaits, wakeup, own>>

LWLockAcquire(p) == \E m \in LockModes : Start(p, "acquire", "attempt", m, 0)

LWLockAcquireOrWait(p) == \E m \in LockModes : Start(p, "orwait", "attempt", m, 0)

LWLockWaitForVar(p) == \E v \in load.values : Start(p, "waitvar", "check", "exclusive", v)

\* One atomic operation; when it fails nothing has changed.
LWLockConditionalAcquire(p, m) ==
    /\ pc[p] = "idle" /\ own[p] = "none"
    /\ "conditional" \in load.calls[p] /\ m \in load.modes
    /\ CanLock(m)
    /\ Grant(p, m)
    /\ UNCHANGED <<waiters, valptr, proc, sem, foreign, pc, args, extraWaits, wakeup>>

\* Granted at the first attempt the call returns, at the second it must dequeue;
\* refused at the first it queues, at the second it sleeps.
AttemptLock(p) ==
    /\ pc[p] \in {"attempt", "reattempt"}
    /\ \/ /\ CanLock(mode[p])
          /\ Grant(p, mode[p])
          /\ IF pc[p] = "attempt" THEN Return(p, sem[p]) ELSE GoOn(p, "dequeue")
       \/ /\ ~CanLock(mode[p])
          /\ GoOn(p, IF pc[p] = "attempt" THEN "queue" ELSE "sleep")
          /\ UNCHANGED <<state, own>>
    /\ UNCHANGED <<waiters, valptr, proc, foreign, args, wakeup>>

-----------------------------------------------------------------------------
(* The wait list *)

EntryOf(l) == CASE l = "queue" -> "queue_flag" [] l = "read" -> "read_in"
                [] l = "reread" -> "reread_in" [] l = "dequeue" -> "dequeue_in"
                [] l = "update" -> "update_in" [] l = "clear" -> "clear_in"
                [] l = "wakeup" -> "wakeup_in"

\* !(old_state & LW_FLAG_LOCKED)
ListFree == ~locked

\* The fetch-or of LWLockWaitListLock() that finds the list free.
LWLockWaitListLock(p) ==
    /\ pc[p] \in Entries
    /\ ListFree
    /\ locked' = TRUE
    /\ Goto(p, EntryOf(pc[p]))
    /\ UNCHANGED <<exclusive, shared, has_waiters, release_ok, waiters, valptr, proc,
                   sem, foreign, args, extraWaits, wakeup, own>>

\* LWLockWaitListUnlock()
Unlock == locked' = FALSE /\ UNCHANGED <<exclusive, shared, has_waiters, release_ok>>

QueueFlag(p) ==
    /\ pc[p] = "queue_flag"
    /\ has_waiters' = TRUE
    /\ Goto(p, "queue_in")
    /\ UNCHANGED <<exclusive, shared, release_ok, locked, waiters, valptr, proc, sem,
                   foreign, args, extraWaits, wakeup, own>>

\* Waiters for a free lock go to the front.
Push(m, p) == IF m = "until_free" THEN <<p>> \o waiters ELSE Append(waiters, p)

\* The rest of LWLockQueueSelf().
LWLockQueueSelf(p) ==
    /\ pc[p] = "queue_in"
    /\ LET m == IF call[p] = "acquire" THEN mode[p] ELSE "until_free" IN
         /\ lwWaitMode' = [lwWaitMode EXCEPT ![p] = m]
         /\ waiters' = Push(m, p)
    /\ lwWaiting' = [lwWaiting EXCEPT ![p] = "waiting"]
    /\ Unlock
    /\ Goto(p, IF call[p] = "waitvar" THEN "queued" ELSE "reattempt")
    /\ UNCHANGED <<valptr, sem, foreign, args, extraWaits, wakeup, own>>

NoneLeft == FALSE
\* LW_FLAG_HAS_WAITERS after a process has dequeued itself.
StillWaiters == has_waiters /\ waiters' # <<>>

\* The entries of the list s that are in w, in their order.
Those(s, w) ==
    LET at == {i \in 1 .. Len(s) : s[i] \in w}
    IN [k \in 1 .. Cardinality(at) |->
          s[CHOOSE i \in at : Cardinality({j \in at : j <= i}) = k]]

Without(p) == Those(waiters, Proc \ {p})

\* LWLockDequeueSelf() with the wait list locked; a waker may have been first.
DequeueUnlink(p) ==
    /\ pc[p] = "dequeue_in"
    /\ waiters' = IF lwWaiting[p] = "waiting" THEN Without(p) ELSE waiters
    /\ has_waiters' = StillWaiters
    /\ Goto(p, IF lwWaiting[p] = "waiting" THEN "dequeue_out" ELSE "dequeue_gone")
    /\ UNCHANGED <<exclusive, shared, release_ok, locked, valptr, proc, sem, foreign,
                   args, extraWaits, wakeup, own>>

\* ... and from there: done, or a wakeup is on its way and must be awaited.
LWLockDequeueSelf(p) ==
    /\ pc[p] \in {"dequeue_out", "dequeue_gone"}
    /\ Unlock
    /\ \/ /\ pc[p] = "dequeue_out"
          /\ lwWaiting' = [lwWaiting EXCEPT ![p] = "not_waiting"]
          /\ Return(p, sem[p])
       \/ /\ pc[p] = "dequeue_gone"
          /\ GoOn(p, "absorb")
          /\ UNCHANGED lwWaiting
    /\ UNCHANGED <<waiters, valptr, lwWaitMode, foreign, args, wakeup, own>>

ReleaseStays == UNCHANGED release_ok
AllowRelease == release_ok' = TRUE

\* pg_atomic_fetch_or_u32(&lock->state, LW_FLAG_RELEASE_OK)
SetReleaseOk(p) ==
    /\ pc[p] \in {"queued", "retry", "absorb"}
    /\ AllowRelease
    /\ Goto(p, CASE pc[p] = "queued" -> "recheck" [] pc[p] = "retry" -> "attempt"
                 [] pc[p] = "absorb" -> "dequeue_sleep")
    /\ UNCHANGED <<exclusive, shared, has_waiters, locked, waiters, valptr, proc, sem,
                   foreign, args, extraWaits, wakeup, own>>

\* One turn of the loops around PGSemaphoreLock().
Sleep(p) ==
    /\ pc[p] \in {"sleep", "dequeue_sleep"}
    /\ sem[p] > 0
    /\ CASE lwWaiting[p] # "not_waiting" ->
              /\ sem' = [sem EXCEPT ![p] = @ - 1]
              /\ extraWaits' = [extraWaits EXCEPT ![p] = @ + 1]
              /\ UNCHANGED pc
         [] OTHER ->
              IF pc[p] = "dequeue_sleep" \/ call[p] = "orwait"
              THEN Return(p, sem[p] - 1)
              ELSE /\ sem' = [sem EXCEPT ![p] = @ - 1]
                   /\ Goto(p, IF call[p] = "acquire" THEN "retry" ELSE "check")
                   /\ UNCHANGED extraWaits
    /\ UNCHANGED <<state, waiters, valptr, proc, foreign, args, wakeup, own>>

-----------------------------------------------------------------------------
(* LWLockConflictsWithVar(), and the variable *)

ConflictsWithVar(p) ==
    /\ pc[p] \in {"check", "recheck"}
    /\ CASE exclusive # 0 -> GoOn(p, IF pc[p] = "check" THEN "read" ELSE "reread")
         [] OTHER -> IF pc[p] = "check" THEN Return(p, sem[p]) ELSE GoOn(p, "dequeue")
    /\ UNCHANGED <<state, waiters, valptr, proc, foreign, args, wakeup, own>>

ReadVar(p) ==
    /\ pc[p] \in {"read_in", "reread_in"}
    /\ Unlock
    /\ CASE valptr = val[p] -> GoOn(p, IF pc[p] = "read_in" THEN "queue" ELSE "sleep")
         [] OTHER -> IF pc[p] = "read_in" THEN Return(p, sem[p]) ELSE GoOn(p, "dequeue")
    /\ UNCHANGED <<waiters, valptr, proc, foreign, args, wakeup, own>>

\* The holder announces progress: its values grow.
StartUpdateVar(p) ==
    /\ pc[p] = "idle" /\ own[p] = "exclusive"
    /\ \E v \in load.values : v > valptr /\ val' = [val EXCEPT ![p] = v]
    /\ Goto(p, "update")
    /\ UNCHANGED <<state, waiters, valptr, proc, sem, foreign, call, mode, extraWaits,
                   wakeup, own>>

\* The processes of w are moved from the wait list to p's local list.
Take(p, w) ==
    /\ waiters' = Those(waiters, Proc \ w)
    /\ wakeup' = [wakeup EXCEPT ![p] = Those(waiters, w)]
    /\ lwWaiting' = [q \in Proc |-> IF q \in w THEN "pending" ELSE lwWaiting[q]]

FrontOne == IF waiters # <<>> /\ lwWaitMode[waiters[1]] = "until_free" THEN {waiters[1]} ELSE {}
\* The waiters for a free lock at the front of the queue.
FrontRun ==
    {waiters[i] : i \in {j \in 1 .. Len(waiters) :
        \A k \in 1 .. j : lwWaitMode[waiters[k]] = "until_free"}}

LWLockUpdateVar(p) ==
    /\ pc[p] = "update_in"
    /\ valptr' = val[p]
    /\ Take(p, FrontRun)
    /\ Unlock
    /\ Goto(p, "wake")
    /\ UNCHANGED <<lwWaitMode, sem, foreign, args, extraWaits, own>>

-----------------------------------------------------------------------------
(* Release *)

\* pg_atomic_sub_fetch_u32()
Unhold(p) ==
    /\ exclusive' = IF own[p] = "exclusive" THEN exclusive - 1 ELSE exclusive
    /\ shared' = IF own[p] = "shared" THEN shared - 1 ELSE shared

CheckWaitersOld == has_waiters /\ release_ok /\ exclusive = 0 /\ shared = 0
CheckWaiters == has_waiters /\ release_ok /\ exclusive' = 0 /\ shared' = 0

\* LWLockRelease() up to LWLockWakeup(); LWLockReleaseAll() does the same.
LWLockRelease(p) ==
    /\ pc[p] = "release" \/ (pc[p] = "idle" /\ own[p] # "none")
    /\ Unhold(p)
    /\ own' = [own EXCEPT ![p] = "none"]
    /\ Goto(p, IF CheckWaiters THEN "wakeup" ELSE "idle")
    /\ UNCHANGED <<flags, waiters, valptr, proc, sem, foreign, args, extraWaits, wakeup>>

StartReleaseClearVar(p) ==
    /\ pc[p] = "idle" /\ own[p] = "exclusive"
    /\ Goto(p, "clear")
    /\ UNCHANGED <<state, waiters, valptr, proc, sem, foreign, args, extraWaits, wakeup, own>>

LWLockReleaseClearVar(p) ==
    /\ pc[p] = "clear_in"
    /\ valptr' = 0
    /\ Unlock
    /\ Goto(p, "release")
    /\ UNCHANGED <<waiters, proc, sem, foreign, args, extraWaits, wakeup, own>>

\* Who LWLockWakeup() wakes.  The first waiter that wants the lock decides: one
\* in exclusive mode ends the scan, one in shared mode lets exclusive ones stay.
Lockers == {i \in 1 .. Len(waiters) : lwWaitMode[waiters[i]] # "until_free"}
First == CHOOSE i \in Lockers : \A j \in Lockers : i <= j
WakeAll == {waiters[i] : i \in 1 .. Len(waiters)}
Awakened ==
    IF Lockers = {} THEN WakeAll
    ELSE {waiters[i] : i \in
            IF lwWaitMode[waiters[First]] = "exclusive" THEN 1 .. First
            ELSE {j \in 1 .. Len(waiters) : lwWaitMode[waiters[j]] # "exclusive"}}

LWLockWakeup(p) ==
    /\ pc[p] = "wakeup_in"
    /\ Take(p, Awakened)
    /\ release_ok' = (Lockers = {})
    /\ has_waiters' = (has_waiters /\ Awakened # {})
    /\ locked' = FALSE
    /\ Goto(p, "wake")
    /\ UNCHANGED <<exclusive, shared, valptr, lwWaitMode, sem, foreign, args,
                   extraWaits, own>>

\* The head of wakeup is unlinked, and only then told so ...
Wake(p) ==
    /\ pc[p] = "wake"
    /\ \/ /\ wakeup[p] = <<>>
          /\ Goto(p, "idle")
          /\ UNCHANGED lwWaiting
       \/ /\ wakeup[p] # <<>>
          /\ lwWaiting' = [lwWaiting EXCEPT ![Head(wakeup[p])] = "not_waiting"]
          /\ Goto(p, "signal")
    /\ UNCHANGED <<state, waiters, valptr, lwWaitMode, sem, foreign, args, extraWaits,
                   wakeup, own>>

\* ... and then PGSemaphoreUnlock().
Signal(p) ==
    /\ pc[p] = "signal"
    /\ sem' = [sem EXCEPT ![Head(wakeup[p])] = @ + 1]
    /\ wakeup' = [wakeup EXCEPT ![p] = Tail(@)]
    /\ Goto(p, "wake")
    /\ UNCHANGED <<state, waiters, valptr, proc, foreign, args, extraWaits, own>>

\* A late signal of another user of the semaphore (the group operations of
\* procarray.c and clog.c).
ForeignSignal(p) ==
    /\ foreign[p] < load.foreign[p]
    /\ foreign' = [foreign EXCEPT ![p] = @ + 1]
    /\ sem' = [sem EXCEPT ![p] = @ + 1]
    /\ UNCHANGED <<state, waiters, valptr, proc, pc, args, extraWaits, wakeup, own>>

-----------------------------------------------------------------------------
\* What p does once it is in a call, and the release its caller owes.
Step(p) ==
    \/ AttemptLock(p) \/ LWLockWaitListLock(p) \/ QueueFlag(p) \/ LWLockQueueSelf(p)
    \/ DequeueUnlink(p) \/ LWLockDequeueSelf(p) \/ SetReleaseOk(p) \/ Sleep(p)
    \/ ConflictsWithVar(p) \/ ReadVar(p) \/ LWLockUpdateVar(p) \/ LWLockRelease(p)
    \/ LWLockReleaseClearVar(p) \/ LWLockWakeup(p) \/ Wake(p) \/ Signal(p)

Begin(p) ==
    \/ LWLockAcquire(p) \/ LWLockAcquireOrWait(p) \/ LWLockWaitForVar(p)
    \/ StartUpdateVar(p) \/ StartReleaseClearVar(p)
    \/ \E m \in LockModes : LWLockConditionalAcquire(p, m)

Next ==
    /\ UNCHANGED load
    /\ \E p \in Proc : Step(p) \/ Begin(p) \/ ForeignSignal(p)

Spec == Init /\ [][Next]_vars

\* The operating system runs every process, and critical sections end.
FairSpec == Spec /\ \A p \in Proc : WF_vars(UNCHANGED load /\ Step(p))

-----------------------------------------------------------------------------
(* Properties. *)

Owners(m) == {p \in Proc : own[p] = m}

\* lock->state counts the holders, and a process that LWLockAttemptLock() let
\* in exclusively is alone: no second exclusive and no shared holder.
MutualExclusion ==
    /\ exclusive = Cardinality(Owners("exclusive"))
    /\ shared = Cardinality(Owners("shared"))
    /\ exclusive <= 1
    /\ exclusive = 1 => shared = 0

\* LW_FLAG_LOCKED is a lock: set exactly when a process is between
\* LWLockWaitListLock() and its unlock, and then one process only.
WaitListLocked ==
    /\ locked <=> \E p \in Proc : pc[p] \in Inside
    /\ \A p, q \in Proc : pc[p] \in Inside /\ pc[q] \in Inside => p = q

\* The head of wakeup[p] is no longer linked when p is about to signal it.
Linked(p) == IF pc[p] = "signal" THEN Tail(wakeup[p]) ELSE wakeup[p]
Occurs(s, p) == Cardinality({i \in 1 .. Len(s) : s[i] = p})

\* The lists share one link per process, so a process is on one list at most
\* and once: on the wait list while lwWaiting says "waiting" (it takes itself
\* off a moment before it resets lwWaiting), on a waker's list while it says
\* "pending".  The flag LW_FLAG_HAS_WAITERS covers everyone on the wait list.
ListsDisjoint ==
    /\ waiters # <<>> => has_waiters
    /\ \A p \in Proc :
         /\ Occurs(waiters, p) =
              IF lwWaiting[p] = "waiting" /\ pc[p] # "dequeue_out" THEN 1 ELSE 0
         /\ Cardinality({q \in Proc : Occurs(Linked(q), p) > 0}) =
              IF lwWaiting[p] = "pending" THEN 1 ELSE 0
         /\ \A q \in Proc : Occurs(Linked(q), p) <= 1

\* Signals under way to p, and whether p is still to consume that of its wakeup.
Owed(p) == {q \in Proc : pc[q] = "signal" /\ Head(wakeup[q]) = p}
Queued(p) == pc[p] \in {"queued", "reattempt", "recheck", "reread", "reread_in", "sleep",
                       "dequeue", "dequeue_in", "dequeue_gone", "absorb", "dequeue_sleep"}

\* Apart from the one of its own wakeup, the signals p was sent are those of the
\* other users of its semaphore: waiting for an LWLock neither swallows theirs
\* nor leaves one behind.
SignalsConserved ==
    \A p \in Proc :
        sem[p] + extraWaits[p] + Cardinality(Owed(p)) =
            foreign[p] + IF Queued(p) /\ lwWaiting[p] = "not_waiting" THEN 1 ELSE 0

Free == exclusive = 0 /\ shared = 0
Asleep(p) == pc[p] = "sleep" /\ lwWaiting[p] = "waiting"

\* q is going to look after the queue: it wakes waiters, or it wants the lock
\* and will try to take it before it sleeps.
Attends(q) ==
    \/ pc[q] \in {"wakeup", "wakeup_in"}
    \/ call[q] \in {"acquire", "orwait"} /\
       pc[q] \in {"attempt", "queue", "queue_flag", "queue_in", "reattempt", "retry"}
    \/ call[q] = "acquire" /\ pc[q] = "sleep" /\ lwWaiting[q] # "waiting"

\* No wakeup is lost: a process sleeps on a free lock only while another one is
\* already bound to wake the queue or to take the lock.
NoLostWakeup == Free /\ (\E p \in Proc : Asleep(p)) => \E q \in Proc : Attends(q)

\* A process that sleeps in LWLockWaitForVar() on a value that is no longer the
\* variable's is about to be woken: the lock is being released.
NoStaleSleeper ==
    \A p \in Proc :
        Asleep(p) /\ call[p] = "waitvar" /\ valptr # val[p]
            => \E q \in Proc : pc[q] \in {"release", "wakeup", "wakeup_in"}

\* The protocol gives callers an ordinary reader-writer lock.
RW == INSTANCE RWLock WITH holder <- own
ImplementsRWLock == RW!Spec

\* Nobody sleeps for ever beside a free lock.
NoSleepBesideFreeLock == \A p \in Proc : []<>~(pc[p] = "sleep" /\ Free)
=============================================================================
