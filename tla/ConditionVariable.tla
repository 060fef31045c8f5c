------------------------- MODULE ConditionVariable -------------------------
(***************************************************************************)
(* Condition variables: src/backend/storage/lmgr/condition_variable.c, on  *)
(* the latches of the processes.                                           *)
(*                                                                         *)
(* The functions are procedures: Call(p, f, c) enters one, a step of it is *)
(* a CVStep(p), and at[p] is "out" again when it has returned.  What a     *)
(* function does with the spinlock of the variable is one step.            *)
(***************************************************************************)
EXTENDS Integers, FiniteSets, Sequences, Functions

CONSTANTS
    Proc,       \* the processes
    CV,         \* the condition variables
    NULL

ASSUME CVAssumption == IsFiniteSet(Proc) /\ CV # {} /\ NULL \notin Proc \cup CV

VARIABLES
    wakeup,             \* the wait list of each condition variable
    cv_sleep_target,    \* of each process
    latch,              \* of each process
    at,                 \* where it is in condition_variable.c
    cv,                 \* the argument of its call, or of the last one
    proc,               \* whom it took off the list and has to wake
    have_sentinel,
    toWake              \* history: whom its broadcast found and has not yet reached

cvVars == <<wakeup, cv_sleep_target, latch, at, cv, proc, have_sentinel, toWake>>

CVInit ==
    /\ wakeup = [c \in CV |-> <<>>]
    /\ cv_sleep_target = [p \in Proc |-> NULL]
    /\ latch = [p \in Proc |-> FALSE]
    /\ at = [p \in Proc |-> "out"]
    /\ cv = [p \in Proc |-> CHOOSE c \in CV : TRUE]
    /\ proc = [p \in Proc |-> NULL]
    /\ have_sentinel = [p \in Proc |-> FALSE]
    /\ toWake = [p \in Proc |-> {}]

At(p, l) == at' = [at EXCEPT ![p] = l]

\* p calls a function of condition_variable.c.
Call(p, f, c) ==
    /\ at[p] = "out"
    /\ At(p, f)
    /\ cv' = [cv EXCEPT ![p] = c]
    /\ UNCHANGED <<wakeup, cv_sleep_target, latch, proc, have_sentinel, toWake>>

\* proclist_contains, proclist_push_tail, proclist_delete
Listed(c, p) == p \in Range(wakeup[c])
PushTail(c, p) == wakeup' = [wakeup EXCEPT ![c] = Append(@, p)]
Without(s, p) ==
    LET i == CHOOSE i \in DOMAIN s : s[i] = p
    IN [j \in 1 .. Len(s) - 1 |-> IF j < i THEN s[j] ELSE s[j + 1]]
Delete(c, p) ==
    /\ wakeup' = [wakeup EXCEPT ![c] = IF Listed(c, p) THEN Without(@, p) ELSE @]
    /\ toWake' = [q \in Proc |-> IF cv[q] = c THEN toWake[q] \ {p} ELSE toWake[q]]

\* ConditionVariableCancelSleep, by its caller or within another function,
\* which goes on at l.
CancelSleep(p, l) ==
    /\ IF cv_sleep_target[p] = NULL
       THEN UNCHANGED <<wakeup, toWake>>
       ELSE Delete(cv_sleep_target[p], p)
    /\ cv_sleep_target' = [cv_sleep_target EXCEPT ![p] = NULL]
    /\ At(p, l)
    /\ UNCHANGED <<latch, cv, proc, have_sentinel>>

ConditionVariableCancelSleep(p) == at[p] = "cancel" /\ CancelSleep(p, "out")

\* An earlier prepared sleep is canceled, and then p queues.
ConditionVariablePrepareToSleep(p) ==
    \/ at[p] = "prepare" /\ CancelSleep(p, "push")
    \/ /\ at[p] = "push"
       /\ cv_sleep_target' = [cv_sleep_target EXCEPT ![p] = cv[p]]
       /\ PushTail(cv[p], p)
       /\ At(p, "out")
       /\ UNCHANGED <<latch, cv, proc, have_sentinel, toWake>>

\* ConditionVariableTimedSleep without a timeout, up to WaitLatch: to prepare is
\* enough, the first time, for the caller to test its condition again.
CallSleep(p, c) ==
    Call(p, CASE cv_sleep_target[p] = c -> "wait"
              [] cv_sleep_target[p] = NULL -> "push"
              [] OTHER -> "prepare", c)

\* WaitLatch and ResetLatch
WaitForLatch(p) ==
    /\ at[p] = "wait" /\ latch[p]
    /\ latch' = [latch EXCEPT ![p] = FALSE]
    /\ At(p, "check")
    /\ UNCHANGED <<wakeup, cv_sleep_target, cv, proc, have_sentinel, toWake>>

\* Somebody took p off the list: it returns, and is on the list again.
RequeueNot(p) == UNCHANGED wakeup
Requeue(p) == PushTail(cv[p], p)

StillListed(p) == Listed(cv[p], p)

\* Then CHECK_FOR_INTERRUPTS, which runs no handler, or one that sleeps on another
\* condition variable and so cancels this sleep.
CheckList(p) ==
    /\ at[p] = "check"
    /\ IF StillListed(p) THEN UNCHANGED wakeup ELSE Requeue(p)
    /\ \E l \in {IF StillListed(p) THEN "wait" ELSE "out", "cancel"} : At(p, l)
    /\ UNCHANGED <<cv_sleep_target, latch, cv, proc, have_sentinel, toWake>>

ConditionVariableSleep(p) == WaitForLatch(p) \/ CheckList(p)

-----------------------------------------------------------------------------
\* proclist_pop_head_node: the first of a list that is not empty.
PopHead(c) == Delete(c, Head(wakeup[c]))

\* ConditionVariableSignal
TakeFirst(p) ==
    /\ at[p] = "signal"
    /\ IF wakeup[cv[p]] = <<>>
       THEN At(p, "out") /\ UNCHANGED <<wakeup, proc, toWake>>
       ELSE /\ PopHead(cv[p])
            /\ proc' = [proc EXCEPT ![p] = Head(wakeup[cv[p]])]
            /\ At(p, "setlatch")
    /\ UNCHANGED <<cv_sleep_target, latch, cv, have_sentinel>>

\* ConditionVariableBroadcast, its first look at the list: if more than one
\* wait, p queues itself behind them.
StartBroadcast(p) == at[p] = "broadcast" /\ CancelSleep(p, "sentinel")

NoSentinel(rest) == FALSE
NeedsSentinel(rest) == rest # <<>>

PlaceSentinel(p) ==
    LET waiting == wakeup[cv[p]]
        rest == Tail(waiting)
    IN
    /\ at[p] = "sentinel"
    /\ IF waiting = <<>>
       THEN At(p, "out") /\ UNCHANGED <<wakeup, proc, have_sentinel, toWake>>
       ELSE /\ proc' = [proc EXCEPT ![p] = Head(waiting)]
            /\ have_sentinel' = [have_sentinel EXCEPT ![p] = NeedsSentinel(rest)]
            /\ wakeup' = [wakeup EXCEPT ![cv[p]] =
                             IF NeedsSentinel(rest) THEN Append(rest, p) ELSE rest]
            /\ toWake' = [q \in Proc |->
                             IF q = p THEN Range(rest)
                             ELSE IF cv[q] = cv[p] THEN toWake[q] \ {Head(waiting)}
                             ELSE toWake[q]]
            /\ At(p, "setlatch")
    /\ UNCHANGED <<cv_sleep_target, latch, cv>>

\* The loop: one entry, which p wakes unless it is its own, until that is gone.
BroadcastLoop(p) ==
    /\ at[p] = "loop"
    /\ IF wakeup[cv[p]] = <<>>
       THEN UNCHANGED <<wakeup, proc, toWake>>
       ELSE /\ PopHead(cv[p])
            /\ proc' = [proc EXCEPT ![p] = IF Head(wakeup[cv[p]]) = p THEN NULL
                                           ELSE Head(wakeup[cv[p]])]
    /\ have_sentinel' = [have_sentinel EXCEPT ![p] = p \in Range(wakeup'[cv[p]])]
    /\ At(p, "setlatch")
    /\ UNCHANGED <<cv_sleep_target, latch, cv>>

\* SetLatch, outside of the spinlock.
SetLatch(p) ==
    /\ at[p] = "setlatch"
    /\ latch' = [q \in Proc |-> latch[q] \/ q = proc[p]]
    /\ proc' = [proc EXCEPT ![p] = NULL]
    /\ At(p, IF have_sentinel[p] THEN "loop" ELSE "out")
    /\ UNCHANGED <<wakeup, cv_sleep_target, cv, have_sentinel, toWake>>

ConditionVariableSignal(p) == TakeFirst(p) \/ SetLatch(p)
ConditionVariableBroadcast(p) ==
    StartBroadcast(p) \/ PlaceSentinel(p) \/ BroadcastLoop(p) \/ SetLatch(p)

CVStep(p) ==
    \/ ConditionVariablePrepareToSleep(p) \/ ConditionVariableSleep(p)
    \/ ConditionVariableCancelSleep(p)
    \/ ConditionVariableSignal(p) \/ ConditionVariableBroadcast(p)

\* A latch is also set for reasons that have nothing to do with the list.  When
\* p waits is soon enough: nothing else here looks at the latch.
OtherSetLatch(p) ==
    /\ at[p] = "wait" /\ ~latch[p]
    /\ latch' = [latch EXCEPT ![p] = TRUE]
    /\ UNCHANGED <<wakeup, cv_sleep_target, at, cv, proc, have_sentinel, toWake>>

-----------------------------------------------------------------------------
\* Who sleeps with a latch not set is on the list, where the next wakeup finds
\* it, or somebody has taken it off and is about to set the latch: no wakeup
\* falls between the test of the list and the sleep.
NoWakeupMissed ==
    \A p \in Proc : at[p] = "wait" /\ ~latch[p] =>
        Listed(cv[p], p) \/ \E q \in Proc \ {p} : at[q] = "setlatch" /\ proc[q] = p

\* "This guarantees to wake all processes that were sleeping on the CV at time of
\* call": whoever its sentinel stood behind has left the list, woken by the
\* broadcast or by somebody else, when ConditionVariableBroadcast returns.
BroadcastReachesAll ==
    \A p \in Proc : at[p] = "out" => toWake[p] = {}

=============================================================================
