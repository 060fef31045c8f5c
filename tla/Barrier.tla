------------------------------- MODULE Barrier -------------------------------
(***************************************************************************)
(* Barriers: src/backend/storage/ipc/barrier.c, on a condition variable.   *)
(*                                                                         *)
(* A process is idle, where it may call any function the rules of the      *)
(* interface allow it to, or in BarrierArriveAndWait or BarrierDetachImpl, *)
(* at pc[p].  What a function does with the spinlock of the barrier is one *)
(* step; that step also enters the condition variable's function the code  *)
(* calls next, and the one after waits until it has returned.              *)
(***************************************************************************)
EXTENDS ConditionVariable

CONSTANTS
    ExceptLast,     \* the phases that end in BarrierArriveAndDetachExceptLast
    MaxPhase        \* bound on the phases

ASSUME BarrierAssumption ==
    /\ MaxPhase \in Nat
    /\ ExceptLast \subseteq Nat

VARIABLES
    participants, arrived, phase, elected, static_party,
    pc,
    start_phase,    \* locals of BarrierArriveAndWait
    iElected,
    attached,       \* history: the processes that are attached
    returned        \* history: how often waiting for a phase returned true, false

barrier == <<participants, arrived, phase, elected, static_party>>
locals == <<pc, start_phase, iElected>>
vars == <<barrier, locals, attached, returned, cvVars>>

condition_variable == CHOOSE c \in CV : TRUE

\* In BarrierArriveAndWait.
Waiting == {p \in Proc : pc[p] \in {"release", "test", "leave"}}

\* BarrierInit(0), or with a static party of all the processes.
Init ==
    /\ static_party \in BOOLEAN
    /\ attached = IF static_party THEN Proc ELSE {}
    /\ participants = Cardinality(attached)
    /\ arrived = 0 /\ phase = 0 /\ elected = 0
    /\ pc = [p \in Proc |-> "idle"]
    /\ start_phase = [p \in Proc |-> 0]
    /\ iElected = [p \in Proc |-> FALSE]
    /\ returned = [n \in 1 .. MaxPhase |-> [b \in BOOLEAN |-> 0]]
    /\ CVInit

Goto(p, l) == pc' = [pc EXCEPT ![p] = l]

\* May p call a function that arrives at the barrier, or leaves it?
Attached(p) == pc[p] = "idle" /\ p \in attached

BarrierAttach(p) ==
    /\ pc[p] = "idle" /\ p \notin attached /\ ~static_party
    /\ participants' = participants + 1
    /\ attached' = attached \cup {p}
    /\ UNCHANGED <<arrived, phase, elected, static_party, locals, returned, cvVars>>

ResetArrived == 0

WakeOne(p) == Call(p, "signal", condition_variable)
WakeAll(p) == Call(p, "broadcast", condition_variable)

\* BarrierArriveAndWait: the last to arrive starts the next phase and is elected.
BarrierArriveAndWait(p) ==
    /\ Attached(p) /\ phase \notin ExceptLast /\ phase < MaxPhase
    /\ start_phase' = [start_phase EXCEPT ![p] = phase]
    /\ IF arrived + 1 = participants
       THEN /\ arrived' = ResetArrived
            /\ phase' = phase + 1
            /\ elected' = phase + 1
            /\ iElected' = [iElected EXCEPT ![p] = TRUE]
            /\ Goto(p, "release")
            /\ WakeAll(p)
       ELSE /\ arrived' = arrived + 1
            /\ iElected' = [iElected EXCEPT ![p] = FALSE]
            /\ Goto(p, "test")
            /\ Call(p, "prepare", condition_variable)
            /\ UNCHANGED <<phase, elected>>
    /\ UNCHANGED <<participants, static_party, attached, returned>>

\* Nobody was elected when a detaching process started the phase.
ElectMeAlways(p) == TRUE
ElectMe(p) == elected # start_phase[p] + 1

\* The loop, each time the condition variable's function has returned.
TestPhase(p) ==
    /\ pc[p] = "test" /\ at[p] = "out"
    /\ IF phase = start_phase[p] + 1
       THEN /\ iElected' = [iElected EXCEPT ![p] = ElectMe(p)]
            /\ elected' = IF ElectMe(p) THEN phase ELSE elected
            /\ Goto(p, "leave")
            /\ Call(p, "cancel", condition_variable)
       ELSE /\ CallSleep(p, condition_variable)
            /\ UNCHANGED <<pc, iElected, elected>>
    /\ UNCHANGED <<participants, arrived, phase, static_party, start_phase, attached,
                   returned>>

ReturnFromWait(p) ==
    /\ pc[p] \in {"release", "leave"} /\ at[p] = "out"
    /\ Goto(p, "idle")
    /\ returned' = [returned EXCEPT ![start_phase[p] + 1][iElected[p]] = @ + 1]
    /\ start_phase' = [start_phase EXCEPT ![p] = 0]
    /\ iElected' = [iElected EXCEPT ![p] = FALSE]
    /\ UNCHANGED <<barrier, attached, cvVars>>

-----------------------------------------------------------------------------
\* Does p's leaving start the next phase, with n participants left?
EndsPhaseIfArrive(arrive, n) == arrive /\ arrived = n
EndsPhase(arrive, n) == (arrive \/ n > 0) /\ arrived = n

\* BarrierDetachImpl: BarrierDetach(), and BarrierArriveAndDetach() with arrive.
BarrierDetachImpl(p, arrive) ==
    /\ Attached(p) /\ ~static_party
    /\ arrive => phase \notin ExceptLast /\ phase < MaxPhase
    /\ participants' = participants - 1
    /\ attached' = attached \ {p}
    /\ IF EndsPhase(arrive, participants - 1)
       THEN /\ arrived' = ResetArrived
            /\ phase' = phase + 1
            /\ Goto(p, "detach")
            /\ WakeAll(p)
       ELSE UNCHANGED <<arrived, phase, pc, cvVars>>
    /\ UNCHANGED <<elected, static_party, start_phase, iElected, returned>>

ReturnFromDetach(p) ==
    /\ pc[p] = "detach" /\ at[p] = "out"
    /\ Goto(p, "idle")
    /\ UNCHANGED <<barrier, start_phase, iElected, attached, returned, cvVars>>

\* BarrierArriveAndDetachExceptLast, in a phase in which nobody waits.
BarrierArriveAndDetachExceptLast(p) ==
    /\ Attached(p) /\ phase \in ExceptLast /\ phase < MaxPhase
    /\ IF participants > 1
       THEN /\ participants' = participants - 1
            /\ attached' = attached \ {p}
            /\ UNCHANGED phase
       ELSE /\ phase' = phase + 1
            /\ UNCHANGED <<participants, attached>>
    /\ UNCHANGED <<arrived, elected, static_party, locals, returned, cvVars>>

-----------------------------------------------------------------------------
\* The steps a process that has called a function takes, until it returns.
Proceed(p) ==
    \/ TestPhase(p) \/ ReturnFromWait(p) \/ ReturnFromDetach(p)
    \/ CVStep(p) /\ UNCHANGED <<barrier, locals, attached, returned>>

Next ==
    \E p \in Proc :
        \/ BarrierAttach(p) \/ BarrierArriveAndWait(p)
        \/ \E arrive \in BOOLEAN : BarrierDetachImpl(p, arrive)
        \/ BarrierArriveAndDetachExceptLast(p)
        \/ Proceed(p)
        \/ OtherSetLatch(p) /\ UNCHANGED <<barrier, locals, attached, returned>>

Spec == Init /\ [][Next]_vars

\* A process in a function goes on, unless it sleeps.
FairSpec == Spec /\ \A p \in Proc : WF_vars(Proceed(p))

-----------------------------------------------------------------------------
\* The Assert of BarrierArriveAndWait: the phase a process that waits finds is the
\* one it arrived in or the next; it cannot advance further without this process.
PhaseAssert ==
    \A p \in Waiting : phase \in {start_phase[p], start_phase[p] + 1}

\* Waiting for a phase returns true to one process at most, and, once everybody
\* who waited for it has returned, to one exactly.
OneIsElected ==
    \A n \in 1 .. MaxPhase :
        /\ returned[n][TRUE] <= 1
        /\ returned[n][FALSE] > 0 /\ (\A p \in Waiting : start_phase[p] + 1 # n)
               => returned[n][TRUE] = 1

\* Whoever waits for a phase that has ended returns: the phases, of which there
\* are no more than MaxPhase, do not leave anybody behind for ever.
AllReleased == []<>(\A p \in Waiting : phase = start_phase[p])

\* The counters arrived and participants stand for the sets of those who wait in
\* this phase and of those who are attached: the barrier implements Phaser.
awaits == [p \in Proc |-> IF p \in Waiting THEN start_phase[p] ELSE -1]
Ph == INSTANCE Phaser WITH members <- attached
ImplementsPhaser == Ph!Spec

=============================================================================
