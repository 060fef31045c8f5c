---------------------------- MODULE BarrierProofs ----------------------------
(***************************************************************************)
(* Proofs about Barrier and ConditionVariable, for any finite set of       *)
(* processes and any number of phases.  No phase overtakes a process that  *)
(* waits, one process is elected in a phase, and the barrier with its      *)
(* condition variable implements Phaser: nothing there depends on whom the *)
(* condition variable wakes, as a waiter tests the phase whenever it       *)
(* wakes.  Of the condition variable itself: no wakeup is missed, and a    *)
(* broadcast reaches everyone it found.                                    *)
(***************************************************************************)
EXTENDS Barrier, FiniteSetTheorems, TLAPS

Location == {"idle", "release", "test", "leave", "detach"}

\* The types that the argument needs.
Scalars ==
    /\ participants \in Nat /\ arrived \in Nat /\ phase \in Nat
    /\ pc \in [Proc -> Location]
    /\ start_phase \in [Proc -> Nat]
    /\ attached \in SUBSET Proc

\* Those who wait for the end of the current phase.
Arrived == {p \in Waiting : start_phase[p] = phase}

\* What the two counters count.
Counted ==
    /\ participants = Cardinality(attached)
    /\ arrived = Cardinality(Arrived)

\* Where waiters can be: they are attached, in a phase that they may wait in,
\* and have seen it end once they leave the loop.
Placed ==
    /\ Waiting \subseteq attached
    /\ \A p \in Waiting : start_phase[p] \notin ExceptLast
    /\ \A p \in Proc : pc[p] \in {"release", "leave"} => phase = start_phase[p] + 1

\* The inductive invariant.  A phase ends when the counters agree; that this means
\* that everybody attached has arrived is what Counted and Placed are for.
IInv == Scalars /\ Counted /\ Placed /\ PhaseAssert

-----------------------------------------------------------------------------
\* The sets of processes that the barrier counts are finite.
LEMMA SubsetsFinite ==
    ASSUME NEW S \in SUBSET Proc
    PROVE  IsFiniteSet(S) /\ Cardinality(S) \in Nat
BY Zenon, CVAssumption, FS_Subset, FS_CardinalityType DEF CVAssumption

\* p, who is attached and idle, is the last the others wait for when the
\* counters say so.
LEMMA LastOne ==
    ASSUME IInv, NEW p \in Proc, Attached(p)
    PROVE  /\ Arrived \in SUBSET (attached \ {p})
           /\ participants - 1 \in Nat
           /\ participants - 1 = Cardinality(attached \ {p})
           /\ arrived = participants - 1 <=> Arrived = attached \ {p}
           /\ participants - 1 > 0 <=> attached \ {p} # {}
<1>1. Arrived \in SUBSET (attached \ {p})
  BY Zenon DEF IInv, Placed, Arrived, Waiting, Attached
<1>2. IsFiniteSet(attached) /\ p \in attached
  BY Zenon, SubsetsFinite DEF IInv, Scalars, Attached
<1>3. IsFiniteSet(attached \ {p}) /\ Cardinality(attached \ {p}) = Cardinality(attached) - 1
  BY <1>2, FS_RemoveElement
<1>4. Cardinality(attached \ {p}) \in Nat
  BY <1>3, FS_CardinalityType
<1>5. Cardinality(Arrived) = Cardinality(attached \ {p}) <=> Arrived = attached \ {p}
  BY <1>1, <1>3, FS_Subset
<1>6. Cardinality(attached \ {p}) = 0 <=> attached \ {p} = {}
  BY <1>3, FS_EmptySet
<1>7. participants - 1 = Cardinality(attached \ {p}) /\ arrived = Cardinality(Arrived)
  BY Zenon, <1>3 DEF IInv, Counted
<1>8. participants - 1 > 0 <=> attached \ {p} # {}
  <2>1. ASSUME NEW n \in Nat
        PROVE  n > 0 <=> n # 0
    BY SMTT(40), Z3T(40)
  <2> QED
    BY <1>4, <1>6, <1>7, <2>1
<1> QED
  BY <1>1, <1>4, <1>5, <1>7, <1>8

\* When a phase ends that all of S wait for, nobody has arrived in the next one.
LEMMA NobodyYet ==
    ASSUME IInv, phase' = phase + 1,
           \A q \in Waiting' : start_phase'[q] \in Nat /\ start_phase'[q] <= phase
    PROVE  Arrived' = {} /\ Cardinality(Arrived') = 0
<1>1. phase \in Nat
  BY Zenon DEF IInv, Scalars
<1>2. Arrived' = {}
  BY SMTT(40), Z3T(40), <1>1 DEF Arrived
<1> QED
  BY <1>2, FS_EmptySet

\* BarrierInit establishes the invariant of the counts.
LEMMA InvInit == Init => IInv
<1> SUFFICES ASSUME Init PROVE IInv
  OBVIOUS
<1>1. attached \in SUBSET Proc
  BY Zenon DEF Init
<1>2. Waiting = {} /\ Arrived = {}
  BY Zenon DEF Init, Waiting, Arrived
<1>3. Scalars
  BY Zenon, <1>1, SubsetsFinite DEF Init, Scalars, Location
<1>4. Counted
  BY Zenon, <1>2, FS_EmptySet DEF Init, Counted
<1> QED
  BY Zenon, <1>2, <1>3, <1>4 DEF Init, IInv, Placed, PhaseAssert

-----------------------------------------------------------------------------
\* Steps that leave the barrier's own state alone.
LEMMA KeepsSame ==
    ASSUME IInv, UNCHANGED <<barrier, pc, start_phase, attached>>
    PROVE  IInv'
<1>1. Waiting' = Waiting /\ Arrived' = Arrived
  BY Zenon DEF Waiting, Arrived, barrier
<1> QED
  BY Zenon, <1>1 DEF IInv, Scalars, Counted, Placed, PhaseAssert, barrier

\* BarrierAttach keeps the invariant of the counts.
LEMMA KeepsAttach ==
    ASSUME IInv, NEW p \in Proc, BarrierAttach(p)
    PROVE  IInv'
<1>1. Waiting' = Waiting /\ Arrived' = Arrived
  BY Zenon DEF BarrierAttach, Waiting, Arrived, locals
<1>2. Cardinality(attached') = Cardinality(attached) + 1
  BY Zenon, SubsetsFinite, FS_AddElement DEF BarrierAttach, IInv, Scalars
<1> QED
  BY SMTT(40), Z3T(40), <1>1, <1>2 DEF BarrierAttach, IInv, Scalars, Counted, Placed,
  PhaseAssert, locals

\* BarrierArriveAndWait keeps it, for the last to arrive and for the others.
LEMMA KeepsArrive ==
    ASSUME IInv, NEW p \in Proc, BarrierArriveAndWait(p)
    PROVE  IInv'
<1>1. /\ Attached(p) /\ p \in attached /\ pc[p] = "idle" /\ phase \notin ExceptLast
      /\ start_phase' = [start_phase EXCEPT ![p] = phase]
      /\ UNCHANGED <<participants, attached>>
  BY Zenon DEF BarrierArriveAndWait, Attached
<1>2. CASE arrived + 1 = participants
  <2>1. arrived' = 0 /\ phase' = phase + 1 /\ pc' = [pc EXCEPT ![p] = "release"]
    BY Zenon, <1>2 DEF BarrierArriveAndWait, ResetArrived, Goto
  <2>2. Scalars'
    BY SMTT(40), Z3T(40), <1>1, <2>1 DEF IInv, Scalars, Location
  <2>3. Waiting' = Waiting \cup {p}
    BY Zenon, <1>1, <2>1 DEF IInv, Scalars, Waiting
  <2>4. Arrived = attached \ {p}
    <3>1. arrived = participants - 1
      BY SMTT(40), Z3T(40), <1>2 DEF IInv, Scalars
    <3> QED
      BY <1>1, <3>1, LastOne
  <2>5. \A q \in Waiting' : q # p => q \in Arrived
    BY Zenon, <2>3, <2>4 DEF IInv, Placed
  <2>6. \A q \in Waiting' : start_phase'[q] = phase
    BY Zenon, <1>1, <2>3, <2>5 DEF IInv, Scalars, Arrived, Waiting
  <2>7. Arrived' = {} /\ Cardinality(Arrived') = 0
    BY SMTT(40), Z3T(40), <2>1, <2>6, NobodyYet DEF IInv, Scalars
  <2>8. Placed'
    <3>1. \A q \in Proc : pc'[q] \in {"release", "leave"} => q \in Waiting'
      BY Zenon DEF Waiting
    <3> QED
      BY Zenon, <1>1, <2>1, <2>3, <2>6, <3>1 DEF IInv, Placed
  <2>9. PhaseAssert'
    BY Zenon, <2>1, <2>6 DEF PhaseAssert
  <2> QED
    BY Zenon, <1>1, <2>1, <2>2, <2>7, <2>8, <2>9 DEF IInv, Counted
<1>3. CASE arrived + 1 # participants
  <2>1. arrived' = arrived + 1 /\ phase' = phase /\ pc' = [pc EXCEPT ![p] = "test"]
    BY Zenon, <1>3 DEF BarrierArriveAndWait, Goto
  <2>2. Scalars'
    BY SMTT(40), Z3T(40), <1>1, <2>1 DEF IInv, Scalars, Location
  <2>3. Waiting' = Waiting \cup {p} /\ p \notin Waiting
    BY Zenon, <1>1, <2>1 DEF IInv, Scalars, Waiting
  <2>4. \A q \in Waiting : start_phase'[q] = start_phase[q]
    BY Zenon, <1>1, <2>3 DEF IInv, Scalars, Waiting
  <2>5. start_phase'[p] = phase
    BY Zenon, <1>1 DEF IInv, Scalars
  <2>6. Arrived' = Arrived \cup {p} /\ p \notin Arrived
    BY Zenon, <2>1, <2>3, <2>4, <2>5 DEF Arrived
  <2>7. Arrived \in SUBSET Proc
    BY Zenon DEF Arrived, Waiting
  <2>8. Cardinality(Arrived') = Cardinality(Arrived) + 1
    BY <2>6, <2>7, SubsetsFinite, FS_AddElement
  <2>9. Placed'
    <3>1. \A q \in Proc : pc'[q] \in {"release", "leave"} =>
              q # p /\ pc[q] = pc'[q] /\ q \in Waiting
      BY Zenon, <2>1 DEF IInv, Scalars, Waiting
    <3> QED
      BY Zenon, <1>1, <2>1, <2>3, <2>4, <2>5, <3>1 DEF IInv, Placed
  <2>10. PhaseAssert'
    BY Zenon, <2>1, <2>3, <2>4, <2>5 DEF IInv, PhaseAssert
  <2> QED
    BY Zenon, <1>1, <2>1, <2>2, <2>8, <2>9, <2>10 DEF IInv, Counted
<1> QED
  BY <1>2, <1>3

\* A waiter that tests the phase keeps it.
LEMMA KeepsTest ==
    ASSUME IInv, NEW p \in Proc, TestPhase(p)
    PROVE  IInv'
<1>1. UNCHANGED <<participants, arrived, phase, start_phase, attached>> /\ pc[p] = "test"
  BY Zenon DEF TestPhase
<1>2. CASE phase = start_phase[p] + 1
  <2>1. pc' = [pc EXCEPT ![p] = "leave"]
    BY Zenon, <1>2 DEF TestPhase, Goto
  <2>2. Waiting' = Waiting
    BY Zenon, <1>1, <2>1 DEF IInv, Scalars, Waiting
  <2>3. Arrived' = Arrived
    BY Zenon, <1>1, <2>2 DEF Arrived
  <2> QED
    BY Zenon, <1>1, <1>2, <2>1, <2>2, <2>3 DEF IInv, Scalars, Counted, Placed, PhaseAssert,
    Location
<1>3. CASE phase # start_phase[p] + 1
  <2>1. pc' = pc
    BY Zenon, <1>3 DEF TestPhase
  <2>2. Waiting' = Waiting /\ Arrived' = Arrived
    BY Zenon, <1>1, <2>1 DEF Waiting, Arrived
  <2> QED
    BY Zenon, <1>1, <2>1, <2>2 DEF IInv, Scalars, Counted, Placed, PhaseAssert
<1> QED
  BY <1>2, <1>3

\* So does the return of BarrierArriveAndWait,
LEMMA KeepsReturn ==
    ASSUME IInv, NEW p \in Proc, ReturnFromWait(p)
    PROVE  IInv'
<1>1. /\ pc[p] \in {"release", "leave"} /\ pc' = [pc EXCEPT ![p] = "idle"]
      /\ start_phase' = [start_phase EXCEPT ![p] = 0]
      /\ UNCHANGED <<participants, arrived, phase, attached>>
  BY Zenon DEF ReturnFromWait, Goto, barrier
<1>2. Waiting' = Waiting \ {p}
  BY Zenon, <1>1 DEF IInv, Scalars, Waiting
<1>3. \A q \in Proc \ {p} : start_phase'[q] = start_phase[q] /\ pc'[q] = pc[q]
  BY Zenon, <1>1 DEF IInv, Scalars
<1>4. p \notin Arrived
  BY SMTT(40), Z3T(40), <1>1 DEF IInv, Scalars, Placed, Arrived
<1>5. Arrived' = Arrived
  BY Zenon, <1>1, <1>2, <1>3, <1>4 DEF Arrived, Waiting
<1>6. Scalars'
  BY Zenon, <1>1 DEF IInv, Scalars, Location
<1>7. Placed'
  BY Zenon, <1>1, <1>2, <1>3 DEF IInv, Scalars, Placed, Waiting
<1>8. PhaseAssert'
  BY Zenon, <1>1, <1>2, <1>3 DEF IInv, PhaseAssert, Waiting
<1> QED
  BY Zenon, <1>1, <1>5, <1>6, <1>7, <1>8 DEF IInv, Counted

\* BarrierDetachImpl, which may advance the phase,
LEMMA KeepsDetach ==
    ASSUME IInv, NEW p \in Proc, NEW arrive \in BOOLEAN, BarrierDetachImpl(p, arrive)
    PROVE  IInv'
<1>1. /\ Attached(p) /\ p \in attached /\ pc[p] = "idle"
      /\ participants' = participants - 1
      /\ attached' = attached \ {p}
      /\ start_phase' = start_phase
  BY Zenon DEF BarrierDetachImpl, Attached
<1>2. /\ Arrived \in SUBSET (attached \ {p})
      /\ participants' \in Nat /\ participants' = Cardinality(attached')
      /\ arrived = participants - 1 <=> Arrived = attached \ {p}
  BY <1>1, LastOne
<1>3. CASE EndsPhase(arrive, participants - 1)
  <2>1. arrived' = 0 /\ phase' = phase + 1 /\ pc' = [pc EXCEPT ![p] = "detach"]
    BY Zenon, <1>3 DEF BarrierDetachImpl, ResetArrived, Goto
  <2>2. Scalars'
    BY SMTT(40), Z3T(40), <1>1, <1>2, <2>1 DEF IInv, Scalars, Location
  <2>3. Waiting' = Waiting /\ p \notin Waiting
    BY Zenon, <1>1, <2>1 DEF IInv, Scalars, Waiting
  <2>4. Arrived = attached \ {p}
    BY Zenon, <1>2, <1>3 DEF EndsPhase
  <2>5. \A q \in Waiting' : start_phase'[q] = phase
    BY Zenon, <1>1, <2>3, <2>4 DEF IInv, Placed, Arrived
  <2>6. Arrived' = {} /\ Cardinality(Arrived') = 0
    BY SMTT(40), Z3T(40), <2>1, <2>5, NobodyYet DEF IInv, Scalars
  <2>7. Placed'
    <3>1. \A q \in Proc : pc'[q] \in {"release", "leave"} => q \in Waiting'
      BY Zenon DEF Waiting
    <3> QED
      BY Zenon, <1>1, <2>1, <2>3, <2>5, <3>1 DEF IInv, Placed
  <2>8. PhaseAssert'
    BY Zenon, <2>1, <2>5 DEF PhaseAssert
  <2> QED
    BY Zenon, <1>2, <2>1, <2>2, <2>6, <2>7, <2>8 DEF IInv, Counted
<1>4. CASE ~EndsPhase(arrive, participants - 1)
  <2>1. UNCHANGED <<arrived, phase, pc>>
    BY Zenon, <1>4 DEF BarrierDetachImpl
  <2>2. Waiting' = Waiting /\ Arrived' = Arrived /\ p \notin Waiting
    BY Zenon, <1>1, <2>1 DEF Waiting, Arrived
  <2> QED
    BY Zenon, <1>1, <1>2, <2>1, <2>2 DEF IInv, Scalars, Counted, Placed, PhaseAssert
<1> QED
  BY <1>3, <1>4

\* its return,
LEMMA KeepsReturnFromDetach ==
    ASSUME IInv, NEW p \in Proc, ReturnFromDetach(p)
    PROVE  IInv'
<1>1. /\ pc[p] = "detach" /\ pc' = [pc EXCEPT ![p] = "idle"]
      /\ UNCHANGED <<participants, arrived, phase, attached, start_phase>>
  BY Zenon DEF ReturnFromDetach, Goto, barrier
<1>2. Waiting' = Waiting
  BY Zenon, <1>1 DEF IInv, Scalars, Waiting
<1>3. Arrived' = Arrived
  BY Zenon, <1>1, <1>2 DEF Arrived
<1> QED
  BY Zenon, <1>1, <1>2, <1>3 DEF IInv, Scalars, Counted, Placed, PhaseAssert, Location

\* and BarrierArriveAndDetachExceptLast.
LEMMA KeepsExceptLast ==
    ASSUME IInv, NEW p \in Proc, BarrierArriveAndDetachExceptLast(p)
    PROVE  IInv'
<1>1. /\ Attached(p) /\ p \in attached /\ pc[p] = "idle" /\ phase \in ExceptLast
      /\ UNCHANGED <<arrived, pc, start_phase>>
  BY Zenon DEF BarrierArriveAndDetachExceptLast, Attached, locals
<1>2. Waiting' = Waiting /\ p \notin Waiting
  BY Zenon, <1>1 DEF Waiting
<1>3. CASE participants > 1
  <2>1. participants' = participants - 1 /\ attached' = attached \ {p} /\ phase' = phase
    BY Zenon, <1>3 DEF BarrierArriveAndDetachExceptLast
  <2>2. Arrived' = Arrived
    BY Zenon, <1>1, <1>2, <2>1 DEF Arrived
  <2>3. participants' \in Nat /\ participants' = Cardinality(attached')
    BY <1>1, <2>1, LastOne
  <2> QED
    BY Zenon, <1>1, <1>2, <2>1, <2>2, <2>3 DEF IInv, Scalars, Counted, Placed, PhaseAssert
<1>4. CASE ~(participants > 1)
  <2>1. participants' = participants /\ attached' = attached /\ phase' = phase + 1
    BY Zenon, <1>4 DEF BarrierArriveAndDetachExceptLast
  <2>2. ~(participants - 1 > 0)
    BY SMTT(40), Z3T(40), <1>4 DEF IInv, Scalars
  <2>3. attached \ {p} = {}
    BY <1>1, <2>2, LastOne
  <2>4. Waiting = {} /\ Arrived = {}
    BY Zenon, <1>2, <2>3 DEF IInv, Placed, Arrived
  <2>5. Arrived' = {}
    BY Zenon, <1>2, <2>4 DEF Arrived
  <2>6. \A q \in Proc : pc'[q] \notin {"release", "leave"}
    BY Zenon, <1>2, <2>4 DEF Waiting
  <2> QED
    BY SMTT(40), Z3T(40), <1>1, <1>2, <2>1, <2>4, <2>5, <2>6 DEF IInv, Scalars, Counted, Placed,
    PhaseAssert
<1> QED
  BY <1>3, <1>4

\* Every step keeps the invariant of the counts.
LEMMA InvStep == IInv /\ [Next]_vars => IInv'
<1> SUFFICES ASSUME IInv, [Next]_vars PROVE IInv'
  OBVIOUS
<1>1. CASE UNCHANGED vars
  BY Zenon, <1>1, KeepsSame DEF vars, locals
<1>2. ASSUME NEW p \in Proc, CVStep(p) \/ OtherSetLatch(p),
             UNCHANGED <<barrier, locals, attached, returned>>
      PROVE  IInv'
  BY Zenon, <1>2, KeepsSame DEF locals
<1> QED
  BY Zenon, <1>1, <1>2, KeepsAttach, KeepsArrive, KeepsTest, KeepsReturn, KeepsDetach,
     KeepsReturnFromDetach, KeepsExceptLast DEF Next, Proceed

\* The Assert of BarrierArriveAndWait cannot fail: the phase a waiter finds is the
\* one it arrived in or the next one.
THEOREM PhaseNeverOvertakes == Spec => []PhaseAssert
<1>1. IInv => PhaseAssert
  BY Zenon DEF IInv
<1> QED
  BY <1>1, InvInit, InvStep, PTL DEF Spec

-----------------------------------------------------------------------------
\* The refinement mapping awaits, of Waiting and start_phase.
LEMMA AwaitsOf ==
    ASSUME IInv
    PROVE  /\ \A q \in Proc : awaits[q] = -1 <=> q \notin Waiting
           /\ \A q \in Proc : awaits[q] = phase <=> q \in Arrived
BY SMTT(40), Z3T(40) DEF IInv, Scalars, awaits, Arrived, Waiting

\* Who is awaited depends on three variables only.
LEMMA AwaitsSame ==
    ASSUME UNCHANGED <<pc, start_phase>>
    PROVE  awaits' = awaits
BY Zenon DEF awaits, Waiting

\* BarrierAttach is a step of Phaser,
LEMMA PhaserAttach ==
    ASSUME IInv, NEW p \in Proc, BarrierAttach(p)
    PROVE  Ph!Join(p)
<1>1. p \notin Waiting
  BY Zenon DEF BarrierAttach, Waiting
<1>2. awaits' = awaits
  BY Zenon, AwaitsSame DEF BarrierAttach, locals
<1> QED
  BY Zenon, <1>1, <1>2, AwaitsOf DEF BarrierAttach, Ph!Join, Ph!NoPhase

\* as is BarrierArriveAndWait,
LEMMA PhaserArrive ==
    ASSUME IInv, NEW p \in Proc, BarrierArriveAndWait(p)
    PROVE  Ph!Arrive(p)
<1>1. /\ Attached(p) /\ p \in attached /\ pc[p] = "idle" /\ attached' = attached
      /\ start_phase' = [start_phase EXCEPT ![p] = phase]
      /\ \E l \in {"release", "test"} : pc' = [pc EXCEPT ![p] = l]
  BY Zenon DEF BarrierArriveAndWait, Attached, Goto
<1>2. Ph!Free(p)
  BY Zenon, <1>1, AwaitsOf DEF Ph!Free, Ph!NoPhase, Waiting
<1>3. awaits' = [awaits EXCEPT ![p] = phase]
  BY Zenon, <1>1 DEF IInv, Scalars, awaits, Waiting
<1>4. Ph!AllAwait(attached \ {p}) <=> arrived = participants - 1
  <2>1. attached \in SUBSET Proc
    BY Zenon DEF IInv, Scalars
  <2>2. Ph!AllAwait(attached \ {p}) <=> attached \ {p} \subseteq Arrived
    BY Zenon, <2>1, AwaitsOf DEF Ph!AllAwait
  <2> QED
    BY <1>1, <2>2, LastOne
<1>5. phase' = IF arrived = participants - 1 THEN phase + 1 ELSE phase
  BY SMTT(40), Z3T(40) DEF BarrierArriveAndWait, IInv, Scalars
<1> QED
  BY Zenon, <1>1, <1>2, <1>3, <1>4, <1>5 DEF Ph!Arrive

\* a detach,
LEMMA PhaserDetach ==
    ASSUME IInv, NEW p \in Proc, NEW arrive \in BOOLEAN, BarrierDetachImpl(p, arrive)
    PROVE  Ph!Leave(p, arrive)
<1>1. /\ Attached(p) /\ p \in attached /\ pc[p] = "idle"
      /\ attached' = attached \ {p} /\ start_phase' = start_phase
  BY Zenon DEF BarrierDetachImpl, Attached
<1>2. Ph!Free(p)
  BY Zenon, <1>1, AwaitsOf DEF Ph!Free, Ph!NoPhase, Waiting
<1>3. awaits' = awaits
  <2>1. \A q \in Proc : pc'[q] = pc[q] \/ (q = p /\ pc'[q] = "detach")
    BY Zenon DEF BarrierDetachImpl, Goto, IInv, Scalars
  <2>2. Waiting' = Waiting
    BY Zenon, <1>1, <2>1 DEF Waiting
  <2> QED
    BY Zenon, <1>1, <2>2 DEF awaits
<1>4. EndsPhase(arrive, participants - 1) <=>
        (arrive \/ attached \ {p} # {}) /\ Ph!AllAwait(attached \ {p})
  <2>1. attached \in SUBSET Proc
    BY Zenon DEF IInv, Scalars
  <2>2. Ph!AllAwait(attached \ {p}) <=> attached \ {p} \subseteq Arrived
    BY Zenon, <2>1, AwaitsOf DEF Ph!AllAwait
  <2>3. Ph!AllAwait(attached \ {p}) <=> arrived = participants - 1
    BY <1>1, <2>2, LastOne
  <2>4. participants - 1 > 0 <=> attached \ {p} # {}
    BY <1>1, LastOne
  <2> QED
    BY Zenon, <2>3, <2>4 DEF EndsPhase
<1>5. phase' = IF EndsPhase(arrive, participants - 1) THEN phase + 1 ELSE phase
  BY Zenon DEF BarrierDetachImpl
<1> QED
  BY Zenon, <1>1, <1>2, <1>3, <1>4, <1>5 DEF Ph!Leave

\* BarrierArriveAndDetachExceptLast,
LEMMA PhaserExceptLast ==
    ASSUME IInv, NEW p \in Proc, BarrierArriveAndDetachExceptLast(p)
    PROVE  Ph!LeaveUnlessLast(p)
<1>1. Attached(p) /\ p \in attached /\ pc[p] = "idle" /\ phase \in ExceptLast
  BY Zenon DEF BarrierArriveAndDetachExceptLast, Attached
<1>2. Ph!Free(p)
  BY Zenon, <1>1, AwaitsOf DEF Ph!Free, Ph!NoPhase, Waiting
<1>3. awaits' = awaits
  BY Zenon, AwaitsSame DEF BarrierArriveAndDetachExceptLast, locals
<1>4. \A q \in attached : awaits[q] # phase
  <2>1. Arrived = {}
    BY Zenon, <1>1 DEF Arrived, IInv, Placed
  <2> QED
    BY Zenon, <2>1, AwaitsOf DEF IInv, Scalars
<1>5. participants > 1 <=> attached # {p}
  <2>1. participants - 1 > 0 <=> attached \ {p} # {}
    BY <1>1, LastOne
  <2>2. attached = {p} <=> attached \ {p} = {}
    BY <1>1
  <2> QED
    BY SMTT(40), Z3T(40), <2>1, <2>2 DEF IInv, Scalars
<1> QED
  BY Zenon, <1>2, <1>3, <1>4, <1>5 DEF BarrierArriveAndDetachExceptLast, Ph!LeaveUnlessLast

\* and the return from a wait.
LEMMA PhaserReturn ==
    ASSUME IInv, NEW p \in Proc, ReturnFromWait(p)
    PROVE  Ph!Return(p)
<1>1. /\ pc[p] \in {"release", "leave"} /\ pc' = [pc EXCEPT ![p] = "idle"]
      /\ start_phase' = [start_phase EXCEPT ![p] = 0]
      /\ UNCHANGED <<phase, attached>>
  BY Zenon DEF ReturnFromWait, Goto, barrier
<1>2. awaits[p] = start_phase[p] /\ phase = start_phase[p] + 1 /\ start_phase[p] \in Nat
  BY Zenon, <1>1 DEF awaits, Waiting, IInv, Scalars, Placed
<1>3. awaits' = [awaits EXCEPT ![p] = -1]
  BY Zenon, <1>1 DEF IInv, Scalars, awaits, Waiting
<1> QED
  BY SMTT(40), Z3T(40), <1>1, <1>2, <1>3 DEF Ph!Return, Ph!NoPhase

\* TestPhase, ReturnFromDetach and the steps of the condition variable stutter.
LEMMA PhaserStutter ==
    ASSUME IInv, UNCHANGED <<phase, attached, start_phase>>,
           \A q \in Proc : pc'[q] \in {"release", "test", "leave"}
                            <=> pc[q] \in {"release", "test", "leave"}
    PROVE  UNCHANGED <<phase, attached, awaits>>
<1>1. Waiting' = Waiting
  BY Zenon DEF Waiting
<1> QED
  BY Zenon, <1>1 DEF awaits

\* Every step of the barrier is a step of Phaser or leaves it alone.
LEMMA PhaserStep ==
    IInv /\ [Next]_vars => [Ph!Next]_<<phase, attached, awaits>>
<1> SUFFICES ASSUME IInv, [Next]_vars
             PROVE  Ph!Next \/ UNCHANGED <<phase, attached, awaits>>
  OBVIOUS
<1>1. ASSUME UNCHANGED <<barrier, locals, attached>>
      PROVE  UNCHANGED <<phase, attached, awaits>>
  BY Zenon, <1>1, PhaserStutter DEF barrier, locals
<1>2. ASSUME NEW p \in Proc, TestPhase(p)
      PROVE  UNCHANGED <<phase, attached, awaits>>
  <2>1. /\ UNCHANGED <<phase, attached, start_phase>> /\ pc[p] = "test"
        /\ pc' = pc \/ pc' = [pc EXCEPT ![p] = "leave"]
    BY Zenon, <1>2 DEF TestPhase, Goto
  <2> QED
    BY Zenon, <2>1, PhaserStutter DEF IInv, Scalars
<1>3. ASSUME NEW p \in Proc, ReturnFromDetach(p)
      PROVE  UNCHANGED <<phase, attached, awaits>>
  <2>1. /\ UNCHANGED <<phase, attached, start_phase>> /\ pc[p] = "detach"
        /\ pc' = [pc EXCEPT ![p] = "idle"]
    BY Zenon, <1>3 DEF ReturnFromDetach, Goto, barrier
  <2> QED
    BY Zenon, <2>1, PhaserStutter DEF IInv, Scalars
<1>4. CASE UNCHANGED vars
  BY Zenon, <1>1, <1>4 DEF vars
<1>5. CASE Next
  <2>1. PICK p \in Proc :
          \/ BarrierAttach(p) \/ BarrierArriveAndWait(p)
          \/ \E arrive \in BOOLEAN : BarrierDetachImpl(p, arrive)
          \/ BarrierArriveAndDetachExceptLast(p)
          \/ Proceed(p)
          \/ OtherSetLatch(p) /\ UNCHANGED <<barrier, locals, attached, returned>>
    BY Zenon, <1>5 DEF Next
  <2> QED
    BY Zenon, <2>1, <1>1, <1>2, <1>3, PhaserAttach, PhaserArrive, PhaserDetach, PhaserExceptLast,
       PhaserReturn DEF Proceed, Ph!Next
<1> QED
  BY <1>4, <1>5

\* Seen through the phase, who is attached and who waits for which phase, the
\* barrier does what Phaser says: a phase ends exactly when all who are attached
\* have arrived, and nobody returns before.
THEOREM BarrierImplementsPhaser == Spec => ImplementsPhaser
<1>1. Init => Ph!Init
  BY Zenon DEF Init, Ph!Init, Ph!NoPhase, awaits, Waiting
<1> QED
  BY <1>1, InvInit, InvStep, PhaserStep, PTL DEF Spec, ImplementsPhaser, Ph!Spec

-----------------------------------------------------------------------------
(* Election. *)

\* p waits for phase n.
Awaits(p, n) == p \in Waiting /\ start_phase[p] + 1 = n

\* Nobody who waited for phase n has found it.
Unelected(n) ==
    /\ \A chosen \in BOOLEAN : returned[n][chosen] = 0
    /\ \A p \in Proc : Awaits(p, n) => pc[p] = "test"

\* One of those who waited for phase n is elected: it has returned, or is about to.
Elected(n) ==
    \/ /\ returned[n][TRUE] = 1
       /\ \A p \in Proc : Awaits(p, n) => ~ iElected[p]
    \/ /\ returned[n][TRUE] = 0
       /\ \E p \in Proc : /\ Awaits(p, n) /\ iElected[p]
                          /\ \A q \in Proc \ {p} : Awaits(q, n) => ~ iElected[q]

\* The variables of the election.
Ballot ==
    /\ elected \in Nat /\ elected <= phase
    /\ iElected \in [Proc -> BOOLEAN]
    /\ returned \in [1 .. MaxPhase -> [BOOLEAN -> Nat]]
    /\ \A p \in Waiting : start_phase[p] + 1 \in 1 .. MaxPhase
    /\ \A p \in Proc : pc[p] = "test" => ~ iElected[p]

\* What is known of the election of phase n: elected tells whether the current
\* phase has its elected process, and no later phase has one.
Settled(n) ==
    /\ n < phase => Unelected(n) \/ Elected(n)
    /\ n = phase /\ elected = n => Elected(n)
    /\ n > phase \/ (n = phase /\ elected # n) => Unelected(n)

\* What is added to the inductive invariant.
ElectInv == Ballot /\ \A n \in 1 .. MaxPhase : Settled(n)

\* What those who wait for phase n know does not change.
SameFor(n) ==
    /\ returned'[n] = returned[n]
    /\ \A q \in Proc : (q \in Waiting' /\ start_phase'[q] + 1 = n) \/ Awaits(q, n) =>
          /\ q \in Waiting' /\ start_phase'[q] + 1 = n /\ Awaits(q, n)
          /\ pc'[q] = pc[q] /\ iElected'[q] = iElected[q]

\* Then phase n has its elected process after the step if it had one before.
LEMMA ElectionSame ==
    ASSUME NEW n, SameFor(n)
    PROVE  (Unelected(n) => Unelected(n)') /\ (Elected(n) => Elected(n)')
<1>1. ASSUME Unelected(n)
      PROVE  Unelected(n)'
  BY Zenon, <1>1 DEF SameFor, Unelected, Awaits
<1>2. ASSUME Elected(n)
      PROVE  Elected(n)'
  <2>1. CASE returned[n][TRUE] = 1 /\ \A p \in Proc : Awaits(p, n) => ~ iElected[p]
    BY Zenon, <2>1 DEF SameFor, Elected, Awaits
  <2>2. ASSUME NEW p \in Proc, returned[n][TRUE] = 0, Awaits(p, n), iElected[p],
               \A q \in Proc \ {p} : Awaits(q, n) => ~ iElected[q]
        PROVE  Elected(n)'
    <3>1. Awaits(p, n)' /\ iElected'[p] /\ returned'[n][TRUE] = 0
      BY Zenon, <2>2 DEF SameFor, Awaits
    <3>2. \A q \in Proc \ {p} : Awaits(q, n)' => ~ iElected'[q]
      BY Zenon, <2>2 DEF SameFor, Awaits
    <3> QED
      BY Zenon, <3>1, <3>2 DEF Elected
  <2> QED
    BY Zenon, <1>2, <2>1, <2>2 DEF Elected
<1> QED
  BY <1>1, <1>2

\* The election of phase n in a step that does not touch it.
LEMMA SettledSame ==
    ASSUME NEW n \in 1 .. MaxPhase, IInv, Ballot, Settled(n), SameFor(n),
           phase' \in {phase, phase + 1}, n = phase' => (elected' = n <=> elected = n)
    PROVE  Settled(n)'
<1>1. n \in Nat /\ phase \in Nat /\ elected \in Nat /\ elected <= phase
  BY SMTT(40), Z3T(40), BarrierAssumption DEF BarrierAssumption, IInv, Scalars, Ballot
<1>2. (Unelected(n) => Unelected(n)') /\ (Elected(n) => Elected(n)')
  BY ElectionSame
<1>3. CASE n < phase
  <2>1. n < phase' /\ n # phase' /\ ~ (n > phase')
    BY SMTT(40), Z3T(40), <1>1, <1>3
  <2> QED
    BY Zenon, <1>2, <1>3, <2>1 DEF Settled
<1>4. CASE n = phase
  <2>1. ~ (n > phase') /\ (n = phase' => phase' = phase)
    BY SMTT(40), Z3T(40), <1>1, <1>4
  <2> QED
    BY Zenon, <1>2, <1>4, <2>1 DEF Settled
<1>5. CASE n > phase
  <2>1. ~ (n < phase') /\ elected # n
    BY SMTT(40), Z3T(40), <1>1, <1>5
  <2> QED
    BY Zenon, <1>2, <1>5, <2>1 DEF Settled
<1> QED
  BY SMTT(40), Z3T(40), <1>1, <1>3, <1>4, <1>5

\* Steps of the others than those who wait.
LEMMA ElectionWaits ==
    ASSUME IInv, ElectInv, UNCHANGED <<elected, iElected, returned, start_phase>>,
           phase' \in {phase, phase + 1},
           \A q \in Proc : pc'[q] = pc[q] \/
               (pc[q] \notin {"release", "test", "leave"} /\
                pc'[q] \notin {"release", "test", "leave"})
    PROVE  ElectInv'
<1>1. Waiting' = Waiting /\ \A q \in Waiting : pc'[q] = pc[q]
  BY Zenon DEF Waiting
<1>2. Ballot'
  <2>1. elected' <= phase'
    BY SMTT(40), Z3T(40) DEF IInv, Scalars, ElectInv, Ballot
  <2>2. \A q \in Proc : pc'[q] = "test" => pc[q] = "test"
    BY Zenon
  <2> QED
    BY Zenon, <1>1, <2>1, <2>2 DEF ElectInv, Ballot
<1>3. ASSUME NEW n \in 1 .. MaxPhase
      PROVE  Settled(n)'
  <2>1. SameFor(n)
    BY Zenon, <1>1 DEF SameFor, Awaits
  <2> QED
    BY Zenon, <1>3, <2>1, SettledSame DEF ElectInv
<1> QED
  BY Zenon, <1>2, <1>3 DEF ElectInv

\* An arrival keeps the invariant of the election.
LEMMA ElectionArrive ==
    ASSUME IInv, ElectInv, NEW p \in Proc, BarrierArriveAndWait(p)
    PROVE  ElectInv'
<1>1. /\ pc[p] = "idle" /\ phase < MaxPhase
      /\ start_phase' = [start_phase EXCEPT ![p] = phase] /\ UNCHANGED returned
      /\ \/ /\ pc' = [pc EXCEPT ![p] = "release"] /\ iElected' = [iElected EXCEPT ![p] = TRUE]
            /\ phase' = phase + 1 /\ elected' = phase + 1
         \/ /\ pc' = [pc EXCEPT ![p] = "test"] /\ iElected' = [iElected EXCEPT ![p] = FALSE]
            /\ UNCHANGED <<phase, elected>>
  BY Zenon DEF BarrierArriveAndWait, Attached, Goto
<1>2. /\ phase \in Nat /\ elected \in Nat /\ elected <= phase /\ phase + 1 \in 1 .. MaxPhase
      /\ phase + 1 > phase /\ phase + 1 # phase /\ elected # phase + 1
  BY SMTT(40), Z3T(40), <1>1, BarrierAssumption
     DEF BarrierAssumption, IInv, Scalars, ElectInv, Ballot
<1>3. /\ p \notin Waiting /\ Waiting' = Waiting \cup {p} /\ start_phase'[p] = phase
      /\ \A q \in Proc \ {p} : UNCHANGED <<pc[q], start_phase[q], iElected[q]>>
  <2>1. p \notin Waiting /\ start_phase'[p] = phase
    BY Zenon, <1>1 DEF Waiting, IInv, Scalars
  <2>2. \A q \in Proc \ {p} : UNCHANGED <<pc[q], start_phase[q], iElected[q]>>
    BY Zenon, <1>1 DEF IInv, Scalars, ElectInv, Ballot
  <2>3. pc'[p] \in {"release", "test"}
    BY Zenon, <1>1 DEF IInv, Scalars
  <2>4. Waiting' = Waiting \cup {p}
    BY Zenon, <2>2, <2>3 DEF Waiting
  <2> QED
    BY <2>1, <2>2, <2>4
<1>4. Ballot'
  <2>1. elected' \in Nat /\ elected' <= phase'
    BY SMTT(40), Z3T(40), <1>1, <1>2
  <2>2. iElected' \in [Proc -> BOOLEAN]
    BY Zenon, <1>1 DEF ElectInv, Ballot
  <2>3. \A q \in Waiting' : start_phase'[q] + 1 \in 1 .. MaxPhase
    BY Zenon, <1>2, <1>3 DEF ElectInv, Ballot, Waiting
  <2>4. pc'[p] = "test" => ~ iElected'[p]
    BY Zenon, <1>1 DEF IInv, Scalars, ElectInv, Ballot
  <2>5. \A q \in Proc : pc'[q] = "test" => ~ iElected'[q]
    BY Zenon, <1>3, <2>4 DEF ElectInv, Ballot
  <2> QED
    BY Zenon, <1>1, <2>1, <2>2, <2>3, <2>5 DEF ElectInv, Ballot
<1>5. ASSUME NEW n \in 1 .. MaxPhase, n # phase + 1
      PROVE  Settled(n)'
  <2>1. SameFor(n)
    BY Zenon, <1>1, <1>3, <1>5 DEF SameFor, Awaits, Waiting
  <2>2. phase' \in {phase, phase + 1} /\ (n = phase' => elected' = elected)
    BY Zenon, <1>1, <1>5
  <2> QED
    BY Zenon, <1>5, <2>1, <2>2, SettledSame DEF ElectInv
<1>6. ASSUME NEW n \in 1 .. MaxPhase, n = phase + 1
      PROVE  Settled(n)'
  <2>1. Unelected(n)
    BY Zenon, <1>2, <1>6 DEF ElectInv, Settled
  <2>2. \A q \in Proc \ {p} : Awaits(q, n)' => pc'[q] = "test" /\ ~ iElected'[q]
    <3>1. \A q \in Proc \ {p} : Awaits(q, n)' => Awaits(q, n)
      BY Zenon, <1>3 DEF Awaits
    <3>2. \A q \in Proc \ {p} : Awaits(q, n)' => pc[q] = "test" /\ ~ iElected[q]
      BY Zenon, <2>1, <3>1 DEF Unelected, ElectInv, Ballot
    <3> QED
      BY Zenon, <1>3, <3>2
  <2>3. \A chosen \in BOOLEAN : returned'[n][chosen] = 0
    BY Zenon, <1>1, <2>1 DEF Unelected
  <2>4. CASE pc' = [pc EXCEPT ![p] = "test"] /\ UNCHANGED <<phase, elected>>
    <3>1. pc'[p] = "test"
      BY Zenon, <2>4 DEF IInv, Scalars
    <3>2. Unelected(n)'
      BY Zenon, <2>2, <2>3, <3>1 DEF Unelected
    <3>3. ~ (n < phase') /\ n # phase'
      BY SMTT(40), Z3T(40), <1>2, <1>6, <2>4
    <3> QED
      BY Zenon, <3>2, <3>3 DEF Settled
  <2>5. CASE /\ iElected' = [iElected EXCEPT ![p] = TRUE]
             /\ phase' = phase + 1 /\ elected' = phase + 1
    <3>1. iElected'[p] /\ Awaits(p, n)'
      BY Zenon, <1>3, <1>6, <2>5 DEF ElectInv, Ballot, Awaits
    <3>2. Elected(n)'
      BY Zenon, <2>2, <2>3, <3>1 DEF Elected
    <3>3. ~ (n < phase') /\ ~ (n > phase') /\ n = elected'
      BY SMTT(40), Z3T(40), <1>2, <1>6, <2>5
    <3> QED
      BY Zenon, <3>2, <3>3 DEF Settled
  <2> QED
    BY <1>1, <2>4, <2>5
<1> QED
  BY Zenon, <1>4, <1>5, <1>6 DEF ElectInv

\* A waiter that finds the phase advanced keeps it; the first one is elected.
LEMMA ElectionTest ==
    ASSUME IInv, ElectInv, NEW p \in Proc, TestPhase(p)
    PROVE  ElectInv'
<1>1. CASE phase # start_phase[p] + 1
  <2>1. UNCHANGED <<elected, iElected, returned, start_phase, phase, pc>>
    BY Zenon, <1>1 DEF TestPhase
  <2> QED
    BY Zenon, <2>1, ElectionWaits
<1>2. CASE phase = start_phase[p] + 1
  <2>1. /\ pc[p] = "test" /\ pc' = [pc EXCEPT ![p] = "leave"]
        /\ iElected' = [iElected EXCEPT ![p] = (elected # phase)]
        /\ elected' = IF elected # phase THEN phase ELSE elected
        /\ UNCHANGED <<returned, start_phase, phase>>
    BY Zenon, <1>2 DEF TestPhase, Goto, ElectMe
  <2>2. /\ p \in Waiting /\ Waiting' = Waiting /\ ~ iElected[p] /\ elected' = phase
        /\ iElected'[p] = (elected # phase)
        /\ \A q \in Proc \ {p} : UNCHANGED <<pc[q], iElected[q]>>
    BY Zenon, <2>1 DEF Waiting, IInv, Scalars, ElectInv, Ballot
  <2>3. Ballot'
    <3>1. elected' \in Nat /\ elected' <= phase'
      BY SMTT(40), Z3T(40), <2>1, <2>2 DEF IInv, Scalars
    <3>2. iElected' \in [Proc -> BOOLEAN]
      BY Zenon, <2>1 DEF ElectInv, Ballot
    <3>3. pc'[p] # "test"
      BY Zenon, <2>1 DEF IInv, Scalars
    <3>4. \A q \in Proc : pc'[q] = "test" => ~ iElected'[q]
      BY Zenon, <2>2, <3>3 DEF ElectInv, Ballot
    <3> QED
      BY Zenon, <2>1, <2>2, <3>1, <3>2, <3>4 DEF ElectInv, Ballot
  <2>4. ASSUME NEW n \in 1 .. MaxPhase, n # phase
        PROVE  Settled(n)'
    <3>1. SameFor(n)
      BY Zenon, <1>2, <2>1, <2>2, <2>4 DEF SameFor, Awaits, Waiting
    <3> QED
      BY Zenon, <2>1, <2>4, <3>1, SettledSame DEF ElectInv
  <2>5. ASSUME NEW n \in 1 .. MaxPhase, n = phase
        PROVE  Settled(n)'
    <3>1. \A q \in Proc \ {p} : Awaits(q, n)' => Awaits(q, n)
      BY Zenon, <2>1, <2>2 DEF Awaits
    <3>2. ASSUME elected # phase
          PROVE  Elected(n)'
      <4>1. Unelected(n)
        BY Zenon, <2>5, <3>2 DEF ElectInv, Settled
      <4>2. \A q \in Proc \ {p} : Awaits(q, n)' => ~ iElected'[q]
        BY Zenon, <2>2, <3>1, <4>1 DEF Unelected, ElectInv, Ballot
      <4>3. Awaits(p, n)' /\ iElected'[p] /\ returned'[n][TRUE] = 0
        BY Zenon, <1>2, <2>1, <2>2, <2>5, <3>2, <4>1 DEF Awaits, Unelected
      <4> QED
        BY Zenon, <4>2, <4>3 DEF Elected
    <3>3. ASSUME elected = phase
          PROVE  Elected(n)'
      <4>1. Elected(n)
        BY Zenon, <2>5, <3>3 DEF ElectInv, Settled
      <4>2. ~ iElected'[p] /\ UNCHANGED returned
        BY Zenon, <2>1, <2>2, <3>3
      <4>3. CASE returned[n][TRUE] = 1 /\ \A q \in Proc : Awaits(q, n) => ~ iElected[q]
        BY Zenon, <2>2, <3>1, <4>2, <4>3 DEF Elected
      <4>4. ASSUME NEW x \in Proc, returned[n][TRUE] = 0, Awaits(x, n), iElected[x],
                   \A q \in Proc \ {x} : Awaits(q, n) => ~ iElected[q]
            PROVE  Elected(n)'
        <5>1. x # p /\ Awaits(x, n)' /\ iElected'[x]
          BY Zenon, <2>1, <2>2, <4>4 DEF Awaits
        <5>2. \A q \in Proc \ {x} : Awaits(q, n)' => ~ iElected'[q]
          BY Zenon, <2>2, <3>1, <4>2, <4>4
        <5> QED
          BY Zenon, <4>2, <4>4, <5>1, <5>2 DEF Elected
      <4> QED
        BY Zenon, <4>1, <4>3, <4>4 DEF Elected
    <3>4. Elected(n)'
      BY <3>2, <3>3
    <3>5. ~ (n < phase') /\ ~ (n > phase') /\ elected' = n
      BY SMTT(40), Z3T(40), <2>1, <2>2, <2>5 DEF IInv, Scalars
    <3> QED
      BY Zenon, <3>4, <3>5 DEF Settled
  <2> QED
    BY Zenon, <2>3, <2>4, <2>5 DEF ElectInv
<1> QED
  BY <1>1, <1>2

\* A return, which counts the elected, keeps it.
LEMMA ElectionReturn ==
    ASSUME IInv, ElectInv, NEW p \in Proc, ReturnFromWait(p)
    PROVE  ElectInv'
<1>1. /\ pc[p] \in {"release", "leave"} /\ pc' = [pc EXCEPT ![p] = "idle"]
      /\ start_phase' = [start_phase EXCEPT ![p] = 0]
      /\ iElected' = [iElected EXCEPT ![p] = FALSE]
      /\ returned' = [returned EXCEPT ![start_phase[p] + 1][iElected[p]] = @ + 1]
      /\ UNCHANGED <<phase, elected>>
  BY Zenon DEF ReturnFromWait, Goto, barrier
<1>2. /\ p \in Waiting /\ start_phase[p] + 1 = phase /\ phase \in 1 .. MaxPhase
      /\ Waiting' = Waiting \ {p}
      /\ \A q \in Proc \ {p} : UNCHANGED <<pc[q], start_phase[q], iElected[q]>>
  <2>1. p \in Waiting /\ start_phase[p] + 1 = phase
    BY Zenon, <1>1 DEF Waiting, IInv, Placed
  <2>2. \A q \in Proc \ {p} : UNCHANGED <<pc[q], start_phase[q], iElected[q]>>
    BY Zenon, <1>1 DEF IInv, Scalars, ElectInv, Ballot
  <2>3. pc'[p] = "idle"
    BY Zenon, <1>1 DEF IInv, Scalars
  <2>4. Waiting' = Waiting \ {p}
    BY Zenon, <2>2, <2>3 DEF Waiting
  <2> QED
    BY Zenon, <2>1, <2>2, <2>4 DEF ElectInv, Ballot
<1>3. /\ returned' \in [1 .. MaxPhase -> [BOOLEAN -> Nat]]
      /\ \A n \in 1 .. MaxPhase : n # phase => returned'[n] = returned[n]
      /\ iElected[p] => returned'[phase][TRUE] = returned[phase][TRUE] + 1
      /\ ~ iElected[p] => returned'[phase][TRUE] = returned[phase][TRUE]
  <2>1. /\ returned \in [1 .. MaxPhase -> [BOOLEAN -> Nat]] /\ iElected[p] \in BOOLEAN
        /\ returned' = [returned EXCEPT ![phase][iElected[p]] = returned[phase][iElected[p]] + 1]
    BY Zenon, <1>1, <1>2 DEF ElectInv, Ballot
  <2>2. returned[phase][iElected[p]] + 1 \in Nat
    <3>1. returned[phase][iElected[p]] \in Nat
      BY Zenon, <1>2, <2>1
    <3> QED
      BY SMTT(40), Z3T(40), <3>1
  <2>3. returned' \in [1 .. MaxPhase -> [BOOLEAN -> Nat]]
    BY Zenon, <1>2, <2>1, <2>2
  <2>4. \A n \in 1 .. MaxPhase : n # phase => returned'[n] = returned[n]
    BY Zenon, <1>2, <2>1
  <2>5. /\ returned'[phase][iElected[p]] = returned[phase][iElected[p]] + 1
        /\ \A chosen \in BOOLEAN \ {iElected[p]} :
              returned'[phase][chosen] = returned[phase][chosen]
    BY Zenon, <1>2, <2>1
  <2>6. (iElected[p] => iElected[p] = TRUE) /\ (~ iElected[p] => TRUE \in BOOLEAN \ {iElected[p]})
    BY Zenon, <2>1
  <2> QED
    BY Zenon, <2>3, <2>4, <2>5, <2>6
<1>4. Ballot'
  <2>1. iElected' \in [Proc -> BOOLEAN]
    BY Zenon, <1>1 DEF ElectInv, Ballot
  <2>2. \A q \in Waiting' : start_phase'[q] + 1 \in 1 .. MaxPhase
    BY Zenon, <1>2 DEF ElectInv, Ballot, Waiting
  <2>3. pc'[p] = "idle"
    BY Zenon, <1>1 DEF IInv, Scalars
  <2>4. \A q \in Proc : pc'[q] = "test" => ~ iElected'[q]
    BY Zenon, <1>2, <2>3 DEF ElectInv, Ballot
  <2> QED
    BY Zenon, <1>1, <1>3, <2>1, <2>2, <2>4 DEF ElectInv, Ballot
<1>5. ASSUME NEW n \in 1 .. MaxPhase, n # phase
      PROVE  Settled(n)'
  <2>1. SameFor(n)
    BY Zenon, <1>2, <1>3, <1>5 DEF SameFor, Awaits, Waiting
  <2> QED
    BY Zenon, <1>1, <1>5, <2>1, SettledSame DEF ElectInv
<1>6. ASSUME NEW n \in 1 .. MaxPhase, n = phase
      PROVE  Settled(n)'
  <2>1. Awaits(p, n) /\ pc[p] # "test"
    BY Zenon, <1>1, <1>2, <1>6 DEF Awaits
  <2>2. Elected(n) /\ elected = n
    BY Zenon, <1>6, <2>1 DEF ElectInv, Settled, Unelected
  <2>3. \A q \in Proc : Awaits(q, n)' => q # p /\ Awaits(q, n) /\ iElected'[q] = iElected[q]
    BY Zenon, <1>2 DEF Awaits
  <2>4. Elected(n)'
    <3>1. CASE returned[n][TRUE] = 1 /\ \A q \in Proc : Awaits(q, n) => ~ iElected[q]
      <4>1. returned'[n][TRUE] = 1
        BY Zenon, <1>3, <1>6, <2>1, <3>1
      <4> QED
        BY Zenon, <2>3, <3>1, <4>1 DEF Elected
    <3>2. ASSUME NEW x \in Proc, returned[n][TRUE] = 0, Awaits(x, n), iElected[x],
                 \A q \in Proc \ {x} : Awaits(q, n) => ~ iElected[q]
          PROVE  Elected(n)'
      <4>1. CASE x = p
        <5>1. returned'[n][TRUE] = 1
          <6>1. returned'[n][TRUE] = 0 + 1
            BY Zenon, <1>3, <1>6, <3>2, <4>1
          <6> QED
            BY SMTT(40), Z3T(40), <6>1
        <5> QED
          BY Zenon, <2>3, <3>2, <4>1, <5>1 DEF Elected
      <4>2. CASE x # p
        <5>1. returned'[n][TRUE] = 0
          BY Zenon, <1>3, <1>6, <2>1, <3>2, <4>2
        <5>2. Awaits(x, n)' /\ iElected'[x]
          BY Zenon, <1>2, <3>2, <4>2 DEF Awaits
        <5> QED
          BY Zenon, <2>3, <3>2, <5>1, <5>2 DEF Elected
      <4> QED
        BY <4>1, <4>2
    <3> QED
      BY Zenon, <2>2, <3>1, <3>2 DEF Elected
  <2>5. ~ (n < phase') /\ ~ (n > phase') /\ elected' = n
    BY SMTT(40), Z3T(40), <1>1, <1>6, <2>2 DEF IInv, Scalars
  <2> QED
    BY Zenon, <2>4, <2>5 DEF Settled
<1> QED
  BY Zenon, <1>4, <1>5, <1>6 DEF ElectInv

\* Nobody is elected at first.
LEMMA ElectionInit == Init => ElectInv
<1> SUFFICES ASSUME Init PROVE ElectInv
  OBVIOUS
<1>1. Waiting = {}
  BY Zenon DEF Init, Waiting
<1>2. Ballot
  <2>1. elected \in Nat /\ elected <= phase /\ 0 \in Nat
    BY SMTT(40), Z3T(40) DEF Init
  <2> QED
    BY Zenon, <1>1, <2>1 DEF Init, Ballot
<1>3. ASSUME NEW n \in 1 .. MaxPhase
      PROVE  Settled(n)
  <2>1. Unelected(n)
    BY Zenon, <1>1 DEF Init, Unelected, Awaits
  <2>2. n # phase
    BY SMTT(40), Z3T(40), BarrierAssumption DEF Init, BarrierAssumption
  <2> QED
    BY Zenon, <2>1, <2>2 DEF Settled
<1> QED
  BY Zenon, <1>2, <1>3 DEF ElectInv

\* Every step keeps the invariant of the election.
LEMMA ElectionStep == IInv /\ ElectInv /\ [Next]_vars => ElectInv'
<1> SUFFICES ASSUME IInv, ElectInv, [Next]_vars PROVE ElectInv'
  OBVIOUS
<1>1. ASSUME UNCHANGED <<elected, locals, returned>>, phase' \in {phase, phase + 1}
      PROVE  ElectInv'
  BY Zenon, <1>1, ElectionWaits DEF locals
<1>2. CASE UNCHANGED vars
  BY Zenon, <1>1, <1>2 DEF vars, barrier
<1>3. ASSUME NEW p \in Proc
      PROVE  /\ BarrierAttach(p) => ElectInv'
             /\ BarrierArriveAndDetachExceptLast(p) => ElectInv'
  BY Zenon, <1>1 DEF BarrierAttach, BarrierArriveAndDetachExceptLast
<1>4. ASSUME NEW p \in Proc, NEW arrive \in BOOLEAN, BarrierDetachImpl(p, arrive)
      PROVE  ElectInv'
  <2>1. /\ UNCHANGED <<elected, iElected, returned, start_phase>> /\ pc[p] = "idle"
        /\ phase' \in {phase, phase + 1} /\ (pc' = pc \/ pc' = [pc EXCEPT ![p] = "detach"])
    BY Zenon, <1>4 DEF BarrierDetachImpl, Attached, Goto
  <2>2. \A q \in Proc : pc'[q] = pc[q] \/ (pc[q] = "idle" /\ pc'[q] = "detach")
    BY Zenon, <2>1 DEF IInv, Scalars
  <2> QED
    BY Zenon, <2>1, <2>2, ElectionWaits
<1>5. ASSUME NEW p \in Proc, ReturnFromDetach(p)
      PROVE  ElectInv'
  <2>1. /\ UNCHANGED <<elected, iElected, returned, start_phase, phase>>
        /\ pc[p] = "detach" /\ pc' = [pc EXCEPT ![p] = "idle"]
    BY Zenon, <1>5 DEF ReturnFromDetach, Goto, barrier
  <2>2. \A q \in Proc : pc'[q] = pc[q] \/ (pc[q] = "detach" /\ pc'[q] = "idle")
    BY Zenon, <2>1 DEF IInv, Scalars
  <2> QED
    BY Zenon, <2>1, <2>2, ElectionWaits
<1>6. ASSUME NEW p \in Proc, CVStep(p) \/ OtherSetLatch(p),
             UNCHANGED <<barrier, locals, attached, returned>>
      PROVE  ElectInv'
  BY Zenon, <1>1, <1>6 DEF barrier
<1> QED
  BY Zenon, <1>2, <1>3, <1>4, <1>5, <1>6, ElectionArrive, ElectionTest, ElectionReturn
     DEF Next, Proceed

\* BarrierArriveAndWait returns true to one process at most of those who waited for
\* a phase and, once all of them have returned, to one, also where a process that
\* detached started the phase.
THEOREM OneProcessElected == Spec => []OneIsElected
<1>1. IInv /\ ElectInv => OneIsElected
  <2> SUFFICES ASSUME IInv, ElectInv, NEW n \in 1 .. MaxPhase
               PROVE  /\ returned[n][TRUE] <= 1
                      /\ returned[n][FALSE] > 0 /\ (\A p \in Waiting : start_phase[p] + 1 # n)
                             => returned[n][TRUE] = 1
    BY Zenon DEF OneIsElected
  <2>1. Unelected(n) \/ Elected(n)
    <3>1. n < phase \/ n = phase \/ n > phase
      BY SMTT(40), Z3T(40), BarrierAssumption DEF BarrierAssumption, IInv, Scalars
    <3> QED
      BY Zenon, <3>1 DEF ElectInv, Settled
  <2>2. /\ returned[n][TRUE] \in {0, 1}
        /\ returned[n][FALSE] = 0 \/ returned[n][TRUE] = 1 \/
           \E p \in Waiting : start_phase[p] + 1 = n
    BY Zenon, <2>1 DEF Unelected, Elected, Awaits
  <2>3. ASSUME NEW t, NEW f, t \in {0, 1}
        PROVE  t <= 1 /\ (f > 0 => f # 0)
    BY SMTT(40), Z3T(40), <2>3
  <2> QED
    BY Zenon, <2>2, <2>3
<1> QED
  BY <1>1, InvInit, InvStep, ElectionInit, ElectionStep, PTL DEF Spec

-----------------------------------------------------------------------------
(* The condition variable. *)

Place == {"out", "prepare", "push", "wait", "check", "cancel", "signal", "broadcast",
          "sentinel", "setlatch", "loop"}

CVTyped ==
    /\ wakeup \in [CV -> Seq(Proc)]
    /\ cv_sleep_target \in [Proc -> CV \cup {NULL}]
    /\ latch \in [Proc -> BOOLEAN]
    /\ at \in [Proc -> Place]
    /\ cv \in [Proc -> CV]
    /\ proc \in [Proc -> Proc \cup {NULL}]
    /\ have_sentinel \in [Proc -> BOOLEAN]
    /\ toWake \in [Proc -> SUBSET Proc]

\* A list of processes, in which nobody is twice.
IsList(s) == s \in Seq(Proc) /\ \A i, j \in 1 .. Len(s) : s[i] = s[j] => i = j

\* x is before y on a list.
Before(s, x, y) == \E i, j \in 1 .. Len(s) : i < j /\ s[i] = x /\ s[j] = y

\* p is broadcasting, and queued behind those that it found.
Sentinel(p) == at[p] \in {"setlatch", "loop"} /\ have_sentinel[p]

\* Where p sleeps or is about to, and what the sentinel of a broadcast is.
Target(p) ==
    /\ at[p] \in {"wait", "check"} => cv_sleep_target[p] = cv[p]
    /\ at[p] \in {"push", "sentinel", "loop"} => cv_sleep_target[p] = NULL
    /\ have_sentinel[p] => Sentinel(p) /\ cv_sleep_target[p] = NULL
    /\ at[p] = "loop" => have_sentinel[p]

\* Whoever is on a list has prepared to sleep there, or is a sentinel.
Linked(p) ==
    \A c \in CV : Listed(c, p) => cv_sleep_target[p] = c \/ (Sentinel(p) /\ cv[p] = c)

\* Whom the broadcast of p has still to wake is on the list, before its sentinel.
Ahead(p) ==
    \A x \in toWake[p] : Sentinel(p) /\ Before(wakeup[cv[p]], x, p)

\* Somebody is about to set the latch of p.
Called(p) == \E q \in Proc : at[q] = "setlatch" /\ proc[q] = p

\* Whoever has prepared to sleep is on the list, or has been taken off it and has
\* its latch set or is about to.
Reachable(p) ==
    cv_sleep_target[p] # NULL /\ at[p] # "check" =>
        latch[p] \/ Listed(cv_sleep_target[p], p) \/ Called(p)

CVInv ==
    /\ CVTyped /\ \A c \in CV : IsList(wakeup[c])
    /\ \A p \in Proc : Target(p) /\ Linked(p) /\ Ahead(p) /\ Reachable(p)

\* proclist_push_tail.
LEMMA Appending ==
    ASSUME NEW s, IsList(s), NEW p \in Proc, p \notin Range(s)
    PROVE  /\ IsList(Append(s, p)) /\ Range(Append(s, p)) = Range(s) \cup {p}
           /\ \A x, y : Before(s, x, y) => Before(Append(s, p), x, y)
           /\ \A x \in Range(s) : Before(Append(s, p), x, p)
<1> DEFINE t == Append(s, p)
<1>1. /\ s \in Seq(Proc) /\ Len(s) \in Nat /\ t \in Seq(Proc) /\ Len(t) = Len(s) + 1
      /\ \A i \in 1 .. Len(s) : t[i] = s[i]
      /\ t[Len(s) + 1] = p
  BY SMTT(40), Z3T(40) DEF IsList
<1>2. Range(s) = {s[i] : i \in 1 .. Len(s)} /\ Range(t) = {t[i] : i \in 1 .. Len(t)}
  BY SMTT(40), Z3T(40), <1>1 DEF Range
<1> HIDE DEF t
<1>3. \A i \in 1 .. Len(t) : i \in 1 .. Len(s) \/ i = Len(s) + 1
  BY SMTT(40), Z3T(40), <1>1
<1>4. \A i \in 1 .. Len(s) : i \in 1 .. Len(t) /\ i < Len(t) /\ s[i] # p
  BY SMTT(40), Z3T(40), <1>1, <1>2
<1>5. Len(t) \in 1 .. Len(t) /\ t[Len(t)] = p
  BY SMTT(40), Z3T(40), <1>1
<1>6. IsList(t)
  <2>1. \A i, j \in 1 .. Len(t) : t[i] = t[j] => i = j
    BY Zenon, <1>1, <1>3, <1>4 DEF IsList
  <2> QED
    BY Zenon, <1>1, <2>1 DEF IsList
<1>7. Range(t) = Range(s) \cup {p}
  BY Zenon, <1>1, <1>2, <1>3, <1>4, <1>5
<1>8. \A x, y : Before(s, x, y) => Before(t, x, y)
  BY Zenon, <1>1, <1>4 DEF Before
<1>9. \A x \in Range(s) : Before(t, x, p)
  BY Zenon, <1>1, <1>2, <1>4, <1>5 DEF Before
<1> QED
  BY Zenon, <1>6, <1>7, <1>8, <1>9 DEF t

\* proclist_delete.
LEMMA Removing ==
    ASSUME NEW s, IsList(s), NEW x \in Range(s)
    PROVE  /\ IsList(Without(s, x)) /\ Range(Without(s, x)) = Range(s) \ {x}
           /\ \A y, z : y # x /\ z # x /\ Before(s, y, z) => Before(Without(s, x), y, z)
<1>1. s \in Seq(Proc) /\ Len(s) \in Nat /\ Range(s) = {s[i] : i \in 1 .. Len(s)}
      /\ DOMAIN s = 1 .. Len(s)
  BY SMTT(40), Z3T(40) DEF IsList, Range
<1>2. PICK n \in 1 .. Len(s) : n = CHOOSE i \in DOMAIN s : s[i] = x
  BY Zenon, <1>1
<1>3. s[n] = x
  BY Zenon, <1>1, <1>2
<1> DEFINE t == Without(s, x)
<1>4. t = [j \in 1 .. Len(s) - 1 |-> IF j < n THEN s[j] ELSE s[j + 1]]
  BY Zenon, <1>2 DEF Without
<1>5. /\ t \in Seq(Proc) /\ Len(t) = Len(s) - 1 /\ Len(t) \in Nat
      /\ \A i \in 1 .. Len(t) : t[i] = IF i < n THEN s[i] ELSE s[i + 1]
  <2>1. t \in [1 .. Len(s) - 1 -> Proc] /\ Len(s) - 1 \in Nat
    BY SMTT(40), Z3T(40), <1>1, <1>4
  <2>2. t \in Seq(Proc) /\ Len(t) = Len(s) - 1
    BY SMTT(40), Z3T(40), <2>1
  <2> QED
    BY Zenon, <1>4, <2>1, <2>2
<1> HIDE DEF t
<1>6. \A i \in 1 .. Len(s) : i # n => s[i] # x
  BY Zenon, <1>3 DEF IsList
<1>7. IsList(t)
  <2>1. ASSUME NEW i \in 1 .. Len(t), NEW j \in 1 .. Len(t), t[i] = t[j]
        PROVE  i = j
    BY SMTT(40), Z3T(40), <1>1, <1>5, <2>1 DEF IsList
  <2> QED
    BY Zenon, <1>5, <2>1 DEF IsList
<1>8. /\ \A i \in 1 .. Len(t) : \E k \in 1 .. Len(s) : k # n /\ t[i] = s[k]
      /\ \A k \in 1 .. Len(s) : k < n => k \in 1 .. Len(t) /\ t[k] = s[k]
      /\ \A k \in 1 .. Len(s) : k > n => k - 1 \in 1 .. Len(t) /\ t[k - 1] = s[k]
  BY SMTT(40), Z3T(40), <1>1, <1>5
<1>9. Range(t) = Range(s) \ {x}
  <2>1. Range(t) = {t[i] : i \in 1 .. Len(t)}
    BY SMTT(40), Z3T(40), <1>5 DEF Range
  <2>2. \A i \in 1 .. Len(t) : t[i] \in Range(s) \ {x}
    BY Zenon, <1>1, <1>6, <1>8
  <2>3. ASSUME NEW k \in 1 .. Len(s), s[k] # x
        PROVE  s[k] \in Range(t)
    <3>1. k < n \/ k > n
      BY SMTT(40), Z3T(40), <1>1, <1>3, <2>3
    <3> QED
      BY Zenon, <1>8, <2>1, <3>1
  <2> QED
    BY Zenon, <1>1, <2>1, <2>2, <2>3
<1>10. ASSUME NEW y, NEW z, y # x, z # x, NEW i \in 1 .. Len(s), NEW j \in 1 .. Len(s),
              i < j, s[i] = y, s[j] = z
       PROVE  Before(t, y, z)
  <2>1. PICK k \in 1 .. Len(t), l \in 1 .. Len(t) : k < l /\ t[k] = s[i] /\ t[l] = s[j]
    <3>1. i # n /\ j # n
      BY Zenon, <1>3, <1>10
    <3>2. CASE j < n
      BY SMTT(40), Z3T(40), <1>1, <1>8, <1>10, <3>2
    <3>3. CASE i < n /\ j > n
      BY SMTT(40), Z3T(40), <1>1, <1>8, <1>10, <3>3
    <3>4. CASE i > n
      BY SMTT(40), Z3T(40), <1>1, <1>8, <1>10, <3>4
    <3> QED
      BY SMTT(40), Z3T(40), <1>1, <1>10, <3>1, <3>2, <3>3, <3>4
  <2> QED
    BY Zenon, <1>10, <2>1 DEF Before
<1>11. \A y, z : y # x /\ z # x /\ Before(s, y, z) => Before(t, y, z)
  BY Zenon, <1>10 DEF Before
<1> QED
  BY Zenon, <1>7, <1>9, <1>11 DEF t

\* proclist_pop_head_node.
LEMMA First ==
    ASSUME NEW s, IsList(s), s # <<>>
    PROVE  /\ Head(s) \in Range(s) /\ Head(s) \in Proc /\ Tail(s) = Without(s, Head(s))
           /\ \A x : ~ Before(s, x, Head(s))
<1>1. /\ s \in Seq(Proc) /\ Len(s) \in Nat /\ Len(s) > 0 /\ Head(s) = s[1] /\ Head(s) \in Proc
      /\ DOMAIN s = 1 .. Len(s) /\ 1 \in 1 .. Len(s)
  BY SMTT(40), Z3T(40) DEF IsList
<1>2. Head(s) \in Range(s)
  BY Zenon, <1>1 DEF Range
<1>3. 1 = CHOOSE i \in DOMAIN s : s[i] = Head(s)
  BY Zenon, <1>1 DEF IsList
<1>4. Without(s, Head(s)) = [j \in 1 .. Len(s) - 1 |-> IF j < 1 THEN s[j] ELSE s[j + 1]]
  BY Zenon, <1>3 DEF Without
<1>5. Tail(s) = Without(s, Head(s))
  BY SMTT(40), Z3T(40), <1>1, <1>4
<1>6. ASSUME NEW i \in 1 .. Len(s), NEW j \in 1 .. Len(s), i < j
      PROVE  s[j] # Head(s)
  <2>1. j # 1
    BY SMTT(40), Z3T(40), <1>1, <1>6
  <2> QED
    BY Zenon, <1>1, <2>1 DEF IsList
<1> QED
  BY Zenon, <1>1, <1>2, <1>5, <1>6 DEF Before

\* What the others are in the middle of does not change.
Steps(p) ==
    \A q \in Proc \ {p} :
        UNCHANGED <<at[q], cv[q], cv_sleep_target[q], proc[q], have_sentinel[q]>>

\* A step of p keeps the invariant if it does for p itself, and if the lists stay in
\* order, lose the others only to a process that will set their latch, and the
\* latch that p is about to set is set.
LEMMA CVAssemble ==
    ASSUME CVInv, CVTyped', NEW p \in Proc, Steps(p),
           \A c \in CV : IsList(wakeup'[c]),
           \A q \in Proc \ {p} : latch[q] => latch'[q],
           \A q \in Proc \ {p} : \A c \in CV :
              /\ q \in Range(wakeup'[c]) => Listed(c, q)
              /\ Listed(c, q) => \/ q \in Range(wakeup'[c])
                                 \/ at'[p] = "setlatch" /\ proc'[p] = q,
           \A q \in Proc \ {p} : at[p] = "setlatch" /\ proc[p] = q => latch'[q],
           \A q \in Proc \ {p} : \A x \in toWake'[q] :
              x \in toWake[q] /\ (Before(wakeup[cv[q]], x, q) => Before(wakeup'[cv[q]], x, q)),
           Target(p)', Linked(p)', Ahead(p)', Reachable(p)'
    PROVE  CVInv'
<1>1. ASSUME NEW q \in Proc \ {p}
      PROVE  Target(q)' /\ Linked(q)' /\ Ahead(q)' /\ Reachable(q)'
  <2>0. /\ UNCHANGED <<at[q], cv[q], cv_sleep_target[q], have_sentinel[q]>>
        /\ Target(q) /\ Linked(q) /\ Ahead(q) /\ Reachable(q)
        /\ Sentinel(q)' <=> Sentinel(q)
    BY Zenon, <1>1 DEF Steps, CVInv, Sentinel
  <2>1. Target(q)'
    BY Zenon, <2>0 DEF Target
  <2>2. Linked(q)'
    BY Zenon, <1>1, <2>0 DEF Linked, Listed
  <2>3. Ahead(q)'
    BY Zenon, <1>1, <2>0 DEF Ahead
  <2>4. Reachable(q)'
    <3>1. cv_sleep_target[q] \in CV \cup {NULL}
      BY Zenon, <1>1 DEF CVInv, CVTyped
    <3>2. Called(q) => latch'[q] \/ Called(q)'
      BY Zenon, <1>1 DEF Called, Steps
    <3>3. Listed(cv_sleep_target[q], q) /\ cv_sleep_target[q] \in CV =>
              q \in Range(wakeup'[cv_sleep_target[q]]) \/ Called(q)'
      BY Zenon, <1>1 DEF Called
    <3> QED
      BY Zenon, <1>1, <2>0, <3>1, <3>2, <3>3 DEF Reachable, Listed
  <2> QED
    BY <2>1, <2>2, <2>3, <2>4
<1> QED
  BY Zenon, <1>1 DEF CVInv

\* Steps that leave the lists alone.
LEMMA CVQuiet ==
    ASSUME CVInv, CVTyped', NEW p \in Proc, Steps(p), UNCHANGED <<wakeup, toWake>>,
           \A q \in Proc \ {p} : latch[q] => latch'[q],
           \A q \in Proc \ {p} : at[p] = "setlatch" /\ proc[p] = q => latch'[q],
           Target(p)', Linked(p)', Ahead(p)', Reachable(p)'
    PROVE  CVInv'
<1>1. /\ \A c \in CV : IsList(wakeup'[c])
      /\ \A q \in Proc \ {p} : \A c \in CV : q \in Range(wakeup'[c]) <=> Listed(c, q)
      /\ \A q \in Proc \ {p} : \A x \in toWake'[q] :
            x \in toWake[q] /\ (Before(wakeup[cv[q]], x, q) => Before(wakeup'[cv[q]], x, q))
  BY Zenon DEF CVInv, Listed
<1> QED
  BY Zenon, <1>1, CVAssemble

\* A process is taken off a list.
LEMMA CVDelete ==
    ASSUME CVInv, NEW c \in CV, NEW x \in Proc, Delete(c, x)
    PROVE  /\ wakeup' \in [CV -> Seq(Proc)] /\ toWake' \in [Proc -> SUBSET Proc]
           /\ \A d \in CV : IsList(wakeup'[d])
           /\ \A d \in CV \ {c} : wakeup'[d] = wakeup[d]
           /\ Range(wakeup'[c]) = Range(wakeup[c]) \ {x}
           /\ \A q \in Proc : \A y \in toWake'[q] :
                 /\ y \in toWake[q]
                 /\ q # x \/ cv[q] # c =>
                       (Before(wakeup[cv[q]], y, q) => Before(wakeup'[cv[q]], y, q))
<1> DEFINE w == IF Listed(c, x) THEN Without(wakeup[c], x) ELSE wakeup[c]
<1>1. /\ wakeup \in [CV -> Seq(Proc)] /\ IsList(wakeup[c]) /\ toWake \in [Proc -> SUBSET Proc]
      /\ cv \in [Proc -> CV]
  BY Zenon DEF CVInv, CVTyped
<1>2. /\ wakeup' = [wakeup EXCEPT ![c] = w]
      /\ toWake' = [q \in Proc |-> IF cv[q] = c THEN toWake[q] \ {x} ELSE toWake[q]]
  BY Zenon DEF Delete
<1>3. /\ IsList(w) /\ Range(w) = Range(wakeup[c]) \ {x}
      /\ \A y, z : y # x /\ z # x /\ Before(wakeup[c], y, z) => Before(w, y, z)
  BY Zenon, <1>1, Removing DEF Listed
<1> HIDE DEF w
<1>4. wakeup'[c] = w /\ \A d \in CV \ {c} : wakeup'[d] = wakeup[d]
  BY Zenon, <1>1, <1>2
<1>5. wakeup' \in [CV -> Seq(Proc)]
  BY Zenon, <1>1, <1>2, <1>3 DEF IsList
<1>6. toWake' \in [Proc -> SUBSET Proc]
  BY Zenon, <1>1, <1>2
<1>7. \A d \in CV : IsList(wakeup'[d])
  BY Zenon, <1>3, <1>4 DEF CVInv
<1>8. ASSUME NEW q \in Proc, NEW y \in toWake'[q]
      PROVE  /\ y \in toWake[q]
             /\ q # x \/ cv[q] # c =>
                   (Before(wakeup[cv[q]], y, q) => Before(wakeup'[cv[q]], y, q))
  <2>1. y \in toWake[q] /\ (cv[q] = c => y # x) /\ cv[q] \in CV
    BY Zenon, <1>1, <1>2, <1>8
  <2> QED
    BY Zenon, <1>3, <1>4, <2>1
<1> QED
  BY Zenon, <1>3, <1>4, <1>5, <1>6, <1>7, <1>8

\* A process queues that is not yet on the list.
LEMMA CVPush ==
    ASSUME CVInv, NEW p \in Proc, ~ Listed(cv[p], p), PushTail(cv[p], p)
    PROVE  /\ wakeup' \in [CV -> Seq(Proc)]
           /\ \A d \in CV : IsList(wakeup'[d])
           /\ \A d \in CV \ {cv[p]} : wakeup'[d] = wakeup[d]
           /\ Range(wakeup'[cv[p]]) = Range(wakeup[cv[p]]) \cup {p}
           /\ \A d \in CV : \A y, z : Before(wakeup[d], y, z) => Before(wakeup'[d], y, z)
<1>1. wakeup \in [CV -> Seq(Proc)] /\ cv[p] \in CV /\ IsList(wakeup[cv[p]])
  BY Zenon DEF CVInv, CVTyped
<1> DEFINE w == Append(wakeup[cv[p]], p)
<1>2. wakeup' = [wakeup EXCEPT ![cv[p]] = w]
  BY Zenon DEF PushTail
<1>3. /\ IsList(w) /\ Range(w) = Range(wakeup[cv[p]]) \cup {p}
      /\ \A y, z : Before(wakeup[cv[p]], y, z) => Before(w, y, z)
  BY Zenon, <1>1, Appending DEF Listed
<1> HIDE DEF w
<1>4. wakeup'[cv[p]] = w /\ \A d \in CV \ {cv[p]} : wakeup'[d] = wakeup[d]
  BY Zenon, <1>1, <1>2
<1>5. wakeup' \in [CV -> Seq(Proc)]
  BY Zenon, <1>1, <1>2, <1>3 DEF IsList
<1> QED
  BY Zenon, <1>3, <1>4, <1>5 DEF CVInv

\* A process that has no sentinel on a list is there to sleep, and woke everybody.
LEMMA NoSentinelYet ==
    ASSUME CVInv, NEW p \in Proc, at[p] \notin {"setlatch", "loop"}
    PROVE  /\ ~ have_sentinel[p] /\ ~ Sentinel(p) /\ toWake[p] = {}
           /\ \A c \in CV : Listed(c, p) => cv_sleep_target[p] = c
<1>1. Target(p) /\ Linked(p) /\ Ahead(p) /\ toWake[p] \in SUBSET Proc
  BY Zenon DEF CVInv, CVTyped
<1>2. ~ Sentinel(p) /\ ~ have_sentinel[p]
  BY Zenon, <1>1 DEF Sentinel, Target
<1> QED
  BY Zenon, <1>1, <1>2 DEF Linked, Ahead

\* p calls a function of condition_variable.c, and may wait if it has prepared to.
LEMMA CVCall ==
    ASSUME CVInv, NEW p \in Proc, NEW c \in CV,
           NEW f \in {"prepare", "push", "wait", "cancel", "signal", "broadcast"},
           f = "wait" => cv_sleep_target[p] = c, f = "push" => cv_sleep_target[p] = NULL,
           Call(p, f, c)
    PROVE  CVInv'
<1>1. /\ at[p] = "out" /\ at' = [at EXCEPT ![p] = f] /\ cv' = [cv EXCEPT ![p] = c]
      /\ UNCHANGED <<wakeup, cv_sleep_target, latch, proc, have_sentinel, toWake>>
  BY Zenon DEF Call, At
<1>2. /\ CVTyped' /\ Steps(p) /\ at'[p] = f /\ cv'[p] = c
  BY Zenon, <1>1 DEF CVInv, CVTyped, Place, Steps
<1>3. /\ ~ have_sentinel[p] /\ toWake[p] = {}
      /\ \A d \in CV : Listed(d, p) => cv_sleep_target[p] = d
  BY Zenon, <1>1, NoSentinelYet
<1>4. Target(p)' /\ Linked(p)' /\ Ahead(p)'
  BY Zenon, <1>1, <1>2, <1>3 DEF Target, Linked, Ahead, Listed
<1>5. Reachable(p)'
  <2>1. Called(p) => Called(p)'
    BY Zenon, <1>1, <1>2 DEF Called, Steps
  <2> QED
    BY Zenon, <1>1, <2>1 DEF CVInv, Reachable, Listed
<1> QED
  BY Zenon, <1>1, <1>2, <1>4, <1>5, CVQuiet

\* ConditionVariableTimedSleep is called.
LEMMA CVCallSleep ==
    ASSUME CVInv, NEW p \in Proc, NEW c \in CV, CallSleep(p, c)
    PROVE  CVInv'
<1> DEFINE f == CASE cv_sleep_target[p] = c -> "wait"
                  [] cv_sleep_target[p] = NULL -> "push"
                  [] OTHER -> "prepare"
<1>1. Call(p, f, c)
  BY Zenon DEF CallSleep
<1>2. /\ f \in {"prepare", "push", "wait", "cancel", "signal", "broadcast"}
      /\ f = "wait" => cv_sleep_target[p] = c
      /\ f = "push" => cv_sleep_target[p] = NULL
  <2>1. CASE cv_sleep_target[p] = c
    <3>1. c # NULL
      BY Zenon, CVAssumption DEF CVAssumption
    <3> QED
      BY SMTT(40), Z3T(40), <2>1, <3>1
  <2>2. CASE cv_sleep_target[p] # c /\ cv_sleep_target[p] = NULL
    BY SMTT(40), Z3T(40), <2>2
  <2>3. CASE cv_sleep_target[p] # c /\ cv_sleep_target[p] # NULL
    BY SMTT(40), Z3T(40), <2>3
  <2> QED
    BY <2>1, <2>2, <2>3
<1> HIDE DEF f
<1>3. PICK g : g = f
  OBVIOUS
<1> QED
  BY Zenon, <1>1, <1>2, <1>3, CVCall

\* ConditionVariableCancelSleep, also at the start of the other functions.
LEMMA CVCancel ==
    ASSUME CVInv, NEW p \in Proc, NEW l \in {"out", "push", "sentinel"},
           at[p] \in {"cancel", "prepare", "broadcast"}, CancelSleep(p, l)
    PROVE  CVInv'
<1>1. /\ cv_sleep_target' = [cv_sleep_target EXCEPT ![p] = NULL]
      /\ at' = [at EXCEPT ![p] = l]
      /\ UNCHANGED <<latch, cv, proc, have_sentinel>>
  BY Zenon DEF CancelSleep, At
<1>2. /\ Steps(p) /\ at'[p] = l /\ cv_sleep_target'[p] = NULL
      /\ at' \in [Proc -> Place] /\ cv_sleep_target' \in [Proc -> CV \cup {NULL}]
  BY Zenon, <1>1 DEF CVInv, CVTyped, Place, Steps
<1>3. /\ ~ have_sentinel[p] /\ toWake[p] = {}
      /\ \A d \in CV : Listed(d, p) => cv_sleep_target[p] = d
  BY Zenon, NoSentinelYet
<1>4. Target(p)' /\ Reachable(p)'
  BY Zenon, <1>1, <1>2, <1>3 DEF Target, Reachable
<1>5. CASE cv_sleep_target[p] = NULL
  <2>1. UNCHANGED <<wakeup, toWake>>
    BY Zenon, <1>5 DEF CancelSleep
  <2>2. CVTyped'
    BY Zenon, <1>1, <1>2, <2>1 DEF CVInv, CVTyped
  <2>3. \A d \in CV : ~ Listed(d, p)
    BY Zenon, <1>3, <1>5, CVAssumption DEF CVAssumption
  <2>4. Linked(p)' /\ Ahead(p)'
    BY Zenon, <1>3, <2>1, <2>3 DEF Linked, Ahead, Listed
  <2> QED
    BY Zenon, <1>1, <1>2, <1>4, <2>1, <2>2, <2>4, CVQuiet
<1>6. ASSUME NEW c \in CV, c = cv_sleep_target[p]
      PROVE  CVInv'
  <2>1. Delete(c, p)
    BY Zenon, <1>6, CVAssumption DEF CancelSleep, CVAssumption
  <2>2. /\ wakeup' \in [CV -> Seq(Proc)] /\ toWake' \in [Proc -> SUBSET Proc]
        /\ \A d \in CV : IsList(wakeup'[d])
        /\ \A d \in CV \ {c} : wakeup'[d] = wakeup[d]
        /\ Range(wakeup'[c]) = Range(wakeup[c]) \ {p}
        /\ \A q \in Proc : \A y \in toWake'[q] :
              /\ y \in toWake[q]
              /\ q # p \/ cv[q] # c =>
                    (Before(wakeup[cv[q]], y, q) => Before(wakeup'[cv[q]], y, q))
    BY Zenon, <2>1, CVDelete
  <2>3. CVTyped'
    BY Zenon, <1>1, <1>2, <2>2 DEF CVInv, CVTyped
  <2>4. \A d \in CV : p \notin Range(wakeup'[d])
    BY Zenon, <1>3, <1>6, <2>2 DEF Listed
  <2>5. Linked(p)' /\ Ahead(p)'
    BY Zenon, <1>3, <2>2, <2>4 DEF Linked, Ahead, Listed
  <2>6. \A q \in Proc \ {p} : \A d \in CV : q \in Range(wakeup'[d]) <=> Listed(d, q)
    BY Zenon, <2>2 DEF Listed
  <2>7. at[p] # "setlatch"
    BY Zenon
  <2> QED
    BY Zenon, <1>1, <1>2, <1>4, <2>2, <2>3, <2>5, <2>6, <2>7, CVAssemble
<1> QED
  BY Zenon, <1>5, <1>6 DEF CVInv, CVTyped

\* p queues: as it prepares to sleep, or again as it returns from a sleep.
LEMMA CVQueue ==
    ASSUME CVInv, NEW p \in Proc, at[p] \in {"push", "check"}, ~ Listed(cv[p], p),
           PushTail(cv[p], p), NEW l \in {"out", "cancel"}, at' = [at EXCEPT ![p] = l],
           cv_sleep_target' = [cv_sleep_target EXCEPT ![p] = cv[p]],
           UNCHANGED <<latch, cv, proc, have_sentinel, toWake>>
    PROVE  CVInv'
<1>1. /\ wakeup' \in [CV -> Seq(Proc)]
      /\ \A d \in CV : IsList(wakeup'[d])
      /\ \A d \in CV \ {cv[p]} : wakeup'[d] = wakeup[d]
      /\ Range(wakeup'[cv[p]]) = Range(wakeup[cv[p]]) \cup {p}
      /\ \A d \in CV : \A y, z : Before(wakeup[d], y, z) => Before(wakeup'[d], y, z)
  BY Zenon, CVPush
<1>2. /\ Steps(p) /\ at'[p] = l /\ cv[p] \in CV /\ cv_sleep_target'[p] = cv[p] /\ CVTyped'
  <2>1. cv[p] \in CV /\ at' \in [Proc -> Place] /\ at'[p] = l
    BY Zenon DEF CVInv, CVTyped, Place
  <2> QED
    BY Zenon, <1>1, <2>1 DEF CVInv, CVTyped, Steps
<1>3. /\ ~ have_sentinel[p] /\ toWake[p] = {}
      /\ \A d \in CV : Listed(d, p) => cv_sleep_target[p] = d
  BY Zenon, NoSentinelYet
<1>4. cv_sleep_target[p] \in {cv[p], NULL}
  BY Zenon DEF CVInv, Target
<1>5. \A d \in CV \ {cv[p]} : ~ Listed(d, p)
  BY Zenon, <1>3, <1>4, CVAssumption DEF CVAssumption
<1>6. Target(p)' /\ Ahead(p)' /\ Reachable(p)'
  BY Zenon, <1>1, <1>2, <1>3 DEF Target, Ahead, Reachable, Listed
<1>7. Linked(p)'
  BY Zenon, <1>1, <1>2, <1>5 DEF Linked, Listed
<1>8. \A q \in Proc \ {p} : \A d \in CV : q \in Range(wakeup'[d]) <=> Listed(d, q)
  BY Zenon, <1>1 DEF Listed
<1>9. \A q \in Proc \ {p} : \A x \in toWake'[q] :
         x \in toWake[q] /\ (Before(wakeup[cv[q]], x, q) => Before(wakeup'[cv[q]], x, q))
  BY Zenon, <1>1 DEF CVInv, CVTyped
<1>10. at[p] # "setlatch"
  BY Zenon
<1> QED
  BY Zenon, <1>1, <1>2, <1>6, <1>7, <1>8, <1>9, <1>10, CVAssemble

\* ConditionVariablePrepareToSleep and ConditionVariableTimedSleep.
LEMMA CVSleeps ==
    ASSUME CVInv, NEW p \in Proc,
           ConditionVariablePrepareToSleep(p) \/ ConditionVariableSleep(p)
    PROVE  CVInv'
<1>0. cv_sleep_target \in [Proc -> CV \cup {NULL}] /\ at \in [Proc -> Place] /\ Target(p)
  BY Zenon DEF CVInv, CVTyped
<1>1. CASE at[p] = "prepare" /\ CancelSleep(p, "push")
  BY Zenon, <1>1, CVCancel
<1>2. CASE /\ at[p] = "push" /\ PushTail(cv[p], p) /\ At(p, "out")
           /\ cv_sleep_target' = [cv_sleep_target EXCEPT ![p] = cv[p]]
           /\ UNCHANGED <<latch, cv, proc, have_sentinel, toWake>>
  <2>1. ~ Listed(cv[p], p)
    <3>1. cv[p] \in CV /\ cv_sleep_target[p] = NULL
      BY Zenon, <1>2 DEF CVInv, CVTyped, Target
    <3>2. at[p] \notin {"setlatch", "loop"}
      BY Zenon, <1>2
    <3> QED
      BY Zenon, <3>1, <3>2, NoSentinelYet, CVAssumption DEF CVAssumption
  <2> QED
    BY Zenon, <1>2, <2>1, CVQueue DEF At
<1>3. CASE WaitForLatch(p)
  <2>1. /\ at[p] = "wait" /\ at' = [at EXCEPT ![p] = "check"]
        /\ latch' = [latch EXCEPT ![p] = FALSE]
        /\ UNCHANGED <<wakeup, cv_sleep_target, cv, proc, have_sentinel, toWake>>
    BY Zenon, <1>3 DEF WaitForLatch, At
  <2>2. /\ CVTyped' /\ Steps(p) /\ at'[p] = "check"
        /\ \A q \in Proc \ {p} : latch'[q] = latch[q]
    BY Zenon, <2>1 DEF CVInv, CVTyped, Place, Steps
  <2>3. /\ ~ have_sentinel[p] /\ toWake[p] = {}
        /\ \A d \in CV : Listed(d, p) => cv_sleep_target[p] = d
    BY Zenon, <2>1, NoSentinelYet
  <2>4. Target(p)' /\ Linked(p)' /\ Ahead(p)' /\ Reachable(p)'
    BY Zenon, <1>0, <2>1, <2>2, <2>3 DEF Target, Linked, Ahead, Reachable, Listed
  <2> QED
    BY Zenon, <2>1, <2>2, <2>4, CVQuiet
<1>4. CASE CheckList(p)
  <2>1. /\ at[p] = "check" /\ cv_sleep_target[p] = cv[p] /\ cv[p] \in CV
        /\ UNCHANGED <<cv_sleep_target, latch, cv, proc, have_sentinel, toWake>>
    BY Zenon, <1>0, <1>4 DEF CheckList, Target, CVInv, CVTyped
  <2>2. CASE ~ Listed(cv[p], p)
    <3>1. PICK l \in {"out", "cancel"} : at' = [at EXCEPT ![p] = l]
      BY Zenon, <1>4, <2>2 DEF CheckList, StillListed, At
    <3>2. PushTail(cv[p], p)
      BY Zenon, <1>4, <2>2 DEF CheckList, StillListed, Requeue
    <3>3. cv_sleep_target' = [cv_sleep_target EXCEPT ![p] = cv[p]]
      BY Zenon, <1>0, <2>1
    <3> QED
      BY Zenon, <2>1, <2>2, <3>1, <3>2, <3>3, CVQueue
  <2>3. CASE Listed(cv[p], p)
    <3>1. PICK l \in {"wait", "cancel"} : at' = [at EXCEPT ![p] = l]
      BY Zenon, <1>4, <2>3 DEF CheckList, StillListed, At
    <3>2. UNCHANGED wakeup
      BY Zenon, <1>4, <2>3 DEF CheckList, StillListed
    <3>3. CVTyped' /\ Steps(p) /\ at'[p] = l
      BY Zenon, <2>1, <3>1, <3>2 DEF CVInv, CVTyped, Place, Steps
    <3>4. /\ ~ have_sentinel[p] /\ toWake[p] = {}
          /\ \A d \in CV : Listed(d, p) => cv_sleep_target[p] = d
      BY Zenon, <2>1, NoSentinelYet
    <3>5. Target(p)' /\ Linked(p)' /\ Ahead(p)' /\ Reachable(p)'
      BY Zenon, <2>1, <2>3, <3>2, <3>3, <3>4 DEF Target, Linked, Ahead, Reachable, Listed
    <3>6. at[p] # "setlatch"
      BY Zenon, <2>1
    <3> QED
      BY Zenon, <2>1, <3>2, <3>3, <3>5, <3>6, CVQuiet
  <2> QED
    BY <2>2, <2>3
<1> QED
  BY Zenon, <1>1, <1>2, <1>3, <1>4 DEF ConditionVariablePrepareToSleep, ConditionVariableSleep

\* A latch is set: p's own, or another one after p took its owner off a list.
LEMMA CVLatches ==
    ASSUME CVInv, NEW p \in Proc, SetLatch(p) \/ OtherSetLatch(p)
    PROVE  CVInv'
<1>0. Target(p) /\ Linked(p) /\ Ahead(p) /\ Reachable(p) /\ CVTyped
  BY Zenon DEF CVInv
<1>1. CASE SetLatch(p)
  <2>1. /\ at[p] = "setlatch" /\ latch' = [q \in Proc |-> latch[q] \/ q = proc[p]]
        /\ proc' = [proc EXCEPT ![p] = NULL]
        /\ at' = [at EXCEPT ![p] = IF have_sentinel[p] THEN "loop" ELSE "out"]
        /\ UNCHANGED <<wakeup, cv_sleep_target, cv, have_sentinel, toWake>>
    BY Zenon, <1>1 DEF SetLatch, At
  <2>2. /\ Steps(p) /\ at'[p] = (IF have_sentinel[p] THEN "loop" ELSE "out")
        /\ \A q \in Proc : latch'[q] = (latch[q] \/ q = proc[p])
    BY Zenon, <1>0, <2>1 DEF CVTyped, Steps
  <2>3. CVTyped'
    <3>1. at' \in [Proc -> Place]
      BY Zenon, <1>0, <2>1 DEF CVTyped, Place
    <3>2. latch' \in [Proc -> BOOLEAN]
      BY Zenon, <1>0, <2>1 DEF CVTyped
    <3> QED
      BY Zenon, <1>0, <2>1, <3>1, <3>2 DEF CVTyped
  <2>4. Sentinel(p)' <=> Sentinel(p)
    BY Zenon, <2>1, <2>2 DEF Sentinel
  <2>5. Target(p)'
    <3>1. CASE have_sentinel[p]
      <4>1. at'[p] = "loop" /\ cv_sleep_target[p] = NULL /\ Sentinel(p)'
        BY Zenon, <1>0, <2>2, <2>4, <3>1 DEF Target
      <4> QED
        BY Zenon, <2>1, <3>1, <4>1 DEF Target
    <3>2. CASE ~ have_sentinel[p]
      <4>1. at'[p] = "out"
        BY Zenon, <2>2, <3>2
      <4> QED
        BY Zenon, <2>1, <3>2, <4>1 DEF Target
    <3> QED
      BY <3>1, <3>2
  <2>6. Linked(p)' /\ Ahead(p)'
    BY Zenon, <1>0, <2>1, <2>4 DEF Linked, Ahead, Listed
  <2>7. Reachable(p)'
    <3>1. Called(p) => latch'[p] \/ Called(p)'
      BY Zenon, <2>1, <2>2 DEF Called, Steps
    <3> QED
      BY Zenon, <1>0, <2>1, <2>2, <3>1 DEF Reachable, Listed
  <2> QED
    BY Zenon, <2>1, <2>2, <2>3, <2>5, <2>6, <2>7, CVQuiet
<1>2. CASE OtherSetLatch(p)
  <2>1. /\ at[p] = "wait" /\ latch' = [latch EXCEPT ![p] = TRUE]
        /\ UNCHANGED <<wakeup, cv_sleep_target, at, cv, proc, have_sentinel, toWake>>
    BY Zenon, <1>2 DEF OtherSetLatch
  <2>2. /\ CVTyped' /\ Steps(p) /\ latch'[p]
        /\ \A q \in Proc \ {p} : latch'[q] = latch[q]
    BY Zenon, <1>0, <2>1 DEF CVTyped, Steps
  <2>3. Target(p)' /\ Linked(p)' /\ Ahead(p)' /\ Reachable(p)'
    BY Zenon, <1>0, <2>1, <2>2 DEF Target, Linked, Ahead, Reachable, Listed, Sentinel
  <2> QED
    BY Zenon, <2>1, <2>2, <2>3, CVQuiet
<1> QED
  BY <1>1, <1>2

\* The first of the list p works on: nobody's broadcast has still to wake anybody
\* before it.
LEMMA CVFirst ==
    ASSUME CVInv, NEW c \in CV, wakeup[c] # <<>>
    PROVE  /\ Head(wakeup[c]) \in Proc /\ Listed(c, Head(wakeup[c]))
           /\ \A q \in Proc : cv[q] = c /\ q = Head(wakeup[c]) => toWake[q] = {}
<1>1. IsList(wakeup[c])
  BY Zenon DEF CVInv
<1>2. /\ Head(wakeup[c]) \in Proc /\ Head(wakeup[c]) \in Range(wakeup[c])
      /\ \A x : ~ Before(wakeup[c], x, Head(wakeup[c]))
  BY Zenon, <1>1, First
<1>3. \A q \in Proc : toWake[q] \in SUBSET Proc /\ Ahead(q)
  BY Zenon DEF CVInv, CVTyped
<1> QED
  BY Zenon, <1>2, <1>3 DEF Ahead, Listed

\* p takes the first off the list, to set its latch.
LEMMA CVPop ==
    ASSUME CVInv, NEW p \in Proc, NEW c \in CV, c = cv[p], wakeup[c] # <<>>,
           at[p] \in {"signal", "loop"}, PopHead(c), NEW x, x = Head(wakeup[c]),
           at' = [at EXCEPT ![p] = "setlatch"],
           x # p \/ at[p] = "signal" => proc' = [proc EXCEPT ![p] = x],
           proc' \in [Proc -> Proc \cup {NULL}],
           \A q \in Proc \ {p} : UNCHANGED <<proc[q], have_sentinel[q]>>,
           have_sentinel' \in [Proc -> BOOLEAN],
           have_sentinel'[p] <=> at[p] = "loop" /\ p \in Range(wakeup'[c]),
           UNCHANGED <<cv_sleep_target, latch, cv>>
    PROVE  CVInv'
<1>1. x \in Proc /\ Listed(c, x) /\ \A q \in Proc : cv[q] = c /\ q = x => toWake[q] = {}
  BY Zenon, CVFirst
<1>2. /\ wakeup' \in [CV -> Seq(Proc)] /\ toWake' \in [Proc -> SUBSET Proc]
      /\ \A d \in CV : IsList(wakeup'[d])
      /\ \A d \in CV \ {c} : wakeup'[d] = wakeup[d]
      /\ Range(wakeup'[c]) = Range(wakeup[c]) \ {x}
      /\ \A q \in Proc : \A y \in toWake'[q] :
            /\ y \in toWake[q]
            /\ q # x \/ cv[q] # c =>
                  (Before(wakeup[cv[q]], y, q) => Before(wakeup'[cv[q]], y, q))
  <2>1. Delete(c, x)
    BY Zenon DEF PopHead
  <2> QED
    BY Zenon, <1>1, <2>1, CVDelete
<1>3. /\ CVTyped' /\ Steps(p) /\ at'[p] = "setlatch"
  BY Zenon, <1>2 DEF CVInv, CVTyped, Place, Steps
<1>4. Target(p) /\ Linked(p) /\ Ahead(p) /\ Reachable(p)
  BY Zenon DEF CVInv
<1>5. \A q \in Proc : \A y \in toWake'[q] :
         y \in toWake[q] /\ (Before(wakeup[cv[q]], y, q) => Before(wakeup'[cv[q]], y, q))
  BY Zenon, <1>1, <1>2
<1>6. x # p \/ at[p] = "signal" => proc'[p] = x
  BY Zenon DEF CVInv, CVTyped
<1>7. Target(p)' /\ Linked(p)'
  <2>1. at[p] = "signal" => \A d \in CV : Listed(d, p) => cv_sleep_target[p] = d
    BY Zenon, NoSentinelYet
  <2>2. at[p] = "loop" => cv_sleep_target[p] = NULL
    BY Zenon, <1>4 DEF Target
  <2>3. \A d \in CV : p \in Range(wakeup'[d]) => Listed(d, p)
    BY Zenon, <1>2 DEF Listed
  <2>4. Target(p)'
    BY Zenon, <1>3, <2>2 DEF Target, Sentinel
  <2>5. Linked(p)'
    <3>1. CASE at[p] = "signal"
      BY Zenon, <2>1, <2>3, <3>1 DEF Linked, Listed
    <3>2. CASE at[p] = "loop"
      BY Zenon, <1>3, <1>4, <2>2, <2>3, <3>2, CVAssumption
         DEF Linked, Listed, Sentinel, CVAssumption
    <3> QED
      BY <3>1, <3>2
  <2> QED
    BY <2>4, <2>5
<1>8. Ahead(p)'
  <2>1. CASE at[p] = "signal"
    <3>1. toWake[p] = {}
      BY Zenon, <2>1, NoSentinelYet
    <3> QED
      BY Zenon, <1>2, <3>1 DEF Ahead
  <2>2. CASE at[p] = "loop"
    <3>1. ASSUME NEW y \in toWake'[p]
          PROVE  Before(wakeup'[c], y, p)
      BY Zenon, <1>4, <1>5, <3>1 DEF Ahead
    <3>2. \A y : Before(wakeup'[c], y, p) => p \in Range(wakeup'[c])
      <4>1. wakeup'[c] \in Seq(Proc)
        BY Zenon, <1>2
      <4> QED
        BY SMTT(40), Z3T(40), <4>1 DEF Before, Range
    <3> QED
      BY Zenon, <1>3, <2>2, <3>1, <3>2 DEF Ahead, Sentinel
  <2> QED
    BY <2>1, <2>2
<1>9. Reachable(p)'
  <2>1. CASE at[p] = "loop"
    BY Zenon, <1>4, <2>1 DEF Target, Reachable
  <2>2. CASE at[p] = "signal"
    <3>1. Called(p) => Called(p)'
      BY Zenon, <1>3, <2>2 DEF Called, Steps
    <3>2. x = p => Called(p)'
      BY Zenon, <1>3, <1>6, <2>2 DEF Called
    <3>3. ASSUME NEW d \in CV, Listed(d, p), x # p
          PROVE  p \in Range(wakeup'[d])
      BY Zenon, <1>2, <3>3 DEF Listed
    <3>4. cv_sleep_target[p] \in CV \cup {NULL}
      BY Zenon DEF CVInv, CVTyped
    <3> QED
      BY Zenon, <1>4, <2>2, <3>1, <3>2, <3>3, <3>4 DEF Reachable, Listed
  <2> QED
    BY <2>1, <2>2
<1>10. \A q \in Proc \ {p} : \A d \in CV :
          /\ q \in Range(wakeup'[d]) => Listed(d, q)
          /\ Listed(d, q) => \/ q \in Range(wakeup'[d])
                             \/ at'[p] = "setlatch" /\ proc'[p] = q
  BY Zenon, <1>2, <1>3, <1>6 DEF Listed
<1>11. at[p] # "setlatch"
  BY Zenon
<1> QED
  BY Zenon, <1>2, <1>3, <1>5, <1>7, <1>8, <1>9, <1>10, <1>11, CVAssemble

\* ConditionVariableSignal and ConditionVariableBroadcast, up to SetLatch.
LEMMA CVWakes ==
    ASSUME CVInv, NEW p \in Proc, TakeFirst(p) \/ BroadcastLoop(p)
    PROVE  CVInv'
<1>0. /\ Target(p) /\ Linked(p) /\ Ahead(p) /\ Reachable(p) /\ CVTyped /\ cv[p] \in CV
      /\ wakeup[cv[p]] \in Seq(Proc) /\ toWake[p] \in SUBSET Proc
  BY Zenon DEF CVInv, CVTyped
<1>1. PICK c \in CV : c = cv[p]
  BY Zenon, <1>0
<1>2. PICK x : x = Head(wakeup[c])
  OBVIOUS
<1>3. CASE TakeFirst(p) /\ wakeup[c] = <<>>
  <2>1. /\ at[p] = "signal" /\ at' = [at EXCEPT ![p] = "out"]
        /\ UNCHANGED <<wakeup, proc, toWake, cv_sleep_target, latch, cv, have_sentinel>>
    BY Zenon, <1>1, <1>3 DEF TakeFirst, At
  <2>2. CVTyped' /\ Steps(p) /\ at'[p] = "out"
    BY Zenon, <1>0, <2>1 DEF CVTyped, Place, Steps
  <2>3. /\ ~ have_sentinel[p] /\ toWake[p] = {}
        /\ \A d \in CV : Listed(d, p) => cv_sleep_target[p] = d
    BY Zenon, <2>1, NoSentinelYet
  <2>4. Called(p) => Called(p)'
    BY Zenon, <2>1, <2>2 DEF Called, Steps
  <2>5. Target(p)' /\ Linked(p)' /\ Ahead(p)' /\ Reachable(p)'
    BY Zenon, <1>0, <2>1, <2>2, <2>3, <2>4 DEF Target, Linked, Ahead, Reachable, Listed
  <2> QED
    BY Zenon, <2>1, <2>2, <2>5, CVQuiet
<1>4. CASE TakeFirst(p) /\ wakeup[c] # <<>>
  <2>1. /\ at[p] = "signal" /\ at' = [at EXCEPT ![p] = "setlatch"] /\ PopHead(c)
        /\ proc' = [proc EXCEPT ![p] = x]
        /\ UNCHANGED <<cv_sleep_target, latch, cv, have_sentinel>>
    BY Zenon, <1>1, <1>2, <1>4 DEF TakeFirst, At
  <2>2. x \in Proc /\ ~ have_sentinel[p]
    BY Zenon, <1>2, <1>4, <2>1, CVFirst, NoSentinelYet
  <2>3. /\ proc' \in [Proc -> Proc \cup {NULL}]
        /\ \A q \in Proc \ {p} : UNCHANGED <<proc[q], have_sentinel[q]>>
        /\ have_sentinel' \in [Proc -> BOOLEAN] /\ ~ have_sentinel'[p]
    BY Zenon, <1>0, <2>1, <2>2 DEF CVTyped
  <2>4. at[p] # "loop"
    BY Zenon, <2>1
  <2> QED
    BY Zenon, <1>1, <1>2, <1>4, <2>1, <2>3, <2>4, CVPop
<1>5. CASE BroadcastLoop(p) /\ wakeup[c] = <<>>
  <2>1. /\ at[p] = "loop" /\ at' = [at EXCEPT ![p] = "setlatch"]
        /\ UNCHANGED <<wakeup, proc, toWake, cv_sleep_target, latch, cv>>
        /\ have_sentinel' = [have_sentinel EXCEPT ![p] = p \in Range(wakeup[cv[p]])]
    BY Zenon, <1>1, <1>5 DEF BroadcastLoop, At
  <2>2. p \notin Range(wakeup[cv[p]]) /\ \A y : ~ Before(wakeup[cv[p]], y, p)
    BY SMTT(40), Z3T(40), <1>1, <1>5 DEF Range, Before
  <2>3. /\ CVTyped' /\ Steps(p) /\ at'[p] = "setlatch" /\ ~ have_sentinel'[p]
        /\ cv_sleep_target[p] = NULL
    <3>1. at'[p] = "setlatch" /\ at' \in [Proc -> Place] /\ cv_sleep_target[p] = NULL
      BY Zenon, <1>0, <2>1 DEF CVTyped, Place, Target
    <3>2. have_sentinel' \in [Proc -> BOOLEAN] /\ have_sentinel'[p] = (p \in Range(wakeup[cv[p]]))
      BY SMTT(40), Z3T(40), <1>0, <2>1 DEF CVTyped
    <3>3. ~ have_sentinel'[p]
      BY Zenon, <2>2, <3>2
    <3>4. Steps(p)
      BY Zenon, <1>0, <2>1 DEF CVTyped, Steps
    <3>5. CVTyped'
      BY Zenon, <1>0, <2>1, <3>1, <3>2 DEF CVTyped
    <3> QED
      BY <3>1, <3>3, <3>4, <3>5
  <2>4. \A d \in CV : ~ Listed(d, p)
    BY Zenon, <1>0, <2>2, <2>3, CVAssumption DEF Linked, Listed, CVAssumption
  <2>5. toWake[p] = {}
    BY Zenon, <1>0, <2>2 DEF Ahead
  <2>6. Target(p)' /\ Linked(p)' /\ Ahead(p)' /\ Reachable(p)'
    BY Zenon, <2>1, <2>3, <2>4, <2>5 DEF Target, Linked, Ahead, Reachable, Listed
  <2> QED
    BY Zenon, <2>1, <2>3, <2>6, CVQuiet
<1>6. CASE BroadcastLoop(p) /\ wakeup[c] # <<>>
  <2>1. /\ at[p] = "loop" /\ at' = [at EXCEPT ![p] = "setlatch"] /\ PopHead(c)
        /\ proc' = [proc EXCEPT ![p] = IF x = p THEN NULL ELSE x]
        /\ have_sentinel' = [have_sentinel EXCEPT ![p] = p \in Range(wakeup'[c])]
        /\ UNCHANGED <<cv_sleep_target, latch, cv>>
    BY Zenon, <1>1, <1>2, <1>6 DEF BroadcastLoop, At
  <2>2. x \in Proc /\ (x # p => proc' = [proc EXCEPT ![p] = x])
    BY Zenon, <1>2, <1>6, <2>1, CVFirst
  <2>3. /\ proc' \in [Proc -> Proc \cup {NULL}]
        /\ \A q \in Proc \ {p} : UNCHANGED <<proc[q], have_sentinel[q]>>
        /\ have_sentinel' \in [Proc -> BOOLEAN]
        /\ have_sentinel'[p] <=> p \in Range(wakeup'[c])
    <3>1. /\ proc \in [Proc -> Proc \cup {NULL}] /\ have_sentinel \in [Proc -> BOOLEAN]
          /\ (IF x = p THEN NULL ELSE x) \in Proc \cup {NULL}
      BY Zenon, <1>0, <2>2 DEF CVTyped
    <3>2. proc' \in [Proc -> Proc \cup {NULL}] /\ \A q \in Proc \ {p} : proc'[q] = proc[q]
      BY Zenon, <2>1, <3>1
    <3>3. /\ have_sentinel' \in [Proc -> BOOLEAN]
          /\ have_sentinel'[p] = (p \in Range(wakeup'[c]))
          /\ \A q \in Proc \ {p} : have_sentinel'[q] = have_sentinel[q]
      BY SMTT(40), Z3T(40), <2>1, <3>1
    <3> QED
      BY Zenon, <3>2, <3>3
  <2>4. at[p] # "signal"
    BY Zenon, <2>1
  <2> QED
    BY Zenon, <1>1, <1>2, <1>6, <2>1, <2>2, <2>3, <2>4, CVPop
<1> QED
  BY <1>3, <1>4, <1>5, <1>6

\* The first look of a broadcast at the list.
LEMMA CVSentinel ==
    ASSUME CVInv, NEW p \in Proc, PlaceSentinel(p)
    PROVE  CVInv'
<1>0. /\ Target(p) /\ Linked(p) /\ Ahead(p) /\ Reachable(p) /\ CVTyped /\ cv[p] \in CV
      /\ at[p] = "sentinel" /\ cv_sleep_target[p] = NULL
  BY Zenon DEF CVInv, CVTyped, PlaceSentinel, Target
<1>1. PICK c \in CV : c = cv[p]
  BY Zenon, <1>0
<1>2. PICK w, r, x : w = wakeup[c] /\ r = Tail(w) /\ x = Head(w)
  OBVIOUS
<1>3. ~ have_sentinel[p] /\ toWake[p] = {} /\ \A d \in CV : ~ Listed(d, p)
  BY Zenon, <1>0, NoSentinelYet, CVAssumption DEF CVAssumption
<1>4. CASE w = <<>>
  <2>1. /\ at' = [at EXCEPT ![p] = "out"]
        /\ UNCHANGED <<wakeup, proc, toWake, cv_sleep_target, latch, cv, have_sentinel>>
    BY Zenon, <1>1, <1>2, <1>4 DEF PlaceSentinel, At
  <2>2. CVTyped' /\ Steps(p) /\ at'[p] = "out"
    BY Zenon, <1>0, <2>1 DEF CVTyped, Place, Steps
  <2>3. Target(p)' /\ Linked(p)' /\ Ahead(p)' /\ Reachable(p)'
    BY Zenon, <1>0, <1>3, <2>1, <2>2 DEF Target, Linked, Ahead, Reachable, Listed
  <2>4. at[p] # "setlatch"
    BY Zenon, <1>0
  <2> QED
    BY Zenon, <2>1, <2>2, <2>3, <2>4, CVQuiet
<1>5. CASE w # <<>>
  <2> DEFINE s == IF r # <<>> THEN Append(r, p) ELSE r
  <2>1. /\ at' = [at EXCEPT ![p] = "setlatch"] /\ proc' = [proc EXCEPT ![p] = x]
        /\ have_sentinel' = [have_sentinel EXCEPT ![p] = (r # <<>>)]
        /\ wakeup' = [wakeup EXCEPT ![c] = s]
        /\ toWake' = [q \in Proc |-> IF q = p THEN Range(r)
                                     ELSE IF cv[q] = c THEN toWake[q] \ {x} ELSE toWake[q]]
        /\ UNCHANGED <<cv_sleep_target, latch, cv>>
    BY Zenon, <1>1, <1>2, <1>5 DEF PlaceSentinel, At, NeedsSentinel
  <2>2. /\ x \in Proc /\ x \in Range(w) /\ r = Without(w, x) /\ IsList(w)
        /\ \A q \in Proc : cv[q] = c /\ q = x => toWake[q] = {}
    BY Zenon, <1>2, <1>5, First, CVFirst DEF CVInv
  <2>3. /\ IsList(r) /\ Range(r) = Range(w) \ {x}
        /\ \A y, z : y # x /\ z # x /\ Before(w, y, z) => Before(r, y, z)
    BY Zenon, <2>2, Removing
  <2>4. /\ IsList(s) /\ Range(s) = (IF r # <<>> THEN Range(r) \cup {p} ELSE Range(r))
        /\ \A y, z : Before(r, y, z) => Before(s, y, z)
        /\ r # <<>> => \A y \in Range(r) : Before(s, y, p)
    <3>1. p \notin Range(r)
      BY Zenon, <1>1, <1>2, <1>3, <2>3 DEF Listed
    <3> QED
      BY Zenon, <2>3, <3>1, Appending
  <2>5. r = <<>> => Range(r) = {}
    BY SMTT(40), Z3T(40) DEF Range
  <2> HIDE DEF s
  <2>6. wakeup'[c] = s /\ \A d \in CV \ {c} : wakeup'[d] = wakeup[d]
    BY Zenon, <1>0, <2>1 DEF CVTyped
  <2>7. /\ Steps(p) /\ at'[p] = "setlatch" /\ proc'[p] = x /\ have_sentinel'[p] = (r # <<>>)
        /\ toWake'[p] = Range(r)
    BY Zenon, <1>0, <2>1 DEF CVTyped, Steps
  <2>8. CVTyped'
    <3>1. wakeup' \in [CV -> Seq(Proc)]
      BY Zenon, <1>0, <2>1, <2>4 DEF CVTyped, IsList
    <3>2. Range(w) \in SUBSET Proc
      <4>1. w \in Seq(Proc)
        BY Zenon, <2>2 DEF IsList
      <4> QED
        BY SMTT(40), Z3T(40), <4>1 DEF Range
    <3>3. toWake' \in [Proc -> SUBSET Proc]
      BY Zenon, <1>0, <2>1, <2>3, <3>2 DEF CVTyped
    <3> QED
      BY Zenon, <1>0, <2>1, <2>2, <3>1, <3>3 DEF CVTyped, Place
  <2>9. Target(p)' /\ Reachable(p)'
    BY Zenon, <1>0, <2>1, <2>7 DEF Target, Reachable, Sentinel
  <2>10. Linked(p)'
    <3>1. \A d \in CV : p \in Range(wakeup'[d]) => d = c /\ r # <<>>
      BY Zenon, <1>1, <1>2, <1>3, <2>3, <2>4, <2>6 DEF Listed
    <3> QED
      BY Zenon, <1>1, <2>1, <2>7, <3>1 DEF Linked, Listed, Sentinel
  <2>11. Ahead(p)'
    BY Zenon, <1>1, <2>1, <2>4, <2>5, <2>6, <2>7 DEF Ahead, Sentinel
  <2>12. \A q \in Proc \ {p} : \A d \in CV :
            /\ q \in Range(wakeup'[d]) => Listed(d, q)
            /\ Listed(d, q) => \/ q \in Range(wakeup'[d])
                               \/ at'[p] = "setlatch" /\ proc'[p] = q
    BY Zenon, <1>2, <2>3, <2>4, <2>6, <2>7 DEF Listed
  <2>13. ASSUME NEW q \in Proc \ {p}, NEW y \in toWake'[q]
         PROVE  /\ y \in toWake[q]
                /\ Before(wakeup[cv[q]], y, q) => Before(wakeup'[cv[q]], y, q)
    <3>1. y \in toWake[q] /\ (cv[q] = c => y # x) /\ cv[q] \in CV
      BY Zenon, <1>0, <2>1, <2>13 DEF CVTyped
    <3>2. cv[q] = c => q # x
      BY Zenon, <2>2, <3>1
    <3> QED
      BY Zenon, <1>2, <2>3, <2>4, <2>6, <3>1, <3>2
  <2>14. at[p] # "setlatch" /\ \A d \in CV : IsList(wakeup'[d])
    BY Zenon, <1>0, <2>4, <2>6 DEF CVInv
  <2> QED
    BY Zenon, <2>1, <2>7, <2>8, <2>9, <2>10, <2>11, <2>12, <2>13, <2>14, CVAssemble
<1> QED
  BY <1>4, <1>5

\* A step of condition_variable.c, for any use that is made of it.
LEMMA CVStepKeeps ==
    ASSUME CVInv, NEW p \in Proc, CVStep(p) \/ OtherSetLatch(p)
    PROVE  CVInv'
<1>1. CASE ConditionVariableCancelSleep(p) \/ StartBroadcast(p)
  BY Zenon, <1>1, CVCancel DEF ConditionVariableCancelSleep, StartBroadcast
<1> QED
  BY Zenon, <1>1, CVSleeps, CVLatches, CVWakes, CVSentinel
     DEF CVStep, ConditionVariableSignal, ConditionVariableBroadcast

\* At first the lists are empty and nobody is in a function of theirs.
LEMMA CVInitially == Init => CVInv
<1> SUFFICES ASSUME Init PROVE CVInv
  OBVIOUS
<1>1. (CHOOSE c \in CV : TRUE) \in CV
  BY Zenon, CVAssumption DEF CVAssumption
<1>2. IsList(<<>>) /\ Range(<<>>) = {}
  BY SMTT(40), Z3T(40) DEF IsList, Range
<1>3. CVTyped
  BY Zenon, <1>1, <1>2 DEF Init, CVInit, CVTyped, Place, IsList
<1>4. /\ \A c \in CV : wakeup[c] = <<>>
      /\ \A p \in Proc : /\ at[p] = "out" /\ cv_sleep_target[p] = NULL /\ ~ have_sentinel[p]
                         /\ toWake[p] = {}
  BY Zenon DEF Init, CVInit
<1>5. \A c \in CV : IsList(wakeup[c]) /\ \A p \in Proc : ~ Listed(c, p)
  BY Zenon, <1>2, <1>4 DEF Listed
<1> QED
  BY Zenon, <1>3, <1>4, <1>5 DEF CVInv, Target, Linked, Ahead, Reachable

\* The barrier calls only what the condition variable allows.
LEMMA CVKept == CVInv /\ [Next]_vars => CVInv'
<1> SUFFICES ASSUME CVInv, [Next]_vars PROVE CVInv'
  OBVIOUS
<1>0. condition_variable \in CV
  BY Zenon, CVAssumption DEF CVAssumption, condition_variable
<1>1. ASSUME UNCHANGED cvVars
      PROVE  CVInv'
  <2>1. /\ CVTyped' /\ \A c \in CV : IsList(wakeup'[c])
        /\ \A p \in Proc : Sentinel(p)' <=> Sentinel(p)
        /\ \A p \in Proc : Called(p)' <=> Called(p)
    BY Zenon, <1>1 DEF cvVars, CVInv, CVTyped, Sentinel, Called
  <2>2. \A p \in Proc : Target(p)' /\ Linked(p)' /\ Ahead(p)' /\ Reachable(p)'
    BY Zenon, <1>1, <2>1 DEF cvVars, CVInv, Target, Linked, Ahead, Reachable, Listed
  <2> QED
    BY Zenon, <2>1, <2>2 DEF CVInv
<1>2. ASSUME NEW p \in Proc, NEW f \in {"prepare", "cancel", "broadcast"},
             Call(p, f, condition_variable)
      PROVE  CVInv'
  <2>1. PICK c \in CV : c = condition_variable
    BY Zenon, <1>0
  <2> QED
    BY Zenon, <1>2, <2>1, CVCall
<1>3. ASSUME NEW p \in Proc, CallSleep(p, condition_variable)
      PROVE  CVInv'
  <2>1. PICK c \in CV : c = condition_variable
    BY Zenon, <1>0
  <2> QED
    BY Zenon, <1>3, <2>1, CVCallSleep
<1>4. CASE UNCHANGED vars
  BY Zenon, <1>1, <1>4 DEF vars
<1>5. ASSUME NEW p \in Proc
      PROVE  /\ BarrierAttach(p) \/ BarrierArriveAndDetachExceptLast(p) => CVInv'
             /\ ReturnFromWait(p) \/ ReturnFromDetach(p) => CVInv'
  BY Zenon, <1>1 DEF BarrierAttach, BarrierArriveAndDetachExceptLast, ReturnFromWait,
     ReturnFromDetach
<1>6. ASSUME NEW p \in Proc, BarrierArriveAndWait(p) \/ TestPhase(p) \/
             (\E arrive \in BOOLEAN : BarrierDetachImpl(p, arrive))
      PROVE  CVInv'
  BY Zenon, <1>1, <1>2, <1>3, <1>6 DEF BarrierArriveAndWait, TestPhase, BarrierDetachImpl, WakeAll
<1> QED
  BY Zenon, <1>4, <1>5, <1>6, CVStepKeeps DEF Next, Proceed

\* Whoever sleeps on the condition variable of the barrier is on its list, or has been
\* taken off and will have its latch set: no wakeup falls between the test of the
\* list and the sleep.
THEOREM NoWakeupIsMissed == Spec => []NoWakeupMissed
<1>1. CVInv => NoWakeupMissed
  <2> SUFFICES ASSUME CVInv, NEW p \in Proc, at[p] = "wait", ~ latch[p]
               PROVE  Listed(cv[p], p) \/ \E q \in Proc \ {p} : at[q] = "setlatch" /\ proc[q] = p
    BY Zenon DEF NoWakeupMissed
  <2>1. cv_sleep_target[p] = cv[p] /\ cv[p] # NULL
    <3>1. Target(p) /\ cv[p] \in CV /\ NULL \notin CV
      BY Zenon, CVAssumption DEF CVInv, CVTyped, CVAssumption
    <3> QED
      BY Zenon, <3>1 DEF Target
  <2> QED
    BY Zenon, <2>1 DEF CVInv, Reachable, Called
<1> QED
  BY <1>1, CVInitially, CVKept, PTL DEF Spec

\* When ConditionVariableBroadcast returns, whoever was on the list when it first
\* looked has left it, woken by the broadcast or by somebody else.
THEOREM BroadcastReaches == Spec => []BroadcastReachesAll
<1>1. CVInv => BroadcastReachesAll
  BY Zenon, NoSentinelYet DEF BroadcastReachesAll
<1> QED
  BY <1>1, CVInitially, CVKept, PTL DEF Spec

=============================================================================
