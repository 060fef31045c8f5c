------------------------------- MODULE Phaser -------------------------------
(***************************************************************************)
(* What a barrier promises, without counters, locks or sleeping: a phase   *)
(* lasts until every member waits for its end, where members join and      *)
(* leave at any time.                                                      *)
(***************************************************************************)
EXTENDS Integers

CONSTANT Proc

VARIABLES
    phase,
    members,
    awaits      \* the phase whose end a process waits for, or NoPhase

NoPhase == -1

Init ==
    /\ phase = 0
    /\ members \in {{}, Proc}
    /\ awaits = [p \in Proc |-> NoPhase]

Free(p) == p \in members /\ awaits[p] = NoPhase

\* All of S wait for the end of the phase.
AllAwait(S) == \A q \in S : awaits[q] = phase

Join(p) ==
    /\ p \notin members /\ awaits[p] = NoPhase
    /\ members' = members \cup {p}
    /\ UNCHANGED <<phase, awaits>>

Arrive(p) ==
    /\ Free(p)
    /\ awaits' = [awaits EXCEPT ![p] = phase]
    /\ phase' = IF AllAwait(members \ {p}) THEN phase + 1 ELSE phase
    /\ UNCHANGED members

Leave(p, arrives) ==
    /\ Free(p)
    /\ members' = members \ {p}
    /\ phase' = IF (arrives \/ members' # {}) /\ AllAwait(members')
                THEN phase + 1 ELSE phase
    /\ UNCHANGED awaits

\* In a phase for whose end nobody waits, all may leave but for the last, who
\* starts the next phase.
LeaveUnlessLast(p) ==
    /\ Free(p) /\ \A q \in members : awaits[q] # phase
    /\ IF members = {p}
       THEN phase' = phase + 1 /\ UNCHANGED members
       ELSE members' = members \ {p} /\ UNCHANGED phase
    /\ UNCHANGED awaits

Return(p) ==
    /\ awaits[p] # NoPhase /\ awaits[p] < phase
    /\ awaits' = [awaits EXCEPT ![p] = NoPhase]
    /\ UNCHANGED <<phase, members>>

Next ==
    \E p \in Proc :
        \/ Join(p) \/ Arrive(p) \/ LeaveUnlessLast(p) \/ Return(p)
        \/ \E arrives \in BOOLEAN : Leave(p, arrives)

Spec == Init /\ [][Next]_<<phase, members, awaits>>

=============================================================================
