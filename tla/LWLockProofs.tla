---------------------------- MODULE LWLockProofs ----------------------------
(***************************************************************************)
(* Proofs about LWLock, for any finite set of processes: mutual exclusion, *)
(* the exclusive use of the wait list, that the lock implements RWLock,    *)
(* that the lists never share a process, that no signal, no wakeup and no  *)
(* change of the variable is lost.                                         *)
(***************************************************************************)
EXTENDS LWLock, FiniteSetTheorems, TLAPS

Held == {"none", "shared", "exclusive"}

\* Places a process passes only while it does not have the lock, and only while
\* it has it exclusively.
Seeking == {"attempt", "reattempt", "check", "recheck", "read", "read_in", "reread",
            "reread_in", "queue", "queue_flag", "queue_in", "queued", "retry", "sleep"}
Holding == {"update", "update_in", "clear", "clear_in", "release"}

\* The types that the argument needs.
Scalars ==
    /\ exclusive \in Nat /\ shared \in Nat
    /\ locked \in BOOLEAN
    /\ pc \in [Proc -> Location]
    /\ mode \in [Proc -> {"shared", "exclusive"}]
    /\ own \in [Proc -> Held]

Placed ==
    \A p \in Proc : /\ pc[p] \in Seeking => own[p] = "none"
                    /\ pc[p] \in Holding => own[p] = "exclusive"

\* The inductive invariant of mutual exclusion.  Placed is what makes it
\* inductive: a process that attempts the lock does not have it yet.
LockInv == Scalars /\ Placed /\ MutualExclusion

Holders(f, m) == {p \in Proc : f[p] = m}

-----------------------------------------------------------------------------
\* The holders in a mode can be counted.
LEMMA HoldersFinite ==
    ASSUME NEW f, NEW m
    PROVE  IsFiniteSet(Holders(f, m)) /\ Cardinality(Holders(f, m)) \in Nat
<1>1. Holders(f, m) \in SUBSET Proc
  BY Zenon DEF Holders
<1>2. IsFiniteSet(Holders(f, m))
  BY Zenon, <1>1, LWLockAssumption, FS_Subset DEF LWLockAssumption
<1> QED
  BY <1>2, FS_CardinalityType

\* Granting the lock to a process without it adds one holder of that mode.
LEMMA HoldersGrant ==
    ASSUME NEW f \in [Proc -> Held], NEW p \in Proc, f[p] = "none",
           NEW m \in {"shared", "exclusive"}, NEW k \in {"shared", "exclusive"}
    PROVE  Cardinality(Holders([f EXCEPT ![p] = m], k)) =
             IF k = m THEN Cardinality(Holders(f, k)) + 1 ELSE Cardinality(Holders(f, k))
<1>1. CASE k = m
  <2>1. Holders([f EXCEPT ![p] = m], k) = Holders(f, k) \cup {p}
    BY Zenon, <1>1 DEF Holders, Held
  <2>2. p \notin Holders(f, k)
    BY Zenon DEF Holders
  <2> QED
    BY Zenon, <1>1, <2>1, <2>2, HoldersFinite, FS_AddElement
<1>2. CASE k # m
  <2>1. Holders([f EXCEPT ![p] = m], k) = Holders(f, k)
    BY Zenon, <1>2 DEF Holders, Held
  <2> QED
    BY <1>2, <2>1
<1> QED
  BY <1>1, <1>2

\* Giving it up removes the process from the holders of its mode.
LEMMA HoldersRelease ==
    ASSUME NEW f \in [Proc -> Held], NEW p \in Proc, NEW k \in {"shared", "exclusive"}
    PROVE  Cardinality(Holders([f EXCEPT ![p] = "none"], k)) =
             IF f[p] = k THEN Cardinality(Holders(f, k)) - 1 ELSE Cardinality(Holders(f, k))
<1>1. Holders([f EXCEPT ![p] = "none"], k) = Holders(f, k) \ {p}
  BY Zenon DEF Holders, Held
<1>2. p \in Holders(f, k) <=> f[p] = k
  BY Zenon DEF Holders
<1> QED
  BY ZenonT(40), <1>1, <1>2, HoldersFinite, FS_RemoveElement

\* Owners, as a function of who owns what.
LEMMA OwnersAreHolders == ASSUME NEW m PROVE Owners(m) = Holders(own, m)
  BY Zenon DEF Owners, Holders

\* The same, after a step.
LEMMA OwnersAreHoldersNext == ASSUME NEW m PROVE Owners(m)' = Holders(own', m)
  BY Zenon DEF Owners, Holders

-----------------------------------------------------------------------------
(* What a step does to the lock word and to its owners. *)

\* LWLockAttemptLock() that succeeds counts the new holder, who is alone if exclusive.
LEMMA GrantKeepsCounts ==
    ASSUME Scalars, MutualExclusion, NEW p \in Proc, NEW m \in {"shared", "exclusive"},
           own[p] = "none", CanLock(m), Grant(p, m)
    PROVE  MutualExclusion' /\ exclusive' \in Nat /\ shared' \in Nat /\ own' \in [Proc -> Held]
<1>1. own \in [Proc -> Held] /\ own' = [own EXCEPT ![p] = m]
  BY Zenon DEF Scalars, Grant
<1>2. Cardinality(Holders(own', "exclusive")) =
        IF m = "exclusive" THEN exclusive + 1 ELSE exclusive
  BY Zenon, <1>1, HoldersGrant, OwnersAreHolders DEF MutualExclusion
<1>3. Cardinality(Holders(own', "shared")) = IF m = "shared" THEN shared + 1 ELSE shared
  BY Zenon, <1>1, HoldersGrant, OwnersAreHolders DEF MutualExclusion
<1>4. exclusive' = Cardinality(Owners("exclusive")') /\ shared' = Cardinality(Owners("shared")')
  BY Zenon, <1>2, <1>3, OwnersAreHoldersNext DEF Grant
<1>5. own' \in [Proc -> Held]
  BY Zenon, <1>1 DEF Held
<1> QED
  BY SMTT(40), Z3T(40), <1>4, <1>5 DEF MutualExclusion, Grant, CanLock, Scalars

\* LWLockRelease() takes its holder off the count.
LEMMA ReleaseKeepsCounts ==
    ASSUME Scalars, MutualExclusion, NEW p \in Proc, own[p] # "none",
           Unhold(p), own' = [own EXCEPT ![p] = "none"]
    PROVE  MutualExclusion' /\ exclusive' \in Nat /\ shared' \in Nat /\ own' \in [Proc -> Held]
<1>1. own \in [Proc -> Held] /\ own[p] \in {"shared", "exclusive"}
  BY Zenon DEF Scalars, Held
<1>2. Cardinality(Holders(own', "exclusive")) =
        IF own[p] = "exclusive" THEN exclusive - 1 ELSE exclusive
  BY Zenon, <1>1, HoldersRelease, OwnersAreHolders DEF MutualExclusion
<1>3. Cardinality(Holders(own', "shared")) = IF own[p] = "shared" THEN shared - 1 ELSE shared
  BY Zenon, <1>1, HoldersRelease, OwnersAreHolders DEF MutualExclusion
<1>4. exclusive' = Cardinality(Owners("exclusive")') /\ shared' = Cardinality(Owners("shared")')
  BY Zenon, <1>2, <1>3, OwnersAreHoldersNext DEF Unhold
<1>5. exclusive' \in Nat /\ shared' \in Nat
  BY <1>2, <1>3, <1>4, HoldersFinite, OwnersAreHoldersNext
<1>6. own' \in [Proc -> Held]
  BY Zenon, <1>1 DEF Held
<1> QED
  BY SMTT(40), Z3T(40), <1>4, <1>5, <1>6 DEF MutualExclusion, Unhold, Scalars

\* A step that leaves the counts and the owners alone.
LEMMA OthersKeepCounts ==
    ASSUME Scalars, MutualExclusion, UNCHANGED <<exclusive, shared, own>>
    PROVE  MutualExclusion' /\ exclusive' \in Nat /\ shared' \in Nat /\ own' \in [Proc -> Held]
  BY Zenon DEF Scalars, MutualExclusion, Owners

-----------------------------------------------------------------------------
(* LockInv is inductive. *)

\* The lock starts free.
LEMMA LockInit == Init => LockInv
<1> SUFFICES ASSUME Init PROVE LockInv
  OBVIOUS
<1>1. Scalars /\ Placed
  BY Zenon DEF Init, Scalars, Placed, Seeking, Holding, Location, Held
<1>2. Owners("exclusive") = {} /\ Owners("shared") = {}
  BY Zenon DEF Init, Owners
<1>3. Cardinality({}) = 0
  BY FS_EmptySet
<1>4. exclusive = 0 /\ shared = 0
  BY Zenon DEF Init
<1>5. MutualExclusion
  BY SMTT(40), Z3T(40), <1>2, <1>3, <1>4 DEF MutualExclusion
<1> QED
  BY Zenon, <1>1, <1>5 DEF LockInv

\* A process that moves without touching the lock word's counts keeps LockInv,
\* if it may be where it goes.
LEMMA MoveKeeps ==
    ASSUME LockInv, NEW p \in Proc, NEW l \in Location, pc' = [pc EXCEPT ![p] = l],
           UNCHANGED <<exclusive, shared, own>>,
           mode' \in [Proc -> {"shared", "exclusive"}], locked' \in BOOLEAN,
           l \in Seeking => own[p] = "none", l \in Holding => own[p] = "exclusive"
    PROVE  LockInv'
<1>1. MutualExclusion' /\ exclusive' \in Nat /\ shared' \in Nat /\ own' \in [Proc -> Held]
  BY Zenon, OthersKeepCounts DEF LockInv
<1>2. Scalars'
  BY Zenon, <1>1 DEF LockInv, Scalars
<1>3. Placed'
  BY Zenon DEF LockInv, Scalars, Placed
<1> QED
  BY Zenon, <1>1, <1>2, <1>3 DEF LockInv

\* The same for a process that is granted the lock, or gives it up.
LEMMA OwnershipKeeps ==
    ASSUME LockInv, NEW p \in Proc, NEW l \in Location, pc' = [pc EXCEPT ![p] = l],
           MutualExclusion', exclusive' \in Nat, shared' \in Nat, own' \in [Proc -> Held],
           NEW m, own' = [own EXCEPT ![p] = m],
           UNCHANGED mode, locked' \in BOOLEAN, l \notin Seeking, l \notin Holding
    PROVE  LockInv'
<1>1. Scalars'
  BY Zenon DEF LockInv, Scalars
<1>2. Placed'
  BY Zenon DEF LockInv, Scalars, Placed
<1> QED
  BY Zenon, <1>1, <1>2 DEF LockInv

\* A call that starts.
LEMMA StartKeeps ==
    ASSUME LockInv, NEW p \in Proc, NEW c, NEW l \in {"attempt", "check"},
           NEW m \in {"shared", "exclusive"}, NEW v, Start(p, c, l, m, v)
    PROVE  LockInv'
<1>1. mode' \in [Proc -> {"shared", "exclusive"}] /\ locked' \in BOOLEAN
  BY Zenon DEF Start, LockInv, Scalars, state
<1> QED
  BY Zenon, <1>1, MoveKeeps DEF Start, Goto, state, Location, Seeking, Holding

\* LWLockAttemptLock().
LEMMA AttemptKeeps ==
    ASSUME LockInv, NEW p \in Proc, AttemptLock(p)
    PROVE  LockInv'
<1> USE DEF LockInv
<1>1. /\ own[p] = "none" /\ mode[p] \in {"shared", "exclusive"}
      /\ UNCHANGED mode
  BY Zenon DEF AttemptLock, Placed, Scalars, Seeking, args
<1>2. CASE CanLock(mode[p]) /\ Grant(p, mode[p])
  <2>1. MutualExclusion' /\ exclusive' \in Nat /\ shared' \in Nat /\ own' \in [Proc -> Held]
    BY <1>1, <1>2, GrantKeepsCounts
  <2>2. \E l \in {"idle", "dequeue"} : pc' = [pc EXCEPT ![p] = l]
    BY Zenon, <1>2 DEF AttemptLock, Return, GoOn, Goto
  <2>3. own' = [own EXCEPT ![p] = mode[p]] /\ locked' \in BOOLEAN
    BY Zenon, <1>2 DEF Grant, flags, Scalars
  <2>4. PICK l \in {"idle", "dequeue"} : pc' = [pc EXCEPT ![p] = l]
    BY Zenon, <2>2
  <2>5. l \in Location /\ l \notin Seeking /\ l \notin Holding
    BY Zenon DEF Location, Entries, Seeking, Holding
  <2> QED
    BY Zenon, <1>1, <2>1, <2>3, <2>4, <2>5, OwnershipKeeps
<1>3. CASE /\ ~CanLock(mode[p]) /\ UNCHANGED <<state, own>>
           /\ GoOn(p, IF pc[p] = "attempt" THEN "queue" ELSE "sleep")
  <2>1. PICK l \in {"queue", "sleep"} : pc' = [pc EXCEPT ![p] = l]
    BY Zenon, <1>3 DEF GoOn, Goto
  <2>2. l \in Location /\ l \notin Holding
    BY Zenon DEF Location, Entries, Holding
  <2>3. locked' \in BOOLEAN /\ UNCHANGED <<exclusive, shared, own>>
    BY Zenon, <1>3 DEF state, Scalars
  <2>4. mode' \in [Proc -> {"shared", "exclusive"}]
    BY Zenon, <1>1 DEF Scalars
  <2> QED
    BY Zenon, <1>1, <2>1, <2>2, <2>3, <2>4, MoveKeeps
<1> QED
  BY Zenon, <1>2, <1>3 DEF AttemptLock

\* LWLockConditionalAcquire().
LEMMA ConditionalKeeps ==
    ASSUME LockInv, NEW p \in Proc, NEW m \in LockModes, LWLockConditionalAcquire(p, m)
    PROVE  LockInv'
<1> USE DEF LockInv
<1>1. own[p] = "none" /\ m \in {"shared", "exclusive"} /\ CanLock(m) /\ Grant(p, m)
  BY Zenon DEF LWLockConditionalAcquire, LockModes
<1>2. MutualExclusion' /\ exclusive' \in Nat /\ shared' \in Nat /\ own' \in [Proc -> Held]
  BY <1>1, GrantKeepsCounts
<1>3. /\ pc' = [pc EXCEPT ![p] = "idle"] /\ UNCHANGED mode
      /\ own' = [own EXCEPT ![p] = m] /\ locked' \in BOOLEAN
  BY Zenon, <1>1 DEF LWLockConditionalAcquire, Grant, flags, Scalars, args
<1>4. "idle" \in Location /\ "idle" \notin Seeking /\ "idle" \notin Holding
  BY Zenon DEF Location, Seeking, Holding
<1> QED
  BY Zenon, <1>2, <1>3, <1>4, OwnershipKeeps

\* LWLockRelease().
LEMMA ReleaseKeeps ==
    ASSUME LockInv, NEW p \in Proc, LWLockRelease(p)
    PROVE  LockInv'
<1> USE DEF LockInv
<1>1. own[p] # "none"
  BY Zenon DEF LWLockRelease, Placed, Holding
<1>2. MutualExclusion' /\ exclusive' \in Nat /\ shared' \in Nat /\ own' \in [Proc -> Held]
  BY Zenon, <1>1, ReleaseKeepsCounts DEF LWLockRelease
<1>3. PICK l \in {"wakeup", "idle"} : pc' = [pc EXCEPT ![p] = l]
  BY Zenon DEF LWLockRelease, Goto
<1>4. l \in Location /\ l \notin Seeking /\ l \notin Holding
  BY Zenon DEF Location, Entries, Seeking, Holding
<1>5. own' = [own EXCEPT ![p] = "none"] /\ UNCHANGED mode /\ locked' \in BOOLEAN
  BY Zenon DEF LWLockRelease, args, flags, Scalars
<1> QED
  BY Zenon, <1>2, <1>3, <1>4, <1>5, OwnershipKeeps
\* Steps that only move p to a place the lock's owner and a seeker may both be.
LEMMA NeutralKeeps ==
    ASSUME LockInv, NEW p \in Proc, NEW l \in Location \ (Seeking \cup Holding),
           pc' = [pc EXCEPT ![p] = l], UNCHANGED <<exclusive, shared, own, mode>>,
           locked' \in BOOLEAN
    PROVE  LockInv'
<1>1. mode' \in [Proc -> {"shared", "exclusive"}]
  BY Zenon DEF LockInv, Scalars
<1> QED
  BY Zenon, <1>1, MoveKeeps

\* Steps from one seeking place to another, and from one holding place.
LEMMA SeekingKeeps ==
    ASSUME LockInv, NEW p \in Proc, pc[p] \in Seeking, NEW l \in Location \ Holding,
           pc' = [pc EXCEPT ![p] = l], UNCHANGED <<exclusive, shared, own, mode>>,
           locked' \in BOOLEAN
    PROVE  LockInv'
<1>1. mode' \in [Proc -> {"shared", "exclusive"}] /\ own[p] = "none"
  BY Zenon DEF LockInv, Scalars, Placed
<1> QED
  BY Zenon, <1>1, MoveKeeps

\* A step between places where the process has the lock exclusively.
LEMMA HoldingKeeps ==
    ASSUME LockInv, NEW p \in Proc, own[p] = "exclusive", NEW l \in Location \ Seeking,
           pc' = [pc EXCEPT ![p] = l], UNCHANGED <<exclusive, shared, own, mode>>,
           locked' \in BOOLEAN
    PROVE  LockInv'
<1>1. mode' \in [Proc -> {"shared", "exclusive"}]
  BY Zenon DEF LockInv, Scalars
<1> QED
  BY Zenon, <1>1, MoveKeeps

\* The steps of a process within a call.
LEMMA StepKeeps ==
    ASSUME LockInv, NEW p \in Proc, Step(p)
    PROVE  LockInv'
<1> USE DEF LockInv, Goto, GoOn, Return, state, flags, args, Unlock
<1>0. locked \in BOOLEAN /\ Entries \subseteq Location /\ Inside \subseteq Location
  BY Zenon DEF Scalars, Location
<1>1. CASE LWLockWaitListLock(p)
  <2>1. pc' = [pc EXCEPT ![p] = EntryOf(pc[p])] /\ locked' \in BOOLEAN
    BY Zenon, <1>1 DEF LWLockWaitListLock
  <2>2. UNCHANGED <<exclusive, shared, own, mode>>
    BY Zenon, <1>1 DEF LWLockWaitListLock
  <2>3. CASE pc[p] \in {"queue", "read", "reread"}
    <3>1. EntryOf(pc[p]) \in {"queue_flag", "read_in", "reread_in"} /\ pc[p] \in Seeking
      BY Zenon, <2>3 DEF EntryOf, Seeking
    <3> QED
      BY Zenon, <1>0, <2>1, <2>2, <3>1, SeekingKeeps DEF Inside, Holding
  <2>4. CASE pc[p] \in {"update", "clear"}
    <3>1. EntryOf(pc[p]) \in {"update_in", "clear_in"} /\ pc[p] \in Holding
      BY Zenon, <2>4 DEF EntryOf, Holding
    <3>2. own[p] = "exclusive"
      BY Zenon, <3>1 DEF Placed
    <3> QED
      BY Zenon, <1>0, <2>1, <2>2, <3>1, <3>2, HoldingKeeps DEF Inside, Seeking
  <2>5. CASE pc[p] \in {"dequeue", "wakeup"}
    <3>1. EntryOf(pc[p]) \in {"dequeue_in", "wakeup_in"}
      BY Zenon, <2>5 DEF EntryOf
    <3> QED
      BY Zenon, <1>0, <2>1, <2>2, <3>1, NeutralKeeps DEF Inside, Seeking, Holding
  <2> QED
    BY Zenon, <1>1, <2>3, <2>4, <2>5 DEF LWLockWaitListLock, Entries
<1>2. CASE QueueFlag(p)
  <2>1. pc[p] \in Seeking /\ "queue_in" \in Location \ Holding
    BY Zenon, <1>2 DEF QueueFlag, Seeking, Holding, Location, Inside
  <2> QED
    BY Zenon, <1>0, <1>2, <2>1, SeekingKeeps DEF QueueFlag
<1>3. CASE LWLockQueueSelf(p)
  <2>1. PICK l \in {"queued", "reattempt"} : pc' = [pc EXCEPT ![p] = l]
    BY Zenon, <1>3 DEF LWLockQueueSelf
  <2>2. pc[p] \in Seeking /\ l \in Location \ Holding
    BY Zenon, <1>3 DEF LWLockQueueSelf, Seeking, Holding, Location
  <2> QED
    BY Zenon, <1>3, <2>1, <2>2, SeekingKeeps DEF LWLockQueueSelf
<1>4. CASE DequeueUnlink(p)
  <2>1. PICK l \in {"dequeue_out", "dequeue_gone"} : pc' = [pc EXCEPT ![p] = l]
    BY Zenon, <1>4 DEF DequeueUnlink
  <2>2. l \in Location \ (Seeking \cup Holding)
    BY Zenon DEF Seeking, Holding, Location, Inside
  <2> QED
    BY Zenon, <1>0, <1>4, <2>1, <2>2, NeutralKeeps DEF DequeueUnlink
<1>5. CASE LWLockDequeueSelf(p)
  <2>1. PICK l \in {"idle", "absorb"} : pc' = [pc EXCEPT ![p] = l]
    BY Zenon, <1>5 DEF LWLockDequeueSelf
  <2>2. l \in Location \ (Seeking \cup Holding)
    BY Zenon DEF Seeking, Holding, Location
  <2> QED
    BY Zenon, <1>5, <2>1, <2>2, NeutralKeeps DEF LWLockDequeueSelf
<1>6. CASE SetReleaseOk(p)
  <2>1. CASE pc[p] = "absorb"
    <3>1. pc' = [pc EXCEPT ![p] = "dequeue_sleep"]
      BY Zenon, <1>6, <2>1 DEF SetReleaseOk
    <3> QED
      BY Zenon, <1>0, <1>6, <3>1, NeutralKeeps DEF SetReleaseOk, Seeking, Holding, Location
  <2>2. CASE pc[p] \in {"queued", "retry"}
    <3>1. PICK l \in {"recheck", "attempt"} : pc' = [pc EXCEPT ![p] = l]
      BY Zenon, <1>6, <2>2 DEF SetReleaseOk
    <3>2. pc[p] \in Seeking /\ l \in Location \ Holding
      BY Zenon, <2>2 DEF Seeking, Holding, Location
    <3> QED
      BY Zenon, <1>0, <1>6, <3>1, <3>2, SeekingKeeps DEF SetReleaseOk
  <2> QED
    BY Zenon, <1>6, <2>1, <2>2 DEF SetReleaseOk
<1>7. CASE Sleep(p)
  <2>0. UNCHANGED <<exclusive, shared, own, mode>> /\ locked' \in BOOLEAN
    BY Zenon, <1>0, <1>7 DEF Sleep
  <2>1. CASE pc[p] = "sleep"
    <3>1. PICK l \in {"sleep", "idle", "retry", "check"} : pc' = [pc EXCEPT ![p] = l]
      BY Zenon, <1>7, <2>1 DEF Sleep, Scalars
    <3>2. pc[p] \in Seeking /\ l \in Location \ Holding
      BY Zenon, <2>1 DEF Seeking, Holding, Location
    <3> QED
      BY Zenon, <2>0, <3>1, <3>2, SeekingKeeps
  <2>2. CASE pc[p] = "dequeue_sleep"
    <3>1. PICK l \in {"dequeue_sleep", "idle"} : pc' = [pc EXCEPT ![p] = l]
      BY Zenon, <1>7, <2>2 DEF Sleep, Scalars
    <3>2. l \in Location \ (Seeking \cup Holding)
      BY Zenon DEF Seeking, Holding, Location
    <3> QED
      BY Zenon, <2>0, <3>1, <3>2, NeutralKeeps
  <2> QED
    BY Zenon, <1>7, <2>1, <2>2 DEF Sleep
<1>8. CASE ConflictsWithVar(p)
  <2>1. PICK l \in {"read", "reread", "idle", "dequeue"} : pc' = [pc EXCEPT ![p] = l]
    BY Zenon, <1>8 DEF ConflictsWithVar
  <2>2. pc[p] \in Seeking /\ l \in Location \ Holding
    BY Zenon, <1>8 DEF ConflictsWithVar, Seeking, Holding, Location, Entries
  <2> QED
    BY Zenon, <1>0, <1>8, <2>1, <2>2, SeekingKeeps DEF ConflictsWithVar
<1>9. CASE ReadVar(p)
  <2>1. PICK l \in {"queue", "sleep", "idle", "dequeue"} : pc' = [pc EXCEPT ![p] = l]
    BY Zenon, <1>9 DEF ReadVar
  <2>2. pc[p] \in Seeking /\ l \in Location \ Holding
    BY Zenon, <1>9 DEF ReadVar, Seeking, Holding, Location, Entries
  <2> QED
    BY Zenon, <1>9, <2>1, <2>2, SeekingKeeps DEF ReadVar
<1>10. CASE LWLockUpdateVar(p)
  BY Zenon, <1>10, NeutralKeeps DEF LWLockUpdateVar, Seeking, Holding, Location
<1>11. CASE LWLockReleaseClearVar(p)
  <2>1. own[p] = "exclusive" /\ "release" \in Location \ Seeking
    BY Zenon, <1>11 DEF LWLockReleaseClearVar, Placed, Holding, Location, Seeking
  <2> QED
    BY Zenon, <1>11, <2>1, HoldingKeeps DEF LWLockReleaseClearVar
<1>12. CASE LWLockWakeup(p)
  BY Zenon, <1>12, NeutralKeeps DEF LWLockWakeup, Seeking, Holding, Location
<1>13. CASE Wake(p)
  <2>1. PICK l \in {"idle", "signal"} : pc' = [pc EXCEPT ![p] = l]
    BY Zenon, <1>13 DEF Wake
  <2>2. l \in Location \ (Seeking \cup Holding)
    BY Zenon DEF Seeking, Holding, Location
  <2> QED
    BY Zenon, <1>0, <1>13, <2>1, <2>2, NeutralKeeps DEF Wake
<1>14. CASE Signal(p)
  BY Zenon, <1>0, <1>14, NeutralKeeps DEF Signal, Seeking, Holding, Location
<1> QED
  BY Zenon, <1>1, <1>2, <1>3, <1>4, <1>5, <1>6, <1>7, <1>8, <1>9, <1>10, <1>11, <1>12, <1>13,
     <1>14, AttemptKeeps, ReleaseKeeps DEF Step

\* The steps that begin one.
LEMMA BeginKeeps ==
    ASSUME LockInv, NEW p \in Proc, Begin(p)
    PROVE  LockInv'
<1>1. CASE LWLockAcquire(p) \/ LWLockAcquireOrWait(p)
  BY <1>1, StartKeeps
     DEF LWLockAcquire, LWLockAcquireOrWait, LockModes
<1>2. CASE LWLockWaitForVar(p)
  BY Zenon, <1>2, StartKeeps DEF LWLockWaitForVar
<1>3. CASE StartUpdateVar(p) \/ StartReleaseClearVar(p)
  <2>1. PICK l \in {"update", "clear"} : pc' = [pc EXCEPT ![p] = l]
    BY Zenon, <1>3 DEF StartUpdateVar, StartReleaseClearVar, Goto
  <2>2. l \in Location \ Seeking
    BY Zenon DEF Location, Entries, Seeking
  <2>3. own[p] = "exclusive" /\ UNCHANGED <<exclusive, shared, own, mode, locked>>
    BY Zenon, <1>3 DEF StartUpdateVar, StartReleaseClearVar, state, args
  <2>4. locked' \in BOOLEAN
    BY Zenon, <2>3 DEF LockInv, Scalars
  <2> QED
    BY Zenon, <2>1, <2>2, <2>3, <2>4, HoldingKeeps
<1> QED
  BY Zenon, <1>1, <1>2, <1>3, ConditionalKeeps DEF Begin

\* Every step keeps the invariant of the lock.
LEMMA LockStep == LockInv /\ [Next]_vars => LockInv'
<1> SUFFICES ASSUME LockInv, [Next]_vars PROVE LockInv'
  OBVIOUS
<1>1. ASSUME NEW p \in Proc, ForeignSignal(p) PROVE LockInv'
  BY <1>1, OthersKeepCounts
     DEF ForeignSignal, LockInv, Scalars, Placed, state, args
<1>2. CASE UNCHANGED vars
  BY Zenon, <1>2, OthersKeepCounts DEF vars, LockInv, Scalars, Placed
<1> QED
  BY Zenon, <1>1, <1>2, StepKeeps, BeginKeeps DEF Next

\* The lock word counts the holders and an exclusive one is alone, however many
\* processes race through LWLockAttemptLock(), LWLockRelease() and the wait list.
THEOREM LockExcludes == Spec => []MutualExclusion
<1>1. LockInv => MutualExclusion
  BY Zenon DEF LockInv
<1> QED
  BY <1>1, LockInit, LockStep, PTL DEF Spec
-----------------------------------------------------------------------------
(* The wait list has one user at a time.  A step of p enters, leaves, stays  *)
(* inside or stays outside of the code the wait list lock protects.          *)

\* LWLockWaitListLock().
LEMMA EnterList ==
    ASSUME Scalars, WaitListLocked, NEW p \in Proc, ~locked, locked', NEW l \in Inside,
           pc' = [pc EXCEPT ![p] = l]
    PROVE  WaitListLocked'
  BY Zenon DEF Scalars, WaitListLocked

\* LWLockWaitListUnlock().
LEMMA LeaveList ==
    ASSUME Scalars, WaitListLocked, NEW p \in Proc, pc[p] \in Inside, ~locked',
           NEW l, l \notin Inside, pc' = [pc EXCEPT ![p] = l]
    PROVE  WaitListLocked'
  BY Zenon DEF Scalars, WaitListLocked

\* A step with the wait list locked.
LEMMA StayInside ==
    ASSUME Scalars, WaitListLocked, NEW p \in Proc, pc[p] \in Inside, locked' = locked,
           NEW l \in Inside, pc' = [pc EXCEPT ![p] = l]
    PROVE  WaitListLocked'
  BY Zenon DEF Scalars, WaitListLocked

\* A step away from the wait list.
LEMMA StayOutside ==
    ASSUME Scalars, WaitListLocked, NEW p \in Proc, pc[p] \notin Inside, locked' = locked,
           NEW l, l \notin Inside, pc' = [pc EXCEPT ![p] = l]
    PROVE  WaitListLocked'
  BY Zenon DEF Scalars, WaitListLocked

\* Every step keeps the wait list to one user.
LEMMA ListStep == LockInv /\ WaitListLocked /\ [Next]_vars => WaitListLocked'
<1> SUFFICES ASSUME LockInv, WaitListLocked, [Next]_vars PROVE WaitListLocked'
  OBVIOUS
<1>0. Scalars
  BY Zenon DEF LockInv
<1> USE <1>0 DEF Goto, GoOn, Return, state, flags, Unlock
<1>1. ASSUME NEW p \in Proc, LWLockWaitListLock(p) PROVE WaitListLocked'
  <2>1. pc' = [pc EXCEPT ![p] = EntryOf(pc[p])] /\ ~locked /\ locked'
    BY Zenon, <1>1 DEF LWLockWaitListLock, ListFree
  <2>2. EntryOf(pc[p]) \in Inside
    BY Zenon, <1>1 DEF LWLockWaitListLock, EntryOf, Entries, Inside
  <2> QED
    BY Zenon, <2>1, <2>2, EnterList
<1>2. ASSUME NEW p \in Proc, QueueFlag(p) \/ DequeueUnlink(p) PROVE WaitListLocked'
  <2>1. PICK l \in {"queue_in", "dequeue_out", "dequeue_gone"} : pc' = [pc EXCEPT ![p] = l]
    BY Zenon, <1>2 DEF QueueFlag, DequeueUnlink
  <2>2. pc[p] \in Inside /\ l \in Inside /\ locked' = locked
    BY Zenon, <1>2 DEF QueueFlag, DequeueUnlink, Inside
  <2> QED
    BY Zenon, <2>1, <2>2, StayInside
<1>3. ASSUME NEW p \in Proc,
             LWLockQueueSelf(p) \/ LWLockDequeueSelf(p) \/ ReadVar(p) \/
             LWLockUpdateVar(p) \/ LWLockReleaseClearVar(p) \/ LWLockWakeup(p)
      PROVE  WaitListLocked'
  <2>1. PICK l \in {"queued", "reattempt", "idle", "absorb", "queue", "sleep", "dequeue",
                    "wake", "release"} : pc' = [pc EXCEPT ![p] = l]
    BY Zenon, <1>3 DEF LWLockQueueSelf, LWLockDequeueSelf, ReadVar, LWLockUpdateVar,
                LWLockReleaseClearVar, LWLockWakeup
  <2>2. pc[p] \in Inside /\ ~locked'
    BY Zenon, <1>3 DEF LWLockQueueSelf, LWLockDequeueSelf, ReadVar, LWLockUpdateVar,
                LWLockReleaseClearVar, LWLockWakeup, Inside
  <2>3. l \notin Inside
    BY Zenon DEF Inside
  <2> QED
    BY Zenon, <2>1, <2>2, <2>3, LeaveList
<1>4. ASSUME NEW p \in Proc,
             AttemptLock(p) \/ SetReleaseOk(p) \/ ConflictsWithVar(p) \/ LWLockRelease(p)
             \/ Wake(p) \/ Signal(p)
      PROVE  WaitListLocked'
  <2>1. PICK l \in {"idle", "dequeue", "queue", "sleep", "recheck", "attempt",
                    "dequeue_sleep", "read", "reread", "wakeup", "signal", "wake"} :
          pc' = [pc EXCEPT ![p] = l]
    BY Zenon, <1>4 DEF AttemptLock, SetReleaseOk, ConflictsWithVar, LWLockRelease, Wake, Signal
  <2>2. pc[p] \notin Inside /\ locked' = locked
    BY Zenon, <1>4 DEF AttemptLock, Grant, SetReleaseOk, ConflictsWithVar, LWLockRelease, Wake,
                Signal, Inside
  <2>3. l \notin Inside
    BY Zenon DEF Inside
  <2> QED
    BY Zenon, <2>1, <2>2, <2>3, StayOutside
<1>5. ASSUME NEW p \in Proc, Sleep(p) PROVE WaitListLocked'
  <2>1. PICK l \in {"sleep", "dequeue_sleep", "idle", "retry", "check"} :
          pc' = [pc EXCEPT ![p] = l]
    BY Zenon, <1>5 DEF Sleep, Scalars
  <2>2. pc[p] \notin Inside /\ locked' = locked /\ l \notin Inside
    BY Zenon, <1>5 DEF Sleep, Inside
  <2> QED
    BY Zenon, <2>1, <2>2, StayOutside
<1>6. ASSUME NEW p \in Proc, Begin(p) PROVE WaitListLocked'
  <2>1. PICK l \in {"attempt", "check", "update", "clear", "idle"} :
          pc' = [pc EXCEPT ![p] = l]
    BY Zenon, <1>6 DEF Begin, LWLockAcquire, LWLockAcquireOrWait, LWLockWaitForVar, Start,
                StartUpdateVar, StartReleaseClearVar, LWLockConditionalAcquire, Scalars
  <2>2. pc[p] = "idle" /\ locked' = locked
    BY Zenon, <1>6 DEF Begin, LWLockAcquire, LWLockAcquireOrWait, LWLockWaitForVar, Start,
                StartUpdateVar, StartReleaseClearVar, LWLockConditionalAcquire, Grant
  <2>3. pc[p] \notin Inside /\ l \notin Inside
    BY Zenon, <2>2 DEF Inside
  <2> QED
    BY Zenon, <2>1, <2>2, <2>3, StayOutside
<1>7. ASSUME NEW p \in Proc, ForeignSignal(p) PROVE WaitListLocked'
  BY Zenon, <1>7 DEF ForeignSignal, WaitListLocked
<1>8. CASE UNCHANGED vars
  BY Zenon, <1>8 DEF vars, WaitListLocked
<1> QED
  BY Zenon, <1>1, <1>2, <1>3, <1>4, <1>5, <1>6, <1>7, <1>8 DEF Next, Step

\* LW_FLAG_LOCKED is set exactly while one process, and only one, uses the list.
THEOREM WaitListExcludes == Spec => []WaitListLocked
<1>1. Init => WaitListLocked
  BY SMTT(40), Z3T(40) DEF Init, WaitListLocked, Inside
<1> QED
  BY <1>1, LockInit, LockStep, ListStep, PTL DEF Spec

-----------------------------------------------------------------------------
(* LWLock implements RWLock. *)

\* A count of zero means that nobody holds the lock in that mode.
LEMMA NoHolder ==
    ASSUME LockInv, NEW m \in {"shared", "exclusive"}, NEW n,
           n = Cardinality(Owners(m)), n = 0
    PROVE  \A q \in Proc : own[q] # m
<1>1. IsFiniteSet(Owners(m))
  BY HoldersFinite, OwnersAreHolders
<1>2. Owners(m) = {}
  BY Zenon, <1>1, FS_EmptySet
<1> QED
  BY Zenon, <1>2 DEF Owners

\* A grant is one of RWLock.
LEMMA GrantImplements ==
    ASSUME LockInv, NEW p \in Proc, NEW m \in {"shared", "exclusive"},
           own[p] = "none", CanLock(m), Grant(p, m)
    PROVE  RW!Acquire(p, m)
<1>1. \A q \in Proc : own[q] # "exclusive"
  BY Zenon, NoHolder DEF LockInv, MutualExclusion, CanLock
<1>2. m = "exclusive" => \A q \in Proc : own[q] # "shared"
  BY Zenon, NoHolder DEF LockInv, MutualExclusion, CanLock
<1>3. m = "exclusive" => \A q \in Proc : own[q] = "none"
  BY Zenon, <1>1, <1>2 DEF LockInv, Scalars, Held
<1> QED
  BY Zenon, <1>1, <1>3 DEF RW!Acquire, Grant

\* Every step is one of RWLock or leaves the holders alone.
LEMMA RWStep == LockInv /\ [Next]_vars => [RW!Next]_own
<1> SUFFICES ASSUME LockInv, [Next]_vars PROVE [RW!Next]_own
  OBVIOUS
<1>1. ASSUME NEW p \in Proc, AttemptLock(p) PROVE [RW!Next]_own
  <2>1. own[p] = "none" /\ mode[p] \in {"shared", "exclusive"}
    BY Zenon, <1>1 DEF AttemptLock, LockInv, Placed, Scalars, Seeking
  <2> QED
    BY Zenon, <1>1, <2>1, GrantImplements DEF AttemptLock, RW!Next
<1>2. ASSUME NEW p \in Proc, NEW m \in LockModes, LWLockConditionalAcquire(p, m)
      PROVE  [RW!Next]_own
  <2>1. m \in {"shared", "exclusive"}
    BY Zenon DEF LockModes
  <2> QED
    BY Zenon, <1>2, <2>1, GrantImplements DEF LWLockConditionalAcquire, RW!Next
<1>3. ASSUME NEW p \in Proc, LWLockRelease(p) PROVE [RW!Next]_own
  <2>1. own[p] # "none"
    BY Zenon, <1>3 DEF LWLockRelease, LockInv, Placed, Holding
  <2> QED
    BY Zenon, <1>3, <2>1 DEF LWLockRelease, RW!Release, RW!Next
<1>4. ASSUME NEW p \in Proc,
             LWLockWaitListLock(p) \/ QueueFlag(p) \/ LWLockQueueSelf(p) \/ DequeueUnlink(p)
             \/ LWLockDequeueSelf(p) \/ SetReleaseOk(p) \/ Sleep(p) \/ ConflictsWithVar(p)
             \/ ReadVar(p) \/ LWLockUpdateVar(p) \/ LWLockReleaseClearVar(p)
             \/ LWLockWakeup(p) \/ Wake(p) \/ Signal(p)
      PROVE  UNCHANGED own
  BY Zenon, <1>4 DEF LWLockWaitListLock, QueueFlag, LWLockQueueSelf, DequeueUnlink,
     LWLockDequeueSelf, SetReleaseOk, Sleep, ConflictsWithVar, ReadVar, LWLockUpdateVar,
     LWLockReleaseClearVar, LWLockWakeup, Wake, Signal
<1>5. ASSUME NEW p \in Proc,
             LWLockAcquire(p) \/ LWLockAcquireOrWait(p) \/ LWLockWaitForVar(p)
             \/ StartUpdateVar(p) \/ StartReleaseClearVar(p) \/ ForeignSignal(p)
      PROVE  UNCHANGED own
  BY Zenon, <1>5 DEF LWLockAcquire, LWLockAcquireOrWait, LWLockWaitForVar, Start,
     StartUpdateVar, StartReleaseClearVar, ForeignSignal
<1>6. CASE UNCHANGED vars
  BY Zenon, <1>6 DEF vars
<1> QED
  BY Zenon, <1>1, <1>2, <1>3, <1>4, <1>5, <1>6 DEF Next, Step, Begin

\* Callers get what RWLock promises: every behaviour of the protocol, seen
\* through the modes granted, is one of an ordinary reader-writer lock.
THEOREM LWLockImplementsRWLock == Spec => ImplementsRWLock
<1>1. Init => RW!Init
  BY Zenon DEF Init, RW!Init
<1> QED
  BY <1>1, LockInit, LockStep, RWStep, PTL DEF Spec, ImplementsRWLock, RW!Spec

-----------------------------------------------------------------------------
(* Lists without repetition, and what Those, Append, Head and Tail make of them. *)

\* A list as a set, and a list without repetition.
On(s, p) == \E i \in 1 .. Len(s) : s[i] = p
NoDup(s) == \A i, j \in 1 .. Len(s) : s[i] = s[j] => i = j

\* t lists entries of s in their order: h says where each of them was.
Picks(t, s, h) ==
    /\ h \in [1 .. Len(t) -> 1 .. Len(s)]
    /\ \A k \in 1 .. Len(t) : t[k] = s[h[k]]
    /\ \A k, l \in 1 .. Len(t) : k < l => h[k] < h[l]

Upto(A, i) == {j \in A : j <= i}

\* A function on 1 .. n is a sequence.
LEMMA FunIsSeq ==
    ASSUME NEW S, NEW n \in Nat, NEW f \in [1 .. n -> S]
    PROVE  f \in Seq(S) /\ Len(f) = n
  BY SMTT(40), Z3T(40)

\* The rank of the members of a finite set of numbers is a bijection that keeps their order.
LEMMA Ranks ==
    ASSUME NEW n \in Nat, NEW A \in SUBSET (1 .. n)
    PROVE  /\ Cardinality(A) \in Nat
           /\ \A i \in A : Cardinality(Upto(A, i)) \in 1 .. Cardinality(A)
           /\ \A i, j \in A : i < j => Cardinality(Upto(A, i)) < Cardinality(Upto(A, j))
           /\ \A k \in 1 .. Cardinality(A) : \E i \in A : Cardinality(Upto(A, i)) = k
<1>1. IsFiniteSet(A)
  <2>1. IsFiniteSet(1 .. n)
    BY FS_Interval
  <2> QED
    BY Zenon, <2>1, FS_Subset
<1>2. Cardinality(A) \in Nat
  BY Zenon, <1>1, FS_CardinalityType
<1>3. ASSUME NEW i \in A
      PROVE  /\ IsFiniteSet(Upto(A, i)) /\ Cardinality(Upto(A, i)) \in Nat
             /\ Cardinality(Upto(A, i)) <= Cardinality(A)
             /\ Cardinality(Upto(A, i)) # 0
  <2>1. Upto(A, i) \in SUBSET A
    BY Zenon DEF Upto
  <2>2. IsFiniteSet(Upto(A, i)) /\ Cardinality(Upto(A, i)) <= Cardinality(A)
    BY Zenon, <1>1, <2>1, FS_Subset
  <2>3. Cardinality(Upto(A, i)) \in Nat
    BY Zenon, <2>2, FS_CardinalityType
  <2>4. i <= i
    BY SMTT(40), Z3T(40)
  <2>5. i \in Upto(A, i)
    BY Zenon, <2>4 DEF Upto
  <2>6. Upto(A, i) # {}
    BY Zenon, <2>5
  <2>7. Cardinality(Upto(A, i)) # 0
    BY Zenon, <2>2, <2>6, FS_EmptySet
  <2> QED
    BY Zenon, <2>2, <2>3, <2>7
<1>4. \A i \in A : Cardinality(Upto(A, i)) \in 1 .. Cardinality(A)
  BY SMTT(40), Z3T(40), <1>2, <1>3
<1>5. ASSUME NEW i \in A, NEW j \in A, i < j
      PROVE  Cardinality(Upto(A, i)) < Cardinality(Upto(A, j))
  <2>1. Upto(A, i) \in SUBSET Upto(A, j)
    <3>1. ASSUME NEW x \in A, x <= i PROVE x <= j
      BY SMTT(40), Z3T(40), <1>5, <3>1
    <3> QED
      BY Zenon, <3>1 DEF Upto
  <2>2. j <= j /\ ~ (j <= i)
    BY SMTT(40), Z3T(40), <1>5
  <2>3. j \in Upto(A, j) /\ j \notin Upto(A, i)
    BY Zenon, <2>2 DEF Upto
  <2>4. Upto(A, j) # Upto(A, i)
    BY Zenon, <2>3
  <2>5. /\ Cardinality(Upto(A, i)) <= Cardinality(Upto(A, j))
        /\ Cardinality(Upto(A, j)) # Cardinality(Upto(A, i))
    BY Zenon, <1>3, <2>1, <2>4, FS_Subset
  <2> QED
    BY SMTT(40), Z3T(40), <1>3, <2>5
<1>6. ASSUME NEW k \in 1 .. Cardinality(A)
      PROVE  \E i \in A : Cardinality(Upto(A, i)) = k
  <2> DEFINE f == [i \in A |-> Cardinality(Upto(A, i))]
             T == 1 .. Cardinality(A)
  <2>1. f \in [A -> T]
    BY Zenon, <1>4
  <2>2. ASSUME NEW i \in A, NEW j \in A, f[i] = f[j]
        PROVE  i = j
    <3>1. f[i] = Cardinality(Upto(A, i)) /\ f[j] = Cardinality(Upto(A, j))
      BY Zenon
    <3>2. Cardinality(Upto(A, i)) = Cardinality(Upto(A, j))
      BY Zenon, <3>1, <2>2
    <3> QED
      BY SMTT(40), Z3T(40), <1>3, <1>5, <3>2
  <2>3. f \in Injection(A, T)
    <3> HIDE DEF f, T
    <3> QED
      BY Zenon, <2>1, <2>2 DEF Injection, IsInjective
  <2>4. IsFiniteSet(T) /\ Cardinality(T) = Cardinality(A)
    BY SMTT(40), Z3T(40), <1>2, FS_Interval
  <2>5. f \in Surjection(A, T)
    <3> HIDE DEF f, T
    <3> QED
      BY Zenon, <2>3, <2>4, FS_Injection
  <2>6. \E i \in A : f[i] = k
    <3>1. k \in T
      OBVIOUS
    <3> HIDE DEF f, T
    <3> QED
      BY Zenon, <2>5, <3>1 DEF Surjection
  <2> QED
    BY Zenon, <2>6
<1> QED
  BY Zenon, <1>2, <1>4, <1>5, <1>6

\* What Those computes: the entries in w, all of them, in their order.
LEMMA ThoseIs ==
    ASSUME NEW s \in Seq(Proc), NEW w
    PROVE  /\ Those(s, w) \in Seq(Proc)
           /\ \E h : /\ Picks(Those(s, w), s, h)
                     /\ \A i \in 1 .. Len(s) :
                          s[i] \in w <=> \E k \in 1 .. Len(Those(s, w)) : h[k] = i
<1> DEFINE A == {i \in 1 .. Len(s) : s[i] \in w}
           c == Cardinality(A)
           h == [k \in 1 .. c |-> CHOOSE i \in A : Cardinality(Upto(A, i)) = k]
<1>1. Len(s) \in Nat /\ A \in SUBSET (1 .. Len(s)) /\ s \in [1 .. Len(s) -> Proc]
  BY SMTT(40), Z3T(40)
<1>2. /\ c \in Nat
      /\ \A i \in A : Cardinality(Upto(A, i)) \in 1 .. c
      /\ \A i, j \in A : i < j => Cardinality(Upto(A, i)) < Cardinality(Upto(A, j))
      /\ \A k \in 1 .. c : \E i \in A : Cardinality(Upto(A, i)) = k
  <2> HIDE DEF A
  <2> QED
    BY Zenon, <1>1, Ranks
<1>3. Those(s, w) = [k \in 1 .. c |-> s[CHOOSE i \in A : Cardinality(Upto(A, i)) = k]]
  BY DEF Those, Upto
<1>4. \A i \in A : i \in 1 .. Len(s) /\ s[i] \in w
  BY Zenon
<1>5. \A i \in 1 .. Len(s) : s[i] \in w => i \in A
  BY Zenon
<1>6. \A k \in 1 .. c : h[k] \in A /\ Cardinality(Upto(A, h[k])) = k
  <2> HIDE DEF A, c
  <2> QED
    BY Zenon, <1>2
<1>7. \A k \in 1 .. c : Those(s, w)[k] = s[h[k]]
  BY Zenon, <1>3
<1>8. h \in [1 .. c -> 1 .. Len(s)]
  <2>1. \A k \in 1 .. c : (CHOOSE i \in A : Cardinality(Upto(A, i)) = k) \in 1 .. Len(s)
    BY Zenon, <1>4, <1>6
  <2> QED
    BY Zenon, <2>1
<1>9. Those(s, w) \in [1 .. c -> Proc]
  <2>1. \A k \in 1 .. c : s[CHOOSE i \in A : Cardinality(Upto(A, i)) = k] \in Proc
    BY Zenon, <1>1, <1>4, <1>6
  <2> QED
    BY Zenon, <1>3, <2>1
<1> HIDE DEF A, c, h
<1>10. Those(s, w) \in Seq(Proc) /\ Len(Those(s, w)) = c
  BY Zenon, <1>2, <1>9, FunIsSeq
<1>12. ASSUME NEW k \in 1 .. c, NEW l \in 1 .. c, k < l
       PROVE  h[k] < h[l]
  <2>1. CASE h[l] < h[k]
    <3>1. Cardinality(Upto(A, h[l])) < Cardinality(Upto(A, h[k]))
      BY Zenon, <1>2, <1>6, <2>1
    <3> QED
      BY SMTT(40), Z3T(40), <1>2, <1>6, <1>12, <3>1
  <2>2. CASE h[l] = h[k]
    <3>1. k = l
      BY Zenon, <1>6, <2>2
    <3> QED
      BY SMTT(40), Z3T(40), <1>2, <1>12, <3>1
  <2>3. h[k] \in Int /\ h[l] \in Int
    BY SMTT(40), Z3T(40), <1>1, <1>8
  <2> QED
    BY SMTT(40), Z3T(40), <2>1, <2>2, <2>3
<1>13. Picks(Those(s, w), s, h)
  BY Zenon, <1>7, <1>8, <1>10, <1>12 DEF Picks
<1>14. ASSUME NEW i \in A
       PROVE  \E k \in 1 .. c : h[k] = i
  <2>1. PICK k \in 1 .. c : k = Cardinality(Upto(A, i))
    BY Zenon, <1>2
  <2>2. h[k] \in A /\ Cardinality(Upto(A, h[k])) = Cardinality(Upto(A, i))
    BY Zenon, <1>6, <2>1
  <2>3. h[k] \in Int /\ i \in Int
    <3>1. h[k] \in 1 .. Len(s) /\ i \in 1 .. Len(s)
      BY Zenon, <1>4, <2>2
    <3> QED
      BY SMTT(40), Z3T(40), <1>1, <3>1
  <2>4. ~ (Cardinality(Upto(A, h[k])) < Cardinality(Upto(A, i))) /\
        ~ (Cardinality(Upto(A, i)) < Cardinality(Upto(A, h[k])))
    BY SMTT(40), Z3T(40), <1>2, <2>1, <2>2
  <2>5. ~ (h[k] < i) /\ ~ (i < h[k])
    BY Zenon, <1>2, <2>2, <2>4
  <2>6. h[k] = i
    BY SMTT(40), Z3T(40), <2>3, <2>5
  <2> QED
    BY Zenon, <2>6
<1>15. \A i \in 1 .. Len(s) : s[i] \in w <=> \E k \in 1 .. Len(Those(s, w)) : h[k] = i
  BY Zenon, <1>4, <1>5, <1>6, <1>10, <1>14
<1> QED
  BY Zenon, <1>10, <1>13, <1>15

\* ... so that what is on it was on s, and it repeats nothing.
LEMMA ThoseOn ==
    ASSUME NEW s \in Seq(Proc), NEW w, NoDup(s)
    PROVE  /\ NoDup(Those(s, w))
           /\ \A p : On(Those(s, w), p) <=> On(s, p) /\ p \in w
<1>1. PICK h : /\ Picks(Those(s, w), s, h)
               /\ \A i \in 1 .. Len(s) :
                    s[i] \in w <=> \E k \in 1 .. Len(Those(s, w)) : h[k] = i
  BY Zenon, ThoseIs
<1>2. PICK t : t = Those(s, w) /\ t \in Seq(Proc)
  BY Zenon, ThoseIs
<1>3. Picks(t, s, h) /\ \A i \in 1 .. Len(s) : s[i] \in w <=> \E k \in 1 .. Len(t) : h[k] = i
  BY Zenon, <1>1, <1>2
<1>4. Len(t) \in Nat /\ Len(s) \in Nat
  BY SMTT(40), Z3T(40), <1>2
<1>5. ASSUME NEW k \in 1 .. Len(t), NEW l \in 1 .. Len(t), t[k] = t[l]
      PROVE  k = l
  <2>1. h[k] = h[l] /\ h[k] \in 1 .. Len(s)
    <3>1. h[k] \in 1 .. Len(s) /\ h[l] \in 1 .. Len(s)
      BY Zenon, <1>3 DEF Picks
    <3>2. s[h[k]] = s[h[l]]
      BY Zenon, <1>3, <1>5 DEF Picks
    <3> QED
      BY Zenon, <3>1, <3>2 DEF NoDup
  <2>2. ~ (h[k] < h[l]) /\ ~ (h[l] < h[k])
    BY SMTT(40), Z3T(40), <1>4, <2>1
  <2>3. ~ (k < l) /\ ~ (l < k)
    BY Zenon, <1>3, <2>2 DEF Picks
  <2> QED
    BY SMTT(40), Z3T(40), <1>4, <2>3
<1>6. NoDup(t)
  BY Zenon, <1>5 DEF NoDup
<1>7. ASSUME NEW p, On(t, p) PROVE On(s, p) /\ p \in w
  <2>1. PICK k \in 1 .. Len(t) : t[k] = p
    BY Zenon, <1>7 DEF On
  <2>2. h[k] \in 1 .. Len(s) /\ s[h[k]] = p
    BY Zenon, <1>3, <2>1 DEF Picks
  <2> QED
    BY Zenon, <1>3, <2>2 DEF On
<1>8. ASSUME NEW p, On(s, p), p \in w PROVE On(t, p)
  <2>1. PICK i \in 1 .. Len(s) : s[i] = p
    BY Zenon, <1>8 DEF On
  <2>2. PICK k \in 1 .. Len(t) : h[k] = i
    BY Zenon, <1>3, <1>8, <2>1
  <2>3. t[k] = p
    BY Zenon, <1>3, <2>1, <2>2 DEF Picks
  <2> QED
    BY Zenon, <2>3 DEF On
<1> QED
  BY Zenon, <1>2, <1>6, <1>7, <1>8

\* Appending, putting in front and taking off the head.
LEMMA Appends ==
    ASSUME NEW s \in Seq(Proc), NEW p \in Proc, NoDup(s), ~ On(s, p)
    PROVE  /\ Append(s, p) \in Seq(Proc) /\ NoDup(Append(s, p))
           /\ \A q : On(Append(s, p), q) <=> On(s, q) \/ q = p
           /\ Append(s, p) # <<>>
<1>1. PICK t : t = Append(s, p)
  BY Zenon
<1>2. /\ t \in Seq(Proc) /\ Len(t) = Len(s) + 1 /\ Len(s) \in Nat
      /\ \A i \in 1 .. Len(s) : t[i] = s[i]
      /\ t[Len(s) + 1] = p
  BY SMTT(40), Z3T(40), <1>1
<1>3. NoDup(t)
  BY SMTT(40), Z3T(40), <1>2 DEF NoDup, On
<1>4. \A q : On(t, q) <=> On(s, q) \/ q = p
  BY SMTT(40), Z3T(40), <1>2 DEF On
<1>5. t # <<>>
  BY SMTT(40), Z3T(40), <1>2
<1> QED
  BY Zenon, <1>1, <1>2, <1>3, <1>4, <1>5

\* Putting a process that is not on a list in front of it.
LEMMA Prepends ==
    ASSUME NEW s \in Seq(Proc), NEW p \in Proc, NoDup(s), ~ On(s, p)
    PROVE  /\ <<p>> \o s \in Seq(Proc) /\ NoDup(<<p>> \o s)
           /\ \A q : On(<<p>> \o s, q) <=> On(s, q) \/ q = p
           /\ <<p>> \o s # <<>>
<1>1. PICK t : t = <<p>> \o s
  BY Zenon
<1>2. /\ t \in Seq(Proc) /\ Len(t) = Len(s) + 1 /\ Len(s) \in Nat
      /\ \A i \in 1 .. Len(s) : t[i + 1] = s[i]
      /\ t[1] = p
  BY SMTT(40), Z3T(40), <1>1
<1>3. \A j \in 1 .. Len(t) : j = 1 \/ (j - 1 \in 1 .. Len(s) /\ t[j] = s[j - 1])
  BY SMTT(40), Z3T(40), <1>2
<1>4. ASSUME NEW i \in 1 .. Len(t), NEW j \in 1 .. Len(t), t[i] = t[j]
      PROVE  i = j
  <2>1. CASE i = 1 /\ j # 1
    BY SMTT(40), Z3T(40), <1>2, <1>3, <1>4, <2>1 DEF On
  <2>2. CASE i # 1 /\ j = 1
    BY SMTT(40), Z3T(40), <1>2, <1>3, <1>4, <2>2 DEF On
  <2>3. CASE i # 1 /\ j # 1
    <3>1. PICK k, l \in 1 .. Len(s) : k = i - 1 /\ l = j - 1 /\ t[i] = s[k] /\ t[j] = s[l]
      BY SMTT(40), Z3T(40), <1>3, <2>3
    <3>2. k = l
      BY Zenon, <1>4, <3>1 DEF NoDup
    <3> QED
      BY SMTT(40), Z3T(40), <1>2, <3>1, <3>2
  <2> QED
    BY Zenon, <2>1, <2>2, <2>3
<1>5. \A q : On(t, q) <=> On(s, q) \/ q = p
  <2>1. ASSUME NEW i \in 1 .. Len(s) PROVE \E j \in 1 .. Len(t) : t[j] = s[i]
    <3>1. i + 1 \in 1 .. Len(t) /\ t[i + 1] = s[i]
      BY SMTT(40), Z3T(40), <1>2
    <3> QED
      BY Zenon, <3>1
  <2>2. ASSUME NEW j \in 1 .. Len(t) PROVE t[j] = p \/ \E i \in 1 .. Len(s) : s[i] = t[j]
    BY Zenon, <1>2, <1>3
  <2>3. 1 \in 1 .. Len(t)
    BY SMTT(40), Z3T(40), <1>2
  <2>4. ASSUME NEW q, On(t, q) PROVE On(s, q) \/ q = p
    <3>1. PICK j \in 1 .. Len(t) : t[j] = q
      BY Zenon, <2>4 DEF On
    <3> QED
      BY Zenon, <2>2, <3>1 DEF On
  <2>5. ASSUME NEW q, On(s, q) PROVE On(t, q)
    <3>1. PICK i \in 1 .. Len(s) : s[i] = q
      BY Zenon, <2>5 DEF On
    <3> QED
      BY Zenon, <2>1, <3>1 DEF On
  <2>6. On(t, p)
    BY Zenon, <1>2, <2>3 DEF On
  <2> QED
    BY Zenon, <2>4, <2>5, <2>6
<1>6. t # <<>>
  BY SMTT(40), Z3T(40), <1>2
<1> QED
  BY Zenon, <1>1, <1>2, <1>4, <1>5, <1>6 DEF NoDup

\* Taking the head off a list.
LEMMA Heads ==
    ASSUME NEW s \in Seq(Proc), s # <<>>, NoDup(s)
    PROVE  /\ Tail(s) \in Seq(Proc) /\ NoDup(Tail(s)) /\ Head(s) \in Proc
           /\ On(s, Head(s)) /\ ~ On(Tail(s), Head(s))
           /\ \A q : On(Tail(s), q) <=> On(s, q) /\ q # Head(s)
<1>1. PICK t : t = Tail(s)
  BY Zenon
<1>2. /\ t \in Seq(Proc) /\ Len(t) = Len(s) - 1 /\ Len(s) \in Nat /\ 1 <= Len(s)
      /\ \A i \in 1 .. Len(t) : t[i] = s[i + 1]
      /\ Head(s) = s[1] /\ s[1] \in Proc
  BY SMTT(40), Z3T(40), <1>1
<1>3. NoDup(t)
  BY SMTT(40), Z3T(40), <1>2 DEF NoDup
<1>4. On(s, s[1])
  BY SMTT(40), Z3T(40), <1>2 DEF On
<1>5. ~ On(t, s[1])
  BY SMTT(40), Z3T(40), <1>2 DEF On, NoDup
<1>6. ASSUME NEW q, On(s, q), q # s[1] PROVE On(t, q)
  <2>1. PICK i \in 1 .. Len(s) : s[i] = q
    BY Zenon, <1>6 DEF On
  <2>2. i - 1 \in 1 .. Len(t) /\ t[i - 1] = q
    BY SMTT(40), Z3T(40), <1>2, <1>6, <2>1
  <2> QED
    BY Zenon, <2>2 DEF On
<1>7. ASSUME NEW q, On(t, q) PROVE On(s, q)
  BY SMTT(40), Z3T(40), <1>2, <1>7 DEF On
<1> QED
  BY Zenon, <1>1, <1>2, <1>3, <1>4, <1>5, <1>6, <1>7

-----------------------------------------------------------------------------
(* The inductive invariant of the lists. *)

\* The values of lwWaiting: LW_WS_*.
WaitState == {"not_waiting", "waiting", "pending"}

\* The types that the argument needs.
QTypes ==
    /\ has_waiters \in BOOLEAN /\ release_ok \in BOOLEAN
    /\ waiters \in Seq(Proc) /\ wakeup \in [Proc -> Seq(Proc)]
    /\ lwWaiting \in [Proc -> WaitState]
    /\ lwWaitMode \in [Proc -> {"shared", "exclusive", "until_free"}]
    /\ sem \in [Proc -> Nat] /\ foreign \in [Proc -> Nat] /\ extraWaits \in [Proc -> Nat]
    /\ call \in [Proc -> CallName]
    /\ val = [p \in Proc |-> val[p]]

\* The mode in which p queues.
Wanted(p) == IF call[p] = "acquire" THEN mode[p] ELSE "until_free"

\* What the place where a process is says about it.
Told(p) ==
    /\ ~ Queued(p) /\ pc[p] # "dequeue_out" => lwWaiting[p] = "not_waiting"
    /\ pc[p] \in {"dequeue_gone", "absorb", "dequeue_sleep"} => lwWaiting[p] # "waiting"
    /\ pc[p] = "dequeue_out" => lwWaiting[p] = "waiting"
    /\ pc[p] \in {"check", "recheck", "read", "read_in", "reread", "reread_in", "queued"}
         => call[p] = "waitvar"
    /\ pc[p] \in {"attempt", "reattempt"} => call[p] \in {"acquire", "orwait"}
    /\ pc[p] = "retry" => call[p] = "acquire"
    /\ pc[p] \in {"queue", "queue_flag", "queue_in", "sleep"} => call[p] # "conditional"
    /\ lwWaiting[p] # "not_waiting" => lwWaitMode[p] = Wanted(p)
    /\ pc[p] \in {"dequeue", "dequeue_in", "dequeue_gone", "absorb"} /\ call[p] # "waitvar"
         => own[p] # "none"
AllTold == \A p \in Proc : Told(p)

\* The wait list: who waits is on it, once, and the flag says so.
OnList ==
    /\ NoDup(waiters)
    /\ \A p \in Proc : On(waiters, p) <=> (lwWaiting[p] = "waiting" /\ pc[p] # "dequeue_out")
Flagged ==
    /\ waiters # <<>> => has_waiters
    /\ \A p \in Proc : pc[p] = "queue_in" => has_waiters

\* Those who wait for a free lock are in front.
FreeFirst ==
    \A i, j \in 1 .. Len(waiters) :
      i < j /\ lwWaitMode[waiters[j]] = "until_free" => lwWaitMode[waiters[i]] = "until_free"

\* The local lists of the wakers.
OnLocal ==
    \A q \in Proc :
      /\ pc[q] \notin {"wake", "signal"} => wakeup[q] = <<>>
      /\ pc[q] = "signal" => wakeup[q] # <<>>
      /\ NoDup(Linked(q))
      /\ \A p \in Proc : On(Linked(q), p) => lwWaiting[p] = "pending"
      /\ \A p, r \in Proc : On(Linked(q), p) /\ On(Linked(r), p) => q = r
      /\ lwWaiting[q] = "pending" => \E r \in Proc : On(Linked(r), q)

\* A process that was woken to take the lock and is yet to set the flag again.
Woken(q) ==
    /\ call[q] = "acquire"
    /\ \/ pc[q] = "retry"
       \/ /\ pc[q] \in {"reattempt", "sleep", "dequeue", "dequeue_in", "dequeue_gone", "absorb"}
          /\ lwWaiting[q] # "waiting"
ReleaseHeldBack == ~ release_ok => \E q \in Proc : Woken(q)

VarSleeper(p) ==
    /\ call[p] = "waitvar" /\ lwWaiting[p] = "waiting"
    /\ pc[p] \in {"recheck", "reread", "reread_in", "sleep"}
VarRelease == \A p \in Proc : VarSleeper(p) => release_ok

Committed(p) == lwWaiting[p] = "waiting" /\ pc[p] \in {"reread", "reread_in", "sleep"}
Attended == Free /\ (\E p \in Proc : Committed(p)) => \E q \in Proc : Attends(q)

Stale(p) == Asleep(p) /\ call[p] = "waitvar" /\ valptr # val[p]
Releases(q) == pc[q] \in {"release", "wakeup", "wakeup_in"}

\* QueueCore is about the lists and the flags; Attended and NoStaleSleeper are about who is
\* left asleep.  Attended says more than NoLostWakeup: it is about processes that are bound
\* to sleep as well as about those that do.
QueueCore ==
    /\ QTypes /\ AllTold /\ OnList /\ Flagged /\ FreeFirst /\ OnLocal /\ SignalsConserved
    /\ ReleaseHeldBack /\ VarRelease
QueueInv == QueueCore /\ Attended /\ NoStaleSleeper

-----------------------------------------------------------------------------
(* What the steps that leave the lists alone have in common. *)

\* The signal of its own wakeup that p is still to consume.
Due(p) == IF Queued(p) /\ lwWaiting[p] = "not_waiting" THEN 1 ELSE 0

\* Places where a list is about to change.
Busy == {"wake", "signal", "dequeue_out"}

\* The other processes are where they were, and as they were.
Apart(p) ==
    \A q \in Proc : q # p =>
      /\ pc'[q] = pc[q] /\ call'[q] = call[q] /\ mode'[q] = mode[q] /\ val'[q] = val[q]
      /\ own'[q] = own[q]

\* A step of p that leaves the lists alone.
Quiet(p) ==
    /\ UNCHANGED <<waiters, wakeup, lwWaiting, lwWaitMode>> /\ Apart(p)
    /\ pc'[p] # pc[p] => pc[p] \notin Busy /\ pc'[p] \notin Busy
    /\ Told(p)'
    /\ has_waiters => has_waiters'
    /\ pc'[p] = "queue_in" => has_waiters'
    /\ \A q \in Proc : q # p =>
         sem'[q] = sem[q] /\ extraWaits'[q] = extraWaits[q] /\ foreign'[q] = foreign[q]
    /\ sem'[p] + extraWaits'[p] + foreign[p] + Due(p)
         = sem[p] + extraWaits[p] + foreign'[p] + Due(p)'
    /\ release_ok => release_ok'
    /\ Woken(p) => Woken(p)' \/ release_ok'
    /\ VarSleeper(p)' => VarSleeper(p) \/ release_ok'

\* A process that does not move stays as its place says.
LEMMA ToldSame ==
    ASSUME NEW p \in Proc, Told(p), pc'[p] = pc[p], call'[p] = call[p], mode'[p] = mode[p],
           own'[p] = own[p], lwWaitMode'[p] = lwWaitMode[p], lwWaiting'[p] = lwWaiting[p]
    PROVE  Told(p)'
  BY Zenon DEF Told, Queued, Wanted

\* A process that does not move is queued as it was.
LEMMA QueuedSame ==
    ASSUME NEW p, pc'[p] = pc[p] PROVE Queued(p)' <=> Queued(p)
  BY Zenon DEF Queued

\* Who signals whom, when nobody starts or ends a signal.
LEMMA OwedSame ==
    ASSUME \A q \in Proc : /\ pc'[q] = "signal" <=> pc[q] = "signal"
                           /\ pc[q] = "signal" => wakeup'[q] = wakeup[q]
    PROVE  \A p : Owed(p)' = Owed(p)
  BY Zenon DEF Owed

\* The signals under way to a process can be counted.
LEMMA OwedCount == ASSUME NEW p PROVE IsFiniteSet(Owed(p)) /\ Cardinality(Owed(p)) \in Nat
<1>1. Owed(p) \in SUBSET Proc
  BY Zenon DEF Owed
<1>2. IsFiniteSet(Owed(p))
  BY Zenon, <1>1, LWLockAssumption, FS_Subset DEF LWLockAssumption
<1> QED
  BY Zenon, <1>2, FS_CardinalityType

\* The count of signals, when only that of p changes.
LEMMA SignalsKept ==
    ASSUME QTypes, QTypes', SignalsConserved, \A r : Owed(r)' = Owed(r),
           \A q \in Proc : sem'[q] + extraWaits'[q] + foreign[q] + Due(q)
                             = sem[q] + extraWaits[q] + foreign'[q] + Due(q)'
    PROVE  SignalsConserved'
<1> SUFFICES ASSUME NEW q \in Proc
             PROVE  sem'[q] + extraWaits'[q] + Cardinality(Owed(q)') = foreign'[q] + Due(q)'
  BY Zenon DEF SignalsConserved, Due
<1>1. PICK n \in Nat : n = Cardinality(Owed(q)) /\ n = Cardinality(Owed(q)')
  BY Zenon, OwedCount
<1>2. sem[q] + extraWaits[q] + n = foreign[q] + Due(q)
  BY Zenon, <1>1 DEF SignalsConserved, Due
<1>3. /\ sem[q] \in Nat /\ extraWaits[q] \in Nat /\ foreign[q] \in Nat
      /\ sem'[q] \in Nat /\ extraWaits'[q] \in Nat /\ foreign'[q] \in Nat
  BY Zenon DEF QTypes
<1>4. PICK d \in Nat : d = Due(q)
  BY SMTT(40), Z3T(40) DEF Due
<1>5. PICK e \in Nat : e = Due(q)'
  BY SMTT(40), Z3T(40) DEF Due
<1>6. sem'[q] + extraWaits'[q] + foreign[q] + d = sem[q] + extraWaits[q] + foreign'[q] + e
  BY Zenon, <1>4, <1>5
<1>7. sem[q] + extraWaits[q] + n = foreign[q] + d
  BY Zenon, <1>2, <1>4
<1>8. sem'[q] + extraWaits'[q] + n = foreign'[q] + e
  BY SMTT(40), Z3T(40), <1>3, <1>6, <1>7
<1> QED
  BY Zenon, <1>1, <1>5, <1>8

\* ... and what a process is due, when it does not move.
LEMMA DueSame ==
    ASSUME NEW q, pc'[q] = pc[q], lwWaiting'[q] = lwWaiting[q] PROVE Due(q)' = Due(q)
  BY Zenon, QueuedSame DEF Due

\* The local lists, when nobody changes them.
LEMMA LocalSame ==
    ASSUME OnLocal,
           \A q \in Proc : lwWaiting'[q] = "pending" <=> lwWaiting[q] = "pending",
           \A q \in Proc : /\ pc'[q] = "signal" <=> pc[q] = "signal"
                           /\ pc'[q] = "wake" <=> pc[q] = "wake",
           \A q \in Proc : Linked(q)' = Linked(q) /\ wakeup'[q] = wakeup[q]
    PROVE  OnLocal'
<1> SUFFICES ASSUME NEW q \in Proc
             PROVE  /\ pc'[q] \notin {"wake", "signal"} => wakeup'[q] = <<>>
                    /\ pc'[q] = "signal" => wakeup'[q] # <<>>
                    /\ NoDup(Linked(q)')
                    /\ \A p \in Proc : On(Linked(q)', p) => lwWaiting'[p] = "pending"
                    /\ \A p, r \in Proc : On(Linked(q)', p) /\ On(Linked(r)', p) => q = r
                    /\ lwWaiting'[q] = "pending" => \E r \in Proc : On(Linked(r)', q)
  BY Zenon DEF OnLocal, NoDup, On
<1>1. pc'[q] \notin {"wake", "signal"} => wakeup'[q] = <<>>
  BY Zenon DEF OnLocal
<1>2. pc'[q] = "signal" => wakeup'[q] # <<>>
  BY Zenon DEF OnLocal
<1>3. NoDup(Linked(q)')
  BY Zenon DEF OnLocal
<1>4. ASSUME NEW p \in Proc, On(Linked(q)', p) PROVE lwWaiting'[p] = "pending"
  <2>1. On(Linked(q), p)
    BY Zenon, <1>4
  <2>2. lwWaiting[p] = "pending"
    BY Zenon, <2>1 DEF OnLocal
  <2> QED
    BY Zenon, <2>2
<1>5. ASSUME NEW p \in Proc, NEW r \in Proc, On(Linked(q)', p), On(Linked(r)', p) PROVE q = r
  <2>1. On(Linked(q), p) /\ On(Linked(r), p)
    BY Zenon, <1>5
  <2> QED
    BY Zenon, <2>1 DEF OnLocal
<1>6. ASSUME lwWaiting'[q] = "pending" PROVE \E r \in Proc : On(Linked(r)', q)
  <2>1. lwWaiting[q] = "pending"
    BY Zenon, <1>6
  <2>2. PICK r \in Proc : On(Linked(r), q)
    BY Zenon, <2>1 DEF OnLocal
  <2>3. On(Linked(r)', q)
    BY Zenon, <2>2
  <2> QED
    BY Zenon, <2>3
<1> QED
  BY Zenon, <1>1, <1>2, <1>3, <1>4, <1>5, <1>6

\* A quiet step keeps the invariant of the lists.
LEMMA QuietKeeps ==
    ASSUME QueueCore, NEW p \in Proc, Quiet(p), QTypes'
    PROVE  QueueCore'
<1>1. \A q \in Proc : lwWaiting'[q] = lwWaiting[q] /\ lwWaitMode'[q] = lwWaitMode[q]
  BY Zenon DEF Quiet
<1>2. \A q \in Proc : /\ pc'[q] = "dequeue_out" <=> pc[q] = "dequeue_out"
                      /\ pc'[q] = "signal" <=> pc[q] = "signal"
                      /\ pc'[q] = "wake" <=> pc[q] = "wake"
  BY Zenon DEF Quiet, Apart, Busy
<1>3. AllTold'
  <2> SUFFICES ASSUME NEW q \in Proc PROVE Told(q)'
    BY Zenon DEF AllTold
  <2>1. CASE q = p
    BY Zenon, <2>1 DEF Quiet
  <2>2. CASE q # p
    BY Zenon, <2>2, <1>1, ToldSame DEF QueueCore, AllTold, Quiet, Apart
  <2> QED
    BY Zenon, <2>1, <2>2
<1>4. OnList'
  BY Zenon, <1>1, <1>2 DEF QueueCore, OnList, Quiet
<1>5. Flagged'
  BY Zenon, <1>1 DEF QueueCore, Flagged, Quiet, Apart
<1>6. FreeFirst'
  BY Zenon DEF QueueCore, FreeFirst, Quiet
<1>7. OnLocal'
  <2>1. \A q \in Proc : Linked(q)' = Linked(q)
    BY Zenon, <1>2 DEF Linked, Quiet
  <2>2. \A q \in Proc : wakeup'[q] = wakeup[q]
    BY Zenon DEF Quiet
  <2> QED
    BY Zenon, <1>1, <1>2, <2>1, <2>2, LocalSame DEF QueueCore, Quiet
<1>8. SignalsConserved'
  <2>1. \A r : Owed(r)' = Owed(r)
    BY Zenon, <1>2, OwedSame DEF Quiet
  <2>2. ASSUME NEW q \in Proc
        PROVE  sem'[q] + extraWaits'[q] + foreign[q] + Due(q)
                 = sem[q] + extraWaits[q] + foreign'[q] + Due(q)'
    <3>1. CASE q = p
      BY Zenon, <3>1 DEF Quiet
    <3>2. CASE q # p
      <4>1. Due(q)' = Due(q)
        BY Zenon, <3>2, <1>1, DueSame DEF Quiet, Apart
      <4> QED
        BY Zenon, <3>2, <4>1 DEF Quiet
    <3> QED
      BY Zenon, <3>1, <3>2
  <2> QED
    BY Zenon, <2>1, <2>2, SignalsKept DEF QueueCore
<1>9. ReleaseHeldBack'
  <2> SUFFICES ASSUME ~ release_ok' PROVE \E q \in Proc : Woken(q)'
    BY Zenon DEF ReleaseHeldBack
  <2>1. PICK q \in Proc : Woken(q)
    BY Zenon DEF QueueCore, ReleaseHeldBack, Quiet
  <2>2. CASE q = p
    BY Zenon, <2>1, <2>2 DEF Quiet
  <2>3. CASE q # p
    BY Zenon, <2>1, <2>3, <1>1 DEF Woken, Quiet, Apart
  <2> QED
    BY Zenon, <2>2, <2>3
<1>10. VarRelease'
  <2> SUFFICES ASSUME NEW q \in Proc, VarSleeper(q)' PROVE release_ok'
    BY Zenon DEF VarRelease
  <2>1. CASE q = p
    BY Zenon, <2>1 DEF QueueCore, VarRelease, Quiet
  <2>2. CASE q # p
    <3>1. VarSleeper(q)
      BY Zenon, <2>2, <1>1 DEF VarSleeper, Quiet, Apart
    <3> QED
      BY Zenon, <3>1 DEF QueueCore, VarRelease, Quiet
  <2> QED
    BY Zenon, <2>1, <2>2
<1> QED
  BY Zenon, <1>3, <1>4, <1>5, <1>6, <1>7, <1>8, <1>9, <1>10 DEF QueueCore

\* The lock stays attended ...
LEMMA AttendedKept ==
    ASSUME Attended, NEW p \in Proc, Apart(p), Free' => Free,
           \A q \in Proc : /\ lwWaiting'[q] = "waiting" => q = p \/ lwWaiting[q] = "waiting"
                           /\ lwWaiting[q] # "waiting" => q = p \/ lwWaiting'[q] # "waiting",
           Committed(p)' /\ Free' => Committed(p),
           Attends(p) /\ Free' => Attends(p)'
    PROVE  Attended'
<1> SUFFICES ASSUME Free', NEW q \in Proc, Committed(q)'
             PROVE  \E r \in Proc : Attends(r)'
  BY Zenon DEF Attended
<1>1. Committed(q)
  BY Zenon DEF Committed, Apart
<1>2. PICK r \in Proc : Attends(r)
  BY Zenon, <1>1 DEF Attended
<1>3. CASE r = p
  BY Zenon, <1>2, <1>3
<1>4. CASE r # p
  <2>1. Attends(r)'
    BY Zenon, <1>2, <1>4 DEF Attends, Apart
  <2> QED
    BY Zenon, <2>1
<1> QED
  BY Zenon, <1>3, <1>4

\* ... and a stale sleeper about to be woken.
LEMMA StaleKept ==
    ASSUME NoStaleSleeper, NEW p \in Proc, Apart(p), valptr' = valptr,
           \A q \in Proc : lwWaiting'[q] = "waiting" => q = p \/ lwWaiting[q] = "waiting",
           Stale(p)' => Stale(p),
           Releases(p) => Releases(p)'
    PROVE  NoStaleSleeper'
<1> SUFFICES ASSUME NEW q \in Proc, Stale(q)' PROVE \E r \in Proc : Releases(r)'
  BY Zenon DEF NoStaleSleeper, Stale, Releases
<1>1. Stale(q)
  <2>1. CASE q = p
    BY Zenon, <2>1
  <2>2. CASE q # p
    BY Zenon, <2>2 DEF Stale, Asleep, Apart
  <2> QED
    BY Zenon, <2>1, <2>2
<1>2. PICK r \in Proc : Releases(r)
  BY Zenon, <1>1 DEF NoStaleSleeper, Stale, Releases
<1>3. CASE r = p
  BY Zenon, <1>2, <1>3
<1>4. CASE r # p
  BY Zenon, <1>2, <1>4 DEF Releases, Apart
<1> QED
  BY Zenon, <1>3, <1>4

-----------------------------------------------------------------------------
(* The steps that leave the lists alone. *)

\* ... and nobody is left asleep by it, on conditions about p alone.
LEMMA QuietStep ==
    ASSUME QueueInv, NEW p \in Proc, Quiet(p), QTypes', valptr' = valptr, Free' => Free,
           Committed(p)' /\ Free' => Committed(p), Attends(p) /\ Free' => Attends(p)',
           Stale(p)' => Stale(p), Releases(p) => Releases(p)'
    PROVE  QueueInv'
<1>1. QueueCore /\ Attended /\ NoStaleSleeper /\ Apart(p) /\ lwWaiting' = lwWaiting
  BY Zenon DEF QueueInv, Quiet
<1>2. \A q \in Proc : /\ lwWaiting'[q] = "waiting" => q = p \/ lwWaiting[q] = "waiting"
                      /\ lwWaiting[q] # "waiting" => q = p \/ lwWaiting'[q] # "waiting"
  BY Zenon, <1>1
<1>3. QueueCore'
  BY Zenon, <1>1, QuietKeeps
<1>4. Attended'
  BY Zenon, <1>1, <1>2, AttendedKept
<1>5. NoStaleSleeper'
  BY Zenon, <1>1, <1>2, StaleKept
<1> QED
  BY Zenon, <1>3, <1>4, <1>5 DEF QueueInv

\* What returning from a call does, and going on in it.
LEMMA GotoIs ==
    ASSUME pc \in [Proc -> Location], NEW p \in Proc, NEW l, Goto(p, l)
    PROVE  pc'[p] = l /\ \A q \in Proc : q # p => pc'[q] = pc[q]
  BY Zenon DEF Goto

\* The call returns the signals it absorbed.
LEMMA ReturnIs ==
    ASSUME QTypes, NEW p \in Proc, NEW s \in Nat, Return(p, s)
    PROVE  /\ sem' \in [Proc -> Nat] /\ extraWaits' \in [Proc -> Nat]
           /\ sem'[p] + extraWaits'[p] = s + extraWaits[p]
           /\ \A q \in Proc : q # p => sem'[q] = sem[q] /\ extraWaits'[q] = extraWaits[q]
  BY SMTT(40), Z3T(40) DEF QTypes, Return, GiveBack

\* The call goes on with the semaphore as it is.
LEMMA GoOnIs ==
    ASSUME QTypes, NEW p \in Proc, NEW l, GoOn(p, l)
    PROVE  /\ sem' \in [Proc -> Nat] /\ extraWaits' \in [Proc -> Nat]
           /\ sem'[p] + extraWaits'[p] = sem[p] + extraWaits[p]
           /\ \A q \in Proc : q # p => sem'[q] = sem[q] /\ extraWaits'[q] = extraWaits[q]
  BY Zenon DEF QTypes, GoOn

\* The count of p's signals does not change when neither its sum does nor what it is due.
LEMMA SumSame ==
    ASSUME QTypes, QTypes', NEW p \in Proc, foreign'[p] = foreign[p], Due(p)' = Due(p),
           sem'[p] + extraWaits'[p] = sem[p] + extraWaits[p]
    PROVE  sem'[p] + extraWaits'[p] + foreign[p] + Due(p)
             = sem[p] + extraWaits[p] + foreign'[p] + Due(p)'
  BY Zenon

\* LWLockAttemptLock(), both times.
LEMMA AttemptQueue ==
    ASSUME LockInv, QueueInv, NEW p \in Proc, AttemptLock(p)
    PROVE  QueueInv'
<1>1. /\ pc \in [Proc -> Location] /\ own \in [Proc -> Held]
      /\ mode[p] \in {"shared", "exclusive"}
      /\ exclusive \in Nat /\ shared \in Nat
  BY Zenon DEF LockInv, Scalars
<1>2. /\ UNCHANGED <<waiters, wakeup, lwWaiting, lwWaitMode, foreign, valptr, call, mode, val>>
      /\ UNCHANGED <<has_waiters, release_ok>>
  BY Zenon DEF AttemptLock, proc, args, state, Grant, flags
<1>3. QTypes /\ Told(p)
  BY Zenon DEF QueueInv, QueueCore, AllTold
<1>4. \/ /\ CanLock(mode[p]) /\ Grant(p, mode[p]) /\ pc[p] = "attempt" /\ Return(p, sem[p])
      \/ /\ CanLock(mode[p]) /\ Grant(p, mode[p]) /\ pc[p] = "reattempt" /\ GoOn(p, "dequeue")
      \/ /\ ~ CanLock(mode[p]) /\ UNCHANGED <<state, own>> /\ pc[p] = "attempt"
         /\ GoOn(p, "queue")
      \/ /\ ~ CanLock(mode[p]) /\ UNCHANGED <<state, own>> /\ pc[p] = "reattempt"
         /\ GoOn(p, "sleep")
  BY Zenon DEF AttemptLock
<1>5. /\ sem' \in [Proc -> Nat] /\ extraWaits' \in [Proc -> Nat]
      /\ sem'[p] + extraWaits'[p] = sem[p] + extraWaits[p]
      /\ \A q \in Proc : q # p => sem'[q] = sem[q] /\ extraWaits'[q] = extraWaits[q]
  BY Zenon, <1>3, <1>4, ReturnIs, GoOnIs DEF QTypes
<1>6. /\ \/ pc[p] = "attempt" /\ pc'[p] \in {"idle", "queue"}
         \/ pc[p] = "reattempt" /\ pc'[p] = "dequeue" /\ own'[p] = mode[p]
         \/ pc[p] = "reattempt" /\ pc'[p] = "sleep"
      /\ \A q \in Proc : q # p => pc'[q] = pc[q] /\ own'[q] = own[q]
  <2>1. \E l : Goto(p, l) /\ \/ pc[p] = "attempt" /\ l \in {"idle", "queue"}
                             \/ pc[p] = "reattempt" /\ l = "dequeue" /\ Grant(p, mode[p])
                             \/ pc[p] = "reattempt" /\ l = "sleep"
    BY Zenon, <1>4 DEF Return, GoOn
  <2>2. own' = own \/ own' = [own EXCEPT ![p] = mode[p]]
    BY Zenon, <1>4 DEF Grant
  <2>3. Grant(p, mode[p]) => own'[p] = mode[p]
    BY Zenon, <1>1 DEF Grant
  <2> QED
    BY Zenon, <1>1, <2>1, <2>2, <2>3, GotoIs
<1>7. ~ Free'
  BY SMTT(40), Z3T(40), <1>1, <1>4 DEF Free, CanLock, Grant, state
<1>8. Told(p)'
  BY SMTT(40), Z3T(40), <1>1, <1>2, <1>3, <1>6 DEF Told, Queued, Wanted
<1>9. Due(p)' = Due(p)
  BY SMTT(40), Z3T(40), <1>2, <1>6 DEF Due, Queued
<1>10. (Woken(p) => Woken(p)') /\ ~ VarSleeper(p)'
  BY SMTT(40), Z3T(40), <1>2, <1>3, <1>6 DEF Woken, VarSleeper, Told
<1>11. QTypes'
  BY Zenon, <1>2, <1>3, <1>5 DEF QTypes
<1>12. Quiet(p)
  <2>1. Apart(p)
    BY Zenon, <1>2, <1>6 DEF Apart
  <2>2. pc[p] \notin Busy /\ pc'[p] \notin Busy /\ pc'[p] # "queue_in"
    BY SMTT(40), Z3T(40), <1>6 DEF Busy
  <2>3. sem'[p] + extraWaits'[p] + foreign[p] + Due(p)
          = sem[p] + extraWaits[p] + foreign'[p] + Due(p)'
    BY Zenon, <1>2, <1>3, <1>5, <1>9, <1>11, SumSame
  <2> QED
    BY Zenon, <1>2, <1>5, <1>8, <1>10, <2>1, <2>2, <2>3 DEF Quiet
<1>13. ~ Stale(p)' /\ ~ Releases(p)
  BY Zenon, <1>2, <1>3, <1>6 DEF Stale, Releases, Told
<1> QED
  BY Zenon, <1>2, <1>7, <1>11, <1>12, <1>13, QuietStep

\* Taking the wait list lock.
LEMMA EntryQueue ==
    ASSUME LockInv, QueueInv, NEW p \in Proc, LWLockWaitListLock(p)
    PROVE  QueueInv'
<1>1. /\ pc \in [Proc -> Location] /\ own \in [Proc -> Held]
      /\ mode \in [Proc -> {"shared", "exclusive"}]
      /\ exclusive \in Nat /\ shared \in Nat /\ Placed
  BY Zenon DEF LockInv, Scalars
<1>2. QTypes /\ Told(p) /\ Flagged
  BY Zenon DEF QueueInv, QueueCore, AllTold
<1>3. UNCHANGED <<waiters, wakeup, lwWaiting, lwWaitMode, foreign, valptr, call, mode, val, sem,
      extraWaits, own, exclusive, shared, has_waiters, release_ok>>
  BY Zenon DEF LWLockWaitListLock, proc, args
<1>4. /\ \A q \in Proc : q # p => pc'[q] = pc[q]
      /\ \/ pc[p] = "queue" /\ pc'[p] = "queue_flag"
         \/ pc[p] = "read" /\ pc'[p] = "read_in"
         \/ pc[p] = "reread" /\ pc'[p] = "reread_in"
         \/ pc[p] = "dequeue" /\ pc'[p] = "dequeue_in"
         \/ pc[p] = "update" /\ pc'[p] = "update_in"
         \/ pc[p] = "clear" /\ pc'[p] = "clear_in"
         \/ pc[p] = "wakeup" /\ pc'[p] = "wakeup_in"
      /\ has_waiters' = has_waiters /\ pc'[p] # "queue_in"
  BY SMTT(40), Z3T(40), <1>1, <1>3 DEF LWLockWaitListLock, Goto, EntryOf, Entries
<1>5. /\ \A q \in Proc : q # p =>
           sem'[q] = sem[q] /\ extraWaits'[q] = extraWaits[q] /\ foreign'[q] = foreign[q]
      /\ sem'[p] + extraWaits'[p] + foreign[p] + Due(p)
           = sem[p] + extraWaits[p] + foreign'[p] + Due(p)'
  <2>1. Due(p)' = Due(p)
    BY Zenon, <1>1, <1>2, <1>3, <1>4 DEF Due, Queued, Told
  <2> QED
    BY Zenon, <1>3, <2>1
<1>6. QTypes'
  BY Zenon, <1>2, <1>3 DEF QTypes
<1>7. Told(p)'
  BY Zenon, <1>1, <1>2, <1>3, <1>4 DEF Told, Queued, Wanted
<1>8. Apart(p)
  BY Zenon, <1>3, <1>4 DEF Apart
<1>9. /\ Woken(p) => Woken(p)' \/ release_ok'
      /\ VarSleeper(p)' => VarSleeper(p) \/ release_ok'
      /\ pc'[p] # pc[p] => pc[p] \notin Busy /\ pc'[p] \notin Busy
      /\ (has_waiters => has_waiters') /\ (release_ok => release_ok')
      /\ pc'[p] = "queue_in" => has_waiters'
  BY SMTT(40), Z3T(40), <1>1, <1>2, <1>3, <1>4 DEF Woken, VarSleeper, Told, Busy, Flagged
<1>10. Quiet(p)
  BY Zenon, <1>3, <1>5, <1>7, <1>8, <1>9 DEF Quiet
<1>11. Free' => Free
  BY Zenon, <1>3 DEF Free
<1>12. /\ Committed(p)' /\ Free' => Committed(p)
       /\ Attends(p) /\ Free' => Attends(p)'
  BY Zenon, <1>1, <1>2, <1>3, <1>4 DEF Committed, Attends, Free, Told
<1>13. (Stale(p)' => Stale(p)) /\ (Releases(p) => Releases(p)')
  BY Zenon, <1>1, <1>2, <1>3, <1>4 DEF Stale, Asleep, Releases, Told
<1> QED
  BY Zenon, <1>3, <1>6, <1>10, <1>11, <1>12, <1>13, QuietStep

\* Setting LW_FLAG_HAS_WAITERS.
LEMMA FlagQueue ==
    ASSUME LockInv, QueueInv, NEW p \in Proc, QueueFlag(p)
    PROVE  QueueInv'
<1>1. /\ pc \in [Proc -> Location] /\ own \in [Proc -> Held]
      /\ mode \in [Proc -> {"shared", "exclusive"}]
      /\ exclusive \in Nat /\ shared \in Nat /\ Placed
  BY Zenon DEF LockInv, Scalars
<1>2. QTypes /\ Told(p) /\ Flagged
  BY Zenon DEF QueueInv, QueueCore, AllTold
<1>3. UNCHANGED <<waiters, wakeup, lwWaiting, lwWaitMode, foreign, valptr, call, mode, val, sem,
      extraWaits, own, exclusive, shared, release_ok>>
  BY Zenon DEF QueueFlag, proc, args
<1>4. /\ \A q \in Proc : q # p => pc'[q] = pc[q]
      /\ pc[p] = "queue_flag" /\ pc'[p] = "queue_in" /\ has_waiters' = TRUE
  BY Zenon, <1>1, GotoIs DEF QueueFlag
<1>5. /\ \A q \in Proc : q # p =>
           sem'[q] = sem[q] /\ extraWaits'[q] = extraWaits[q] /\ foreign'[q] = foreign[q]
      /\ sem'[p] + extraWaits'[p] + foreign[p] + Due(p)
           = sem[p] + extraWaits[p] + foreign'[p] + Due(p)'
  <2>1. Due(p)' = Due(p)
    BY Zenon, <1>1, <1>2, <1>3, <1>4 DEF Due, Queued, Told
  <2> QED
    BY Zenon, <1>3, <2>1
<1>6. QTypes'
  BY Zenon, <1>2, <1>3, <1>4 DEF QTypes
<1>7. Told(p)'
  BY SMTT(40), Z3T(40), <1>1, <1>2, <1>3, <1>4 DEF Told, Queued, Wanted
<1>8. Apart(p)
  BY Zenon, <1>3, <1>4 DEF Apart
<1>9. /\ Woken(p) => Woken(p)' \/ release_ok'
      /\ VarSleeper(p)' => VarSleeper(p) \/ release_ok'
      /\ pc'[p] # pc[p] => pc[p] \notin Busy /\ pc'[p] \notin Busy
      /\ (has_waiters => has_waiters') /\ (release_ok => release_ok')
      /\ pc'[p] = "queue_in" => has_waiters'
  BY SMTT(40), Z3T(40), <1>1, <1>2, <1>3, <1>4 DEF Woken, VarSleeper, Told, Busy, Flagged
<1>10. Quiet(p)
  BY Zenon, <1>3, <1>5, <1>7, <1>8, <1>9 DEF Quiet
<1>11. Free' => Free
  BY Zenon, <1>3 DEF Free
<1>12. /\ Committed(p)' /\ Free' => Committed(p)
       /\ Attends(p) /\ Free' => Attends(p)'
  BY SMTT(40), Z3T(40), <1>1, <1>2, <1>3, <1>4 DEF Committed, Attends, Free, Told
<1>13. (Stale(p)' => Stale(p)) /\ (Releases(p) => Releases(p)')
  BY SMTT(40), Z3T(40), <1>1, <1>2, <1>3, <1>4 DEF Stale, Asleep, Releases, Told
<1> QED
  BY Zenon, <1>3, <1>6, <1>10, <1>11, <1>12, <1>13, QuietStep

\* Setting LW_FLAG_RELEASE_OK.
LEMMA OkQueue ==
    ASSUME LockInv, QueueInv, NEW p \in Proc, SetReleaseOk(p)
    PROVE  QueueInv'
<1>1. /\ pc \in [Proc -> Location] /\ own \in [Proc -> Held]
      /\ mode \in [Proc -> {"shared", "exclusive"}]
      /\ exclusive \in Nat /\ shared \in Nat /\ Placed
  BY Zenon DEF LockInv, Scalars
<1>2. QTypes /\ Told(p) /\ Flagged
  BY Zenon DEF QueueInv, QueueCore, AllTold
<1>3. UNCHANGED <<waiters, wakeup, lwWaiting, lwWaitMode, foreign, valptr, call, mode, val, sem,
      extraWaits, own, exclusive, shared, has_waiters>>
  BY Zenon DEF SetReleaseOk, proc, args
<1>4. /\ \A q \in Proc : q # p => pc'[q] = pc[q]
      /\ \/ pc[p] = "queued" /\ pc'[p] = "recheck"
         \/ pc[p] = "retry" /\ pc'[p] = "attempt"
         \/ pc[p] = "absorb" /\ pc'[p] = "dequeue_sleep"
      /\ release_ok' = TRUE /\ has_waiters' = has_waiters /\ pc'[p] # "queue_in"
  BY SMTT(40), Z3T(40), <1>1, <1>3 DEF SetReleaseOk, AllowRelease, Goto
<1>5. /\ \A q \in Proc : q # p =>
           sem'[q] = sem[q] /\ extraWaits'[q] = extraWaits[q] /\ foreign'[q] = foreign[q]
      /\ sem'[p] + extraWaits'[p] + foreign[p] + Due(p)
           = sem[p] + extraWaits[p] + foreign'[p] + Due(p)'
  <2>1. Due(p)' = Due(p)
    BY Zenon, <1>1, <1>2, <1>3, <1>4 DEF Due, Queued, Told
  <2> QED
    BY Zenon, <1>3, <2>1
<1>6. QTypes'
  BY Zenon, <1>2, <1>3, <1>4 DEF QTypes
<1>7. Told(p)'
  BY Zenon, <1>1, <1>2, <1>3, <1>4 DEF Told, Queued, Wanted
<1>8. Apart(p)
  BY Zenon, <1>3, <1>4 DEF Apart
<1>9. /\ Woken(p) => Woken(p)' \/ release_ok'
      /\ VarSleeper(p)' => VarSleeper(p) \/ release_ok'
      /\ pc'[p] # pc[p] => pc[p] \notin Busy /\ pc'[p] \notin Busy
      /\ (has_waiters => has_waiters') /\ (release_ok => release_ok')
      /\ pc'[p] = "queue_in" => has_waiters'
  BY SMTT(40), Z3T(40), <1>1, <1>2, <1>3, <1>4 DEF Woken, VarSleeper, Told, Busy, Flagged
<1>10. Quiet(p)
  BY Zenon, <1>3, <1>5, <1>7, <1>8, <1>9 DEF Quiet
<1>11. Free' => Free
  BY Zenon, <1>3 DEF Free
<1>12. /\ Committed(p)' /\ Free' => Committed(p)
       /\ Attends(p) /\ Free' => Attends(p)'
  BY Zenon, <1>1, <1>2, <1>3, <1>4 DEF Committed, Attends, Free, Told
<1>13. (Stale(p)' => Stale(p)) /\ (Releases(p) => Releases(p)')
  BY SMTT(40), Z3T(40), <1>1, <1>2, <1>3, <1>4 DEF Stale, Asleep, Releases, Told
<1> QED
  BY Zenon, <1>3, <1>6, <1>10, <1>11, <1>12, <1>13, QuietStep

\* The test of LWLockConflictsWithVar().
LEMMA ConflictQueue ==
    ASSUME LockInv, QueueInv, NEW p \in Proc, ConflictsWithVar(p)
    PROVE  QueueInv'
<1>1. /\ pc \in [Proc -> Location] /\ own \in [Proc -> Held]
      /\ mode \in [Proc -> {"shared", "exclusive"}]
      /\ exclusive \in Nat /\ shared \in Nat /\ Placed
  BY Zenon DEF LockInv, Scalars
<1>2. QTypes /\ Told(p) /\ Flagged
  BY Zenon DEF QueueInv, QueueCore, AllTold
<1>3. UNCHANGED <<waiters, wakeup, lwWaiting, lwWaitMode, foreign, valptr, call, mode, val, own,
      exclusive, shared, has_waiters, release_ok>>
  BY Zenon DEF ConflictsWithVar, proc, args, state
<1>4. /\ \A q \in Proc : q # p => pc'[q] = pc[q]
      /\ \/ pc[p] = "check" /\ pc'[p] \in {"read", "idle"}
         \/ pc[p] = "recheck" /\ pc'[p] = "dequeue"
         \/ pc[p] = "recheck" /\ pc'[p] = "reread" /\ exclusive # 0
      /\ has_waiters' = has_waiters /\ pc'[p] # "queue_in"
  BY SMTT(40), Z3T(40), <1>1, <1>3 DEF ConflictsWithVar, GoOn, Return, Goto
<1>5. /\ \A q \in Proc : q # p =>
           sem'[q] = sem[q] /\ extraWaits'[q] = extraWaits[q] /\ foreign'[q] = foreign[q]
      /\ sem'[p] + extraWaits'[p] + foreign[p] + Due(p)
           = sem[p] + extraWaits[p] + foreign'[p] + Due(p)'
  <2>1. Due(p)' = Due(p)
    BY Zenon, <1>1, <1>2, <1>3, <1>4 DEF Due, Queued, Told
  <2>2. /\ sem'[p] + extraWaits'[p] = sem[p] + extraWaits[p]
        /\ \A q \in Proc : q # p => sem'[q] = sem[q] /\ extraWaits'[q] = extraWaits[q]
    BY Zenon, <1>2, ReturnIs, GoOnIs DEF QTypes, ConflictsWithVar
  <2> QED
    BY Zenon, <1>3, <2>1, <2>2
<1>6. QTypes'
  <2>1. sem' \in [Proc -> Nat] /\ extraWaits' \in [Proc -> Nat]
    BY Zenon, <1>2, ReturnIs, GoOnIs DEF QTypes, ConflictsWithVar
  <2> QED
    BY Zenon, <1>2, <1>3, <2>1 DEF QTypes
<1>7. Told(p)'
  BY Zenon, <1>1, <1>2, <1>3, <1>4 DEF Told, Queued, Wanted
<1>8. Apart(p)
  BY Zenon, <1>3, <1>4 DEF Apart
<1>9. /\ Woken(p) => Woken(p)' \/ release_ok'
      /\ VarSleeper(p)' => VarSleeper(p) \/ release_ok'
      /\ pc'[p] # pc[p] => pc[p] \notin Busy /\ pc'[p] \notin Busy
      /\ (has_waiters => has_waiters') /\ (release_ok => release_ok')
      /\ pc'[p] = "queue_in" => has_waiters'
  BY SMTT(40), Z3T(40), <1>1, <1>2, <1>3, <1>4 DEF Woken, VarSleeper, Told, Busy, Flagged
<1>10. Quiet(p)
  BY Zenon, <1>3, <1>5, <1>7, <1>8, <1>9 DEF Quiet
<1>11. Free' => Free
  BY Zenon, <1>3 DEF Free
<1>12. /\ Committed(p)' /\ Free' => Committed(p)
       /\ Attends(p) /\ Free' => Attends(p)'
  BY Zenon, <1>1, <1>2, <1>3, <1>4 DEF Committed, Attends, Free, Told
<1>13. (Stale(p)' => Stale(p)) /\ (Releases(p) => Releases(p)')
  BY Zenon, <1>1, <1>2, <1>3, <1>4 DEF Stale, Asleep, Releases, Told
<1> QED
  BY Zenon, <1>3, <1>6, <1>10, <1>11, <1>12, <1>13, QuietStep

\* Reading the variable.
LEMMA ReadQueue ==
    ASSUME LockInv, QueueInv, NEW p \in Proc, ReadVar(p)
    PROVE  QueueInv'
<1>1. /\ pc \in [Proc -> Location] /\ own \in [Proc -> Held]
      /\ mode \in [Proc -> {"shared", "exclusive"}]
      /\ exclusive \in Nat /\ shared \in Nat /\ Placed
  BY Zenon DEF LockInv, Scalars
<1>2. QTypes /\ Told(p) /\ Flagged
  BY Zenon DEF QueueInv, QueueCore, AllTold
<1>3. UNCHANGED <<waiters, wakeup, lwWaiting, lwWaitMode, foreign, valptr, call, mode, val, own,
      exclusive, shared, has_waiters, release_ok>>
  BY Zenon DEF ReadVar, proc, args, Unlock
<1>4. /\ \A q \in Proc : q # p => pc'[q] = pc[q]
      /\ \/ pc[p] = "read_in" /\ pc'[p] \in {"queue", "idle"}
         \/ pc[p] = "reread_in" /\ pc'[p] = "dequeue"
         \/ pc[p] = "reread_in" /\ pc'[p] = "sleep" /\ valptr = val[p]
      /\ has_waiters' = has_waiters /\ pc'[p] # "queue_in"
  BY SMTT(40), Z3T(40), <1>1, <1>3 DEF ReadVar, GoOn, Return, Goto
<1>5. /\ \A q \in Proc : q # p =>
           sem'[q] = sem[q] /\ extraWaits'[q] = extraWaits[q] /\ foreign'[q] = foreign[q]
      /\ sem'[p] + extraWaits'[p] + foreign[p] + Due(p)
           = sem[p] + extraWaits[p] + foreign'[p] + Due(p)'
  <2>1. Due(p)' = Due(p)
    BY Zenon, <1>1, <1>2, <1>3, <1>4 DEF Due, Queued, Told
  <2>2. /\ sem'[p] + extraWaits'[p] = sem[p] + extraWaits[p]
        /\ \A q \in Proc : q # p => sem'[q] = sem[q] /\ extraWaits'[q] = extraWaits[q]
    BY Zenon, <1>2, ReturnIs, GoOnIs DEF QTypes, ReadVar
  <2> QED
    BY Zenon, <1>3, <2>1, <2>2
<1>6. QTypes'
  <2>1. sem' \in [Proc -> Nat] /\ extraWaits' \in [Proc -> Nat]
    BY Zenon, <1>2, ReturnIs, GoOnIs DEF QTypes, ReadVar
  <2> QED
    BY Zenon, <1>2, <1>3, <2>1 DEF QTypes
<1>7. Told(p)'
  BY Zenon, <1>1, <1>2, <1>3, <1>4 DEF Told, Queued, Wanted
<1>8. Apart(p)
  BY Zenon, <1>3, <1>4 DEF Apart
<1>9. /\ Woken(p) => Woken(p)' \/ release_ok'
      /\ VarSleeper(p)' => VarSleeper(p) \/ release_ok'
      /\ pc'[p] # pc[p] => pc[p] \notin Busy /\ pc'[p] \notin Busy
      /\ (has_waiters => has_waiters') /\ (release_ok => release_ok')
      /\ pc'[p] = "queue_in" => has_waiters'
  BY SMTT(40), Z3T(40), <1>1, <1>2, <1>3, <1>4 DEF Woken, VarSleeper, Told, Busy, Flagged
<1>10. Quiet(p)
  BY Zenon, <1>3, <1>5, <1>7, <1>8, <1>9 DEF Quiet
<1>11. Free' => Free
  BY Zenon, <1>3 DEF Free
<1>12. /\ Committed(p)' /\ Free' => Committed(p)
       /\ Attends(p) /\ Free' => Attends(p)'
  BY Zenon, <1>1, <1>2, <1>3, <1>4 DEF Committed, Attends, Free, Told
<1>13. (Stale(p)' => Stale(p)) /\ (Releases(p) => Releases(p)')
  BY Zenon, <1>1, <1>2, <1>3, <1>4 DEF Stale, Asleep, Releases, Told
<1> QED
  BY Zenon, <1>3, <1>6, <1>10, <1>11, <1>12, <1>13, QuietStep

\* Starting LWLockReleaseClearVar().
LEMMA ClearStartQueue ==
    ASSUME LockInv, QueueInv, NEW p \in Proc, StartReleaseClearVar(p)
    PROVE  QueueInv'
<1>1. /\ pc \in [Proc -> Location] /\ own \in [Proc -> Held]
      /\ mode \in [Proc -> {"shared", "exclusive"}]
      /\ exclusive \in Nat /\ shared \in Nat /\ Placed
  BY Zenon DEF LockInv, Scalars
<1>2. QTypes /\ Told(p) /\ Flagged
  BY Zenon DEF QueueInv, QueueCore, AllTold
<1>3. UNCHANGED <<waiters, wakeup, lwWaiting, lwWaitMode, foreign, valptr, call, mode, val, sem,
      extraWaits, own, exclusive, shared, has_waiters, release_ok>>
  BY Zenon DEF StartReleaseClearVar, proc, args, state
<1>4. /\ \A q \in Proc : q # p => pc'[q] = pc[q]
      /\ pc[p] = "idle" /\ pc'[p] = "clear"
      /\ has_waiters' = has_waiters /\ pc'[p] # "queue_in"
  BY SMTT(40), Z3T(40), <1>1, <1>3 DEF StartReleaseClearVar, Goto
<1>5. /\ \A q \in Proc : q # p =>
           sem'[q] = sem[q] /\ extraWaits'[q] = extraWaits[q] /\ foreign'[q] = foreign[q]
      /\ sem'[p] + extraWaits'[p] + foreign[p] + Due(p)
           = sem[p] + extraWaits[p] + foreign'[p] + Due(p)'
  <2>1. Due(p)' = Due(p)
    BY Zenon, <1>1, <1>2, <1>3, <1>4 DEF Due, Queued, Told
  <2> QED
    BY Zenon, <1>3, <2>1
<1>6. QTypes'
  BY Zenon, <1>2, <1>3 DEF QTypes
<1>7. Told(p)'
  BY Zenon, <1>1, <1>2, <1>3, <1>4 DEF Told, Queued, Wanted
<1>8. Apart(p)
  BY Zenon, <1>3, <1>4 DEF Apart
<1>9. /\ Woken(p) => Woken(p)' \/ release_ok'
      /\ VarSleeper(p)' => VarSleeper(p) \/ release_ok'
      /\ pc'[p] # pc[p] => pc[p] \notin Busy /\ pc'[p] \notin Busy
      /\ (has_waiters => has_waiters') /\ (release_ok => release_ok')
      /\ pc'[p] = "queue_in" => has_waiters'
  BY SMTT(40), Z3T(40), <1>1, <1>2, <1>3, <1>4 DEF Woken, VarSleeper, Told, Busy, Flagged
<1>10. Quiet(p)
  BY Zenon, <1>3, <1>5, <1>7, <1>8, <1>9 DEF Quiet
<1>11. Free' => Free
  BY Zenon, <1>3 DEF Free
<1>12. /\ Committed(p)' /\ Free' => Committed(p)
       /\ Attends(p) /\ Free' => Attends(p)'
  BY Zenon, <1>1, <1>2, <1>3, <1>4 DEF Committed, Attends, Free, Told
<1>13. (Stale(p)' => Stale(p)) /\ (Releases(p) => Releases(p)')
  BY Zenon, <1>1, <1>2, <1>3, <1>4 DEF Stale, Asleep, Releases, Told
<1> QED
  BY Zenon, <1>3, <1>6, <1>10, <1>11, <1>12, <1>13, QuietStep

\* Starting LWLockUpdateVar().
LEMMA UpdateStartQueue ==
    ASSUME LockInv, QueueInv, NEW p \in Proc, StartUpdateVar(p)
    PROVE  QueueInv'
<1>1. /\ pc \in [Proc -> Location] /\ own \in [Proc -> Held]
      /\ mode \in [Proc -> {"shared", "exclusive"}]
      /\ exclusive \in Nat /\ shared \in Nat /\ Placed
  BY Zenon DEF LockInv, Scalars
<1>2. QTypes /\ Told(p) /\ Flagged
  BY Zenon DEF QueueInv, QueueCore, AllTold
<1>3. UNCHANGED <<waiters, wakeup, lwWaiting, lwWaitMode, foreign, valptr, call, mode, sem,
      extraWaits, own, exclusive, shared, has_waiters, release_ok>>
  BY Zenon DEF StartUpdateVar, proc, state
<1>4. /\ \A q \in Proc : q # p => pc'[q] = pc[q] /\ val'[q] = val[q]
      /\ pc[p] = "idle" /\ pc'[p] = "update"
      /\ val' = [q \in Proc |-> val'[q]]
      /\ has_waiters' = has_waiters /\ pc'[p] # "queue_in"
  <2>1. PICK v : val' = [val EXCEPT ![p] = v]
    BY Zenon DEF StartUpdateVar
  <2>2. val = [q \in Proc |-> val[q]]
    BY Zenon, <1>2 DEF QTypes
  <2>3. /\ \A q \in Proc : q # p => val'[q] = val[q]
        /\ val' = [q \in Proc |-> val'[q]]
    BY SMTT(40), Z3T(40), <2>1, <2>2
  <2> QED
    BY SMTT(40), Z3T(40), <1>1, <1>3, <2>3 DEF StartUpdateVar, Goto
<1>5. /\ \A q \in Proc : q # p =>
           sem'[q] = sem[q] /\ extraWaits'[q] = extraWaits[q] /\ foreign'[q] = foreign[q]
      /\ sem'[p] + extraWaits'[p] + foreign[p] + Due(p)
           = sem[p] + extraWaits[p] + foreign'[p] + Due(p)'
  <2>1. Due(p)' = Due(p)
    BY SMTT(40), Z3T(40), <1>1, <1>2, <1>3, <1>4 DEF Due, Queued, Told
  <2> QED
    BY Zenon, <1>3, <2>1
<1>6. QTypes'
  BY Zenon, <1>2, <1>3, <1>4 DEF QTypes
<1>7. Told(p)'
  BY SMTT(40), Z3T(40), <1>1, <1>2, <1>3, <1>4 DEF Told, Queued, Wanted
<1>8. Apart(p)
  BY Zenon, <1>3, <1>4 DEF Apart
<1>9. /\ Woken(p) => Woken(p)' \/ release_ok'
      /\ VarSleeper(p)' => VarSleeper(p) \/ release_ok'
      /\ pc'[p] # pc[p] => pc[p] \notin Busy /\ pc'[p] \notin Busy
      /\ (has_waiters => has_waiters') /\ (release_ok => release_ok')
      /\ pc'[p] = "queue_in" => has_waiters'
  BY SMTT(40), Z3T(40), <1>1, <1>2, <1>3, <1>4 DEF Woken, VarSleeper, Told, Busy, Flagged
<1>10. Quiet(p)
  BY Zenon, <1>3, <1>5, <1>7, <1>8, <1>9 DEF Quiet
<1>11. Free' => Free
  BY Zenon, <1>3 DEF Free
<1>12. /\ Committed(p)' /\ Free' => Committed(p)
       /\ Attends(p) /\ Free' => Attends(p)'
  BY SMTT(40), Z3T(40), <1>1, <1>2, <1>3, <1>4 DEF Committed, Attends, Free, Told
<1>13. (Stale(p)' => Stale(p)) /\ (Releases(p) => Releases(p)')
  BY SMTT(40), Z3T(40), <1>1, <1>2, <1>3, <1>4 DEF Stale, Asleep, Releases, Told
<1> QED
  BY Zenon, <1>3, <1>6, <1>10, <1>11, <1>12, <1>13, QuietStep

\* Starting to acquire the lock, or to wait for the variable.
LEMMA StartQueue ==
    ASSUME LockInv, QueueInv, NEW p \in Proc, NEW c \in CallName, NEW l, NEW m, NEW v,
           (c = "waitvar" /\ l = "check") \/ (c \in {"acquire", "orwait"} /\ l = "attempt"),
           Start(p, c, l, m, v)
    PROVE  QueueInv'
<1>1. /\ pc \in [Proc -> Location] /\ own \in [Proc -> Held]
      /\ mode \in [Proc -> {"shared", "exclusive"}]
      /\ exclusive \in Nat /\ shared \in Nat /\ Placed
  BY Zenon DEF LockInv, Scalars
<1>2. QTypes /\ Told(p) /\ Flagged
  BY Zenon DEF QueueInv, QueueCore, AllTold
<1>3. UNCHANGED <<waiters, wakeup, lwWaiting, lwWaitMode, foreign, valptr, sem, extraWaits, own,
      exclusive, shared, has_waiters, release_ok>>
  BY Zenon DEF Start, proc, state
<1>4. /\ \A q \in Proc : q # p => /\ pc'[q] = pc[q] /\ val'[q] = val[q]
                                  /\ call'[q] = call[q] /\ mode'[q] = mode[q]
      /\ pc[p] = "idle" /\ pc'[p] = l /\ call'[p] = c
      /\ call' \in [Proc -> CallName] /\ val' = [q \in Proc |-> val'[q]]
      /\ has_waiters' = has_waiters /\ l \in {"check", "attempt"} /\ pc'[p] # "queue_in"
      /\ (c = "waitvar" /\ l = "check") \/ (c \in {"acquire", "orwait"} /\ l = "attempt")
  <2>1. /\ val' = [val EXCEPT ![p] = v] /\ call' = [call EXCEPT ![p] = c]
        /\ mode' = [mode EXCEPT ![p] = m] /\ pc[p] = "idle" /\ Goto(p, l)
    BY Zenon DEF Start
  <2>2. val = [q \in Proc |-> val[q]] /\ call \in [Proc -> CallName]
    BY Zenon, <1>2 DEF QTypes
  <2>3. /\ \A q \in Proc : q # p => val'[q] = val[q]
        /\ val' = [q \in Proc |-> val'[q]]
    BY SMTT(40), Z3T(40), <2>1, <2>2
  <2>4. \A q \in Proc : q # p => pc'[q] = pc[q] /\ call'[q] = call[q] /\ mode'[q] = mode[q]
    BY Zenon, <1>1, <2>1, <2>2, GotoIs
  <2>5. pc'[p] = l /\ call'[p] = c /\ call' \in [Proc -> CallName]
    BY Zenon, <1>1, <2>1, <2>2, GotoIs
  <2>6. l \in {"check", "attempt"} /\ l # "queue_in"
    BY SMTT(40), Z3T(40)
  <2> QED
    BY Zenon, <1>3, <2>1, <2>3, <2>4, <2>5, <2>6
<1>5. /\ \A q \in Proc : q # p =>
           sem'[q] = sem[q] /\ extraWaits'[q] = extraWaits[q] /\ foreign'[q] = foreign[q]
      /\ sem'[p] + extraWaits'[p] + foreign[p] + Due(p)
           = sem[p] + extraWaits[p] + foreign'[p] + Due(p)'
  <2>1. Due(p)' = Due(p)
    BY SMTT(40), Z3T(40), <1>1, <1>2, <1>3, <1>4 DEF Due, Queued, Told
  <2> QED
    BY Zenon, <1>3, <2>1
<1>6. QTypes'
  BY Zenon, <1>2, <1>3, <1>4 DEF QTypes
<1>7. Told(p)'
  BY Zenon, <1>1, <1>2, <1>3, <1>4 DEF Told, Queued, Wanted
<1>8. Apart(p)
  BY Zenon, <1>3, <1>4 DEF Apart
<1>9. /\ Woken(p) => Woken(p)' \/ release_ok'
      /\ VarSleeper(p)' => VarSleeper(p) \/ release_ok'
      /\ pc'[p] # pc[p] => pc[p] \notin Busy /\ pc'[p] \notin Busy
      /\ (has_waiters => has_waiters') /\ (release_ok => release_ok')
      /\ pc'[p] = "queue_in" => has_waiters'
  BY SMTT(40), Z3T(40), <1>1, <1>2, <1>3, <1>4 DEF Woken, VarSleeper, Told, Busy, Flagged
<1>10. Quiet(p)
  BY Zenon, <1>3, <1>5, <1>7, <1>8, <1>9 DEF Quiet
<1>11. Free' => Free
  BY Zenon, <1>3 DEF Free
<1>12. /\ Committed(p)' /\ Free' => Committed(p)
       /\ Attends(p) /\ Free' => Attends(p)'
  BY SMTT(40), Z3T(40), <1>1, <1>2, <1>3, <1>4 DEF Committed, Attends, Free, Told
<1>13. (Stale(p)' => Stale(p)) /\ (Releases(p) => Releases(p)')
  BY SMTT(40), Z3T(40), <1>1, <1>2, <1>3, <1>4 DEF Stale, Asleep, Releases, Told
<1> QED
  BY Zenon, <1>3, <1>6, <1>10, <1>11, <1>12, <1>13, QuietStep

\* LWLockConditionalAcquire(), when it gets the lock.
LEMMA ConditionalQueue ==
    ASSUME LockInv, QueueInv, NEW p \in Proc, NEW m \in LockModes, LWLockConditionalAcquire(p, m)
    PROVE  QueueInv'
<1>1. /\ pc \in [Proc -> Location] /\ own \in [Proc -> Held]
      /\ mode \in [Proc -> {"shared", "exclusive"}]
      /\ exclusive \in Nat /\ shared \in Nat /\ Placed
  BY Zenon DEF LockInv, Scalars
<1>2. QTypes /\ Told(p) /\ Flagged
  BY Zenon DEF QueueInv, QueueCore, AllTold
<1>3. UNCHANGED <<waiters, wakeup, lwWaiting, lwWaitMode, foreign, valptr, call, mode, val, sem,
      extraWaits, pc, has_waiters, release_ok>>
  BY Zenon DEF LWLockConditionalAcquire, proc, args, Grant, flags
<1>4. /\ \A q \in Proc : q # p => pc'[q] = pc[q] /\ own'[q] = own[q]
      /\ pc[p] = "idle" /\ pc'[p] = "idle" /\ pc'[p] # "queue_in"
      /\ has_waiters' = has_waiters
      /\ ~ Free'
  <2>1. CanLock(m) /\ Grant(p, m) /\ pc[p] = "idle"
    BY Zenon DEF LWLockConditionalAcquire
  <2>2. ~ Free'
    BY SMTT(40), Z3T(40), <1>1, <2>1 DEF Free, CanLock, Grant, LockModes
  <2>3. \A q \in Proc : q # p => own'[q] = own[q]
    BY Zenon, <1>1, <2>1 DEF Grant
  <2> QED
    BY Zenon, <1>3, <2>1, <2>2, <2>3
<1>5. /\ \A q \in Proc : q # p =>
           sem'[q] = sem[q] /\ extraWaits'[q] = extraWaits[q] /\ foreign'[q] = foreign[q]
      /\ sem'[p] + extraWaits'[p] + foreign[p] + Due(p)
           = sem[p] + extraWaits[p] + foreign'[p] + Due(p)'
  <2>1. Due(p)' = Due(p)
    BY Zenon, <1>1, <1>2, <1>3, <1>4 DEF Due, Queued, Told
  <2> QED
    BY Zenon, <1>3, <2>1
<1>6. QTypes'
  BY Zenon, <1>2, <1>3 DEF QTypes
<1>7. Told(p)'
  BY Zenon, <1>1, <1>2, <1>3, <1>4 DEF Told, Queued, Wanted
<1>8. Apart(p)
  BY Zenon, <1>3, <1>4 DEF Apart
<1>9. /\ Woken(p) => Woken(p)' \/ release_ok'
      /\ VarSleeper(p)' => VarSleeper(p) \/ release_ok'
      /\ pc'[p] # pc[p] => pc[p] \notin Busy /\ pc'[p] \notin Busy
      /\ (has_waiters => has_waiters') /\ (release_ok => release_ok')
      /\ pc'[p] = "queue_in" => has_waiters'
  BY SMTT(40), Z3T(40), <1>1, <1>2, <1>3, <1>4 DEF Woken, VarSleeper, Told, Busy, Flagged
<1>10. Quiet(p)
  BY Zenon, <1>3, <1>5, <1>7, <1>8, <1>9 DEF Quiet
<1>11. Free' => Free
  BY Zenon, <1>4
<1>12. /\ Committed(p)' /\ Free' => Committed(p)
       /\ Attends(p) /\ Free' => Attends(p)'
  BY Zenon, <1>4
<1>13. (Stale(p)' => Stale(p)) /\ (Releases(p) => Releases(p)')
  BY Zenon, <1>1, <1>2, <1>3, <1>4 DEF Stale, Asleep, Releases, Told
<1> QED
  BY Zenon, <1>3, <1>6, <1>10, <1>11, <1>12, <1>13, QuietStep

\* A signal from elsewhere.
LEMMA ForeignQueue ==
    ASSUME LockInv, QueueInv, NEW p \in Proc, ForeignSignal(p)
    PROVE  QueueInv'
<1>1. /\ pc \in [Proc -> Location] /\ own \in [Proc -> Held]
      /\ mode \in [Proc -> {"shared", "exclusive"}]
      /\ exclusive \in Nat /\ shared \in Nat /\ Placed
  BY Zenon DEF LockInv, Scalars
<1>2. QTypes /\ Told(p) /\ Flagged
  BY Zenon DEF QueueInv, QueueCore, AllTold
<1>3. UNCHANGED <<waiters, wakeup, lwWaiting, lwWaitMode, valptr, call, mode, val, extraWaits,
      pc, own, exclusive, shared, has_waiters, release_ok>>
  BY Zenon DEF ForeignSignal, proc, args, state
<1>4. /\ \A q \in Proc : q # p => sem'[q] = sem[q] /\ foreign'[q] = foreign[q]
      /\ sem'[p] = sem[p] + 1 /\ foreign'[p] = foreign[p] + 1
      /\ sem' \in [Proc -> Nat] /\ foreign' \in [Proc -> Nat]
      /\ pc'[p] = pc[p] /\ has_waiters' = has_waiters
  BY SMTT(40), Z3T(40), <1>2, <1>3 DEF ForeignSignal, QTypes
<1>5. /\ \A q \in Proc : q # p =>
           sem'[q] = sem[q] /\ extraWaits'[q] = extraWaits[q] /\ foreign'[q] = foreign[q]
      /\ sem'[p] + extraWaits'[p] + foreign[p] + Due(p)
           = sem[p] + extraWaits[p] + foreign'[p] + Due(p)'
  <2>1. Due(p)' = Due(p)
    BY Zenon, <1>3 DEF Due, Queued
  <2>2. sem[p] \in Nat /\ foreign[p] \in Nat /\ extraWaits[p] \in Nat
    BY Zenon, <1>2 DEF QTypes
  <2>3. PICK d \in Nat : d = Due(p) /\ d = Due(p)'
    BY SMTT(40), Z3T(40), <2>1 DEF Due
  <2>4. sem'[p] + extraWaits[p] + foreign[p] + d = sem[p] + extraWaits[p] + foreign'[p] + d
    BY SMTT(40), Z3T(40), <1>4, <2>2
  <2> QED
    BY Zenon, <1>3, <1>4, <2>3, <2>4
<1>6. QTypes'
  BY Zenon, <1>2, <1>3, <1>4 DEF QTypes
<1>7. Told(p)'
  BY Zenon, <1>1, <1>2, <1>3, <1>4 DEF Told, Queued, Wanted
<1>8. Apart(p)
  BY Zenon, <1>3, <1>4 DEF Apart
<1>9. /\ Woken(p) => Woken(p)' \/ release_ok'
      /\ VarSleeper(p)' => VarSleeper(p) \/ release_ok'
      /\ pc'[p] # pc[p] => pc[p] \notin Busy /\ pc'[p] \notin Busy
      /\ (has_waiters => has_waiters') /\ (release_ok => release_ok')
      /\ pc'[p] = "queue_in" => has_waiters'
  BY SMTT(40), Z3T(40), <1>1, <1>2, <1>3, <1>4 DEF Woken, VarSleeper, Told, Busy, Flagged
<1>10. Quiet(p)
  BY Zenon, <1>3, <1>5, <1>7, <1>8, <1>9 DEF Quiet
<1>11. Free' => Free
  BY Zenon, <1>3 DEF Free
<1>12. /\ Committed(p)' /\ Free' => Committed(p)
       /\ Attends(p) /\ Free' => Attends(p)'
  BY Zenon, <1>1, <1>2, <1>3, <1>4 DEF Committed, Attends, Free, Told
<1>13. (Stale(p)' => Stale(p)) /\ (Releases(p) => Releases(p)')
  BY Zenon, <1>1, <1>2, <1>3, <1>4 DEF Stale, Asleep, Releases, Told
<1> QED
  BY Zenon, <1>3, <1>6, <1>10, <1>11, <1>12, <1>13, QuietStep

\* A turn of the loop around PGSemaphoreLock().
LEMMA SleepQueue ==
    ASSUME LockInv, QueueInv, NEW p \in Proc, Sleep(p)
    PROVE  QueueInv'
<1>1. /\ pc \in [Proc -> Location] /\ own \in [Proc -> Held]
      /\ mode \in [Proc -> {"shared", "exclusive"}]
      /\ exclusive \in Nat /\ shared \in Nat /\ Placed
  BY Zenon DEF LockInv, Scalars
<1>2. QTypes /\ Told(p) /\ Flagged
  BY Zenon DEF QueueInv, QueueCore, AllTold
<1>3. UNCHANGED <<waiters, wakeup, lwWaiting, lwWaitMode, foreign, valptr, call, mode, val, own,
      exclusive, shared, has_waiters, release_ok>>
  BY Zenon DEF Sleep, proc, args, state
<1>4. /\ \A q \in Proc : q # p => /\ pc'[q] = pc[q]
                                  /\ sem'[q] = sem[q] /\ extraWaits'[q] = extraWaits[q]
      /\ pc[p] \in {"sleep", "dequeue_sleep"}
      /\ \/ pc'[p] = pc[p] /\ lwWaiting[p] # "not_waiting"
            /\ sem'[p] + extraWaits'[p] = sem[p] + extraWaits[p]
         \/ /\ lwWaiting[p] = "not_waiting"
            /\ \/ pc[p] = "sleep" /\ call[p] = "acquire" /\ pc'[p] = "retry"
               \/ pc[p] = "sleep" /\ call[p] = "waitvar" /\ pc'[p] = "check"
               \/ (pc[p] = "dequeue_sleep" \/ call[p] = "orwait") /\ pc'[p] = "idle"
            /\ sem'[p] + extraWaits'[p] + 1 = sem[p] + extraWaits[p]
      /\ sem' \in [Proc -> Nat] /\ extraWaits' \in [Proc -> Nat]
      /\ has_waiters' = has_waiters /\ pc'[p] # "queue_in"
  <2>1. sem \in [Proc -> Nat] /\ extraWaits \in [Proc -> Nat] /\ sem[p] > 0 /\ sem[p] \in Nat
    BY Zenon, <1>2 DEF QTypes, Sleep
  <2>2. pc[p] \in {"sleep", "dequeue_sleep"}
    BY Zenon DEF Sleep
  <2>3. CASE lwWaiting[p] # "not_waiting"
    <3>1. /\ sem' = [sem EXCEPT ![p] = @ - 1] /\ extraWaits' = [extraWaits EXCEPT ![p] = @ + 1]
          /\ pc' = pc
      BY Zenon, <2>3 DEF Sleep
    <3>2. /\ sem' \in [Proc -> Nat] /\ extraWaits' \in [Proc -> Nat]
          /\ sem'[p] + extraWaits'[p] = sem[p] + extraWaits[p]
          /\ \A q \in Proc : q # p => sem'[q] = sem[q] /\ extraWaits'[q] = extraWaits[q]
      BY SMTT(40), Z3T(40), <2>1, <3>1
    <3>3. pc'[p] # "queue_in"
      BY SMTT(40), Z3T(40), <2>2, <3>1
    <3> QED
      BY Zenon, <1>3, <2>2, <2>3, <3>1, <3>2, <3>3
  <2>4. CASE lwWaiting[p] = "not_waiting" /\ (pc[p] = "dequeue_sleep" \/ call[p] = "orwait")
    <3>1. Return(p, sem[p] - 1) /\ sem[p] - 1 \in Nat
      BY SMTT(40), Z3T(40), <2>1, <2>4 DEF Sleep
    <3>2. /\ sem' \in [Proc -> Nat] /\ extraWaits' \in [Proc -> Nat]
          /\ sem'[p] + extraWaits'[p] = sem[p] - 1 + extraWaits[p]
          /\ \A q \in Proc : q # p => sem'[q] = sem[q] /\ extraWaits'[q] = extraWaits[q]
      BY Zenon, <1>2, <3>1, ReturnIs
    <3>3. sem'[p] + extraWaits'[p] + 1 = sem[p] + extraWaits[p]
      BY SMTT(40), Z3T(40), <2>1, <3>2
    <3>4. pc'[p] = "idle" /\ \A q \in Proc : q # p => pc'[q] = pc[q]
      BY Zenon, <1>1, <3>1, GotoIs DEF Return
    <3> QED
      BY Zenon, <1>3, <2>2, <2>4, <3>2, <3>3, <3>4
  <2>5. CASE lwWaiting[p] = "not_waiting" /\ ~ (pc[p] = "dequeue_sleep" \/ call[p] = "orwait")
    <3>1. /\ sem' = [sem EXCEPT ![p] = @ - 1] /\ extraWaits' = extraWaits
          /\ Goto(p, IF call[p] = "acquire" THEN "retry" ELSE "check")
      BY Zenon, <2>5 DEF Sleep
    <3>2. /\ sem' \in [Proc -> Nat] /\ extraWaits' \in [Proc -> Nat]
          /\ sem'[p] + extraWaits'[p] + 1 = sem[p] + extraWaits[p]
          /\ \A q \in Proc : q # p => sem'[q] = sem[q] /\ extraWaits'[q] = extraWaits[q]
      BY SMTT(40), Z3T(40), <2>1, <3>1
    <3>3. /\ pc'[p] = IF call[p] = "acquire" THEN "retry" ELSE "check"
          /\ \A q \in Proc : q # p => pc'[q] = pc[q]
      BY Zenon, <1>1, <3>1, GotoIs
    <3>4. pc[p] = "sleep" /\ call[p] # "orwait" /\ pc'[p] # "queue_in"
      BY SMTT(40), Z3T(40), <2>2, <2>5, <3>3
    <3>5. \/ call[p] = "acquire" /\ pc'[p] = "retry"
          \/ call[p] = "waitvar" /\ pc'[p] = "check"
      <4>1. call[p] \in CallName /\ call[p] # "conditional"
        BY Zenon, <1>2, <3>4 DEF QTypes, Told
      <4> QED
        BY SMTT(40), Z3T(40), <3>3, <3>4, <4>1 DEF CallName
    <3> QED
      BY Zenon, <1>3, <2>2, <2>5, <3>2, <3>3, <3>4, <3>5
  <2> QED
    BY Zenon, <2>3, <2>4, <2>5
<1>5. /\ \A q \in Proc : q # p =>
           sem'[q] = sem[q] /\ extraWaits'[q] = extraWaits[q] /\ foreign'[q] = foreign[q]
      /\ sem'[p] + extraWaits'[p] + foreign[p] + Due(p)
           = sem[p] + extraWaits[p] + foreign'[p] + Due(p)'
  <2>1. sem[p] \in Nat /\ extraWaits[p] \in Nat /\ foreign[p] \in Nat
    BY Zenon, <1>2 DEF QTypes
  <2>2. sem'[p] \in Nat /\ extraWaits'[p] \in Nat
    BY Zenon, <1>4
  <2>3. CASE lwWaiting[p] # "not_waiting"
    <3>1. Due(p) = 0 /\ Due(p)' = 0
      BY Zenon, <1>3, <2>3 DEF Due
    <3>2. sem'[p] + extraWaits'[p] = sem[p] + extraWaits[p]
      BY Zenon, <1>4, <2>3
    <3> QED
      BY Zenon, <1>3, <1>4, <2>1, <2>2, <3>1, <3>2
  <2>4. CASE lwWaiting[p] = "not_waiting"
    <3>1. Due(p) = 1 /\ Due(p)' = 0
      BY Zenon, <1>3, <1>4, <2>4 DEF Due, Queued
    <3>2. sem'[p] + extraWaits'[p] + 1 = sem[p] + extraWaits[p]
      BY Zenon, <1>4, <2>4
    <3> QED
      BY SMTT(40), Z3T(40), <1>3, <1>4, <2>1, <2>2, <3>1, <3>2
  <2> QED
    BY Zenon, <2>3, <2>4
<1>6. QTypes'
  BY Zenon, <1>2, <1>3, <1>4 DEF QTypes
<1>7. Told(p)'
  BY Zenon, <1>1, <1>2, <1>3, <1>4 DEF Told, Queued, Wanted
<1>8. Apart(p)
  BY Zenon, <1>3, <1>4 DEF Apart
<1>9. /\ Woken(p) => Woken(p)' \/ release_ok'
      /\ VarSleeper(p)' => VarSleeper(p) \/ release_ok'
      /\ pc'[p] # pc[p] => pc[p] \notin Busy /\ pc'[p] \notin Busy
      /\ (has_waiters => has_waiters') /\ (release_ok => release_ok')
      /\ pc'[p] = "queue_in" => has_waiters'
  BY SMTT(40), Z3T(40), <1>1, <1>2, <1>3, <1>4 DEF Woken, VarSleeper, Told, Busy, Flagged
<1>10. Quiet(p)
  BY Zenon, <1>3, <1>5, <1>7, <1>8, <1>9 DEF Quiet
<1>11. Free' => Free
  BY Zenon, <1>3 DEF Free
<1>12. /\ Committed(p)' /\ Free' => Committed(p)
       /\ Attends(p) /\ Free' => Attends(p)'
  BY Zenon, <1>1, <1>2, <1>3, <1>4 DEF Committed, Attends, Free, Told
<1>13. (Stale(p)' => Stale(p)) /\ (Releases(p) => Releases(p)')
  BY Zenon, <1>1, <1>2, <1>3, <1>4 DEF Stale, Asleep, Releases, Told
<1> QED
  BY Zenon, <1>3, <1>6, <1>10, <1>11, <1>12, <1>13, QuietStep

-----------------------------------------------------------------------------
(* LWLockRelease() and LWLockReleaseClearVar(). *)

\* A process that has the lock keeps it from being free.
LEMMA HeldNotFree ==
    ASSUME LockInv', NEW p \in Proc, own'[p] # "none" PROVE ~ Free'
<1>1. own'[p] \in {"shared", "exclusive"}
  BY Zenon DEF LockInv, Scalars, Held
<1>2. PICK m \in {"shared", "exclusive"} : m = own'[p]
  BY Zenon, <1>1
<1>3. p \in Owners(m)'
  BY Zenon, <1>2 DEF Owners
<1>4. Owners(m)' \in SUBSET Proc
  BY Zenon DEF Owners
<1>5. IsFiniteSet(Owners(m)') /\ Cardinality(Owners(m)') # 0
  <2>1. IsFiniteSet(Owners(m)')
    BY Zenon, <1>4, LWLockAssumption, FS_Subset DEF LWLockAssumption
  <2>2. Owners(m)' # {}
    BY Zenon, <1>3
  <2> QED
    BY Zenon, <2>1, <2>2, FS_EmptySet
<1>6. exclusive' = Cardinality(Owners("exclusive")') /\ shared' = Cardinality(Owners("shared")')
  BY Zenon DEF LockInv, MutualExclusion
<1> QED
  BY Zenon, <1>2, <1>5, <1>6 DEF Free

\* The exclusive holder is the only one.
LEMMA ExclusiveIsOne ==
    ASSUME LockInv, NEW p \in Proc, own[p] = "exclusive" PROVE exclusive = 1 /\ shared = 0
<1>1. p \in Owners("exclusive") /\ Owners("exclusive") \in SUBSET Proc
  BY Zenon DEF Owners
<1>2. IsFiniteSet(Owners("exclusive")) /\ Owners("exclusive") # {}
  BY Zenon, <1>1, LWLockAssumption, FS_Subset DEF LWLockAssumption
<1>3. Cardinality(Owners("exclusive")) # 0
  BY Zenon, <1>2, FS_EmptySet
<1> QED
  BY SMTT(40), Z3T(40), <1>3 DEF LockInv, MutualExclusion, Scalars

\* A process that waits and has not dequeued itself is on the list, and the flag is set.
LEMMA WaiterFlagged ==
    ASSUME QueueCore, NEW q \in Proc, lwWaiting[q] = "waiting", pc[q] # "dequeue_out"
    PROVE  On(waiters, q) /\ waiters # <<>> /\ has_waiters
<1>1. On(waiters, q)
  BY Zenon DEF QueueCore, OnList
<1>2. waiters # <<>>
  BY SMTT(40), Z3T(40), <1>1 DEF On
<1> QED
  BY Zenon, <1>1, <1>2 DEF QueueCore, Flagged

\* Releasing the lock.
LEMMA ReleaseQueue ==
    ASSUME LockInv, LockInv', QueueInv, NEW p \in Proc, LWLockRelease(p)
    PROVE  QueueInv'
<1>1. /\ pc \in [Proc -> Location] /\ own \in [Proc -> Held]
      /\ exclusive \in Nat /\ shared \in Nat /\ Placed
  BY Zenon DEF LockInv, Scalars
<1>2. QTypes /\ Told(p) /\ QueueCore /\ Attended /\ NoStaleSleeper
  BY Zenon DEF QueueInv, QueueCore, AllTold
<1>3. UNCHANGED <<waiters, wakeup, lwWaiting, lwWaitMode, foreign, valptr, call, mode, val,
                  sem, extraWaits, has_waiters, release_ok>>
  BY Zenon DEF LWLockRelease, proc, args, flags
<1>4. /\ \A q \in Proc : q # p => pc'[q] = pc[q] /\ own'[q] = own[q]
      /\ pc[p] \in {"release", "idle"}
      /\ pc'[p] = IF CheckWaiters THEN "wakeup" ELSE "idle"
  <2>1. Goto(p, IF CheckWaiters THEN "wakeup" ELSE "idle") /\ own' = [own EXCEPT ![p] = "none"]
    BY Zenon DEF LWLockRelease
  <2>2. pc[p] \in {"release", "idle"}
    BY Zenon DEF LWLockRelease
  <2> QED
    BY Zenon, <1>1, <2>1, <2>2, GotoIs
<1>5. pc'[p] \in {"wakeup", "idle"} /\ (CheckWaiters => pc'[p] = "wakeup")
  BY Zenon, <1>4
<1>6. QTypes'
  BY Zenon, <1>2, <1>3 DEF QTypes
<1>7. Told(p)'
  BY Zenon, <1>2, <1>3, <1>4, <1>5 DEF Told, Queued, Wanted
<1>8. Apart(p)
  BY Zenon, <1>3, <1>4 DEF Apart
<1>9. Quiet(p)
  <2>1. Due(p)' = Due(p)
    BY Zenon, <1>2, <1>3, <1>4, <1>5 DEF Due, Queued, Told
  <2>2. sem'[p] + extraWaits'[p] + foreign[p] + Due(p)
          = sem[p] + extraWaits[p] + foreign'[p] + Due(p)'
    BY Zenon, <1>3, <2>1
  <2>3. /\ ~ Woken(p) /\ ~ VarSleeper(p)' /\ pc[p] \notin Busy /\ pc'[p] \notin Busy
        /\ pc'[p] # "queue_in"
    BY Zenon, <1>4, <1>5 DEF Woken, VarSleeper, Busy
  <2> QED
    BY Zenon, <1>3, <1>7, <1>8, <2>2, <2>3 DEF Quiet
<1>10. QueueCore'
  BY Zenon, <1>2, <1>6, <1>9, QuietKeeps
<1>11. Attended'
  <2> SUFFICES ASSUME Free', NEW q \in Proc, Committed(q)'
               PROVE  \E r \in Proc : Attends(r)'
    BY Zenon DEF Attended
  <2>1. q # p
    BY SMTT(40), Z3T(40), <1>5 DEF Committed
  <2>2. lwWaiting[q] = "waiting" /\ pc[q] # "dequeue_out"
    BY Zenon, <1>3, <1>4, <2>1 DEF Committed
  <2>3. has_waiters
    BY Zenon, <1>2, <2>2, WaiterFlagged
  <2>4. CASE release_ok
    <3>1. CheckWaiters
      BY Zenon, <2>3, <2>4 DEF CheckWaiters, Free
    <3>2. Attends(p)'
      BY Zenon, <1>5, <3>1 DEF Attends
    <3> QED
      BY Zenon, <3>2
  <2>5. CASE ~ release_ok
    <3>1. PICK r \in Proc : Woken(r)
      BY Zenon, <1>2, <2>5 DEF QueueCore, ReleaseHeldBack
    <3>2. r # p
      BY Zenon, <1>4, <3>1 DEF Woken
    <3>3. own[r] = "none"
      BY Zenon, <1>4, <3>2, HeldNotFree
    <3>4. Told(r)
      BY Zenon, <1>2 DEF QueueCore, AllTold
    <3>5. Attends(r)
      BY Zenon, <3>1, <3>3, <3>4 DEF Woken, Attends, Told
    <3>6. Attends(r)'
      BY Zenon, <1>3, <1>4, <3>2, <3>5 DEF Attends
    <3> QED
      BY Zenon, <3>6
  <2> QED
    BY Zenon, <2>4, <2>5
<1>12. NoStaleSleeper'
  <2> SUFFICES ASSUME NEW q \in Proc, Stale(q)' PROVE \E r \in Proc : Releases(r)'
    BY Zenon DEF NoStaleSleeper, Stale, Releases
  <2>1. q # p
    BY SMTT(40), Z3T(40), <1>5 DEF Stale, Asleep
  <2>2. Stale(q)
    BY Zenon, <1>3, <1>4, <2>1 DEF Stale, Asleep
  <2>3. PICK r \in Proc : Releases(r)
    BY Zenon, <1>2, <2>2 DEF NoStaleSleeper, Stale, Releases
  <2>4. CASE r # p
    BY Zenon, <1>4, <2>3, <2>4 DEF Releases
  <2>5. CASE r = p
    <3>1. own[p] = "exclusive"
      BY Zenon, <1>1, <1>4, <2>3, <2>5 DEF Releases, Placed, Holding
    <3>2. exclusive = 1 /\ shared = 0
      BY Zenon, <3>1, ExclusiveIsOne
    <3>3. exclusive' = 0 /\ shared' = 0
      BY SMTT(40), Z3T(40), <3>1, <3>2 DEF LWLockRelease, Unhold
    <3>4. has_waiters
      <4>1. lwWaiting[q] = "waiting" /\ pc[q] # "dequeue_out"
        BY Zenon, <2>2 DEF Stale, Asleep
      <4> QED
        BY Zenon, <1>2, <4>1, WaiterFlagged
    <3>5. release_ok
      <4>1. VarSleeper(q)
        BY Zenon, <2>2 DEF Stale, Asleep, VarSleeper
      <4> QED
        BY Zenon, <1>2, <4>1 DEF QueueCore, VarRelease
    <3>6. CheckWaiters
      BY Zenon, <3>3, <3>4, <3>5 DEF CheckWaiters
    <3> QED
      BY Zenon, <1>5, <3>6 DEF Releases
  <2> QED
    BY Zenon, <2>4, <2>5
<1> QED
  BY Zenon, <1>10, <1>11, <1>12 DEF QueueInv

\* LWLockReleaseClearVar() up to its LWLockRelease().
LEMMA ClearQueue ==
    ASSUME LockInv, QueueInv, NEW p \in Proc, LWLockReleaseClearVar(p)
    PROVE  QueueInv'
<1>1. pc \in [Proc -> Location]
  BY Zenon DEF LockInv, Scalars
<1>2. QTypes /\ Told(p) /\ QueueCore /\ Attended /\ NoStaleSleeper
  BY Zenon DEF QueueInv, QueueCore, AllTold
<1>3. UNCHANGED <<waiters, wakeup, lwWaiting, lwWaitMode, foreign, call, mode, val,
                  sem, extraWaits, has_waiters, release_ok, exclusive, shared, own>>
  BY Zenon DEF LWLockReleaseClearVar, proc, args, Unlock
<1>4. /\ \A q \in Proc : q # p => pc'[q] = pc[q]
      /\ pc[p] = "clear_in" /\ pc'[p] = "release"
  BY Zenon, <1>1, GotoIs DEF LWLockReleaseClearVar
<1>5. QTypes'
  BY Zenon, <1>2, <1>3 DEF QTypes
<1>6. Told(p)'
  BY Zenon, <1>2, <1>3, <1>4 DEF Told, Queued, Wanted
<1>7. Apart(p)
  BY Zenon, <1>3, <1>4 DEF Apart
<1>8. Quiet(p)
  <2>1. Due(p)' = Due(p)
    BY Zenon, <1>2, <1>3, <1>4 DEF Due, Queued, Told
  <2>2. sem'[p] + extraWaits'[p] + foreign[p] + Due(p)
          = sem[p] + extraWaits[p] + foreign'[p] + Due(p)'
    BY Zenon, <1>3, <2>1
  <2>3. /\ ~ Woken(p) /\ ~ VarSleeper(p)' /\ pc[p] \notin Busy /\ pc'[p] \notin Busy
        /\ pc'[p] # "queue_in"
    BY Zenon, <1>4 DEF Woken, VarSleeper, Busy
  <2> QED
    BY Zenon, <1>3, <1>6, <1>7, <2>2, <2>3 DEF Quiet
<1>9. QueueCore'
  BY Zenon, <1>2, <1>5, <1>8, QuietKeeps
<1>10. Attended'
  <2>1. ~ Committed(p)' /\ ~ Attends(p)
    BY Zenon, <1>4 DEF Committed, Attends
  <2>2. Free' => Free
    BY Zenon, <1>3 DEF Free
  <2> QED
    BY Zenon, <1>2, <1>3, <1>7, <2>1, <2>2, AttendedKept
<1>11. NoStaleSleeper'
  BY Zenon, <1>4 DEF NoStaleSleeper
<1> QED
  BY Zenon, <1>9, <1>10, <1>11 DEF QueueInv

-----------------------------------------------------------------------------
(* A process queues itself and dequeues itself. *)

\* A step of p that changes the wait list by p alone.
Self(p) ==
    /\ wakeup' = wakeup /\ Apart(p) /\ Told(p)'
    /\ \A q \in Proc : q # p => lwWaiting'[q] = lwWaiting[q] /\ lwWaitMode'[q] = lwWaitMode[q]
    /\ lwWaiting'[p] # "pending" /\ lwWaiting[p] # "pending"
    /\ pc[p] \notin {"wake", "signal"} /\ pc'[p] \notin {"wake", "signal"}
    /\ NoDup(waiters')
    /\ \A q \in Proc : q # p => (On(waiters', q) <=> On(waiters, q))
    /\ On(waiters', p) <=> (lwWaiting'[p] = "waiting" /\ pc'[p] # "dequeue_out")
    /\ UNCHANGED <<sem, extraWaits, foreign>> \/ (Return(p, sem[p]) /\ UNCHANGED foreign)
    /\ Due(p) = 0 /\ Due(p)' = 0
    /\ release_ok' = release_ok
    /\ ~ Woken(p) /\ ~ VarSleeper(p)'

\* A step with which p puts itself on the wait list or takes itself off.
LEMMA SelfKeeps ==
    ASSUME QueueCore, NEW p \in Proc, Self(p), QTypes', Flagged', FreeFirst'
    PROVE  QueueCore'
<1>1. QTypes
  BY Zenon DEF QueueCore
<1>2. \A q \in Proc : q # p => pc'[q] = pc[q] /\ lwWaiting'[q] = lwWaiting[q]
  BY Zenon DEF Self, Apart
<1>3. AllTold'
  <2> SUFFICES ASSUME NEW q \in Proc PROVE Told(q)'
    BY Zenon DEF AllTold
  <2>1. CASE q = p
    BY Zenon, <2>1 DEF Self
  <2>2. CASE q # p
    BY Zenon, <2>2, ToldSame DEF QueueCore, AllTold, Self, Apart
  <2> QED
    BY Zenon, <2>1, <2>2
<1>4. OnList'
  <2> SUFFICES ASSUME NEW q \in Proc
               PROVE  On(waiters', q) <=> (lwWaiting'[q] = "waiting" /\ pc'[q] # "dequeue_out")
    BY Zenon DEF OnList, Self
  <2>1. CASE q = p
    BY Zenon, <2>1 DEF Self
  <2>2. CASE q # p
    <3>1. On(waiters', q) <=> On(waiters, q)
      BY Zenon, <2>2 DEF Self
    <3>2. On(waiters, q) <=> (lwWaiting[q] = "waiting" /\ pc[q] # "dequeue_out")
      BY Zenon DEF QueueCore, OnList
    <3> QED
      BY Zenon, <1>2, <2>2, <3>1, <3>2
  <2> QED
    BY Zenon, <2>1, <2>2
<1>5. \A q \in Proc : /\ pc'[q] = "signal" <=> pc[q] = "signal"
                      /\ pc'[q] = "wake" <=> pc[q] = "wake"
  BY Zenon, <1>2 DEF Self
<1>6. wakeup' = wakeup
  BY Zenon DEF Self
<1>7. OnLocal'
  <2>1. \A q \in Proc : Linked(q)' = Linked(q) /\ wakeup'[q] = wakeup[q]
    BY Zenon, <1>5, <1>6 DEF Linked
  <2>2. \A q \in Proc : lwWaiting'[q] = "pending" <=> lwWaiting[q] = "pending"
    BY Zenon, <1>2 DEF Self
  <2> QED
    BY Zenon, <1>5, <2>1, <2>2, LocalSame DEF QueueCore
<1>8. SignalsConserved'
  <2>1. \A r : Owed(r)' = Owed(r)
    BY Zenon, <1>5, <1>6, OwedSame
  <2>2. ASSUME NEW q \in Proc
        PROVE  sem'[q] + extraWaits'[q] + foreign[q] + Due(q)
                 = sem[q] + extraWaits[q] + foreign'[q] + Due(q)'
    <3>1. Due(q)' = Due(q)
      <4>1. CASE q = p
        BY Zenon, <4>1 DEF Self
      <4>2. CASE q # p
        BY Zenon, <4>2, <1>2, DueSame
      <4> QED
        BY Zenon, <4>1, <4>2
    <3>2. foreign'[q] = foreign[q]
      BY Zenon DEF Self
    <3>3. sem'[q] + extraWaits'[q] = sem[q] + extraWaits[q]
      <4>1. CASE UNCHANGED <<sem, extraWaits, foreign>>
        BY Zenon, <4>1
      <4>2. CASE Return(p, sem[p])
        <5>1. sem[p] \in Nat
          BY Zenon, <1>1 DEF QTypes
        <5>2. /\ sem'[p] + extraWaits'[p] = sem[p] + extraWaits[p]
              /\ q # p => sem'[q] = sem[q] /\ extraWaits'[q] = extraWaits[q]
          BY Zenon, <1>1, <4>2, <5>1, ReturnIs
        <5> QED
          BY Zenon, <5>2
      <4> QED
        BY Zenon, <4>1, <4>2 DEF Self
    <3> QED
      BY Zenon, <3>1, <3>2, <3>3
  <2> QED
    BY Zenon, <1>1, <2>1, <2>2, SignalsKept DEF QueueCore
<1>9. ReleaseHeldBack'
  <2> SUFFICES ASSUME ~ release_ok' PROVE \E q \in Proc : Woken(q)'
    BY Zenon DEF ReleaseHeldBack
  <2>1. PICK q \in Proc : Woken(q)
    BY Zenon DEF QueueCore, ReleaseHeldBack, Self
  <2>2. q # p
    BY Zenon, <2>1 DEF Self
  <2>3. Woken(q)'
    BY Zenon, <2>1, <2>2 DEF Woken, Self, Apart
  <2> QED
    BY Zenon, <2>3
<1>10. VarRelease'
  <2> SUFFICES ASSUME NEW q \in Proc, VarSleeper(q)' PROVE release_ok'
    BY Zenon DEF VarRelease
  <2>1. q # p
    BY Zenon DEF Self
  <2>2. VarSleeper(q)
    BY Zenon, <2>1 DEF VarSleeper, Self, Apart
  <2> QED
    BY Zenon, <2>2 DEF QueueCore, VarRelease, Self
<1> QED
  BY Zenon, <1>3, <1>4, <1>7, <1>8, <1>9, <1>10 DEF QueueCore

\* ... and nobody is left asleep by it.
LEMMA SelfStep ==
    ASSUME QueueInv, NEW p \in Proc, Self(p), QTypes', Flagged', FreeFirst',
           UNCHANGED <<valptr, exclusive, shared>>,
           ~ Committed(p)', Attends(p) => Attends(p)',
           ~ Releases(p)
    PROVE  QueueInv'
<1>1. QueueCore /\ Attended /\ NoStaleSleeper /\ Apart(p)
  BY Zenon DEF QueueInv, Self
<1>2. \A q \in Proc : /\ lwWaiting'[q] = "waiting" => q = p \/ lwWaiting[q] = "waiting"
                      /\ lwWaiting[q] # "waiting" => q = p \/ lwWaiting'[q] # "waiting"
  BY Zenon DEF Self
<1>3. QueueCore'
  BY Zenon, <1>1, SelfKeeps
<1>4. (Free' => Free) /\ ~ Stale(p)'
  BY Zenon DEF Free, Stale, Asleep, Committed
<1>5. Attended'
  BY Zenon, <1>1, <1>2, <1>4, AttendedKept
<1>6. NoStaleSleeper'
  BY Zenon, <1>1, <1>2, <1>4, StaleKept
<1> QED
  BY Zenon, <1>3, <1>5, <1>6 DEF QueueInv

\* Of two entries of Those the first comes first in the list.
LEMMA ThosePair ==
    ASSUME NEW s \in Seq(Proc), NEW w, NEW t, t = Those(s, w)
    PROVE  \A i, j \in 1 .. Len(t) : i < j =>
             \E k, l \in 1 .. Len(s) :
               k < l /\ t[i] = s[k] /\ t[j] = s[l] /\ s[k] \in w /\ s[l] \in w
<1> SUFFICES ASSUME NEW i \in 1 .. Len(t), NEW j \in 1 .. Len(t), i < j
             PROVE  \E k, l \in 1 .. Len(s) :
                      k < l /\ t[i] = s[k] /\ t[j] = s[l] /\ s[k] \in w /\ s[l] \in w
  BY Zenon
<1>1. PICK h : /\ Picks(Those(s, w), s, h)
               /\ \A n \in 1 .. Len(s) :
                    s[n] \in w <=> \E k \in 1 .. Len(Those(s, w)) : h[k] = n
  <2>1. \E h : /\ Picks(Those(s, w), s, h)
               /\ \A n \in 1 .. Len(s) :
                    s[n] \in w <=> \E k \in 1 .. Len(Those(s, w)) : h[k] = n
    BY SMTT(40), Z3T(40), ThoseIs
  <2> QED
    BY Zenon, <2>1
<1>2. Picks(t, s, h) /\ \A n \in 1 .. Len(s) : s[n] \in w <=> \E k \in 1 .. Len(t) : h[k] = n
  BY Zenon, <1>1
<1>3. /\ h[i] \in 1 .. Len(s) /\ h[j] \in 1 .. Len(s) /\ h[i] < h[j]
      /\ t[i] = s[h[i]] /\ t[j] = s[h[j]]
  BY Zenon, <1>2 DEF Picks
<1>4. s[h[i]] \in w /\ s[h[j]] \in w
  BY Zenon, <1>2, <1>3
<1> QED
  BY Zenon, <1>3, <1>4

\* A list from which processes were taken keeps its order.
LEMMA ThoseOrdered ==
    ASSUME QTypes, FreeFirst, NEW w, waiters' = Those(waiters, w),
           \A q \in Proc : q \in w => lwWaitMode'[q] = lwWaitMode[q]
    PROVE  FreeFirst'
<1>1. waiters \in Seq(Proc)
  BY Zenon DEF QTypes
<1>2. PICK t : t = waiters' /\ t = Those(waiters, w)
  BY Zenon
<1>3. \A i, j \in 1 .. Len(t) : i < j =>
        \E k, l \in 1 .. Len(waiters) : /\ k < l /\ t[i] = waiters[k] /\ t[j] = waiters[l]
                                        /\ waiters[k] \in w /\ waiters[l] \in w
  BY SMTT(40), <1>1, <1>2, ThosePair
<1>4. ASSUME NEW i \in 1 .. Len(t), NEW j \in 1 .. Len(t), i < j,
             lwWaitMode'[t[j]] = "until_free"
      PROVE  lwWaitMode'[t[i]] = "until_free"
  <2>1. PICK k, l \in 1 .. Len(waiters) : /\ k < l /\ t[i] = waiters[k] /\ t[j] = waiters[l]
                                          /\ waiters[k] \in w /\ waiters[l] \in w
    BY SMTT(40), <1>3, <1>4
  <2>2. waiters[k] \in Proc /\ waiters[l] \in Proc
    BY SMTT(40), <1>1
  <2> QED
    BY Zenon, <1>4, <2>1, <2>2 DEF FreeFirst
<1> QED
  BY Zenon, <1>2, <1>4 DEF FreeFirst

\* LWLockQueueSelf()
LEMMA EnqueueQueue ==
    ASSUME LockInv, QueueInv, NEW p \in Proc, LWLockQueueSelf(p)
    PROVE  QueueInv'
<1>1. pc \in [Proc -> Location] /\ mode[p] \in {"shared", "exclusive"}
  BY Zenon DEF LockInv, Scalars
<1>2. QTypes /\ Told(p) /\ QueueCore
  BY Zenon DEF QueueInv, QueueCore, AllTold
<1>3. /\ UNCHANGED <<wakeup, foreign, valptr, call, mode, val,
                     sem, extraWaits, has_waiters, release_ok, exclusive, shared, own>>
      /\ pc[p] = "queue_in"
      /\ lwWaitMode' = [lwWaitMode EXCEPT ![p] = Wanted(p)]
      /\ lwWaiting' = [lwWaiting EXCEPT ![p] = "waiting"]
      /\ waiters' = Push(Wanted(p), p)
      /\ Goto(p, IF call[p] = "waitvar" THEN "queued" ELSE "reattempt")
  BY Zenon DEF LWLockQueueSelf, args, Unlock, Wanted
<1>4. /\ \A q \in Proc : q # p => /\ pc'[q] = pc[q] /\ lwWaiting'[q] = lwWaiting[q]
                                  /\ lwWaitMode'[q] = lwWaitMode[q]
      /\ pc'[p] = IF call[p] = "waitvar" THEN "queued" ELSE "reattempt"
      /\ lwWaiting'[p] = "waiting" /\ lwWaitMode'[p] = Wanted(p)
  BY Zenon, <1>1, <1>2, <1>3, GotoIs DEF QTypes
<1>5. /\ lwWaiting[p] = "not_waiting" /\ has_waiters
      /\ Wanted(p) \in {"shared", "exclusive", "until_free"}
      /\ call[p] # "conditional" /\ call[p] \in CallName
  <2>1. lwWaiting[p] = "not_waiting" /\ call[p] # "conditional"
    BY Zenon, <1>2, <1>3 DEF Told, Queued
  <2>2. has_waiters
    BY Zenon, <1>2, <1>3 DEF QueueCore, Flagged
  <2>3. Wanted(p) \in {"shared", "exclusive", "until_free"}
    BY SMTT(40), Z3T(40), <1>1 DEF Wanted
  <2> QED
    BY Zenon, <1>2, <2>1, <2>2, <2>3 DEF QTypes
<1>6. waiters \in Seq(Proc) /\ NoDup(waiters) /\ ~ On(waiters, p)
  <2>1. lwWaiting[p] # "waiting"
    BY SMTT(40), Z3T(40), <1>5
  <2> QED
    BY Zenon, <1>2, <2>1 DEF QTypes, QueueCore, OnList
<1>7. /\ waiters' \in Seq(Proc) /\ NoDup(waiters')
      /\ \A q : On(waiters', q) <=> (On(waiters, q) \/ q = p)
  <2>1. waiters' = IF Wanted(p) = "until_free" THEN <<p>> \o waiters ELSE Append(waiters, p)
    BY Zenon, <1>3 DEF Push
  <2>2. waiters' = <<p>> \o waiters \/ waiters' = Append(waiters, p)
    BY Zenon, <2>1
  <2>3. CASE waiters' = <<p>> \o waiters
    BY Zenon, <1>6, <2>3, Prepends
  <2>4. CASE waiters' = Append(waiters, p)
    BY Zenon, <1>6, <2>4, Appends
  <2> QED
    BY Zenon, <2>2, <2>3, <2>4
<1>8. QTypes'
  <2>1. lwWaiting' \in [Proc -> WaitState]
    BY SMTT(40), Z3T(40), <1>2, <1>3 DEF QTypes, WaitState
  <2>2. lwWaitMode' \in [Proc -> {"shared", "exclusive", "until_free"}]
    BY Zenon, <1>2, <1>3, <1>5 DEF QTypes
  <2> QED
    BY Zenon, <1>2, <1>3, <1>7, <2>1, <2>2 DEF QTypes
<1>9. Flagged'
  BY Zenon, <1>3, <1>5 DEF Flagged
<1>10. FreeFirst'
  <2> SUFFICES ASSUME NEW i \in 1 .. Len(waiters'), NEW j \in 1 .. Len(waiters'), i < j,
                      lwWaitMode'[waiters'[j]] = "until_free"
               PROVE  lwWaitMode'[waiters'[i]] = "until_free"
    BY Zenon DEF FreeFirst
  <2>1. ASSUME NEW k \in 1 .. Len(waiters)
        PROVE  waiters[k] \in Proc /\ lwWaitMode'[waiters[k]] = lwWaitMode[waiters[k]]
    <3>1. waiters[k] \in Proc /\ waiters[k] # p
      BY SMTT(40), Z3T(40), <1>6 DEF On
    <3> QED
      BY Zenon, <1>4, <3>1
  <2>2. FreeFirst
    BY Zenon, <1>2 DEF QueueCore
  <2>3. CASE Wanted(p) = "until_free"
    <3>1. waiters' = <<p>> \o waiters
      BY Zenon, <1>3, <2>3 DEF Push
    <3>2. CASE i = 1
      <4>1. waiters'[i] = p
        BY SMTT(40), Z3T(40), <1>6, <3>1, <3>2
      <4> QED
        BY Zenon, <1>4, <2>3, <4>1
    <3>3. CASE i # 1
      <4>1. PICK k \in 1 .. Len(waiters), l \in 1 .. Len(waiters) :
              k < l /\ waiters'[i] = waiters[k] /\ waiters'[j] = waiters[l]
        <5>1. i - 1 \in 1 .. Len(waiters) /\ j - 1 \in 1 .. Len(waiters) /\ i - 1 < j - 1
          BY SMTT(40), Z3T(40), <1>6, <3>1, <3>3
        <5>2. waiters'[i] = waiters[i - 1] /\ waiters'[j] = waiters[j - 1]
          BY SMTT(40), Z3T(40), <1>6, <3>1, <3>3, <5>1
        <5> QED
          BY Zenon, <5>1, <5>2
      <4> QED
        BY Zenon, <2>1, <2>2, <4>1 DEF FreeFirst
    <3> QED
      BY Zenon, <3>2, <3>3
  <2>4. CASE Wanted(p) # "until_free"
    <3>1. waiters' = Append(waiters, p)
      BY Zenon, <1>3, <2>4 DEF Push
    <3>2. j # Len(waiters) + 1
      <4>1. ASSUME j = Len(waiters) + 1 PROVE waiters'[j] = p
        BY SMTT(40), Z3T(40), <1>6, <3>1, <4>1
      <4> QED
        BY Zenon, <1>4, <2>4, <4>1
    <3>3. /\ i \in 1 .. Len(waiters) /\ j \in 1 .. Len(waiters)
          /\ waiters'[i] = waiters[i] /\ waiters'[j] = waiters[j]
      BY SMTT(40), Z3T(40), <1>6, <3>1, <3>2
    <3> QED
      BY Zenon, <2>1, <2>2, <3>3 DEF FreeFirst
  <2> QED
    BY Zenon, <2>3, <2>4
<1>11. Told(p)'
  BY Zenon, <1>3, <1>4, <1>5 DEF Told, Queued, Wanted, CallName
<1>12. Apart(p)
  BY Zenon, <1>3, <1>4 DEF Apart
<1>13. pc'[p] \in {"queued", "reattempt"} /\ (call[p] # "waitvar" => pc'[p] = "reattempt")
  BY Zenon, <1>4
<1>14. Self(p)
  <2>1. lwWaiting'[p] # "pending" /\ lwWaiting[p] # "pending"
    BY Zenon, <1>4, <1>5
  <2>2. pc[p] \notin {"wake", "signal"} /\ pc'[p] \notin {"wake", "signal"}
        /\ pc'[p] # "dequeue_out"
    BY Zenon, <1>3, <1>13
  <2>3. On(waiters', p) <=> (lwWaiting'[p] = "waiting" /\ pc'[p] # "dequeue_out")
    BY Zenon, <1>4, <1>7, <2>2
  <2>4. Due(p) = 0 /\ Due(p)' = 0
    BY Zenon, <1>3, <1>4 DEF Due, Queued
  <2>5. ~ Woken(p) /\ ~ VarSleeper(p)'
    BY Zenon, <1>3, <1>13 DEF Woken, VarSleeper
  <2> QED
    BY Zenon, <1>3, <1>4, <1>7, <1>11, <1>12, <2>1, <2>2, <2>3, <2>4, <2>5 DEF Self
<1>15. ~ Committed(p)' /\ (Attends(p) => Attends(p)') /\ ~ Releases(p)
  BY Zenon, <1>3, <1>13 DEF Committed, Attends, Releases
<1> QED
  BY Zenon, <1>3, <1>8, <1>9, <1>10, <1>14, <1>15, SelfStep

\* LWLockDequeueSelf() with the wait list locked.
LEMMA UnlinkQueue ==
    ASSUME LockInv, WaitListLocked, QueueInv, NEW p \in Proc, DequeueUnlink(p)
    PROVE  QueueInv'
<1>1. pc \in [Proc -> Location]
  BY Zenon DEF LockInv, Scalars
<1>2. QTypes /\ Told(p) /\ QueueCore /\ FreeFirst
  BY Zenon DEF QueueInv, QueueCore, AllTold
<1>3. /\ UNCHANGED <<wakeup, lwWaiting, lwWaitMode, foreign, valptr, call, mode, val,
                     sem, extraWaits, release_ok, exclusive, shared, own>>
      /\ pc[p] = "dequeue_in"
      /\ waiters' = IF lwWaiting[p] = "waiting" THEN Without(p) ELSE waiters
      /\ has_waiters' = StillWaiters
      /\ Goto(p, IF lwWaiting[p] = "waiting" THEN "dequeue_out" ELSE "dequeue_gone")
  BY Zenon DEF DequeueUnlink, args, proc
<1>4. /\ \A q \in Proc : q # p => pc'[q] = pc[q]
      /\ pc'[p] = IF lwWaiting[p] = "waiting" THEN "dequeue_out" ELSE "dequeue_gone"
  BY Zenon, <1>1, <1>3, GotoIs
<1>5. Told(p)'
  BY Zenon, <1>2, <1>3, <1>4 DEF Told, Queued, Wanted
<1>6. Apart(p)
  BY Zenon, <1>3, <1>4 DEF Apart
<1>7. \A q \in Proc : pc'[q] # "queue_in"
  <2> SUFFICES ASSUME NEW q \in Proc, pc'[q] = "queue_in" PROVE FALSE
    OBVIOUS
  <2>1. q # p
    BY SMTT(40), Z3T(40), <1>4
  <2>2. pc[q] = "queue_in"
    BY Zenon, <1>4, <2>1
  <2>3. pc[q] \in Inside /\ pc[p] \in Inside
    BY Zenon, <1>3, <2>2 DEF Inside
  <2> QED
    BY Zenon, <2>1, <2>3 DEF WaitListLocked
<1>8. ~ Committed(p)' /\ ~ Attends(p) /\ ~ Releases(p)
  BY Zenon, <1>3, <1>4 DEF Committed, Attends, Releases
<1>9. waiters \in Seq(Proc) /\ NoDup(waiters)
  BY Zenon, <1>2 DEF QTypes, QueueCore, OnList
<1>10. CASE lwWaiting[p] = "waiting"
  <2>1. waiters' = Those(waiters, Proc \ {p}) /\ pc'[p] = "dequeue_out"
    BY Zenon, <1>3, <1>4, <1>10 DEF Without
  <2>2. /\ waiters' \in Seq(Proc) /\ NoDup(waiters')
        /\ \A q : On(waiters', q) <=> (On(waiters, q) /\ q \in Proc \ {p})
    BY Zenon, <1>9, <2>1, ThoseIs, ThoseOn
  <2>3. FreeFirst'
    BY Zenon, <1>2, <1>3, <2>1, ThoseOrdered
  <2>4. waiters' # <<>> => waiters # <<>>
    <3>1. ASSUME waiters' # <<>> PROVE \E q : On(waiters', q)
      BY SMTT(40), Z3T(40), <2>2, <3>1 DEF On
    <3>2. ASSUME NEW q, On(waiters, q) PROVE waiters # <<>>
      BY SMTT(40), Z3T(40), <3>2 DEF On
    <3> QED
      BY Zenon, <2>2, <3>1, <3>2
  <2>5. Flagged' /\ has_waiters' \in BOOLEAN
    BY Zenon, <1>2, <1>3, <1>7, <2>4 DEF Flagged, StillWaiters, QueueCore
  <2>6. QTypes'
    BY Zenon, <1>2, <1>3, <2>2, <2>5 DEF QTypes
  <2>7. Self(p)
    <3>1. lwWaiting'[p] # "pending" /\ lwWaiting[p] # "pending"
      BY Zenon, <1>3, <1>10
    <3>2. pc[p] \notin {"wake", "signal"} /\ pc'[p] \notin {"wake", "signal"}
      BY Zenon, <1>3, <2>1
    <3>3. On(waiters', p) <=> (lwWaiting'[p] = "waiting" /\ pc'[p] # "dequeue_out")
      BY Zenon, <2>1, <2>2
    <3>4. \A q \in Proc : q # p => (On(waiters', q) <=> On(waiters, q))
      BY Zenon, <2>2
    <3>5. Due(p) = 0 /\ Due(p)' = 0
      BY Zenon, <1>3, <1>10 DEF Due
    <3>6. ~ Woken(p) /\ ~ VarSleeper(p)'
      BY Zenon, <1>3, <1>10, <2>1 DEF Woken, VarSleeper
    <3> QED
      BY Zenon, <1>3, <1>5, <1>6, <2>2, <3>1, <3>2, <3>3, <3>4, <3>5, <3>6 DEF Self
  <2> QED
    BY Zenon, <1>3, <1>8, <2>3, <2>5, <2>6, <2>7, SelfStep
<1>11. CASE lwWaiting[p] # "waiting"
  <2>1. waiters' = waiters /\ pc'[p] = "dequeue_gone"
    BY Zenon, <1>3, <1>4, <1>11
  <2>2. has_waiters' \in BOOLEAN /\ (waiters # <<>> => has_waiters') /\ Flagged
    BY Zenon, <1>2, <1>3, <2>1 DEF StillWaiters, QueueCore, Flagged
  <2>3. QTypes'
    BY Zenon, <1>2, <1>3, <2>1, <2>2 DEF QTypes
  <2>4. QueueCore'
    <3>1. AllTold'
      <4> SUFFICES ASSUME NEW q \in Proc PROVE Told(q)'
        BY Zenon DEF AllTold
      <4> QED
        BY Zenon, <1>2, <1>3, <1>4, <1>5, ToldSame DEF QueueCore, AllTold
    <3>2. \A q \in Proc : /\ pc'[q] = "dequeue_out" <=> pc[q] = "dequeue_out"
                          /\ pc'[q] = "signal" <=> pc[q] = "signal"
                          /\ pc'[q] = "wake" <=> pc[q] = "wake"
      BY Zenon, <1>3, <1>4, <2>1
    <3>3. OnList'
      BY Zenon, <1>2, <1>3, <2>1, <3>2 DEF QueueCore, OnList
    <3>4. Flagged'
      BY Zenon, <1>7, <2>1, <2>2 DEF Flagged
    <3>5. FreeFirst'
      BY Zenon, <1>2, <1>3, <2>1 DEF FreeFirst
    <3>6. OnLocal'
      <4>1. \A q \in Proc : Linked(q)' = Linked(q) /\ wakeup'[q] = wakeup[q]
        BY Zenon, <1>3, <3>2 DEF Linked
      <4> QED
        BY Zenon, <1>2, <1>3, <3>2, <4>1, LocalSame DEF QueueCore
    <3>7. SignalsConserved'
      <4>1. \A r : Owed(r)' = Owed(r)
        BY Zenon, <1>3, <3>2, OwedSame
      <4>2. \A q \in Proc : Due(q)' = Due(q)
        <5>1. Due(p)' = Due(p)
          BY Zenon, <1>3, <2>1 DEF Due, Queued
        <5> QED
          BY Zenon, <1>3, <1>4, <5>1, DueSame
      <4>3. \A q \in Proc : sem'[q] + extraWaits'[q] + foreign[q] + Due(q)
                              = sem[q] + extraWaits[q] + foreign'[q] + Due(q)'
        BY Zenon, <1>3, <4>2
      <4> QED
        BY Zenon, <1>2, <2>3, <4>1, <4>3, SignalsKept DEF QueueCore
    <3>8. ReleaseHeldBack'
      <4>1. Woken(p) => Woken(p)'
        BY Zenon, <1>3, <2>1 DEF Woken
      <4>2. \A q \in Proc : q # p => (Woken(q) => Woken(q)')
        BY Zenon, <1>3, <1>4 DEF Woken
      <4> QED
        BY Zenon, <1>2, <1>3, <4>1, <4>2 DEF QueueCore, ReleaseHeldBack
    <3>9. VarRelease'
      <4>1. ~ VarSleeper(p)'
        BY SMTT(40), Z3T(40), <2>1 DEF VarSleeper
      <4>2. \A q \in Proc : q # p => (VarSleeper(q)' => VarSleeper(q))
        BY Zenon, <1>3, <1>4 DEF VarSleeper
      <4> QED
        BY Zenon, <1>2, <1>3, <4>1, <4>2 DEF QueueCore, VarRelease
    <3> QED
      BY Zenon, <2>3, <3>1, <3>3, <3>4, <3>5, <3>6, <3>7, <3>8, <3>9 DEF QueueCore
  <2>5. Attended' /\ NoStaleSleeper'
    <3>1. (Free' => Free) /\ ~ Stale(p)'
      BY Zenon, <1>3, <1>8 DEF Free, Stale, Asleep, Committed
    <3>2. Attended /\ NoStaleSleeper /\ lwWaiting' = lwWaiting /\ valptr' = valptr
      BY Zenon, <1>3 DEF QueueInv
    <3>3. Attended'
      BY Zenon, <1>6, <1>8, <3>1, <3>2, AttendedKept
    <3>4. NoStaleSleeper'
      BY Zenon, <1>6, <1>8, <3>1, <3>2, StaleKept
    <3> QED
      BY Zenon, <3>3, <3>4
  <2> QED
    BY Zenon, <2>4, <2>5 DEF QueueInv
<1> QED
  BY Zenon, <1>10, <1>11

\* ... and from there.
LEMMA DequeueQueue ==
    ASSUME LockInv, QueueInv, NEW p \in Proc, LWLockDequeueSelf(p)
    PROVE  QueueInv'
<1>1. pc \in [Proc -> Location]
  BY Zenon DEF LockInv, Scalars
<1>2. QTypes /\ Told(p) /\ QueueCore /\ FreeFirst /\ Flagged
  BY Zenon DEF QueueInv, QueueCore, AllTold
<1>3. UNCHANGED <<waiters, wakeup, lwWaitMode, foreign, valptr, call, mode, val,
                  has_waiters, release_ok, exclusive, shared, own>>
  BY Zenon DEF LWLockDequeueSelf, args, Unlock
<1>4. CASE pc[p] = "dequeue_out"
  <2>1. lwWaiting' = [lwWaiting EXCEPT ![p] = "not_waiting"] /\ Return(p, sem[p])
    BY Zenon, <1>4 DEF LWLockDequeueSelf
  <2>2. /\ \A q \in Proc : q # p => pc'[q] = pc[q] /\ lwWaiting'[q] = lwWaiting[q]
        /\ pc'[p] = "idle" /\ lwWaiting'[p] = "not_waiting"
    BY Zenon, <1>1, <1>2, <2>1, GotoIs DEF QTypes, Return
  <2>3. Told(p)'
    BY Zenon, <1>2, <1>3, <2>2 DEF Told, Queued, Wanted
  <2>4. Apart(p)
    BY Zenon, <1>3, <2>2 DEF Apart
  <2>5. QTypes'
    <3>1. lwWaiting' \in [Proc -> WaitState]
      BY SMTT(40), Z3T(40), <1>2, <2>1 DEF QTypes, WaitState
    <3>2. sem' \in [Proc -> Nat] /\ extraWaits' \in [Proc -> Nat]
      BY Zenon, <1>2, <2>1, ReturnIs DEF QTypes
    <3> QED
      BY Zenon, <1>2, <1>3, <3>1, <3>2 DEF QTypes
  <2>6. Flagged'
    <3>1. pc'[p] # "queue_in"
      BY SMTT(40), Z3T(40), <2>2
    <3> QED
      BY Zenon, <1>2, <1>3, <2>2, <3>1 DEF Flagged
  <2>7. FreeFirst'
    BY Zenon, <1>2, <1>3 DEF FreeFirst
  <2>8. Self(p)
    <3>1. lwWaiting'[p] # "pending" /\ lwWaiting[p] # "pending"
      BY Zenon, <1>2, <1>4, <2>2 DEF Told
    <3>2. pc[p] \notin {"wake", "signal"} /\ pc'[p] \notin {"wake", "signal"}
      BY Zenon, <1>4, <2>2
    <3>3. NoDup(waiters) /\ ~ On(waiters, p)
      BY Zenon, <1>2, <1>4 DEF QueueCore, OnList
    <3>4. On(waiters', p) <=> (lwWaiting'[p] = "waiting" /\ pc'[p] # "dequeue_out")
      <4>1. lwWaiting'[p] # "waiting"
        BY Zenon, <2>2
      <4> QED
        BY Zenon, <1>3, <3>3, <4>1
    <3>5. Due(p) = 0 /\ Due(p)' = 0
      BY SMTT(40), Z3T(40), <1>4, <2>2 DEF Due, Queued
    <3>6. ~ Woken(p) /\ ~ VarSleeper(p)'
      BY SMTT(40), Z3T(40), <1>4, <2>2 DEF Woken, VarSleeper
    <3> QED
      BY Zenon, <1>3, <2>1, <2>2, <2>3, <2>4, <3>1, <3>2, <3>3, <3>4, <3>5, <3>6 DEF Self
  <2>9. ~ Committed(p)' /\ ~ Attends(p) /\ ~ Releases(p)
    BY SMTT(40), Z3T(40), <1>4, <2>2 DEF Committed, Attends, Releases
  <2> QED
    BY Zenon, <1>3, <2>5, <2>6, <2>7, <2>8, <2>9, SelfStep
<1>5. CASE pc[p] = "dequeue_gone"
  <2>1. lwWaiting' = lwWaiting /\ UNCHANGED <<sem, extraWaits>> /\ Goto(p, "absorb")
    BY Zenon, <1>5 DEF LWLockDequeueSelf, GoOn
  <2>2. /\ \A q \in Proc : q # p => pc'[q] = pc[q]
        /\ pc'[p] = "absorb"
    BY Zenon, <1>1, <2>1, GotoIs
  <2>3. Told(p)'
    BY Zenon, <1>2, <1>3, <1>5, <2>1, <2>2 DEF Told, Queued, Wanted
  <2>4. Apart(p)
    BY Zenon, <1>3, <2>2 DEF Apart
  <2>5. QTypes'
    BY Zenon, <1>2, <1>3, <2>1 DEF QTypes
  <2>6. Quiet(p)
    <3>1. Due(p)' = Due(p)
      BY Zenon, <1>5, <2>1, <2>2 DEF Due, Queued
    <3>2. sem'[p] + extraWaits'[p] + foreign[p] + Due(p)
            = sem[p] + extraWaits[p] + foreign'[p] + Due(p)'
      BY Zenon, <1>3, <2>1, <3>1
    <3>3. /\ Woken(p) => Woken(p)'
          /\ ~ VarSleeper(p)' /\ pc[p] \notin Busy /\ pc'[p] \notin Busy
          /\ pc'[p] # "queue_in"
      BY Zenon, <1>3, <1>5, <2>1, <2>2 DEF Woken, VarSleeper, Busy
    <3> QED
      BY Zenon, <1>3, <2>1, <2>3, <2>4, <3>2, <3>3 DEF Quiet
  <2>7. ~ Committed(p)' /\ ~ Attends(p) /\ ~ Releases(p)
    BY Zenon, <1>5, <2>2 DEF Committed, Attends, Releases
  <2>8. (Free' => Free) /\ ~ Stale(p)'
    BY Zenon, <1>3, <2>7 DEF Free, Stale, Asleep, Committed
  <2> QED
    BY Zenon, <1>3, <2>5, <2>6, <2>7, <2>8, QuietStep
<1> QED
  BY Zenon, <1>4, <1>5 DEF LWLockDequeueSelf

-----------------------------------------------------------------------------
(* A waker takes processes off the wait list. *)

\* A set of natural numbers has a least member.
LEMMA NatMin == ASSUME NEW T, T \subseteq Nat, T # {}
                PROVE  \E x \in T : \A y \in T : x <= y
<1>1. \A x, y \in Nat : <<y, x>> \in OpToRel(<, Nat) <=> y < x
  BY Zenon DEF OpToRel
<1>2. PICK x \in T : \A y \in T : ~ (<<y, x>> \in OpToRel(<, Nat))
  BY Zenon, NatLessThanWellFounded, WFMin
<1>3. \A y \in T : ~ (y < x)
  BY Zenon, <1>1, <1>2
<1> QED
  BY SMTT(40), Z3T(40), <1>3

\* Who is on the list and is moved was waiting.
LEMMA TakenWaits ==
    ASSUME QueueCore, NEW p \in Proc, NEW w, Take(p, w), \A q : q \in w => On(waiters, q)
    PROVE  /\ \A q \in Proc : q \in w => /\ lwWaiting[q] = "waiting" /\ pc[q] # "dequeue_out"
                                         /\ lwWaiting'[q] = "pending"
           /\ \A q \in Proc : q \notin w => lwWaiting'[q] = lwWaiting[q]
           /\ waiters \in Seq(Proc) /\ NoDup(waiters)
           /\ waiters' \in Seq(Proc) /\ NoDup(waiters')
           /\ \A q \in Proc : On(waiters', q) <=> (On(waiters, q) /\ q \notin w)
           /\ wakeup'[p] \in Seq(Proc) /\ NoDup(wakeup'[p])
           /\ \A q \in Proc : On(wakeup'[p], q) <=> q \in w
           /\ \A q \in Proc : q # p => wakeup'[q] = wakeup[q]
           /\ waiters' # <<>> => waiters # <<>>
<1>1. QTypes /\ OnList
  BY Zenon DEF QueueCore
<1>2. lwWaiting' = [q \in Proc |-> IF q \in w THEN "pending" ELSE lwWaiting[q]]
  BY Zenon DEF Take
<1>3. waiters \in Seq(Proc) /\ NoDup(waiters)
  BY Zenon, <1>1 DEF QTypes, OnList
<1>4. \A q \in Proc : q \in w => /\ lwWaiting[q] = "waiting" /\ pc[q] # "dequeue_out"
                                 /\ lwWaiting'[q] = "pending"
  BY Zenon, <1>1, <1>2 DEF OnList
<1>5. \A q \in Proc : q \notin w => lwWaiting'[q] = lwWaiting[q]
  BY Zenon, <1>2
<1>6. PICK t : t = Those(waiters, Proc \ w)
  BY Zenon
<1>7. /\ t \in Seq(Proc) /\ NoDup(t)
      /\ \A q : On(t, q) <=> (On(waiters, q) /\ q \in Proc \ w)
  BY Zenon, <1>3, <1>6, ThoseIs, ThoseOn
<1>8. PICK u : u = Those(waiters, w)
  BY Zenon
<1>9. /\ u \in Seq(Proc) /\ NoDup(u)
      /\ \A q : On(u, q) <=> (On(waiters, q) /\ q \in w)
  BY Zenon, <1>3, <1>8, ThoseIs, ThoseOn
<1>10. waiters' = t /\ wakeup' = [wakeup EXCEPT ![p] = u]
  BY Zenon, <1>6, <1>8 DEF Take
<1>11. wakeup'[p] = u /\ \A q \in Proc : q # p => wakeup'[q] = wakeup[q]
  BY Zenon, <1>1, <1>10 DEF QTypes
<1>12. \A q \in Proc : On(waiters', q) <=> (On(waiters, q) /\ q \notin w)
  BY Zenon, <1>7, <1>10
<1>13. \A q \in Proc : On(wakeup'[p], q) <=> q \in w
  BY Zenon, <1>9, <1>11
<1>14. waiters' # <<>> => waiters # <<>>
  <2>1. ASSUME t # <<>> PROVE \E q : On(t, q)
    BY SMTT(40), Z3T(40), <1>7, <2>1 DEF On
  <2>2. ASSUME NEW q, On(waiters, q) PROVE waiters # <<>>
    BY SMTT(40), Z3T(40), <2>2 DEF On
  <2> QED
    BY Zenon, <1>7, <1>10, <2>1, <2>2
<1>15. waiters' \in Seq(Proc) /\ NoDup(waiters') /\ wakeup'[p] \in Seq(Proc) /\ NoDup(wakeup'[p])
  BY Zenon, <1>7, <1>9, <1>10, <1>11
<1> QED
  BY Zenon, <1>3, <1>4, <1>5, <1>11, <1>12, <1>13, <1>14, <1>15

\* A step that moves processes from the wait list to p's local list.
Takes(p, w) ==
    /\ Take(p, w) /\ Goto(p, "wake") /\ pc[p] \in {"update_in", "wakeup_in"}
    /\ UNCHANGED <<lwWaitMode, sem, foreign, call, mode, val, extraWaits, own>>
    /\ \A q : q \in w => On(waiters, q)

\* The local lists stay disjoint: those moved were on the wait list.
LEMMA TakesLocal ==
    ASSUME LockInv, QueueCore, NEW p \in Proc, NEW w, Takes(p, w)
    PROVE  OnLocal'
<1>1. pc \in [Proc -> Location] /\ OnLocal
  BY Zenon DEF LockInv, Scalars, QueueCore
<1>2. pc'[p] = "wake" /\ \A q \in Proc : q # p => pc'[q] = pc[q]
  BY Zenon, <1>1, GotoIs DEF Takes
<1>3. /\ \A q \in Proc : q \in w => lwWaiting[q] = "waiting" /\ lwWaiting'[q] = "pending"
      /\ \A q \in Proc : q \notin w => lwWaiting'[q] = lwWaiting[q]
      /\ NoDup(wakeup'[p])
      /\ \A q \in Proc : On(wakeup'[p], q) <=> q \in w
      /\ \A q \in Proc : q # p => wakeup'[q] = wakeup[q]
  BY Zenon, TakenWaits DEF Takes
<1>4. Linked(p)' = wakeup'[p] /\ \A q \in Proc : q # p => Linked(q)' = Linked(q)
  <2>1. pc'[p] # "signal"
    BY Zenon, <1>2
  <2> QED
    BY Zenon, <1>2, <1>3, <2>1 DEF Linked
<1>5. \A r \in Proc : ~ On(Linked(p), r)
  <2>1. pc[p] \notin {"wake", "signal"}
    BY SMTT(40), Z3T(40) DEF Takes
  <2>2. wakeup[p] = <<>> /\ Linked(p) = wakeup[p]
    BY Zenon, <1>1, <2>1 DEF OnLocal, Linked
  <2>3. \A r : ~ On(<<>>, r)
    BY SMTT(40), Z3T(40) DEF On
  <2> QED
    BY Zenon, <2>2, <2>3
<1>6. \A q, r \in Proc : On(Linked(q), r) => lwWaiting[r] = "pending"
  BY Zenon, <1>1 DEF OnLocal
<1>7. \A q, r \in Proc : On(Linked(q), r) => r \notin w
  <2> SUFFICES ASSUME NEW q \in Proc, NEW r \in Proc, On(Linked(q), r), r \in w PROVE FALSE
    OBVIOUS
  <2>1. lwWaiting[r] = "waiting" /\ lwWaiting[r] = "pending"
    BY Zenon, <1>3, <1>6
  <2> QED
    BY SMTT(40), Z3T(40), <2>1
<1> SUFFICES ASSUME NEW q \in Proc
             PROVE  /\ pc'[q] \notin {"wake", "signal"} => wakeup'[q] = <<>>
                    /\ pc'[q] = "signal" => wakeup'[q] # <<>>
                    /\ NoDup(Linked(q)')
                    /\ \A s \in Proc : On(Linked(q)', s) => lwWaiting'[s] = "pending"
                    /\ \A s, r \in Proc : On(Linked(q)', s) /\ On(Linked(r)', s) => q = r
                    /\ lwWaiting'[q] = "pending" => \E r \in Proc : On(Linked(r)', q)
  BY Zenon DEF OnLocal, NoDup, On
<1>8. pc'[q] \notin {"wake", "signal"} => wakeup'[q] = <<>>
  BY Zenon, <1>1, <1>2, <1>3 DEF OnLocal
<1>9. pc'[q] = "signal" => wakeup'[q] # <<>>
  <2>1. pc'[q] = "signal" => q # p
    BY SMTT(40), Z3T(40), <1>2
  <2> QED
    BY Zenon, <1>1, <1>2, <1>3, <2>1 DEF OnLocal
<1>10. NoDup(Linked(q)')
  <2>1. q # p => NoDup(Linked(q))
    BY Zenon, <1>1 DEF OnLocal
  <2> QED
    BY Zenon, <1>3, <1>4, <2>1
<1>11. ASSUME NEW s \in Proc, On(Linked(q)', s) PROVE lwWaiting'[s] = "pending"
  <2>1. CASE q = p
    BY Zenon, <1>3, <1>4, <1>11, <2>1
  <2>2. CASE q # p
    <3>1. On(Linked(q), s)
      BY Zenon, <1>4, <1>11, <2>2
    <3> QED
      BY Zenon, <1>3, <1>6, <1>7, <3>1
  <2> QED
    BY Zenon, <2>1, <2>2
<1>12. ASSUME NEW s \in Proc, NEW r \in Proc, On(Linked(q)', s), On(Linked(r)', s) PROVE q = r
  <2>1. \A x \in Proc : On(Linked(x)', s) => (x = p <=> s \in w)
    <3> SUFFICES ASSUME NEW x \in Proc, On(Linked(x)', s) PROVE x = p <=> s \in w
      BY Zenon
    <3>1. x = p => s \in w
      BY Zenon, <1>3, <1>4
    <3>2. x # p => s \notin w
      BY Zenon, <1>4, <1>7
    <3> QED
      BY Zenon, <3>1, <3>2
  <2>2. q = p <=> r = p
    BY Zenon, <1>12, <2>1
  <2>3. CASE q # p /\ r # p
    <3>1. On(Linked(q), s) /\ On(Linked(r), s)
      BY Zenon, <1>4, <1>12, <2>3
    <3> QED
      BY Zenon, <1>1, <3>1 DEF OnLocal
  <2> QED
    BY Zenon, <2>2, <2>3
<1>13. ASSUME lwWaiting'[q] = "pending" PROVE \E r \in Proc : On(Linked(r)', q)
  <2>1. CASE q \in w
    BY Zenon, <1>3, <1>4, <2>1
  <2>2. CASE q \notin w
    <3>1. lwWaiting[q] = "pending"
      BY Zenon, <1>3, <1>13, <2>2
    <3>2. PICK r \in Proc : On(Linked(r), q)
      BY Zenon, <1>1, <3>1 DEF OnLocal
    <3>3. r # p
      BY Zenon, <1>5, <3>2
    <3>4. On(Linked(r)', q)
      BY Zenon, <1>4, <3>2, <3>3
    <3> QED
      BY Zenon, <3>4
  <2> QED
    BY Zenon, <2>1, <2>2
<1> QED
  BY Zenon, <1>8, <1>9, <1>10, <1>11, <1>12, <1>13

\* What was said of a process that waits stays when it is moved.
LEMMA ToldTaken ==
    ASSUME NEW q \in Proc, Told(q), lwWaiting[q] = "waiting", pc[q] # "dequeue_out",
           pc'[q] = pc[q], call'[q] = call[q], mode'[q] = mode[q],
           own'[q] = own[q], lwWaitMode'[q] = lwWaitMode[q], lwWaiting'[q] = "pending"
    PROVE  Told(q)'
  BY Zenon DEF Told, Queued, Wanted

\* Moving processes to a local list keeps the invariant of the lists.
LEMMA TakesKeeps ==
    ASSUME LockInv, QueueCore, NEW p \in Proc, NEW w, Takes(p, w),
           has_waiters' \in BOOLEAN, release_ok' \in BOOLEAN, Flagged', ReleaseHeldBack',
           VarRelease'
    PROVE  QueueCore'
<1>1. pc \in [Proc -> Location] /\ QTypes /\ AllTold /\ OnList /\ FreeFirst
  BY Zenon DEF LockInv, Scalars, QueueCore
<1>2. pc'[p] = "wake" /\ \A q \in Proc : q # p => pc'[q] = pc[q]
  BY Zenon, <1>1, GotoIs DEF Takes
<1>3. /\ \A q \in Proc : q \in w => /\ lwWaiting[q] = "waiting" /\ pc[q] # "dequeue_out"
                                    /\ lwWaiting'[q] = "pending"
      /\ \A q \in Proc : q \notin w => lwWaiting'[q] = lwWaiting[q]
      /\ waiters' \in Seq(Proc) /\ NoDup(waiters')
      /\ \A q \in Proc : On(waiters', q) <=> (On(waiters, q) /\ q \notin w)
      /\ wakeup'[p] \in Seq(Proc)
      /\ \A q \in Proc : q # p => wakeup'[q] = wakeup[q]
  BY Zenon, TakenWaits DEF Takes
<1>4. UNCHANGED <<lwWaitMode, sem, foreign, call, mode, val, extraWaits, own>>
  BY Zenon DEF Takes
<1>5. lwWaiting[p] = "not_waiting" /\ p \notin w /\ lwWaiting'[p] = "not_waiting"
  <2>1. lwWaiting[p] = "not_waiting"
    <3>1. Told(p)
      BY Zenon, <1>1 DEF AllTold
    <3> QED
      BY Zenon, <3>1 DEF Told, Queued, Takes
  <2>2. p \notin w
    BY Zenon, <1>3, <2>1
  <2> QED
    BY Zenon, <1>3, <2>1, <2>2
<1>6. QTypes'
  <2>1. lwWaiting' \in [Proc -> WaitState]
    <3>1. lwWaiting' = [q \in Proc |-> IF q \in w THEN "pending" ELSE lwWaiting[q]]
      BY Zenon DEF Takes, Take
    <3> QED
      BY SMTT(40), Z3T(40), <1>1, <3>1 DEF QTypes, WaitState
  <2>2. wakeup' \in [Proc -> Seq(Proc)]
    <3>1. wakeup' = [wakeup EXCEPT ![p] = wakeup'[p]]
      <4>1. wakeup' = [wakeup EXCEPT ![p] = Those(waiters, w)]
        BY Zenon DEF Takes, Take
      <4>2. wakeup'[p] = Those(waiters, w)
        BY Zenon, <1>1, <4>1 DEF QTypes
      <4> QED
        BY Zenon, <4>1, <4>2
    <3> QED
      BY Zenon, <1>1, <1>3, <3>1 DEF QTypes
  <2> QED
    BY Zenon, <1>1, <1>3, <1>4, <2>1, <2>2 DEF QTypes
<1>7. AllTold'
  <2> SUFFICES ASSUME NEW q \in Proc PROVE Told(q)'
    BY Zenon DEF AllTold
  <2>1. Told(q)
    BY Zenon, <1>1 DEF AllTold
  <2>2. CASE q = p
    BY Zenon, <1>2, <1>5, <2>2 DEF Told, Queued
  <2>3. CASE q # p /\ q \in w
    BY Zenon, <1>2, <1>3, <1>4, <2>1, <2>3, ToldTaken
  <2>4. CASE q # p /\ q \notin w
    BY Zenon, <1>2, <1>3, <1>4, <2>1, <2>4, ToldSame
  <2> QED
    BY Zenon, <2>2, <2>3, <2>4
<1>8. OnList'
  <2> SUFFICES ASSUME NEW q \in Proc
               PROVE  On(waiters', q) <=> (lwWaiting'[q] = "waiting" /\ pc'[q] # "dequeue_out")
    BY Zenon, <1>3 DEF OnList
  <2>1. On(waiters, q) <=> (lwWaiting[q] = "waiting" /\ pc[q] # "dequeue_out")
    BY Zenon, <1>1 DEF OnList
  <2>2. CASE q \in w
    <3>1. lwWaiting'[q] # "waiting"
      BY Zenon, <1>3, <2>2
    <3> QED
      BY Zenon, <1>3, <2>2, <3>1
  <2>3. CASE q \notin w /\ q # p
    BY Zenon, <1>2, <1>3, <2>1, <2>3
  <2>4. CASE q = p
    <3>1. lwWaiting[p] # "waiting" /\ lwWaiting'[p] # "waiting"
      BY Zenon, <1>5
    <3> QED
      BY Zenon, <1>3, <2>1, <2>4, <3>1
  <2> QED
    BY Zenon, <2>2, <2>3, <2>4
<1>9. FreeFirst'
  <2>1. waiters' = Those(waiters, Proc \ w)
    BY Zenon DEF Takes, Take
  <2> QED
    BY Zenon, <1>1, <1>4, <2>1, ThoseOrdered
<1>10. OnLocal'
  BY Zenon, TakesLocal
<1>11. SignalsConserved'
  <2>1. pc[p] # "signal" /\ pc'[p] # "signal"
    BY Zenon, <1>2 DEF Takes
  <2>2. \A r : Owed(r)' = Owed(r)
    BY Zenon, <1>2, <1>3, <2>1, OwedSame
  <2>3. ASSUME NEW q \in Proc PROVE Due(q)' = Due(q)
    <3>1. CASE q = p
      BY Zenon, <1>2, <3>1 DEF Due, Queued, Takes
    <3>2. CASE q # p /\ q \in w
      BY Zenon, <1>3, <3>2 DEF Due
    <3>3. CASE q # p /\ q \notin w
      BY Zenon, <1>2, <1>3, <3>3, DueSame
    <3> QED
      BY Zenon, <3>1, <3>2, <3>3
  <2>4. \A q \in Proc : sem'[q] + extraWaits'[q] + foreign[q] + Due(q)
                          = sem[q] + extraWaits[q] + foreign'[q] + Due(q)'
    BY Zenon, <1>4, <2>3
  <2> QED
    BY Zenon, <1>1, <1>6, <2>2, <2>4, SignalsKept DEF QueueCore
<1> QED
  BY Zenon, <1>6, <1>7, <1>8, <1>9, <1>10, <1>11 DEF QueueCore

\* Who is woken to take the lock stays so.
LEMMA TakesWoken ==
    ASSUME LockInv, QueueCore, NEW p \in Proc, NEW w, Takes(p, w), NEW q \in Proc
    PROVE  /\ Woken(q) => Woken(q)'
           /\ VarSleeper(q)' => VarSleeper(q) /\ q \notin w
           /\ Committed(q)' => Committed(q) /\ q \notin w
           /\ q # p /\ Attends(q) => Attends(q)'
           /\ Stale(q)' => q # p /\ q \notin w /\ lwWaiting[q] = "waiting"
                             /\ pc[q] = "sleep" /\ call[q] = "waitvar"
<1>1. pc \in [Proc -> Location]
  BY Zenon DEF LockInv, Scalars
<1>2. pc'[p] = "wake" /\ \A r \in Proc : r # p => pc'[r] = pc[r]
  BY Zenon, <1>1, GotoIs DEF Takes
<1>3. /\ q \in w => lwWaiting[q] = "waiting" /\ lwWaiting'[q] = "pending"
      /\ q \notin w => lwWaiting'[q] = lwWaiting[q]
  BY Zenon, TakenWaits DEF Takes
<1>4. call' = call /\ pc[p] \in {"update_in", "wakeup_in"}
  BY Zenon DEF Takes
<1> QED
  BY Zenon, <1>2, <1>3, <1>4 DEF Woken, VarSleeper, Committed, Attends, Stale, Asleep

\* LWLockUpdateVar() reaches everyone who waits for a free lock.
LEMMA FreeInFront ==
    ASSUME QTypes, FreeFirst
    PROVE  /\ \A q : q \in FrontRun => On(waiters, q)
           /\ \A q : On(waiters, q) /\ lwWaitMode[q] = "until_free" => q \in FrontRun
<1>1. waiters \in Seq(Proc) /\ Len(waiters) \in Nat
  BY SMTT(40), Z3T(40) DEF QTypes
<1>2. \A q : q \in FrontRun => On(waiters, q)
  BY Zenon DEF FrontRun, On
<1>3. ASSUME NEW q, On(waiters, q), lwWaitMode[q] = "until_free" PROVE q \in FrontRun
  <2>1. PICK j \in 1 .. Len(waiters) : waiters[j] = q
    BY Zenon, <1>3 DEF On
  <2>2. ASSUME NEW k \in 1 .. j PROVE lwWaitMode[waiters[k]] = "until_free"
    <3>1. k \in 1 .. Len(waiters) /\ (k < j \/ k = j)
      BY SMTT(40), Z3T(40), <1>1, <2>1
    <3> QED
      BY Zenon, <1>3, <2>1, <3>1 DEF FreeFirst
  <2> QED
    BY Zenon, <2>1, <2>2 DEF FrontRun
<1> QED
  BY Zenon, <1>2, <1>3

\* A process asleep in LWLockWaitForVar() is on the list and waits for a free lock.
LEMMA SleeperIsFree ==
    ASSUME QueueCore, NEW q \in Proc, lwWaiting[q] = "waiting", call[q] = "waitvar",
           pc[q] # "dequeue_out"
    PROVE  On(waiters, q) /\ lwWaitMode[q] = "until_free"
<1>1. Told(q) /\ OnList
  BY Zenon DEF QueueCore, AllTold
<1>2. On(waiters, q)
  BY Zenon, <1>1 DEF OnList
<1>3. lwWaitMode[q] = "until_free"
  BY Zenon, <1>1 DEF Told, Wanted
<1> QED
  BY Zenon, <1>2, <1>3

\* LWLockUpdateVar(): everyone who waits for the variable is woken.
LEMMA UpdateQueue ==
    ASSUME LockInv, QueueInv, NEW p \in Proc, LWLockUpdateVar(p)
    PROVE  QueueInv'
<1>1. QTypes /\ FreeFirst /\ QueueCore /\ Flagged /\ ReleaseHeldBack /\ VarRelease
      /\ pc \in [Proc -> Location] /\ Placed
  BY Zenon DEF QueueInv, QueueCore, LockInv, Scalars
<1>2. /\ UNCHANGED <<has_waiters, release_ok, exclusive, shared>>
      /\ pc[p] = "update_in" /\ Take(p, FrontRun) /\ Goto(p, "wake")
  BY Zenon DEF LWLockUpdateVar, Unlock
<1>3. PICK w : w = FrontRun
  BY Zenon
<1>4. /\ \A q : q \in w => On(waiters, q)
      /\ \A q : On(waiters, q) /\ lwWaitMode[q] = "until_free" => q \in w
  BY Zenon, <1>1, <1>3, FreeInFront
<1>5. Takes(p, w)
  BY Zenon, <1>2, <1>3, <1>4 DEF Takes, LWLockUpdateVar, args
<1>6. \A q \in Proc : /\ Woken(q) => Woken(q)'
                      /\ VarSleeper(q)' => VarSleeper(q)
                      /\ Stale(q)' => q # p /\ q \notin w /\ lwWaiting[q] = "waiting"
                                        /\ pc[q] = "sleep" /\ call[q] = "waitvar"
  BY Zenon, <1>1, <1>5, TakesWoken
<1>7. Flagged'
  <2>1. waiters' # <<>> => waiters # <<>>
    BY Zenon, <1>1, <1>5, TakenWaits DEF Takes
  <2>2. pc'[p] # "queue_in" /\ \A q \in Proc : q # p => pc'[q] = pc[q]
    <3>1. pc'[p] = "wake" /\ \A q \in Proc : q # p => pc'[q] = pc[q]
      BY Zenon, <1>1, <1>2, GotoIs
    <3> QED
      BY Zenon, <3>1
  <2> QED
    BY Zenon, <1>1, <1>2, <2>1, <2>2 DEF Flagged
<1>8. ReleaseHeldBack' /\ VarRelease'
  BY Zenon, <1>1, <1>2, <1>6 DEF ReleaseHeldBack, VarRelease
<1>9. QueueCore'
  BY Zenon, <1>1, <1>2, <1>5, <1>7, <1>8, TakesKeeps DEF QTypes
<1>10. Attended'
  <2>1. own[p] = "exclusive"
    BY Zenon, <1>1, <1>2 DEF Placed, Holding
  <2>2. exclusive = 1
    BY Zenon, <2>1, ExclusiveIsOne
  <2>3. ~ Free'
    BY SMTT(40), Z3T(40), <1>2, <2>2 DEF Free
  <2> QED
    BY Zenon, <2>3 DEF Attended
<1>11. NoStaleSleeper'
  <2> SUFFICES ASSUME NEW q \in Proc, Stale(q)' PROVE FALSE
    BY Zenon DEF NoStaleSleeper, Stale
  <2>1. /\ q \notin w /\ lwWaiting[q] = "waiting"
        /\ pc[q] = "sleep" /\ call[q] = "waitvar"
    BY Zenon, <1>6
  <2>2. pc[q] # "dequeue_out"
    BY Zenon, <2>1
  <2> QED
    BY Zenon, <1>1, <1>4, <2>1, <2>2, SleeperIsFree
<1> QED
  BY Zenon, <1>9, <1>10, <1>11 DEF QueueInv

\* LWLockWakeup() wakes everyone who waits for a free lock, and when there is one who
\* wants the lock one such.
LEMMA AwakenedIs ==
    ASSUME QTypes, FreeFirst
    PROVE  /\ \A q : q \in Awakened => On(waiters, q)
           /\ \A q : On(waiters, q) /\ lwWaitMode[q] = "until_free" => q \in Awakened
           /\ Lockers = {} => \A q : On(waiters, q) => q \in Awakened
           /\ Lockers # {} => \E f \in Awakened : lwWaitMode[f] # "until_free"
           /\ waiters # <<>> => Awakened # {}
<1>1. waiters \in Seq(Proc) /\ Len(waiters) \in Nat
  BY SMTT(40), Z3T(40) DEF QTypes
<1>2. CASE Lockers = {}
  <2>1. Awakened = {waiters[i] : i \in 1 .. Len(waiters)}
    BY Zenon, <1>2 DEF Awakened, WakeAll
  <2>2. \A q : q \in Awakened <=> On(waiters, q)
    BY Zenon, <2>1 DEF On
  <2>3. waiters # <<>> => \E q : On(waiters, q)
    BY SMTT(40), Z3T(40), <1>1 DEF On
  <2> QED
    BY Zenon, <1>2, <2>2, <2>3
<1>3. CASE Lockers # {}
  <2>1. Lockers \subseteq Nat
    BY SMTT(40), Z3T(40), <1>1 DEF Lockers
  <2>2. \E i \in Lockers : \A j \in Lockers : i <= j
    BY Zenon, <1>3, <2>1, NatMin
  <2>3. PICK i \in Lockers : i = First /\ \A j \in Lockers : i <= j
    BY Zenon, <2>2 DEF First
  <2>4. i \in 1 .. Len(waiters) /\ lwWaitMode[waiters[i]] # "until_free"
    BY Zenon, <2>3 DEF Lockers
  <2>5. CASE lwWaitMode[waiters[i]] = "exclusive"
    <3>1. Awakened = {waiters[k] : k \in 1 .. i}
      BY Zenon, <1>3, <2>3, <2>5 DEF Awakened
    <3>2. i \in 1 .. i /\ \A k \in 1 .. i : k \in 1 .. Len(waiters)
      BY SMTT(40), Z3T(40), <1>1, <2>4
    <3>3. \A q : q \in Awakened => On(waiters, q)
      BY Zenon, <3>1, <3>2 DEF On
    <3>4. waiters[i] \in Awakened
      BY Zenon, <3>1, <3>2
    <3>5. ASSUME NEW q, On(waiters, q), lwWaitMode[q] = "until_free" PROVE q \in Awakened
      <4>1. PICK j \in 1 .. Len(waiters) : waiters[j] = q
        BY Zenon, <3>5 DEF On
      <4>2. ~ (i < j)
        BY Zenon, <2>4, <3>5, <4>1 DEF FreeFirst
      <4>3. j \in 1 .. i
        BY SMTT(40), Z3T(40), <1>1, <2>4, <4>1, <4>2
      <4> QED
        BY Zenon, <3>1, <4>1, <4>3
    <3> QED
      BY Zenon, <1>3, <2>4, <3>3, <3>4, <3>5
  <2>6. CASE lwWaitMode[waiters[i]] # "exclusive"
    <3>1. Awakened = {waiters[k] : k \in {j \in 1 .. Len(waiters) :
                                            lwWaitMode[waiters[j]] # "exclusive"}}
      BY Zenon, <1>3, <2>3, <2>6 DEF Awakened
    <3>2. \A q : q \in Awakened => On(waiters, q)
      BY Zenon, <3>1 DEF On
    <3>3. waiters[i] \in Awakened
      BY Zenon, <2>4, <2>6, <3>1
    <3>4. ASSUME NEW q, On(waiters, q), lwWaitMode[q] = "until_free" PROVE q \in Awakened
      <4>1. PICK j \in 1 .. Len(waiters) : waiters[j] = q
        BY Zenon, <3>4 DEF On
      <4>2. lwWaitMode[waiters[j]] # "exclusive"
        BY SMTT(40), Z3T(40), <3>4, <4>1
      <4> QED
        BY Zenon, <3>1, <4>1, <4>2
    <3> QED
      BY Zenon, <1>3, <2>4, <3>2, <3>3, <3>4
  <2> QED
    BY Zenon, <2>5, <2>6
<1> QED
  BY Zenon, <1>2, <1>3

\* A waiter that wants the lock is woken to take it, or has it.
LEMMA LockerWoken ==
    ASSUME QueueCore, NEW f \in Proc, lwWaiting[f] = "waiting", pc[f] # "dequeue_out",
           lwWaitMode[f] # "until_free", pc'[f] = pc[f], call'[f] = call[f], own'[f] = own[f],
           lwWaiting'[f] = "pending"
    PROVE  Woken(f)' /\ (Attends(f)' \/ own'[f] # "none")
<1>1. Told(f)
  BY Zenon DEF QueueCore, AllTold
<1>2. call[f] = "acquire"
  BY Zenon, <1>1 DEF Told, Wanted
<1>3. pc[f] \in {"reattempt", "sleep", "dequeue", "dequeue_in"}
  BY Zenon, <1>1, <1>2 DEF Told, Queued
<1>4. pc[f] \in {"dequeue", "dequeue_in"} => own[f] # "none"
  BY Zenon, <1>1, <1>2 DEF Told
<1> QED
  BY Zenon, <1>2, <1>3, <1>4 DEF Woken, Attends

\* LWLockWakeup(): who is left asleep is left to a process that will take the lock.
LEMMA WakeupQueue ==
    ASSUME LockInv, LockInv', WaitListLocked, QueueInv, NEW p \in Proc, LWLockWakeup(p)
    PROVE  QueueInv'
<1>1. QTypes /\ FreeFirst /\ QueueCore /\ Flagged /\ OnList /\ pc \in [Proc -> Location]
  BY Zenon DEF QueueInv, QueueCore, LockInv, Scalars
<1>2. /\ pc[p] = "wakeup_in" /\ Take(p, Awakened) /\ Goto(p, "wake")
      /\ release_ok' = (Lockers = {}) /\ has_waiters' = (has_waiters /\ Awakened # {})
      /\ call' = call /\ own' = own
  BY Zenon DEF LWLockWakeup, args
<1>3. PICK w : w = Awakened
  BY Zenon
<1>4. /\ \A q : q \in w => On(waiters, q)
      /\ \A q : On(waiters, q) /\ lwWaitMode[q] = "until_free" => q \in w
      /\ Lockers = {} => \A q : On(waiters, q) => q \in w
      /\ Lockers # {} => \E f \in w : lwWaitMode[f] # "until_free"
      /\ waiters # <<>> => w # {}
  BY Zenon, <1>1, <1>3, AwakenedIs
<1>5. Takes(p, w)
  BY Zenon, <1>2, <1>3, <1>4 DEF Takes, LWLockWakeup, args
<1>6. \A q \in Proc : /\ VarSleeper(q)' => VarSleeper(q) /\ q \notin w
                      /\ Committed(q)' => Committed(q) /\ q \notin w
                      /\ Stale(q)' => q # p /\ q \notin w /\ lwWaiting[q] = "waiting"
                                        /\ pc[q] = "sleep" /\ call[q] = "waitvar"
  BY Zenon, <1>1, <1>5, TakesWoken
<1>7. pc'[p] = "wake" /\ \A q \in Proc : q # p => pc'[q] = pc[q]
  BY Zenon, <1>1, <1>2, GotoIs
<1>8. /\ \A q \in Proc : q \in w => /\ lwWaiting[q] = "waiting" /\ pc[q] # "dequeue_out"
                                    /\ lwWaiting'[q] = "pending"
      /\ waiters' # <<>> => waiters # <<>>
  BY Zenon, <1>1, <1>5, TakenWaits DEF Takes
<1>9. \A q : On(waiters, q) => q \in Proc
  BY SMTT(40), Z3T(40), <1>1 DEF On, QTypes
<1>10. p \notin w
  <2>1. Told(p)
    BY Zenon, <1>1 DEF QueueCore, AllTold
  <2>2. lwWaiting[p] # "waiting"
    BY Zenon, <1>2, <2>1 DEF Told, Queued
  <2> QED
    BY Zenon, <1>8, <2>2
<1>11. Lockers # {} => \E f \in Proc : Woken(f)' /\ (Attends(f)' \/ own'[f] # "none")
  <2> SUFFICES ASSUME Lockers # {}
               PROVE  \E f \in Proc : Woken(f)' /\ (Attends(f)' \/ own'[f] # "none")
    OBVIOUS
  <2>1. PICK f \in w : lwWaitMode[f] # "until_free"
    BY Zenon, <1>4
  <2>2. f \in Proc /\ f # p
    BY Zenon, <1>4, <1>9, <1>10, <2>1
  <2>3. pc'[f] = pc[f] /\ call'[f] = call[f] /\ own'[f] = own[f]
    BY Zenon, <1>2, <1>7, <2>2
  <2>4. Woken(f)' /\ (Attends(f)' \/ own'[f] # "none")
    BY Zenon, <1>1, <1>8, <2>1, <2>2, <2>3, LockerWoken
  <2> QED
    BY Zenon, <2>2, <2>4
<1>12. Flagged' /\ has_waiters' \in BOOLEAN
  <2>1. ASSUME NEW q \in Proc, pc'[q] = "queue_in" PROVE FALSE
    <3>1. q # p
      BY SMTT(40), Z3T(40), <1>7, <2>1
    <3>2. pc[q] = "queue_in"
      BY Zenon, <1>7, <2>1, <3>1
    <3>3. pc[q] \in Inside /\ pc[p] \in Inside
      BY Zenon, <1>2, <3>2 DEF Inside
    <3> QED
      BY Zenon, <3>1, <3>3 DEF WaitListLocked
  <2> QED
    BY Zenon, <1>1, <1>2, <1>3, <1>4, <1>8, <2>1 DEF Flagged
<1>13. ReleaseHeldBack' /\ release_ok' \in BOOLEAN
  BY Zenon, <1>2, <1>11 DEF ReleaseHeldBack
<1>14. VarRelease'
  <2> SUFFICES ASSUME NEW q \in Proc, VarSleeper(q)' PROVE FALSE
    BY Zenon DEF VarRelease
  <2>1. VarSleeper(q) /\ q \notin w
    BY Zenon, <1>6
  <2>2. lwWaiting[q] = "waiting" /\ call[q] = "waitvar" /\ pc[q] # "dequeue_out"
    BY SMTT(40), Z3T(40), <2>1 DEF VarSleeper
  <2> QED
    BY Zenon, <1>1, <1>4, <2>1, <2>2, SleeperIsFree
<1>15. QueueCore'
  BY Zenon, <1>1, <1>5, <1>12, <1>13, <1>14, TakesKeeps
<1>16. Attended'
  <2> SUFFICES ASSUME Free', NEW q \in Proc, Committed(q)' PROVE \E f \in Proc : Attends(f)'
    BY Zenon DEF Attended
  <2>1. Committed(q) /\ q \notin w
    BY Zenon, <1>6
  <2>2. lwWaiting[q] = "waiting" /\ pc[q] # "dequeue_out"
    BY SMTT(40), Z3T(40), <2>1 DEF Committed
  <2>3. On(waiters, q)
    BY Zenon, <1>1, <2>2 DEF OnList
  <2>4. Lockers # {}
    BY Zenon, <1>4, <2>1, <2>3
  <2>5. PICK f \in Proc : Attends(f)' \/ own'[f] # "none"
    BY Zenon, <1>11, <2>4
  <2>6. own'[f] = "none"
    BY Zenon, HeldNotFree
  <2> QED
    BY Zenon, <2>5, <2>6
<1>17. NoStaleSleeper'
  <2> SUFFICES ASSUME NEW q \in Proc, Stale(q)' PROVE FALSE
    BY Zenon DEF NoStaleSleeper, Stale
  <2>1. /\ q \notin w /\ lwWaiting[q] = "waiting"
        /\ pc[q] = "sleep" /\ call[q] = "waitvar"
    BY Zenon, <1>6
  <2>2. pc[q] # "dequeue_out"
    BY Zenon, <2>1
  <2> QED
    BY Zenon, <1>1, <1>4, <2>1, <2>2, SleeperIsFree
<1> QED
  BY Zenon, <1>15, <1>16, <1>17 DEF QueueInv

-----------------------------------------------------------------------------
(* The waker tells them, and signals them. *)

\* The local lists, when p takes those off its own that are no longer to be woken.
LEMMA LocalShrinks ==
    ASSUME OnLocal, NEW p \in Proc,
           \A q \in Proc : q # p => pc'[q] = pc[q] /\ wakeup'[q] = wakeup[q],
           pc'[p] \notin {"wake", "signal"} => wakeup'[p] = <<>>,
           pc'[p] = "signal" => wakeup'[p] # <<>>,
           NoDup(Linked(p)'),
           \A s \in Proc : On(Linked(p)', s) <=> (On(Linked(p), s) /\ lwWaiting'[s] = "pending"),
           \A s \in Proc : lwWaiting'[s] = "pending" => lwWaiting[s] = "pending",
           \A s \in Proc : lwWaiting[s] = "pending" /\ ~ On(Linked(p), s)
                             => lwWaiting'[s] = "pending"
    PROVE  OnLocal'
<1>1. \A q \in Proc : q # p => Linked(q)' = Linked(q)
  BY Zenon DEF Linked
<1>2. \A q, s \in Proc : On(Linked(q)', s) => On(Linked(q), s)
  BY Zenon, <1>1
<1> SUFFICES ASSUME NEW q \in Proc
             PROVE  /\ pc'[q] \notin {"wake", "signal"} => wakeup'[q] = <<>>
                    /\ pc'[q] = "signal" => wakeup'[q] # <<>>
                    /\ NoDup(Linked(q)')
                    /\ \A s \in Proc : On(Linked(q)', s) => lwWaiting'[s] = "pending"
                    /\ \A s, r \in Proc : On(Linked(q)', s) /\ On(Linked(r)', s) => q = r
                    /\ lwWaiting'[q] = "pending" => \E r \in Proc : On(Linked(r)', q)
  BY Zenon DEF OnLocal, NoDup, On
<1>3. pc'[q] \notin {"wake", "signal"} => wakeup'[q] = <<>>
  BY Zenon DEF OnLocal
<1>4. pc'[q] = "signal" => wakeup'[q] # <<>>
  BY Zenon DEF OnLocal
<1>5. NoDup(Linked(q)')
  <2>1. NoDup(Linked(q))
    BY Zenon DEF OnLocal
  <2> QED
    BY Zenon, <1>1, <2>1
<1>6. ASSUME NEW s \in Proc, On(Linked(q)', s) PROVE lwWaiting'[s] = "pending"
  <2>1. CASE q = p
    BY Zenon, <1>6, <2>1
  <2>2. CASE q # p
    <3>1. On(Linked(q), s)
      BY Zenon, <1>2, <1>6
    <3>2. lwWaiting[s] = "pending" /\ ~ On(Linked(p), s)
      BY Zenon, <2>2, <3>1 DEF OnLocal
    <3> QED
      BY Zenon, <3>2
  <2> QED
    BY Zenon, <2>1, <2>2
<1>7. ASSUME NEW s \in Proc, NEW r \in Proc, On(Linked(q)', s), On(Linked(r)', s) PROVE q = r
  <2>1. On(Linked(q), s) /\ On(Linked(r), s)
    BY Zenon, <1>2, <1>7
  <2> QED
    BY Zenon, <2>1 DEF OnLocal
<1>8. ASSUME lwWaiting'[q] = "pending" PROVE \E r \in Proc : On(Linked(r)', q)
  <2>1. lwWaiting[q] = "pending"
    BY Zenon, <1>8
  <2>2. PICK r \in Proc : On(Linked(r), q)
    BY Zenon, <2>1 DEF OnLocal
  <2>3. On(Linked(r)', q)
    <3>1. CASE r = p
      BY Zenon, <1>8, <2>2, <3>1
    <3>2. CASE r # p
      BY Zenon, <1>1, <2>2, <3>2
    <3> QED
      BY Zenon, <3>1, <3>2
  <2> QED
    BY Zenon, <2>3
<1> QED
  BY Zenon, <1>3, <1>4, <1>5, <1>6, <1>7, <1>8

\* A step of a waker with its local list.
Waker(p) ==
    /\ UNCHANGED <<has_waiters, release_ok, exclusive, shared, waiters, valptr, lwWaitMode,
                   foreign, call, mode, val, extraWaits, own>>
    /\ pc[p] \in {"wake", "signal"} /\ pc'[p] \in {"wake", "signal", "idle"}
    /\ \A q \in Proc : q # p => pc'[q] = pc[q]
    /\ lwWaiting' \in [Proc -> WaitState]
    /\ \A q \in Proc : \/ lwWaiting'[q] = lwWaiting[q]
                       \/ lwWaiting[q] = "pending" /\ lwWaiting'[q] = "not_waiting"
    /\ sem' \in [Proc -> Nat] /\ wakeup' \in [Proc -> Seq(Proc)]

\* What was said of a process that waits stays when it is told.
LEMMA ToldWoken ==
    ASSUME NEW q \in Proc, Told(q), lwWaiting[q] = "pending",
           pc'[q] = pc[q], call'[q] = call[q], mode'[q] = mode[q],
           own'[q] = own[q], lwWaitMode'[q] = lwWaitMode[q], lwWaiting'[q] = "not_waiting"
    PROVE  Told(q)'
  BY Zenon DEF Told, Queued, Wanted

\* A waker at work keeps what the lists say of everyone else.
LEMMA WakerKeeps ==
    ASSUME QueueInv, NEW p \in Proc, Waker(p), OnLocal', SignalsConserved'
    PROVE  QueueInv'
<1>1. QTypes /\ QueueCore /\ AllTold /\ Attended /\ NoStaleSleeper /\ OnList /\ Flagged
      /\ FreeFirst /\ ReleaseHeldBack /\ VarRelease
  BY Zenon DEF QueueInv, QueueCore
<1>2. UNCHANGED <<has_waiters, release_ok, exclusive, shared, waiters, valptr, lwWaitMode,
                  foreign, call, mode, val, extraWaits, own>>
  BY Zenon DEF Waker
<1>3. /\ pc[p] \in {"wake", "signal"} /\ pc'[p] \in {"wake", "signal", "idle"}
      /\ \A q \in Proc : q # p => pc'[q] = pc[q]
  BY Zenon DEF Waker
<1>4. Told(p) /\ lwWaiting[p] = "not_waiting"
  <2>1. Told(p)
    BY Zenon, <1>1 DEF AllTold
  <2> QED
    BY Zenon, <1>3, <2>1 DEF Told, Queued
<1>5. lwWaiting'[p] = "not_waiting"
  BY Zenon, <1>4 DEF Waker
<1>6. \A q \in Proc : lwWaiting'[q] = "waiting" <=> lwWaiting[q] = "waiting"
  <2> SUFFICES ASSUME NEW q \in Proc
               PROVE  lwWaiting'[q] = "waiting" <=> lwWaiting[q] = "waiting"
    BY Zenon
  <2>1. \/ lwWaiting'[q] = lwWaiting[q]
        \/ lwWaiting[q] = "pending" /\ lwWaiting'[q] = "not_waiting"
    BY Zenon DEF Waker
  <2> QED
    BY Zenon, <2>1
<1>7. /\ \A q \in Proc : pc'[q] = "dequeue_out" <=> pc[q] = "dequeue_out"
      /\ pc'[p] # "queue_in"
  BY SMTT(40), Z3T(40), <1>3
<1>8. QTypes'
  BY Zenon, <1>1, <1>2 DEF QTypes, Waker
<1>9. AllTold'
  <2> SUFFICES ASSUME NEW q \in Proc PROVE Told(q)'
    BY Zenon DEF AllTold
  <2>1. CASE q = p
    BY Zenon, <1>3, <1>5, <2>1 DEF Told, Queued
  <2>2. CASE q # p /\ lwWaiting'[q] = lwWaiting[q]
    BY Zenon, <1>1, <1>2, <1>3, <2>2, ToldSame DEF AllTold
  <2>3. CASE q # p /\ lwWaiting[q] = "pending" /\ lwWaiting'[q] = "not_waiting"
    BY Zenon, <1>1, <1>2, <1>3, <2>3, ToldWoken DEF AllTold
  <2> QED
    BY Zenon, <2>1, <2>2, <2>3 DEF Waker
<1>10. OnList' /\ Flagged' /\ FreeFirst'
  <2>1. OnList'
    BY Zenon, <1>1, <1>2, <1>6, <1>7 DEF OnList
  <2>2. Flagged'
    BY Zenon, <1>1, <1>2, <1>3, <1>7 DEF Flagged
  <2>3. FreeFirst'
    BY Zenon, <1>1, <1>2 DEF FreeFirst
  <2> QED
    BY Zenon, <2>1, <2>2, <2>3
<1>11. ~ Woken(p) /\ ~ VarSleeper(p)' /\ ~ Committed(p)' /\ ~ Attends(p) /\ ~ Stale(p)'
       /\ ~ Releases(p)
  BY Zenon, <1>3 DEF Woken, VarSleeper, Committed, Attends, Stale, Asleep, Releases
<1>12. \A q \in Proc : q # p => /\ Woken(q) => Woken(q)'
                                /\ VarSleeper(q)' => VarSleeper(q)
  BY Zenon, <1>2, <1>3, <1>6 DEF Woken, VarSleeper
<1>13. ReleaseHeldBack' /\ VarRelease'
  BY Zenon, <1>1, <1>2, <1>11, <1>12 DEF ReleaseHeldBack, VarRelease
<1>14. Apart(p) /\ (Free' => Free)
  BY Zenon, <1>2, <1>3 DEF Apart, Free
<1>15. Attended'
  BY Zenon, <1>1, <1>6, <1>11, <1>14, AttendedKept
<1>16. NoStaleSleeper'
  BY Zenon, <1>1, <1>2, <1>6, <1>11, <1>14, StaleKept
<1> QED
  BY Zenon, <1>8, <1>9, <1>10, <1>13, <1>15, <1>16 DEF QueueInv, QueueCore

\* The waker unlinks the next process and tells it so.
LEMMA WakeQueue ==
    ASSUME LockInv, QueueInv, NEW p \in Proc, Wake(p)
    PROVE  QueueInv'
<1>1. QTypes /\ OnLocal /\ SignalsConserved /\ AllTold /\ pc \in [Proc -> Location]
  BY Zenon DEF QueueInv, QueueCore, LockInv, Scalars
<1>2. /\ UNCHANGED <<has_waiters, release_ok, exclusive, shared, waiters, valptr, lwWaitMode,
                     foreign, call, mode, val, extraWaits, own, sem, wakeup>>
      /\ pc[p] = "wake"
  BY Zenon DEF Wake, state, args
<1>3. Linked(p) = wakeup[p] /\ pc[p] # "signal"
  BY Zenon, <1>2 DEF Linked
<1>4. NoDup(Linked(p)) /\ wakeup[p] \in Seq(Proc)
  BY Zenon, <1>1 DEF OnLocal, QTypes
<1>7. \A s \in Proc : On(Linked(p), s) => lwWaiting[s] = "pending"
  BY Zenon, <1>1 DEF OnLocal
<1>5. CASE wakeup[p] = <<>> /\ Goto(p, "idle") /\ lwWaiting' = lwWaiting
  <2>1. pc'[p] = "idle" /\ \A q \in Proc : q # p => pc'[q] = pc[q]
    BY Zenon, <1>1, <1>5, GotoIs
  <2>2. Waker(p)
    BY Zenon, <1>1, <1>2, <1>5, <2>1 DEF Waker, QTypes
  <2>3. pc'[p] # "signal" /\ pc'[p] # "wake"
    BY Zenon, <2>1
  <2>4. Linked(p)' = wakeup[p]
    BY Zenon, <1>2, <2>3 DEF Linked
  <2>5. \A s \in Proc : On(Linked(p)', s) <=> (On(Linked(p), s) /\ lwWaiting'[s] = "pending")
    BY Zenon, <1>3, <1>5, <1>7, <2>4
  <2>6. OnLocal'
    BY Zenon, <1>1, <1>2, <1>3, <1>4, <1>5, <2>1, <2>3, <2>4, <2>5, LocalShrinks
  <2>7. SignalsConserved'
    <3>1. \A r : Owed(r)' = Owed(r)
      BY Zenon, <1>2, <1>3, <2>1, <2>3, OwedSame
    <3>2. Due(p) = 0 /\ Due(p)' = 0
      BY Zenon, <1>2, <2>1 DEF Due, Queued
    <3>3. \A q \in Proc : Due(q)' = Due(q)
      BY Zenon, <1>5, <2>1, <3>2, DueSame
    <3>4. \A q \in Proc : sem'[q] + extraWaits'[q] + foreign[q] + Due(q)
                            = sem[q] + extraWaits[q] + foreign'[q] + Due(q)'
      BY Zenon, <1>2, <3>3
    <3>5. QTypes'
      BY Zenon, <1>1, <1>2, <1>5 DEF QTypes
    <3> QED
      BY Zenon, <1>1, <3>1, <3>4, <3>5, SignalsKept
  <2> QED
    BY Zenon, <2>2, <2>6, <2>7, WakerKeeps
<1>6. CASE /\ wakeup[p] # <<>> /\ Goto(p, "signal")
           /\ lwWaiting' = [lwWaiting EXCEPT ![Head(wakeup[p])] = "not_waiting"]
  <2>1. pc'[p] = "signal" /\ \A q \in Proc : q # p => pc'[q] = pc[q]
    BY Zenon, <1>1, <1>6, GotoIs
  <2>2. PICK h : h = Head(wakeup[p])
    BY Zenon
  <2>3. PICK t : t = Tail(wakeup[p])
    BY Zenon
  <2>4. /\ NoDup(t) /\ h \in Proc /\ On(wakeup[p], h) /\ ~ On(t, h)
        /\ \A q : On(t, q) <=> (On(wakeup[p], q) /\ q # h)
    BY Zenon, <1>3, <1>4, <1>6, <2>2, <2>3, Heads
  <2>5. lwWaiting[h] = "pending" /\ lwWaiting'[h] = "not_waiting"
        /\ \A q \in Proc : q # h => lwWaiting'[q] = lwWaiting[q]
    <3>1. lwWaiting[h] = "pending"
      BY Zenon, <1>3, <1>7, <2>4
    <3> QED
      BY Zenon, <1>1, <1>6, <2>2, <2>4, <3>1 DEF QTypes
  <2>6. lwWaiting' \in [Proc -> WaitState]
    BY Zenon, <1>1, <1>6, <2>2, <2>4 DEF QTypes, WaitState
  <2>7. Waker(p)
    <3>1. \A q \in Proc : \/ lwWaiting'[q] = lwWaiting[q]
                          \/ lwWaiting[q] = "pending" /\ lwWaiting'[q] = "not_waiting"
      BY Zenon, <2>4, <2>5
    <3> QED
      BY Zenon, <1>1, <1>2, <2>1, <2>6, <3>1 DEF Waker, QTypes
  <2>8. Linked(p)' = t
    BY Zenon, <1>2, <2>1, <2>3 DEF Linked
  <2>9. lwWaiting'[h] # "pending"
    BY SMTT(40), Z3T(40), <2>5
  <2>10. \A s \in Proc : On(Linked(p)', s) <=> (On(Linked(p), s) /\ lwWaiting'[s] = "pending")
    <3> SUFFICES ASSUME NEW s \in Proc
                 PROVE  On(t, s) <=> (On(wakeup[p], s) /\ lwWaiting'[s] = "pending")
      BY Zenon, <1>3, <2>8
    <3>1. CASE s = h
      BY Zenon, <2>4, <2>9, <3>1
    <3>2. CASE s # h
      <4>1. On(wakeup[p], s) => lwWaiting[s] = "pending"
        BY Zenon, <1>3, <1>7
      <4>2. lwWaiting'[s] = lwWaiting[s]
        BY Zenon, <2>5, <3>2
      <4> QED
        BY Zenon, <2>4, <3>2, <4>1, <4>2
    <3> QED
      BY Zenon, <3>1, <3>2
  <2>11. OnLocal'
    <3>1. \A s \in Proc : lwWaiting'[s] = "pending" => lwWaiting[s] = "pending"
      BY Zenon, <2>5
    <3>2. \A s \in Proc : lwWaiting[s] = "pending" /\ ~ On(Linked(p), s)
                            => lwWaiting'[s] = "pending"
      BY Zenon, <1>3, <2>4, <2>5
    <3>3. wakeup'[p] # <<>> /\ NoDup(Linked(p)')
      BY Zenon, <1>2, <1>6, <2>4, <2>8
    <3> QED
      BY Zenon, <1>1, <1>2, <2>1, <2>10, <3>1, <3>2, <3>3, LocalShrinks
  <2>12. SignalsConserved'
    <3> SUFFICES ASSUME NEW q \in Proc
                 PROVE  sem'[q] + extraWaits'[q] + Cardinality(Owed(q)') = foreign'[q] + Due(q)'
      BY Zenon DEF SignalsConserved, Due
    <3>1. sem[q] + extraWaits[q] + Cardinality(Owed(q)) = foreign[q] + Due(q)
      BY Zenon, <1>1 DEF SignalsConserved, Due
    <3>2. sem'[q] = sem[q] /\ extraWaits'[q] = extraWaits[q] /\ foreign'[q] = foreign[q]
      BY Zenon, <1>2
    <3>3. CASE q = h
      <4>1. Owed(h)' = Owed(h) \cup {p} /\ p \notin Owed(h)
        BY Zenon, <1>2, <1>3, <2>1, <2>2 DEF Owed
      <4>2. Cardinality(Owed(h)') = Cardinality(Owed(h)) + 1
        BY Zenon, <4>1, OwedCount, FS_AddElement
      <4>3. h # p /\ Queued(h)
        <5>1. Told(p) /\ Told(h)
          BY Zenon, <1>1, <2>4 DEF AllTold
        <5>2. lwWaiting[p] = "not_waiting"
          BY Zenon, <1>2, <5>1 DEF Told, Queued
        <5>3. h # p
          BY Zenon, <2>5, <5>2
        <5>4. Queued(h)
          BY Zenon, <2>5, <5>1 DEF Told
        <5> QED
          BY Zenon, <5>3, <5>4
      <4>4. pc'[h] = pc[h]
        BY Zenon, <2>1, <2>4, <4>3
      <4>5. Due(h) = 0
        BY Zenon, <2>5 DEF Due
      <4>6. Due(h)' = 1
        BY Zenon, <2>5, <4>3, <4>4, QueuedSame DEF Due
      <4>7. Cardinality(Owed(h)) \in Nat /\ sem[h] \in Nat /\ extraWaits[h] \in Nat
            /\ foreign[h] \in Nat
        BY Zenon, <1>1, <2>4, OwedCount DEF QTypes
      <4>8. sem[h] + extraWaits[h] + Cardinality(Owed(h)) = foreign[h] + 0
        BY Zenon, <3>1, <3>3, <4>5
      <4>9. sem[h] + extraWaits[h] + (Cardinality(Owed(h)) + 1) = foreign[h] + 1
        BY SMTT(40), Z3T(40), <4>7, <4>8
      <4> QED
        BY Zenon, <3>2, <3>3, <4>2, <4>6, <4>9
    <3>4. CASE q # h
      <4>1. Owed(q)' = Owed(q)
        BY Zenon, <1>2, <1>3, <2>1, <2>2, <3>4 DEF Owed
      <4>2. Due(q)' = Due(q)
        <5>1. CASE q = p
          BY Zenon, <1>2, <2>1, <5>1 DEF Due, Queued
        <5>2. CASE q # p
          BY Zenon, <2>1, <2>5, <3>4, <5>2, DueSame
        <5> QED
          BY Zenon, <5>1, <5>2
      <4> QED
        BY Zenon, <3>1, <3>2, <4>1, <4>2
    <3> QED
      BY Zenon, <3>3, <3>4
  <2> QED
    BY Zenon, <2>7, <2>11, <2>12, WakerKeeps
<1> QED
  BY Zenon, <1>5, <1>6 DEF Wake

\* The waker signals the process it has told.
LEMMA SignalQueue ==
    ASSUME LockInv, QueueInv, NEW p \in Proc, Signal(p)
    PROVE  QueueInv'
<1>1. QTypes /\ OnLocal /\ SignalsConserved /\ pc \in [Proc -> Location]
  BY Zenon DEF QueueInv, QueueCore, LockInv, Scalars
<1>2. /\ UNCHANGED <<has_waiters, release_ok, exclusive, shared, waiters, valptr, lwWaitMode,
                     foreign, call, mode, val, extraWaits, own, lwWaiting>>
      /\ pc[p] = "signal"
      /\ sem' = [sem EXCEPT ![Head(wakeup[p])] = @ + 1]
      /\ wakeup' = [wakeup EXCEPT ![p] = Tail(@)]
      /\ Goto(p, "wake")
  BY Zenon DEF Signal, state, args, proc
<1>3. pc'[p] = "wake" /\ \A q \in Proc : q # p => pc'[q] = pc[q]
  BY Zenon, <1>1, <1>2, GotoIs
<1>4. wakeup[p] # <<>> /\ wakeup[p] \in Seq(Proc)
  BY Zenon, <1>1, <1>2 DEF OnLocal, QTypes
<1>5. PICK h : h = Head(wakeup[p])
  BY Zenon
<1>6. PICK t : t = Tail(wakeup[p])
  BY Zenon
<1>7. h \in Proc /\ t \in Seq(Proc)
  BY SMTT(40), Z3T(40), <1>4, <1>5, <1>6
<1>8. wakeup'[p] = t /\ (\A q \in Proc : q # p => wakeup'[q] = wakeup[q])
      /\ wakeup' \in [Proc -> Seq(Proc)]
  BY Zenon, <1>1, <1>2, <1>6, <1>7 DEF QTypes
<1>9. sem'[h] = sem[h] + 1 /\ (\A q \in Proc : q # h => sem'[q] = sem[q])
      /\ sem' \in [Proc -> Nat]
  BY SMTT(40), Z3T(40), <1>1, <1>2, <1>5, <1>7 DEF QTypes
<1>10. Waker(p)
  BY Zenon, <1>1, <1>2, <1>3, <1>8, <1>9 DEF Waker, QTypes
<1>11. pc'[p] # "signal"
  BY SMTT(40), Z3T(40), <1>3
<1>12. Linked(p) = t /\ Linked(p)' = t
  BY Zenon, <1>2, <1>6, <1>8, <1>11 DEF Linked
<1>13. OnLocal'
  <2>1. NoDup(Linked(p)) /\ \A s \in Proc : On(Linked(p), s) => lwWaiting[s] = "pending"
    BY Zenon, <1>1 DEF OnLocal
  <2>4. NoDup(Linked(p)')
    BY Zenon, <1>12, <2>1
  <2>2. \A s \in Proc : On(Linked(p)', s) <=> (On(Linked(p), s) /\ lwWaiting'[s] = "pending")
    BY Zenon, <1>2, <1>12, <2>1
  <2>3. pc'[p] \in {"wake", "signal"}
    BY Zenon, <1>3
  <2> QED
    BY Zenon, <1>1, <1>2, <1>3, <1>8, <1>11, <2>2, <2>3, <2>4, LocalShrinks
<1>14. SignalsConserved'
  <2> SUFFICES ASSUME NEW q \in Proc
               PROVE  sem'[q] + extraWaits'[q] + Cardinality(Owed(q)') = foreign'[q] + Due(q)'
    BY Zenon DEF SignalsConserved, Due
  <2>1. sem[q] + extraWaits[q] + Cardinality(Owed(q)) = foreign[q] + Due(q)
    BY Zenon, <1>1 DEF SignalsConserved, Due
  <2>2. extraWaits'[q] = extraWaits[q] /\ foreign'[q] = foreign[q]
    BY Zenon, <1>2
  <2>3. Due(q)' = Due(q)
    <3>1. CASE q = p
      BY Zenon, <1>2, <1>3, <3>1 DEF Due, Queued
    <3>2. CASE q # p
      BY Zenon, <1>2, <1>3, <3>2, DueSame
    <3> QED
      BY Zenon, <3>1, <3>2
  <2>4. CASE q = h
    <3>1. Owed(h)' = Owed(h) \ {p} /\ p \in Owed(h)
      BY Zenon, <1>2, <1>3, <1>5, <1>8, <1>11 DEF Owed
    <3>2. Cardinality(Owed(h)') = Cardinality(Owed(h)) - 1
      BY Zenon, <3>1, OwedCount, FS_RemoveElement
    <3>3. PICK d : d = foreign[h] + Due(h)
      BY Zenon
    <3>4. Cardinality(Owed(h)) \in Nat /\ sem[h] \in Nat /\ extraWaits[h] \in Nat
      BY Zenon, <1>1, <1>7, OwedCount DEF QTypes
    <3>5. sem[h] + extraWaits[h] + Cardinality(Owed(h)) = d
      BY Zenon, <2>1, <2>4, <3>3
    <3>6. (sem[h] + 1) + extraWaits[h] + (Cardinality(Owed(h)) - 1) = d
      BY SMTT(40), Z3T(40), <3>4, <3>5
    <3> QED
      BY Zenon, <1>9, <2>2, <2>3, <2>4, <3>2, <3>3, <3>6
  <2>5. CASE q # h
    <3>1. Owed(q)' = Owed(q)
      BY Zenon, <1>2, <1>3, <1>5, <1>8, <1>11, <2>5 DEF Owed
    <3> QED
      BY Zenon, <1>9, <2>1, <2>2, <2>3, <2>5, <3>1
  <2> QED
    BY Zenon, <2>4, <2>5
<1> QED
  BY Zenon, <1>10, <1>13, <1>14, WakerKeeps

-----------------------------------------------------------------------------
(* The invariant, and what follows from it. *)

\* At the start nobody waits.
LEMMA QueueInit == Init => QueueInv
<1> SUFFICES ASSUME Init PROVE QueueInv
  OBVIOUS
<1>1. /\ waiters = <<>> /\ has_waiters = FALSE /\ release_ok = TRUE
      /\ \A p \in Proc : /\ lwWaiting[p] = "not_waiting" /\ lwWaitMode[p] = "exclusive"
                         /\ sem[p] = 0 /\ foreign[p] = 0 /\ extraWaits[p] = 0
                         /\ pc[p] = "idle" /\ wakeup[p] = <<>>
  BY Zenon DEF Init
<1>2. \A p \in Proc : ~ Queued(p) /\ ~ VarSleeper(p) /\ ~ Committed(p) /\ ~ Asleep(p)
  BY Zenon, <1>1 DEF Queued, VarSleeper, Committed, Asleep
<1>3. \A q : ~ On(<<>>, q)
  BY SMTT(40), Z3T(40) DEF On
<1>4. NoDup(<<>>)
  BY SMTT(40), Z3T(40) DEF NoDup
<1>5. QTypes
  <2>1. /\ lwWaiting \in [Proc -> WaitState] /\ call \in [Proc -> CallName]
        /\ lwWaitMode \in [Proc -> {"shared", "exclusive", "until_free"}]
        /\ sem \in [Proc -> Nat] /\ foreign \in [Proc -> Nat] /\ extraWaits \in [Proc -> Nat]
    BY Zenon DEF Init, WaitState, CallName
  <2>2. <<>> \in Seq(Proc)
    BY SMTT(40), Z3T(40)
  <2>3. wakeup \in [Proc -> Seq(Proc)]
    BY Zenon, <2>2 DEF Init
  <2>4. val = [p \in Proc |-> val[p]]
    BY Zenon DEF Init
  <2> QED
    BY Zenon, <1>1, <2>1, <2>2, <2>3, <2>4 DEF QTypes
<1>6. AllTold
  BY Zenon, <1>1, <1>2 DEF AllTold, Told
<1>7. OnList
  <2>1. \A p \in Proc : lwWaiting[p] # "waiting"
    BY Zenon, <1>1
  <2> QED
    BY Zenon, <1>1, <1>3, <1>4, <2>1 DEF OnList
<1>8. Flagged /\ FreeFirst
  BY SMTT(40), Z3T(40), <1>1 DEF Flagged, FreeFirst
<1>9. OnLocal
  <2>1. \A q \in Proc : Linked(q) = <<>> /\ pc[q] # "signal" /\ lwWaiting[q] # "pending"
    BY Zenon, <1>1 DEF Linked
  <2> QED
    BY Zenon, <1>1, <1>3, <1>4, <2>1 DEF OnLocal
<1>10. SignalsConserved
  <2> SUFFICES ASSUME NEW q \in Proc
               PROVE  sem[q] + extraWaits[q] + Cardinality(Owed(q)) = foreign[q] + Due(q)
    BY Zenon DEF SignalsConserved, Due
  <2>1. \A r \in Proc : pc[r] # "signal"
    BY Zenon, <1>1
  <2>2. Owed(q) = {}
    BY Zenon, <2>1 DEF Owed
  <2>3. Cardinality(Owed(q)) = 0
    BY Zenon, <2>2, FS_EmptySet
  <2>4. Due(q) = 0
    BY Zenon, <1>2 DEF Due
  <2> QED
    BY SMTT(40), Z3T(40), <1>1, <2>3, <2>4
<1>11. ReleaseHeldBack /\ VarRelease /\ Attended /\ NoStaleSleeper
  BY Zenon, <1>1, <1>2 DEF ReleaseHeldBack, VarRelease, Attended, NoStaleSleeper
<1> QED
  BY Zenon, <1>5, <1>6, <1>7, <1>8, <1>9, <1>10, <1>11 DEF QueueInv, QueueCore

\* Every step keeps the invariant of the lists.
LEMMA QueueStep == LockInv /\ LockInv' /\ WaitListLocked /\ QueueInv /\ [Next]_vars => QueueInv'
<1> SUFFICES ASSUME LockInv, LockInv', WaitListLocked, QueueInv, [Next]_vars PROVE QueueInv'
  OBVIOUS
<1>1. CASE UNCHANGED vars
  <2>1. QTypes' /\ AllTold' /\ OnList' /\ Flagged' /\ FreeFirst' /\ OnLocal'
    <3>1. QTypes'
      BY Zenon, <1>1 DEF vars, QueueInv, QueueCore, QTypes
    <3>2. AllTold'
      BY Zenon, <1>1 DEF vars, QueueInv, QueueCore, AllTold, Told, Queued, Wanted
    <3>3. OnList' /\ Flagged' /\ FreeFirst'
      BY Zenon, <1>1 DEF vars, QueueInv, QueueCore, OnList, Flagged, FreeFirst
    <3>4. OnLocal'
      <4>1. UNCHANGED <<pc, wakeup, lwWaiting>> /\ OnLocal
        BY Zenon, <1>1 DEF vars, QueueInv, QueueCore
      <4>2. \A q \in Proc : Linked(q)' = Linked(q)
        BY Zenon, <4>1 DEF Linked
      <4> QED
        BY Zenon, <4>1, <4>2, LocalSame
    <3> QED
      BY Zenon, <3>1, <3>2, <3>3, <3>4
  <2>2. SignalsConserved' /\ ReleaseHeldBack' /\ VarRelease' /\ Attended' /\ NoStaleSleeper'
    BY Zenon, <1>1 DEF vars, QueueInv, QueueCore, SignalsConserved, Owed, Queued, ReleaseHeldBack,
         Woken, VarRelease, VarSleeper, Attended, Committed, Attends, Free, NoStaleSleeper, Asleep
  <2> QED
    BY Zenon, <2>1, <2>2 DEF QueueInv, QueueCore
<1>2. ASSUME NEW p \in Proc, Step(p) PROVE QueueInv'
  BY Zenon, <1>2, AttemptQueue, EntryQueue, FlagQueue, EnqueueQueue, UnlinkQueue, DequeueQueue,
     OkQueue, SleepQueue, ConflictQueue, ReadQueue, UpdateQueue, ReleaseQueue, ClearQueue,
     WakeupQueue, WakeQueue, SignalQueue DEF Step
<1>3. ASSUME NEW p \in Proc, Begin(p) PROVE QueueInv'
  <2>1. "acquire" \in CallName /\ "orwait" \in CallName /\ "waitvar" \in CallName
    BY Zenon DEF CallName
  <2>2. ASSUME NEW m, NEW v, NEW c \in {"acquire", "orwait"}, Start(p, c, "attempt", m, v)
        PROVE  QueueInv'
    BY Zenon, <2>1, <2>2, StartQueue
  <2>3. ASSUME NEW m, NEW v, NEW c \in CallName, NEW l, c = "waitvar", l = "check",
               Start(p, c, l, m, v)
        PROVE  QueueInv'
    <3>1. (c = "waitvar" /\ l = "check") \/ (c \in {"acquire", "orwait"} /\ l = "attempt")
      BY SMTT(40), Z3T(40), <2>3
    <3>2. Start(p, c, l, m, v)
      BY Zenon, <2>3
    <3> QED
      BY Zenon, <3>1, <3>2, StartQueue
  <2>4. CASE LWLockAcquire(p)
    BY Zenon, <2>2, <2>4 DEF LWLockAcquire
  <2>5. CASE LWLockAcquireOrWait(p)
    BY Zenon, <2>2, <2>5 DEF LWLockAcquireOrWait
  <2>6. CASE LWLockWaitForVar(p)
    BY Zenon, <2>1, <2>3, <2>6 DEF LWLockWaitForVar
  <2> QED
    BY Zenon, <1>3, <2>4, <2>5, <2>6, UpdateStartQueue, ClearStartQueue,
    ConditionalQueue DEF Begin
<1> QED
  BY Zenon, <1>1, <1>2, <1>3, ForeignQueue DEF Next

\* The inductive invariant of the lock, of its wait list and of the local lists.
LEMMA QueueInvariant == Spec => [](LockInv /\ WaitListLocked /\ QueueInv)
<1>1. Init => WaitListLocked
  BY SMTT(40), Z3T(40) DEF Init, WaitListLocked, Inside
<1> QED
  BY <1>1, LockInit, QueueInit, LockStep, ListStep, QueueStep, PTL DEF Spec

\* How often a process occurs in a list without duplicates.
LEMMA OccursOnce ==
    ASSUME NEW s, NoDup(s), NEW p
    PROVE  Occurs(s, p) = IF On(s, p) THEN 1 ELSE 0
<1>1. CASE On(s, p)
  <2>1. PICK i \in 1 .. Len(s) : s[i] = p
    BY Zenon, <1>1 DEF On
  <2>2. {j \in 1 .. Len(s) : s[j] = p} = {i}
    BY Zenon, <2>1 DEF NoDup
  <2>3. Cardinality({i}) = 1
    BY Zenon, FS_Singleton
  <2> QED
    BY Zenon, <1>1, <2>2, <2>3 DEF Occurs
<1>2. CASE ~ On(s, p)
  <2>1. {j \in 1 .. Len(s) : s[j] = p} = {}
    BY Zenon, <1>2 DEF On
  <2> QED
    BY Zenon, <1>2, <2>1, FS_EmptySet DEF Occurs
<1> QED
  BY Zenon, <1>1, <1>2

\* The lists of LWLockQueueSelf(), LWLockWakeup() and LWLockUpdateVar() share one link per
\* process and never hold it twice; the flag covers everyone on the wait list.
THEOREM ListsAreDisjoint == Spec => []ListsDisjoint
<1>1. QueueInv => ListsDisjoint
  <2> SUFFICES ASSUME QueueInv PROVE ListsDisjoint
    OBVIOUS
  <2>1. OnList /\ Flagged /\ OnLocal
    BY Zenon DEF QueueInv, QueueCore
  <2> SUFFICES ASSUME NEW p \in Proc
               PROVE  /\ Occurs(waiters, p) =
                           IF lwWaiting[p] = "waiting" /\ pc[p] # "dequeue_out" THEN 1 ELSE 0
                      /\ Cardinality({q \in Proc : Occurs(Linked(q), p) > 0}) =
                           IF lwWaiting[p] = "pending" THEN 1 ELSE 0
                      /\ \A q \in Proc : Occurs(Linked(q), p) <= 1
    BY Zenon, <2>1 DEF ListsDisjoint, Flagged
  <2>2. Occurs(waiters, p) = IF lwWaiting[p] = "waiting" /\ pc[p] # "dequeue_out" THEN 1 ELSE 0
    BY Zenon, <2>1, OccursOnce DEF OnList
  <2>3. \A q \in Proc : Occurs(Linked(q), p) = IF On(Linked(q), p) THEN 1 ELSE 0
    <3>1. \A q \in Proc : NoDup(Linked(q))
      BY Zenon, <2>1 DEF OnLocal
    <3> QED
      BY Zenon, <3>1, OccursOnce
  <2>4. \A q \in Proc : /\ Occurs(Linked(q), p) <= 1
                        /\ Occurs(Linked(q), p) > 0 <=> On(Linked(q), p)
    BY SMTT(40), Z3T(40), <2>3
  <2>5. {q \in Proc : Occurs(Linked(q), p) > 0} = {q \in Proc : On(Linked(q), p)}
    BY Zenon, <2>4
  <2>6. CASE lwWaiting[p] = "pending"
    <3>1. PICK r \in Proc : On(Linked(r), p)
      BY Zenon, <2>1, <2>6 DEF OnLocal
    <3>2. \A q \in Proc : On(Linked(q), p) => q = r
      BY Zenon, <2>1, <3>1 DEF OnLocal
    <3>3. {q \in Proc : On(Linked(q), p)} = {r}
      BY Zenon, <3>1, <3>2
    <3>4. Cardinality({r}) = 1
      BY Zenon, FS_Singleton
    <3> QED
      BY Zenon, <2>2, <2>4, <2>5, <2>6, <3>3, <3>4
  <2>7. CASE lwWaiting[p] # "pending"
    <3>1. \A q \in Proc : ~ On(Linked(q), p)
      BY Zenon, <2>1, <2>7 DEF OnLocal
    <3>2. {q \in Proc : On(Linked(q), p)} = {}
      BY Zenon, <3>1
    <3> QED
      BY Zenon, <2>2, <2>4, <2>5, <2>7, <3>2, FS_EmptySet
  <2> QED
    BY Zenon, <2>6, <2>7
<1> QED
  BY <1>1, QueueInvariant, PTL

\* The signals of a process's semaphore that come from other users are neither swallowed by
\* a wait for the lock nor doubled by one.
THEOREM SignalsAreConserved == Spec => []SignalsConserved
<1>1. QueueInv => SignalsConserved
  BY Zenon DEF QueueInv, QueueCore
<1> QED
  BY <1>1, QueueInvariant, PTL

\* Nobody sleeps on a free lock unless another process is bound to wake the queue or to take
\* the lock: the second attempt of LWLockAcquire() and LW_FLAG_RELEASE_OK lose no wakeup.
THEOREM NoWakeupIsLost == Spec => []NoLostWakeup
<1>1. QueueInv => NoLostWakeup
  <2> SUFFICES ASSUME QueueInv, Free, NEW p \in Proc, Asleep(p)
               PROVE  \E q \in Proc : Attends(q)
    BY Zenon DEF NoLostWakeup
  <2>1. Committed(p)
    BY Zenon DEF Committed, Asleep
  <2> QED
    BY Zenon, <2>1 DEF QueueInv, Attended
<1> QED
  BY <1>1, QueueInvariant, PTL

\* A process asleep in LWLockWaitForVar() with an outdated value is about to be woken by a
\* release: LWLockUpdateVar() leaves nobody behind.
THEOREM NoSleeperIsStale == Spec => []NoStaleSleeper
<1>1. QueueInv => NoStaleSleeper
  BY Zenon DEF QueueInv
<1> QED
  BY <1>1, QueueInvariant, PTL
=============================================================================
