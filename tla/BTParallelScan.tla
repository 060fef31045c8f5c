--------------------------- MODULE BTParallelScan ---------------------------
(***************************************************************************)
(* Parallel forward scans of a btree: the functions _bt_parallel_... of    *)
(* src/backend/access/nbtree/nbtree.c, on a condition variable, and their  *)
(* callers in nbtsearch.c, nbtutils.c and btgettuple.                      *)
(*                                                                         *)
(* The leaf pages are 1 .. NumPages, from left to right.  A set of array   *)
(* keys is what the scan looks for at one time: whether it can be          *)
(* satisfied at all, the page where it starts and the page where           *)
(* _bt_checkkeys finds that no later item can match.                       *)
(***************************************************************************)
EXTENDS ConditionVariable

CONSTANTS
    NumPages,
    KeySets,        \* a sequence of [qual_ok, first, last]
    Hits,           \* pages with matching items, for the key sets that reach them
    Ignored         \* deleted pages

ASSUME BTAssumption ==
    /\ NumPages \in Nat \ {0}
    /\ KeySets \in Seq([qual_ok : BOOLEAN, first : 0 .. NumPages, last : 0 .. NumPages])
    /\ KeySets # <<>>
    /\ Hits \cup Ignored \subseteq 1 .. NumPages

P_NONE == 0
InvalidBlockNumber == -1

VARIABLES
    btps_scanPage, btps_pageStatus, btps_arrayKeyCount,
    pc,
    arrayKeyCount,      \* so->arrayKeyCount of each process
    pageno,             \* the page a process got from _bt_parallel_seize, or reads
    moreRight,          \* so->currPos.moreRight
    fromFirst,          \* is it _bt_first that seizes?
    taken               \* history: how often a page was read for a key set

btps == <<btps_scanPage, btps_pageStatus, btps_arrayKeyCount>>
locals == <<pc, arrayKeyCount, pageno, moreRight, fromFirst>>
vars == <<btps, locals, taken, cvVars>>

btps_cv == CHOOSE c \in CV : TRUE
KeySet(p) == KeySets[arrayKeyCount[p] + 1]
btpo_next(page) == IF page = NumPages THEN P_NONE ELSE page + 1

NothingTaken == [k \in DOMAIN KeySets |-> [page \in 1 .. NumPages |-> 0]]

\* btinitparallelscan
Init ==
    /\ btps_scanPage = InvalidBlockNumber
    /\ btps_pageStatus = "not_initialized"
    /\ btps_arrayKeyCount = 0
    /\ pc = [p \in Proc |-> "first"]
    /\ arrayKeyCount = [p \in Proc |-> 0]
    /\ pageno = [p \in Proc |-> P_NONE]
    /\ moreRight = [p \in Proc |-> FALSE]
    /\ fromFirst = [p \in Proc |-> FALSE]
    /\ taken = NothingTaken
    /\ CVInit

Goto(p, l) == pc' = [pc EXCEPT ![p] = l]

-----------------------------------------------------------------------------
\* _bt_parallel_done: it leaves the scan alone if somebody is ahead already.
CanEndAlways(p) == TRUE
CanEnd(p) == arrayKeyCount[p] >= btps_arrayKeyCount /\ btps_pageStatus # "done"

_bt_parallel_done(p) ==
    /\ IF CanEnd(p)
       THEN /\ btps_pageStatus' = "done"
            /\ Call(p, "broadcast", btps_cv)
       ELSE UNCHANGED <<btps_pageStatus, cvVars>>
    /\ Goto(p, "advance")
    /\ UNCHANGED <<btps_scanPage, btps_arrayKeyCount, arrayKeyCount, pageno, moreRight,
                   fromFirst, taken>>

\* _bt_first, up to _bt_parallel_seize.
_bt_first(p) ==
    /\ pc[p] = "first"
    /\ \/ ~KeySet(p).qual_ok /\ _bt_parallel_done(p)
       \/ /\ KeySet(p).qual_ok
          /\ Goto(p, "seize")
          /\ fromFirst' = [fromFirst EXCEPT ![p] = TRUE]
          /\ UNCHANGED <<btps, arrayKeyCount, pageno, moreRight, taken, cvVars>>

\* _bt_next, when the page is used up, and _bt_steppage.
_bt_steppage(p) ==
    /\ pc[p] = "have"
    /\ Goto(p, "seize")
    /\ UNCHANGED <<btps, arrayKeyCount, pageno, moreRight, fromFirst, taken, cvVars>>

\* The loop of _bt_parallel_seize, each time around.
KeysPassed(p) == arrayKeyCount[p] < btps_arrayKeyCount

FreeToAdvance == btps_pageStatus \in {"not_initialized", "idle"}

_bt_parallel_seize(p) ==
    /\ pc[p] = "seize" /\ at[p] = "out"
    /\ \/ /\ KeysPassed(p) \/ btps_pageStatus = "done"
          /\ Goto(p, "advance")
          /\ Call(p, "cancel", btps_cv)
          /\ UNCHANGED <<btps_pageStatus, pageno>>
       \/ /\ ~KeysPassed(p) /\ FreeToAdvance
          /\ btps_pageStatus' = "advancing"
          /\ pageno' = [pageno EXCEPT ![p] = btps_scanPage]
          /\ Goto(p, "seized")
          /\ Call(p, "cancel", btps_cv)
       \/ /\ ~KeysPassed(p) /\ btps_pageStatus = "advancing"
          /\ CallSleep(p, btps_cv)
          /\ UNCHANGED <<btps_pageStatus, pc, pageno>>
    /\ UNCHANGED <<btps_scanPage, btps_arrayKeyCount, arrayKeyCount, moreRight, fromFirst,
                   taken>>

WakeNobody(p) == UNCHANGED cvVars
WakeNext(p) == Call(p, "signal", btps_cv)

\* _bt_parallel_release with the page after the one p goes on to read.
_bt_parallel_release(p, page) ==
    /\ btps_scanPage' = btpo_next(page)
    /\ btps_pageStatus' = "idle"
    /\ pageno' = [pageno EXCEPT ![p] = page]
    /\ taken' = [taken EXCEPT ![arrayKeyCount[p] + 1][page] = @ + 1]
    /\ Goto(p, "read")
    /\ WakeNext(p)
    /\ UNCHANGED <<btps_arrayKeyCount, arrayKeyCount>>

\* The scan is seized.  At its start _bt_first descends the tree, which may be
\* empty; then _bt_readnextpage goes to the page the scan is at.
Seized(p) ==
    /\ pc[p] = "seized" /\ at[p] = "out"
    /\ LET page == IF pageno[p] = InvalidBlockNumber THEN KeySet(p).first ELSE pageno[p]
       IN IF page = P_NONE \/ ~(fromFirst[p] \/ moreRight[p])
          THEN _bt_parallel_done(p)
          ELSE /\ _bt_parallel_release(p, page)
               /\ moreRight' = [moreRight EXCEPT ![p] = TRUE]
               /\ fromFirst' = [fromFirst EXCEPT ![p] = FALSE]

\* _bt_readpage: the items are returned one by one, or there are none.
_bt_readpage(p) ==
    LET page == pageno[p] IN
    /\ pc[p] = "read" /\ at[p] = "out"
    /\ IF page \in Ignored THEN UNCHANGED moreRight
       ELSE moreRight' = [moreRight EXCEPT ![p] = page < KeySet(p).last]
    /\ Goto(p, IF page \in Hits \ Ignored /\ page <= KeySet(p).last THEN "have" ELSE "seize")
    /\ pageno' = [pageno EXCEPT ![p] = P_NONE]
    /\ UNCHANGED <<btps, arrayKeyCount, fromFirst, taken, cvVars>>

\* _bt_advance_array_keys and _bt_parallel_advance_array_keys.
_bt_parallel_advance_array_keys(p) ==
    /\ pc[p] = "advance" /\ at[p] = "out"
    /\ arrayKeyCount' = [arrayKeyCount EXCEPT ![p] = @ + 1]
    /\ IF btps_pageStatus = "done"
       THEN /\ btps_scanPage' = InvalidBlockNumber
            /\ btps_pageStatus' = "not_initialized"
            /\ btps_arrayKeyCount' = btps_arrayKeyCount + 1
       ELSE UNCHANGED btps
    /\ Goto(p, IF arrayKeyCount[p] + 1 < Len(KeySets) THEN "first" ELSE "end")
    /\ moreRight' = [moreRight EXCEPT ![p] = FALSE]
    /\ fromFirst' = [fromFirst EXCEPT ![p] = FALSE]
    /\ pageno' = [pageno EXCEPT ![p] = P_NONE]
    /\ UNCHANGED <<taken, cvVars>>

\* btparallelrescan, and btrescan in every process, when none is scanning.
btparallelrescan ==
    /\ \A p \in Proc : pc[p] = "end"
    /\ btps_scanPage' = InvalidBlockNumber
    /\ btps_pageStatus' = "not_initialized"
    /\ btps_arrayKeyCount' = 0
    /\ pc' = [p \in Proc |-> "first"]
    /\ arrayKeyCount' = [p \in Proc |-> 0]
    /\ taken' = NothingTaken
    /\ UNCHANGED <<pageno, moreRight, fromFirst, cvVars>>

-----------------------------------------------------------------------------
\* The steps of a process within btgettuple.
Step(p) ==
    \/ _bt_first(p) \/ _bt_parallel_seize(p) \/ Seized(p) \/ _bt_readpage(p)
    \/ _bt_parallel_advance_array_keys(p)
    \/ CVStep(p) /\ UNCHANGED <<btps, locals, taken>>

Next ==
    \/ \E p \in Proc :
        \/ _bt_steppage(p) \/ Step(p)
        \/ OtherSetLatch(p) /\ UNCHANGED <<btps, locals, taken>>
    \/ btparallelrescan

Spec == Init /\ [][Next]_vars

-----------------------------------------------------------------------------
\* No process is ahead of the shared count of array keys, and one that leaves a key
\* set leaves it finished: the scan cannot skip a key set, nor go back to one.
KeysInStep ==
    \A p \in Proc :
        /\ arrayKeyCount[p] <= btps_arrayKeyCount
        /\ pc[p] = "advance" =>
               arrayKeyCount[p] < btps_arrayKeyCount \/ btps_pageStatus = "done"

\* Only _bt_first is ever told that the scan has not started: for
\* _bt_readnextpage the number would mean a new page.
OnlyFirstStarts ==
    \A p \in Proc : pc[p] = "seized" /\ pageno[p] = InvalidBlockNumber => fromFirst[p]

\* Every page is read by one process for a key set, and when the key set is over
\* none was left out.
PagesTakenOnce ==
    \A k \in DOMAIN KeySets :
        /\ \A page \in 1 .. NumPages : taken[k][page] <= 1
        /\ btps_arrayKeyCount >= k \/ (btps_arrayKeyCount = k - 1 /\ btps_pageStatus = "done")
               => \A page \in 1 .. NumPages :
                      KeySets[k].qual_ok /\ KeySets[k].first # P_NONE
                          /\ KeySets[k].first <= page /\ page <= KeySets[k].last
                      => taken[k][page] = 1

\* A wakeup that reaches the wrong process is passed on: while somebody sleeps in
\* _bt_parallel_seize there is another process within btgettuple, awake, that has
\* yet to release or to finish the scan, whatever the executor does with those
\* that have returned a tuple.
Asleep(p) == at[p] = "wait" /\ ~latch[p]
NobodyStranded ==
    \A p \in Proc : Asleep(p) =>
        \E q \in Proc : pc[q] \notin {"have", "end"} /\ ~Asleep(q)

=============================================================================
