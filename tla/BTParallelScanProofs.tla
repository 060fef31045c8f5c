------------------------ MODULE BTParallelScanProofs ------------------------
(***************************************************************************)
(* Proofs about BTParallelScan, for any number of processes, pages and key *)
(* sets: the processes stay in step with the shared count, one at a time   *)
(* advances the scan, and every page is read once for every key set that   *)
(* reaches it.  Nothing of that depends on whom the condition variable     *)
(* wakes; that a sleeper is never left to nobody does, and comes last.     *)
(***************************************************************************)
EXTENDS BTParallelScan, TLAPS

Status == {"not_initialized", "advancing", "idle", "done"}
Location == {"first", "seize", "seized", "read", "have", "advance", "end"}
Pages == 1 .. NumPages
KeySetType == [qual_ok : BOOLEAN, first : 0 .. NumPages, last : 0 .. NumPages]

\* The types that the argument needs.
Scalars ==
    /\ btps_scanPage \in -1 .. NumPages
    /\ btps_pageStatus \in Status
    /\ btps_arrayKeyCount \in Nat
    /\ pc \in [Proc -> Location]
    /\ arrayKeyCount \in [Proc -> Nat]
    /\ pageno \in [Proc -> -1 .. NumPages]
    /\ moreRight \in [Proc -> BOOLEAN]
    /\ fromFirst \in [Proc -> BOOLEAN]
    /\ taken \in [DOMAIN KeySets -> [Pages -> Nat]]

\* A process works on a key set until it is through with all of them.
Working ==
    \A p \in Proc : pc[p] # "end" => arrayKeyCount[p] + 1 \in DOMAIN KeySets

\* Is p in the key set that is scanned?
Current(p) == arrayKeyCount[p] = btps_arrayKeyCount

\* Who has seized the scan holds the page it is at.
Holder ==
    /\ \A p, q \in Proc : pc[p] = "seized" /\ pc[q] = "seized" => p = q
    /\ \A p \in Proc : pc[p] = "seized" =>
           btps_pageStatus = "advancing" /\ Current(p) /\ pageno[p] = btps_scanPage

\* The scan reads no page for a key set that cannot be satisfied.
Satisfiable ==
    \A p \in Proc : pc[p] \in {"seize", "seized", "read", "have"} => KeySet(p).qual_ok

\* The page after the last one that was handed out.
NextPage == IF btps_scanPage = P_NONE THEN NumPages + 1 ELSE btps_scanPage

\* The scan has started for those who have read a page of the key set, ...
Started ==
    /\ btps_pageStatus = "not_initialized" => btps_scanPage = InvalidBlockNumber
    /\ btps_pageStatus = "idle" => btps_scanPage # InvalidBlockNumber
    /\ \A p \in Proc :
           /\ Current(p)
           /\ pc[p] \in {"read", "have"}
                \/ (pc[p] \in {"seize", "seized"} /\ ~fromFirst[p])
           => btps_scanPage # InvalidBlockNumber

\* ... is past the page they read, and past the last page of the key set if they
\* have found that the scan ends.
Passed ==
    \A p \in Proc : Current(p) =>
        /\ pc[p] = "read" => pageno[p] \in Pages /\ pageno[p] < NextPage /\ moreRight[p]
        /\ pc[p] \in {"seize", "seized", "have"} /\ ~fromFirst[p] /\ ~moreRight[p]
               => KeySet(p).last < NextPage

\* The pages of a key set are all read, once.
Complete(k) ==
    /\ \A page \in Pages : taken[k][page] <= 1
    /\ \A page \in Pages :
           KeySets[k].qual_ok /\ KeySets[k].first # P_NONE
               /\ KeySets[k].first <= page /\ page <= KeySets[k].last
           => taken[k][page] = 1

\* What has been read: all of the earlier key sets, of the current one the pages
\* from its first to the one the scan is at, of the later ones nothing.
Progress ==
    \A k \in DOMAIN KeySets :
        /\ k <= btps_arrayKeyCount => Complete(k)
        /\ k = btps_arrayKeyCount + 1 =>
              /\ \A page \in Pages :
                    taken[k][page] = IF /\ btps_scanPage # InvalidBlockNumber
                                        /\ KeySets[k].first <= page /\ page < NextPage
                                     THEN 1 ELSE 0
              /\ btps_scanPage # InvalidBlockNumber => KeySets[k].first <= NextPage
              /\ btps_pageStatus = "done" => Complete(k)
        /\ k > btps_arrayKeyCount + 1 => \A page \in Pages : taken[k][page] = 0

\* The inductive invariant.
IInv == Scalars /\ Working /\ KeysInStep /\ Holder /\ Satisfiable /\ Started /\ Passed /\ Progress

-----------------------------------------------------------------------------
\* The key sets are numbered.
LEMMA KeySetsDomain ==
    /\ Len(KeySets) \in Nat \ {0} /\ DOMAIN KeySets = 1 .. Len(KeySets)
    /\ \A k \in DOMAIN KeySets : KeySets[k] \in KeySetType
<1>1. KeySets \in Seq(KeySetType) /\ KeySets # <<>>
  BY Zenon, BTAssumption DEF BTAssumption, KeySetType
<1>2. Len(KeySets) \in Nat /\ DOMAIN KeySets = 1 .. Len(KeySets)
  BY SMTT(40), Z3T(40), <1>1
<1>3. \A k \in DOMAIN KeySets : KeySets[k] \in KeySetType
  BY SMTT(40), Z3T(40), <1>1, <1>2
<1>4. Len(KeySets) # 0
  BY SMTT(40), Z3T(40), <1>1
<1> QED
  BY <1>2, <1>3, <1>4

\* The key set a process works on.
LEMMA KeySetOf ==
    ASSUME IInv, NEW p \in Proc, pc[p] # "end"
    PROVE  /\ arrayKeyCount[p] + 1 \in DOMAIN KeySets
           /\ KeySet(p) = KeySets[arrayKeyCount[p] + 1]
           /\ KeySet(p).qual_ok \in BOOLEAN
           /\ KeySet(p).first \in 0 .. NumPages /\ KeySet(p).last \in 0 .. NumPages
<1>1. arrayKeyCount[p] + 1 \in DOMAIN KeySets
  BY Zenon DEF IInv, Working
<1>2. KeySets[arrayKeyCount[p] + 1] \in KeySetType
  BY <1>1, KeySetsDomain
<1> QED
  BY Zenon, <1>1, <1>2 DEF KeySet, KeySetType

\* A process is at the shared key count or behind it.
LEMMA CurrentOrPassed ==
    ASSUME IInv, NEW p \in Proc
    PROVE  Current(p) \/ arrayKeyCount[p] < btps_arrayKeyCount
<1>1. /\ arrayKeyCount[p] \in Nat /\ btps_arrayKeyCount \in Nat
      /\ arrayKeyCount[p] <= btps_arrayKeyCount
  BY Zenon DEF IInv, Scalars, KeysInStep
<1> QED
  BY SMTT(40), Z3T(40), <1>1 DEF Current

\* Nobody has started.
LEMMA InvInit == Init => IInv
<1> SUFFICES ASSUME Init PROVE IInv
  OBVIOUS
<1>1. NumPages \in Nat \ {0} /\ 1 \in DOMAIN KeySets
  BY SMTT(40), Z3T(40), BTAssumption, KeySetsDomain DEF BTAssumption
<1>2. \A k \in DOMAIN KeySets : \A page \in Pages : taken[k][page] = 0
  BY Zenon DEF Init, NothingTaken, Pages
<1>3. Scalars
  <2>1. taken \in [DOMAIN KeySets -> [Pages -> Nat]]
    BY Zenon DEF Init, NothingTaken, Pages
  <2> QED
    BY SMTT(40), Z3T(40), <1>1, <2>1 DEF Init, Scalars, Status, Location, InvalidBlockNumber, P_NONE
<1>4. Working
  BY SMTT(40), Z3T(40), <1>1 DEF Init, Working
<1>5. Progress
  BY SMTT(40), Z3T(40), <1>2, KeySetsDomain DEF Init, Progress
<1> QED
  BY SMTT(40), Z3T(40), <1>3, <1>4, <1>5 DEF Init, IInv, KeysInStep, Holder, Satisfiable, Started, Passed

\* Steps of the condition variable.
LEMMA KeepsSame ==
    ASSUME IInv, UNCHANGED <<btps, locals, taken>>
    PROVE  IInv'
<1>1. UNCHANGED <<btps_scanPage, btps_pageStatus, btps_arrayKeyCount, pc, arrayKeyCount,
                  pageno, moreRight, fromFirst, taken>>
  BY Zenon DEF btps, locals
<1>2. \A p \in Proc : KeySet(p)' = KeySet(p) /\ (Current(p)' <=> Current(p))
  BY Zenon, <1>1 DEF KeySet, Current
<1>3. NextPage' = NextPage /\ \A k \in DOMAIN KeySets : (Complete(k)' <=> Complete(k))
  BY Zenon, <1>1 DEF NextPage, Complete
<1>4. Scalars' /\ Working' /\ KeysInStep'
  BY Zenon, <1>1 DEF IInv, Scalars, Working, KeysInStep
<1>5. Holder' /\ Satisfiable' /\ Started'
  BY Zenon, <1>1, <1>2 DEF IInv, Holder, Satisfiable, Started
<1>6. Passed'
  BY Zenon, <1>1, <1>2, <1>3 DEF IInv, Passed
<1>7. Progress'
  BY Zenon, <1>1, <1>3 DEF IInv, Progress
<1> QED
  BY Zenon, <1>4, <1>5, <1>6, <1>7 DEF IInv

\* _bt_parallel_done, when the key set is complete and nobody else has seized the
\* scan in it.
LEMMA KeepsDone ==
    ASSUME IInv, NEW p \in Proc, pc[p] \in {"first", "seized"}, _bt_parallel_done(p),
           Current(p) => Complete(arrayKeyCount[p] + 1),
           \A q \in Proc : Current(p) /\ pc[q] = "seized" => q = p
    PROVE  IInv'
<1>1. /\ UNCHANGED <<btps_scanPage, btps_arrayKeyCount, arrayKeyCount, pageno, moreRight,
                     fromFirst, taken>>
      /\ pc' = [pc EXCEPT ![p] = "advance"]
  BY Zenon DEF _bt_parallel_done, Goto
<1>2. \/ CanEnd(p) /\ btps_pageStatus' = "done"
      \/ ~CanEnd(p) /\ btps_pageStatus' = btps_pageStatus
  BY Zenon DEF _bt_parallel_done
<1>3. CanEnd(p) <=> Current(p) /\ btps_pageStatus # "done"
  BY SMTT(40), Z3T(40) DEF CanEnd, Current, IInv, Scalars, KeysInStep
<1>4. pc'[p] = "advance" /\ \A q \in Proc \ {p} : pc'[q] = pc[q]
  BY Zenon, <1>1 DEF IInv, Scalars
<1>5. \A q \in Proc : KeySet(q)' = KeySet(q) /\ (Current(q)' <=> Current(q))
  BY Zenon, <1>1 DEF KeySet, Current
<1>6. NextPage' = NextPage /\ \A k \in DOMAIN KeySets : (Complete(k)' <=> Complete(k))
  BY Zenon, <1>1 DEF NextPage, Complete
<1>7. Scalars'
  BY Zenon, <1>1, <1>2 DEF IInv, Scalars, Status, Location
<1>8. Working'
  BY Zenon, <1>1, <1>4, KeySetOf DEF IInv, Working
<1>9. KeysInStep'
  <2>1. ~Current(p) => arrayKeyCount[p] < btps_arrayKeyCount
    BY CurrentOrPassed
  <2>3. arrayKeyCount[p] < btps_arrayKeyCount \/ btps_pageStatus' = "done"
    BY <1>2, <1>3, <2>1
  <2>2. btps_pageStatus = "done" => btps_pageStatus' = "done"
    BY <1>2
  <2> QED
    BY Zenon, <1>1, <1>4, <2>2, <2>3 DEF IInv, KeysInStep
<1>10. Holder'
  <2>1. \A q \in Proc : pc'[q] = "seized" => q # p /\ pc[q] = "seized" /\ ~Current(p)
    BY <1>4
  <2>2. \A q \in Proc : pc'[q] = "seized" => btps_pageStatus' = btps_pageStatus
    BY <1>2, <1>3, <2>1
  <2> QED
    BY Zenon, <1>1, <1>5, <2>1, <2>2 DEF IInv, Holder
<1>11. Satisfiable' /\ Started'
  BY Zenon, <1>1, <1>2, <1>4, <1>5 DEF IInv, Satisfiable, Started
<1>12. Passed'
  BY Zenon, <1>1, <1>4, <1>5, <1>6 DEF IInv, Passed
<1>13. Progress'
  <2>1. btps_pageStatus' = "done" =>
           btps_pageStatus = "done" \/ Complete(btps_arrayKeyCount + 1)
    BY Zenon, <1>2, <1>3 DEF Current
  <2> QED
    BY Zenon, <1>1, <1>6, <2>1 DEF IInv, Progress
<1> QED
  BY Zenon, <1>7, <1>8, <1>9, <1>10, <1>11, <1>12, <1>13 DEF IInv

-----------------------------------------------------------------------------
\* _bt_first: no page can match, or the scan is seized first.
LEMMA KeepsFirst ==
    ASSUME IInv, NEW p \in Proc, _bt_first(p)
    PROVE  IInv'
<1>1. pc[p] = "first" /\ KeySet(p).qual_ok \in BOOLEAN
  BY Zenon, KeySetOf DEF _bt_first
<1>2. CASE ~KeySet(p).qual_ok
  <2>1. _bt_parallel_done(p)
    BY Zenon, <1>2 DEF _bt_first
  <2>2. Current(p) => Complete(arrayKeyCount[p] + 1)
    BY SMTT(40), Z3T(40), <1>1, <1>2, KeySetOf DEF IInv, Progress, Current, Complete, KeySet
  <2>3. \A q \in Proc : Current(p) /\ pc[q] = "seized" => q = p
    BY Zenon, <1>2 DEF IInv, Holder, Satisfiable, KeySet, Current
  <2> QED
    BY <1>1, <2>1, <2>2, <2>3, KeepsDone
<1>3. CASE KeySet(p).qual_ok
  <2>1. /\ UNCHANGED <<btps_scanPage, btps_pageStatus, btps_arrayKeyCount, arrayKeyCount,
                       pageno, moreRight, taken>>
        /\ pc' = [pc EXCEPT ![p] = "seize"] /\ fromFirst' = [fromFirst EXCEPT ![p] = TRUE]
    BY Zenon, <1>3 DEF _bt_first, Goto, btps
  <2>2. /\ pc'[p] = "seize" /\ fromFirst'[p]
        /\ \A q \in Proc \ {p} : pc'[q] = pc[q] /\ fromFirst'[q] = fromFirst[q]
    BY Zenon, <2>1 DEF IInv, Scalars
  <2>3. \A q \in Proc : KeySet(q)' = KeySet(q) /\ (Current(q)' <=> Current(q))
    BY Zenon, <2>1 DEF KeySet, Current
  <2>4. NextPage' = NextPage /\ \A k \in DOMAIN KeySets : (Complete(k)' <=> Complete(k))
    BY Zenon, <2>1 DEF NextPage, Complete
  <2>5. Scalars'
    BY Zenon, <2>1 DEF IInv, Scalars, Location
  <2>6. Working' /\ KeysInStep'
    BY Zenon, <1>1, <2>1, <2>2 DEF IInv, Working, KeysInStep
  <2>7. Holder'
    BY SMTT(40), Z3T(40), <2>1, <2>2, <2>3 DEF IInv, Holder
  <2>8. Satisfiable'
    BY Zenon, <1>3, <2>2, <2>3 DEF IInv, Satisfiable
  <2>9. Started'
    BY Zenon, <2>1, <2>2, <2>3 DEF IInv, Started
  <2>10. Passed'
    BY Zenon, <2>1, <2>2, <2>3, <2>4 DEF IInv, Passed
  <2>11. Progress'
    BY Zenon, <2>1, <2>4 DEF IInv, Progress
  <2> QED
    BY Zenon, <2>5, <2>6, <2>7, <2>8, <2>9, <2>10, <2>11 DEF IInv
<1> QED
  BY <1>1, <1>2, <1>3

\* _bt_steppage asks for the next page.
LEMMA KeepsSteppage ==
    ASSUME IInv, NEW p \in Proc, _bt_steppage(p)
    PROVE  IInv'
<1>1. /\ UNCHANGED <<btps_scanPage, btps_pageStatus, btps_arrayKeyCount, arrayKeyCount,
                     pageno, moreRight, fromFirst, taken>>
      /\ pc' = [pc EXCEPT ![p] = "seize"] /\ pc[p] = "have"
  BY Zenon DEF _bt_steppage, Goto, btps
<1>2. pc'[p] = "seize" /\ \A q \in Proc \ {p} : pc'[q] = pc[q]
  BY Zenon, <1>1 DEF IInv, Scalars
<1>3. \A q \in Proc : KeySet(q)' = KeySet(q) /\ (Current(q)' <=> Current(q))
  BY Zenon, <1>1 DEF KeySet, Current
<1>4. NextPage' = NextPage /\ \A k \in DOMAIN KeySets : (Complete(k)' <=> Complete(k))
  BY Zenon, <1>1 DEF NextPage, Complete
<1>5. Scalars'
  BY Zenon, <1>1 DEF IInv, Scalars, Location
<1>6. Working' /\ KeysInStep'
  BY Zenon, <1>1, <1>2 DEF IInv, Working, KeysInStep
<1>7. Holder' /\ Satisfiable'
  BY Zenon, <1>1, <1>2, <1>3 DEF IInv, Holder, Satisfiable
<1>8. Started'
  BY Zenon, <1>1, <1>2, <1>3 DEF IInv, Started
<1>9. Passed'
  BY Zenon, <1>1, <1>2, <1>3, <1>4 DEF IInv, Passed
<1>10. Progress'
  BY Zenon, <1>1, <1>4 DEF IInv, Progress
<1> QED
  BY Zenon, <1>5, <1>6, <1>7, <1>8, <1>9, <1>10 DEF IInv

\* _bt_parallel_seize, with all it may find.
LEMMA KeepsSeize ==
    ASSUME IInv, NEW p \in Proc, _bt_parallel_seize(p)
    PROVE  IInv'
<1>1. /\ UNCHANGED <<btps_scanPage, btps_arrayKeyCount, arrayKeyCount, moreRight, fromFirst,
                     taken>>
      /\ pc[p] = "seize"
  BY Zenon DEF _bt_parallel_seize
<1>2. \A q \in Proc : KeySet(q)' = KeySet(q) /\ (Current(q)' <=> Current(q))
  BY Zenon, <1>1 DEF KeySet, Current
<1>3. NextPage' = NextPage /\ \A k \in DOMAIN KeySets : (Complete(k)' <=> Complete(k))
  BY Zenon, <1>1 DEF NextPage, Complete
<1>4. CASE /\ KeysPassed(p) \/ btps_pageStatus = "done"
           /\ pc' = [pc EXCEPT ![p] = "advance"] /\ UNCHANGED <<btps_pageStatus, pageno>>
  <2>1. pc'[p] = "advance" /\ \A q \in Proc \ {p} : pc'[q] = pc[q]
    BY Zenon, <1>4 DEF IInv, Scalars
  <2>2. Scalars'
    BY Zenon, <1>1, <1>4 DEF IInv, Scalars, Location
  <2>3. Working' /\ KeysInStep'
    BY Zenon, <1>1, <1>4, <2>1 DEF IInv, Working, KeysInStep, KeysPassed
  <2>4. Holder' /\ Satisfiable'
    BY Zenon, <1>1, <1>2, <1>4, <2>1 DEF IInv, Holder, Satisfiable
  <2>5. Started'
    BY Zenon, <1>1, <1>2, <1>4, <2>1 DEF IInv, Started
  <2>6. Passed'
    BY Zenon, <1>1, <1>2, <1>3, <1>4, <2>1 DEF IInv, Passed
  <2>7. Progress'
    BY Zenon, <1>1, <1>3, <1>4 DEF IInv, Progress
  <2> QED
    BY Zenon, <2>2, <2>3, <2>4, <2>5, <2>6, <2>7 DEF IInv
<1>5. CASE /\ ~KeysPassed(p) /\ FreeToAdvance
           /\ btps_pageStatus' = "advancing"
           /\ pageno' = [pageno EXCEPT ![p] = btps_scanPage]
           /\ pc' = [pc EXCEPT ![p] = "seized"]
  <2>1. /\ pc'[p] = "seized" /\ pageno'[p] = btps_scanPage
        /\ \A q \in Proc \ {p} : pc'[q] = pc[q] /\ pageno'[q] = pageno[q]
    BY Zenon, <1>5 DEF IInv, Scalars
  <2>2. Current(p)
    BY Zenon, <1>5, CurrentOrPassed DEF KeysPassed
  <2>3. btps_pageStatus \in {"not_initialized", "idle"}
    BY Zenon, <1>5 DEF FreeToAdvance
  <2>4. \A q \in Proc : pc'[q] = "seized" => q = p
    BY Zenon, <2>1, <2>3 DEF IInv, Holder
  <2>5. Scalars'
    BY Zenon, <1>1, <1>5 DEF IInv, Scalars, Location, Status
  <2>6. Working' /\ KeysInStep'
    BY Zenon, <1>1, <1>5, <2>1, <2>3 DEF IInv, Working, KeysInStep
  <2>7. Holder'
    BY Zenon, <1>1, <1>2, <1>5, <2>1, <2>2, <2>4 DEF Holder
  <2>8. Satisfiable'
    BY Zenon, <1>1, <1>2, <2>1 DEF IInv, Satisfiable
  <2>9. Started'
    BY Zenon, <1>1, <1>2, <1>5, <2>1 DEF IInv, Started
  <2>10. Passed'
    BY Zenon, <1>1, <1>2, <1>3, <2>1 DEF IInv, Passed
  <2>11. Progress'
    BY Zenon, <1>1, <1>3, <1>5 DEF IInv, Progress
  <2> QED
    BY Zenon, <2>5, <2>6, <2>7, <2>8, <2>9, <2>10, <2>11 DEF IInv
<1>6. CASE UNCHANGED <<btps_pageStatus, pc, pageno>>
  BY Zenon, <1>1, <1>6, KeepsSame DEF btps, locals
<1> QED
  BY Zenon, <1>4, <1>5, <1>6 DEF _bt_parallel_seize, Goto

-----------------------------------------------------------------------------
\* The holder of the scan finds its end: the key set is complete.
LEMMA EndIsComplete ==
    ASSUME IInv, NEW p \in Proc, pc[p] = "seized",
           \/ (IF pageno[p] = InvalidBlockNumber THEN KeySet(p).first ELSE pageno[p]) = P_NONE
           \/ ~fromFirst[p] /\ ~moreRight[p]
    PROVE  Complete(arrayKeyCount[p] + 1)
<1> DEFINE k == arrayKeyCount[p] + 1
<1>1. /\ k \in DOMAIN KeySets /\ KeySet(p) = KeySets[k]
      /\ KeySets[k].first \in 0 .. NumPages /\ KeySets[k].last \in 0 .. NumPages
  BY Zenon, KeySetOf DEF KeySet
<1>2. Current(p) /\ k = btps_arrayKeyCount + 1 /\ pageno[p] = btps_scanPage
  BY Zenon DEF IInv, Holder, Current
<1>3. \A page \in Pages :
        taken[k][page] = IF /\ btps_scanPage # InvalidBlockNumber
                            /\ KeySets[k].first <= page /\ page < NextPage
                         THEN 1 ELSE 0
  BY Zenon, <1>1, <1>2 DEF IInv, Progress
<1>4. NumPages \in Nat /\ btps_scanPage \in -1 .. NumPages
  BY Zenon, BTAssumption DEF BTAssumption, IInv, Scalars
<1>5. \/ KeySets[k].first = P_NONE
      \/ btps_scanPage # InvalidBlockNumber /\ KeySets[k].last < NextPage
  <2>1. CASE btps_scanPage = InvalidBlockNumber /\ KeySet(p).first = P_NONE
    BY <1>1, <2>1
  <2>2. CASE btps_scanPage = P_NONE
    BY SMTT(40), Z3T(40), <1>1, <1>4, <2>2 DEF NextPage, P_NONE, InvalidBlockNumber
  <2>3. CASE ~fromFirst[p] /\ ~moreRight[p]
    BY Zenon, <1>1, <1>2, <2>3 DEF IInv, Started, Passed
  <2> QED
    BY <1>2, <2>1, <2>2, <2>3
<1>6. \A page \in Pages : taken[k][page] <= 1
  BY SMTT(40), Z3T(40), <1>3
<1>7. ASSUME NEW page \in Pages, KeySets[k].first # P_NONE,
             KeySets[k].first <= page, page <= KeySets[k].last
      PROVE  taken[k][page] = 1
  <2>1. NextPage \in Int /\ page \in Int /\ KeySets[k].last \in Int
    BY SMTT(40), Z3T(40), <1>1, <1>4 DEF NextPage, Pages
  <2> QED
    BY SMTT(40), Z3T(40), <1>3, <1>5, <1>7, <2>1
<1> QED
  BY Zenon, <1>6, <1>7 DEF Complete

\* The holder goes on to a page.
LEMMA KeepsRelease ==
    ASSUME IInv, NEW p \in Proc, pc[p] = "seized", NEW page,
           page = IF pageno[p] = InvalidBlockNumber THEN KeySet(p).first ELSE pageno[p],
           page # P_NONE, _bt_parallel_release(p, page),
           moreRight' = [moreRight EXCEPT ![p] = TRUE],
           fromFirst' = [fromFirst EXCEPT ![p] = FALSE]
    PROVE  IInv'
<1> DEFINE k == arrayKeyCount[p] + 1
<1>1. /\ k \in DOMAIN KeySets /\ KeySet(p) = KeySets[k]
      /\ KeySets[k].first \in 0 .. NumPages /\ KeySets[k].last \in 0 .. NumPages
  BY Zenon, KeySetOf DEF KeySet
<1>2. /\ Current(p) /\ k = btps_arrayKeyCount + 1 /\ pageno[p] = btps_scanPage
      /\ btps_pageStatus = "advancing"
  BY Zenon DEF IInv, Holder, Current
<1>3. NumPages \in Nat /\ btps_scanPage \in -1 .. NumPages /\ btps_arrayKeyCount \in Nat
  BY Zenon, BTAssumption DEF BTAssumption, IInv, Scalars
<1>4. page \in Pages
  BY SMTT(40), Z3T(40), <1>1, <1>2, <1>3 DEF Pages, P_NONE, InvalidBlockNumber
<1>5. /\ btps_scanPage' = btpo_next(page) /\ btps_pageStatus' = "idle"
      /\ pageno' = [pageno EXCEPT ![p] = page]
      /\ pc' = [pc EXCEPT ![p] = "read"]
      /\ UNCHANGED <<btps_arrayKeyCount, arrayKeyCount>>
  BY Zenon DEF _bt_parallel_release, Goto
<1>6. btps_scanPage' \in 0 .. NumPages /\ NextPage' = page + 1
  BY SMTT(40), Z3T(40), <1>3, <1>4, <1>5 DEF btpo_next, NextPage, P_NONE, Pages
<1>7. btps_scanPage # InvalidBlockNumber => NextPage = page
  BY Zenon, <1>2 DEF NextPage, P_NONE
<1>8. /\ pc'[p] = "read" /\ pageno'[p] = page /\ moreRight'[p] /\ ~fromFirst'[p]
      /\ \A q \in Proc \ {p} :
             /\ pc'[q] = pc[q] /\ pageno'[q] = pageno[q]
             /\ moreRight'[q] = moreRight[q] /\ fromFirst'[q] = fromFirst[q]
  BY Zenon, <1>5 DEF IInv, Scalars
<1>9. \A q \in Proc : KeySet(q)' = KeySet(q) /\ (Current(q)' <=> Current(q))
  BY Zenon, <1>5 DEF KeySet, Current
<1>10. \A q \in Proc : pc'[q] # "seized"
  BY SMTT(40), Z3T(40), <1>8 DEF IInv, Holder
<1>11. /\ taken' \in [DOMAIN KeySets -> [Pages -> Nat]]
       /\ \A j \in DOMAIN KeySets : j # k => taken'[j] = taken[j]
       /\ \A g \in Pages : taken'[k][g] = IF g = page THEN taken[k][g] + 1 ELSE taken[k][g]
  <2>1. taken' = [taken EXCEPT ![k] = [taken[k] EXCEPT ![page] = taken[k][page] + 1]]
    BY Zenon DEF _bt_parallel_release
  <2>2. taken \in [DOMAIN KeySets -> [Pages -> Nat]] /\ taken[k] \in [Pages -> Nat]
    BY Zenon, <1>1 DEF IInv, Scalars
  <2>3. [taken[k] EXCEPT ![page] = taken[k][page] + 1] \in [Pages -> Nat]
    BY SMTT(40), Z3T(40), <1>4, <2>2
  <2> QED
    BY <1>1, <2>1, <2>2, <2>3
<1>12. Scalars'
  <2>1. btps_scanPage' \in -1 .. NumPages /\ page \in -1 .. NumPages
    BY SMTT(40), Z3T(40), <1>3, <1>4, <1>6 DEF Pages
  <2> QED
    BY Zenon, <1>5, <1>11, <2>1 DEF IInv, Scalars, Status, Location
<1>13. Working' /\ KeysInStep'
  BY Zenon, <1>1, <1>2, <1>5, <1>8 DEF IInv, Working, KeysInStep
<1>14. Holder' /\ Satisfiable'
  BY Zenon, <1>8, <1>9, <1>10 DEF IInv, Holder, Satisfiable
<1>15. Started'
  BY SMTT(40), Z3T(40), <1>5, <1>6, <1>3 DEF Started, InvalidBlockNumber
<1>16. Passed'
  <2>1. ASSUME NEW q \in Proc, Current(q), q # p
        PROVE  /\ pc[q] = "read" => pageno[q] \in Pages /\ pageno[q] < page + 1 /\ moreRight[q]
               /\ pc[q] \in {"seize", "seized", "have"} /\ ~fromFirst[q] /\ ~moreRight[q]
                      => KeySet(q).last < page + 1
    <3>1. CASE pc[q] = "read"
      <4>1. pageno[q] \in Pages /\ pageno[q] < page /\ moreRight[q]
        BY Zenon, <1>7, <2>1, <3>1 DEF IInv, Started, Passed
      <4> QED
        BY SMTT(40), Z3T(40), <1>3, <1>4, <3>1, <4>1 DEF Pages
    <3>2. CASE pc[q] \in {"seize", "seized", "have"} /\ ~fromFirst[q] /\ ~moreRight[q]
      <4>1. KeySet(q).last < page
        BY Zenon, <1>7, <2>1, <3>2 DEF IInv, Started, Passed
      <4>2. KeySet(q).last \in 0 .. NumPages
        BY <3>2, KeySetOf
      <4> QED
        BY SMTT(40), Z3T(40), <1>3, <1>4, <3>2, <4>1, <4>2 DEF Pages
    <3> QED
      BY <3>1, <3>2
  <2>2. page < page + 1
    BY SMTT(40), Z3T(40), <1>3, <1>4 DEF Pages
  <2> QED
    BY Zenon, <1>4, <1>6, <1>8, <1>9, <2>1, <2>2 DEF Passed
<1>17. Progress'
  <2>1. KeySets[k].first <= page
    BY SMTT(40), Z3T(40), <1>1, <1>2, <1>3, <1>4, <1>7 DEF IInv, Progress, Pages
  <2>2. \A g \in Pages :
          taken'[k][g] = IF KeySets[k].first <= g /\ g < page + 1 THEN 1 ELSE 0
    <3>1. \A g \in Pages :
            taken[k][g] = IF /\ btps_scanPage # InvalidBlockNumber
                             /\ KeySets[k].first <= g /\ g < page
                          THEN 1 ELSE 0
      BY Zenon, <1>1, <1>2, <1>7 DEF IInv, Progress
    <3>2. btps_scanPage = InvalidBlockNumber => page = KeySets[k].first
      BY <1>1, <1>2
    <3>3. page \in Int /\ KeySets[k].first \in Int /\ \A g \in Pages : g \in Int
      BY SMTT(40), Z3T(40), <1>1, <1>3, <1>4 DEF Pages
    <3> QED
      BY SMTT(40), Z3T(40), <1>1, <1>11, <2>1, <3>1, <3>2, <3>3
  <2>3. KeySets[k].first <= page + 1
    BY SMTT(40), Z3T(40), <1>1, <1>3, <1>4, <2>1 DEF Pages
  <2>4. btps_scanPage' # InvalidBlockNumber
    BY SMTT(40), Z3T(40), <1>3, <1>6 DEF InvalidBlockNumber
  <2>5. ASSUME NEW j \in DOMAIN KeySets, j # k
        PROVE  /\ j <= btps_arrayKeyCount => Complete(j)'
               /\ j > btps_arrayKeyCount + 1 => \A g \in Pages : taken'[j][g] = 0
    BY SMTT(40), Z3T(40), <1>11, <2>5 DEF IInv, Progress, Complete
  <2>6. ~(k <= btps_arrayKeyCount) /\ ~(k > btps_arrayKeyCount + 1)
    BY SMTT(40), Z3T(40), <1>2, <1>3
  <2> QED
    BY Zenon, <1>2, <1>5, <1>6, <2>2, <2>3, <2>4, <2>5, <2>6 DEF Progress
<1> QED
  BY Zenon, <1>12, <1>13, <1>14, <1>15, <1>16, <1>17 DEF IInv

\* Whoever has seized the scan releases it and takes the page, or ends the key set.
LEMMA KeepsSeized ==
    ASSUME IInv, NEW p \in Proc, Seized(p)
    PROVE  IInv'
<1> DEFINE page == IF pageno[p] = InvalidBlockNumber THEN KeySet(p).first ELSE pageno[p]
<1>1. pc[p] = "seized"
  BY Zenon DEF Seized
<1>2. CASE page = P_NONE \/ ~(fromFirst[p] \/ moreRight[p])
  <2>1. _bt_parallel_done(p)
    BY Zenon, <1>2 DEF Seized
  <2>2. Complete(arrayKeyCount[p] + 1)
    BY <1>1, <1>2, EndIsComplete
  <2>3. \A q \in Proc : Current(p) /\ pc[q] = "seized" => q = p
    BY Zenon, <1>1 DEF IInv, Holder
  <2> QED
    BY <1>1, <2>1, <2>2, <2>3, KeepsDone
<1>3. CASE ~(page = P_NONE \/ ~(fromFirst[p] \/ moreRight[p]))
  <2>1. /\ _bt_parallel_release(p, page)
        /\ moreRight' = [moreRight EXCEPT ![p] = TRUE]
        /\ fromFirst' = [fromFirst EXCEPT ![p] = FALSE]
    BY Zenon, <1>3 DEF Seized
  <2> QED
    BY <1>1, <1>3, <2>1, KeepsRelease
<1> QED
  BY <1>2, <1>3

\* _bt_readpage: the page is read, and holds a match or not.
LEMMA KeepsReadpage ==
    ASSUME IInv, NEW p \in Proc, _bt_readpage(p)
    PROVE  IInv'
<1>1. /\ UNCHANGED <<btps_scanPage, btps_pageStatus, btps_arrayKeyCount, arrayKeyCount,
                     fromFirst, taken>>
      /\ pc[p] = "read" /\ pageno' = [pageno EXCEPT ![p] = P_NONE]
  BY Zenon DEF _bt_readpage, btps
<1>2. PICK l \in {"have", "seize"} : pc' = [pc EXCEPT ![p] = l]
  BY Zenon DEF _bt_readpage, Goto
<1>3. PICK m \in BOOLEAN : /\ moreRight' = [moreRight EXCEPT ![p] = m]
                           /\ m \/ ~moreRight[p] \/ ~(pageno[p] < KeySet(p).last)
  <2>1. CASE pageno[p] \in Ignored
    <3>1. moreRight' = [moreRight EXCEPT ![p] = moreRight[p]] /\ moreRight[p] \in BOOLEAN
      BY Zenon, <2>1 DEF _bt_readpage, IInv, Scalars
    <3> QED
      BY <3>1
  <2>2. CASE pageno[p] \notin Ignored
    <3>1. moreRight' = [moreRight EXCEPT ![p] = (pageno[p] < KeySet(p).last)]
      BY Zenon, <2>2 DEF _bt_readpage
    <3>2. CASE pageno[p] < KeySet(p).last
      <4>1. moreRight' = [moreRight EXCEPT ![p] = TRUE]
        BY <3>1, <3>2
      <4> QED
        BY <4>1
    <3>3. CASE ~(pageno[p] < KeySet(p).last)
      <4>1. moreRight' = [moreRight EXCEPT ![p] = FALSE]
        <5>1. (pageno[p] < KeySet(p).last) = FALSE
          BY SMTT(40), Z3T(40), <3>3
        <5> QED
          BY <3>1, <5>1, Zenon
      <4> QED
        BY <3>3, <4>1
    <3> QED
      BY <3>2, <3>3
  <2> QED
    BY <2>1, <2>2
<1>4. /\ pc'[p] = l /\ moreRight'[p] = m
      /\ \A q \in Proc \ {p} :
            pc'[q] = pc[q] /\ moreRight'[q] = moreRight[q] /\ pageno'[q] = pageno[q]
  BY Zenon, <1>1, <1>2, <1>3 DEF IInv, Scalars
<1>5. \A q \in Proc : KeySet(q)' = KeySet(q) /\ (Current(q)' <=> Current(q))
  BY Zenon, <1>1 DEF KeySet, Current
<1>6. NextPage' = NextPage /\ \A k \in DOMAIN KeySets : (Complete(k)' <=> Complete(k))
  BY Zenon, <1>1 DEF NextPage, Complete
<1>7. Scalars'
  <2>1. P_NONE \in -1 .. NumPages
    BY SMTT(40), Z3T(40), BTAssumption DEF BTAssumption, P_NONE
  <2> QED
    BY Zenon, <1>1, <1>2, <1>3, <2>1 DEF IInv, Scalars, Location
<1>8. Working' /\ KeysInStep'
  BY Zenon, <1>1, <1>2, <1>4 DEF IInv, Working, KeysInStep
<1>9. Holder' /\ Satisfiable'
  BY SMTT(40), Z3T(40), <1>1, <1>2, <1>4, <1>5 DEF IInv, Holder, Satisfiable
<1>10. Started'
  BY Zenon, <1>1, <1>2, <1>4, <1>5 DEF IInv, Started
<1>11. Passed'
  <2>1. Current(p) /\ ~m => KeySet(p).last < NextPage
    <3> SUFFICES ASSUME Current(p), ~m PROVE KeySet(p).last < NextPage
      OBVIOUS
    <3>1. pageno[p] \in Pages /\ pageno[p] < NextPage /\ moreRight[p]
      BY Zenon, <1>1 DEF IInv, Passed
    <3>2. KeySet(p).last \in 0 .. NumPages /\ ~(pageno[p] < KeySet(p).last)
      BY <1>1, <1>3, <3>1, KeySetOf
    <3>3. NumPages \in Nat /\ NextPage \in Int
      BY SMTT(40), Z3T(40), BTAssumption DEF BTAssumption, NextPage, IInv, Scalars
    <3> QED
      BY SMTT(40), Z3T(40), <3>1, <3>2, <3>3 DEF Pages
  <2> QED
    BY Zenon, <1>1, <1>2, <1>4, <1>5, <1>6, <2>1 DEF IInv, Passed
<1>12. Progress'
  BY Zenon, <1>1, <1>6 DEF IInv, Progress
<1> QED
  BY Zenon, <1>7, <1>8, <1>9, <1>10, <1>11, <1>12 DEF IInv

\* _bt_parallel_advance_array_keys: p goes on to its next key set.
LEMMA KeepsAdvance ==
    ASSUME IInv, NEW p \in Proc, _bt_parallel_advance_array_keys(p)
    PROVE  IInv'
<1>1. /\ pc[p] = "advance" /\ taken' = taken
      /\ arrayKeyCount' = [arrayKeyCount EXCEPT ![p] = arrayKeyCount[p] + 1]
      /\ pageno' = [pageno EXCEPT ![p] = P_NONE]
      /\ moreRight' = [moreRight EXCEPT ![p] = FALSE]
      /\ fromFirst' = [fromFirst EXCEPT ![p] = FALSE]
  BY Zenon DEF _bt_parallel_advance_array_keys
<1>2. PICK l \in {"first", "end"} : /\ pc' = [pc EXCEPT ![p] = l]
                                    /\ l = "first" => arrayKeyCount[p] + 1 < Len(KeySets)
  BY Zenon DEF _bt_parallel_advance_array_keys, Goto
<1>3. /\ pc'[p] = l /\ arrayKeyCount'[p] = arrayKeyCount[p] + 1
      /\ \A q \in Proc \ {p} :
             /\ pc'[q] = pc[q] /\ arrayKeyCount'[q] = arrayKeyCount[q]
             /\ pageno'[q] = pageno[q] /\ moreRight'[q] = moreRight[q]
             /\ fromFirst'[q] = fromFirst[q]
  <2>1. pc'[p] = l /\ \A q \in Proc \ {p} : pc'[q] = pc[q]
    BY Zenon, <1>2 DEF IInv, Scalars
  <2>2. /\ arrayKeyCount'[p] = arrayKeyCount[p] + 1
        /\ \A q \in Proc \ {p} : arrayKeyCount'[q] = arrayKeyCount[q]
    BY Zenon, <1>1 DEF IInv, Scalars
  <2>3. \A q \in Proc \ {p} : /\ pageno'[q] = pageno[q] /\ moreRight'[q] = moreRight[q]
                              /\ fromFirst'[q] = fromFirst[q]
    BY Zenon, <1>1 DEF IInv, Scalars
  <2> QED
    BY <2>1, <2>2, <2>3
<1>4. /\ btps_arrayKeyCount \in Nat /\ NumPages \in Nat
      /\ \A q \in Proc : arrayKeyCount[q] \in Nat /\ arrayKeyCount[q] <= btps_arrayKeyCount
  BY Zenon, BTAssumption DEF BTAssumption, IInv, Scalars, KeysInStep
<1>5. \A q \in Proc : pc'[q] \notin {"first", "end"} => q # p /\ KeySet(q)' = KeySet(q)
  BY Zenon, <1>2, <1>3 DEF KeySet
<1>6. \A k \in DOMAIN KeySets : (Complete(k)' <=> Complete(k))
  BY Zenon, <1>1 DEF Complete
<1>7. Working'
  <2>1. l = "first" => arrayKeyCount'[p] + 1 \in DOMAIN KeySets
    <3>1. arrayKeyCount[p] \in Nat
      BY <1>4
    <3>2. ASSUME arrayKeyCount[p] + 1 < Len(KeySets)
          PROVE  (arrayKeyCount[p] + 1) + 1 \in 1 .. Len(KeySets)
      BY SMTT(40), Z3T(40), <3>1, <3>2, KeySetsDomain
    <3> QED
      BY <1>2, <1>3, <3>2, KeySetsDomain
  <2> QED
    BY Zenon, <1>2, <1>3, <2>1 DEF IInv, Working
<1>8. Satisfiable'
  BY Zenon, <1>3, <1>5 DEF IInv, Satisfiable
<1>11. arrayKeyCount' \in [Proc -> Nat] /\ btps_arrayKeyCount + 1 \in Nat
  BY SMTT(40), Z3T(40), <1>1, <1>4 DEF IInv, Scalars
<1>9. CASE btps_pageStatus = "done"
  <2>1. /\ btps_scanPage' = InvalidBlockNumber /\ btps_pageStatus' = "not_initialized"
        /\ btps_arrayKeyCount' = btps_arrayKeyCount + 1
    BY Zenon, <1>9 DEF _bt_parallel_advance_array_keys
  <2>2. Scalars'
    <3>1. InvalidBlockNumber \in -1 .. NumPages /\ P_NONE \in -1 .. NumPages
      BY SMTT(40), Z3T(40), <1>4 DEF InvalidBlockNumber, P_NONE
    <3> QED
      BY Zenon, <1>1, <1>2, <1>11, <2>1, <3>1 DEF IInv, Scalars, Status, Location
  <2>3. \A q \in Proc \ {p} : arrayKeyCount'[q] < btps_arrayKeyCount'
    BY SMTT(40), Z3T(40), <1>3, <1>4, <2>1
  <2>4. KeysInStep'
    <3>1. arrayKeyCount'[p] <= btps_arrayKeyCount'
      BY SMTT(40), Z3T(40), <1>3, <1>4, <2>1
    <3>2. \A q \in Proc \ {p} : arrayKeyCount'[q] <= btps_arrayKeyCount'
      BY SMTT(40), Z3T(40), <1>3, <1>4, <2>1
    <3> QED
      BY Zenon, <1>2, <1>3, <2>3, <3>1, <3>2 DEF KeysInStep
  <2>5. \A q \in Proc \ {p} : ~Current(q)'
    BY SMTT(40), Z3T(40), <1>3, <1>4, <2>1 DEF Current
  <2>6. Holder'
    BY Zenon, <1>2, <1>3, <1>9 DEF IInv, Holder
  <2>7. Started' /\ Passed'
    BY Zenon, <1>2, <1>3, <2>1, <2>5 DEF Started, Passed
  <2>8. Progress'
    <3>1. ASSUME NEW k \in DOMAIN KeySets
          PROVE  /\ k <= btps_arrayKeyCount + 1 => Complete(k)
                 /\ k > btps_arrayKeyCount + 1 => \A g \in Pages : taken[k][g] = 0
      <4>1. k \in Nat
        BY SMTT(40), Z3T(40), KeySetsDomain
      <4>2. k <= btps_arrayKeyCount + 1 => k <= btps_arrayKeyCount \/ k = btps_arrayKeyCount + 1
        BY SMTT(40), Z3T(40), <1>4, <4>1
      <4> QED
        BY Zenon, <1>9, <4>2 DEF IInv, Progress
    <3>2. ASSUME NEW k \in DOMAIN KeySets
          PROVE  /\ k = btps_arrayKeyCount + 1 + 1 => k > btps_arrayKeyCount + 1
                 /\ k > btps_arrayKeyCount + 1 + 1 => k > btps_arrayKeyCount + 1
      BY SMTT(40), Z3T(40), <1>4, KeySetsDomain
    <3> QED
      BY Zenon, <1>1, <1>6, <2>1, <3>1, <3>2 DEF Progress
  <2> QED
    BY Zenon, <1>7, <1>8, <2>2, <2>4, <2>6, <2>7, <2>8 DEF IInv
<1>10. CASE btps_pageStatus # "done"
  <2>1. UNCHANGED <<btps_scanPage, btps_pageStatus, btps_arrayKeyCount>>
    BY Zenon, <1>10 DEF _bt_parallel_advance_array_keys, btps
  <2>2. Scalars'
    <3>1. P_NONE \in -1 .. NumPages
      BY SMTT(40), Z3T(40), <1>4 DEF P_NONE
    <3> QED
      BY Zenon, <1>1, <1>2, <1>11, <2>1, <3>1 DEF IInv, Scalars, Location
  <2>3. KeysInStep'
    <3>1. arrayKeyCount[p] < btps_arrayKeyCount
      BY Zenon, <1>1, <1>10 DEF IInv, KeysInStep
    <3>2. arrayKeyCount'[p] <= btps_arrayKeyCount
      BY SMTT(40), Z3T(40), <1>3, <1>4, <3>1
    <3> QED
      BY Zenon, <1>2, <1>3, <2>1, <3>2 DEF IInv, KeysInStep
  <2>4. \A q \in Proc \ {p} : (Current(q)' <=> Current(q))
    BY Zenon, <1>3, <2>1 DEF Current
  <2>5. NextPage' = NextPage
    BY Zenon, <2>1 DEF NextPage
  <2>6. Holder'
    BY SMTT(40), Z3T(40), <1>2, <1>3, <2>1, <2>4 DEF IInv, Holder
  <2>7. Started'
    BY Zenon, <1>2, <1>3, <2>1, <2>4 DEF IInv, Started
  <2>8. Passed'
    BY SMTT(40), Z3T(40), <1>2, <1>3, <1>5, <2>1, <2>4, <2>5 DEF IInv, Passed
  <2>9. Progress'
    BY Zenon, <1>1, <1>6, <2>1, <2>5 DEF IInv, Progress
  <2> QED
    BY Zenon, <1>7, <1>8, <2>2, <2>3, <2>6, <2>7, <2>8, <2>9 DEF IInv
<1> QED
  BY <1>9, <1>10

\* btparallelrescan: the scan starts over.
LEMMA KeepsRescan ==
    ASSUME IInv, btparallelrescan
    PROVE  IInv'
<1>1. NumPages \in Nat \ {0} /\ 1 \in DOMAIN KeySets
  BY SMTT(40), Z3T(40), BTAssumption, KeySetsDomain DEF BTAssumption
<1>2. \A k \in DOMAIN KeySets : \A page \in Pages : taken'[k][page] = 0
  BY Zenon DEF btparallelrescan, NothingTaken, Pages
<1>3. Scalars'
  <2>1. taken' \in [DOMAIN KeySets -> [Pages -> Nat]]
    BY Zenon DEF btparallelrescan, NothingTaken, Pages
  <2> QED
    BY SMTT(40), Z3T(40), <1>1, <2>1 DEF btparallelrescan, IInv, Scalars, Status, Location, InvalidBlockNumber
<1>4. Working'
  BY SMTT(40), Z3T(40), <1>1 DEF btparallelrescan, Working
<1>5. Progress'
  BY SMTT(40), Z3T(40), <1>2, KeySetsDomain DEF btparallelrescan, Progress
<1> QED
  BY SMTT(40), Z3T(40), <1>3, <1>4, <1>5
     DEF btparallelrescan, IInv, KeysInStep, Holder, Satisfiable, Started, Passed

\* Every step keeps the invariant.
LEMMA InvStep == IInv /\ [Next]_vars => IInv'
<1> SUFFICES ASSUME IInv, [Next]_vars PROVE IInv'
  OBVIOUS
<1>1. CASE UNCHANGED vars
  BY Zenon, <1>1, KeepsSame DEF vars
<1> QED
  BY Zenon, <1>1, KeepsSame, KeepsFirst, KeepsSteppage, KeepsSeize, KeepsSeized, KeepsReadpage,
     KeepsAdvance, KeepsRescan DEF Next, Step

-----------------------------------------------------------------------------
\* The processes' counts of array keys never get ahead of the shared count, and
\* who leaves a key set leaves it finished.
THEOREM KeysStayInStep == Spec => []KeysInStep
<1>1. IInv => KeysInStep
  BY Zenon DEF IInv
<1> QED
  BY <1>1, InvInit, InvStep, PTL DEF Spec

\* _bt_readnextpage never gets the number that stands for a scan not started.
THEOREM ReadsExistingPages == Spec => []OnlyFirstStarts
<1>1. IInv => OnlyFirstStarts
  BY Zenon DEF IInv, OnlyFirstStarts, Holder, Started, Scalars
<1> QED
  BY <1>1, InvInit, InvStep, PTL DEF Spec

\* Whatever the number of processes, pages and key sets: a page is read once at
\* most for a key set, and a key set that is over has had all its pages read.
THEOREM EveryPageOnce == Spec => []PagesTakenOnce
<1>1. IInv => PagesTakenOnce
  <2> SUFFICES ASSUME IInv, NEW k \in DOMAIN KeySets
               PROVE  /\ \A page \in 1 .. NumPages : taken[k][page] <= 1
                      /\ \/ btps_arrayKeyCount >= k
                         \/ btps_arrayKeyCount = k - 1 /\ btps_pageStatus = "done"
                         => Complete(k)
    BY Zenon DEF PagesTakenOnce, Complete, Pages
  <2>1. k \in Nat /\ btps_arrayKeyCount \in Nat
    BY SMTT(40), Z3T(40), KeySetsDomain DEF IInv, Scalars
  <2>2. /\ k <= btps_arrayKeyCount => Complete(k)
        /\ k = btps_arrayKeyCount + 1 /\ btps_pageStatus = "done" => Complete(k)
    BY Zenon DEF IInv, Progress
  <2>3. \A page \in Pages : taken[k][page] <= 1
    <3>1. CASE k <= btps_arrayKeyCount
      BY Zenon, <2>2, <3>1 DEF Complete
    <3>2. CASE k = btps_arrayKeyCount + 1
      BY SMTT(40), Z3T(40), <3>2 DEF IInv, Progress
    <3>3. CASE k > btps_arrayKeyCount + 1
      BY SMTT(40), Z3T(40), <3>3 DEF IInv, Progress
    <3> QED
      BY SMTT(40), Z3T(40), <2>1, <3>1, <3>2, <3>3
  <2> QED
    BY SMTT(40), Z3T(40), <2>1, <2>2, <2>3 DEF Pages
<1> QED
  BY <1>1, InvInit, InvStep, PTL DEF Spec

-----------------------------------------------------------------------------
(***************************************************************************)
(* Nobody is stranded.  What the scan relies on in condition_variable.c is *)
(* ListInv, which is shown at the end, from the proofs of the condition    *)
(* variable in BarrierProofs.                                              *)
(***************************************************************************)
Place == {"out", "prepare", "push", "wait", "check", "cancel", "signal", "broadcast",
          "sentinel", "setlatch", "loop"}

\* A list of processes, in which nobody is twice.
IsList(s) == s \in Seq(Proc) /\ \A i, j \in 1 .. Len(s) : s[i] = s[j] => i = j

\* Whoever is on the list has prepared to sleep or is broadcasting, a broadcast that has
\* found somebody is under way, and whoever sleeps is on the list or being woken.
ListInv ==
    /\ wakeup \in [CV -> Seq(Proc)] /\ at \in [Proc -> Place] /\ cv \in [Proc -> CV]
    /\ cv_sleep_target \in [Proc -> CV \cup {NULL}]
    /\ have_sentinel \in [Proc -> BOOLEAN] /\ toWake \in [Proc -> SUBSET Proc]
    /\ IsList(wakeup[btps_cv])
    /\ \A p \in Proc :
          /\ Listed(btps_cv, p) => cv_sleep_target[p] = btps_cv \/ have_sentinel[p]
          /\ at[p] \in {"push", "sentinel"} => cv_sleep_target[p] = NULL
          /\ have_sentinel[p] => at[p] \in {"setlatch", "loop"}
          /\ toWake[p] # {} => have_sentinel[p]
          /\ at[p] = "wait" => cv_sleep_target[p] = cv[p]
          /\ cv_sleep_target[p] # NULL /\ at[p] # "check" =>
                 \/ latch[p] \/ Listed(cv_sleep_target[p], p)
                 \/ \E q \in Proc : at[q] = "setlatch"

\* On the list, and about to sleep or to sleep on: whoever takes it off wakes it.
Queued(p) == at[p] \in {"wait", "check"} /\ Listed(btps_cv, p)

\* The key set that p waits for is finished.
Over(p) == KeysPassed(p) \/ btps_pageStatus = "done"

\* A broadcast is going to find p, or has found it and has yet to wake it.
Covered(p) == \E q \in Proc : at[q] \in {"broadcast", "sentinel"} \/ p \in toWake[q]

\* q is going to wake somebody, or to look at the scan itself.
Waker(q) == at[q] = "signal" \/ (pc[q] \in {"first", "seize", "advance"} /\ ~ Queued(q))

\* Where in the scan a process calls which function.
Placement(p) ==
    /\ cv[p] = btps_cv /\ cv_sleep_target[p] \in {btps_cv, NULL}
    /\ at[p] # "prepare"
    /\ at[p] \in {"push", "wait", "check"} => pc[p] = "seize"
    /\ at[p] = "cancel" => pc[p] \in {"seize", "seized", "advance"}
    /\ at[p] = "signal" => pc[p] = "read"
    /\ at[p] = "setlatch" => pc[p] \in {"read", "advance"}
    /\ at[p] \in {"broadcast", "sentinel", "loop"} \/ have_sentinel[p] => pc[p] = "advance"
    /\ cv_sleep_target[p] # NULL =>
           pc[p] = "seize" \/ (at[p] = "cancel" /\ pc[p] \in {"seized", "advance"})

\* Somebody has seized the scan while it advances.
Seizing == btps_pageStatus = "advancing" => \E q \in Proc : pc[q] = "seized"

\* Who waits for a key set that is finished is woken by a broadcast, and who waits for
\* one that is not, by whoever releases the scan or looks at it next.
Finished == \A p \in Proc : Queued(p) /\ Over(p) => Covered(p)
Unfinished == \A p \in Proc : Queued(p) /\ ~ Over(p) =>
                  btps_pageStatus = "advancing" \/ \E q \in Proc : Waker(q)

WakeInv ==
    /\ \A p \in Proc : Placement(p)
    /\ Seizing /\ Finished /\ Unfinished

\* The variable of the scan.
LEMMA TheCV == btps_cv \in CV /\ NULL \notin CV
BY Zenon, CVAssumption DEF CVAssumption, btps_cv

\* The state of condition_variable.c.
LEMMA Typed ==
    ASSUME ListInv
    PROVE  /\ wakeup \in [CV -> Seq(Proc)] /\ at \in [Proc -> Place] /\ cv \in [Proc -> CV]
           /\ cv_sleep_target \in [Proc -> CV \cup {NULL}]
           /\ have_sentinel \in [Proc -> BOOLEAN] /\ toWake \in [Proc -> SUBSET Proc]
           /\ btps_cv \in CV /\ NULL \notin CV /\ IsList(wakeup[btps_cv])
BY Zenon, TheCV DEF ListInv

\* Who is on a list.
LEMMA OnList ==
    ASSUME NEW s, IsList(s)
    PROVE  Len(s) \in Nat /\ DOMAIN s = 1 .. Len(s) /\ Range(s) = {s[i] : i \in 1 .. Len(s)}
BY SMTT(40), Z3T(40) DEF IsList, Range

\* proclist_delete: all but x remain.
LEMMA Removing ==
    ASSUME NEW s, IsList(s), NEW x \in Range(s)
    PROVE  Range(Without(s, x)) = Range(s) \ {x}
<1>1. Len(s) \in Nat /\ DOMAIN s = 1 .. Len(s) /\ Range(s) = {s[i] : i \in 1 .. Len(s)}
  BY Zenon, OnList
<1>2. PICK n \in 1 .. Len(s) : n = CHOOSE i \in DOMAIN s : s[i] = x
  BY Zenon, <1>1
<1>3. s[n] = x
  BY Zenon, <1>1, <1>2
<1> DEFINE t == Without(s, x)
<1>4. t = [j \in 1 .. Len(s) - 1 |-> IF j < n THEN s[j] ELSE s[j + 1]]
  BY Zenon, <1>2 DEF Without
<1> HIDE DEF t
<1>5. Range(t) = {t[i] : i \in 1 .. Len(s) - 1}
  BY Zenon, <1>4 DEF Range
<1>6. \A i \in 1 .. Len(s) : i # n => s[i] # x
  BY Zenon, <1>3 DEF IsList
<1>7. \A i \in 1 .. Len(s) - 1 : \E k \in 1 .. Len(s) : k # n /\ t[i] = s[k]
  BY SMTT(40), Z3T(40), <1>1, <1>4
<1>8. ASSUME NEW k \in 1 .. Len(s), k # n
      PROVE  \E i \in 1 .. Len(s) - 1 : t[i] = s[k]
  <2>1. CASE k < n
    <3>1. k \in 1 .. Len(s) - 1 /\ t[k] = s[k]
      BY SMTT(40), Z3T(40), <1>1, <1>4, <2>1
    <3> QED
      BY Zenon, <3>1
  <2>2. CASE k > n
    <3>1. k - 1 \in 1 .. Len(s) - 1 /\ t[k - 1] = s[k]
      BY SMTT(40), Z3T(40), <1>1, <1>4, <2>2
    <3> QED
      BY Zenon, <3>1
  <2>3. k < n \/ k > n
    BY SMTT(40), Z3T(40), <1>1, <1>8
  <2> QED
    BY <2>1, <2>2, <2>3
<1>9. \A y \in Range(t) : y \in Range(s) /\ y # x
  BY Zenon, <1>1, <1>5, <1>6, <1>7
<1>10. ASSUME NEW y \in Range(s), y # x PROVE y \in Range(t)
  <2>1. PICK k \in 1 .. Len(s) : y = s[k]
    BY Zenon, <1>1
  <2>2. k # n
    BY Zenon, <1>3, <1>10, <2>1
  <2>3. PICK i \in 1 .. Len(s) - 1 : t[i] = s[k]
    BY Zenon, <1>8, <2>2
  <2> QED
    BY Zenon, <1>5, <2>1, <2>3
<1> QED
  BY Zenon, <1>9, <1>10 DEF t

\* proclist_push_tail.
LEMMA Appending ==
    ASSUME NEW s \in Seq(Proc), NEW p \in Proc
    PROVE  \A y \in Range(Append(s, p)) : y \in Range(s) \/ y = p
BY SMTT(40), Z3T(40) DEF Range

\* proclist_pop_head_node.
LEMMA First ==
    ASSUME NEW s, IsList(s), s # <<>>
    PROVE  /\ Head(s) \in Range(s) /\ Head(s) \in Proc /\ Tail(s) \in Seq(Proc)
           /\ Tail(s) = Without(s, Head(s))
<1>1. /\ s \in Seq(Proc) /\ Len(s) \in Nat /\ Len(s) > 0 /\ Head(s) = s[1] /\ Head(s) \in Proc
      /\ DOMAIN s = 1 .. Len(s) /\ 1 \in 1 .. Len(s) /\ Tail(s) \in Seq(Proc)
  BY SMTT(40), Z3T(40) DEF IsList
<1>2. Head(s) \in Range(s)
  BY Zenon, <1>1 DEF Range
<1>3. 1 = CHOOSE i \in DOMAIN s : s[i] = Head(s)
  BY Zenon, <1>1 DEF IsList
<1>4. Without(s, Head(s)) = [j \in 1 .. Len(s) - 1 |-> IF j < 1 THEN s[j] ELSE s[j + 1]]
  BY Zenon, <1>3 DEF Without
<1>5. Tail(s) = Without(s, Head(s))
  BY SMTT(40), Z3T(40), <1>1, <1>4
<1> QED
  BY Zenon, <1>1, <1>2, <1>5

\* Who is on the list of the scan after a process is taken off, ...
LEMMA TakenOff ==
    ASSUME ListInv, NEW x \in Proc, Delete(btps_cv, x)
    PROVE  /\ \A y : Listed(btps_cv, y)' <=> Listed(btps_cv, y) /\ y # x
           /\ \A q \in Proc : \A y \in toWake[q] : y # x => y \in toWake'[q]
<1> DEFINE s == wakeup[btps_cv]
<1>1. /\ wakeup'[btps_cv] = IF Listed(btps_cv, x) THEN Without(s, x) ELSE s
      /\ toWake' = [q \in Proc |-> IF cv[q] = btps_cv THEN toWake[q] \ {x} ELSE toWake[q]]
      /\ IsList(s)
  BY Zenon, Typed DEF Delete
<1> HIDE DEF s
<1>2. x \in Range(s) => Range(Without(s, x)) = Range(s) \ {x}
  BY Zenon, <1>1, Removing
<1>3. \A y : Listed(btps_cv, y)' <=> Listed(btps_cv, y) /\ y # x
  BY Zenon, <1>1, <1>2 DEF Listed, s, btps_cv
<1> QED
  BY Zenon, <1>1, <1>3

\* ... after one queues, ...
LEMMA PutOn ==
    ASSUME ListInv, NEW p \in Proc, cv[p] = btps_cv, PushTail(cv[p], p)
    PROVE  \A y : Listed(btps_cv, y)' => Listed(btps_cv, y) \/ y = p
<1> DEFINE s == wakeup[btps_cv]
<1>1. wakeup'[btps_cv] = Append(s, p) /\ s \in Seq(Proc)
  BY Zenon, Typed DEF PushTail, IsList
<1> HIDE DEF s
<1>2. \A y \in Range(Append(s, p)) : y \in Range(s) \/ y = p
  BY Zenon, <1>1, Appending
<1> QED
  BY Zenon, <1>1, <1>2 DEF Listed, s, btps_cv

\* ... and who is the first.
LEMMA Foremost ==
    ASSUME ListInv, wakeup[btps_cv] # <<>>
    PROVE  /\ Head(wakeup[btps_cv]) \in Proc /\ Listed(btps_cv, Head(wakeup[btps_cv]))
           /\ \A x : x \in Range(Tail(wakeup[btps_cv])) <=>
                         Listed(btps_cv, x) /\ x # Head(wakeup[btps_cv])
           /\ Tail(wakeup[btps_cv]) \in Seq(Proc)
<1> DEFINE s == wakeup[btps_cv]
<1>1. IsList(s) /\ s # <<>>
  BY Zenon, Typed
<1> HIDE DEF s
<1>2. /\ Head(s) \in Range(s) /\ Head(s) \in Proc /\ Tail(s) \in Seq(Proc)
      /\ Tail(s) = Without(s, Head(s))
  BY Zenon, <1>1, First
<1>3. Range(Without(s, Head(s))) = Range(s) \ {Head(s)}
  BY Zenon, <1>1, <1>2, Removing
<1>4. \A x : x \in Range(Tail(s)) <=> x \in Range(s) /\ x # Head(s)
  BY Zenon, <1>2, <1>3
<1> QED
  BY Zenon, <1>2, <1>4 DEF Listed, s

\* Nobody is on the empty list.
LEMMA NobodyListed == ASSUME wakeup[btps_cv] = <<>> PROVE \A x : ~ Listed(btps_cv, x)
<1>1. Range(<<>>) = {}
  BY SMTT(40), Z3T(40) DEF Range
<1> QED
  BY Zenon, <1>1 DEF Listed

\* Whoever is not setting latches has no sentinel on the list, and nobody to wake.
LEMMA NoSentinelYet ==
    ASSUME ListInv, NEW p \in Proc, at[p] \notin {"setlatch", "loop"}
    PROVE  ~ have_sentinel[p] /\ toWake[p] = {}
BY Zenon DEF ListInv

\* Whoever is on the list sleeps there or is broadcasting.
LEMMA ListedWhere ==
    ASSUME ListInv, NEW p \in Proc, Placement(p), Listed(btps_cv, p)
    PROVE  /\ cv_sleep_target[p] = btps_cv \/ have_sentinel[p]
           /\ pc[p] \in {"seize", "seized", "advance"}
           /\ at[p] \notin {"push", "sentinel"}
<1>1. btps_cv # NULL
  BY Zenon, TheCV
<1>2. cv_sleep_target[p] = btps_cv \/ have_sentinel[p]
  BY Zenon DEF ListInv
<1>3. /\ at[p] \in {"push", "sentinel"} => cv_sleep_target[p] = NULL
      /\ have_sentinel[p] => at[p] \in {"setlatch", "loop"}
  BY Zenon DEF ListInv
<1>4. at[p] \notin {"push", "sentinel"}
  BY SMTT(40), Z3T(40), <1>1, <1>2, <1>3
<1>5. pc[p] \in {"seize", "seized", "advance"}
  BY Zenon, <1>1, <1>2 DEF Placement
<1> QED
  BY <1>2, <1>4, <1>5

\* What a step of p in condition_variable.c means to the others: nobody new is queued,
\* whom a broadcast has found it does not lose, a broadcast finds all who are queued, and
\* a signal takes somebody off.
Effect(p) ==
    /\ cv' = cv /\ \A q \in Proc \ {p} : at'[q] = at[q]
    /\ \A x \in Proc : Queued(x)' => Queued(x)
    /\ \A x, q \in Proc : x \in toWake[q] /\ Queued(x)' => x \in toWake'[q]
    /\ at[p] = "broadcast" => at'[p] = "sentinel"
    /\ at[p] = "sentinel" => \A x \in Proc : Queued(x)' => x \in toWake'[p]
    /\ at[p] = "signal" => \A x \in Proc : Listed(btps_cv, x) =>
           \E r \in Proc : Listed(btps_cv, r) /\ ~ Listed(btps_cv, r)'

\* What remains of a place in the scan when p goes on in condition_variable.c.
Moves(p) ==
    /\ at[p] # "out" /\ at'[p] # "prepare"
    /\ at'[p] \in {"push", "wait", "check", "cancel"} => at[p] \in {"wait", "check"}
    /\ at'[p] \notin {"signal", "broadcast"}
    /\ at'[p] = "setlatch" => at[p] \in {"signal", "sentinel", "loop"}
    /\ at'[p] = "sentinel" => at[p] = "broadcast"
    /\ at'[p] = "loop" => have_sentinel[p]
    /\ have_sentinel'[p] => have_sentinel[p] \/ at[p] \in {"sentinel", "loop"}
    /\ cv_sleep_target'[p] \in {btps_cv, NULL}
    /\ cv_sleep_target'[p] # NULL =>
           \/ at[p] = "push"
           \/ cv_sleep_target[p] # NULL /\ at[p] # "cancel"
    /\ \A q \in Proc \ {p} : /\ cv_sleep_target'[q] = cv_sleep_target[q]
                             /\ have_sentinel'[q] = have_sentinel[q]

\* Nobody moves on the list.
LEMMA ListKept ==
    ASSUME NEW p \in Proc, wakeup' = wakeup, toWake' = toWake, cv' = cv,
           \A q \in Proc \ {p} : at'[q] = at[q],
           at'[p] \in {"wait", "check"} => at[p] \in {"wait", "check"},
           at[p] \notin {"broadcast", "sentinel", "signal"}
    PROVE  Effect(p)
BY Zenon DEF Effect, Queued, Listed

\* p is taken off the list, by itself or by the head of a broadcast or a signal.
LEMMA ListLess ==
    ASSUME ListInv, NEW p \in Proc, NEW x \in Proc, Delete(btps_cv, x), cv' = cv,
           \A q \in Proc \ {p} : at'[q] = at[q], at'[p] \notin {"wait", "check"},
           at[p] # "sentinel", at[p] = "broadcast" => at'[p] = "sentinel",
           at[p] = "signal" => Listed(btps_cv, x)
    PROVE  Effect(p)
<1>1. /\ \A y : Listed(btps_cv, y)' <=> Listed(btps_cv, y) /\ y # x
      /\ \A q \in Proc : \A y \in toWake[q] : y # x => y \in toWake'[q]
  BY Zenon, TakenOff
<1>2. \A y \in Proc : Queued(y)' => Queued(y) /\ y # x
  BY Zenon, <1>1 DEF Queued
<1> QED
  BY Zenon, <1>1, <1>2 DEF Effect

\* ConditionVariableCancelSleep, called or at the start of a broadcast: p leaves the list.
LEMMA EffectCancel ==
    ASSUME ListInv, NEW p \in Proc, Placement(p), NEW l, l \in {"out", "sentinel"},
           at[p] \in {"cancel", "broadcast"}, at[p] = "broadcast" => l = "sentinel",
           at[p] = "cancel" => l = "out", CancelSleep(p, l)
    PROVE  Effect(p) /\ Moves(p)
<1>1. /\ at'[p] = l /\ \A q \in Proc \ {p} : at'[q] = at[q]
      /\ cv_sleep_target'[p] = NULL
      /\ \A q \in Proc \ {p} : cv_sleep_target'[q] = cv_sleep_target[q]
      /\ cv' = cv /\ have_sentinel' = have_sentinel
  BY Zenon, Typed DEF CancelSleep, At
<1>2. ASSUME cv_sleep_target[p] = NULL PROVE Effect(p)
  <2>1. wakeup' = wakeup /\ toWake' = toWake
    BY Zenon, <1>2 DEF CancelSleep
  <2>2. /\ at[p] # "sentinel" /\ at[p] # "signal" /\ at'[p] \notin {"wait", "check"}
        /\ at[p] = "broadcast" => at'[p] = "sentinel"
        /\ at[p] = "signal" => Listed(btps_cv, p)
    BY SMTT(40), Z3T(40), <1>1
  <2>3. cv' = cv /\ \A q \in Proc \ {p} : at'[q] = at[q]
    BY Zenon, <1>1
  <2> QED
    BY Zenon, <2>1, <2>2, <2>3 DEF Effect, Queued, Listed
<1>3. ASSUME cv_sleep_target[p] = btps_cv PROVE Effect(p)
  <2>1. Delete(btps_cv, p)
    BY Zenon, <1>3, Typed DEF CancelSleep
  <2>2. /\ at[p] # "sentinel" /\ at[p] # "signal" /\ at'[p] \notin {"wait", "check"}
        /\ at[p] = "broadcast" => at'[p] = "sentinel"
        /\ at[p] = "signal" => Listed(btps_cv, p)
    BY SMTT(40), Z3T(40), <1>1
  <2>3. cv' = cv /\ \A q \in Proc \ {p} : at'[q] = at[q]
    BY Zenon, <1>1
  <2> QED
    BY Zenon, <2>1, <2>2, <2>3, ListLess
<1>4. Effect(p)
  BY Zenon, <1>2, <1>3 DEF Placement
<1>5. Moves(p)
  BY SMTT(40), Z3T(40), <1>1 DEF Moves
<1> QED
  BY <1>4, <1>5

\* Going to sleep, waking, and setting a latch.
LEMMA EffectSleep ==
    ASSUME ListInv, NEW p \in Proc, Placement(p),
           \/ ConditionVariablePrepareToSleep(p) \/ ConditionVariableSleep(p)
           \/ SetLatch(p) \/ OtherSetLatch(p)
    PROVE  Effect(p) /\ Moves(p)
<1>0. cv[p] = btps_cv /\ at[p] # "prepare" /\ cv_sleep_target[p] \in {btps_cv, NULL}
  BY Zenon DEF Placement
<1>1. ASSUME at[p] = "push", ConditionVariablePrepareToSleep(p)
      PROVE  Effect(p) /\ Moves(p)
  <2>1. /\ at'[p] = "out" /\ \A q \in Proc \ {p} : at'[q] = at[q]
        /\ cv_sleep_target'[p] = btps_cv
        /\ \A q \in Proc \ {p} : cv_sleep_target'[q] = cv_sleep_target[q]
        /\ cv' = cv /\ have_sentinel' = have_sentinel /\ toWake' = toWake
        /\ PushTail(cv[p], p)
    BY Zenon, <1>0, <1>1, Typed DEF ConditionVariablePrepareToSleep, At
  <2>2. ~ Listed(btps_cv, p)
    BY Zenon, <1>1, ListedWhere
  <2>3. \A y : Listed(btps_cv, y)' => Listed(btps_cv, y) \/ y = p
    BY Zenon, <1>0, <2>1, PutOn
  <2>4. /\ at[p] # "broadcast" /\ at[p] # "sentinel" /\ at[p] # "signal"
        /\ at'[p] \notin {"wait", "check"}
    BY SMTT(40), Z3T(40), <1>1, <2>1
  <2>5. \A x \in Proc : Queued(x)' => Queued(x)
    BY Zenon, <2>1, <2>3, <2>4 DEF Queued
  <2>6. Effect(p)
    BY Zenon, <2>1, <2>4, <2>5 DEF Effect
  <2>7. Moves(p)
    BY SMTT(40), Z3T(40), <1>1, <2>1 DEF Moves
  <2> QED
    BY <2>6, <2>7
<1>2. ASSUME WaitForLatch(p) \/ OtherSetLatch(p)
      PROVE  Effect(p) /\ Moves(p)
  <2>1. /\ at[p] = "wait" /\ at'[p] \in {"wait", "check"}
        /\ \A q \in Proc \ {p} : at'[q] = at[q]
    BY Zenon, <1>2, Typed DEF WaitForLatch, OtherSetLatch, At
  <2>2. /\ wakeup' = wakeup /\ toWake' = toWake /\ cv' = cv
        /\ have_sentinel' = have_sentinel /\ cv_sleep_target' = cv_sleep_target
    BY Zenon, <1>2 DEF WaitForLatch, OtherSetLatch
  <2>3. at[p] \notin {"broadcast", "sentinel", "signal"}
    BY SMTT(40), Z3T(40), <2>1
  <2>4. Effect(p)
    BY Zenon, <2>1, <2>2, <2>3, ListKept
  <2>5. Moves(p)
    BY SMTT(40), Z3T(40), <1>0, <2>1, <2>2 DEF Moves
  <2> QED
    BY <2>4, <2>5
<1>3. ASSUME CheckList(p)
      PROVE  Effect(p) /\ Moves(p)
  <2>1. /\ at[p] = "check" /\ at'[p] \in {"wait", "out", "cancel"}
        /\ StillListed(p) \/ at'[p] \in {"out", "cancel"}
        /\ \A q \in Proc \ {p} : at'[q] = at[q]
    BY Zenon, <1>3, Typed DEF CheckList, At
  <2>2. /\ toWake' = toWake /\ cv' = cv
        /\ have_sentinel' = have_sentinel /\ cv_sleep_target' = cv_sleep_target
    BY Zenon, <1>3 DEF CheckList
  <2>3. at[p] \notin {"broadcast", "sentinel", "signal"} /\ at[p] # "cancel" /\ at[p] # "out"
    BY SMTT(40), Z3T(40), <2>1
  <2>4. CASE StillListed(p)
    <3>1. wakeup' = wakeup
      BY Zenon, <1>3, <2>4 DEF CheckList
    <3>2. Effect(p)
      BY Zenon, <2>1, <2>2, <2>3, <3>1, ListKept
    <3>3. Moves(p)
      BY SMTT(40), Z3T(40), <1>0, <2>1, <2>2 DEF Moves
    <3> QED
      BY <3>2, <3>3
  <2>5. CASE ~ StillListed(p)
    <3>1. PushTail(cv[p], p) /\ ~ Listed(btps_cv, p)
      BY Zenon, <1>0, <1>3, <2>5 DEF CheckList, StillListed, Requeue
    <3>2. \A y : Listed(btps_cv, y)' => Listed(btps_cv, y) \/ y = p
      BY Zenon, <1>0, <3>1, PutOn
    <3>3. at'[p] \notin {"wait", "check"}
      BY SMTT(40), Z3T(40), <2>1, <2>5
    <3>4. \A x \in Proc : Queued(x)' => Queued(x)
      BY Zenon, <2>1, <3>2, <3>3 DEF Queued
    <3>5. Effect(p)
      BY Zenon, <2>1, <2>2, <2>3, <3>4 DEF Effect
    <3>6. Moves(p)
      BY SMTT(40), Z3T(40), <1>0, <2>1, <2>2 DEF Moves
    <3> QED
      BY <3>5, <3>6
  <2> QED
    BY <2>4, <2>5
<1>4. ASSUME SetLatch(p)
      PROVE  Effect(p) /\ Moves(p)
  <2>1. /\ at[p] = "setlatch"
        /\ (at'[p] = "loop" /\ have_sentinel[p]) \/ at'[p] = "out"
        /\ \A q \in Proc \ {p} : at'[q] = at[q]
    BY Zenon, <1>4, Typed DEF SetLatch, At
  <2>2. /\ wakeup' = wakeup /\ toWake' = toWake /\ cv' = cv
        /\ have_sentinel' = have_sentinel /\ cv_sleep_target' = cv_sleep_target
    BY Zenon, <1>4 DEF SetLatch
  <2>3. at[p] \notin {"broadcast", "sentinel", "signal"} /\ at'[p] \notin {"wait", "check"}
    BY SMTT(40), Z3T(40), <2>1
  <2>4. Effect(p)
    BY Zenon, <2>1, <2>2, <2>3, ListKept
  <2>5. Moves(p)
    BY SMTT(40), Z3T(40), <1>0, <2>1, <2>2 DEF Moves
  <2> QED
    BY <2>4, <2>5
<1>5. at[p] = "push" \/ ~ ConditionVariablePrepareToSleep(p)
  BY Zenon, <1>0 DEF ConditionVariablePrepareToSleep
<1> QED
  BY Zenon, <1>1, <1>2, <1>3, <1>4, <1>5 DEF ConditionVariableSleep

\* Whom a signal or a broadcast takes off is the first of the list.
LEMMA EffectSignal ==
    ASSUME ListInv, NEW p \in Proc, Placement(p), TakeFirst(p) \/ BroadcastLoop(p)
    PROVE  Effect(p) /\ Moves(p)
<1>0. cv[p] = btps_cv /\ cv_sleep_target[p] \in {btps_cv, NULL}
  BY Zenon DEF Placement
<1>1. /\ at[p] \in {"signal", "loop"} /\ at'[p] \in {"out", "setlatch"}
      /\ \A q \in Proc \ {p} : at'[q] = at[q]
      /\ at[p] = "loop" \/ have_sentinel' = have_sentinel
      /\ \A q \in Proc \ {p} : have_sentinel'[q] = have_sentinel[q]
      /\ cv' = cv /\ cv_sleep_target' = cv_sleep_target
  BY Zenon, Typed DEF TakeFirst, BroadcastLoop, At
<1>2. /\ at[p] # "sentinel" /\ at[p] # "broadcast" /\ at'[p] \notin {"wait", "check"}
  BY SMTT(40), Z3T(40), <1>1
<1>3. Moves(p)
  BY SMTT(40), Z3T(40), <1>0, <1>1 DEF Moves
<1>4. ASSUME wakeup[btps_cv] = <<>> PROVE Effect(p)
  <2>1. wakeup' = wakeup /\ toWake' = toWake
    BY Zenon, <1>0, <1>4 DEF TakeFirst, BroadcastLoop
  <2>2. \A x : ~ Listed(btps_cv, x)
    BY Zenon, <1>4, NobodyListed
  <2> QED
    BY Zenon, <1>1, <1>2, <2>1, <2>2 DEF Effect, Queued, Listed
<1>5. ASSUME wakeup[btps_cv] # <<>> PROVE Effect(p)
  <2>1. Delete(btps_cv, Head(wakeup[btps_cv]))
    BY Zenon, <1>0, <1>5 DEF TakeFirst, BroadcastLoop, PopHead
  <2>2. /\ Head(wakeup[btps_cv]) \in Proc /\ Listed(btps_cv, Head(wakeup[btps_cv]))
    BY Zenon, <1>5, Foremost
  <2>3. PICK x \in Proc : x = Head(wakeup[btps_cv])
    BY Zenon, <2>2
  <2>4. Delete(btps_cv, x) /\ Listed(btps_cv, x)
    BY Zenon, <2>1, <2>2, <2>3
  <2> QED
    BY Zenon, <1>1, <1>2, <2>4, ListLess
<1> QED
  BY Zenon, <1>3, <1>4, <1>5

\* A broadcast finds all who are on the list.
LEMMA EffectSentinel ==
    ASSUME ListInv, NEW p \in Proc, Placement(p), PlaceSentinel(p)
    PROVE  Effect(p) /\ Moves(p)
<1> DEFINE s == wakeup[btps_cv]
<1>0. cv[p] = btps_cv /\ cv_sleep_target[p] \in {btps_cv, NULL}
  BY Zenon DEF Placement
<1>1. /\ at[p] = "sentinel" /\ at'[p] \in {"out", "setlatch"}
      /\ \A q \in Proc \ {p} : at'[q] = at[q]
      /\ \A q \in Proc \ {p} : have_sentinel'[q] = have_sentinel[q]
      /\ cv' = cv /\ cv_sleep_target' = cv_sleep_target
  BY Zenon, Typed DEF PlaceSentinel, At
<1>2. /\ at[p] # "signal" /\ at[p] # "broadcast" /\ at'[p] \notin {"wait", "check"}
      /\ at[p] \notin {"setlatch", "loop"}
  BY SMTT(40), Z3T(40), <1>1
<1>3. Moves(p)
  BY SMTT(40), Z3T(40), <1>0, <1>1 DEF Moves
<1>4. ASSUME s = <<>> PROVE Effect(p)
  <2>1. wakeup' = wakeup /\ toWake' = toWake
    BY Zenon, <1>0, <1>4 DEF PlaceSentinel
  <2>2. \A x : ~ Listed(btps_cv, x)
    BY Zenon, <1>4, NobodyListed
  <2> QED
    BY Zenon, <1>1, <1>2, <2>1, <2>2 DEF Effect, Queued, Listed
<1>5. ASSUME s # <<>> PROVE Effect(p)
  <2>1. /\ \A x : x \in Range(Tail(s)) <=> Listed(btps_cv, x) /\ x # Head(s)
        /\ Tail(s) \in Seq(Proc)
    BY Zenon, <1>5, Foremost
  <2>2. ~ Listed(btps_cv, p)
    BY Zenon, <1>1, ListedWhere
  <2>3. /\ wakeup'[btps_cv] \in {Tail(s), Append(Tail(s), p)}
        /\ toWake'[p] = Range(Tail(s))
        /\ \A q \in Proc \ {p} : \A x \in toWake[q] : x # Head(s) => x \in toWake'[q]
    <3>1. /\ wakeup' = [wakeup EXCEPT ![btps_cv] =
                            IF NeedsSentinel(Tail(s)) THEN Append(Tail(s), p) ELSE Tail(s)]
          /\ toWake' = [q \in Proc |->
                            IF q = p THEN Range(Tail(s))
                            ELSE IF cv[q] = btps_cv THEN toWake[q] \ {Head(s)}
                            ELSE toWake[q]]
      BY Zenon, <1>0, <1>5 DEF PlaceSentinel
    <3>2. wakeup'[btps_cv] = IF NeedsSentinel(Tail(s)) THEN Append(Tail(s), p) ELSE Tail(s)
      BY Zenon, <3>1, Typed
    <3>3. wakeup'[btps_cv] \in {Tail(s), Append(Tail(s), p)}
      BY Zenon, <3>2
    <3>4. toWake'[p] = Range(Tail(s))
      BY Zenon, <3>1
    <3>5. \A q \in Proc \ {p} : \A x \in toWake[q] : x # Head(s) => x \in toWake'[q]
      BY Zenon, <3>1
    <3> QED
      BY <3>3, <3>4, <3>5
  <2>4. toWake[p] = {}
    BY Zenon, <1>2, NoSentinelYet
  <2>5. \A x : Listed(btps_cv, x)' => x \in Range(Tail(s)) \/ x = p
    <3>1. \A y \in Range(Append(Tail(s), p)) : y \in Range(Tail(s)) \/ y = p
      <4>1. PICK t \in Seq(Proc) : t = Tail(s)
        BY Zenon, <2>1
      <4>2. \A y \in Range(Append(t, p)) : y \in Range(t) \/ y = p
        BY Zenon, Appending
      <4> QED
        BY Zenon, <4>1, <4>2
    <3> QED
      BY Zenon, <2>3, <3>1 DEF Listed, btps_cv
  <2>6. \A x \in Proc : Queued(x)' => Queued(x) /\ x \in Range(Tail(s)) /\ x # Head(s)
    BY Zenon, <1>1, <1>2, <2>1, <2>5 DEF Queued
  <2> QED
    BY Zenon, <1>1, <1>2, <2>3, <2>4, <2>6 DEF Effect
<1> QED
  BY Zenon, <1>3, <1>4, <1>5

\* All of condition_variable.c.
LEMMA EffectOfStep ==
    ASSUME ListInv, NEW p \in Proc, Placement(p), CVStep(p) \/ OtherSetLatch(p)
    PROVE  Effect(p) /\ Moves(p)
<1>1. ASSUME ConditionVariableCancelSleep(p) PROVE Effect(p) /\ Moves(p)
  <2>1. at[p] = "cancel" /\ CancelSleep(p, "out")
    BY Zenon, <1>1 DEF ConditionVariableCancelSleep
  <2>2. at[p] # "broadcast"
    BY SMTT(40), Z3T(40), <2>1
  <2> QED
    BY Zenon, <2>1, <2>2, EffectCancel
<1>2. ASSUME StartBroadcast(p) PROVE Effect(p) /\ Moves(p)
  <2>1. at[p] = "broadcast" /\ CancelSleep(p, "sentinel")
    BY Zenon, <1>2 DEF StartBroadcast
  <2>2. at[p] # "cancel"
    BY SMTT(40), Z3T(40), <2>1
  <2> QED
    BY Zenon, <2>1, <2>2, EffectCancel
<1> QED
  BY Zenon, <1>1, <1>2, EffectSleep, EffectSignal, EffectSentinel
     DEF CVStep, ConditionVariableSignal, ConditionVariableBroadcast

\* A step in condition_variable.c leaves whoever waits to somebody.
LEMMA WakeStep ==
    ASSUME IInv, ListInv, WakeInv, NEW p \in Proc, CVStep(p) \/ OtherSetLatch(p),
           UNCHANGED <<btps, locals, taken>>
    PROVE  WakeInv'
<1>0. /\ (\A q \in Proc : Placement(q)) /\ Seizing /\ Finished /\ Unfinished
  BY Zenon DEF WakeInv
<1>2. Effect(p) /\ Moves(p)
  BY Zenon, <1>0, EffectOfStep
<1>3. /\ pc' = pc /\ btps_pageStatus' = btps_pageStatus
      /\ arrayKeyCount' = arrayKeyCount /\ btps_arrayKeyCount' = btps_arrayKeyCount
  BY Zenon DEF btps, locals
<1>4. \A x \in Proc : Over(x)' <=> Over(x)
  BY Zenon, <1>3 DEF Over, KeysPassed
<1>5. \A q \in Proc : Placement(q)'
  <2> SUFFICES ASSUME NEW q \in Proc PROVE Placement(q)'
    BY Zenon
  <2>1. Placement(q) /\ cv' = cv /\ pc'[q] = pc[q]
    BY Zenon, <1>0, <1>2, <1>3 DEF Effect
  <2>2. CASE q # p
    <3>1. at'[q] = at[q]
      BY Zenon, <1>2, <2>2 DEF Effect
    <3>2. cv_sleep_target'[q] = cv_sleep_target[q] /\ have_sentinel'[q] = have_sentinel[q]
      BY Zenon, <1>2, <2>2 DEF Moves
    <3> QED
      BY Zenon, <2>1, <3>1, <3>2 DEF Placement, btps_cv
  <2>3. CASE q = p
    <3>1. /\ cv'[p] = btps_cv /\ pc'[p] = pc[p] /\ btps_cv' = btps_cv
      BY Zenon, <2>1, <2>3 DEF Placement, btps_cv
    <3>2. Placement(p)
      BY <2>1, <2>3
    <3>3. Placement(p)'
      BY SMTT(40), Z3T(40), <1>2, <3>1, <3>2 DEF Placement, Moves
    <3> QED
      BY Zenon, <2>3, <3>3
  <2> QED
    BY <2>2, <2>3
<1>6. Seizing'
  BY Zenon, <1>0, <1>3 DEF Seizing
<1>7. Finished'
  <2> SUFFICES ASSUME NEW x \in Proc, Queued(x)', Over(x)' PROVE Covered(x)'
    BY Zenon DEF Finished
  <2>1. Queued(x) /\ Over(x)
    BY Zenon, <1>2, <1>4 DEF Effect
  <2>2. PICK q \in Proc : at[q] \in {"broadcast", "sentinel"} \/ x \in toWake[q]
    BY Zenon, <1>0, <2>1 DEF Finished, Covered
  <2>3. at'[q] \in {"broadcast", "sentinel"} \/ x \in toWake'[q]
    BY Zenon, <1>2, <2>2 DEF Effect
  <2> QED
    BY Zenon, <2>3 DEF Covered
<1>8. Unfinished'
  <2> SUFFICES ASSUME NEW x \in Proc, Queued(x)', ~ Over(x)', btps_pageStatus # "advancing"
               PROVE  \E q \in Proc : Waker(q)'
    BY Zenon, <1>3 DEF Unfinished
  <2>1. Queued(x) /\ ~ Over(x)
    BY Zenon, <1>2, <1>4 DEF Effect
  <2>2. PICK q \in Proc : Waker(q)
    BY Zenon, <1>0, <2>1 DEF Unfinished
  <2>3. ASSUME NEW r \in Proc, pc[r] \in {"first", "seize", "advance"}, ~ Queued(r)'
        PROVE  Waker(r)'
    BY Zenon, <1>3, <2>3 DEF Waker
  <2>4. CASE at[q] = "signal" /\ q # p
    BY Zenon, <1>2, <2>4 DEF Waker, Effect
  <2>5. CASE at[q] = "signal" /\ q = p
    <3>1. PICK r \in Proc : Listed(btps_cv, r) /\ ~ Listed(btps_cv, r)'
      BY Zenon, <1>2, <2>1, <2>5 DEF Effect, Queued
    <3>2. pc[r] \in {"seize", "seized", "advance"}
      BY Zenon, <1>0, <3>1, ListedWhere
    <3>3. pc[r] # "seized"
      BY Zenon DEF IInv, Holder
    <3> QED
      BY Zenon, <2>3, <3>1, <3>2, <3>3 DEF Queued
  <2>6. CASE at[q] # "signal"
    BY Zenon, <1>2, <2>2, <2>3, <2>6 DEF Waker, Effect
  <2> QED
    BY <2>4, <2>5, <2>6
<1> QED
  BY Zenon, <1>5, <1>6, <1>7, <1>8 DEF WakeInv

\* The scan goes on, and calls a function of condition_variable.c or none.
Calls(p) ==
    /\ UNCHANGED <<wakeup, cv_sleep_target, toWake, have_sentinel, cv>>
    /\ at[p] = "out" /\ cv[p] = btps_cv /\ cv_sleep_target[p] \in {btps_cv, NULL}
    /\ ~ have_sentinel[p]
    /\ \A q \in Proc \ {p} : at'[q] = at[q]

\* Where no function of condition_variable.c is entered.
LEMMA CallsNothing ==
    ASSUME ListInv, WakeInv, NEW p \in Proc, at[p] = "out", UNCHANGED cvVars
    PROVE  Calls(p) /\ at'[p] = "out"
<1>1. ~ have_sentinel[p]
  BY Zenon, NoSentinelYet
<1> QED
  BY Zenon, <1>1 DEF cvVars, Calls, WakeInv, Placement

\* Where one is entered.
LEMMA CallsOne ==
    ASSUME ListInv, WakeInv, NEW p \in Proc, NEW f \in {"cancel", "signal", "broadcast"},
           Call(p, f, btps_cv)
    PROVE  Calls(p) /\ at'[p] = f
<1>0. Placement(p) /\ btps_cv \in CV
  BY Zenon, Typed DEF WakeInv
<1>2. at[p] = "out" /\ ~ have_sentinel[p]
  BY Zenon, <1>0, NoSentinelYet DEF Call
<1>3. cv' = cv
  <2>1. cv' = [cv EXCEPT ![p] = btps_cv] /\ cv \in [Proc -> CV] /\ cv[p] = btps_cv
    BY Zenon, <1>0, Typed DEF Call, Placement
  <2> QED
    BY SMTT(40), Z3T(40), <2>1
<1>4. at'[p] = f /\ \A q \in Proc \ {p} : at'[q] = at[q]
  BY Zenon, <1>0, Typed DEF Call, At
<1> QED
  BY Zenon, <1>0, <1>2, <1>3, <1>4 DEF Calls, Call, Placement

\* Then nobody else is queued or left, and somebody is left to wake whoever waits.
LEMMA ScanKeeps ==
    ASSUME ListInv, WakeInv, NEW p \in Proc, Calls(p),
           \A q \in Proc \ {p} : pc'[q] = pc[q],
           at'[p] \notin {"wait", "check"}, Placement(p)', Seizing',
           \A x \in Proc \ {p} : Queued(x) /\ Over(x)' => Over(x) \/ at'[p] = "broadcast",
           \A x \in Proc \ {p} : Queued(x) /\ ~ Over(x)' =>
               \/ btps_pageStatus' = "advancing"
               \/ at'[p] = "signal" \/ pc'[p] \in {"first", "seize", "advance"}
               \/ ~ Over(x) /\ btps_pageStatus # "advancing" /\ ~ Waker(p)
    PROVE  WakeInv'
<1>1. \A x \in Proc : Queued(x)' => Queued(x) /\ x # p
  BY Zenon DEF Calls, Queued, Listed
<1>2. \A q \in Proc : Placement(q)'
  BY Zenon DEF WakeInv, Placement, Calls
<1>3. Finished'
  <2> SUFFICES ASSUME NEW x \in Proc, Queued(x)', Over(x)' PROVE Covered(x)'
    BY Zenon DEF Finished
  <2>1. Queued(x) /\ x # p
    BY Zenon, <1>1
  <2>2. CASE at'[p] = "broadcast"
    BY Zenon, <2>2 DEF Covered
  <2>3. CASE Over(x)
    <3>1. PICK q \in Proc : at[q] \in {"broadcast", "sentinel"} \/ x \in toWake[q]
      BY Zenon, <2>1, <2>3 DEF WakeInv, Finished, Covered
    <3>2. q # p \/ x \in toWake[q]
      BY Zenon, <3>1 DEF Calls
    <3> QED
      BY Zenon, <3>1, <3>2 DEF Covered, Calls
  <2> QED
    BY Zenon, <2>1, <2>2, <2>3
<1>4. Unfinished'
  <2> SUFFICES ASSUME NEW x \in Proc, Queued(x)', ~ Over(x)', btps_pageStatus' # "advancing"
               PROVE  \E q \in Proc : Waker(q)'
    BY Zenon DEF Unfinished
  <2>1. Queued(x) /\ x # p /\ ~ Queued(p)'
    BY Zenon, <1>1
  <2>2. CASE at'[p] = "signal" \/ pc'[p] \in {"first", "seize", "advance"}
    BY Zenon, <2>1, <2>2 DEF Waker
  <2>3. CASE ~ Over(x) /\ btps_pageStatus # "advancing" /\ ~ Waker(p)
    <3>1. PICK q \in Proc : Waker(q)
      BY Zenon, <2>1, <2>3 DEF WakeInv, Unfinished
    <3>2. q # p
      BY Zenon, <2>3, <3>1
    <3> QED
      BY Zenon, <1>1, <3>1, <3>2 DEF Waker, Calls
  <2> QED
    BY Zenon, <2>1, <2>2, <2>3
<1> QED
  BY Zenon, <1>2, <1>3, <1>4 DEF WakeInv

\* A process that is not in _bt_parallel_seize has prepared no sleep, ...
LEMMA Unprepared ==
    ASSUME ListInv, WakeInv, NEW p \in Proc, pc[p] \notin {"seize", "seized", "advance", "read"}
    PROVE  at[p] = "out" /\ cv_sleep_target[p] = NULL
<1>1. Placement(p) /\ at[p] \in Place
  BY Zenon, Typed DEF WakeInv
<1> QED
  BY SMTT(40), Z3T(40), <1>1 DEF Placement, Place

\* ... nor one that has returned from there.
LEMMA Returned ==
    ASSUME ListInv, WakeInv, NEW p \in Proc, at[p] = "out", pc[p] # "seize"
    PROVE  cv_sleep_target[p] = NULL
<1>1. Placement(p)
  BY Zenon DEF WakeInv
<1> QED
  BY SMTT(40), Z3T(40), <1>1 DEF Placement

\* Whoever is queued looks for a key set that can be found, and is not past the last one.
LEMMA QueuedWhere ==
    ASSUME IInv, ListInv, WakeInv, NEW x \in Proc, Queued(x)
    PROVE  /\ pc[x] = "seize" /\ at[x] # "out"
           /\ arrayKeyCount[x] + 1 <= Len(KeySets)
<1>1. pc[x] = "seize" /\ at[x] # "out"
  BY Zenon DEF WakeInv, Placement, Queued
<1>2. arrayKeyCount[x] + 1 \in DOMAIN KeySets
  BY Zenon, <1>1 DEF IInv, Working
<1> QED
  BY SMTT(40), Z3T(40), <1>1, <1>2, KeySetsDomain

\* _bt_parallel_done: it wakes everybody if it ends the scan.
LEMMA WakeDone ==
    ASSUME IInv, ListInv, WakeInv, NEW p \in Proc, at[p] = "out", pc[p] \in {"first", "seized"},
           _bt_parallel_done(p)
    PROVE  WakeInv'
<1>1. /\ pc'[p] = "advance" /\ \A q \in Proc \ {p} : pc'[q] = pc[q]
      /\ arrayKeyCount' = arrayKeyCount /\ btps_arrayKeyCount' = btps_arrayKeyCount
  BY Zenon DEF _bt_parallel_done, Goto, IInv, Scalars
<1>2. cv_sleep_target[p] = NULL
  <2>1. pc[p] # "seize"
    BY SMTT(40), Z3T(40)
  <2> QED
    BY Zenon, <2>1, Returned
<1>3. CASE CanEnd(p)
  <2>1. Call(p, "broadcast", btps_cv) /\ btps_pageStatus' = "done"
    BY Zenon, <1>3 DEF _bt_parallel_done
  <2>2. Calls(p) /\ at'[p] = "broadcast"
    BY Zenon, <2>1, CallsOne
  <2>3. Placement(p)'
    BY SMTT(40), Z3T(40), <1>1, <1>2, <2>2 DEF Placement, Calls
  <2>4. Seizing'
    BY Zenon, <2>1 DEF Seizing
  <2>5. \A x \in Proc : Over(x)'
    BY Zenon, <2>1 DEF Over
  <2>6. at'[p] \notin {"wait", "check"}
    BY SMTT(40), Z3T(40), <2>2
  <2> QED
    BY Zenon, <1>1, <2>2, <2>3, <2>4, <2>5, <2>6, ScanKeeps
<1>4. CASE ~ CanEnd(p)
  <2>1. UNCHANGED cvVars /\ btps_pageStatus' = btps_pageStatus
    BY Zenon, <1>4 DEF _bt_parallel_done
  <2>2. Calls(p) /\ at'[p] = "out"
    BY Zenon, <2>1, CallsNothing
  <2>3. Placement(p)'
    BY SMTT(40), Z3T(40), <1>1, <1>2, <2>2 DEF Placement, Calls
  <2>4. pc[p] # "seized"
    <3>1. ASSUME pc[p] = "seized" PROVE FALSE
      <4>1. btps_pageStatus = "advancing" /\ arrayKeyCount[p] = btps_arrayKeyCount
            /\ btps_arrayKeyCount \in Nat
        BY Zenon, <3>1 DEF IInv, Holder, Current, Scalars
      <4> QED
        BY SMTT(40), Z3T(40), <1>4, <4>1 DEF CanEnd
    <3> QED
      BY Zenon, <3>1
  <2>5. Seizing'
    BY Zenon, <1>1, <2>1, <2>4 DEF WakeInv, Seizing
  <2>6. \A x \in Proc : Over(x)' <=> Over(x)
    BY Zenon, <1>1, <2>1 DEF Over, KeysPassed
  <2>7. at'[p] \notin {"wait", "check"}
    BY SMTT(40), Z3T(40), <2>2
  <2> QED
    BY Zenon, <1>1, <2>2, <2>3, <2>5, <2>6, <2>7, ScanKeeps
<1> QED
  BY <1>3, <1>4

\* _bt_first and _bt_steppage go to _bt_parallel_seize, where they look at the scan.
LEMMA WakeFirst ==
    ASSUME IInv, ListInv, WakeInv, NEW p \in Proc, _bt_first(p) \/ _bt_steppage(p)
    PROVE  WakeInv'
<1>0. pc[p] \in {"first", "have"}
  BY Zenon DEF _bt_first, _bt_steppage
<1>1. at[p] = "out" /\ cv_sleep_target[p] = NULL
  <2>1. pc[p] \notin {"seize", "seized", "advance", "read"}
    BY SMTT(40), Z3T(40), <1>0
  <2> QED
    BY Zenon, <2>1, Unprepared
<1>2. CASE pc[p] = "first" /\ _bt_parallel_done(p)
  BY Zenon, <1>1, <1>2, WakeDone
<1>3. CASE Goto(p, "seize") /\ UNCHANGED <<btps, arrayKeyCount, cvVars>>
  <2>1. /\ pc'[p] = "seize" /\ (\A q \in Proc \ {p} : pc'[q] = pc[q])
        /\ arrayKeyCount' = arrayKeyCount /\ btps_arrayKeyCount' = btps_arrayKeyCount
        /\ btps_pageStatus' = btps_pageStatus
    BY Zenon, <1>3 DEF Goto, IInv, Scalars, btps
  <2>2. Calls(p) /\ at'[p] = "out"
    BY Zenon, <1>1, <1>3, CallsNothing
  <2>3. Placement(p)'
    BY SMTT(40), Z3T(40), <1>1, <2>1, <2>2 DEF Placement, Calls
  <2>4. pc[p] # "seized"
    BY SMTT(40), Z3T(40), <1>0
  <2>5. Seizing'
    BY Zenon, <2>1, <2>4 DEF WakeInv, Seizing
  <2>6. \A x \in Proc : Over(x)' <=> Over(x)
    BY Zenon, <2>1 DEF Over, KeysPassed
  <2>7. at'[p] \notin {"wait", "check"}
    BY SMTT(40), Z3T(40), <2>2
  <2> QED
    BY Zenon, <2>1, <2>2, <2>3, <2>5, <2>6, <2>7, ScanKeeps
<1> QED
  BY Zenon, <1>2, <1>3 DEF _bt_first, _bt_steppage

\* _bt_parallel_seize: whoever finds the scan taken queues while its holder is about.
LEMMA WakeSeize ==
    ASSUME IInv, ListInv, WakeInv, NEW p \in Proc, _bt_parallel_seize(p)
    PROVE  WakeInv'
<1>0. /\ pc[p] = "seize" /\ at[p] = "out" /\ Placement(p) /\ pc[p] # "seized"
      /\ pc \in [Proc -> Location]
  BY Zenon DEF _bt_parallel_seize, WakeInv, IInv, Scalars
<1>1. arrayKeyCount' = arrayKeyCount /\ btps_arrayKeyCount' = btps_arrayKeyCount
  BY Zenon DEF _bt_parallel_seize
<1>2. ASSUME Goto(p, "advance"), Call(p, "cancel", btps_cv), btps_pageStatus' = btps_pageStatus
      PROVE  WakeInv'
  <2>1. pc'[p] = "advance" /\ \A q \in Proc \ {p} : pc'[q] = pc[q]
    BY Zenon, <1>0, <1>2 DEF Goto
  <2>2. Calls(p) /\ at'[p] = "cancel"
    BY Zenon, <1>2, CallsOne
  <2>3. Placement(p)'
    BY SMTT(40), Z3T(40), <2>1, <2>2 DEF Placement, Calls
  <2>4. Seizing'
    BY Zenon, <1>0, <1>2, <2>1 DEF WakeInv, Seizing
  <2>5. \A x \in Proc : Over(x)' <=> Over(x)
    BY Zenon, <1>1, <1>2 DEF Over, KeysPassed
  <2>6. at'[p] \notin {"wait", "check"}
    BY SMTT(40), Z3T(40), <2>2
  <2> QED
    BY Zenon, <2>1, <2>2, <2>3, <2>4, <2>5, <2>6, ScanKeeps
<1>3. ASSUME Goto(p, "seized"), Call(p, "cancel", btps_cv), btps_pageStatus' = "advancing"
      PROVE  WakeInv'
  <2>1. pc'[p] = "seized" /\ \A q \in Proc \ {p} : pc'[q] = pc[q]
    BY Zenon, <1>0, <1>3 DEF Goto
  <2>2. Calls(p) /\ at'[p] = "cancel"
    BY Zenon, <1>3, CallsOne
  <2>3. Placement(p)'
    BY SMTT(40), Z3T(40), <2>1, <2>2 DEF Placement, Calls
  <2>4. Seizing'
    BY Zenon, <2>1 DEF Seizing
  <2>5. \A x \in Proc : Over(x)' => Over(x)
    BY Zenon, <1>1, <1>3 DEF Over, KeysPassed
  <2>6. at'[p] \notin {"wait", "check"}
    BY SMTT(40), Z3T(40), <2>2
  <2> QED
    BY Zenon, <1>3, <2>1, <2>2, <2>3, <2>4, <2>5, <2>6, ScanKeeps
<1>4. ASSUME ~ KeysPassed(p), btps_pageStatus = "advancing", CallSleep(p, btps_cv),
             pc' = pc, btps_pageStatus' = btps_pageStatus
      PROVE  WakeInv'
  <2>0. cv_sleep_target[p] \in {btps_cv, NULL} /\ btps_cv \in CV /\ cv[p] = btps_cv
    BY Zenon, <1>0, Typed DEF Placement, WakeInv
  <2>2. UNCHANGED <<wakeup, cv_sleep_target, have_sentinel, toWake>>
    BY Zenon, <1>4 DEF CallSleep, Call
  <2>3. at'[p] \in {"wait", "push"} /\ \A q \in Proc \ {p} : at'[q] = at[q]
    <3>1. /\ at' = [at EXCEPT ![p] = CASE cv_sleep_target[p] = btps_cv -> "wait"
                                       [] cv_sleep_target[p] = NULL -> "push"
                                       [] OTHER -> "prepare"]
          /\ at \in [Proc -> Place]
      BY Zenon, <1>4, <2>0, Typed DEF CallSleep, Call, At
    <3> QED
      BY SMTT(40), Z3T(40), <2>0, <3>1
  <2>4. cv' = cv
    <3>1. cv' = [cv EXCEPT ![p] = btps_cv] /\ cv \in [Proc -> CV]
      BY Zenon, <1>4, <2>0, Typed DEF CallSleep, Call
    <3> QED
      BY SMTT(40), Z3T(40), <2>0, <3>1
  <2>5. Placement(p)'
    <3>1. ~ have_sentinel[p]
      BY Zenon, <1>0, <2>0, NoSentinelYet
    <3>2. pc'[p] = "seize" /\ cv'[p] = btps_cv /\ cv_sleep_target'[p] \in {btps_cv, NULL}
          /\ ~ have_sentinel'[p] /\ btps_cv' = btps_cv
      BY Zenon, <1>0, <1>4, <2>0, <2>2, <2>4, <3>1 DEF btps_cv
    <3> QED
      BY SMTT(40), Z3T(40), <2>3, <3>2 DEF Placement
  <2>6. \A q \in Proc : Placement(q)'
    BY Zenon, <1>4, <2>2, <2>3, <2>4, <2>5 DEF WakeInv, Placement
  <2>7. Seizing'
    BY Zenon, <1>4 DEF WakeInv, Seizing
  <2>8. Finished'
    <3> SUFFICES ASSUME NEW x \in Proc, Queued(x)', Over(x)' PROVE Covered(x)'
      BY Zenon DEF Finished
    <3>1. Over(x) /\ x # p
      BY Zenon, <1>1, <1>4 DEF Over, KeysPassed
    <3>2. Queued(x)
      BY Zenon, <2>2, <2>3, <3>1 DEF Queued, Listed
    <3>3. PICK q \in Proc : at[q] \in {"broadcast", "sentinel"} \/ x \in toWake[q]
      BY Zenon, <3>1, <3>2 DEF WakeInv, Finished, Covered
    <3>4. q # p \/ x \in toWake[q]
      BY Zenon, <1>0, <3>3
    <3> QED
      BY Zenon, <2>2, <2>3, <3>3, <3>4 DEF Covered
  <2>9. Unfinished'
    BY Zenon, <1>4 DEF Unfinished
  <2> QED
    BY Zenon, <2>6, <2>7, <2>8, <2>9 DEF WakeInv
<1> QED
  BY Zenon, <1>2, <1>3, <1>4 DEF _bt_parallel_seize

\* Whoever has seized the scan ends it or releases it, and then wakes the next.
LEMMA WakeSeized ==
    ASSUME IInv, ListInv, WakeInv, NEW p \in Proc, Seized(p)
    PROVE  WakeInv'
<1>0. /\ pc[p] = "seized" /\ at[p] = "out" /\ pc \in [Proc -> Location]
  BY Zenon DEF Seized, IInv, Scalars
<1>1. ASSUME NEW page, _bt_parallel_release(p, page)
      PROVE  WakeInv'
  <2>1. /\ pc'[p] = "read" /\ (\A q \in Proc \ {p} : pc'[q] = pc[q])
        /\ btps_pageStatus' = "idle" /\ Call(p, "signal", btps_cv)
        /\ arrayKeyCount' = arrayKeyCount /\ btps_arrayKeyCount' = btps_arrayKeyCount
    BY Zenon, <1>0, <1>1 DEF _bt_parallel_release, Goto, WakeNext
  <2>2. Calls(p) /\ at'[p] = "signal"
    BY Zenon, <2>1, CallsOne
  <2>3. Placement(p)'
    <3>1. pc[p] # "seize"
      BY Zenon, <1>0
    <3>2. cv_sleep_target[p] = NULL
      BY Zenon, <1>0, <3>1, Returned
    <3> QED
      BY SMTT(40), Z3T(40), <2>1, <2>2, <3>2 DEF Placement, Calls
  <2>4. Seizing'
    BY Zenon, <2>1 DEF Seizing
  <2>5. \A x \in Proc : Over(x)' => Over(x)
    BY Zenon, <2>1 DEF Over, KeysPassed
  <2>6. at'[p] \notin {"wait", "check"}
    BY SMTT(40), Z3T(40), <2>2
  <2> QED
    BY Zenon, <2>1, <2>2, <2>3, <2>4, <2>5, <2>6, ScanKeeps
<1> QED
  BY Zenon, <1>0, <1>1, WakeDone DEF Seized

\* _bt_readpage is not what anybody waits for.
LEMMA WakeReadpage ==
    ASSUME IInv, ListInv, WakeInv, NEW p \in Proc, _bt_readpage(p)
    PROVE  WakeInv'
<1>0. /\ pc[p] = "read" /\ at[p] = "out" /\ pc \in [Proc -> Location]
  BY Zenon DEF _bt_readpage, IInv, Scalars
<1>1. /\ pc'[p] \in {"have", "seize"} /\ (\A q \in Proc \ {p} : pc'[q] = pc[q])
      /\ btps_pageStatus' = btps_pageStatus
      /\ arrayKeyCount' = arrayKeyCount /\ btps_arrayKeyCount' = btps_arrayKeyCount
      /\ UNCHANGED cvVars
  BY Zenon, <1>0 DEF _bt_readpage, Goto, btps
<1>2. Calls(p) /\ at'[p] = "out"
  BY Zenon, <1>0, <1>1, CallsNothing
<1>3. pc[p] # "seize" /\ pc[p] # "seized" /\ pc[p] \notin {"first", "seize", "advance"}
      /\ at[p] # "signal" /\ at'[p] \notin {"wait", "check"}
  BY SMTT(40), Z3T(40), <1>0, <1>2
<1>4. cv_sleep_target[p] = NULL
  BY Zenon, <1>0, <1>3, Returned
<1>5. Placement(p)'
  BY SMTT(40), Z3T(40), <1>1, <1>2, <1>4 DEF Placement, Calls
<1>6. Seizing'
  BY Zenon, <1>1, <1>3 DEF WakeInv, Seizing
<1>7. \A x \in Proc : Over(x)' <=> Over(x)
  BY Zenon, <1>1 DEF Over, KeysPassed
<1>8. ~ Waker(p)
  BY Zenon, <1>3 DEF Waker
<1> QED
  BY Zenon, <1>1, <1>2, <1>3, <1>5, <1>6, <1>7, <1>8, ScanKeeps

\* Whoever starts the next key set leaves nobody behind: those who wait for the one that
\* is done are being woken, and it cannot be the last if somebody waits for another.
LEMMA WakeAdvance ==
    ASSUME IInv, ListInv, WakeInv, NEW p \in Proc, _bt_parallel_advance_array_keys(p)
    PROVE  WakeInv'
<1>0. /\ pc[p] = "advance" /\ at[p] = "out" /\ pc \in [Proc -> Location]
      /\ arrayKeyCount \in [Proc -> Nat] /\ btps_arrayKeyCount \in Nat
      /\ \A q \in Proc : arrayKeyCount[q] <= btps_arrayKeyCount
      /\ arrayKeyCount[p] < btps_arrayKeyCount \/ btps_pageStatus = "done"
  BY Zenon DEF _bt_parallel_advance_array_keys, IInv, Scalars, KeysInStep
<1>1. /\ pc'[p] = (IF arrayKeyCount[p] + 1 < Len(KeySets) THEN "first" ELSE "end")
      /\ \A q \in Proc \ {p} : pc'[q] = pc[q]
      /\ \A q \in Proc \ {p} : arrayKeyCount'[q] = arrayKeyCount[q]
      /\ UNCHANGED cvVars
  BY Zenon, <1>0 DEF _bt_parallel_advance_array_keys, Goto
<1>2. Calls(p) /\ at'[p] = "out"
  BY Zenon, <1>0, <1>1, CallsNothing
<1>3. pc[p] # "seize" /\ pc[p] # "seized" /\ at'[p] \notin {"wait", "check"}
      /\ pc'[p] \in {"first", "end"}
  BY SMTT(40), Z3T(40), <1>0, <1>1, <1>2
<1>4. cv_sleep_target[p] = NULL
  BY Zenon, <1>0, <1>3, Returned
<1>5. Placement(p)'
  BY SMTT(40), Z3T(40), <1>2, <1>3, <1>4 DEF Placement, Calls
<1>6. CASE btps_pageStatus = "done"
  <2>1. /\ btps_pageStatus' = "not_initialized"
        /\ btps_arrayKeyCount' = btps_arrayKeyCount + 1
    BY Zenon, <1>6 DEF _bt_parallel_advance_array_keys
  <2>2. Seizing'
    BY Zenon, <2>1 DEF Seizing
  <2>3. \A x \in Proc \ {p} : Over(x)' /\ Over(x)
    <3> SUFFICES ASSUME NEW x \in Proc, x # p PROVE Over(x)' /\ Over(x)
      BY Zenon
    <3>1. /\ arrayKeyCount'[x] = arrayKeyCount[x] /\ arrayKeyCount[x] <= btps_arrayKeyCount
          /\ arrayKeyCount[x] \in Nat
      BY Zenon, <1>0, <1>1
    <3> QED
      BY SMTT(40), Z3T(40), <1>0, <1>6, <2>1, <3>1 DEF Over, KeysPassed
  <2> QED
    BY Zenon, <1>1, <1>2, <1>3, <1>5, <2>2, <2>3, ScanKeeps
<1>7. CASE btps_pageStatus # "done"
  <2>1. btps_pageStatus' = btps_pageStatus /\ btps_arrayKeyCount' = btps_arrayKeyCount
    BY Zenon, <1>7 DEF _bt_parallel_advance_array_keys, btps
  <2>2. Seizing'
    BY Zenon, <1>1, <1>3, <2>1 DEF WakeInv, Seizing
  <2>3. \A x \in Proc \ {p} : Over(x)' <=> Over(x)
    BY Zenon, <1>1, <2>1 DEF Over, KeysPassed
  <2>4. ASSUME NEW x \in Proc \ {p}, Queued(x), ~ Over(x) PROVE pc'[p] = "first"
    <3>1. arrayKeyCount[x] + 1 <= Len(KeySets) /\ Len(KeySets) \in Nat
      BY Zenon, <2>4, QueuedWhere, KeySetsDomain
    <3>2. ~ (arrayKeyCount[x] < btps_arrayKeyCount) /\ arrayKeyCount[x] \in Nat
      BY Zenon, <1>0, <2>4 DEF Over, KeysPassed
    <3>3. arrayKeyCount[p] < btps_arrayKeyCount /\ arrayKeyCount[p] \in Nat
      BY Zenon, <1>0, <1>7
    <3>4. arrayKeyCount[p] + 1 < Len(KeySets)
      BY SMTT(40), Z3T(40), <1>0, <3>1, <3>2, <3>3
    <3> QED
      BY Zenon, <1>1, <3>4
  <2> QED
    BY Zenon, <1>1, <1>2, <1>3, <1>5, <2>2, <2>3, <2>4, ScanKeeps
<1> QED
  BY <1>6, <1>7

\* Nobody waits when the scan starts again.
LEMMA WakeRescan ==
    ASSUME IInv, ListInv, WakeInv, btparallelrescan
    PROVE  WakeInv'
<1>1. \A q \in Proc : pc[q] = "end" /\ pc'[q] = "first"
  BY Zenon DEF btparallelrescan
<1>2. UNCHANGED cvVars /\ btps_pageStatus' = "not_initialized"
  BY Zenon DEF btparallelrescan
<1>3. \A q \in Proc : at[q] = "out" /\ cv_sleep_target[q] = NULL
  <2> SUFFICES ASSUME NEW q \in Proc PROVE at[q] = "out" /\ cv_sleep_target[q] = NULL
    BY Zenon
  <2>1. pc[q] \notin {"seize", "seized", "advance", "read"}
    BY SMTT(40), Z3T(40), <1>1
  <2> QED
    BY Zenon, <2>1, Unprepared
<1>4. Seizing'
  BY Zenon, <1>2 DEF Seizing
<1>5. ASSUME NEW q \in Proc PROVE Calls(q) /\ at'[q] = "out" /\ Placement(q)'
  <2>1. Calls(q) /\ at'[q] = "out"
    BY Zenon, <1>2, <1>3, CallsNothing
  <2>2. pc'[q] = "first" /\ cv_sleep_target[q] = NULL
    BY Zenon, <1>1, <1>3
  <2> QED
    BY SMTT(40), Z3T(40), <2>1, <2>2 DEF Placement, Calls
<1>6. \A q \in Proc : ~ Queued(q)'
  BY Zenon, <1>5 DEF Queued
<1> QED
  BY Zenon, <1>4, <1>5, <1>6 DEF WakeInv, Finished, Unfinished

\* Nobody waits at first.
LEMMA WakeInit == Init => WakeInv
<1> SUFFICES ASSUME Init PROVE WakeInv
  OBVIOUS
<1>1. /\ \A p \in Proc : /\ at[p] = "out" /\ cv_sleep_target[p] = NULL /\ ~ have_sentinel[p]
                         /\ cv[p] = btps_cv /\ pc[p] = "first"
      /\ btps_pageStatus = "not_initialized"
  BY Zenon DEF Init, CVInit, btps_cv
<1>2. \A p \in Proc : Placement(p)
  BY Zenon, <1>1 DEF Placement
<1>3. Seizing /\ \A p \in Proc : ~ Queued(p)
  BY Zenon, <1>1 DEF Seizing, Queued
<1> QED
  BY Zenon, <1>2, <1>3 DEF WakeInv, Finished, Unfinished

\* Every step leaves whoever waits to somebody.
LEMMA WakeKept == IInv /\ ListInv /\ WakeInv /\ [Next]_vars => WakeInv'
<1> SUFFICES ASSUME IInv, ListInv, WakeInv, [Next]_vars PROVE WakeInv'
  OBVIOUS
<1>1. CASE UNCHANGED vars
  <2>1. UNCHANGED cvVars /\ UNCHANGED <<btps, locals, taken>>
    BY Zenon, <1>1 DEF vars
  <2>5. \A q \in Proc : /\ Queued(q)' <=> Queued(q)
                        /\ Over(q)' <=> Over(q)
                        /\ Covered(q)' <=> Covered(q)
    BY Zenon, <2>1 DEF cvVars, btps, locals, Queued, Listed, Over, KeysPassed, Covered
  <2>6. \A q \in Proc : (Waker(q)' <=> Waker(q)) /\ Placement(q)'
    BY Zenon, <2>1, <2>5 DEF cvVars, locals, Waker, WakeInv, Placement
  <2>7. Seizing'
    BY Zenon, <2>1 DEF btps, locals, WakeInv, Seizing
  <2>8. Finished' /\ Unfinished'
    BY Zenon, <2>1, <2>5, <2>6 DEF btps, WakeInv, Finished, Unfinished
  <2> QED
    BY Zenon, <2>6, <2>7, <2>8 DEF WakeInv
<1>2. CASE Next
  BY Zenon, <1>2, WakeFirst, WakeSeize, WakeSeized, WakeReadpage, WakeAdvance, WakeStep, WakeRescan
     DEF Next, Step
<1> QED
  BY <1>1, <1>2

\* Whoever sleeps and is not on the list any more is about to be woken.
LEMMA AboutToWake ==
    ASSUME ListInv, WakeInv, NEW p \in Proc, Asleep(p), ~ Listed(btps_cv, p)
    PROVE  \E q \in Proc : pc[q] \notin {"have", "end"} /\ ~ Asleep(q)
<1>1. Placement(p) /\ NULL \notin CV /\ btps_cv \in CV
  BY Zenon, TheCV DEF WakeInv
<1>2. cv_sleep_target[p] = btps_cv /\ at[p] # "check" /\ ~ latch[p]
  BY Zenon, <1>1 DEF ListInv, Placement, Asleep
<1>3. PICK q \in Proc : at[q] = "setlatch"
  BY Zenon, <1>1, <1>2 DEF ListInv
<1>4. Placement(q)
  BY Zenon DEF WakeInv
<1>5. pc[q] \notin {"have", "end"} /\ at[q] # "wait"
  BY SMTT(40), Z3T(40), <1>3, <1>4 DEF Placement
<1> QED
  BY Zenon, <1>5 DEF Asleep

\* So somebody is awake, or about to be, who will release or finish the scan.
LEMMA SomebodyAwake ==
    ASSUME IInv, ListInv, WakeInv
    PROVE  NobodyStranded
<1> SUFFICES ASSUME NEW p \in Proc, Asleep(p)
             PROVE  \E q \in Proc : pc[q] \notin {"have", "end"} /\ ~ Asleep(q)
  BY Zenon DEF NobodyStranded
<1>1. CASE ~ Listed(btps_cv, p)
  BY Zenon, <1>1, AboutToWake
<1>2. CASE Listed(btps_cv, p) /\ Over(p)
  <2>1. Covered(p)
    BY Zenon, <1>2 DEF WakeInv, Finished, Queued, Asleep
  <2>2. PICK q \in Proc : at[q] \in {"broadcast", "sentinel"} \/ p \in toWake[q]
    BY Zenon, <2>1 DEF Covered
  <2>3. Placement(q) /\ (toWake[q] # {} => have_sentinel[q])
    BY Zenon DEF WakeInv, ListInv
  <2>4. at[q] \in {"broadcast", "sentinel"} \/ have_sentinel[q]
    BY Zenon, <2>2, <2>3
  <2>5. pc[q] \notin {"have", "end"} /\ at[q] # "wait"
    BY SMTT(40), Z3T(40), <2>3, <2>4 DEF Placement
  <2> QED
    BY Zenon, <2>5 DEF Asleep
<1>3. CASE Listed(btps_cv, p) /\ ~ Over(p)
  <2>1. btps_pageStatus = "advancing" \/ \E q \in Proc : Waker(q)
    BY Zenon, <1>3 DEF WakeInv, Unfinished, Queued, Asleep
  <2>2. CASE btps_pageStatus = "advancing"
    <3>1. PICK q \in Proc : pc[q] = "seized" /\ Placement(q)
      BY Zenon, <2>2 DEF WakeInv, Seizing
    <3>2. pc[q] \notin {"have", "end"} /\ at[q] # "wait"
      BY SMTT(40), Z3T(40), <3>1 DEF Placement
    <3> QED
      BY Zenon, <3>2 DEF Asleep
  <2>3. ASSUME NEW q \in Proc, Waker(q)
        PROVE  \E r \in Proc : pc[r] \notin {"have", "end"} /\ ~ Asleep(r)
    <3>1. Placement(q)
      BY Zenon DEF WakeInv
    <3>2. pc[q] \notin {"have", "end"}
      BY SMTT(40), Z3T(40), <2>3, <3>1 DEF Waker, Placement
    <3>3. ASSUME Asleep(q) PROVE ~ Listed(btps_cv, q)
      BY SMTT(40), Z3T(40), <2>3, <3>1, <3>3 DEF Waker, Placement, Asleep, Queued
    <3> QED
      BY Zenon, <3>2, <3>3, AboutToWake
  <2> QED
    BY Zenon, <2>1, <2>2, <2>3
<1> QED
  BY <1>1, <1>2, <1>3

\* The scan uses condition_variable.c only through its functions.
LEMMA UsesOfCV ==
    ASSUME [Next]_vars
    PROVE  \/ UNCHANGED cvVars
           \/ \E p \in Proc :
                 \/ CVStep(p) \/ OtherSetLatch(p) \/ CallSleep(p, btps_cv)
                 \/ \E f \in {"cancel", "signal", "broadcast"} : Call(p, f, btps_cv)
<1>1. ASSUME NEW p \in Proc, _bt_parallel_done(p)
      PROVE  Call(p, "broadcast", btps_cv) \/ UNCHANGED cvVars
  BY Zenon, <1>1 DEF _bt_parallel_done
<1>2. ASSUME NEW p \in Proc, _bt_parallel_seize(p)
      PROVE  Call(p, "cancel", btps_cv) \/ CallSleep(p, btps_cv)
  BY Zenon, <1>2 DEF _bt_parallel_seize
<1>3. ASSUME NEW p \in Proc, NEW page, _bt_parallel_release(p, page)
      PROVE  Call(p, "signal", btps_cv)
  BY Zenon, <1>3 DEF _bt_parallel_release, WakeNext
<1>4. ASSUME NEW p \in Proc, _bt_first(p) \/ _bt_steppage(p) \/ Seized(p)
      PROVE  \/ _bt_parallel_done(p) \/ UNCHANGED cvVars
             \/ \E page : _bt_parallel_release(p, page)
  BY Zenon, <1>4 DEF _bt_first, _bt_steppage, Seized
<1>5. ASSUME NEW p \in Proc, _bt_readpage(p) \/ _bt_parallel_advance_array_keys(p)
      PROVE  UNCHANGED cvVars
  BY Zenon, <1>5 DEF _bt_readpage, _bt_parallel_advance_array_keys
<1>6. btparallelrescan \/ UNCHANGED vars => UNCHANGED cvVars
  BY Zenon DEF btparallelrescan, vars
<1> QED
  BY Zenon, <1>1, <1>2, <1>3, <1>4, <1>5, <1>6 DEF Next, Step

-----------------------------------------------------------------------------
\* The proofs of the condition variable, with a barrier at rest.
B == INSTANCE BarrierProofs WITH
         ExceptLast <- {}, MaxPhase <- 0, participants <- 0, arrived <- 0, phase <- 0,
         elected <- 0, static_party <- 0, start_phase <- 0, iElected <- 0, attached <- {},
         returned <- 0

\* What a barrier at rest assumes.
LEMMA BarrierAtRest == B!CVAssumption /\ B!BarrierAssumption
<1>1. B!CVAssumption
  BY Zenon, CVAssumption DEF CVAssumption, B!CVAssumption, IsFiniteSet, B!IsFiniteSet
<1>2. B!BarrierAssumption
  BY DEF B!BarrierAssumption
<1> QED
  BY <1>1, <1>2

\* The functions of B are those of the scan.
LEMMA SameSteps ==
    ASSUME NEW p \in Proc
    PROVE  /\ CVStep(p) => B!CVStep(p)
           /\ OtherSetLatch(p) => B!OtherSetLatch(p)
           /\ \A f, c : Call(p, f, c) => B!Call(p, f, c)
           /\ \A c : CallSleep(p, c) => B!CallSleep(p, c)
<1>1. CVStep(p) => B!CVStep(p)
  BY Zenon DEF CVStep, B!CVStep,
     ConditionVariablePrepareToSleep, B!ConditionVariablePrepareToSleep,
     ConditionVariableSleep, B!ConditionVariableSleep,
     ConditionVariableCancelSleep, B!ConditionVariableCancelSleep,
     ConditionVariableSignal, B!ConditionVariableSignal,
     ConditionVariableBroadcast, B!ConditionVariableBroadcast,
     WaitForLatch, B!WaitForLatch, CheckList, B!CheckList, StillListed, B!StillListed,
     Requeue, B!Requeue, TakeFirst, B!TakeFirst, PopHead, B!PopHead, SetLatch, B!SetLatch,
     StartBroadcast, B!StartBroadcast, PlaceSentinel, B!PlaceSentinel,
     NeedsSentinel, B!NeedsSentinel, BroadcastLoop, B!BroadcastLoop,
     CancelSleep, B!CancelSleep, At, B!At, Delete, B!Delete, Listed, B!Listed,
     Without, B!Without, Range, B!Range, PushTail, B!PushTail
<1>2. OtherSetLatch(p) => B!OtherSetLatch(p)
  BY Zenon DEF OtherSetLatch, B!OtherSetLatch
<1>3. \A f, c : Call(p, f, c) => B!Call(p, f, c)
  BY Zenon DEF Call, B!Call, At, B!At
<1>4. \A c : CallSleep(p, c) => B!CallSleep(p, c)
  BY Zenon DEF CallSleep, B!CallSleep, Call, B!Call, At, B!At
<1> QED
  BY <1>1, <1>2, <1>3, <1>4

\* What the scan relies on is part of what is proved there.
LEMMA ListsInOrder ==
    ASSUME B!CVInv
    PROVE  ListInv
<1>1. /\ wakeup \in [CV -> Seq(Proc)] /\ at \in [Proc -> Place] /\ cv \in [Proc -> CV]
      /\ cv_sleep_target \in [Proc -> CV \cup {NULL}]
      /\ have_sentinel \in [Proc -> BOOLEAN] /\ toWake \in [Proc -> SUBSET Proc]
      /\ IsList(wakeup[btps_cv])
  BY Zenon, TheCV DEF B!CVInv, B!CVTyped, Place, B!Place, IsList, B!IsList
<1>2. ASSUME NEW p \in Proc
      PROVE  /\ Listed(btps_cv, p) => cv_sleep_target[p] = btps_cv \/ have_sentinel[p]
             /\ at[p] \in {"push", "sentinel"} => cv_sleep_target[p] = NULL
             /\ have_sentinel[p] => at[p] \in {"setlatch", "loop"}
             /\ toWake[p] # {} => have_sentinel[p]
             /\ at[p] = "wait" => cv_sleep_target[p] = cv[p]
             /\ cv_sleep_target[p] # NULL /\ at[p] # "check" =>
                    \/ latch[p] \/ Listed(cv_sleep_target[p], p)
                    \/ \E q \in Proc : at[q] = "setlatch"
  <2>1. B!Target(p) /\ B!Linked(p) /\ B!Ahead(p) /\ B!Reachable(p)
    BY Zenon DEF B!CVInv
  <2>2. Listed(btps_cv, p) => cv_sleep_target[p] = btps_cv \/ have_sentinel[p]
    BY Zenon, <2>1, TheCV DEF B!Linked, B!Sentinel, Listed, B!Listed, Range, B!Range
  <2>3. /\ at[p] \in {"push", "sentinel"} => cv_sleep_target[p] = NULL
        /\ have_sentinel[p] => at[p] \in {"setlatch", "loop"}
        /\ at[p] = "wait" => cv_sleep_target[p] = cv[p]
    BY Zenon, <2>1 DEF B!Target, B!Sentinel
  <2>4. toWake[p] # {} => have_sentinel[p]
    BY Zenon, <2>1 DEF B!Ahead, B!Sentinel
  <2>5. cv_sleep_target[p] # NULL /\ at[p] # "check" =>
            \/ latch[p] \/ Listed(cv_sleep_target[p], p)
            \/ \E q \in Proc : at[q] = "setlatch"
    BY Zenon, <2>1 DEF B!Reachable, B!Called, Listed, B!Listed, Range, B!Range
  <2> QED
    BY Zenon, <2>2, <2>3, <2>4, <2>5
<1> QED
  BY Zenon, <1>1, <1>2 DEF ListInv

\* It holds at first, when the lists are empty, ...
LEMMA CVAtFirst == Init => B!CVInv
<1> SUFFICES ASSUME Init PROVE B!CVInv
  OBVIOUS
<1>1. B!IsList(<<>>) /\ B!Range(<<>>) = {}
  BY SMTT(40), Z3T(40) DEF B!IsList, B!Range
<1>2. B!CVTyped
  BY Zenon, TheCV, <1>1 DEF Init, CVInit, B!CVTyped, B!Place, B!IsList, btps_cv
<1>3. /\ \A c \in CV : wakeup[c] = <<>>
      /\ \A p \in Proc : /\ at[p] = "out" /\ cv_sleep_target[p] = NULL /\ ~ have_sentinel[p]
                         /\ toWake[p] = {}
  BY Zenon DEF Init, CVInit
<1>4. \A c \in CV : B!IsList(wakeup[c]) /\ \A p \in Proc : ~ B!Listed(c, p)
  BY Zenon, <1>1, <1>3 DEF B!Listed
<1> QED
  BY Zenon, <1>2, <1>3, <1>4 DEF B!CVInv, B!Target, B!Linked, B!Ahead, B!Reachable

\* ... and the functions of condition_variable.c keep it.
LEMMA CVKept == B!CVInv /\ [Next]_vars => B!CVInv'
<1> SUFFICES ASSUME B!CVInv, [Next]_vars PROVE B!CVInv'
  OBVIOUS
<1>1. CASE UNCHANGED cvVars
  <2>1. /\ B!CVTyped' /\ \A c \in CV : B!IsList(wakeup'[c])
        /\ \A q \in Proc : B!Sentinel(q)' <=> B!Sentinel(q)
        /\ \A q \in Proc : B!Called(q)' <=> B!Called(q)
    BY Zenon, <1>1 DEF cvVars, B!CVInv, B!CVTyped, B!Sentinel, B!Called
  <2>2. \A q \in Proc : B!Target(q)' /\ B!Linked(q)' /\ B!Ahead(q)' /\ B!Reachable(q)'
    BY Zenon, <1>1, <2>1 DEF cvVars, B!CVInv, B!Target, B!Linked, B!Ahead, B!Reachable,
       B!Listed
  <2> QED
    BY Zenon, <2>1, <2>2 DEF B!CVInv
<1>2. ASSUME NEW p \in Proc, CVStep(p) \/ OtherSetLatch(p) PROVE B!CVInv'
  <2>1. B!CVStep(p) \/ B!OtherSetLatch(p)
    BY Zenon, <1>2, SameSteps
  <2> QED
    BY Zenon, <2>1, BarrierAtRest, B!CVStepKeeps
<1>3. PICK c \in CV : c = btps_cv
  BY Zenon, TheCV
<1>4. ASSUME NEW p \in Proc, CallSleep(p, btps_cv) PROVE B!CVInv'
  <2>1. B!CallSleep(p, c)
    BY Zenon, <1>3, <1>4, SameSteps
  <2> QED
    BY Zenon, <2>1, BarrierAtRest, B!CVCallSleep
<1>5. ASSUME NEW p \in Proc, NEW f \in {"cancel", "signal", "broadcast"}, Call(p, f, btps_cv)
      PROVE  B!CVInv'
  <2>1. B!Call(p, f, c) /\ f # "wait" /\ f # "push"
    BY Zenon, <1>3, <1>5, SameSteps
  <2>2. f \in {"prepare", "push", "wait", "cancel", "signal", "broadcast"}
    BY Zenon
  <2> QED
    BY Zenon, <2>1, <2>2, BarrierAtRest, B!CVCall
<1> QED
  BY Zenon, <1>1, <1>2, <1>4, <1>5, UsesOfCV

\* Whoever sleeps in _bt_parallel_seize, some process within btgettuple is awake that has
\* yet to release or to finish the scan: a wakeup that reaches a process which has no use
\* for it is not lost, whatever the executor does with those that have returned a tuple.
THEOREM NobodyIsStranded == Spec => []NobodyStranded
<1>1. Init => IInv /\ B!CVInv /\ WakeInv
  BY Zenon, InvInit, CVAtFirst, WakeInit
<1>2. IInv /\ B!CVInv /\ WakeInv /\ [Next]_vars => IInv' /\ B!CVInv' /\ WakeInv'
  BY Zenon, InvStep, CVKept, ListsInOrder, WakeKept
<1>3. IInv /\ B!CVInv /\ WakeInv => NobodyStranded
  BY Zenon, ListsInOrder, SomebodyAwake
<1> QED
  BY <1>1, <1>2, <1>3, PTL DEF Spec

=============================================================================
