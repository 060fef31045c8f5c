------------------------------ MODULE PathList ------------------------------
(***************************************************************************)
(* The tournament between the paths of one relation:                       *)
(* src/backend/optimizer/util/pathnode.c.  A path is a record              *)
(*   startup, total   costs, integers in units the fuzz factor resolves    *)
(*   keys             its sort order, a sequence (compare_pathkeys)        *)
(*   outer            required outer relations, {} when unparameterized    *)
(*   rows, safe       row estimate, and parallel safety as 0 or 1          *)
(*   order            the pair of relations it joins, outer and inner      *)
(* A pathlist is a sequence of paths.  The loops of the source become      *)
(* quantifiers over positions: nothing here is recursive.                  *)
(***************************************************************************)
EXTENDS Integers, Sequences

CONSTANTS
    FuzzNum, FuzzDen,       \* STD_FUZZ_FACTOR = FuzzNum / FuzzDen
    consider_startup,       \* of the parent relation: unparameterized paths
    consider_param_startup  \* and parameterized ones

ASSUME FuzzAssumption ==
    /\ FuzzNum \in Nat /\ FuzzDen \in Nat /\ FuzzDen > 0 /\ FuzzNum >= FuzzDen
    /\ consider_startup \in BOOLEAN /\ consider_param_startup \in BOOLEAN

\* A fuzz factor is a pair; the tie-breaking 1.0000000001 is 1 on these costs.
StdFuzz == <<FuzzNum, FuzzDen>>
NoFuzz == <<1, 1>>

\* x > y * fuzz
Exceeds(x, y, fuzz) == x * fuzz[2] > y * fuzz[1]

ConsiderStartup(p) ==
    IF p.outer = {} THEN consider_startup ELSE consider_param_startup

compare_path_costs_fuzzily(p, q, fuzz) ==
    CASE Exceeds(p.total, q.total, fuzz) ->
           IF ConsiderStartup(p) /\ Exceeds(q.startup, p.startup, fuzz)
           THEN "different" ELSE "better2"
      [] Exceeds(q.total, p.total, fuzz) ->
           IF ConsiderStartup(q) /\ Exceeds(p.startup, q.startup, fuzz)
           THEN "different" ELSE "better1"
      [] OTHER ->
           CASE Exceeds(p.startup, q.startup, fuzz) -> "better2"
             [] Exceeds(q.startup, p.startup, fuzz) -> "better1"
             [] OTHER -> "equal"

\* compare_path_costs by TOTAL_COST: p strictly cheaper than q.
CheaperTotal(p, q) == p.total < q.total \/ (p.total = q.total /\ p.startup < q.startup)

\* compare_pathkeys: a is sorted at least as well as b.
SortedAs(a, b) == Len(b) <= Len(a) /\ SubSeq(a, 1, Len(b)) = b

compare_pathkeys(a, b) ==
    CASE a = b -> "equal"
      [] SortedAs(a, b) -> "better1"
      [] SortedAs(b, a) -> "better2"
      [] OTHER -> "different"

\* Parameterized paths compete as if unsorted.
Keys(p) == IF p.outer = {} THEN p.keys ELSE <<>>

-----------------------------------------------------------------------------
(* add_path(): what happens between the new path and one old path. *)

\* p needs no outer relation q does not, returns no more rows, and is as safe.
NoWorse(p, q) == p.outer \subseteq q.outer /\ p.rows <= q.rows /\ p.safe >= q.safe

\* Equal keys, equal parameterization, fuzzily equal costs: p replaces q.
WinsTie(p, q) ==
    \/ p.safe > q.safe
    \/ p.safe = q.safe /\ p.rows < q.rows
    \/ /\ p.safe = q.safe /\ p.rows = q.rows
       /\ compare_path_costs_fuzzily(p, q, NoFuzz) = "better1"

IsTie(p, q, cost, keys) == cost = "equal" /\ keys = "equal" /\ p.outer = q.outer

RemoveUnsorted(new, old, cost) ==
    /\ cost # "different"
    /\ IF IsTie(new, old, cost, "equal") THEN WinsTie(new, old)
       ELSE cost \in {"equal", "better1"} /\ NoWorse(new, old)

remove_old(new, old, cost) ==
    LET keys == compare_pathkeys(Keys(new), Keys(old)) IN
    /\ cost # "different" /\ keys # "different"
    /\ IF IsTie(new, old, cost, keys) THEN WinsTie(new, old)
       ELSE /\ cost \in {"equal", "better1"} /\ keys \in {"equal", "better1"}
            /\ NoWorse(new, old)

reject_new(new, old, cost) ==
    LET keys == compare_pathkeys(Keys(new), Keys(old)) IN
    /\ cost # "different" /\ keys # "different"
    /\ IF IsTie(new, old, cost, keys) THEN ~WinsTie(new, old)
       ELSE /\ cost \in {"equal", "better2"} /\ keys \in {"equal", "better2"}
            /\ NoWorse(old, new)

-----------------------------------------------------------------------------
(* The pathlist operations.  keep_all is Athena's override of the cost      *)
(* comparison: enable_join_order_plans && save_join_order_plan_finished.    *)

CostCmp(new, old, keep_all) ==
    IF keep_all THEN "different" ELSE compare_path_costs_fuzzily(new, old, StdFuzz)

\* Positions at which the scan of the pathlist may stop.
Rejecting(list, new, keep_all) ==
    {i \in 1 .. Len(list) : reject_new(new, list[i], CostCmp(new, list[i], keep_all))}

FirstOf(S) == CHOOSE i \in S : \A j \in S : i <= j

\* The old paths that survive the scan of list[1 .. n].
Survivors(list, n, new, keep_all) ==
    SelectSeq(SubSeq(list, 1, n),
              LAMBDA old : ~remove_old(new, old, CostCmp(new, old, keep_all)))

\* new goes after the last path that is no more expensive.
insert_at(list, new) ==
    LET before == {i \in 1 .. Len(list) : new.total >= list[i].total}
    IN  IF before = {} THEN 0 ELSE CHOOSE i \in before : \A j \in before : j <= i

Inserted(list, at, new) ==
    SubSeq(list, 1, at) \o <<new>> \o SubSeq(list, at + 1, Len(list))

\* The scan stops at the first old path that rejects new; old paths it removed
\* before it got there stay removed.
add_path(list, new, keep_all) ==
    LET stops == Rejecting(list, new, keep_all)
        kept == Survivors(list, Len(list), new, keep_all)
        stop == FirstOf(stops)
    IN  IF stops = {}
        THEN Inserted(kept, insert_at(kept, new), new)
        ELSE Survivors(list, stop - 1, new, keep_all) \o SubSeq(list, stop, Len(list))

\* The position where add_path_precheck() stops scanning: the first path whose
\* cost the new one does not fuzzily exceed.
PrecheckEnd(list, total) ==
    LET cheap == {i \in 1 .. Len(list) : ~Exceeds(total, list[i].total, StdFuzz)}
    IN  IF cheap = {} THEN Len(list) + 1 ELSE FirstOf(cheap)

PrecheckCostsOnly(list, startup, total, keys, outer) ==
    ~ \E i \in 1 .. PrecheckEnd(list, total) - 1 :
        Exceeds(startup, list[i].startup, StdFuzz) \/ ~consider_startup

\* add_path_precheck(): could a path with these lower bounds be accepted?
add_path_precheck(list, startup, total, keys, outer) ==
    ~ \E i \in 1 .. PrecheckEnd(list, total) - 1 :
        LET old == list[i]
            interesting == IF outer = {} THEN consider_startup ELSE consider_param_startup
        IN  /\ Exceeds(startup, old.startup, StdFuzz) \/ ~interesting
            /\ compare_pathkeys(IF outer = {} THEN keys ELSE <<>>, Keys(old))
                 \in {"equal", "better2"}
            /\ outer = old.outer

PrefersStartup(q, p) == q.startup < p.startup

\* set_cheapest() scans the list once.  The choice of cheapest_total_path moves
\* from p to a later q when q is cheaper, or as cheap and better sorted.
PrefersTotal(q, p) ==
    \/ CheaperTotal(q, p)
    \/ /\ p.total = q.total /\ p.startup = q.startup
       /\ compare_pathkeys(p.keys, q.keys) = "better2"

\* The same for best_param_path: a lesser parameterization first, then cost.
PrefersParam(q, p) ==
    \/ q.outer \subseteq p.outer /\ q.outer # p.outer
    \/ q.outer = p.outer /\ CheaperTotal(q, p)

\* The position chosen by a scan over the paths of S, 0 when there is none.
ScanFor(list, S, Prefers(_, _)) ==
    LET best[n \in 0 .. Len(list)] ==
            IF n = 0 THEN 0
            ELSE IF n \in S /\ (best[n - 1] = 0 \/ Prefers(list[n], list[best[n - 1]]))
                 THEN n ELSE best[n - 1]
    IN  best[Len(list)]

cheapest_at(list) ==
    LET unparam == {i \in 1 .. Len(list) : list[i].outer = {}}
    IN  IF unparam # {}
        THEN ScanFor(list, unparam, PrefersTotal)
        ELSE ScanFor(list, 1 .. Len(list), PrefersParam)

cheapest_total_path(list) == list[cheapest_at(list)]
=============================================================================
