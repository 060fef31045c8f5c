--------------------------- MODULE JoinOrderPlans ---------------------------
(***************************************************************************)
(* Athena's order-centric plan exploration: what enable_join_order_plans   *)
(* does to the planning of a query.  One backend plans queries one after   *)
(* the other; the model follows the pathlists of five of the relations of  *)
(* a query: one of its base relations ("scan"), a join of some of them     *)
(* ("lower"), the join of all ("top"), the upper relation of its last      *)
(* grouping, window, DISTINCT or ORDER BY step ("upper") and the final one *)
(* ("final").  Up to "top", pathlists of different relations only meet     *)
(* through the global flag save_join_order_plan_finished.                  *)
(***************************************************************************)
EXTENDS PathList, FiniteSets

CONSTANTS
    Paths,          \* [{"scan", "lower", "top"} -> set of paths generated for it]
    BaseRels,       \* relids of the query's base relations, natural numbers
    OuterJoinRels,  \* relids of its outer joins
    LowerRels,      \* relids of "lower"
    WordBits,       \* bits of words[0] that survive the cast to int: 32
    EnableSettings, \* settings of enable_join_order_plans in use
    Searches,       \* of {"standard", "geqo", "none"}: how queries are joined
    Uppers,         \* the steps queries take above their joins, in this order:
                    \* "group", "window", "distinct", "order", each with the
                    \* pathkeys it wants
    SortCost,               \* what a sort adds to the cost of its input
    IncrementalSortCost,    \* and what an incremental sort does
    enable_incremental_sort \* GUC

Rel == {"scan", "lower", "top", "upper", "final"}
JoinRel == {"lower", "top"}
PathSet == UNION {Paths[r] : r \in {"scan", "lower", "top"}}

ASSUME JoinOrderAssumption ==
    /\ BaseRels \subseteq Nat /\ OuterJoinRels \subseteq Nat
    /\ LowerRels \subseteq BaseRels \cup OuterJoinRels
    /\ WordBits \in Nat
    /\ EnableSettings \subseteq BOOLEAN
    /\ Searches \subseteq {"standard", "geqo", "none"}
    /\ \A steps \in Uppers : \A n \in 1 .. Len(steps) :
          steps[n].kind \in {"group", "window", "distinct", "order"}
    /\ SortCost \in Nat /\ IncrementalSortCost \in Nat
    /\ enable_incremental_sort \in BOOLEAN

VARIABLES
    enable_join_order_plans,        \* GUC
    save_join_order_plan_finished,  \* process global
    stage,      \* "idle", "scan", "join", "upper" or "planned"
    search,     \* how the present query is joined
    lists,      \* [Rel -> pathlist]
    pair,       \* the add_paths_to_joinrel() call in progress, or NoPair
    built,      \* join orders already tried, per join relation
    offered,    \* history: paths generated for "top" by the present tree
    uppers,     \* the steps the present query takes above its joins
    exported    \* join orders save_join_order_plans() wrote for the query

vars == <<enable_join_order_plans, save_join_order_plan_finished, stage, search,
          lists, pair, built, offered, uppers, exported>>

NoPair == [rel |-> "none"]
NoLists == [r \in Rel |-> <<>>]

KeepNone == FALSE

\* The condition under which add_path() compares no costs.
keep_all == enable_join_order_plans /\ save_join_order_plan_finished

Members(list) == {list[i] : i \in 1 .. Len(list)}
OrdersOf(list) == {p.order : p \in Members(list)}

relids(r) == IF r = "top" THEN BaseRels \cup OuterJoinRels ELSE LowerRels

\* (int) words[0]
Word0(relset) == {i \in relset : i < WordBits}

\* The test of add_paths_to_joinrel() for the topmost join relation.
IsRootRel(r) == Word0(relids(r)) = Word0(BaseRels)

-----------------------------------------------------------------------------
Init ==
    /\ enable_join_order_plans \in EnableSettings
    /\ save_join_order_plan_finished = FALSE
    /\ stage = "idle" /\ search = "none"
    /\ lists = NoLists
    /\ pair = NoPair
    /\ built = [r \in JoinRel |-> {}]
    /\ offered = {}
    /\ uppers = <<>>
    /\ exported = {}

Forget ==
    /\ lists' = NoLists
    /\ pair' = NoPair
    /\ built' = [r \in JoinRel |-> {}]
    /\ offered' = {}

\* SET enable_join_order_plans, and standard_planner() entered for a query.
BeginQuery(how) ==
    /\ stage \in {"idle", "planned"}
    /\ enable_join_order_plans' \in EnableSettings
    /\ stage' = "scan" /\ search' = how
    /\ uppers' = <<>> /\ exported' = {}
    /\ Forget
    /\ UNCHANGED save_join_order_plan_finished

\* set_base_rel_pathlists(): a path of the base relation.
AddScanPath(p) ==
    /\ stage = "scan"
    /\ p \in Paths["scan"]
    /\ p \notin offered
    /\ offered' = offered \cup {p}
    /\ lists' = [lists EXCEPT !["scan"] = add_path(@, p, keep_all)]
    /\ UNCHANGED <<enable_join_order_plans, save_join_order_plan_finished, stage,
                   search, pair, built, uppers, exported>>

\* set_subquery_pathlist() plans a subquery that joins: its own
\* standard_join_search() has come and gone.
PlanSubquery ==
    /\ stage = "scan"
    /\ enable_join_order_plans
    /\ save_join_order_plan_finished' = TRUE
    /\ UNCHANGED <<enable_join_order_plans, stage, search, lists, pair, built,
                   offered, uppers, exported>>

\* make_rel_from_joinlist(): the join search is entered.
BeginSearch ==
    /\ stage = "scan" /\ lists["scan"] # <<>>
    /\ search # "none"
    /\ stage' = "join"
    /\ save_join_order_plan_finished' =
         IF search = "standard" /\ enable_join_order_plans
         THEN FALSE ELSE save_join_order_plan_finished
    /\ offered' = {}
    /\ UNCHANGED <<enable_join_order_plans, search, lists, pair, built,
                   uppers, exported>>

\* The joinlist has a single member: its base relation is the topmost relation.
SingleRel ==
    /\ stage = "scan" /\ lists["scan"] # <<>>
    /\ search = "none"
    /\ stage' = "upper"
    /\ lists' = [lists EXCEPT !["top"] = @ \o lists["scan"]]
    /\ UNCHANGED <<enable_join_order_plans, save_join_order_plan_finished, search,
                   pair, built, offered, uppers, exported>>

-----------------------------------------------------------------------------
(* add_paths_to_joinrel() *)

\* Entry: the pathlist of what looks like the topmost relation is set aside.
\* A GEQO tree builds every join relation from one pair, in both directions.
BeginPair(r, order) ==
    /\ stage = "join" /\ pair = NoPair
    /\ order \in {p.order : p \in Paths[r]} \ built[r]
    /\ search = "geqo" => built[r] \subseteq {<<order[2], order[1]>>}
    /\ built' = [built EXCEPT ![r] = @ \cup {order}]
    /\ LET captured == enable_join_order_plans /\ IsRootRel(r) IN
         /\ pair' = [rel |-> r, order |-> order, rootrel_candidate_path |-> captured,
                     tmp_list |-> IF captured THEN lists[r] ELSE <<>>]
         /\ lists' = IF captured THEN [lists EXCEPT ![r] = <<>>] ELSE lists
    /\ UNCHANGED <<enable_join_order_plans, save_join_order_plan_finished, stage,
                   search, offered, uppers, exported>>

\* try_nestloop_path() and its siblings.
Tried(list, p, all) ==
    IF add_path_precheck(list, p.startup, p.total, p.keys, p.outer)
    THEN add_path(list, p, all) ELSE list

TryJoinPath(p) ==
    /\ pair # NoPair
    /\ p \in Paths[pair.rel] /\ p.order = pair.order
    /\ p \notin offered
    /\ offered' = offered \cup {p}
    /\ lists' = [lists EXCEPT ![pair.rel] = Tried(@, p, keep_all)]
    /\ UNCHANGED <<enable_join_order_plans, save_join_order_plan_finished, stage,
                   search, pair, built, uppers, exported>>

DropStash(list) == list

\* What becomes of the pathlist of a captured relation.
RestoreStash(list) == IF pair.tmp_list = <<>> THEN list ELSE pair.tmp_list \o list

\* Exit: the paths of this pair go behind those set aside.
EndPair ==
    /\ pair # NoPair
    /\ lists' = IF pair.rootrel_candidate_path
                THEN [lists EXCEPT ![pair.rel] = RestoreStash(@)] ELSE lists
    /\ pair' = NoPair
    /\ UNCHANGED <<enable_join_order_plans, save_join_order_plan_finished, stage,
                   search, built, offered, uppers, exported>>

\* geqo_eval() throws a tree away and the next one is built from scratch.
NewTree ==
    /\ stage = "join" /\ search = "geqo" /\ pair = NoPair
    /\ built # [r \in JoinRel |-> {}]
    /\ lists' = [lists EXCEPT !["lower"] = <<>>, !["top"] = <<>>]
    /\ built' = [r \in JoinRel |-> {}]
    /\ offered' = {}
    /\ UNCHANGED <<enable_join_order_plans, save_join_order_plan_finished, stage,
                   search, pair, uppers, exported>>

\* standard_join_search() returns the topmost relation, or geqo() does.
EndSearch ==
    /\ stage = "join" /\ pair = NoPair
    /\ lists["top"] # <<>>
    /\ stage' = "upper"
    /\ save_join_order_plan_finished' =
         IF search = "standard" /\ enable_join_order_plans
         THEN TRUE ELSE save_join_order_plan_finished
    /\ UNCHANGED <<enable_join_order_plans, search, lists, pair, built, offered,
                   uppers, exported>>

-----------------------------------------------------------------------------
(* grouping_planner() above the joins. *)

\* add_path() for one path after the other, into an empty relation.
OfferAll(paths) ==
    LET rel[n \in 0 .. Len(paths)] ==
            IF n = 0 THEN <<>> ELSE add_path(rel[n - 1], paths[n], keep_all)
    IN  rel[Len(paths)]

\* pathkeys_count_contained_in(): presorted_keys > 0
Presorted(p, keys) == keys # <<>> /\ p.keys # <<>> /\ p.keys[1] = keys[1]

\* The input paths a step looks at: suitably sorted ones, the cheapest one, and
\* those an incremental sort can start from.
UsedBy(list, i, step) ==
    \/ SortedAs(list[i].keys, step.keys)
    \/ i = cheapest_at(list)
    \/ /\ Presorted(list[i], step.keys)
       /\ enable_incremental_sort \/ step.kind = "window"

\* p with the sort the step needs under it, if any.
SortedFor(p, keys) ==
    CASE SortedAs(p.keys, keys) -> p
      [] ~SortedAs(p.keys, keys) /\ Presorted(p, keys) /\ enable_incremental_sort ->
           [p EXCEPT !.keys = keys, !.startup = @ + IncrementalSortCost,
                     !.total = @ + IncrementalSortCost]
      [] OTHER ->
           [p EXCEPT !.keys = keys, !.startup = p.total + SortCost,
                     !.total = @ + SortCost]

\* An Agg puts out no more than the grouping order; the other nodes keep theirs.
\* What the node itself costs is the same on every input, and left out.
Atop(p, step) ==
    IF step.kind = "group" THEN [p EXCEPT !.keys = step.keys] ELSE p

\* GROUP BY and DISTINCT can also hash, and then take the cheapest input only.
Hashed(list, step) ==
    IF step.kind = "distinct" \/ (step.kind = "group" /\ step.keys # <<>>)
    THEN LET p == list[cheapest_at(list)]
         IN  <<[p EXCEPT !.keys = <<>>, !.startup = p.total]>>
    ELSE <<>>

\* The pathlist of the upper relation that a step builds on an input relation.
UpperRel(list, step) ==
    LET used == SelectSeq([i \in 1 .. Len(list) |-> i], LAMBDA i : UsedBy(list, i, step))
    IN  OfferAll([n \in 1 .. Len(used) |->
                    Atop(SortedFor(list[used[n]], step.keys), step)]
                 \o Hashed(list, step))

\* The steps the query calls for, each on the upper relation of the one before;
\* then every path of the last is offered to the final relation, and
\* standard_planner() has the join orders of that one written to the file.
FinishPlan(steps) ==
    /\ stage = "upper"
    /\ uppers' = steps
    /\ LET current_rel[n \in 0 .. Len(steps)] ==
             IF n = 0 THEN lists["top"] ELSE UpperRel(current_rel[n - 1], steps[n])
           upper == current_rel[Len(steps)]
           final == OfferAll(upper)
       IN  /\ lists' = [lists EXCEPT !["upper"] = upper, !["final"] = final]
           /\ exported' = IF enable_join_order_plans THEN OrdersOf(final) ELSE {}
    /\ stage' = "planned"
    /\ UNCHANGED <<enable_join_order_plans, save_join_order_plan_finished, search,
                   pair, built, offered>>

\* An ERROR, or the query cancel that add_path() checks for.
Abort ==
    /\ stage \in {"scan", "join", "upper"}
    /\ stage' = "idle"
    /\ Forget
    /\ UNCHANGED <<enable_join_order_plans, save_join_order_plan_finished, search,
                   uppers, exported>>

Next ==
    \/ \E how \in Searches : BeginQuery(how)
    \/ \E p \in PathSet : AddScanPath(p) \/ TryJoinPath(p)
    \/ PlanSubquery
    \/ BeginSearch
    \/ SingleRel
    \/ \E r \in JoinRel : \E order \in {p.order : p \in PathSet} : BeginPair(r, order)
    \/ EndPair
    \/ NewTree
    \/ EndSearch
    \/ \E steps \in Uppers : FinishPlan(steps)
    \/ Abort

Spec == Init /\ [][Next]_vars

-----------------------------------------------------------------------------
(* Properties. *)

\* While pathlists are kept in order, a path that add_path_precheck() turns away
\* would have been turned away by add_path() too, if it has the rows and the
\* parallel safety of the paths with its parameterization: the shortcut loses
\* nothing.  With exploration on this rests on the pathlist of the topmost
\* relation being set aside, since what is put together from several pairs is
\* not sorted any more.
PrecheckLosesNothing ==
    pair # NoPair /\ ~keep_all =>
        \A p \in Paths[pair.rel] :
            LET list == lists[pair.rel] IN
            /\ \A old \in Members(list) :
                  old.outer = p.outer => p.rows >= old.rows /\ p.safe <= old.safe
            /\ ~add_path_precheck(list, p.startup, p.total, p.keys, p.outer)
            => p \notin Members(add_path(list, p, FALSE)) \/ p \in Members(list)

\* What a path can be used for: q can stand in for p under any join or sort.
Covers(q, p) == q.outer \subseteq p.outer /\ SortedAs(Keys(q), Keys(p))

\* The paths kept for the topmost relation, those set aside included.
TopKept ==
    Members(lists["top"])
        \cup IF pair # NoPair /\ pair.rel = "top" THEN Members(pair.tmp_list) ELSE {}

\* Whatever the costs, pruning never loses a capability: every path generated
\* for the topmost relation has a surviving one that is sorted at least as well
\* and needs no outer relation that it does not.
CapabilitiesKept ==
    stage \in {"join", "upper"} /\ search # "none" =>
        \A p \in offered \cap Paths["top"] : \E q \in TopKept : Covers(q, p)

\* set_cheapest() finds the cheapest path although the lists it scans are not
\* sorted while exploring: no unparameterized path is cheaper, and where there
\* is none, no path needs less or is cheaper with the same outer relations.
CheapestIsCheapest ==
    \A r \in Rel : lists[r] # <<>> =>
        LET chosen == cheapest_total_path(lists[r]) IN
        \A p \in Members(lists[r]) :
            /\ p.outer = {} => chosen.outer = {} /\ ~CheaperTotal(p, chosen)
            /\ p.outer # chosen.outer => ~(p.outer \subseteq chosen.outer)
            /\ p.outer = chosen.outer => ~CheaperTotal(p, chosen)

\* With the feature on, a join order of the topmost relation is exported if a
\* path was generated for it that is sorted as the steps above the joins want
\* it: every join order that was tried where there are no such steps, or where
\* they want no order.
JoinOrdersExported ==
    stage = "planned" /\ enable_join_order_plans /\ search = "standard" =>
        \A p \in offered \cap Paths["top"] :
            (\A n \in 1 .. Len(uppers) : SortedAs(p.keys, uppers[n].keys))
            => p.order \in exported

\* With the feature on, several candidates reach the final relation whenever
\* several join orders were kept for the topmost one.
CandidatesReachFinal ==
    stage = "planned" /\ enable_join_order_plans /\ search = "standard" =>
        (Cardinality(OrdersOf(lists["top"])) > 1 => Cardinality(exported) > 1)

\* While a query is explored, a candidate for the topmost relation is dropped
\* only in favour of another one with its own join order.
CandidatesStay ==
    [][ /\ enable_join_order_plans /\ search = "standard"
        /\ stage \in {"join", "upper"} /\ stage' # "idle"
        => \A p \in TopKept \ TopKept' : p.order \in OrdersOf(lists'["top"]) ]_vars
=============================================================================
