-------------------------------- MODULE Lero --------------------------------
(***************************************************************************)
(* The Lero cardinality swing (src/backend/lero/lero_extension.c) and its  *)
(* two hook points: planner() in optimizer/plan/planner.c and              *)
(* set_joinrel_size_estimates() in optimizer/path/costsize.c.              *)
(*                                                                         *)
(* With enable_lero on, every planner() call plans its query twice.  The   *)
(* first pass records the estimate of each join relation it builds; the    *)
(* second replays them BY POSITION, after scaling those whose inputs scan  *)
(* lero_subquery_table_num tables.  The recording lives in process         *)
(* globals.  planner() is re-entered when planning evaluates a SQL or PL   *)
(* function, so the model keeps the stack of the planner() calls in        *)
(* progress; an ERROR unwinds it to the innermost exception handler.       *)
(*                                                                         *)
(* A row count is abstracted to what the replay must get right: which      *)
(* join relation it was estimated for, and whether it was scaled.          *)
(***************************************************************************)
EXTENDS Naturals, Sequences

CONSTANTS
    Query,          \* queries that may be planned
    Join,           \* join relations of all of them
    Orders,         \* [Query -> SUBSET Seq(Join)]: orders in which one pass may
                    \* build the joinrels; a singleton for standard_join_search,
                    \* whose order depends on join clauses and not on costs
    NumTables,      \* [Join -> Nat]: the count made by add_join_input_tables
    TableNums,      \* settings of lero_subquery_table_num in use
    CARD_MAX_NUM,   \* length of the three arrays
    MaxDepth,       \* bound on the nesting of planner() calls
    Handlers        \* numbers of outer calls above which an exception block
                    \* of a PL function may catch an ERROR

ASSUME LeroAssumption ==
    /\ Orders \in [Query -> SUBSET Seq(Join)]
    /\ NumTables \in [Join -> Nat]
    /\ TableNums \subseteq Nat
    /\ CARD_MAX_NUM \in Nat
    /\ MaxDepth \in Nat
    /\ Handlers \subseteq Nat

VARIABLES
    enable_lero, lero_subquery_table_num,       \* GUCs
    record_original_card_phase, join_card_num, cur_card_idx,
    original_card_list, join_input_table_nums, lero_card_list,
    rows,           \* the function-static variable of the size-estimate hook
    stack           \* planner() calls in progress, the innermost first

cards == <<record_original_card_phase, join_card_num, cur_card_idx,
           original_card_list, join_input_table_nums, lero_card_list, rows>>
gucs == <<enable_lero, lero_subquery_table_num>>
vars == <<enable_lero, lero_subquery_table_num, record_original_card_phase,
          join_card_num, cur_card_idx, original_card_list,
          join_input_table_nums, lero_card_list, rows, stack>>

-----------------------------------------------------------------------------
(* Row counts. *)

Zero == [kind |-> "zero"]                       \* a static double before any call
Est(j) == [kind |-> "est", join |-> j]          \* calc_joinrel_size_estimate
Swung(r) == IF r.kind = "est" THEN [kind |-> "swung", join |-> r.join] ELSE r

Rows == {Zero} \cup {Est(j) : j \in Join} \cup {Swung(Est(j)) : j \in Join}

Slot == 0 .. (CARD_MAX_NUM - 1)

\* One planner() call: the pass it is in, the join relations that pass builds,
\* and the sizes the ones built so far were given; nested and caught are history:
\* a planner() call was made inside it, and an ERROR was caught inside it.
Pass == {"standard", "record", "replay"}
Frame == [query : Query, pass : Pass, order : Seq(Join), sizes : Seq(Rows),
          nested : BOOLEAN, caught : BOOLEAN]

top == stack[1]
PassDone == Len(top.sizes) >= Len(top.order)
NextJoin == top.order[Len(top.sizes) + 1]

\* The innermost pass builds its next join relation with r rows.
BuildJoin(r) == stack' = [stack EXCEPT ![1].sizes = Append(@, r)]

-----------------------------------------------------------------------------
Init ==
    /\ enable_lero = FALSE
    /\ lero_subquery_table_num \in TableNums
    /\ record_original_card_phase = FALSE
    /\ join_card_num = 0
    /\ cur_card_idx = 0
    /\ original_card_list = [i \in Slot |-> Zero]
    /\ join_input_table_nums = [i \in Slot |-> 0]
    /\ lero_card_list = [i \in Slot |-> Zero]
    /\ rows = Zero
    /\ stack = <<>>

\* SET between statements.
SetGUC ==
    /\ stack = <<>>
    /\ enable_lero' \in BOOLEAN
    /\ lero_subquery_table_num' \in TableNums
    /\ UNCHANGED <<cards, stack>>

StartPass(q, pass, order, nested, caught) ==
    [query |-> q, pass |-> pass, order |-> order, sizes |-> <<>>,
     nested |-> nested, caught |-> caught]

\* The calls in progress when another one is made.
Interrupted == [k \in 1 .. Len(stack) |-> [stack[k] EXCEPT !.nested = TRUE]]

ResetCountersButJoins ==
    /\ UNCHANGED join_card_num
    /\ cur_card_idx' = 0

ResetCounters ==
    /\ join_card_num' = 0
    /\ cur_card_idx' = 0

\* planner(): lero_pgsysml_hook_planner() down to its first standard_planner()
\* call, or standard_planner() itself.  A call below another one is a function
\* evaluated while that one plans.
Planner(q) ==
    /\ Len(stack) < MaxDepth
    /\ \E order \in Orders[q] :
         stack' = <<StartPass(q, IF enable_lero THEN "record" ELSE "standard", order,
                              FALSE, FALSE)>> \o Interrupted
    /\ IF enable_lero
       THEN /\ record_original_card_phase' = TRUE
            /\ ResetCounters
            /\ UNCHANGED <<original_card_list, join_input_table_nums,
                           lero_card_list, rows>>
       ELSE UNCHANGED cards
    /\ UNCHANGED gucs

\* set_joinrel_size_estimates() with enable_lero off.
StandardJoin ==
    /\ stack # <<>> /\ ~PassDone /\ ~enable_lero
    /\ BuildJoin(Est(NextJoin))
    /\ UNCHANGED <<gucs, cards>>

CardsFullLate == join_card_num > CARD_MAX_NUM
CardsFull == join_card_num >= CARD_MAX_NUM

\* The hook, recording branch with room left.
RecordJoin ==
    /\ stack # <<>> /\ ~PassDone /\ enable_lero
    /\ record_original_card_phase
    /\ ~CardsFull
    /\ rows' = Est(NextJoin)
    /\ original_card_list' = [original_card_list EXCEPT ![join_card_num] = rows']
    /\ join_input_table_nums' =
         [join_input_table_nums EXCEPT ![join_card_num] = NumTables[NextJoin]]
    /\ join_card_num' = join_card_num + 1
    /\ BuildJoin(rows')
    /\ UNCHANGED <<gucs, record_original_card_phase, cur_card_idx,
                   lero_card_list>>

\* The hook, recording branch with the arrays full: rows keeps the value of the
\* previous call, and that is the size the join relation gets.
RecordJoinFull ==
    /\ stack # <<>> /\ ~PassDone /\ enable_lero
    /\ record_original_card_phase
    /\ CardsFull
    /\ BuildJoin(rows)
    /\ UNCHANGED <<gucs, cards>>

ReplayCard ==
    /\ rows' = lero_card_list[cur_card_idx]
    /\ cur_card_idx' = cur_card_idx + 1

\* The hook, replay branch.
ReplayJoin ==
    /\ stack # <<>> /\ ~PassDone /\ enable_lero
    /\ ~record_original_card_phase
    /\ IF cur_card_idx < join_card_num
       THEN ReplayCard
       ELSE /\ rows' = Est(NextJoin)
            /\ UNCHANGED cur_card_idx
    /\ BuildJoin(rows')
    /\ UNCHANGED <<gucs, record_original_card_phase, join_card_num,
                   original_card_list, join_input_table_nums, lero_card_list>>

SwungCard(i) ==
    IF join_input_table_nums[i] = lero_subquery_table_num
    THEN Swung(original_card_list[i])
    ELSE original_card_list[i]

SwingAllButLast(i) == IF i + 1 < join_card_num THEN SwungCard(i) ELSE lero_card_list[i]
SwingCard(i) == IF i < join_card_num THEN SwungCard(i) ELSE lero_card_list[i]

\* lero_pgsysml_hook_planner() between its two standard_planner() calls.
SwingCards ==
    /\ stack # <<>> /\ PassDone /\ top.pass = "record"
    /\ record_original_card_phase' = FALSE
    /\ lero_card_list' = [i \in Slot |-> SwingCard(i)]
    /\ \E order \in Orders[top.query] :
         stack' = <<StartPass(top.query, "replay", order, top.nested, top.caught)>>
                  \o Tail(stack)
    /\ UNCHANGED <<gucs, join_card_num, cur_card_idx, original_card_list,
                   join_input_table_nums, rows>>

\* The last standard_planner() call returns the plan.
PlannerReturn ==
    /\ stack # <<>> /\ PassDone /\ top.pass # "record"
    /\ stack' = Tail(stack)
    /\ UNCHANGED <<gucs, cards>>

\* elog(ERROR) or a query cancel in the innermost call.  The n calls that
\* remain are those below the handler that catches it; 0 when nothing does.
Unwind(n) ==
    /\ n \in {0} \cup Handlers
    /\ n < Len(stack)
    /\ stack' = [k \in 1 .. n |-> [stack[Len(stack) - n + k] EXCEPT !.caught = TRUE]]

Error(n) ==
    /\ Unwind(n)
    /\ UNCHANGED <<gucs, cards>>

\* add_join_input_tables() meets a path type it does not support: the ERROR
\* leaves the hook after the estimate was stored and before it was counted.
RecordJoinUnsupported(n) ==
    /\ stack # <<>> /\ ~PassDone /\ enable_lero
    /\ record_original_card_phase
    /\ ~CardsFull
    /\ rows' = Est(NextJoin)
    /\ original_card_list' = [original_card_list EXCEPT ![join_card_num] = rows']
    /\ Unwind(n)
    /\ UNCHANGED <<gucs, record_original_card_phase, join_card_num, cur_card_idx,
                   join_input_table_nums, lero_card_list>>

Next ==
    \/ SetGUC
    \/ \E q \in Query : Planner(q)
    \/ StandardJoin
    \/ RecordJoin
    \/ RecordJoinFull
    \/ ReplayJoin
    \/ SwingCards
    \/ PlannerReturn
    \/ \E n \in 0 .. MaxDepth : Error(n) \/ RecordJoinUnsupported(n)

Spec == Init /\ [][Next]_vars

-----------------------------------------------------------------------------
(* Properties. *)

\* Every variable keeps its type; in particular the counters stay within the
\* fixed-size arrays that RecordJoin and ReplayJoin index with them.
TypeOK ==
    /\ enable_lero \in BOOLEAN
    /\ lero_subquery_table_num \in TableNums
    /\ record_original_card_phase \in BOOLEAN
    /\ join_card_num \in 0 .. CARD_MAX_NUM
    /\ cur_card_idx \in 0 .. join_card_num
    /\ original_card_list \in [Slot -> Rows]
    /\ join_input_table_nums \in [Slot -> Nat]
    /\ lero_card_list \in [Slot -> Rows]
    /\ rows \in Rows
    /\ stack \in Seq(Frame)

\* The size lero_subquery_table_num asks for.
Wanted(j) == IF NumTables[j] = lero_subquery_table_num THEN Swung(Est(j)) ELSE Est(j)

\* Were the joins of a replay given the sizes they should have?
Faithful(call) ==
    call.pass = "replay" =>
        \A i \in 1 .. Len(call.sizes) : call.sizes[i] = Wanted(call.order[i])

\* In the pass whose plan is used, exactly the join relations whose inputs scan
\* lero_subquery_table_num tables are scaled, and every one of them keeps the
\* estimate that was made for itself: what the GUC's description promises.
ReplayFaithful == \A k \in 1 .. Len(stack) : Faithful(stack[k])

\* The same for a planner() call inside which no other one was made, whatever
\* calls surround it, came before it or failed.
UndisturbedReplayFaithful ==
    \A k \in 1 .. Len(stack) : ~stack[k].nested => Faithful(stack[k])

\* A planner() call inside which others were made, in either pass, loses scaling
\* to them but takes nothing from them: every join relation is given its own
\* estimate, scaled only if the setting asks for it, and never the estimate of
\* another join relation or another query.  The calls made inside it must have
\* run to their end: an ERROR caught between leaves positions to be read in a
\* recording that is not its own.
OwnEstimates ==
    \A k \in 1 .. Len(stack) : ~stack[k].caught =>
        \A i \in 1 .. Len(stack[k].sizes) :
            stack[k].sizes[i] \in {Est(stack[k].order[i]), Wanted(stack[k].order[i])}
=============================================================================
