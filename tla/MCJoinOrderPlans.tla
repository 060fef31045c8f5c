-------------------------- MODULE MCJoinOrderPlans --------------------------
(* Small instances of JoinOrderPlans.  Costs are around 100 so that a fuzz   *)
(* factor of 1.01 distinguishes equal from different costs as in the source. *)
EXTENDS JoinOrderPlans

CONSTANTS x, y      \* pathkeys

\* Join orders of a query on A, B and C.
o1 == <<"A", "BC">>
o2 == <<"BC", "A">>
o3 == <<"AB", "C">>
l == <<"A", "B">>
s == <<"A">>

\* order, startup and total cost, pathkeys, parallel safety, required outer rels
P(order, startup, total, keys, safe, outer) ==
    [order |-> order, startup |-> startup, total |-> total, keys |-> keys,
     outer |-> outer, rows |-> IF outer = {} THEN 2 ELSE 1, safe |-> safe]

\* Costs that are fuzzily equal, better and different; three levels of sorting;
\* a cheap start at a slightly higher total; safe and unsafe paths.
TopPaths ==
    { P(o1, 0, 100, <<>>, 0, {}), P(o1, 0, 101, <<x>>, 0, {}),
      P(o2, 0, 101, <<>>, 1, {}), P(o2, 50, 99, <<>>, 0, {}), P(o2, 40, 100, <<>>, 0, {}),
      P(o3, 0, 102, <<x, y>>, 1, {}), P(o3, 0, 200, <<>>, 0, {}), P(o3, 10, 200, <<y>>, 0, {}) }

ScanPaths == { P(s, 0, 100, <<>>, 0, {}), P(s, 0, 300, <<>>, 0, {}) }

\* Parameterized paths compete for a relation that is not the topmost one.
LowerPaths ==
    { P(l, 0, 100, <<>>, 0, {}), P(l, 0, 300, <<x>>, 0, {}),
      P(l, 0, 90, <<x>>, 0, {3}), P(l, 5, 100, <<>>, 0, {3}) }

\* What may stand above the joins: nothing, one step, several.
Step(kind, keys) == [kind |-> kind, keys |-> keys]
NoUppers == {<<>>}
OrderBy == {<<Step("order", <<x>>)>>, <<Step("order", <<x, y>>)>>}
MCUppers ==
    OrderBy \cup
    { <<>>, <<Step("group", <<>>)>>, <<Step("group", <<y>>)>>,
      <<Step("distinct", <<x>>), Step("order", <<x, y>>)>>,
      <<Step("group", <<x>>), Step("window", <<x>>), Step("order", <<x>>)>> }

MCPaths == [r \in {"scan", "lower", "top"} |->
    CASE r = "scan" -> ScanPaths [] r = "lower" -> LowerPaths [] OTHER -> TopPaths]
=============================================================================
