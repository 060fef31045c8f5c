------------------------------- MODULE MCLero -------------------------------
(* Small instances of Lero: two queries of two joins each. *)
EXTENDS Lero

CONSTANTS q1, q2, a, b, c

MCQuery == {q1, q2}
MCJoin == {a, b, c}
MCNumTables == [j \in MCJoin |-> IF j = b THEN 3 ELSE 2]

\* standard_join_search: one order per query; q1 joins twice, q2 once.
FixedOrders == [q \in MCQuery |-> IF q = q1 THEN {<<a, b>>} ELSE {<<c>>}]
=============================================================================
