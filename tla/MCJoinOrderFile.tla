-------------------------- MODULE MCJoinOrderFile ---------------------------
(* Small instances of JoinOrderFile. *)
EXTENDS JoinOrderFile

CONSTANTS r1, r2, r3, b1, b2

MCAlias == {r1, r2, r3}
Scan(a) == [type |-> "scan", alias |-> a]
Join(p, q) == [type |-> "join", outer |-> p, inner |-> q]
Unary(p) == [type |-> "unary", subpath |-> p]

LeftDeep == Join(Join(Scan(r1), Scan(r2)), Scan(r3))
Bushy == Unary(Join(Scan(r3), Unary(Join(Scan(r2), Scan(r1)))))
OverSubquery == Join([type |-> "warning"], Scan(r1))
UnderLimit == [type |-> "error"]

\* A long and a short list; the supported types only.
Supported == { <<LeftDeep, Bushy, Scan(r1)>>, <<Bushy>>, <<OverSubquery, Scan(r2)>>,
               <<Scan(r2), LeftDeep>> }

\* The second candidate has a LIMIT on top.
WithLimit == { <<LeftDeep, Bushy>>, <<Scan(r1)>>, <<OverSubquery, UnderLimit>> }
=============================================================================
