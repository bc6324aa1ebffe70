---------------------------- MODULE MCFlowPaths ----------------------------
(* All topologies of up to four nodes, with one-way links of weight 1, as  *)
(* find_path_between builds them, or with two-way links of two weights.    *)
EXTENDS FlowPaths

Pairs == {p \in Node \X Node : p[1] # p[2]}
Edges == {p \in Pairs : p[1] < p[2]}
Row == FlattenSeq([i \in 1 .. 4 |-> [j \in 1 .. 4 |-> <<i, j>>]])

Topology(E, w(_)) ==
    LET rows == SelectSeq(Row, LAMBDA p : p \in E)
    IN  [i \in DOMAIN rows |-> [src |-> rows[i][1], dst |-> rows[i][2], weight |-> w(rows[i])]]

OneWay == {Topology(E, LAMBDA p : 1) : E \in SUBSET Pairs}

BothWays(E) == E \cup {<<e[2], e[1]>> : e \in E}
TwoWay == UNION {{Topology(BothWays(E), LAMBDA p : IF p[1] < p[2] THEN w[p] ELSE w[<<p[2], p[1]>>])
                    : w \in [E -> {1, 3}]} : E \in SUBSET Edges}

MCTopologies == OneWay \cup TwoWay
=============================================================================
