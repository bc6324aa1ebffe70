----------------------------- MODULE FlowPaths -----------------------------
(***************************************************************************)
(* How the path of a flow is found when a program is turned into a         *)
(* simulation.  SemanticRulesChecker first accepts the flow if its         *)
(* destination is reachable in the topology (reacheables_elements_from);   *)
(* DebugCodeGenerator#find_path_between then runs the class Dijkstra on    *)
(* the links of the same topology and looks up one link for each hop of    *)
(* the shortest path.                                                      *)
(*                                                                         *)
(* One action is one turn of the main loop of Dijkstra or one call of its  *)
(* recursive method road.                                                  *)
(***************************************************************************)
EXTENDS Integers, SequencesExt

CONSTANTS Node,        \* hosts and routers, numbers greater than 0
          Host,        \* the nodes that may be ends of a flow
          Topologies,  \* sequences of links [src, dst, weight]
          Inf          \* Float::INFINITY, above every sum of weights

None == 0              \* the 0 with which @f is filled
Unset == -1            \* pos_min before a node has been picked

Link == [src : Node, dst : Node, weight : Nat \ {0}]

(* No element is linked to itself.  A way that visits no node twice has    *)
(* less than Cardinality(Node) links, all of them together cheaper than    *)
(* Inf.                                                                    *)
ASSUME PathAssumption ==
    /\ Node \subseteq Nat \ {0} /\ IsFiniteSet(Node) /\ Host \subseteq Node
    /\ Inf \in Nat
    /\ Topologies \subseteq Seq(Link)
    /\ \A t \in Topologies : \A l \in ToSet(t) : l.src # l.dst
    /\ \E largest \in 0 .. Inf :
          /\ largest * Cardinality(Node) < Inf
          /\ \A t \in Topologies : \A l \in ToSet(t) : l.weight <= largest

VARIABLES links,       \* the links of the topology, the rows of the matrix
          start, end,  \* the hosts of the flow
          pending,     \* calls of reacheables_elements_from still to be made
          reached,     \* actual_set_of_reacheables
          nodes,       \* @nodes
          road,        \* @road
          r,           \* node -> cost of the best path found, @r
          f,           \* node -> its predecessor on that path, @f
          s,           \* the nodes whose @s is 1
          posMin,      \* the node picked in the last turn
          turn,        \* turns of the main loop so far
          node,        \* argument of the next call of the method road
          path,        \* @path
          pc           \* "check", "loop", "road", "done", "rejected" or "raised"

checkVars == <<pending, reached>>
graphVars == <<nodes, road>>
searchVars == <<r, f, s, posMin, turn>>
roadVars == <<node, path>>
vars == <<links, start, end, checkVars, graphVars, searchVars, roadVars, pc>>

Init ==
    /\ links \in Topologies
    /\ start \in Host /\ end \in Host \ {start}
    /\ pending = <<start>>
    /\ reached = {}
    /\ nodes = <<>> /\ road = <<>>
    /\ r = <<>> /\ f = <<>> /\ s = {} /\ posMin = Unset /\ turn = 0
    /\ node = None /\ path = <<>>
    /\ pc = "check"

-----------------------------------------------------------------------------
(* SemanticRulesChecker *)

(* The elements at the other ends of an element's outgoing links.          *)
out_elements(element) ==
    LET out[i \in 0 .. Len(links)] ==
            IF i = 0 THEN <<>>
            ELSE IF links[i].src = element THEN Append(out[i - 1], links[i].dst) ELSE out[i - 1]
    IN  out[Len(links)]

VisitElement_DropsSiblings ==
    /\ pc = "check"
    /\ pending # <<>>
    /\ IF Head(pending) \in reached
       THEN pending' = Tail(pending) /\ UNCHANGED reached
       ELSE /\ pending' = out_elements(Head(pending))
            /\ reached' = reached \cup {Head(pending)}
    /\ UNCHANGED <<links, start, end, graphVars, searchVars, roadVars, pc>>

(* One call of reacheables_elements_from: an element that is already in    *)
(* the set returns, any other is added and its neighbours are visited.     *)
VisitElement ==
    /\ pc = "check"
    /\ pending # <<>>
    /\ IF Head(pending) \in reached
       THEN pending' = Tail(pending) /\ UNCHANGED reached
       ELSE /\ pending' = out_elements(Head(pending)) \o Tail(pending)
            /\ reached' = reached \cup {Head(pending)}
    /\ UNCHANGED <<links, start, end, graphVars, searchVars, roadVars, pc>>

(* check_if_path_exist_in raises a semantic error.                         *)
RejectFlow ==
    /\ pc = "check"
    /\ pending = <<>>
    /\ end \notin reached
    /\ pc' = "rejected"
    /\ UNCHANGED <<links, start, end, checkVars, graphVars, searchVars, roadVars>>

-----------------------------------------------------------------------------
(* Dijkstra *)

(* The ends of all rows, and those of them in the order of their first     *)
(* appearance.                                                             *)
RowEnds(matrix) ==
    [i \in 1 .. 2 * Len(matrix) |-> IF i % 2 = 1 THEN matrix[(i + 1) \div 2].src ELSE matrix[i \div 2].dst]
Firsts(ends) == {i \in DOMAIN ends : \A j \in 1 .. i - 1 : ends[j] # ends[i]}
Rank(set, i) == Cardinality({j \in set : j <= i})
number_of_vertices(matrix) ==
    LET ends == RowEnds(matrix)
        first == Firsts(ends)
    IN  [k \in 1 .. Cardinality(first) |-> ends[CHOOSE i \in first : Rank(first, i) = k]]

(* read_and_init: of several rows for a pair the last one counts.          *)
read_and_init(matrix) ==
    [p \in Node \X Node |->
        LET rows == {i \in DOMAIN matrix : <<matrix[i].src, matrix[i].dst>> = p}
        IN  IF rows # {} THEN matrix[Max(rows)].weight
            ELSE IF p[1] = p[2] THEN 0 ELSE Inf]

(* The flow is accepted and find_path_between calls Dijkstra.new.          *)
StartSearch ==
    /\ pc = "check"
    /\ pending = <<>>
    /\ end \in reached
    /\ nodes' = number_of_vertices(links)
    /\ road' = read_and_init(links)
    /\ r' = [i \in ToSet(nodes') |-> road'[<<start, i>>]]
    /\ f' = [i \in ToSet(nodes') |-> IF i # start /\ r'[i] < Inf THEN start ELSE None]
    /\ s' = {start}
    /\ pc' = "loop"
    /\ UNCHANGED <<links, start, end, checkVars, posMin, turn, roadVars>>

IsMinimum(n, open) == \A o \in open : r[n] <= r[o]

(* The search for the minimum: the first of the cheapest unsettled nodes   *)
(* in the order of @nodes.  pos_min keeps its value when there is none.    *)
Picked ==
    LET open == {n \in ToSet(nodes) \ s : r[n] < Inf}
        cheapest == {k \in DOMAIN nodes : nodes[k] \in open /\ IsMinimum(nodes[k], open)}
    IN  IF open = {} THEN posMin ELSE nodes[Min(cheapest)]

RelaxedFather_NotRecorded(j, m) == f[j]

RelaxedFather(j, m) == m

(* One turn of the main loop of get_shortests_path_per_vertex.  Without    *)
(* any pos_min, @r yields its default, an Array, and the comparison raises *)
(* an ArgumentError.                                                       *)
LoopTurn ==
    /\ pc = "loop"
    /\ turn < Len(nodes) - 1
    /\ IF Picked = Unset
       THEN /\ pc' = "raised"
            /\ UNCHANGED searchVars
       ELSE LET m == Picked
                better == {j \in ToSet(nodes) \ (s \cup {m}) : road[<<m, j>>] < Inf /\ r[j] > r[m] + road[<<m, j>>]}
            IN  /\ posMin' = m
                /\ s' = s \cup {m}
                /\ r' = [j \in DOMAIN r |-> IF j \in better THEN r[m] + road[<<m, j>>] ELSE r[j]]
                /\ f' = [j \in DOMAIN f |-> IF j \in better THEN RelaxedFather(j, m) ELSE f[j]]
                /\ turn' = turn + 1
                /\ pc' = pc
    /\ UNCHANGED <<links, start, end, checkVars, graphVars, roadVars>>

LoopEnds ==
    /\ pc = "loop"
    /\ turn = Len(nodes) - 1
    /\ pc' = "road"
    /\ node' = end
    /\ UNCHANGED <<links, start, end, checkVars, graphVars, searchVars, path>>

(* road calls itself for the predecessor before it pushes the node.        *)
RoadStep ==
    /\ pc = "road"
    /\ path' = <<node>> \o path
    /\ IF f[node] = None
       THEN pc' = "done" /\ UNCHANGED node
       ELSE node' = f[node] /\ UNCHANGED pc
    /\ UNCHANGED <<links, start, end, checkVars, graphVars, searchVars>>

Next == VisitElement \/ RejectFlow \/ StartSearch \/ LoopTurn \/ LoopEnds \/ RoadStep

Spec == Init /\ [][Next]_vars

FairSpec == Spec /\ WF_vars(Next)

-----------------------------------------------------------------------------
(* Reference: all ways from one node to another that visit no node twice,  *)
(* and what they cost, Inf or more when a link is missing.                 *)
Ways == UNION {{p \in [1 .. n -> Node] : IsInjective(p)} : n \in 1 .. Cardinality(Node)}
CostOf(p) ==
    LET sum[i \in 0 .. Len(p) - 1] == IF i = 0 THEN 0 ELSE sum[i - 1] + road[<<p[i], p[i + 1]>>]
    IN  sum[Len(p) - 1]
IsDistance(i, cost) ==
    LET ways == {p \in Ways : p[1] = start /\ Last(p) = i}
    IN  (\A p \in ways : cost <= CostOf(p)) /\ (\E p \in ways : cost = CostOf(p))

(* A node that has been picked has its final cost, whatever is relaxed     *)
(* later: the argument that makes Dijkstra's algorithm correct.            *)
SettledExact == \A i \in s : r[i] < Inf => IsDistance(i, r[i])

(* The path ends up as a chain of links of the topology from source to     *)
(* destination, so that find_path_between finds a link for every hop, and  *)
(* no other chain is cheaper.                                              *)
PathIsShortest ==
    pc = "done" =>
        /\ Head(path) = start /\ Last(path) = end
        /\ \A i \in 1 .. Len(path) - 1 : \E l \in ToSet(links) : l.src = path[i] /\ l.dst = path[i + 1]
        /\ IsDistance(end, CostOf(path))

(* The check rejects exactly the flows without a chain of links, and a     *)
(* flow it accepts never makes the generator raise or recurse forever: the *)
(* two components agree on what is reachable.                              *)
HasWay == \E p \in Ways : p[1] = start /\ Last(p) = end /\
              \A i \in 1 .. Len(p) - 1 : \E l \in ToSet(links) : l.src = p[i] /\ l.dst = p[i + 1]
AcceptedIsRouted == <>(pc = IF HasWay THEN "done" ELSE "rejected")

(* Dijkstra's loop settles a node only with its distance from the start,   *)
(* and the predecessors it recorded yield a cheapest chain of links.       *)
ShortestPaths == SettledExact /\ PathIsShortest
=============================================================================
