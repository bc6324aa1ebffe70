---------------------------- MODULE RoutingTable ----------------------------
(***************************************************************************)
(* The routing table that all routers of a simulation share                *)
(* (NetworkData/GlobalFlowBasedRoutingTable.h): a std::multimap from flow  *)
(* and node to output ports, filled with the routes of the flows before    *)
(* the simulation starts.                                                  *)
(*                                                                         *)
(* Two keys are compared by their compareValue, the flow's name followed   *)
(* by the node's.  Names are sequences here, for the table depends on how  *)
(* they concatenate.                                                       *)
(***************************************************************************)
EXTENDS Naturals, SequencesExt

CONSTANTS Letter,      \* what names consist of
          Flow,        \* names of flows, sequences of letters
          Node,        \* full names of the Routing models
          Port,        \* output ports
          MaxEntries   \* bound on the entries in the table

ASSUME TableAssumption ==
    /\ Flow \subseteq Seq(Letter) /\ Node \subseteq Seq(Letter)
    /\ Port \subseteq Nat
    /\ MaxEntries \in Nat

Entry == [flow : Flow, node : Node, port : Port]

VARIABLES routingTable,  \* key -> ports in the order of their insertion
          requested      \* history: the entries passed to addEntry

tableVars == <<routingTable, requested>>

compareValue(f, n) == f \o n

(* Keys are the same when their compareValues are.                         *)
Key == {compareValue(f, n) : f \in Flow, n \in Node}

(* multimap::equal_range yields equal keys in the order of their insertion.*)
getOutPorts(f, n) == routingTable[compareValue(f, n)]

AlreadyThere_AnyPort(f, n, port) == getOutPorts(f, n) # <<>>

(* The check at the beginning of addEntry: find yields, in libstdc++, the  *)
(* first of equal keys.                                                    *)
AlreadyThere(f, n, port) == getOutPorts(f, n) # <<>> /\ Head(getOutPorts(f, n)) = port

TableInit ==
    /\ routingTable = [k \in Key |-> <<>>]
    /\ requested = {}

Entries == MapThenSumSet(LAMBDA k : Len(routingTable[k]), Key)

(* addEntry; addFlowRouteEntry calls it for every hop of a route.          *)
addEntry(f, n, port) ==
    /\ Entries < MaxEntries
    /\ routingTable' = IF AlreadyThere(f, n, port) THEN routingTable
                       ELSE [routingTable EXCEPT ![compareValue(f, n)] = Append(@, port)]
    /\ requested' = requested \cup {[flow |-> f, node |-> n, port |-> port]}

emptyTable ==
    /\ routingTable' = [k \in Key |-> <<>>]
    /\ requested' = {}

-----------------------------------------------------------------------------
(* Every hop of every route that was added is found again, whatever was    *)
(* added before and after it.                                              *)
RoutesFound ==
    \A e \in requested : \E i \in DOMAIN getOutPorts(e.flow, e.node) :
        getOutPorts(e.flow, e.node)[i] = e.port

(* "this RoutingTable just returns all the possible outports" of "a given  *)
(* flow (identified by ID) and device (deviceName)": a router is only told *)
(* of ports that were configured for this flow at this node.  That is true *)
(* of a flow and a node whose names concatenate to something no other pair *)
(* yields; pairs such as F at AR and FA at R share their ports.            *)
Unambiguous(f, n) == \A g \in Flow, m \in Node : g \o m = f \o n => g = f
OwnRoutesOnly ==
    \A f \in Flow, n \in Node : Unambiguous(f, n) => \A i \in DOMAIN getOutPorts(f, n) :
        [flow |-> f, node |-> n, port |-> getOutPorts(f, n)[i]] \in requested
=============================================================================
