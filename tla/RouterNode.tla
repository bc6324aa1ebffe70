----------------------------- MODULE RouterNode -----------------------------
(***************************************************************************)
(* A simulated router: the Routing model (PhaseI/Router.cpp) in front of   *)
(* its egress ports, one of them (ThisPort) in full detail.  Packets reach *)
(* Routing from the links of neighbouring nodes, and the packets that may  *)
(* reach it at the same time come from different neighbours, for a link    *)
(* ends one transmission at a time.                                        *)
(*                                                                         *)
(* The model follows the engine's choice among nodes with an event at the  *)
(* same simulated time.  A neighbour with a lower index in the root        *)
(* coupling steps before this router does anything at that time; one with  *)
(* a higher index steps when this router has nothing left to do.  Within   *)
(* the router, Routing (child 0) precedes the ports.                       *)
(***************************************************************************)
EXTENDS EgressPort, RoutingTable

CONSTANTS FlowOf,      \* packet -> its flow, or NoFlow
          NoFlow,      \* a packet without the flow protocol
          Routes,      \* the entries that the routes of the flows consist of
          ThisNode,    \* the name of this router
          ThisPort     \* the egress port in EgressPort

ASSUME RouterAssumption ==
    /\ FlowOf \in [Packet -> Flow \cup {NoFlow}]
    /\ NoFlow \notin Flow
    /\ Routes \subseteq Entry
    /\ ThisNode \in Node
    /\ ThisPort \in Port

VARIABLES
    phase,             \* "loading" the table, then "running"
    outputPackets,     \* Router::outputPackets; sigma is 0 iff not empty
    lastIndex,         \* Router::lastOutputPortIndexPerFlow, 0 before the first
    instant,           \* "fresh" until this router steps at the current time
    burst,             \* history: packets from preceding neighbours at this time
    received,          \* history: routed packets in the order of reception
    forwarded          \* history: flow -> port -> packets sent through it

routingVars == <<outputPackets, lastIndex, instant, burst, received, forwarded>>
routerVars  == <<vars, tableVars, phase, routingVars>>

RouterInit ==
    /\ Init
    /\ forcedPeriod = "infinite"
    /\ TableInit
    /\ phase = "loading"
    /\ outputPackets = <<>>
    /\ lastIndex = [f \in Flow |-> 0]
    /\ instant = "fresh"
    /\ burst = 0
    /\ received = <<>>
    /\ forwarded = [f \in Flow |-> <<>>]

(* The routes of the flows are added before the simulation starts.         *)
LoadTable ==
    /\ phase = "loading"
    /\ (\E e \in Routes : addEntry(e.flow, e.node, e.port)) \/ emptyTable
    /\ UNCHANGED <<vars, phase, routingVars>>

OutPorts(f) == getOutPorts(f, ThisNode)

StartSimulation ==
    /\ phase = "loading"
    /\ phase' = "running"
    /\ forwarded' = [f \in Flow |-> [i \in DOMAIN OutPorts(f) |-> 0]]
    /\ UNCHANGED <<vars, tableVars, outputPackets, lastIndex, instant, burst, received>>

RoutingIdle == outputPackets = <<>>

applyLoadBalancingPolicy_Sticky(f) == 1

(* Router::applyLoadBalancingPolicy: round robin over the flow's ports.    *)
applyLoadBalancingPolicy(f) ==
    IF lastIndex[f] >= Len(OutPorts(f)) THEN 1 ELSE lastIndex[f] + 1

(* Router::dext.  Packets without flow protocol, such as the fake packet   *)
(* that links emit first, are ignored; a flow without a port throws.       *)
RoutingDext(p) ==
    IF FlowOf[p] = NoFlow
    THEN UNCHANGED <<portVars, error, outputPackets, lastIndex, received, forwarded>>
    ELSE IF OutPorts(FlowOf[p]) = <<>>
    THEN /\ Throw("Router::dext")
         /\ UNCHANGED <<outputPackets, lastIndex, received, forwarded>>
    ELSE LET f == FlowOf[p]
             i == applyLoadBalancingPolicy(f)
         IN  /\ lastIndex' = [lastIndex EXCEPT ![f] = i]
             /\ outputPackets' = Append(outputPackets, <<i, p>>)
             /\ received' = Append(received, p)
             /\ UNCHANGED <<portVars, error, forwarded>>

(* A neighbour that comes before this router delivers a packet.            *)
ReceiveBefore(p) ==
    /\ Running
    /\ p \in unsent
    /\ unsent' = unsent \ {p}
    /\ UNCHANGED forcedPeriod
    /\ instant = "fresh"
    /\ RoutingDext(p)
    /\ burst' = burst + (Len(received') - Len(received))
    /\ UNCHANGED instant

(* A neighbour that comes after it does.                                   *)
ReceiveAfter(p) ==
    /\ Running
    /\ p \in unsent
    /\ unsent' = unsent \ {p}
    /\ UNCHANGED forcedPeriod
    /\ RoutingIdle /\ Quiescent
    /\ RoutingDext(p)
    /\ instant' = "stepped"
    /\ UNCHANGED burst

NextOutput == Head(outputPackets)

StillPending_NoPop == outputPackets

(* outputPackets after the pop in Router::lambda.                          *)
StillPending == Tail(outputPackets)

(* Router::lambda, PacketPrioritySelect::dext of the chosen port,          *)
(* Router::dint.                                                           *)
ForwardStep ==
    /\ Running
    /\ outputPackets # <<>>
    /\ LET i == NextOutput[1]
           p == NextOutput[2]
       IN  /\ IF OutPorts(FlowOf[p])[i] = ThisPort THEN SelectDext(p)
              ELSE UNCHANGED <<portVars, error>>
           /\ forwarded' = [forwarded EXCEPT ![FlowOf[p]][i] = @ + 1]
    /\ outputPackets' = StillPending
    /\ instant' = "stepped"
    /\ UNCHANGED <<forcedPeriod, unsent, lastIndex, burst, received>>

(* A step of the port, once Routing has nothing to send.  Only the end of  *)
(* a transmission lets time pass.                                          *)
PortStep ==
    /\ RoutingIdle
    /\ Engine
    /\ IF linkNext = "later" /\ linkNext' = "now"
       THEN instant' = "fresh" /\ burst' = 0
       ELSE instant' = "stepped" /\ UNCHANGED burst
    /\ UNCHANGED <<outputPackets, lastIndex, received, forwarded>>

(* Time passes and nothing happens in this router.                         *)
TimePasses ==
    /\ Running
    /\ RoutingIdle /\ Quiescent
    /\ instant = "stepped"
    /\ instant' = "fresh"
    /\ burst' = 0
    /\ UNCHANGED <<vars, outputPackets, lastIndex, received, forwarded>>

Simulate ==
    /\ phase = "running"
    /\ \/ ForwardStep \/ PortStep \/ TimePasses
       \/ \E p \in Packet : ReceiveBefore(p) \/ ReceiveAfter(p)
    /\ UNCHANGED <<tableVars, phase>>

RouterNext == LoadTable \/ StartSimulation \/ Simulate

RouterSpec == RouterInit /\ [][RouterNext]_routerVars

-----------------------------------------------------------------------------
(* "if 2 packets arrive in the same t, the first one might be lost [...]   *)
(* It should never happen though" (PacketPrioritySelect::dext).  It can    *)
(* happen, and ends the simulation, but only if Routing has received at    *)
(* least two packets at the current time from neighbours that precede the  *)
(* router in the root coupling.  Packets that reach the router at          *)
(* different times, or from neighbours that follow it, never make it       *)
(* throw.                                                                  *)
PreemptedOnlyByBurst == error = "PacketPrioritySelect::dext" => burst >= 2

(* The packets that left through this port left in the order in which the  *)
(* router received them, within each class of service.                     *)
OrderPreserved ==
    \A q \in Queue : \A i, j \in DOMAIN delivered[q] :
        i < j => \E k, l \in DOMAIN received :
                    k < l /\ received[k] = delivered[q][i] /\ received[l] = delivered[q][j]

(* A packet leaves only through a port that a route of its own flow gave   *)
(* to this router, whatever was added to the table, in which order, and    *)
(* how often; the names of flow and router must be unambiguous.            *)
RoutedAsConfigured ==
    \A q \in Queue : \A i \in DOMAIN delivered[q] :
        LET f == FlowOf[delivered[q][i]]
        IN  Unambiguous(f, ThisNode) => [flow |-> f, node |-> ThisNode, port |-> ThisPort] \in requested

(* Round robin: however the packets of several flows interleave, and       *)
(* however many of them wait in Routing, the numbers of packets of a flow  *)
(* sent through any two of its entries in the table differ by at most one. *)
LoadBalanced ==
    \A f \in Flow : \A i, j \in DOMAIN forwarded[f] :
        forwarded[f][i] <= forwarded[f][j] + 1

(* Whatever sequence of addEntry and emptyTable filled the table: every    *)
(* port configured for a flow at a node is found there, no port of another *)
(* flow is, and no packet leaves through a port that was not configured    *)
(* for it.                                                                 *)
RoutesExact == RoutesFound /\ OwnRoutesOnly /\ RoutedAsConfigured
=============================================================================
