---------------------------- MODULE FelixServer ----------------------------
(***************************************************************************)
(* The traffic generator of a simulated host (PhaseI/FelixServer.cpp).     *)
(* It interleaves the packets of all flows that start at the host: for     *)
(* each flow it keeps the time of its next packet, drawn from the flow's   *)
(* period distribution, and its own next event is the earliest of them.    *)
(* Distributions are arbitrary choices from a set of values; sizes pass    *)
(* through the correction of getNextPacketSize_bits.                       *)
(***************************************************************************)
EXTENDS Integers, Sequences

CONSTANTS NFlows,      \* flows registered for this host, at least one
          Start,       \* flow -> startTime
          Period,      \* values of the period distributions
          RawSize,     \* values of the packet size distributions
          MaxPackets   \* bound on the packets generated

ServerFlow == 0 .. NFlows - 1

ASSUME ServerAssumption ==
    /\ NFlows \in Nat \ {0}
    /\ Start \in [ServerFlow -> Int]
    /\ Period \subseteq Int /\ RawSize \subseteq Int
    /\ MaxPackets \in Nat

VARIABLES nextsValuesOfGeneration,  \* flow -> time of its next packet
          currFlowToGenPacket,      \* the flow that generates it
          first,                    \* history: flow -> the period drawn by init
          sent                      \* history: the packets, in order, each with
                                    \* the period drawn after it

serverVars == <<nextsValuesOfGeneration, currFlowToGenPacket, first, sent>>

EarlierFlow_AgainstFirst(next, curr, i) == next[0] > next[i]

(* The comparison of SetStateForNextFlowToGeneratePacket.                  *)
EarlierFlow(next, curr, i) == next[curr] > next[i]

(* The loop of SetStateForNextFlowToGeneratePacket, by the turns it has    *)
(* made: on equal times the flow that generated last goes on, then the one *)
(* with the lowest index.                                                  *)
NextFlow(next, curr) ==
    LET flow[turns \in 0 .. NFlows] ==
          IF turns = 0 THEN curr
          ELSE IF EarlierFlow(next, flow[turns - 1], turns - 1) THEN turns - 1 ELSE flow[turns - 1]
    IN  flow

SetStateForNextFlowToGeneratePacket(next, curr) == NextFlow(next, curr)[NFlows]

(* When a flow begins, in FelixServer::init at time 0.                     *)
StartOf(f) == IF Start[f] > 0 THEN Start[f] ELSE 0

(* FelixServer::init.                                                      *)
ServerInit ==
    /\ first \in [ServerFlow -> Period]
    /\ nextsValuesOfGeneration = [f \in ServerFlow |-> first[f] + StartOf(f)]
    /\ currFlowToGenPacket = SetStateForNextFlowToGeneratePacket(nextsValuesOfGeneration, 0)
    /\ sent = <<>>

getNextPacketSize_bits(raw) == IF raw <= 0 THEN 1 ELSE raw

NextGeneration_FromStart(t, period) == period + Start[currFlowToGenPacket]

(* The time FelixServer::dint gives the flow that has just generated.      *)
NextGeneration(t, period) == period + t

(* One event of the server: lambda with createPacket, then dint.           *)
Generate(raw, period) ==
    LET f == currFlowToGenPacket
        t == nextsValuesOfGeneration[f]
    IN  /\ Len(sent) < MaxPackets
        /\ sent' = Append(sent, [flow |-> f, birth |-> t, size |-> getNextPacketSize_bits(raw), after |-> period])
        /\ nextsValuesOfGeneration' = [nextsValuesOfGeneration EXCEPT ![f] = NextGeneration(t, period)]
        /\ currFlowToGenPacket' = SetStateForNextFlowToGeneratePacket(nextsValuesOfGeneration', f)
        /\ UNCHANGED first

ServerNext == \E raw \in RawSize, period \in Period : Generate(raw, period)

ServerSpec == ServerInit /\ [][ServerNext]_serverVars

-----------------------------------------------------------------------------
(* Packets never have a size below one bit, whatever the distribution.     *)
ServerTypeOK ==
    /\ nextsValuesOfGeneration \in [ServerFlow -> Int]
    /\ currFlowToGenPacket \in ServerFlow
    /\ first \in [ServerFlow -> Int]
    /\ sent \in Seq([flow : ServerFlow, birth : Int, size : Nat \ {0}, after : Int])

(* However the flows interleave, the first packet of a flow is born its    *)
(* first period after its start, and every other one the period drawn for  *)
(* it after the packet of that flow before it.                             *)
OfFlowBefore(i, f) == \E k \in 1 .. i - 1 : sent[k].flow = f
OnSchedule ==
    /\ \A i \in DOMAIN sent : LET f == sent[i].flow
                              IN  ~OfFlowBefore(i, f) => sent[i].birth = first[f] + StartOf(f)
    /\ \A i, j \in DOMAIN sent :
          /\ i < j /\ sent[i].flow = sent[j].flow
          /\ \A k \in i + 1 .. j - 1 : sent[k].flow # sent[j].flow
          => sent[j].birth = sent[i].birth + sent[i].after

(* "packetsAreGeneratedInOrder" (a case of FelixServerTest): births, and   *)
(* with them the clock of the engine, go back only right after a negative  *)
(* period, and then for a packet of the same flow.  The distributions that *)
(* Flow_concrete_builder.rb generates include normal ones, whose values    *)
(* dint does not correct.                                                  *)
GeneratedInOrder ==
    \A i \in 1 .. Len(sent) - 1 :
        \/ sent[i].birth <= sent[i + 1].birth
        \/ sent[i].after < 0 /\ sent[i + 1].flow = sent[i].flow

(* However the flows interleave: every flow keeps to its own schedule, and *)
(* every packet has at least one bit.                                      *)
ScheduleInv == ServerTypeOK /\ OnSchedule
=============================================================================
