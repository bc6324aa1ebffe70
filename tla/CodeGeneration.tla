--------------------------- MODULE CodeGeneration ---------------------------
(***************************************************************************)
(* What `haikunet' does with a parsed program (lib/haikunet, interpretate):*)
(* it takes a snapshot of the network, checks the flows against it and     *)
(* extends it by new hosts (SemanticRulesChecker), builds and runs a       *)
(* simulation from the same object (DebugCodeGenerator), and then, from a  *)
(* second copy of the snapshot, turns hosts and flows into requests to an  *)
(* ONOS or an OpenDaylight controller, which it sends one by one.          *)
(*                                                                         *)
(* The controller is external.  It learns of hosts on its own, refuses     *)
(* requests, and its answers may be lost.  The user may run the program    *)
(* again, whatever came of it.                                             *)
(*                                                                         *)
(* Reachability and path search are FlowPaths, here a verdict.  A host is  *)
(* a mac in the checked and simulated topology, a mac and a vlan for the   *)
(* ONOS controller.  Switch and port are well defined or not; ips decide   *)
(* nothing.  Intents (actions and conditions) lead to no request.          *)
(***************************************************************************)
EXTENDS Integers, SequencesExt

CONSTANTS Mac,           \* addresses of hosts
          Vlan, Untagged,  \* vlans of hosts, and the one of a host without (-1)
          Network,       \* bound on the hosts of the network, each a mac in a vlan
          Programs,      \* sequences of identifiers with Host and Flow values
          IntentId,      \* identifiers that the OpenDaylight generator draws from
          MaxRuns        \* bound on the runs of the program

NetworkHost == [mac : Mac, vlan : Vlan]

(* Identifiers.  `first' is the value of a host's first parameter,         *)
(* `definable' says that it names a switch of the network, a vlan and a    *)
(* port; without one, get_host_params takes the vlan to be Untagged.  A    *)
(* flow has hosts or literal addresses as its ends.                        *)
HostOf(mac, vlan, first, definable) ==
    [kind |-> "host", mac |-> mac, vlan |-> vlan, first |-> first, definable |-> definable]
Literal(mac) == [kind |-> "literal", mac |-> mac]
FlowOf(src, dst) == [kind |-> "flow", src |-> src, dst |-> dst]

HostValue    == [kind : {"host"}, mac : Mac, vlan : Vlan, first : Mac, definable : BOOLEAN]
LiteralValue == [kind : {"literal"}, mac : Mac]
Ends         == Seq(HostValue \cup LiteralValue)
FlowValue    == [kind : {"flow"}, src : Ends, dst : Ends]

(* The parser resolves references to earlier identifiers only.  No random  *)
(* identifier is the end point of the ONOS generator's requests.           *)
ASSUME ProgramAssumption ==
    /\ Programs \subseteq Seq(HostValue \cup FlowValue) \ {<<>>}
    /\ \A p \in Programs : \A i \in DOMAIN p : p[i].kind = "flow" =>
           \A e \in ToSet(p[i].src \o p[i].dst) :
               e.kind = "host" => \E j \in 1 .. i - 1 : p[j] = e
    /\ Untagged \in Vlan
    /\ Network \subseteq NetworkHost
    /\ {"hosts", "intents"} \cap IntentId = {}
    /\ MaxRuns \in Nat

VARIABLES
    program, destiny,      \* the command line: what to run and for which controller,
    source,                \* and where the topology comes from: that controller or not
    hosts,                 \* controller: the hosts it knows
    onosIntents,           \* controller: host to host intents, in order of creation
    odlIntents,            \* controller: IntentId -> intent
    pc,                    \* phase of the run
    pos,                   \* index of the next identifier in the current phase
    snapshot,              \* hosts of NetworkProvider's initial topology
    added,                 \* hosts added to the copy that is checked and simulated
    requests, sent,        \* requests of this run, and how many have been sent
    runs,                  \* number of runs so far
    before                 \* history: the controller's intents when the run started

intents == <<onosIntents, odlIntents>>
cgVars == <<program, destiny, source, hosts, intents, pc, pos, snapshot, added, requests, sent, runs, before>>

NoIntent == <<>>
Running  == {"checking", "building", "simulating", "generating", "posting"}
Ended    == {"idle", "written", "rejected", "failed"}

Identifiers(kind) == {i \in DOMAIN program : program[i].kind = kind}
ProgramHosts == {program[i] : i \in Identifiers("host")}
HasMac(set, mac) == \E h \in set : h.mac = mac

Init ==
    /\ program \in Programs
    /\ destiny \in {"ONOS", "OPENDAYLIGHT"}
    /\ source \in {"controller", "other"}
    /\ hosts \in SUBSET Network
    /\ onosIntents = <<>>
    /\ odlIntents = [i \in IntentId |-> NoIntent]
    /\ pc = "idle" /\ pos = 1
    /\ snapshot = {} /\ added = <<>>
    /\ requests = <<>> /\ sent = 0
    /\ runs = 0
    /\ before = intents

-----------------------------------------------------------------------------
(* The controller (external).                                              *)

(* It detects a host that sends packets.                                   *)
HostDiscovered(host) ==
    /\ host \notin hosts
    /\ hosts' = hosts \cup {host}
    /\ UNCHANGED <<program, destiny, source, intents, pc, pos, snapshot, added, requests, sent, runs, before>>

(* It carries out a request: POST hosts creates a host or updates the one  *)
(* with that mac and vlan, POST intents creates an intent, PUT creates or  *)
(* replaces the one of that id.                                            *)
Accepts(request) ==
    CASE request.end_point = "hosts" ->
            /\ hosts' = hosts \cup {request.message}
            /\ UNCHANGED intents
      [] request.end_point = "intents" ->
            /\ onosIntents' = Append(onosIntents, request.message)
            /\ UNCHANGED <<hosts, odlIntents>>
      [] OTHER ->
            /\ odlIntents' = [odlIntents EXCEPT ![request.end_point] = request.message]
            /\ UNCHANGED <<hosts, onosIntents>>

-----------------------------------------------------------------------------
(* The list of requests is a local variable of generate_output.            *)
SentAtStart == 0

(* The user runs the program.  NetworkProvider gets the topology, which is *)
(* a file or another controller's when the user says so.                   *)
Start ==
    /\ pc \in Ended /\ runs < MaxRuns
    /\ runs' = runs + 1
    /\ pc' = "checking" /\ pos' = 1
    /\ snapshot' \in IF source = "controller" THEN {hosts} ELSE SUBSET Network
    /\ added' = <<>>
    /\ requests' = <<>> /\ sent' = SentAtStart
    /\ before' = intents
    /\ UNCHANGED <<program, destiny, source, hosts, intents>>

(* An exception ends the run: interpretate is rescued and its class shown. *)
Raise(how) ==
    /\ pc' = how
    /\ UNCHANGED <<program, destiny, source, hosts, intents, pos, snapshot, added, requests, sent, runs, before>>

(* The end of one loop over the identifiers begins the next phase.         *)
Advance(next) ==
    IF pos < Len(program) THEN pos' = pos + 1 /\ UNCHANGED pc ELSE pos' = 1 /\ pc' = next

Simulated == snapshot \cup ToSet(added)

(* SemanticRulesChecker#values_defined_in_flows_are_defined_in_topology,   *)
(* for the literal addresses of all flows at once.                         *)
LiteralsKnown ==
    \A i \in Identifiers("flow") : \A e \in ToSet(program[i].src \o program[i].dst) :
        e.kind = "literal" => HasMac(snapshot, e.mac)

(* SemanticRulesChecker#obtain_host_topology_representation_of: a host is  *)
(* found by its mac and otherwise defined.  The lookup by ip in between    *)
(* finds none: ips are lists, and it asks whether one is the class Array,  *)
(* or an element of the other.                                             *)
WithEnd(new, e) ==
    IF e.kind = "literal" \/ HasMac(snapshot \cup ToSet(new), e.mac) THEN new ELSE Append(new, e)

(* The added hosts after the first, second, ... end of a flow.             *)
Represented(ends) ==
    LET new[i \in 0 .. Len(ends)] == IF i = 0 THEN added ELSE WithEnd(new[i - 1], ends[i]) IN new

(* SemanticRulesChecker#check_if_path_exist_in: a new host without switch, *)
(* or ends without a path (FlowPaths), are an error.                       *)
CheckIdentifier ==
    /\ pc = "checking"
    /\ IF program[pos].kind # "flow"
       THEN Advance("building") /\ UNCHANGED added
       ELSE /\ LiteralsKnown
            /\ LET ends == program[pos].src \o program[pos].dst IN added' = Represented(ends)[Len(ends)]
            /\ \A e \in ToSet(added') : e.definable
            /\ Advance("building")
    /\ UNCHANGED <<program, destiny, source, hosts, intents, snapshot, requests, sent, runs, before>>

CheckFails ==
    /\ pc = "checking"
    /\ program[pos].kind = "flow"
    /\ Raise("rejected")

InSimulation_Never(host) == FALSE

(* DebugCodeGenerator#is_defined_in_topology, on the object the checker    *)
(* has extended.                                                           *)
InSimulation(host) == HasMac(Simulated, host.mac)

(* DebugCodeGenerator#generate_output, one identifier: a host that is not  *)
(* there is added to the model.                                            *)
BuildIdentifier ==
    /\ pc = "building"
    /\ LET identifier == program[pos]
       IN  IF identifier.kind = "host" /\ ~InSimulation(identifier)
           THEN identifier.definable /\ added' = Append(added, identifier)
           ELSE /\ identifier.kind = "flow" =>
                       \A e \in ToSet(identifier.src \o identifier.dst) : e.kind # "literal"
                /\ UNCHANGED added
    /\ Advance("simulating")
    /\ UNCHANGED <<program, destiny, source, hosts, intents, snapshot, requests, sent, runs, before>>

(* A new host without switch is an error; get_macs_from knows no literal   *)
(* address, and find_path_between raises when Dijkstra finds no path.      *)
BuildFails ==
    /\ pc = "building"
    /\ \/ program[pos].kind = "host" /\ ~InSimulation(program[pos]) /\ ~program[pos].definable
       \/ program[pos].kind = "flow"
    /\ Raise("rejected")

(* asynchronous_properties waits for the simulation and ignores its result.*)
Simulate ==
    /\ pc = "simulating"
    /\ pc' = "generating"
    /\ UNCHANGED <<program, destiny, source, hosts, intents, pos, snapshot, added, requests, sent, runs, before>>

-----------------------------------------------------------------------------
(* What the ONOS controller knows a host of the program by.                *)
Address(host) == [mac |-> host.mac, vlan |-> host.vlan]

DefinedForOnos_InSimulation(host, answered) == HasMac(Simulated, host.mac)

(* OnosCodeGenerator#is_defined_in_topology asks the controller; without   *)
(* an answer the host counts as not defined.                               *)
DefinedForOnos(host, answered) == answered /\ Address(host) \in hosts

(* OpendaylightCodeGenerator#is_defined_in_topology compares the first     *)
(* parameter with the macs of the snapshot.                                *)
DefinedForOpendaylight(host) == HasMac(snapshot, host.first)

Macs(ends) == [i \in DOMAIN ends |-> ends[i].mac]

(* An ONOS intent names its ends without a vlan (mac/-1), whatever vlan    *)
(* the program gives them.                                                 *)
Named(mac) == [mac |-> mac, vlan |-> Untagged]
IntentOf(pair) == <<Named(pair[1]), Named(pair[2])>>

(* The loops over sources and destinies in OnosCodeGenerator.              *)
HostToHost(flow) ==
    LET src == Macs(flow.src)
        dst == Macs(flow.dst)
    IN  [k \in 1 .. Len(src) * Len(dst) |->
            [end_point |-> "intents",
             message |-> IntentOf(<<src[((k - 1) \div Len(dst)) + 1], dst[((k - 1) % Len(dst)) + 1]>>)]]

(* What generate_output pushes for an identifier.  `answered' is about the *)
(* question that the ONOS generator asks, `id' is random.                  *)
Pushed(identifier, answered, id) ==
    CASE destiny = "ONOS" /\ identifier.kind = "host" ->
             IF DefinedForOnos(identifier, answered) THEN <<>>
             ELSE <<[end_point |-> "hosts", message |-> Address(identifier)]>>
      [] destiny = "ONOS" /\ identifier.kind = "flow" -> HostToHost(identifier)
      [] destiny = "OPENDAYLIGHT" /\ identifier.kind = "host" -> <<>>
      [] destiny = "OPENDAYLIGHT" /\ identifier.kind = "flow" ->
             <<[end_point |-> id, message |-> <<Macs(identifier.src), Macs(identifier.dst)>>]>>

GenerateIdentifier(answered, id) ==
    /\ pc = "generating"
    /\ LET identifier == program[pos]
       IN  IF destiny = "OPENDAYLIGHT" /\ identifier.kind = "host" /\ ~DefinedForOpendaylight(identifier)
           THEN Raise("rejected")
           ELSE /\ requests' = requests \o Pushed(identifier, answered, id)
                /\ Advance("posting")
                /\ UNCHANGED <<program, destiny, source, hosts, intents, snapshot, added, sent, runs, before>>

(* The loop over the requests follows the one over the identifiers.        *)
MaySend == pc = "posting" /\ sent < Len(requests)

AfterFailure_Again == pc

(* `raise ... unless response.success?': no second attempt, nothing undone.*)
AfterFailure == "failed"

Send(accepted, answered) ==
    /\ MaySend
    /\ IF accepted THEN Accepts(requests[sent + 1]) ELSE UNCHANGED <<hosts, intents>>
    /\ IF accepted /\ answered
       THEN sent' = sent + 1 /\ UNCHANGED pc
       ELSE pc' = AfterFailure /\ UNCHANGED sent
    /\ UNCHANGED <<program, destiny, source, pos, snapshot, added, requests, runs, before>>

AllSent_Tried == sent >= Len(requests) - 1

AllSent == sent = Len(requests)

(* The requests are written to a file once all have been accepted.         *)
WriteFile ==
    /\ pc = "posting"
    /\ AllSent
    /\ pc' = "written"
    /\ UNCHANGED <<program, destiny, source, hosts, intents, pos, snapshot, added, requests, sent, runs, before>>

Run ==
    \/ CheckIdentifier \/ CheckFails \/ BuildIdentifier \/ BuildFails \/ Simulate
    \/ \E answered \in BOOLEAN, id \in IntentId : GenerateIdentifier(answered, id)
    \/ \E accepted, answered \in BOOLEAN : Send(accepted, answered)
    \/ WriteFile

Next == Start \/ Run \/ (\E host \in Network : HostDiscovered(host))

Spec == Init /\ [][Next]_cgVars

-----------------------------------------------------------------------------
Occurrences(sequence, x) == {i \in DOMAIN sequence : sequence[i] = x}
Count(sequence, x) == Cardinality(Occurrences(sequence, x))

(* How often the program asks for an intent between two hosts: by which    *)
(* flow, at which of its sources and destinies.                            *)
WantedBy(i, pair) ==
    {i} \X (Occurrences(Macs(program[i].src), pair[1]) \X Occurrences(Macs(program[i].dst), pair[2]))
Wanted(pair) == Cardinality(UNION {WantedBy(i, pair) : i \in Identifiers("flow")})

(* The number of the request that OpenDaylight gets for a flow.            *)
RequestOf(i) == Cardinality({j \in Identifiers("flow") : j <= i})

TypeOK ==
    /\ program \in Programs
    /\ hosts \subseteq NetworkHost /\ snapshot \subseteq NetworkHost
    /\ ToSet(added) \subseteq ProgramHosts
    /\ onosIntents \in Seq(NetworkHost \X NetworkHost)
    /\ pc \in Running \cup Ended
    /\ pos \in 1 .. Len(program)
    /\ sent \in 0 .. Len(requests)
    /\ runs \in 0 .. MaxRuns

(* Checker and generator of the simulation extend one object, one after    *)
(* the other, the one by the ends of flows, the other by the hosts of the  *)
(* program: still the simulated network has each host of the program, and  *)
(* adds none that it has.                                                  *)
SimulatedOnce ==
    pc \in Running =>
        /\ \A i, j \in DOMAIN added : i # j => added[i].mac # added[j].mac
        /\ \A i \in DOMAIN added : ~HasMac(snapshot, added[i].mac)
        /\ pc \in {"simulating", "generating", "posting"} =>
               \A i \in Identifiers("host") : HasMac(Simulated, program[i].mac)

(* The program gives a mac no vlan, wherever it defines a host of that mac.*)
NoVlan(mac) == \A i \in Identifiers("host") : program[i].mac = mac => program[i].vlan = Untagged

(* Whatever fails, and whatever an earlier run left behind: the controller *)
(* has no intent for a mac it does not know, and, when the program gives   *)
(* the mac no vlan, it knows the very host that the intent names.  Hosts   *)
(* are created in the order of the program, and skipped only if the        *)
(* controller has them.  With a vlan the named host, mac/-1, need not be   *)
(* known, since another one was created.  OpenDaylight has no such         *)
(* guarantee when the topology is not its own, or when a host's mac is not *)
(* its first parameter.                                                    *)
IntentsHaveHosts ==
    /\ \A i \in DOMAIN onosIntents : \A k \in {1, 2} :
           LET end == onosIntents[i][k]
           IN  /\ HasMac(hosts, end.mac)
               /\ NoVlan(end.mac) => end \in hosts
    /\ source = "controller" /\ (\A i \in Identifiers("host") : program[i].first = program[i].mac) =>
           \A id \in IntentId : \A k \in DOMAIN odlIntents[id] :
               \A mac \in ToSet(odlIntents[id][k]) : HasMac(hosts, mac)

(* A run that writes its file has installed the whole program, with one    *)
(* exception: OpenDaylight intents of one program may draw the same        *)
(* identifier, and the later replaces the earlier.                         *)
RecordedIsInstalled ==
    pc = "written" =>
        /\ destiny = "ONOS" =>
               /\ \A i \in Identifiers("host") : Address(program[i]) \in hosts
               /\ \A pair \in Mac \X Mac : Count(onosIntents, IntentOf(pair)) >= Wanted(pair)
        /\ destiny = "OPENDAYLIGHT" =>
               /\ Len(requests) = Cardinality(Identifiers("flow"))
               /\ \A i \in Identifiers("flow") :
                      LET r == RequestOf(i)
                      IN  \/ odlIntents[requests[r].end_point] = <<Macs(program[i].src), Macs(program[i].dst)>>
                          \/ \E later \in r + 1 .. Len(requests) : requests[later].end_point = requests[r].end_point

(* Running a program again repeats its ONOS intents, since nothing is      *)
(* undone and nothing is asked for, but a single run never does: refused   *)
(* requests and lost answers are not retried.                              *)
RepeatedOnlyByRuns ==
    \A pair \in Mac \X Mac : Count(onosIntents, IntentOf(pair)) <= runs * Wanted(pair)

(* Every check that can reject a program comes before the first request: a *)
(* rejected run leaves the controller's intents as they were.              *)
RejectedBeforeSending == pc = "rejected" => intents = before

(* The topology that checker and generators share between their passes     *)
(* names each host of the program once, in every phase of every run.       *)
TopologyInv == TypeOK /\ SimulatedOnce

(* What a run may add to the controller: a rejected one nothing, any other *)
(* each intent of the program at most once, however often requests are     *)
(* refused and answers lost.                                               *)
RunsAddAtMost == RepeatedOnlyByRuns /\ RejectedBeforeSending
=============================================================================
