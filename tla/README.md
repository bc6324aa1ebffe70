# haikunet: TLA+ models, model checking and proofs

haikunet compiles a small language that describes a network and its flows
(`.hk` programs) into requests to an SDN controller, or into a discrete-event
simulation of that network on the PowerDEVS engine.  This directory holds TLA+
specifications of the compiler, of the engine and of the simulated network
models, TLC configurations that check them on small instances, and TLAPS proofs
about all of them: the compiler's parser, generators and path search, the
engine, and the simulated network, which is the host's port and traffic generator,
the router with its table, scheduler and ports, the TCP connection, the HLT
supervisor and the event pipeline.

Checking a run: `tlc -config MCHostPort.cfg MCHostPort`.  Checking the proofs:
`tlapm HostProofs.tla`, and likewise ProofFacts, RouterProofs, SimulationProofs,
HltProofs, PipelineProofs, CompilerProofs and PathProofs.
`PROJECT.json` lists runs, properties, mutants (a plausible bug for every
property, which the property detects), the source lines behind each definition,
hazards and theorems.

## 1. Inventory

Two programs meet in this repository.

**The compiler** (Ruby, `src/lib`) reads a program and a topology, checks the
program and generates code.  It is sequential; what is hard is that several
passes must agree with each other, and that the controllers it talks to fail
between two requests.

**The simulator** (C++, `src/debug`) executes DEVS models.  An atomic model has
a state, a time advance `sigma`, an output function `lambda`, an internal
transition `dint` (after `lambda`, when its time has come) and an external
transition `dext` (when an event arrives).  There is one thread, but all the
problems of concurrent systems are present in *simulated* time: many models have
events at the same instant, the engine's choice of who goes first decides the
outcome, and the models throw `std::runtime_error`, which ends the simulation,
when an event finds them in a state their author did not expect.

| Component | State | Operations | Interacts with | What makes it correct |
|---|---|---|---|---|
| Host egress port: `NetworkQueue`, `Link` | packet queue, byte counter, who is waiting, packet on the wire | packet arrives, queue sends, link finishes | loop of request and packet between the two | no exception; FIFO; byte counter exact; queued packets get sent |
| `WRRScheduler` | turn, pending weight, copy of the queue sizes, delayed request | size report, request, send request | queues of a router port, link | no starvation; no request stuck while a queue has packets |
| Router egress port: `PacketPrioritySelect`, `NetworkQueueWithSizeOutput`, `WRRScheduler`, `Vector2Scalar`, `Link` | all of the above plus a packet slot and an output list | one step of each model | five models in a loop at one instant | one request in the loop; work conserving; FIFO per class |
| `Router` (model `Routing`) | packets to send, round robin position of each flow | receive, forward | neighbours' links, own ports, routing table | order preserved, flows balanced over their ports |
| `GlobalFlowBasedRoutingTable` | multimap from flow and node to port | add entry or route, look up, empty | filled from flow definitions, read by routers | routes found, own routes only |
| `FelixServer` | next generation time of each flow | generate a packet | flow distributions, the host's `Router` | every flow on its schedule; clock never goes back |
| `Packetsink`, `SamplerLogger` | counters, values of the current sample | record, flush | all models that log | no value lost or counted twice (not modelled) |
| Engine: `Coupling`, `ChildHeap`, `RootSimulator` | next event time of each child in a tournament tree, cached next child on every level, clock, step counter | step: output, propagation through the couplings, internal transition | every model | one global agenda; output and internal transition paired; stops when it should |
| TCP (`TcpSender`, `PacketQueue`, `PacketNetworkServer`, `TcpAck`) | send buffer, congestion window, timer, bottleneck queue, packet in service | submit, forward, retransmit, serve, acknowledge | application above, network below | acknowledged in order, only what was received, everything in the end |
| `HLTSupervisor`, `LeastBusyDcmHltsvStrategy` | waiting events, list of managers sorted by load, idle units | event, unit idle | processing units | list exact and sorted; no unit forgotten |
| `DcmApp`, `RosApp`, `L2T*`, `EB*`, `EventBuilder`, `packetDiscard` | credits, sessions, requests, fragments, the stage of each unit | request, grant, answer, process, decide, build | supervisor above, TCP below | credits conserved; complete events; no unit stuck |
| Lexer, parser | tokens, call stack, identifiers | recursive descent | semantic checker | accepts the grammar, rejects the rest with a syntax error |
| Semantic rules checker | topology, reachable elements | resolve and define hosts, check flows | topology, generators | accepts exactly what the generator can build |
| Debug code generator, `Dijkstra` | topology, distances, predecessors, path | define hosts, shortest path | topology | shortest chain of links for every accepted flow |
| ONOS and OpenDaylight generators | requests, how many were accepted | create hosts and intents | REST API of the controller | repeated and interrupted runs leave a sensible network |
| Builders, block library, Scilab | - | templates, numerical blocks, I/O | - | - |

The hard behaviours, with their source lines, are the `hazards` of
`PROJECT.json`: exceptions reached by some order of events at one instant, a
request lost in the loop, stale sizes in the scheduler, starvation, queues at
their capacity, a period that elapses during a transmission, neighbours
delivering at the same instant, stale copies of the next event in the engine's
tree, lost and late acknowledgements racing a timer, credits lost between
requests and answers, negative or zero values from distributions, passes of the
compiler that disagree, and controllers that fail between two requests.

## 2. Modules

    FifoChannel        what a port or connection promises (abstract)
      ^ implemented by
    HostPort           NetworkQueue + Link            HostProofs
    EgressPort         five models of a router port   RouterProofs
                       (EXTENDS WRRScheduler)
    TcpConnection      TcpSender, queue, server,      SimulationProofs
                       TcpAck

    WRRScheduler       operators of the scheduler     RouterProofs
    SchedulerDriver    the scheduler alone            RouterProofs
    RoutingTable       GlobalFlowBasedRoutingTable    RouterProofs
    RouterNode         Router between RoutingTable    RouterProofs
                       and EgressPort (EXTENDS both)
    FelixServer        traffic generator of a host    HostProofs
    ChildHeap          the engine's tournament tree,  SimulationProofs
                       as operators
    RootSimulator      run loop over two levels of    SimulationProofs
                       couplings, a tree for each
                       (EXTENDS ChildHeap)
    HltSupervisor      supervisor and its strategy    HltProofs
    EventPipeline      data collection for one        PipelineProofs
                       manager and its units
    HaikunetLanguage   the language, as sets of
                       sequences of keywords
    HaikunetParser     recursive descent on tokens    CompilerProofs
                       (EXTENDS HaikunetLanguage)
    FlowPaths          reachability check,            PathProofs
                       Dijkstra, road
    CodeGeneration     check, simulate, generate,     CompilerProofs
                       send; FlowPaths as a verdict

The modules on the right hold the theorems, checked by TLAPS.  ProofFacts has
what several of them need.  RouterProofs goes from the scheduler through the port to
the router, which uses both.  SimulationProofs has two parts that share no state:
the engine, and the TCP connection as a protocol that runs on it; CompilerProofs has
two as well, the generators and the parser.

`MC*` modules give the constants their values.  Definitions with a suffix, such
as `queuePacket_PushFront`, are mutants: the definition that follows as a
plausible bug would change it.  No specification uses them.

### How the models correspond to the code

*Steps.*  An action of a simulation model is one step of the engine
(`RootSimulator::step`): `lambda` of the imminent model, the `dext` of every
model the output reaches, then `dint`.  A `throw` stops the step where it
occurs; `error` records which function threw, and nothing runs afterwards, as
`RootSimulator` leaves its loop.

*Order.*  Among models with an event now, the engine steps the child with the
lowest index.  The guards `LinkIdle`, `SelectIdle`, `QueuesIdle`, `SchedIdle`
and `Quiescent` in EgressPort, and `queueNext # "now"` in HostPort's `LinkStep`,
are this rule for the couplings in `build/model.h`.  ChildHeap checks that the
engine's tree implements it.

*Time.*  A model's next event is `"now"`, `"later"` or `"never"`.  Time passes
(`TransmissionEnds`, `ForcedPeriodEnds`, `TimePasses`) only when nothing is due
now.  Transmission times are not numbers here, so the end of a transmission may
fall anywhere between arrivals.  FelixServer and ChildHeap are about times and
keep them as integers.

*Arrivals.*  In HostPort and EgressPort a packet may arrive between any two
steps, because the model that sends it has a lower index.  RouterNode replaces
this by the router's own `Routing` and by neighbours that come before or after
the router in the root coupling.

*Data.*  A packet is a model value with a length, a type of service and a flow.
Lengths are at least one byte: `getLength_bytes` rounds up, and FelixServer
corrects sizes of zero or fewer bits to one.  A link starts with a packet
without protocols, `Fake`; routers ignore such packets.

**HostPort.**  `queuedPackets`, `queueSize_bytes`, `discardedPackets` and
`serverstate` are the members of `NetworkQueue`; `mystate` and `incomingPacket`
those of `Link`; `queueNext`, `linkNext` their `sigma`.  The queue's capacity is
strict (`<`), that of a router's queue is not (`<=`).

**WRRScheduler.**  `getNextWRRIndex` keeps the turn while weight is pending, and
otherwise takes the next non-empty queue with wrap-around.  `bypassed` is a
history variable that counts, for each queue with known packets, how often
others were chosen.  SchedulerDriver sends any size for any queue at any time,
and a request whenever none is outstanding.

**EgressPort.**  `arrivedPacket` is the slot of `prioritySelect`;
`packetQueue`, `queueSize_bytes`, `mystate`, `serverstate` and `queueNext` are
functions from queues; `outputEvents` is the list in `Vector2Scalar`.
`Addressed` is the dispatch of `VectorialModel`: -1 to all queues, an unknown
index to none.  `forcedPeriod` is the parameter of the queues: generated models
set it to `numeric_limits<int>::max()` seconds (`"infinite"`); with a finite one
a queue also wakes up when it elapses.

**RouterNode.**  The table is loaded (`LoadTable`) by any sequence of
`addEntry` and `emptyTable`, then the simulation starts.  `outputPackets` and
`lastIndex` are those of `Router`; `instant` says whether this router has already
stepped at the current time, which is when neighbours with lower indexes can no
longer deliver.

**RoutingTable.**  Names are sequences of letters because keys are compared by
the concatenation of flow and node name.  The multimap is a function from keys to
their ports in the order of insertion, which is the order `equal_range` yields.

**FelixServer.**  Distributions choose arbitrarily from a set.  `NextFlow` is the
loop of `SetStateForNextFlowToGeneratePacket`, by the turns it has made.  The
history variables `first` and `sent` keep the drawn periods: the schedule that a
flow should have is stated from them.

**ChildHeap.**  `create`, `update` and `next` as operators on a tree, with the
padding and the early exit of the source; a tree is a function from levels to rows of
entries.  `Pad` is 1e100; passive children have later times than the padding.

**RootSimulator.**  A root coupling with atomic children and one nested coupling,
connected both ways and within.  `work` is what is left of the current step: the
recursive calls of `propagate`, `dextmessage` and `dintmessage` in their order.
`transitionChild`, `rootTn` and `innerTransition` are the cached fields, changed
only where the code calls `ta`; `ChildMoves` and `InnerMoves` are a transition of a
child together with the `heap.update` of its coupling.  Models emit on any port and choose any next
time: the properties hold whatever the atomic models do.

**TcpConnection.**  A packet is its sequence number.  `forwarded` and `onTheFly`
are the flags of `TcpQueuedPacket` as sets.  The return path `acks` loses and
reorders acknowledgements, and keeps one of each number; drops on the way out are
those of `PacketQueue`.  The retransmission timer may expire at any time at which
nothing is due now, premature timeouts included.  `ForcedPeriod` is the parameter of
`PacketQueue`, finite (`"later"`) or -1 (`"never"`).  When a finite one elapses
(`PeriodElapses`, then `WakeUp`), the queue takes the server for a waiting one and
sends its next packet unasked; `Emit` then overwrites the packet in service, as
`PacketNetworkServer::dext` does.

**HltSupervisor.**  `dcms`, `idlePUIds` and `totalIdlePus` are the strategy's;
`previousSigma` and `queuedEventsToSend`, which the code never initialises, start
with any value.  `excuse` is a history variable for the two cases in which an
event waits beside an idle unit.  Events are taken to request data: for one that has
not, `markPUAsIdle` throws once the unit is in the idle list
(`HltsvDcmLoad.cpp`, 8-11), which ends the simulation.

**EventPipeline.**  One record per atomic model of a unit.  The repository has
the models but no coupling of them; the coupling is the one that ports and
comments describe, and is an assumption of this module, as is that no request
asks a read-out system for more fragments than there are credits.  Messages are
delayed and reordered but not lost, which is what TcpConnection shows of the
transport.

**HaikunetParser.**  `stack` holds the terminals and procedures still to match,
so one action is one call or one `match`.  The tokens are not given beforehand:
`tokens` grows as the parser looks at the next one, so a run covers every
program.  HaikunetLanguage is the reference: it builds the set `Program` from words
by putting one in front of or behind a set (`Led`, `Followed`), by union and by
repetition, and knows nothing of the parser's procedures.

**CodeGeneration.**  One action per identifier and phase, one per request.  The
controller is external: it discovers hosts, accepts or refuses a request, and its
answer may get lost after it accepted.  A run may be followed by another one,
whatever came of it.  A host is known by its mac in the checked and simulated
topology; ONOS knows it by mac and vlan (`NetworkHost`), which is how the generator
asks for it and creates it (`Address`), while intents name mac/-1 (`Named`).  Without
a vlan `get_host_params` takes -1 (`Untagged`).  The ips of a host decide nothing: they
are lists, as in all example programs, and the checker's lookup by ip
(`semantic_rules_checker.rb`, 152-153) asks whether a list is the class `Array`, or an
element of the other list.  `BuildFails` has the errors of the simulation's generator,
`find_path_between` without a path among them; whether there is one is FlowPaths.

**FlowPaths.**  `pending` is the call stack of the recursive
`reacheables_elements_from`, then one action for each turn of Dijkstra's loop
and each call of `road`.  Ruby's hash defaults and the stale `pos_min` are kept:
when no node can be picked and none was before, the comparison raises.

## 3. Runs

| Run | Instance | Distinct states | Shows |
|---|---|---|---|
| `host_port` | 4 packets of 1 or 2 bytes, capacity 4 | 976 | `PortInv`, `CounterExact`, refinement of `FifoChannel`, `EventuallySent` |
| `scheduler` | 3 queues, weights 3, 1, 2, sizes 0 and 1 | 1,497 | `SchedInv`, `BypassBound`, `NoStarvation` |
| `egress_port` | 2 queues, weights 2 and 1, capacity 3, 5 packets of classes 0, 1, 2 (unknown), -1; finite and infinite forced periods | 265,437 | `EgressInv`, `WorkConserving`, one `FifoChannel` per class, `EventuallyDelivered` |
| `router` | 5 packets, 2 flows, 2 node names of which two pairs share a key, 4 routes, at most 4 entries, capacity 2 | 170,795 | `OrderPreserved`, `LoadBalanced`, `PreemptedOnlyByBurst`, `RoutesExact` |
| `felix_server` | 3 flows, starts 0, 1, 2, periods -2, 0, 1, 3, 4 packets | 299,584 | `ScheduleInv`, `GeneratedInOrder` |
| `flow_paths` | 4 nodes, 2 hosts, every one-way topology with weight 1, every two-way topology with weights 1 and 3 | 126,084 | `ShortestPaths`, `AcceptedIsRouted` |
| `engine` | 5 children, one of them a coupling of 2, event times 0 to 2 and 2 passive ones, final time 1, at most 2 extra steps at one time | 537,439 | `AgendaExact`, `Paired`, `AbortedAfter` |
| `tcp_connection` | 4 packets, threshold 2, room for 1 packet in the queue; finite and infinite forced periods | 156,666 | `TcpInv`, `AcknowledgedWasReceived`, refinement of `FifoChannel`, `EventuallyAcknowledged` |
| `hlt_supervisor` | 3 managers of 2 units each | 3,207 | `StrategyInv`, `WaitsOnlyWithExcuse`, `EveryPuServed` |
| `event_pipeline` | 2 units, 2 read-out systems with 2 and 1 buffers, 2 credits, requests for 2 buffers, up to 2 steps, 2 events | 172,820 | `CreditsInv`, `OneStage`, `BuiltComplete`, `EventuallyIdle` |
| `parser` | 2 names, 13 tokens, 2 lines | 798,796 | `DecidesRightly`, `ReferencesInv`, `EventuallyDecided` |
| `code_generation` | 3 macs, one of them in two vlans, 8 programs, 2 intent identifiers, 3 runs | 827,979 | `TopologyInv`, `IntentsHaveHosts`, `RecordedIsInstalled`, `RunsAddAtMost` |

Properties with `Inv` in their name, and a few others, are conjunctions of named
parts, each with its own comment in the module:

| Property | Parts |
|---|---|
| `PortInv` | `TypeOK`, `Handshake`, `NoException` |
| `SchedInv` | `SchedTypeOK`, `DelayedOnlyWhenEmpty` |
| `EgressInv` | `TypeOK`, `OneRequest`, `SchedulerInformed`, `CounterExact`, `OnlyPreemptionThrows` |
| `RoutesExact` | `RoutesFound`, `OwnRoutesOnly` (of the table), `RoutedAsConfigured` (of the packets) |
| `ScheduleInv` | `ServerTypeOK`, `OnSchedule` |
| `ShortestPaths` | `SettledExact`, `PathIsShortest` |
| `AgendaExact` | `HeapTypeOK`, `NextIsEarliest`, `Fresh` of both trees, `GloballyEarliest`, `NoEventMissed` |
| `TcpInv` | `TypeOK`, `SenderArmed`, `WindowRespected`, `HopHandshake` |
| `StrategyInv` | `TypeOK`, `SortedByLoad`, `IdleListsExact`, `FrontHasIdle` |
| `CreditsInv` | `TypeOK`, `CreditsConserved`, `OutQueueReady` |
| `DecidesRightly` | `AcceptsOnlyPrograms`, `RejectsOnlyErrors`, `CrashesOnlyTruncated` |
| `ReferencesInv` | `TypeOK`, `ReferencesUnique` |
| `TopologyInv` | `TypeOK`, `SimulatedOnce` |
| `RunsAddAtMost` | `RepeatedOnlyByRuns`, `RejectedBeforeSending` |

**Why the bounds are enough.**  Four packets against a capacity of three usable
bytes give acceptance, discard, a backlog and an idle link in every order.
Three queues are the fewest for which a turn can skip a queue and wrap around;
weights 3, 1, 2 give long and single turns.  The port needs two queues for
competition; its packets include both ends of `VectorialModel`'s dispatch.
Three flows allow ties between a flow that keeps the turn and two others.  Five
children need padding on two levels; a nested coupling that is connected to the
root in both directions and to itself is the smallest in which an output
returns to the coupling it came from before the internal transition.  Four
entries allow one flow two ports and a duplicate of one of them beside a route of
the other flow.  Four TCP packets with threshold 2 go through slow
start, congestion avoidance, collapse and recovery; a queue for one packet drops
all but the first of a burst, and a forced period that elapses then costs the packet
in service.  Three managers are needed to move one between two
others.  Two credits are fewer than a whole event needs, so that units compete,
and requests for two fragments let a read-out system wait for as many credits as
there are while the other takes single ones; two such steps can gather a whole
event.  Thirteen tokens, of which the end of a first line is one, hold a definition
with an array parameter, two definitions, or a definition and an intent with
action and condition on one line.  Three runs of a program allow an interrupted
one, its repetition and one more; its hosts are without a vlan, in a vlan, or one mac
in both.

Named bounds: `MaxPackets` (FelixServer), `MaxEntries` (RoutingTable),
`MaxQueued` (HltSupervisor; the counter saturates), `MaxEvents` (EventPipeline),
`MaxTokens` and `MaxLines` (HaikunetParser), `MaxRuns` (CodeGeneration), `Packets`
(TcpConnection).  In the port models the finite set `Packet` bounds the
behaviour, each packet arriving once.

**Deadlock** is not checked where the system may really stop: when all packets
have been sent, the path has been found, the program is parsed, an exception has
ended the run, or a bound is reached.

**Fairness.**  `WF(Engine)` in HostPort, EgressPort, TcpConnection and
EventPipeline: `RootSimulator::run` calls `step` in a loop until the final
time, and every step is the action of some imminent model.  EgressPort also
assumes `SF(TransmissionEnds)`: a transmission ends at a time fixed when it
starts, and only finitely many forced periods of positive length fit before it.
TcpConnection assumes the same of the end of a service and of the retransmission
timer, and of the network that the acknowledgement for which the sender waits gets
through if it is sent again and again; without that no protocol delivers anything.  `SF(Arrive)` is about
finite forced periods, where a packet in service may be preempted: each
retransmission doubles the timeout (`TcpSender.cpp`, 334-338), and between two of them
at most a queueful of packets can preempt another, so that from some point on a
service ends before the next retransmission.  HltSupervisor assumes
that each unit finishes its event, which is `EventuallyIdle` of EventPipeline
with its exception.  Nothing is assumed of arrivals.  SchedulerDriver assumes
that a request is eventually made when none is outstanding (the link asks again
after each packet) and that the engine sends it on.  FlowPaths and
HaikunetParser are sequential programs that go on.  CodeGeneration and
RootSimulator state no fairness: their properties are safety properties, of which
`AbortedAfter` bounds how long a simulation can stay at one time.  The liveness properties
of the simulation hold for runs that are not cut off by their final time.

### Observed divergences

The code differs in these places from what a comment, a test or a caller says.
None is the subject of a run; the properties state what does hold.

* *Weight 0.*  `WRRScheduler` serves a queue of weight 0 while others have
  packets, and its pending weight becomes -1; `WRRSchedulerTest.cpp` (516-565)
  expects it to be skipped.  The models and proofs about bypassing assume
  positive weights.
* *Preemption.*  Two neighbours with lower indexes that finish at the same time
  make `prioritySelect` throw; its comment says this should never happen.
  `PreemptedOnlyByBurst` shows that this is the only way.
* *Duplicates.*  `addEntry` compares with the first port of a key only, so a port
  can be entered twice, against its comment, and the round robin then favours
  that port.  `LoadBalanced` therefore counts entries of a flow, not ports.
* *Forced periods.*  When one elapses during a transmission, the queue answers a
  request nobody made, and `Link::dext` may throw: `OneRequest` and
  `OnlyPreemptionThrows` are restricted to infinite periods.  In TCP the bottleneck's
  server does not throw but forgets the packet in service: that the queue never takes a
  busy server for a waiting one (the last part of `HopHandshake`) is restricted in the
  same way, and the sender's retransmissions recover the packet
  (`EventuallyAcknowledged`).
* *Negative periods.*  A normal distribution yields them and `FelixServer::dint`
  does not correct them, so a packet can be born before its predecessor.
  `GeneratedInOrder` says that nothing else sends the clock back.
* *Ambiguous keys.*  The table compares flow and node names by their
  concatenation without a separator: flow F at AR and flow FA at R share their
  ports.  `OwnRoutesOnly` and `RoutedAsConfigured` exclude such pairs.
* *Time 0.*  `lastTransition` starts with 0, so that a model gets one step less
  at time 0 than at any other time before it is called illegitimate
  (`AbortedAfter`).
* *Complete when accepted.*  `EventBuilder` says it forwards an event after all
  requests arrived; it does so only when a response arrives, so an event whose
  fragments have all been gathered by the L2 steps is never built
  (`NothingToBuild` in `EventuallyIdle`).
* *Uneven managers.*  With managers of different sizes the least busy one may
  have no idle unit, and `getNextPuId` throws although the supervisor found idle
  units (`FrontHasIdle`).
* *Parser.*  A program that begins with an empty line is rejected, a last
  definition without value is accepted, a truncated program fails on nil, and a
  definition may refer to itself (`RejectsOnlyErrors`, `AcceptsOnlyPrograms`,
  `CrashesOnlyTruncated`, `ReferencesUnique`).  `examples/phase1_example.hk`, whose
  parameters have no commas, is rejected.
* *Vlans.*  ONOS hosts are asked for and created by mac and vlan
  (`onos_code_generator.rb`, 18 and 164), intents name mac/-1 (35-36).  For a host in
  another vlan the controller gets an intent for a host it need not know; what
  `IntentsHaveHosts` says of the named host, that the controller knows it, is restricted
  to macs without a vlan (`NoVlan`), and of the others it says that the mac is known.
* *Generators.*  A flow with literal addresses passes the checker and fails in the
  simulation's generator; OpenDaylight identifiers may collide; running a program
  again repeats its ONOS intents (`RejectedBeforeSending`,
  `RecordedIsInstalled`, `RepeatedOnlyByRuns`).

## 4. Proofs

TLC explores one small instance of each component; the theorems hold for all
values of the constants that satisfy the assumptions of the component's module:
any number of packets, queues, flows, units, buffers or children, any connections,
weights, lengths, capacities and thresholds.  The bounds that keep TLC's instances finite
(`MaxEntries`, `MaxQueued`, `MaxEvents`, `MaxPackets`) are arbitrary in the proofs.

| Module | Theorem | Property | Inductive invariant |
|---|---|---|---|
| HostProofs | `PortInvariant` | `PortInv` | itself |
| | `CounterIsExact` | `CounterExact` | with `TypeOK` |
| | `PortIsFifo` | `ImplementsChannel` (refinement) | `PortInv` |
| | `SchedulesAreKept` | `ScheduleInv` | `ServerIInv` |
| | `OrderOfGeneration` | `GeneratedInOrder` | `ServerIInv` |
| RouterProofs | `SchedInvariant` | `SchedInv` | itself |
| | `NoQueueStarves` | `BypassBound` | `FairInv` |
| | `EgressInvariant` | `EgressInv` | `PortIInv` |
| | `NeverIdles` | `WorkConserving` | `PortIInv` |
| | `LanesAreFifo` | `ImplementsChannels` (refinement) | `PortIInv` |
| | `OrderIsKept` | `OrderPreserved` | `RouterIInv` |
| | `LoadIsBalanced` | `LoadBalanced` | `RouterIInv` |
| | `BurstsAlonePreempt` | `PreemptedOnlyByBurst` | `RouterIInv` |
| | `RoutingIsExact` | `RoutesExact` | `RouterIInv` |
| SimulationProofs | `AgendaIsExact` | `AgendaExact` | `EngineIInv` |
| | `OutputsArePaired` | `Paired` | `EngineIInv` |
| | `AbortsAfterCount` | `AbortedAfter` | `EngineIInv` |
| | `TcpInvariant` | `TcpInv` | `TcpIInv` |
| | `NoPacketForgotten` | `AcknowledgedWasReceived` | `TcpIInv` |
| | `ConnectionIsFifo` | `ImplementsChannel` (refinement) | `TcpIInv` |
| HltProofs | `StrategyInvariant` | `StrategyInv` | `HltIInv` |
| | `WaitExcused` | `WaitsOnlyWithExcuse` | `HltIInv` |
| PipelineProofs | `OneEventOneStage` | `OneStage` | `PuIInv` |
| | `BuiltEventsAreComplete` | `BuiltComplete` | `PuIInv` |
| | `CreditsAreConserved` | `CreditsInv` | `CreditsIInv` |
| CompilerProofs | `TopologyIsShared` | `TopologyInv` | `GenerationIInv` |
| | `IntentHostsAreKnown` | `IntentsHaveHosts` | `GenerationIInv` |
| | `RecordIsTrue` | `RecordedIsInstalled` | `GenerationIInv` |
| | `RunsAddAtMostOnce` | `RunsAddAtMost` | `GenerationIInv` |
| | `ParserDecidesRightly` | `DecidesRightly` | `ParserIInv` |
| | `RejectedForGood` | for all continuations | `ParserIInv` |
| | `ParserReferencesUnique` | `ReferencesInv` | `ParserIInv` |
| PathProofs | `PathsAreShortest` | `ShortestPaths` | `PathIInv` |

All theorems have the form `Spec => []P`, or `Spec => Channel!Spec` for a
refinement.  Each inductive invariant was checked by TLC on the instance of the
component's run before it was proved; of `ParserIInv`, which speaks of all
continuations of a program, with the point to which the symbols lead in the place of
that.

### Assumptions

They are those of the modules, and TLC evaluates them on the instances.
`PortAssumption`: lengths are positive, the capacity is a natural number, the
initial packet of a link is not a packet.  `SchedAssumption`: at least one queue,
weights are natural numbers (`NoQueueStarves` is about positive ones, see the
divergence on weight 0).  `DriverAssumption`: reported sizes are natural numbers.
`RouterAssumption` and `TableAssumption`: names are sequences of letters, a
packet has a flow or none, ports are numbered, this router and this port exist.
`ServerAssumption`: at least one flow, starts and periods are integers, negative
ones included.  `TcpAssumption`: the bottleneck has room for at least one packet.
`SupervisorAssumption`: at least one manager, and none without units.
`PipelineAssumption`: finitely many read-out systems and buffers, no buffer of two
systems, and no system with more buffers than there are credits.
`ProgramAssumption`: programs are what the parser builds, not empty, with references
to earlier identifiers only, -1 is a vlan, the hosts of the network have a mac and a
vlan, and no random identifier is the name of an end point of
the ONOS controller.  `PathAssumption`: finitely many nodes, no link from an element
to itself, positive weights, and an infinity above the cost of every way that visits
no node twice, which `Float::INFINITY` is.  HaikunetParser assumes nothing: names are
any set, and the bounds need not be numbers.  No proof uses fairness, and none assumes
anything of the environment that `Next` does not say.

### The host's port (HostProofs)

`PortInv == TypeOK /\ Handshake /\ NoException` is inductive.  `NoException` alone
is not: a step of the queue throws if the link is not waiting, and nothing in the
state of the queue says that it is.  `Handshake` supplies what is missing.  Its
first conjunct says that the queue thinks the server is waiting exactly when the
link is, which excludes a packet for a busy link and a second request.  Its
second says that the queue is due exactly when it has something to send, which
excludes a step with nothing to send.  Its third and fourth tie the link's next
event to its state, which excludes a step of an idle link and gives the base case
of the first request.  The refinement maps the channel's content to the packet on
the wire followed by the queue: an accepted packet is `Put`, the end of a
transmission `Deliver`, and the hand-over from queue to link leaves the content as
it is, for which the invariant is needed, since the packet on the wire must not be
overwritten.

`CounterExact` compares a counter with `Bytes`, which is defined by recursion over
sequences.  A recursive function is a `CHOOSE`; ProofFacts shows that a function
with the required equation exists (from the tables of its values for the last 0,
1, 2, ... elements of a sequence), and how the sum changes when an element is
appended or the head removed.

### The traffic generator (HostProofs)

`GeneratedInOrder` looks back at two packets, and says nothing of the flow that is
due next.  `ServerIInv` adds that this flow has the earliest time of all
(`DueIsEarliest`: what the loop of `SetStateForNextFlowToGeneratePacket` finds,
`NextFlowIsEarliest`, by induction on its turns), that each flow's next time
follows from its last packet or from its start (`TimesAreOnSchedule`), and that no
flow but that of the last packet is due before that packet's birth
(`LastIsBehind`).

### The scheduler (RouterProofs)

`SchedInv` is inductive: `getNextWRRIndex` returns a queue with known packets or
-1 when there is none, for which the lowest element of a non-empty set of queues
must exist (`LowestExists`, from the well-foundedness of `<` on the natural
numbers).

`BypassBound` is not inductive: that a queue has been passed over often says
nothing about how often it will be.  `BypassBudget` adds what it may still
suffer: the weight pending in the current turn, and one full turn, of at most the
largest weight, for every queue between the current one and it.  The sum never
exceeds (N - 1) * MaxWeight.  A request that continues a turn takes one from the
pending weight, even when the turn's rest has passed to another queue, and a
request that begins a turn brings the scheduler nearer to every waiting queue
(`NearestFirst`); a size report that releases no request changes nothing here.
`LargestWeight` shows that `MaxWeight` is well defined, by looking at the shortest
prefix of the queues without a largest weight.

### The router's port (RouterProofs)

`EgressInv` says that at most one request circulates, that the scheduler knows
the sizes when the port is at rest, and that only `prioritySelect` throws.  No
part is inductive without knowing what the models are about to do in the same
instant.  `PortIInv` adds, for each model, the relation between its state and its
next event: a queue whose size the scheduler does not know is notifying and due
(`WillReport`), a queue that can answer is due (`WillAnswer`), the link that is
due finds everything else at rest (`LinkFirst`), and a queue that the scheduler has
chosen still has packets unless it has answered by itself (`ChosenHasPackets`),
which is the race between a size report and a request.  `RequestNotLost` is the
lower bound on the number of requests: with `DelayedOnlyWhenEmpty` it gives
`WorkConserving`.  Without forced periods only the scheduler makes a queue take
the server for waiting (`QueuesAsked`), which is why `OneRequest` is restricted to
that case.

`LanesAreFifo` maps each class of service to a channel that holds the packet on
the wire, the answers in `Vector2Scalar` and the queue, in this order; its steps
are proved for each model apart (`SelectRefines`, `EmitRefines`, `DemuxRefines`,
`LinkRefines`), for any number of answers in the output list.

### The router (RouterProofs)

`RouterIInv` has one part per question, and `PortIInv` as far as the port is
alive (`PortSafe`: an exception of `Router::dext` leaves the port as it was).
`InOrder`: the packets delivered, on the wire, queued, in `prioritySelect` and in
`Routing`, in this order, were received in this order.  `ByTheTable`: they are
there because of an entry of the table, which does not change while packets move.
`RoundRobin` strengthens `LoadBalanced`, which only compares what has been sent:
the counts of a flow's entries are those of a round robin that stopped at some
entry, and the packets still in `Routing` continue from there, one entry after
the other, ending with `lastIndex`.  Consecutive packets of a flow need not be
consecutive in `outputPackets`, hence `Follows`.  `BurstCounts`: unless more than
one packet came at this instant, at most one is on its way to a port.
`TableIInv` is about the loading phase: every requested entry is found, and every
port in the table was requested for that key.

### The engine (SimulationProofs)

`HeapAssumption` says that events that may happen are before the padding and passive
children after it; `EngineAssumption` that both couplings have children, that the ends
of every connection exist, that the final time is a time at which events may happen,
and that the nested coupling does not feed its own input.

*The tree.*  `IsHeap` says what `create` builds and `update` keeps: the first level has
the children's times, every level below the top has the winners of the level below it,
and the top has the right *model*.  The top's time may be stale: `update` stops when
the model of the parent is that of the sibling, and beside child 0 the padding has
model 0 as well.  The proof shows that this is harmless and can happen at the top only.
`RightRow` says what a level of winners is: an entry is a padding or a child with its
time, entries name children in increasing order, every child is dominated by some
entry, and only the last two entries can be padding; since a level whose parents are not
the top has at least four entries, child 0 is never beside a padding there, so an entry
that has its parent's model is its parent (`SameModelIsParent`) and stopping early leaves every
level above exact (`ClimbStart`, `ClimbStep`, `ClimbEnd`, `UpdateKeepsHeap`).  A tie is
decided by the position in `update` and by the index in `create`; the increasing order
makes these the same.  `TopRow` turns the levels into `NextIsEarliest`, and `HeapIsExact`
into `Fresh`: two trees for the same times agree below the top (`OneHeapBelowTop`).
The functions defined level by level exist for any number of levels (`LevelsExist` in
ProofFacts), and `TopExists` shows that the number of levels, the least exponent for
which a power of two reaches the number of children, is well defined.

*The step.*  `StepShape` says what `work` can look like.  Its last element, and only
that, is the internal transition.  If the nested coupling made the output, no end of an
external transition of the nested coupling is in it, since a coupling that fed its own
input would have to be a connection from the nested coupling to itself; otherwise each
external transition inside the nested coupling is followed by such an end.  That
`propagate` yields this is `PropagatedShape` and `InnerPropagatedShape`, on any list
of connections (`FlattenStays`).

*The caches.*  `AgendaExact` holds in every state, the caches do not: between an
external transition inside the nested coupling and the `ta` that follows, the root's
copy of the nested coupling's time is stale.  `NestedIsKnown` says that it is exact
unless such a `ta` is still to come in this step (`NestedTaAhead`), and `RootIsKnown`
that between two steps the root's choice is that of its tree.  With `HeapFindsEarliest`
for both trees they give `AgendaAtRest`, the global order of events, from which follows
that the clock never passes an event (`BeginPasses`, `NoChildMissed`).  `Paired` is in
the invariant itself: only an end of the nested coupling's external transitions can
change `innerTransition` within a step, and then the nested coupling did not make the
output.  `StepsAreCounted` relates `stepsCount` to the steps made at this time, one
less at time 0.

### The TCP connection (SimulationProofs)

`TcpInv` has the sender's part (`SenderArmed`, `WindowRespected`) and that of the
bottleneck: `HopHandshake` says, for any forced period, that the queue never forgets a
waiting server and that it is due when it takes the server for waiting and has packets.
That the server then does wait, as in the host's port, needs an infinite period.
`TcpIInv` adds that a queue at rest without a forced period is not due
(`RestsWithoutPeriod`), that the choice
of `setNextSigma` stays right until the sender's next event (`ForwardHasRoom`),
without which a forward could exceed the window, and that acknowledgements on
their way, lost, repeated or reordered as they may be, are for packets that were
received (`AcksAreReceipts`), from which `AcknowledgedWasReceived` follows.  In the
refinement a retransmission is not a step of the channel: the packet is still in
the send buffer.

### The HLT supervisor (HltProofs)

The strategy keeps its list of managers sorted by moving one element after each
change of load.  `MoveSorts` and `RepairSorts` show that removing the element at
one place of a list that is sorted but for it, and inserting it before the first
element that it should precede, sorts the list; `ForwardIsMove` and `BackIsMove`
show that the two loops of the source do that.  `HltIInv` adds that nothing is
listed twice (`NothingTwice`), without which the removal of an element by its value
would not keep the list a permutation, and what excuses a wait (`AnswersThePu`).
That each unit belongs to exactly one manager is `EachPuHasItsDcm`, from the
running sums of the numbers of units.

### The event pipeline (PipelineProofs)

`OneStage` counts active stages and `BuiltComplete` looks at the last one only;
neither says what fragments the event in between has.  `PuIInv` says in which of
seven places a unit's event is (`Idle`, `Requesting`, `Processing`, `Iterating`,
`Deciding`, `Building`, `Built`), and for each place, which fragments were
gathered, which are being waited for and that the two are disjoint, so that the
*number* of fragments in `fragmentsInfo`, by which `EventBuilder` decides that an
event is complete, is the number of different buffers.  Whether L2TIterator takes
the next fragments for a new event (`Starts`) is part of each place: it compares
what the *last* event left behind.  A step of a unit changes its place
(`OnePuMoves`), and one lemma per action shows that the new place is the right
one.  Nothing is needed of `DcmApp`, `RosApp` and the network: fragments that
nobody waits for are ignored, whichever arrive.

`CreditsInv` says what the sum of all credits is, but a request that is listed
twice, or a fragment that answers none, would break it in the next step.
`CreditsIInv` says where a unit's request is: for each read-out system, what the
unit waits for from it is in at most one place, held back by `DcmApp`, queued,
being processed (`RequestsAt`, `Due`), or else on its way in single fragments
(`Answers`).  `Ready` is `OutQueueReady` in the form in which it is kept: a session
is in `outQueue` once and then holds the credits of its first request, and none
otherwise, so that a round of `distributeCredits`, which serves the sessions that
need credits, never serves one that is queued already, and a request that arrives
is appended behind the first.  `Distributed` shows that such a round moves credits
and makes none, whichever sessions it chooses and in whichever order.  That a unit
waits for nothing when it sends its next request is what `PuIInv` gives
(`WaitingByPlace`).  The sums are folds of the community modules over sets;
ProofFacts shows that the fold is the sum over a finite set in any order
(`SetSumByChoice`), and `LentGrows` that the credits lent grow by what each
session's loan grows.

### The compiler's generators (CompilerProofs)

`GenerationIInv` follows a run through its phases.  `Built` and `Generated` say how
many identifiers of the program the simulation's generator and the controller's have
treated, and the parts of the invariant say what that means: their hosts are in the
simulated network, which names none twice (`SimulatedOnce`, `HostsBuilt`), and each
has its requests (`OdlRequests`, `OnosCounts`).

`IntentsHaveHosts` looks at what the controller has, and says nothing about what it
will be sent.  `HostsProvided` adds that each end of an intent in the list of requests
is the mac of a host of the program, and that the controller knows this host, in its
vlan, or a request before that one creates it (`EndProvided`).  From one such host
follow both statements of `IntentsHaveHosts`, that the mac is known and, if no host of
that mac has a vlan, that mac/-1 is (`EndIsKnown`).  Both alternatives are stable (`ProvidedStays`): a controller learns of hosts and
replaces them, but forgets none, and the request leaves the list only by being
accepted.  A request for a host is left out only if the controller has it.  For
OpenDaylight, which is sent no hosts, they must be in the snapshot of its own
topology (`SnapshotIsKnown`, `OdlHostsKnown`).

`RunsAddAtMost` and `RecordedIsInstalled` compare numbers of intents with what the
program asks for.  `HostToHost` numbers the pairs of a flow's sources and destinies
by one index; `FlowIsAskedFor` shows, with quotient and remainder, that its requests
for one pair of hosts and the places in the flow that ask for it are in bijection, so
that their numbers agree (`AllAsked` for the program).  `OnosCounts` then bounds the
intents from both sides: at least those sent, at most those sent and one full
program for each earlier run.  An accepted request whose answer is lost counts as
created but not as sent; the run ends with it, and the bound of the ended run has
room for it (`OnosStep`).

### The parser (CompilerProofs)

`DecidesRightly` compares verdicts with a set of whole programs; a step of the parser
sees one token.  Three things lie between them.

*Points.*  A program is at one of 21 points, or nowhere: between two productions,
behind the name of a definition, within an array, and so on.  `Goes(q, k)` is where the
symbol `k` leads, and `Rest(q)` the language of what may follow at `q`, built from the
operators of HaikunetLanguage.  `Derivative` is the fact that makes this an automaton for
the language: `<<k>> \o c` is in `Rest(q)` exactly when `c` is in `Rest(Goes(q, k))`, and
nothing may follow exactly at the points in `Endings`.  Its proof needs the algebra of
languages (`CatLed`, `CatFollowed`, `LedUnions`) and the equations of the repetitions
(`RepeatedUnfolds`, `ParamsUnfold`, `ElemsUnfold`, `ProgramUnfolds`).  `Repeated` is
defined by a recursive function, hence by `CHOOSE`; `LeastRepeated` shows that a function
with its equation exists, as the intersection of all sets closed under it.

*Stacks.*  `Stacks(q, k)` lists what the parser may have left to do at a point, in front
of the lookahead `k` or before it is known.  There are finitely many for each point,
because the language has no nesting but that of arrays in parameters.  `Sound` says that
this is enough: each entry of the stack leads from such a stack to another of the same
point, a `match` to one of the point behind the symbol, and the parser fails only on a
symbol that leads nowhere, or on a missing one where no program ends (`StacksSound`, one
lemma for each point).  An empty production is where the points matter: behind
`intent_production_with_action` a token that starts no action is left for the next
turn of `parse`, so the same point must have the stacks of both.

*Names.*  `Naming` relates the list of identifiers to the tokens: a name is on the list
as many times as the tokens in front of the lookahead define it, and one time less
between its ASSIGN and the push, whose name is then in `held`.  For that the identifier
in front of an ASSIGN must be the one remembered, with nothing but ends of lines between
them, which is an invariant at the point `assign`.  Only the tokens in front of the
lookahead count, since one that is not yet matched may be an ASSIGN.  A reference is
accepted if its name is on the list once, and stays what it was when tokens are added
(`DefinitionsSame`).

`ParserIInv` says that the parser is on course as long as it has not decided
(`Position`, `Naming` at some point), and that its decision was right (`Decided`).  The
invariant has the verdict on syntax errors for every continuation, and `RejectedForGood`
states it so; the property of the run tries those in `Closings`.

### Path search (PathProofs)

`SettledExact` compares costs with those of all ways, and a step of the loop says
nothing of ways.  `PathIInv` has two parts that together give the lower bound without
any history (`NoWayIsCheaper`, by induction on the length of the way): `Relaxed`, no
settled node improves on what is known, and `NearestFirst`, no settled node is further
away than one that is still to be settled.  As long as a way stays among settled
nodes each of its links is relaxed, and where it leaves them the costs found are
already higher.  `WaysFound` gives the upper bound: for every finite cost there is a
way through settled nodes that costs this much.

That the road ends at the source needs the other component: `OnlyReachable` says that
whatever contains the source and is left by no link contains all that the check has
reached, and `SettledIsClosed` that after the loop the settled nodes are such a set,
because a way is too short for its cost to reach infinity.  `Progress` counts turns:
the loop runs one time less than there are nodes and settles one in each turn, or has
none left to settle.  `Fathers` and `PathInv` make the collected path a chain of links
whose costs add up to that of the destination (`CostOfChain`).

### Only model-checked

* Liveness (`EventuallySent`, `NoStarvation`, `EventuallyDelivered`,
  `EveryPuServed`, `EventuallyIdle`, `EventuallyAcknowledged`, `AcceptedIsRouted`,
  `EventuallyDecided`): outside what the prover supports.  `NoStarvation` has its
  safety part proved as `NoQueueStarves`.

## 5. Not modelled

* *Block library and random numbers.*  Most of the repository's 70,000 lines of
  implementation are the numerical block library that comes with PowerDEVS
  (integration, signal sources, data acquisition, real-time and Modelica blocks,
  expression evaluators in several copies, generators of random deviates) and
  third-party code.  haikunet's networks do not contain these blocks, their
  correctness is a matter of real numbers, and a model of them would either leave
  that out or repeat it.  The share of lines that the project covers is small for
  this reason; of the code that haikunet itself consists of, or that has
  control-flow of its own, the parts below are what is missing.  Distributions are
  replaced by arbitrary choice.
* *Unmodelled TDAQ models.*  `TcpReceiverBuffer`, `TcpPacketization` and
  `VectorBondedLinkVector` redeclare `sigma`, so the engine reads a field of the
  base class that they never set: what they do in a simulation is undefined.
  `PacketRetransmission` is obsolete.  The vector adapters compute indexes; the
  samplers and `packetDiscard`'s counters record.  The strategies of the
  supervisor other than the least-busy one are a queue or a random choice.
* *Logging.*  Logging calls are left out of all models, and with them
  `Packetsink` and `SamplerLogger`.
* *Input and output.*  The Scilab connection, the interactive shell of `model.cpp`,
  option parsing, the download of a topology, the characters of the lexer, the
  text of requests and of generated files.  The builders print model files from
  templates; the couplings they print are what the port and router models
  describe.
* *Real time.*  `changemytn` of the engine, timed runs and RTAI serve hardware,
  which networks do not use.
* *Numbers.*  Round trip time estimates, service times and latencies are
  arbitrary; `FelixServer`, `ChildHeap` and `RootSimulator` keep times as integers.
* *Hazards outside the models.*  More than two packets at one instant share the
  shifted log time of `Packetsink` (42), so the logger keeps only the last; an
  estimate of the round trip time that shrinks makes `TcpSender`'s sigma negative
  (223); the log line of `PacketQueue` (102) about a refused packet asks every
  payload for fragments; the lexer (106) splits an identifier that begins with a
  keyword; `opendaylight_code_generator.rb` (57) joins the hosts of a flow's end
  without a comma.
* *Degenerate cases.*  A host without flows, whose generator never steps;
  couplings without children; flows from a host to itself in FlowPaths.

## 6. Plan

The order was by what a simulation's result depends on: the ports, in which every
packet spends its time and in which most exceptions are, the router around them,
the engine under them, the generator before them, then the compiler in front and
the data acquisition models.  All of these are modelled and checked, and their safety
properties are proved.  What could follow, in this order:

1. *More levels.*  RootSimulator has one coupling inside another.  Any depth needs the
   couplings as a tree and `NestedIsKnown` for each of its inner nodes.
2. *Engine and models.*  The guards of the port models state the engine's order, which
   `AgendaIsExact` proves of the engine; a refinement would connect the two.
