----------------------------- MODULE EgressPort -----------------------------
(***************************************************************************)
(* One egress port of a simulated router (Router_concrete_builder.rb,      *)
(* build/model.h): a Link and a PriorityQueue made of                      *)
(*                                                                         *)
(*   prioritySelect  PacketPrioritySelect: type of service -> queue        *)
(*   VQueues         N NetworkQueueWithSizeOutput under a VectorialModel   *)
(*   WRRScheduler    chooses the queue that answers the link's request     *)
(*   Vect2Scal       Vector2Scalar: queue output -> link input             *)
(*                                                                         *)
(* Queues tell the scheduler their size after every change; the link's     *)
(* output is also the request for the next packet; the scheduler passes it *)
(* on to one non-empty queue, or keeps it until some queue has a packet.   *)
(*                                                                         *)
(* One action is one step of the engine: output function of the imminent   *)
(* model, external transitions it causes, internal transition.  Among      *)
(* models with an event at the current time, Coupling lets the one with    *)
(* the lowest index step: Link, prioritySelect, the queues in order,       *)
(* WRRScheduler, Vect2Scal.  Time is abstracted to "now", "later" and      *)
(* "never" for the next event of each model.                               *)
(***************************************************************************)
EXTENDS WRRScheduler, Sequences

CONSTANTS Packet,       \* packets routed to this port
          Size,         \* packet -> length in bytes
          Tos,          \* packet -> type of service, any integer
          MaxCapacity,  \* maxCapacity_bytes, the same for every queue
          NoPacket,     \* a null packet pointer
          Fake          \* the packet without protocols of Link::lambda

ASSUME PortAssumption ==
    /\ Size \in [Packet -> Nat \ {0}]
    /\ Tos \in [Packet -> Int]
    /\ MaxCapacity \in Nat
    /\ NoPacket \notin Packet
    /\ Fake \notin Packet \X Queue

VARIABLES
    forcedPeriod,      \* the parameter of every queue: "finite", or "infinite" for -1
    unsent,            \* packets that have not reached the port yet
    arrivedPacket,     \* PacketPrioritySelect::arrivedPacket
    packetQueue,       \* queue -> NetworkQueueWithSizeOutput::packetQueue
    queueSize_bytes,   \* queue -> queueSize_bytes
    mystate,           \* queue -> mystate
    serverstate,       \* queue -> serverstate
    queueNext,         \* queue -> "now" (sigma = 0) or "later" (forcedPeriod)
    outputEvents,      \* Vector2Scalar::outputEvents
    linkState,         \* Link::mystate
    incomingPacket,    \* Link::incomingPacket
    linkNext,          \* the link's next event: "now", "later" or "never"
    delivered,         \* history: queue -> its packets that left the link
    error              \* the exception that ended the simulation

queueVars == <<packetQueue, queueSize_bytes, mystate, serverstate, queueNext>>
linkVars  == <<linkState, incomingPacket, linkNext, delivered>>
portVars  == <<arrivedPacket, queueVars, schedVars, outputEvents, linkVars>>
vars      == <<forcedPeriod, unsent, portVars, error>>

NoError == "none"

-----------------------------------------------------------------------------
(* The init functions of the five models; only the link has sigma = 0.     *)
(* The generated models pass a forcedPeriod of -1, which init turns into   *)
(* numeric_limits<int>::max() seconds: longer than any simulation.         *)
QueuesInit ==
    /\ forcedPeriod \in {"finite", "infinite"}
    /\ packetQueue = [q \in Queue |-> <<>>]
    /\ queueSize_bytes = [q \in Queue |-> 0]
    /\ mystate = [q \in Queue |-> "WAITING"]
    /\ serverstate = [q \in Queue |-> "SERVERBUSY"]
    /\ queueNext = [q \in Queue |-> "later"]

LinkInit ==
    /\ linkState = "FIRST_REQUEST"
    /\ incomingPacket = Fake
    /\ linkNext = "now"
    /\ delivered = [q \in Queue |-> <<>>]

SelectInit == arrivedPacket = NoPacket

DemuxInit == outputEvents = <<>>

Init ==
    /\ unsent = Packet
    /\ SelectInit
    /\ QueuesInit
    /\ SchedInit
    /\ DemuxInit
    /\ LinkInit
    /\ error = NoError

Running == error = NoError

(* A runtime_error leaves the step at the throw; nothing runs afterwards.  *)
Throw(who) ==
    /\ error' = who
    /\ UNCHANGED portVars

(* Coupling's choice among the models whose next event is now.             *)
LinkIdle   == linkNext # "now"
SelectIdle == LinkIdle /\ arrivedPacket = NoPacket
QueuesIdle == SelectIdle /\ \A q \in Queue : queueNext[q] # "now"
SchedIdle  == QueuesIdle /\ schedNext # "now"
Quiescent  == SchedIdle /\ outputEvents = <<>>

-----------------------------------------------------------------------------
(* Steps of the models *)

(* PacketPrioritySelect::dext: it holds one packet.                        *)
SelectDext(p) ==
    IF arrivedPacket # NoPacket THEN Throw("PacketPrioritySelect::dext")
    ELSE /\ arrivedPacket' = p
         /\ UNCHANGED <<queueVars, schedVars, outputEvents, linkVars, error>>

(* The router's Routing model, which precedes the port in the coupling,    *)
(* forwards a packet at any point between two steps of the port.           *)
Arrive(p) ==
    /\ Running
    /\ p \in unsent
    /\ unsent' = unsent \ {p}
    /\ SelectDext(p)
    /\ UNCHANGED forcedPeriod

(* Link::lambda, WRRScheduler::dext on port 1, Link::dint.                 *)
LinkStep ==
    /\ Running
    /\ linkNext = "now"
    /\ IF linkState = "WAITING_NEXT_JOB" THEN Throw("Link::lambda")
       ELSE IF RequestOutstanding THEN Throw("WRRScheduler::dext")
       ELSE /\ dext_dequeRequest(knownSize)
            /\ IF linkState = "PROCESSING"
               THEN delivered' = [delivered EXCEPT ![incomingPacket[2]] = Append(@, incomingPacket[1])]
               ELSE UNCHANGED delivered
            /\ linkState' = "WAITING_NEXT_JOB"
            /\ linkNext' = "never"
            /\ UNCHANGED <<arrivedPacket, queueVars, knownSize, outputEvents, incomingPacket, error>>
    /\ UNCHANGED <<forcedPeriod, unsent>>

(* VectorialModel::dext: the scalar models an event with this index goes   *)
(* to.  Index -1 reaches all of them, any other unknown index none.        *)
Addressed(index) == IF index = -1 THEN Queue ELSE {index} \cap Queue

Fits(q, p) == queueSize_bytes[q] + Size[p] <= MaxCapacity

(* NetworkQueueWithSizeOutput::queuePacket on the byte counter.            *)
queueSize_AfterArrival(q, p) == queueSize_bytes[q] + Size[p]

queuePacket_PushFront(q, p) == <<p>> \o packetQueue[q]

queuePacket(q, p) == Append(packetQueue[q], p)

(* PacketPrioritySelect::dint releases the pointer.                        *)
SelectDint == arrivedPacket' = NoPacket

(* PacketPrioritySelect::lambda, NetworkQueueWithSizeOutput::dext on port  *)
(* 0 of every addressed queue, PacketPrioritySelect::dint.                 *)
SelectStep ==
    /\ Running
    /\ LinkIdle
    /\ arrivedPacket # NoPacket
    /\ LET p == arrivedPacket
           to == Addressed(Tos[p])
           accepting == {q \in to : Fits(q, p)}
       IN  /\ packetQueue' = [q \in Queue |-> IF q \in accepting THEN queuePacket(q, p) ELSE packetQueue[q]]
           /\ queueSize_bytes' = [q \in Queue |-> IF q \in accepting THEN queueSize_AfterArrival(q, p) ELSE queueSize_bytes[q]]
           /\ mystate' = [q \in Queue |-> IF q \in to THEN "NOTIFYING" ELSE mystate[q]]
           /\ queueNext' = [q \in Queue |-> IF q \in to THEN "now" ELSE queueNext[q]]
    /\ SelectDint
    /\ UNCHANGED <<forcedPeriod, unsent, serverstate, schedVars, outputEvents, linkVars, error>>

CanEmit(q) == serverstate[q] = "SERVERWAITING" /\ queueSize_bytes[q] > 0

(* VectorialModel steps the first scalar queue whose event is now.         *)
QueueTurn(q) ==
    /\ Running
    /\ SelectIdle
    /\ queueNext[q] = "now"
    /\ \A r \in Queue : r < q => queueNext[r] # "now"

(* NetworkQueueWithSizeOutput::dint in WAITING: the forced period is over. *)
(* lambda returns a null event.                                            *)
WakeUp(q) ==
    /\ QueueTurn(q)
    /\ mystate[q] = "WAITING"
    /\ serverstate' = [serverstate EXCEPT ![q] = "SERVERWAITING"]
    /\ mystate' = [mystate EXCEPT ![q] = "NOTIFYING"]
    /\ UNCHANGED <<forcedPeriod, unsent, arrivedPacket, packetQueue, queueSize_bytes, queueNext,
                   schedVars, outputEvents, linkVars, error>>

NotifySize_Lost(q) ==
    /\ QueueTurn(q)
    /\ mystate[q] = "NOTIFYING"
    /\ mystate' = [mystate EXCEPT ![q] = IF CanEmit(q) THEN "READYTOEMIT" ELSE "WAITING"]
    /\ queueNext' = [queueNext EXCEPT ![q] = IF CanEmit(q) THEN "now" ELSE "later"]
    /\ UNCHANGED <<forcedPeriod, unsent, arrivedPacket, packetQueue, queueSize_bytes, serverstate,
                   schedVars, outputEvents, linkVars, error>>

(* lambda and dint in t_NOTIFYING: the scheduler learns the queue's size.  *)
NotifySize(q) ==
    /\ QueueTurn(q)
    /\ mystate[q] = "NOTIFYING"
    /\ dext_queueSize(q, queueSize_bytes[q])
    /\ mystate' = [mystate EXCEPT ![q] = IF CanEmit(q) THEN "READYTOEMIT" ELSE "WAITING"]
    /\ queueNext' = [queueNext EXCEPT ![q] = IF CanEmit(q) THEN "now" ELSE "later"]
    /\ UNCHANGED <<forcedPeriod, unsent, arrivedPacket, packetQueue, queueSize_bytes, serverstate,
                   outputEvents, linkVars, error>>

ServerAfterEmission_StillWaiting(q) == [serverstate EXCEPT ![q] = "SERVERWAITING"]

ServerAfterEmission(q) == [serverstate EXCEPT ![q] = "SERVERBUSY"]

(* lambda and dint in t_READYTOEMIT, with unqueuePacket: the head goes to  *)
(* Vector2Scalar::dext, whose index -1 accepts every queue's packets.      *)
EmitPacket(q) ==
    /\ QueueTurn(q)
    /\ mystate[q] = "READYTOEMIT"
    /\ CanEmit(q)
    /\ outputEvents' = Append(outputEvents, <<Head(packetQueue[q]), q>>)
    /\ packetQueue' = [packetQueue EXCEPT ![q] = Tail(@)]
    /\ queueSize_bytes' = [queueSize_bytes EXCEPT ![q] = @ - Size[Head(packetQueue[q])]]
    /\ serverstate' = ServerAfterEmission(q)
    /\ mystate' = [mystate EXCEPT ![q] = "NOTIFYING"]
    /\ UNCHANGED <<forcedPeriod, unsent, arrivedPacket, queueNext, schedVars, linkVars, error>>

(* The same states when there is nothing to send: a null event.            *)
EmitNothing(q) ==
    /\ QueueTurn(q)
    /\ mystate[q] = "READYTOEMIT"
    /\ ~CanEmit(q)
    /\ mystate' = [mystate EXCEPT ![q] = "WAITING"]
    /\ queueNext' = [queueNext EXCEPT ![q] = "later"]
    /\ UNCHANGED <<forcedPeriod, unsent, arrivedPacket, packetQueue, queueSize_bytes, serverstate,
                   schedVars, outputEvents, linkVars, error>>

(* WRRScheduler::lambda, NetworkQueueWithSizeOutput::dext on port 1 of the *)
(* chosen queue, WRRScheduler::dint.                                       *)
SchedStep ==
    /\ Running
    /\ QueuesIdle
    /\ schedNext = "now"
    /\ LET q == WRRQueueIndex
       IN  /\ serverstate' = [serverstate EXCEPT ![q] = "SERVERWAITING"]
           /\ mystate' = [mystate EXCEPT ![q] = "READYTOEMIT"]
           /\ queueNext' = [queueNext EXCEPT ![q] = IF queueSize_bytes[q] > 0 THEN "now" ELSE @]
    /\ SchedDint
    /\ UNCHANGED <<forcedPeriod, unsent, arrivedPacket, packetQueue, queueSize_bytes, outputEvents, linkVars, error>>

(* Vector2Scalar::lambda, Link::dext, Vector2Scalar::dint.                 *)
DemuxStep ==
    /\ Running
    /\ SchedIdle
    /\ outputEvents # <<>>
    /\ IF linkState # "WAITING_NEXT_JOB" THEN Throw("Link::dext")
       ELSE /\ incomingPacket' = Head(outputEvents)
            /\ outputEvents' = Tail(outputEvents)
            /\ linkState' = "PROCESSING"
            /\ linkNext' = "later"
            /\ UNCHANGED <<arrivedPacket, queueVars, schedVars, delivered, error>>
    /\ UNCHANGED <<forcedPeriod, unsent>>

(* Time reaches the end of the transmission; it advances only when no      *)
(* model has an event at the current time.                                 *)
TransmissionEnds ==
    /\ Running
    /\ Quiescent
    /\ linkNext = "later"
    /\ linkNext' = "now"
    /\ UNCHANGED <<forcedPeriod, unsent, arrivedPacket, queueVars, schedVars, outputEvents,
                   linkState, incomingPacket, delivered, error>>

(* Time reaches the end of a queue's forced period.                        *)
ForcedPeriodEnds(q) ==
    /\ Running
    /\ forcedPeriod = "finite"
    /\ Quiescent
    /\ queueNext' = [queueNext EXCEPT ![q] = "now"]
    /\ UNCHANGED <<forcedPeriod, unsent, arrivedPacket, packetQueue, queueSize_bytes, mystate, serverstate,
                   schedVars, outputEvents, linkVars, error>>

QueueStep(q) == WakeUp(q) \/ NotifySize(q) \/ EmitPacket(q) \/ EmitNothing(q)

Engine ==
    \/ LinkStep
    \/ SelectStep
    \/ \E q \in Queue : QueueStep(q)
    \/ SchedStep
    \/ DemuxStep
    \/ TransmissionEnds

Next ==
    \/ Engine
    \/ \E q \in Queue : ForcedPeriodEnds(q)
    \/ \E p \in Packet : Arrive(p)

Spec == Init /\ [][Next]_vars

(* RootSimulator::run keeps stepping until the final time.  A transmission *)
(* ends at a time fixed when it starts, before which only finitely many    *)
(* forced periods can elapse, so they cannot put its end off for ever.     *)
FairSpec == Spec /\ WF_vars(Engine) /\ SF_vars(TransmissionEnds)

-----------------------------------------------------------------------------
(* Properties *)

TypeOK ==
    /\ forcedPeriod \in {"finite", "infinite"}
    /\ unsent \subseteq Packet
    /\ arrivedPacket \in Packet \cup {NoPacket}
    /\ packetQueue \in [Queue -> Seq(Packet)]
    /\ queueSize_bytes \in [Queue -> Nat]
    /\ mystate \in [Queue -> {"WAITING", "NOTIFYING", "READYTOEMIT"}]
    /\ serverstate \in [Queue -> {"SERVERWAITING", "SERVERBUSY"}]
    /\ queueNext \in [Queue -> {"now", "later"}]
    /\ SchedTypeOK
    /\ outputEvents \in Seq(Packet \X Queue)
    /\ linkState \in {"FIRST_REQUEST", "WAITING_NEXT_JOB", "PROCESSING"}
    /\ incomingPacket \in (Packet \X Queue) \cup {Fake}
    /\ linkNext \in {"now", "later", "never"}
    /\ delivered \in [Queue -> Seq(Packet)]
    /\ error \in {NoError, "PacketPrioritySelect::dext", "Link::lambda", "Link::dext", "WRRScheduler::dext"}

(* The exceptions of Link ("another packet was present in the channel")    *)
(* and of WRRScheduler ("a dequeue request arrived before the previous one *)
(* has been sent") are unreachable, as long as no queue is woken by a      *)
(* forced period; only a packet that arrives while prioritySelect still    *)
(* holds one ends the simulation.                                          *)
OnlyPreemptionThrows == forcedPeriod = "infinite" => error \in {NoError, "PacketPrioritySelect::dext"}

(* Where the link's request for the next packet can be.                    *)
AtLink     == linkState # "WAITING_NEXT_JOB"
AtSched    == schedNext = "now"
Parked     == delayedRequest = "yes"
AtQueue(q) == serverstate[q] = "SERVERWAITING"
AtDemux    == outputEvents # <<>>

(* There is always exactly one request or answer in the loop link ->       *)
(* scheduler -> queue -> Vect2Scal -> link: none is lost, none doubled, as *)
(* long as no queue is woken by a forced period, which takes the server    *)
(* for waiting.                                                            *)
OneRequest == forcedPeriod = "infinite" =>
    /\ AtLink  => ~AtSched /\ ~Parked /\ ~AtDemux
    /\ AtSched => ~Parked /\ ~AtDemux
    /\ Parked  => ~AtDemux
    /\ AtDemux => Len(outputEvents) = 1
    /\ \A q \in Queue : AtQueue(q) =>
          /\ ~AtLink /\ ~AtSched /\ ~Parked /\ ~AtDemux
          /\ \A r \in Queue : AtQueue(r) => r = q
    /\ AtLink \/ AtSched \/ Parked \/ AtDemux \/ \E q \in Queue : AtQueue(q)

(* Whenever simulated time is about to advance, the scheduler's copy of    *)
(* the queue sizes, on which the next choice is based, is up to date.      *)
SchedulerInformed == Quiescent => knownSize = queueSize_bytes

(* The port never lets time pass with an idle link and a packet waiting.   *)
WorkConserving ==
    Quiescent /\ linkState = "WAITING_NEXT_JOB" =>
        \A q \in Queue : packetQueue[q] = <<>>

(* The byte counter of each queue is the sum of the lengths of its packets *)
(* and never exceeds the capacity.                                         *)
Bytes[s \in Seq(Packet)] == IF s = <<>> THEN 0 ELSE Size[Head(s)] + Bytes[Tail(s)]
CounterExact ==
    \A q \in Queue :
        /\ queueSize_bytes[q] = Bytes[packetQueue[q]]
        /\ queueSize_bytes[q] <= MaxCapacity

(* Queue q and the stages behind it as one channel: the packet on the      *)
(* link, the answers that wait in Vector2Scalar, and the queue itself.     *)
OnWire(q)  == IF linkState = "PROCESSING" /\ incomingPacket[2] = q THEN <<incomingPacket[1]>> ELSE <<>>
Answers[s \in Seq(Packet \X Queue)] ==
    IF s = <<>> THEN [q \in Queue |-> <<>>]
    ELSE [Answers[Tail(s)] EXCEPT ![Head(s)[2]] = <<Head(s)[1]>> \o @]

Contents(q) == OnWire(q) \o Answers[outputEvents][q] \o packetQueue[q]

Channels == INSTANCE FifoChannel
              WITH Packet <- Packet, Lane <- Queue, Preload <- [q \in Queue |-> <<>>],
                   buf <- [q \in Queue |-> Contents(q)], out <- delivered

(* Within each class of service no accepted packet is lost, duplicated or  *)
(* reordered on its way through queue, scheduler, Vect2Scal and link.      *)
ImplementsChannels == Channels!Spec

(* Every queued packet leaves the port, unless an exception ends the run.  *)
Among(p, s) == \E i \in DOMAIN s : s[i] = p
EventuallyDelivered ==
    \A p \in Packet, q \in Queue :
        Among(p, packetQueue[q]) ~> (Among(p, delivered[q]) \/ error # NoError)

(* The invariant of the port: one request circulates, the scheduler's      *)
(* sizes are current whenever time advances, the queues' byte counters are *)
(* exact, and only preemption in prioritySelect raises an exception.       *)
EgressInv == TypeOK /\ OneRequest /\ SchedulerInformed /\ CounterExact /\ OnlyPreemptionThrows
=============================================================================
