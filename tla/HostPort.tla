------------------------------ MODULE HostPort ------------------------------
(***************************************************************************)
(* The egress port of a simulated host: a NetworkQueue and a Link coupled  *)
(* in a loop (Host_concrete_builder.rb, build/model.h).  The queue sends   *)
(* its head to the link only when the link has asked for a packet; the     *)
(* link asks by emitting the packet it has just finished transmitting,     *)
(* which the coupling delivers both downstream and to the queue's request  *)
(* port.  Both models raise std::runtime_error when that handshake is      *)
(* broken, and RootSimulator::step then ends the simulation.               *)
(*                                                                         *)
(* One action is one step of the simulation engine: the output function of *)
(* the imminent model, the external transitions of the models its output   *)
(* reaches, and its internal transition.  Time is abstracted to "whose     *)
(* next event is now": sigma = 0, or a transmission that ends now.         *)
(***************************************************************************)
EXTENDS Integers, Sequences

CONSTANTS Packet,        \* the packets the host may send
          Size,          \* packet -> its length in bytes
          MaxCapacity,   \* NetworkQueue::maxCapacity_bytes
          Fake           \* the packet without protocols of Link::lambda

ASSUME PortAssumption ==
    /\ Size \in [Packet -> Nat \ {0}]
    /\ MaxCapacity \in Nat
    /\ Fake \notin Packet

VARIABLES
    unsent,            \* packets the host has not generated yet
    queuedPackets,     \* NetworkQueue::queuedPackets
    queueSize_bytes,   \* NetworkQueue::queueSize_bytes
    discardedPackets,  \* NetworkQueue::discardedPackets
    serverstate,       \* NetworkQueue::serverstate
    queueNext,         \* NetworkQueue::sigma, 0 ("now") or max() ("never")
    mystate,           \* Link::mystate
    incomingPacket,    \* Link::incomingPacket
    linkNext,          \* the link's next event: "now", "later" or "never"
    delivered,         \* history: what the link has emitted
    error              \* the exception that ended the simulation

queueVars == <<queuedPackets, queueSize_bytes, discardedPackets, serverstate, queueNext>>
linkVars  == <<mystate, incomingPacket, linkNext, delivered>>
vars      == <<unsent, queueVars, linkVars, error>>

NoError == "none"

-----------------------------------------------------------------------------
(* NetworkQueue::init and Link::init.  The link starts with sigma = 0.     *)
Init ==
    /\ unsent = Packet
    /\ queuedPackets = <<>>
    /\ queueSize_bytes = 0
    /\ discardedPackets = 0
    /\ serverstate = "SERVERBUSY"
    /\ queueNext = "never"
    /\ mystate = "FIRST_REQUEST"
    /\ incomingPacket = Fake
    /\ linkNext = "now"
    /\ delivered = <<>>
    /\ error = NoError

Running == error = NoError

(* A runtime_error leaves the step at the throw; nothing runs afterwards.  *)
Throw(who) ==
    /\ error' = who
    /\ UNCHANGED <<queueVars, linkVars>>

Fits(p) == queueSize_bytes + Size[p] < MaxCapacity

queuePacket_PushFront(p) ==
    /\ queuedPackets' = <<p>> \o queuedPackets
    /\ queueSize_bytes' = queueSize_bytes + Size[p]

(* NetworkQueue::queuePacket.                                              *)
queuePacket(p) ==
    /\ queuedPackets' = Append(queuedPackets, p)
    /\ queueSize_bytes' = queueSize_bytes + Size[p]

unqueuePacket_KeepsSize ==
    /\ queuedPackets' = Tail(queuedPackets)
    /\ UNCHANGED queueSize_bytes

(* NetworkQueue::unqueuePacket.                                            *)
unqueuePacket ==
    /\ queuedPackets' = Tail(queuedPackets)
    /\ queueSize_bytes' = queueSize_bytes - Size[Head(queuedPackets)]

Discards == discardedPackets + 1

(* NetworkQueue::dext on port 0: a packet routed to this port.  The router *)
(* of the host comes before the port in the coupling, so a packet can      *)
(* arrive before any pending step of the port.                             *)
Arrive(p) ==
    /\ Running
    /\ p \in unsent
    /\ unsent' = unsent \ {p}
    /\ IF Fits(p)
       THEN /\ queuePacket(p)
            /\ UNCHANGED discardedPackets
       ELSE /\ discardedPackets' = Discards
            /\ UNCHANGED <<queuedPackets, queueSize_bytes>>
    /\ queueNext' = IF queuedPackets' # <<>> /\ serverstate = "SERVERWAITING" THEN "now" ELSE queueNext
    /\ UNCHANGED <<serverstate, linkVars, error>>

QueueDint_ServerStaysWaiting ==
    /\ unqueuePacket
    /\ queueNext' = "never"
    /\ UNCHANGED serverstate

(* NetworkQueue::dint.                                                     *)
QueueDint ==
    /\ unqueuePacket
    /\ queueNext' = "never"
    /\ serverstate' = "SERVERBUSY"

(* One engine step of the queue: NetworkQueue::lambda, Link::dext,         *)
(* NetworkQueue::dint.                                                     *)
QueueStep ==
    /\ Running
    /\ queueNext = "now"
    /\ UNCHANGED unsent
    /\ IF ~(serverstate = "SERVERWAITING" /\ queuedPackets # <<>>) THEN Throw("NetworkQueue::lambda")
       ELSE IF mystate # "WAITING_NEXT_JOB" THEN Throw("Link::dext")
       ELSE /\ incomingPacket' = Head(queuedPackets)
            /\ mystate' = "PROCESSING"
            /\ linkNext' = "later"
            /\ QueueDint
            /\ UNCHANGED <<discardedPackets, delivered, error>>

RequestNext_Ignored == queueNext

(* The end of NetworkQueue::dext when a request arrives at port 1.         *)
RequestNext == IF queuedPackets # <<>> THEN "now" ELSE queueNext

(* One engine step of the link: Link::lambda, NetworkQueue::dext on port 1 *)
(* (the internal coupling comes first), the packet leaves the host, and    *)
(* Link::dint.  The queue precedes the link in the coupling, so it steps   *)
(* first when both are imminent.                                           *)
LinkStep ==
    /\ Running
    /\ linkNext = "now"
    /\ queueNext # "now"
    /\ UNCHANGED unsent
    /\ IF mystate = "WAITING_NEXT_JOB" THEN Throw("Link::lambda")
       ELSE IF serverstate = "SERVERWAITING" THEN Throw("NetworkQueue::dext")
       ELSE /\ serverstate' = "SERVERWAITING"
            /\ queueNext' = RequestNext
            /\ delivered' = Append(delivered, incomingPacket)
            /\ mystate' = "WAITING_NEXT_JOB"
            /\ linkNext' = "never"
            /\ UNCHANGED <<queuedPackets, queueSize_bytes, discardedPackets, incomingPacket, error>>

(* Simulated time reaches the end of the current transmission, which is    *)
(* length * (1 / capacity) + delay after Link::dext.  Time passes only     *)
(* when no model has an event at the current time.                         *)
TransmissionEnds ==
    /\ Running
    /\ queueNext # "now"
    /\ linkNext = "later"
    /\ linkNext' = "now"
    /\ UNCHANGED <<unsent, queueVars, mystate, incomingPacket, delivered, error>>

Engine == QueueStep \/ LinkStep \/ TransmissionEnds

Next == Engine \/ \E p \in Packet : Arrive(p)

Spec == Init /\ [][Next]_vars

(* RootSimulator::run keeps stepping until the final time.                 *)
FairSpec == Spec /\ WF_vars(Engine)

-----------------------------------------------------------------------------
TypeOK ==
    /\ unsent \subseteq Packet
    /\ queuedPackets \in Seq(Packet)
    /\ queueSize_bytes \in Int
    /\ discardedPackets \in Nat
    /\ serverstate \in {"SERVERWAITING", "SERVERBUSY"}
    /\ queueNext \in {"now", "never"}
    /\ mystate \in {"FIRST_REQUEST", "WAITING_NEXT_JOB", "PROCESSING"}
    /\ incomingPacket \in Packet \cup {Fake}
    /\ linkNext \in {"now", "later", "never"}
    /\ delivered \in Seq(Packet \cup {Fake})
    /\ error \in {NoError, "NetworkQueue::lambda", "NetworkQueue::dext", "Link::lambda", "Link::dext"}

(* Queue and link agree on who has to move: the queue believes the server  *)
(* is waiting exactly when the link has nothing to transmit, and the queue *)
(* is imminent exactly when it has something to send to a waiting link.    *)
Handshake ==
    /\ serverstate = "SERVERWAITING" <=> mystate = "WAITING_NEXT_JOB"
    /\ queueNext = "now" <=> (serverstate = "SERVERWAITING" /\ queuedPackets # <<>>)
    /\ linkNext = "never" <=> mystate = "WAITING_NEXT_JOB"
    /\ mystate = "FIRST_REQUEST" => linkNext = "now" /\ incomingPacket = Fake

(* No legal sequence of arrivals and engine steps makes NetworkQueue or    *)
(* Link raise its "inconsistent state", "already has requested" or         *)
(* "another packet was present in the channel" exception.                  *)
NoException == error = NoError

(* The content of the port as a channel: the packet on the wire, if any,   *)
(* and the queue behind it.  The first packet on the wire is the fake one. *)
OnWire == IF mystate = "WAITING_NEXT_JOB" THEN <<>> ELSE <<incomingPacket>>

Contents == OnWire \o queuedPackets

Channel == INSTANCE FifoChannel
             WITH Packet <- Packet, Lane <- {0}, Preload <- [l \in {0} |-> <<Fake>>],
                  buf <- [l \in {0} |-> Contents], out <- [l \in {0} |-> delivered]

(* Every packet that is not discarded leaves the port exactly once and in  *)
(* the order of arrival.                                                   *)
ImplementsChannel == Channel!Spec

(* As long as the engine keeps stepping, every queued packet is sent.      *)
Among(p, s) == \E i \in DOMAIN s : s[i] = p
EventuallySent == \A p \in Packet : Among(p, queuedPackets) ~> Among(p, delivered)

(* The byte counter that decides on discards is the sum of the lengths of  *)
(* the queued packets after any sequence of queuePacket / unqueuePacket,   *)
(* and stays strictly below the capacity of a queue that accepts anything. *)
Bytes[s \in Seq(Packet)] == IF s = <<>> THEN 0 ELSE Size[Head(s)] + Bytes[Tail(s)]
CounterExact ==
    /\ queueSize_bytes = Bytes[queuedPackets]
    /\ queueSize_bytes > 0 => queueSize_bytes < MaxCapacity

(* What every state between two events satisfies: the variables are typed, *)
(* queue and link agree on who has to move, and no exception of            *)
(* NetworkQueue or Link has ended the simulation.  NoException is not      *)
(* inductive without the other two.                                        *)
PortInv == TypeOK /\ Handshake /\ NoException
=============================================================================
