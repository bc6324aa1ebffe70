--------------------------- MODULE TcpConnection ---------------------------
(***************************************************************************)
(* The TCP models of the ATLAS-TDAQ library, coupled into one connection:  *)
(* a TcpSender, one hop of the simulated network (a PacketQueue with tail  *)
(* drop and the PacketNetworkServer it feeds), a TcpAck at the other end,  *)
(* and a return path that may delay, reorder and lose acknowledgements.    *)
(* The return path is not code of the library: it stands for any network   *)
(* between the two hosts.                                                  *)
(*                                                                         *)
(* One action is one engine step: lambda of the imminent model, dext of    *)
(* the models its output reaches, and dint.  A sigma is "now", "later" (a  *)
(* finite time ahead) or "never".  The round trip estimation only decides  *)
(* how far "later" is: a retransmission timer may expire at any time.      *)
(***************************************************************************)
EXTENDS Integers, Sequences, FiniteSets

CONSTANTS Packets,             \* how many packets the application sends
          InitialThreshold,    \* the parameter slowStartThreshold
          MaxCapacity          \* PacketQueue::MaxCapacity_bytes, in packets

ASSUME TcpAssumption ==
    /\ Packets \in Nat
    /\ InitialThreshold \in Nat
    /\ MaxCapacity \in Nat \ {0}

VARIABLES
    lastSequenceNumber,        \* TcpSender: the next SEQ to use
    sendBuffer,                \* TcpSender: the SEQs not acknowledged, oldest first
    forwarded,                 \* TcpQueuedPacket::forwarded, as a set of SEQs
    onTheFly,                  \* TcpQueuedPacket::onTheFly, as a set of SEQs
    congestionWindow,
    slowStartThreshold,
    congestionAvoidanceState,
    pendingAcks,               \* pendingCongestionAvoidanceAcksToIncreaseWindow
    myState,                   \* TcpSender::myState
    senderNext,                \* TcpSender::sigma
    ForcedPeriod,              \* PacketQueue: "later" for a finite period, "never" for -1
    packetQueue,               \* PacketQueue
    mystate,
    serverstate,
    queueNext,
    server,                    \* PacketNetworkServer::mystate
    incomingPacket,
    serverNext,
    packetsToAck,              \* TcpAck
    ackNext,
    acks,                      \* the return path: ACK numbers under way
    received,                  \* history: the SEQs TcpAck has received
    acknowledged               \* history: the SEQs erased from sendBuffer

caVars     == <<congestionWindow, slowStartThreshold, congestionAvoidanceState, pendingAcks>>
senderVars == <<lastSequenceNumber, sendBuffer, forwarded, onTheFly, caVars, myState, senderNext, acknowledged>>
queueVars  == <<ForcedPeriod, packetQueue, mystate, serverstate, queueNext>>
serverVars == <<server, incomingPacket, serverNext>>
ackVars    == <<packetsToAck, ackNext, received>>
vars       == <<senderVars, queueVars, serverVars, ackVars, acks>>

SEQ == 0 .. Packets - 1
NoPacket == -1
Among(p, s) == \E i \in DOMAIN s : s[i] = p

(* TcpSender::init, PacketQueue::init with either kind of ForcedPeriod,    *)
(* PacketNetworkServer::init and TcpAck::init.                             *)
Init ==
    /\ lastSequenceNumber = 0
    /\ sendBuffer = <<>>
    /\ forwarded = {}
    /\ onTheFly = {}
    /\ congestionWindow = 1
    /\ slowStartThreshold = InitialThreshold
    /\ congestionAvoidanceState = "SLOW_START"
    /\ pendingAcks = 0
    /\ myState = "RETRANSMITTING_PACKET"
    /\ senderNext = "never"
    /\ ForcedPeriod \in {"later", "never"}
    /\ packetQueue = <<>>
    /\ mystate = "WAITING"
    /\ serverstate = "SERVERBUSY"
    /\ queueNext = ForcedPeriod
    /\ server = "REQUESTING"
    /\ incomingPacket = NoPacket
    /\ serverNext = "now"
    /\ packetsToAck = <<>>
    /\ ackNext = "never"
    /\ acks = {}
    /\ received = {}
    /\ acknowledged = <<>>

-----------------------------------------------------------------------------
(* The sender.                                                             *)

(* TcpSender::getNextPacketPendingForward: the first packet of the buffer  *)
(* that is not on the fly.                                                 *)
Pending(buf, fly) == {i \in DOMAIN buf : buf[i] \notin fly}
NextPacketPendingForward(buf, fly) == CHOOSE i \in Pending(buf, fly) : \A j \in Pending(buf, fly) : i <= j

LastRetransmit(buf, fwd, window) == Len(buf) = 1 /\ buf[1] \in fwd /\ window = 2

AvailableCongestionWindow_OffByOne(fwd, fly, window) == window - Cardinality(fwd \cap fly) + 1

(* TcpSender::getAvailableCongestionWindow and getUnAckPackets.            *)
AvailableCongestionWindow(fwd, fly, window) == window - Cardinality(fwd \cap fly)

TimerSigma_OnlyOnTheFly(buf, fly) == IF fly = {} THEN "never" ELSE "later"

(* TcpSender::getNextRetransmissionTime: no timer for an empty buffer.     *)
TimerSigma(buf, fly) == IF buf = <<>> THEN "never" ELSE "later"

(* TcpSender::setNextSigma: forward at once when the window has room for a *)
(* pending packet, except for the "0.6s latency" workaround; otherwise     *)
(* wait for the retransmission timer.                                      *)
setNextSigma(buf, fwd, fly, window) ==
    LET forwards == /\ AvailableCongestionWindow(fwd, fly, window) > 0
                    /\ Pending(buf, fly) # {}
                    /\ ~LastRetransmit(buf, fwd, window)
    IN  /\ myState' = IF forwards THEN "FORWARDING_PACKET" ELSE "RETRANSMITTING_PACKET"
        /\ senderNext' = IF forwards THEN "now" ELSE TimerSigma(buf, fly)

(* TcpSender::dext on port 0: the application hands over a packet.         *)
Submit ==
    /\ lastSequenceNumber < Packets
    /\ lastSequenceNumber' = lastSequenceNumber + 1
    /\ sendBuffer' = Append(sendBuffer, lastSequenceNumber)
    /\ setNextSigma(sendBuffer', forwarded, onTheFly, congestionWindow)
    /\ UNCHANGED <<forwarded, onTheFly, caVars, acknowledged, queueVars, serverVars, ackVars, acks>>

(* An ACK for each packet of the window has been received.                 *)
WindowComplete == pendingAcks = 0

(* TcpSender::setNewCAAfterAckReceived.                                    *)
setNewCAAfterAckReceived ==
    /\ UNCHANGED slowStartThreshold
    /\ \/ /\ congestionAvoidanceState = "SLOW_START"
          /\ congestionWindow' = congestionWindow + 1
          /\ IF slowStartThreshold <= congestionWindow'
             THEN /\ congestionAvoidanceState' = "CONGESTION_AVOIDANCE"
                  /\ pendingAcks' = congestionWindow'
             ELSE UNCHANGED <<congestionAvoidanceState, pendingAcks>>
       \/ /\ congestionAvoidanceState = "CONGESTION_AVOIDANCE"
          /\ IF WindowComplete
             THEN /\ congestionWindow' = congestionWindow + 1
                  /\ pendingAcks' = congestionWindow'
             ELSE /\ pendingAcks' = pendingAcks - 1
                  /\ UNCHANGED congestionWindow
          /\ UNCHANGED congestionAvoidanceState

ValidAck_AnyNumber(a) == sendBuffer # <<>> /\ sendBuffer[1] \in forwarded

(* TcpSender::validateReceivedAckPacket and the order check of dext: an    *)
(* ACK counts only when it is for the first packet of the buffer, which    *)
(* was forwarded before.                                                   *)
ValidAck(a) == sendBuffer # <<>> /\ sendBuffer[1] = a /\ a \in forwarded

eraseAcknowledged_Last ==
    LET n == Len(sendBuffer)
    IN  /\ sendBuffer' = SubSeq(sendBuffer, 1, n - 1)
        /\ acknowledged' = Append(acknowledged, sendBuffer[n])
        /\ forwarded' = forwarded \ {sendBuffer[n]}
        /\ onTheFly' = onTheFly \ {sendBuffer[n]}

(* sendBuffer.erase at the end of TcpSender::dext.                         *)
eraseAcknowledged ==
    /\ sendBuffer' = Tail(sendBuffer)
    /\ acknowledged' = Append(acknowledged, Head(sendBuffer))
    /\ forwarded' = forwarded \ {Head(sendBuffer)}
    /\ onTheFly' = onTheFly \ {Head(sendBuffer)}

(* TcpSender::dext on port 1.  An ACK that does not count leaves the timer *)
(* running (sigma - e).                                                    *)
AckArrives(a) ==
    /\ a \in acks
    /\ acks' = acks \ {a}
    /\ IF ValidAck(a)
       THEN /\ setNewCAAfterAckReceived
            /\ eraseAcknowledged
            /\ setNextSigma(sendBuffer', forwarded', onTheFly', congestionWindow')
       ELSE UNCHANGED <<caVars, sendBuffer, forwarded, onTheFly, acknowledged, myState, senderNext>>
    /\ UNCHANGED <<lastSequenceNumber, queueVars, serverVars, ackVars>>

-----------------------------------------------------------------------------
(* The hop.                                                                *)

(* PacketQueue::dext on port 0: the packet is queued, or rejected when the *)
(* queue is full; in both cases the new length is notified at once.        *)
queueArrival(p) ==
    /\ packetQueue' = IF Len(packetQueue) + 1 > MaxCapacity THEN packetQueue ELSE Append(packetQueue, p)
    /\ mystate' = "t_NOTIFYING"
    /\ queueNext' = "now"
    /\ UNCHANGED <<ForcedPeriod, serverstate>>

(* One engine step of TcpSender in state FORWARDING_PACKET.                *)
Forward ==
    LET p == sendBuffer[NextPacketPendingForward(sendBuffer, onTheFly)]
    IN  /\ senderNext = "now"
        /\ myState = "FORWARDING_PACKET"
        /\ Pending(sendBuffer, onTheFly) # {}
        /\ forwarded' = forwarded \cup {p}
        /\ onTheFly' = onTheFly \cup {p}
        /\ queueArrival(p)
        /\ setNextSigma(sendBuffer, forwarded', onTheFly', congestionWindow)
        /\ UNCHANGED <<lastSequenceNumber, sendBuffer, caVars, acknowledged, serverVars, ackVars, acks>>

(* TcpSender::lambda clears onTheFly of every packet before it             *)
(* retransmits.                                                            *)
StillOnTheFly == {}

(* One engine step of TcpSender in state RETRANSMITTING_PACKET: the timer  *)
(* has expired, the first packet is sent again and the window collapses    *)
(* (setNewCAAfterARetransmission).                                         *)
Retransmit ==
    /\ senderNext = "now"
    /\ myState = "RETRANSMITTING_PACKET"
    /\ sendBuffer # <<>>
    /\ forwarded' = forwarded \cup {Head(sendBuffer)}
    /\ onTheFly' = StillOnTheFly \cup {Head(sendBuffer)}
    /\ slowStartThreshold' = congestionWindow \div 2
    /\ congestionWindow' = 1
    /\ congestionAvoidanceState' = "SLOW_START"
    /\ queueArrival(Head(sendBuffer))
    /\ setNextSigma(sendBuffer, forwarded', onTheFly', 1)
    /\ UNCHANGED <<lastSequenceNumber, sendBuffer, pendingAcks, acknowledged, serverVars, ackVars, acks>>

(* PacketQueue::lambda and dint in state WAITING: the forced period has    *)
(* elapsed, and the queue takes the server for a waiting one.              *)
WakeUp ==
    /\ queueNext = "now"
    /\ mystate = "WAITING"
    /\ serverstate' = "SERVERWAITING"
    /\ mystate' = "t_NOTIFYING"
    /\ UNCHANGED <<ForcedPeriod, packetQueue, queueNext, senderVars, serverVars, ackVars, acks>>

(* PacketQueue::lambda and dint in state t_NOTIFYING.  The notified length *)
(* only goes to loggers.                                                   *)
Notify ==
    /\ queueNext = "now"
    /\ mystate = "t_NOTIFYING"
    /\ IF serverstate = "SERVERWAITING" /\ packetQueue # <<>>
       THEN mystate' = "t_READYTOEMIT" /\ queueNext' = "now"
       ELSE mystate' = "WAITING" /\ queueNext' = ForcedPeriod
    /\ UNCHANGED <<ForcedPeriod, packetQueue, serverstate, senderVars, serverVars, ackVars, acks>>

serverstateAfterEmit == "SERVERBUSY"

(* PacketQueue::lambda and dint in state t_READYTOEMIT, with the dext of   *)
(* PacketNetworkServer, which forgets the packet it is processing, if any. *)
Emit ==
    /\ queueNext = "now"
    /\ mystate = "t_READYTOEMIT"
    /\ IF serverstate = "SERVERWAITING" /\ packetQueue # <<>>
       THEN /\ incomingPacket' = Head(packetQueue)
            /\ server' = "PROCESSING"
            /\ serverNext' = "later"
            /\ packetQueue' = Tail(packetQueue)
            /\ serverstate' = serverstateAfterEmit
            /\ mystate' = "t_NOTIFYING"
            /\ queueNext' = "now"
       ELSE /\ mystate' = "WAITING"
            /\ queueNext' = ForcedPeriod
            /\ UNCHANGED <<packetQueue, serverstate, serverVars>>
    /\ UNCHANGED <<ForcedPeriod, senderVars, ackVars, acks>>

(* The end of PacketQueue::dext on port 1: an empty queue keeps its sigma. *)
RequestSigma == IF packetQueue # <<>> THEN "now" ELSE queueNext

(* PacketNetworkServer::lambda and dint in state REQUESTING, with          *)
(* PacketQueue::dext on port 1.                                            *)
Request ==
    /\ serverNext = "now"
    /\ server = "REQUESTING"
    /\ server' = "WAITING_NEXT_JOB"
    /\ serverNext' = "never"
    /\ serverstate' = "SERVERWAITING"
    /\ mystate' = "t_READYTOEMIT"
    /\ queueNext' = RequestSigma
    /\ UNCHANGED <<ForcedPeriod, packetQueue, incomingPacket, senderVars, ackVars, acks>>

(* PacketNetworkServer::lambda and dint in state PROCESSING, with the dext *)
(* of TcpAck.                                                              *)
Arrive ==
    /\ serverNext = "now"
    /\ server = "PROCESSING"
    /\ server' = "REQUESTING"
    /\ packetsToAck' = Append(packetsToAck, incomingPacket)
    /\ ackNext' = "now"
    /\ received' = received \cup {incomingPacket}
    /\ UNCHANGED <<serverNext, incomingPacket, senderVars, queueVars, acks>>

-----------------------------------------------------------------------------
(* TcpAck::lambda and dint: the oldest packet is acknowledged by its own   *)
(* SEQ.  The return path holds one ACK of each number.                     *)
Acknowledge ==
    /\ ackNext = "now"
    /\ packetsToAck # <<>>
    /\ acks' = acks \cup {Head(packetsToAck)}
    /\ packetsToAck' = Tail(packetsToAck)
    /\ ackNext' = IF packetsToAck' # <<>> THEN "now" ELSE "never"
    /\ UNCHANGED <<received, senderVars, queueVars, serverVars>>

(* The return path loses an ACK.                                           *)
LoseAck ==
    /\ \E a \in acks : acks' = acks \ {a}
    /\ UNCHANGED <<senderVars, queueVars, serverVars, ackVars>>

Engine == Forward \/ Retransmit \/ WakeUp \/ Notify \/ Emit \/ Request \/ Arrive \/ Acknowledge

(* Simulated time advances when no model is imminent: the transmission     *)
(* ends, the retransmission timer expires, the forced period elapses, or   *)
(* several of them at once.                                                *)
Quiet == "now" \notin {senderNext, queueNext, serverNext, ackNext}

MayBeDue(next) == {next, IF next = "later" THEN "now" ELSE next}

TransmissionEnds ==
    /\ Quiet
    /\ serverNext = "later"
    /\ serverNext' = "now"
    /\ senderNext' \in MayBeDue(senderNext)
    /\ queueNext' \in MayBeDue(queueNext)
    /\ UNCHANGED <<lastSequenceNumber, sendBuffer, forwarded, onTheFly, caVars, myState, acknowledged,
                   ForcedPeriod, packetQueue, mystate, serverstate, server, incomingPacket, ackVars, acks>>

TimerExpires ==
    /\ Quiet
    /\ senderNext = "later"
    /\ senderNext' = "now"
    /\ queueNext' \in MayBeDue(queueNext)
    /\ UNCHANGED <<lastSequenceNumber, sendBuffer, forwarded, onTheFly, caVars, myState, acknowledged,
                   ForcedPeriod, packetQueue, mystate, serverstate, serverVars, ackVars, acks>>

PeriodElapses ==
    /\ Quiet
    /\ queueNext = "later"
    /\ queueNext' = "now"
    /\ UNCHANGED <<ForcedPeriod, packetQueue, mystate, serverstate, senderVars, serverVars, ackVars, acks>>

Next ==
    \/ Submit
    \/ \E a \in SEQ : AckArrives(a)
    \/ Engine
    \/ TransmissionEnds
    \/ TimerExpires
    \/ PeriodElapses
    \/ LoseAck

Spec == Init /\ [][Next]_vars

(* The engine keeps stepping and simulated time keeps advancing; the ACK   *)
(* that the sender waits for gets through if it is sent again and again.   *)
(* A transmission that is preempted again and again ends and its packet    *)
(* arrives: the retransmission timeout doubles until, between two          *)
(* retransmissions, the queue has nothing left to preempt it with.         *)
FairSpec ==
    /\ Spec
    /\ WF_vars(Engine)
    /\ SF_vars(TransmissionEnds)
    /\ SF_vars(Arrive)
    /\ SF_vars(TimerExpires)
    /\ SF_vars(\E a \in SEQ : ValidAck(a) /\ AckArrives(a))

-----------------------------------------------------------------------------
TypeOK ==
    /\ lastSequenceNumber \in 0 .. Packets
    /\ sendBuffer \in Seq(SEQ)
    /\ forwarded \subseteq SEQ /\ onTheFly \subseteq SEQ
    /\ congestionWindow \in Nat \ {0}
    /\ slowStartThreshold \in Nat
    /\ congestionAvoidanceState \in {"SLOW_START", "CONGESTION_AVOIDANCE"}
    /\ pendingAcks \in Nat
    /\ myState \in {"FORWARDING_PACKET", "RETRANSMITTING_PACKET"}
    /\ senderNext \in {"now", "later", "never"}
    /\ packetQueue \in Seq(SEQ)
    /\ mystate \in {"WAITING", "t_NOTIFYING", "t_READYTOEMIT"}
    /\ serverstate \in {"SERVERWAITING", "SERVERBUSY"}
    /\ ForcedPeriod \in {"later", "never"}
    /\ queueNext \in {"now", ForcedPeriod}
    /\ server \in {"REQUESTING", "WAITING_NEXT_JOB", "PROCESSING"}
    /\ incomingPacket \in SEQ \cup {NoPacket}
    /\ serverNext \in {"now", "later", "never"}
    /\ packetsToAck \in Seq(SEQ)
    /\ ackNext \in {"now", "never"}
    /\ acks \subseteq SEQ /\ received \subseteq SEQ
    /\ acknowledged \in Seq(SEQ)

(* TcpSender::lambda never throws "invalid model state" and never takes    *)
(* the front of an empty deque, whatever ACKs arrive between the moment    *)
(* sigma is set and the moment lambda runs; and a sender that still has    *)
(* packets is never left without a timer.                                  *)
SenderArmed ==
    /\ senderNext # "never" <=> sendBuffer # <<>>
    /\ senderNext # "never" /\ myState = "FORWARDING_PACKET" => Pending(sendBuffer, onTheFly) # {}

(* A packet that the sender has forgotten has reached the other end, with  *)
(* lost, late and repeated ACKs and packets sent again after a timeout.    *)
AcknowledgedWasReceived == \A p \in 0 .. lastSequenceNumber - 1 : Among(p, sendBuffer) \/ p \in received

(* No more packets are on the fly than the congestion window admits, also  *)
(* when the window collapses with a full window on the fly.                *)
WindowRespected == onTheFly \subseteq forwarded /\ Cardinality(onTheFly) <= congestionWindow

(* The queue never forgets that the server waits, and with packets it is   *)
(* imminent as soon as it takes the server for waiting.  The converse, on  *)
(* which it depends that PacketNetworkServer does not preempt the packet   *)
(* in service, holds without a forced period only: when the period elapses *)
(* the queue sends unasked.                                                *)
HopHandshake ==
    /\ server = "WAITING_NEXT_JOB" => serverstate = "SERVERWAITING"
    /\ serverstate = "SERVERWAITING" /\ packetQueue # <<>> => queueNext = "now"
    /\ ForcedPeriod = "never" /\ serverstate = "SERVERWAITING" => server = "WAITING_NEXT_JOB"

Channel == INSTANCE FifoChannel
             WITH Packet <- SEQ, Lane <- {0}, Preload <- [l \in {0} |-> <<>>],
                  buf <- [l \in {0} |-> sendBuffer], out <- [l \in {0} |-> acknowledged]

(* Seen from the application the connection is a FIFO channel: packets are *)
(* acknowledged once each, in the order in which they were submitted.      *)
ImplementsChannel == Channel!Spec

(* Every submitted packet is acknowledged in the end, through tail drops,  *)
(* lost ACKs, premature timeouts, the "0.6s latency" workaround, and       *)
(* packets that the server forgets because the forced period elapsed.      *)
EventuallyAcknowledged == \A p \in SEQ : Among(p, sendBuffer) ~> Among(p, acknowledged)

(* The invariant of the connection: a sender with packets is armed and has *)
(* something to send when it forwards, the packets on the fly fit into the *)
(* window, and queue and server agree as far as the forced period lets     *)
(* them.                                                                   *)
TcpInv == TypeOK /\ SenderArmed /\ WindowRespected /\ HopHandshake
=============================================================================
