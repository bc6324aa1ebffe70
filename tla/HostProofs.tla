----------------------------- MODULE HostProofs -----------------------------
(***************************************************************************)
(* A simulated host, for every set of packets and flows, every size and    *)
(* capacity and all values of the distributions.  The egress port: the     *)
(* handshake between NetworkQueue and Link is never broken, neither model  *)
(* ever throws, and the port is a FIFO channel.  The traffic generator:    *)
(* every flow keeps to its own schedule however the flows interleave.      *)
(***************************************************************************)
EXTENDS HostPort, FelixServer, ProofFacts

-----------------------------------------------------------------------------
(* The egress port.                                                        *)

LEMMA InitTypeOK == Init => TypeOK
  BY PortAssumption DEF Init, TypeOK, NoError

(* The actions of the port preserve the type invariant.                    *)
LEMMA NextTypeOK == TypeOK /\ [Next]_vars => TypeOK'
  <1> SUFFICES ASSUME TypeOK, [Next]_vars PROVE TypeOK'
    OBVIOUS
  <1> USE PortAssumption DEF TypeOK, NoError, Throw, Running, queueVars, linkVars, vars
  <1>1. CASE QueueStep
    <2>1. CASE serverstate = "SERVERWAITING" /\ queuedPackets # <<>> /\ mystate = "WAITING_NEXT_JOB"
      <3>1. /\ Head(queuedPackets) \in Packet
            /\ Tail(queuedPackets) \in Seq(Packet)
            /\ Size[Head(queuedPackets)] \in Int
        BY <2>1
      <3>2. queueSize_bytes - Size[Head(queuedPackets)] \in Int
        BY <3>1
      <3> HIDE PortAssumption
      <3> QED
        BY <1>1, <2>1, <3>1, <3>2 DEF QueueStep, QueueDint, unqueuePacket
    <2>2. CASE ~(serverstate = "SERVERWAITING" /\ queuedPackets # <<>> /\ mystate = "WAITING_NEXT_JOB")
      BY <1>1, <2>2 DEF QueueStep
    <2> QED
      BY <2>1, <2>2
  <1>2. CASE LinkStep
    <2>1. CASE mystate # "WAITING_NEXT_JOB" /\ serverstate # "SERVERWAITING"
      <3>1. Append(delivered, incomingPacket) \in Seq(Packet \cup {Fake})
        OBVIOUS
      <3> QED
        BY <1>2, <2>1, <3>1 DEF LinkStep, RequestNext
    <2>2. CASE ~(mystate # "WAITING_NEXT_JOB" /\ serverstate # "SERVERWAITING")
      BY <1>2, <2>2 DEF LinkStep
    <2> QED
      BY <2>1, <2>2
  <1>3. CASE TransmissionEnds
    BY <1>3 DEF TransmissionEnds
  <1>4. ASSUME NEW p \in Packet, Arrive(p) PROVE TypeOK'
    <2>1. CASE Fits(p)
      <3>1. Append(queuedPackets, p) \in Seq(Packet) /\ Size[p] \in Int
        OBVIOUS
      <3>2. queueSize_bytes + Size[p] \in Int
        BY <3>1
      <3> HIDE PortAssumption
      <3> QED
        BY <1>4, <2>1, <3>1, <3>2 DEF Arrive, queuePacket
    <2>2. CASE ~Fits(p)
      BY <1>4, <2>2 DEF Arrive, Discards
    <2> QED
      BY <2>1, <2>2
  <1>5. CASE UNCHANGED vars
    BY <1>5
  <1> QED
    BY <1>1, <1>2, <1>3, <1>4, <1>5 DEF Next, Engine

(* Every reachable state of the host's port is well typed.                 *)
THEOREM TypeCorrect == Spec => []TypeOK
  BY InitTypeOK, NextTypeOK, PTL DEF Spec

-----------------------------------------------------------------------------
(* The inductive invariant PortInv: the two models agree on whose turn it  *)
(* is, and the simulation has not been ended by an exception.              *)
LEMMA InitPortInv == Init => PortInv
  BY InitTypeOK DEF Init, PortInv, Handshake, NoException

LEMMA NextPortInv == PortInv /\ [Next]_vars => PortInv'
  <1> SUFFICES ASSUME PortInv, [Next]_vars PROVE PortInv'
    OBVIOUS
  <1>0. TypeOK /\ TypeOK'
    BY NextTypeOK DEF PortInv
  <1> SUFFICES Handshake' /\ NoException'
    BY <1>0 DEF PortInv
  <1> USE <1>0 DEF PortInv, TypeOK, Handshake, NoException, queueVars, linkVars, vars
  <1>1. CASE QueueStep
    BY <1>1 DEF QueueStep, QueueDint, unqueuePacket
  <1>2. CASE LinkStep
    BY <1>2 DEF LinkStep, RequestNext
  <1>3. CASE TransmissionEnds
    BY <1>3 DEF TransmissionEnds
  <1>4. ASSUME NEW p \in Packet, Arrive(p) PROVE Handshake' /\ NoException'
    <2>1. CASE Fits(p)
      <3>1. queuedPackets' = Append(queuedPackets, p) /\ queuedPackets' # <<>>
        BY <1>4, <2>1 DEF Arrive, queuePacket
      <3> QED
        BY <1>4, <3>1 DEF Arrive
    <2>2. CASE ~Fits(p)
      BY <1>4, <2>2 DEF Arrive
    <2> QED
      BY <2>1, <2>2
  <1>5. CASE UNCHANGED vars
    BY <1>5
  <1> QED
    BY <1>1, <1>2, <1>3, <1>4, <1>5 DEF Next, Engine

(* NetworkQueue and Link agree on whose turn it is and none of their       *)
(* exceptions is reachable, for all packets, lengths and capacities.       *)
THEOREM PortInvariant == Spec => []PortInv
  BY InitPortInv, NextPortInv, PTL DEF Spec

(* Queue and link agree on whose turn it is in every reachable state.      *)
THEOREM HandshakeHolds == Spec => []Handshake
  <1>1. PortInv => Handshake
    BY DEF PortInv
  <1> QED
    BY <1>1, InitPortInv, NextPortInv, PTL DEF Spec

(* None of the four runtime_error of NetworkQueue and Link is reachable.   *)
THEOREM NeverThrows == Spec => []NoException
  <1>1. PortInv => NoException
    BY DEF PortInv
  <1> QED
    BY <1>1, InitPortInv, NextPortInv, PTL DEF Spec

-----------------------------------------------------------------------------
(* The byte counter.                                                       *)

(* Bytes is the sum of the lengths of a sequence of packets.               *)
LEMMA BytesIsSum == Size \in [Packet -> Nat] /\ IsSum(Packet, Size, Bytes)
  <1>1. Size \in [Packet -> Nat]
    BY PortAssumption
  <1>2. \E F : F = [s \in Seq(Packet) |-> IF s = <<>> THEN 0 ELSE Size[Head(s)] + F[Tail(s)]]
    BY <1>1, SumExists DEF IsSum
  <1>3. Bytes = [s \in Seq(Packet) |-> IF s = <<>> THEN 0 ELSE Size[Head(s)] + Bytes[Tail(s)]]
    BY <1>2, Zenon DEF Bytes
  <1> QED
    BY <1>1, <1>3 DEF IsSum

LEMMA BytesOfTail ==
  ASSUME NEW s \in Seq(Packet), s # <<>>
  PROVE  Bytes[Tail(s)] = Bytes[s] - Size[Head(s)] /\ Size[Head(s)] \in Nat /\ Bytes[s] \in Nat
  <1>1. Tail(s) \in Seq(Packet) /\ Head(s) \in Packet
    OBVIOUS
  <1>2. Bytes[s] = Size[Head(s)] + Bytes[Tail(s)]
    BY BytesIsSum DEF IsSum
  <1>3. Bytes[Tail(s)] \in Nat /\ Bytes[s] \in Nat /\ Size[Head(s)] \in Nat
    BY <1>1, BytesIsSum, SumIsNat
  <1> QED
    BY <1>2, <1>3

LEMMA BytesOfAppend ==
  ASSUME NEW s \in Seq(Packet), NEW p \in Packet
  PROVE  Bytes[Append(s, p)] = Bytes[s] + Size[p] /\ Size[p] \in Nat /\ Bytes[s] \in Nat
  BY BytesIsSum, SumOfAppend, SumIsNat

LEMMA InitCounter == Init => CounterExact
  <1>1. <<>> \in Seq(Packet)
    OBVIOUS
  <1>2. Bytes[<<>>] = 0
    BY <1>1, BytesIsSum DEF IsSum
  <1> QED
    BY <1>2 DEF Init, CounterExact

LEMMA NextCounter == TypeOK /\ CounterExact /\ [Next]_vars => CounterExact'
  <1> SUFFICES ASSUME TypeOK, CounterExact, [Next]_vars PROVE CounterExact'
    OBVIOUS
  <1>0. /\ queuedPackets \in Seq(Packet) /\ queueSize_bytes \in Int
        /\ queueSize_bytes = Bytes[queuedPackets]
        /\ queueSize_bytes > 0 => queueSize_bytes < MaxCapacity
        /\ MaxCapacity \in Nat
    BY PortAssumption DEF TypeOK, CounterExact
  <1>1. ASSUME UNCHANGED <<queuedPackets, queueSize_bytes>> PROVE CounterExact'
    BY <1>0, <1>1 DEF CounterExact
  <1>2. CASE QueueStep
    <2>1. CASE serverstate = "SERVERWAITING" /\ queuedPackets # <<>> /\ mystate = "WAITING_NEXT_JOB"
      <3>1. /\ queuedPackets' = Tail(queuedPackets) /\ queuedPackets # <<>>
            /\ queueSize_bytes' = queueSize_bytes - Size[Head(queuedPackets)]
        BY <1>2, <2>1 DEF QueueStep, QueueDint, unqueuePacket
      <3>2. Bytes[Tail(queuedPackets)] = queueSize_bytes - Size[Head(queuedPackets)] /\ Size[Head(queuedPackets)] \in Nat
        BY <1>0, <3>1, BytesOfTail
      <3>3. queueSize_bytes' = Bytes[queuedPackets']
        BY <3>1, <3>2
      <3>4. queueSize_bytes' > 0 => queueSize_bytes' < MaxCapacity
        BY <1>0, <3>1, <3>2
      <3> QED
        BY <3>3, <3>4 DEF CounterExact
    <2>2. CASE ~(serverstate = "SERVERWAITING" /\ queuedPackets # <<>> /\ mystate = "WAITING_NEXT_JOB")
      BY <1>1, <1>2, <2>2 DEF QueueStep, Throw, queueVars
    <2> QED
      BY <2>1, <2>2
  <1>3. CASE LinkStep \/ TransmissionEnds \/ UNCHANGED vars
    BY <1>1, <1>3 DEF LinkStep, TransmissionEnds, Throw, queueVars, vars
  <1>4. ASSUME NEW p \in Packet, Arrive(p) PROVE CounterExact'
    <2>1. CASE Fits(p)
      <3>1. queuedPackets' = Append(queuedPackets, p) /\ queueSize_bytes' = queueSize_bytes + Size[p]
        BY <1>4, <2>1 DEF Arrive, queuePacket
      <3>2. Bytes[Append(queuedPackets, p)] = queueSize_bytes + Size[p] /\ Size[p] \in Nat
        BY <1>0, BytesOfAppend
      <3>3. queueSize_bytes' = Bytes[queuedPackets']
        BY <3>1, <3>2
      <3>4. queueSize_bytes' < MaxCapacity
        BY <2>1, <3>1 DEF Fits
      <3> QED
        BY <3>3, <3>4 DEF CounterExact
    <2>2. CASE ~Fits(p)
      BY <1>1, <1>4, <2>2 DEF Arrive
    <2> QED
      BY <2>1, <2>2
  <1> QED
    BY <1>2, <1>3, <1>4 DEF Next, Engine

(* After any sequence of arrivals, discards and transmissions NetworkQueue *)
(* decides on the sum of the lengths of the packets it holds, and holds    *)
(* less than its capacity.                                                 *)
THEOREM CounterIsExact == Spec => []CounterExact
  BY InitTypeOK, NextTypeOK, InitCounter, NextCounter, PTL DEF Spec

-----------------------------------------------------------------------------
(* Each step of the port is a step of the channel or changes nothing that  *)
(* the channel shows.                                                      *)
LEMMA StepRefines == PortInv /\ PortInv' /\ [Next]_vars => [Channel!Next]_(Channel!chanVars)
  <1> SUFFICES ASSUME PortInv, PortInv', [Next]_vars
               PROVE  Channel!Put(0) \/ Channel!Deliver(0) \/ Channel!Idle(0)
    BY DEF Channel!Next
  <1> DEFINE P == Packet \cup {Fake}
  <1>0. /\ queuedPackets \in Seq(P) /\ queuedPackets' \in Seq(P)
        /\ incomingPacket \in P /\ incomingPacket' \in P
    BY DEF PortInv, TypeOK
  <1>w. OnWire \in Seq(P) /\ OnWire' \in Seq(P)
    <2> HIDE DEF P
    <2> QED
      BY <1>0 DEF OnWire
  <1>i. ASSUME Contents' = Contents, delivered' = delivered PROVE Channel!Idle(0)
    BY <1>i DEF Channel!Idle
  <1>1. CASE QueueStep
    <2>1. /\ OnWire = <<>> /\ OnWire' = <<Head(queuedPackets)>>
          /\ queuedPackets # <<>> /\ queuedPackets' = Tail(queuedPackets)
          /\ delivered' = delivered
      BY <1>1 DEF QueueStep, QueueDint, unqueuePacket, OnWire, PortInv, Handshake
    <2>2. Contents' = Contents
      BY <1>0, <2>1, HeadThenTail, EmptyFront DEF Contents
    <2> QED
      BY <1>i, <2>1, <2>2
  <1>2. CASE LinkStep
    <2>1. /\ OnWire = <<incomingPacket>> /\ OnWire' = <<>>
          /\ queuedPackets' = queuedPackets
          /\ delivered' = Append(delivered, incomingPacket)
      BY <1>2 DEF LinkStep, OnWire, PortInv, Handshake, TypeOK
    <2>2. Contents # <<>> /\ Head(Contents) = incomingPacket /\ Tail(Contents) = queuedPackets
      BY <1>0, <2>1, FrontOfWire DEF Contents
    <2>3. Contents' = queuedPackets
      BY <1>0, <2>1, EmptyFront DEF Contents
    <2> QED
      BY <2>1, <2>2, <2>3 DEF Channel!Deliver
  <1>3. CASE TransmissionEnds
    BY <1>3, <1>i DEF TransmissionEnds, queueVars, OnWire, Contents
  <1>4. ASSUME NEW p \in Packet, Arrive(p) PROVE Channel!Put(0) \/ Channel!Idle(0)
    <2>1. OnWire' = OnWire /\ delivered' = delivered
      BY <1>4 DEF Arrive, linkVars, OnWire
    <2>2. CASE Fits(p)
      <3>1. queuedPackets' = Append(queuedPackets, p)
        BY <1>4, <2>2 DEF Arrive, queuePacket
      <3>2. Contents' = Append(Contents, p)
        BY <1>0, <1>w, <2>1, <3>1, AppendBehind DEF Contents
      <3> QED
        BY <2>1, <3>2 DEF Channel!Put
    <2>3. CASE ~Fits(p)
      BY <1>4, <1>i, <2>1, <2>3 DEF Arrive, Contents
    <2> QED
      BY <2>2, <2>3
  <1>5. CASE UNCHANGED vars
    BY <1>5, <1>i DEF vars, queueVars, linkVars, OnWire, Contents
  <1> QED
    BY <1>1, <1>2, <1>3, <1>4, <1>5 DEF Next, Engine

(* The port neither loses, duplicates nor reorders a packet it accepted.   *)
THEOREM PortIsFifo == Spec => ImplementsChannel
  <1>1. Init => Channel!Init
    BY PortAssumption DEF Init, Channel!Init, OnWire, Contents
  <1> QED
    BY <1>1, InitPortInv, NextPortInv, StepRefines, PTL
    DEF Spec, ImplementsChannel, Channel!Spec

-----------------------------------------------------------------------------
(* The traffic generator.                                                  *)

(* What each turn of the loop does.                                        *)
LEMMA NextFlowIsLoop ==
  ASSUME NEW next \in [ServerFlow -> Int], NEW curr \in ServerFlow
  PROVE  /\ NextFlow(next, curr) \in [0 .. NFlows -> ServerFlow]
         /\ NextFlow(next, curr)[0] = curr
         /\ \A i \in 0 .. NFlows - 1 :
              NextFlow(next, curr)[i + 1] = IF EarlierFlow(next, NextFlow(next, curr)[i], i) THEN i ELSE NextFlow(next, curr)[i]
  <1> DEFINE step == [x \in (0 .. NFlows - 1) \X ServerFlow |-> IF EarlierFlow(next, x[2], x[1]) THEN x[1] ELSE x[2]]
             n == NFlows
             G == NextFlow(next, curr)
  <1>1. n \in Nat /\ ServerFlow = 0 .. n - 1
    BY ServerAssumption DEF ServerFlow
  <1>2. /\ step \in [(0 .. n - 1) \X ServerFlow -> ServerFlow]
        /\ \A i \in 0 .. n - 1, f \in ServerFlow : step[<<i, f>>] = IF EarlierFlow(next, f, i) THEN i ELSE f
    BY <1>1
  <1> HIDE DEF step, n
  <1>3. PICK F : IsLoop(ServerFlow, curr, step, n, F)
    BY <1>1, <1>2, LoopExists
  <1>4. F \in [0 .. n -> ServerFlow] /\ F[0] = curr /\ \A i \in 0 .. n - 1 : F[i + 1] = IF EarlierFlow(next, F[i], i) THEN i ELSE F[i]
    <2>1. \A i \in 0 .. n - 1 : i \in 0 .. n
      BY <1>1
    <2> QED
      BY <1>2, <1>3, <2>1 DEF IsLoop
  <1>5. F = [turns \in 0 .. n |-> IF turns = 0 THEN curr ELSE IF EarlierFlow(next, F[turns - 1], turns - 1) THEN turns - 1 ELSE F[turns - 1]]
    <2>1. ASSUME NEW k \in 0 .. n
          PROVE  F[k] = IF k = 0 THEN curr ELSE IF EarlierFlow(next, F[k - 1], k - 1) THEN k - 1 ELSE F[k - 1]
      <3>1. CASE k = 0
        BY <1>4, <3>1
      <3>2. CASE k # 0
        <4>1. k - 1 \in 0 .. n - 1 /\ (k - 1) + 1 = k
          BY <1>1, <3>2
        <4> QED
          BY <1>4, <3>2, <4>1
      <3> QED
        BY <3>1, <3>2
    <2> QED
      BY <1>4, <2>1
  <1>6. G = [turns \in 0 .. n |-> IF turns = 0 THEN curr ELSE IF EarlierFlow(next, G[turns - 1], turns - 1) THEN turns - 1 ELSE G[turns - 1]]
    BY <1>5, Zenon DEF NextFlow, n
  <1> HIDE DEF G
  <1>7. \A k \in 0 .. n : G[k] = IF k = 0 THEN curr ELSE IF EarlierFlow(next, G[k - 1], k - 1) THEN k - 1 ELSE G[k - 1]
    BY <1>6
  <1>8. G[0] = curr
    BY <1>1, <1>7
  <1>9. \A i \in 0 .. n - 1 : G[i + 1] = IF EarlierFlow(next, G[i], i) THEN i ELSE G[i]
    <2>1. \A i \in 0 .. n - 1 : i + 1 \in 0 .. n /\ i + 1 # 0 /\ (i + 1) - 1 = i
      BY <1>1
    <2> QED
      BY <1>7, <2>1
  <1>10. \A k \in 0 .. n : G[k] \in ServerFlow
    <2> DEFINE A == {k \in 0 .. n : G[k] \in ServerFlow}
    <2>0. 0 \in A
      BY <1>1, <1>8
    <2>1. ASSUME NEW i \in 0 .. n - 1, i \in A PROVE i + 1 \in A
      <3>1. i \in ServerFlow /\ i + 1 \in 0 .. n /\ G[i] \in ServerFlow
        BY <1>1, <2>1
      <3>2. G[i + 1] \in ServerFlow
        BY <1>9, <3>1
      <3> QED
        BY <3>1, <3>2
    <2>2. 0 .. n \subseteq A
      <3> HIDE DEF A
      <3> QED
        BY <1>1, <2>0, <2>1, IntervalInduction
    <2> QED
      BY <2>2
  <1>11. G \in [0 .. n -> ServerFlow]
    BY <1>6, <1>10
  <1> QED
    BY <1>8, <1>9, <1>11 DEF G, n

(* The flow that generates next is one with the earliest time.             *)
LEMMA NextFlowIsEarliest ==
  ASSUME NEW next \in [ServerFlow -> Int], NEW curr \in ServerFlow
  PROVE  /\ SetStateForNextFlowToGeneratePacket(next, curr) \in ServerFlow
         /\ \A f \in ServerFlow : next[SetStateForNextFlowToGeneratePacket(next, curr)] <= next[f]
  <1> DEFINE n == NFlows
             G == NextFlow(next, curr)
             A == {k \in 0 .. n : \A f \in ServerFlow : f < k => next[G[k]] <= next[f]}
  <1>1. n \in Nat /\ n \in 0 .. n /\ ServerFlow = 0 .. n - 1
    BY ServerAssumption DEF ServerFlow
  <1>2. /\ G \in [0 .. n -> ServerFlow]
        /\ \A i \in 0 .. n - 1 : G[i + 1] = IF EarlierFlow(next, G[i], i) THEN i ELSE G[i]
    BY NextFlowIsLoop
  <1> HIDE DEF G, n
  <1>3. 0 \in A
    BY <1>1
  <1>4. ASSUME NEW i \in 0 .. n - 1, i \in A PROVE i + 1 \in A
    <2>1. i \in 0 .. n /\ i + 1 \in 0 .. n /\ i \in ServerFlow
      BY <1>1
    <2>2. ASSUME NEW f \in ServerFlow, f < i + 1 PROVE next[G[i + 1]] <= next[f]
      <3>1. G[i] \in ServerFlow /\ next[G[i]] \in Int /\ next[i] \in Int /\ next[f] \in Int
        BY <1>2, <2>1
      <3>2. f = i \/ f < i
        BY <1>1, <2>2
      <3>3. f < i => next[G[i]] <= next[f]
        BY <1>4
      <3>4. CASE next[G[i]] > next[i]
        <4>1. G[i + 1] = i
          BY <1>2, <3>4 DEF EarlierFlow
        <4> QED
          BY <3>1, <3>2, <3>3, <3>4, <4>1
      <3>5. CASE ~(next[G[i]] > next[i])
        <4>1. G[i + 1] = G[i]
          BY <1>2, <3>5 DEF EarlierFlow
        <4> QED
          BY <3>1, <3>2, <3>3, <3>5, <4>1
      <3> QED
        BY <3>4, <3>5
    <2> QED
      BY <2>1, <2>2
  <1>5. 0 .. n \subseteq A
    <2> HIDE DEF A
    <2> QED
      BY <1>1, <1>3, <1>4, IntervalInduction
  <1>6. \A f \in ServerFlow : f < n
    BY <1>1
  <1>7. n \in A
    BY <1>1, <1>5
  <1>8. SetStateForNextFlowToGeneratePacket(next, curr) = G[n]
    BY DEF SetStateForNextFlowToGeneratePacket, G, n
  <1> QED
    BY <1>1, <1>2, <1>6, <1>7, <1>8

-----------------------------------------------------------------------------
(* The inductive invariant.                                                *)

(* The flow that is due has the earliest time of all.                      *)
DueIsEarliest == \A f \in ServerFlow : nextsValuesOfGeneration[currFlowToGenPacket] <= nextsValuesOfGeneration[f]

(* Every flow's next time follows from its last packet, or from its start. *)
IsLastOf(i, f) == sent[i].flow = f /\ \A k \in DOMAIN sent : k > i => sent[k].flow # f
TimesAreOnSchedule ==
  \A f \in ServerFlow :
    /\ (\A k \in DOMAIN sent : sent[k].flow # f) => nextsValuesOfGeneration[f] = first[f] + StartOf(f)
    /\ \A i \in DOMAIN sent : IsLastOf(i, f) => nextsValuesOfGeneration[f] = sent[i].birth + sent[i].after

(* No other flow is due before the birth of the last packet.               *)
LastIsBehind ==
  sent # <<>> =>
    \A f \in ServerFlow : f # sent[Len(sent)].flow => sent[Len(sent)].birth <= nextsValuesOfGeneration[f]

ServerIInv == ScheduleInv /\ GeneratedInOrder /\ DueIsEarliest /\ TimesAreOnSchedule /\ LastIsBehind

LEMMA StartIsInt == \A f \in ServerFlow : StartOf(f) \in Int
  BY ServerAssumption DEF StartOf

LEMMA InitServerIInv == ServerInit => ServerIInv
  <1> SUFFICES ASSUME ServerInit PROVE ServerIInv
    OBVIOUS
  <1>1. first \in [ServerFlow -> Int] /\ sent = <<>> /\ 0 \in ServerFlow
    <2>1. first \in [ServerFlow -> Int]
      BY ServerAssumption DEF ServerInit
    <2>2. 0 \in ServerFlow
      BY ServerAssumption DEF ServerFlow
    <2> QED
      BY <2>1, <2>2 DEF ServerInit
  <1>2. \A f \in ServerFlow : first[f] + StartOf(f) \in Int
    BY <1>1, StartIsInt
  <1>3. nextsValuesOfGeneration \in [ServerFlow -> Int]
    BY <1>2 DEF ServerInit
  <1>4. currFlowToGenPacket \in ServerFlow /\ DueIsEarliest
    BY <1>1, <1>3, NextFlowIsEarliest DEF ServerInit, DueIsEarliest
  <1>5. Len(sent) = 0 /\ DOMAIN sent = {}
    BY <1>1
  <1>6. sent \in Seq([flow : ServerFlow, birth : Int, size : Nat \ {0}, after : Int])
    BY <1>1
  <1>7. ServerTypeOK
    BY <1>1, <1>3, <1>4, <1>6 DEF ServerTypeOK
  <1>8. OnSchedule /\ GeneratedInOrder /\ LastIsBehind
    BY <1>1, <1>5 DEF OnSchedule, GeneratedInOrder, LastIsBehind
  <1>9. TimesAreOnSchedule
    BY <1>5 DEF ServerInit, TimesAreOnSchedule
  <1> QED
    BY <1>4, <1>7, <1>8, <1>9 DEF ServerIInv, ScheduleInv

LEMMA GeneratePreserves ==
  ASSUME ServerIInv, NEW raw \in RawSize, NEW period \in Period, Generate(raw, period)
  PROVE  ServerIInv'
  <1> DEFINE f == currFlowToGenPacket
             t == nextsValuesOfGeneration[f]
             p == [flow |-> f, birth |-> t, size |-> getNextPacketSize_bits(raw), after |-> period]
             n == Len(sent)
             Packets == [flow : ServerFlow, birth : Int, size : Nat \ {0}, after : Int]
             next == nextsValuesOfGeneration
  <1>1. /\ next \in [ServerFlow -> Int] /\ f \in ServerFlow /\ first \in [ServerFlow -> Int]
        /\ sent \in Seq(Packets) /\ n \in Nat
    BY DEF ServerIInv, ScheduleInv, ServerTypeOK
  <1>2. t \in Int /\ period \in Int /\ raw \in Int
    BY <1>1, ServerAssumption
  <1>3. getNextPacketSize_bits(raw) \in Nat \ {0}
    BY <1>2 DEF getNextPacketSize_bits
  <1>4. p \in Packets /\ p.flow = f /\ p.birth = t /\ p.after = period
    BY <1>1, <1>2, <1>3
  <1>5. sent' = Append(sent, p) /\ first' = first
    BY DEF Generate
  <1>6. next' = [next EXCEPT ![f] = period + t]
    BY DEF Generate, NextGeneration
  <1>7. /\ sent' \in Seq(Packets) /\ Len(sent') = n + 1 /\ DOMAIN sent' = 1 .. n + 1 /\ DOMAIN sent = 1 .. n
        /\ sent'[n + 1] = p /\ \A k \in 1 .. n : sent'[k] = sent[k]
    <2> HIDE DEF p, Packets
    <2> QED
      BY <1>1, <1>4, <1>5
  <1>8. /\ next' \in [ServerFlow -> Int] /\ next'[f] = t + period
        /\ \A g \in ServerFlow : g # f => next'[g] = next[g]
    BY <1>1, <1>2, <1>6
  <1>9. currFlowToGenPacket' = SetStateForNextFlowToGeneratePacket(next', f)
    BY DEF Generate
  <1>10. currFlowToGenPacket' \in ServerFlow /\ DueIsEarliest'
    BY <1>1, <1>8, <1>9, NextFlowIsEarliest DEF DueIsEarliest
  <1>11. ServerTypeOK'
    BY <1>1, <1>5, <1>7, <1>8, <1>10 DEF ServerTypeOK
  <1> HIDE DEF p, Packets, f, next, n
  <1>12. OnSchedule'
    <2>0. OnSchedule /\ TimesAreOnSchedule
      BY DEF ServerIInv, ScheduleInv
    <2>1. ASSUME NEW i \in 1 .. n + 1, ~\E k \in 1 .. i - 1 : sent'[k].flow = sent'[i].flow
          PROVE  sent'[i].birth = first'[sent'[i].flow] + StartOf(sent'[i].flow)
      <3>1. CASE i = n + 1
        <4>1. \A k \in 1 .. n : sent[k].flow # f
          BY <1>1, <1>4, <1>7, <2>1, <3>1
        <4>2. next[f] = first[f] + StartOf(f)
          BY <1>1, <1>7, <2>0, <4>1 DEF TimesAreOnSchedule, next
        <4> QED
          BY <1>4, <1>5, <1>7, <3>1, <4>2 DEF next
      <3>2. CASE i # n + 1
        <4>1. i \in 1 .. n /\ \A k \in 1 .. i - 1 : k \in 1 .. n
          BY <1>1, <3>2
        <4>2. ~\E k \in 1 .. i - 1 : sent[k].flow = sent[i].flow
          BY <1>7, <2>1, <4>1
        <4>3. sent[i].birth = first[sent[i].flow] + StartOf(sent[i].flow)
          BY <1>7, <2>0, <4>1, <4>2 DEF OnSchedule, OfFlowBefore
        <4> QED
          BY <1>5, <1>7, <4>1, <4>3
      <3> QED
        BY <3>1, <3>2
    <2>2. ASSUME NEW i \in 1 .. n + 1, NEW j \in 1 .. n + 1, i < j, sent'[i].flow = sent'[j].flow,
                 \A k \in i + 1 .. j - 1 : sent'[k].flow # sent'[j].flow
          PROVE  sent'[j].birth = sent'[i].birth + sent'[i].after
      <3>0. i \in 1 .. n /\ sent'[i] = sent[i]
        BY <1>1, <1>7, <2>2
      <3>1. CASE j = n + 1
        <4>1. \A k \in 1 .. n : k > i => sent[k].flow # f
          <5>1. \A k \in 1 .. n : k > i => k \in i + 1 .. j - 1
            BY <1>1, <3>1
          <5> QED
            BY <1>4, <1>7, <2>2, <3>1, <5>1
        <4>2. IsLastOf(i, f)
          BY <1>4, <1>7, <2>2, <3>0, <3>1, <4>1 DEF IsLastOf
        <4>3. next[f] = sent[i].birth + sent[i].after
          BY <1>1, <1>7, <2>0, <3>0, <4>2 DEF TimesAreOnSchedule, next
        <4> QED
          BY <1>4, <1>7, <3>0, <3>1, <4>3 DEF next
      <3>2. CASE j # n + 1
        <4>1. j \in 1 .. n /\ \A k \in i + 1 .. j - 1 : k \in 1 .. n
          BY <1>1, <3>0, <3>2
        <4>2. sent[i].flow = sent[j].flow /\ \A k \in i + 1 .. j - 1 : sent[k].flow # sent[j].flow
          BY <1>7, <2>2, <3>0, <4>1
        <4>3. sent[j].birth = sent[i].birth + sent[i].after
          BY <1>7, <2>0, <2>2, <3>0, <4>1, <4>2 DEF OnSchedule
        <4> QED
          BY <1>7, <3>0, <4>1, <4>3
      <3> QED
        BY <3>1, <3>2
    <2> QED
      BY <1>7, <2>1, <2>2 DEF OnSchedule, OfFlowBefore
  <1>13. TimesAreOnSchedule'
    <2>0. TimesAreOnSchedule
      BY DEF ServerIInv
    <2>1. ASSUME NEW g \in ServerFlow, \A k \in 1 .. n + 1 : sent'[k].flow # g
          PROVE  next'[g] = first'[g] + StartOf(g)
      <3>1. g # f
        BY <1>1, <1>4, <1>7, <2>1
      <3>2. \A k \in 1 .. n : sent[k].flow # g
        <4>1. \A k \in 1 .. n : k \in 1 .. n + 1
          BY <1>1
        <4> QED
          BY <1>7, <2>1, <4>1
      <3>3. next[g] = first[g] + StartOf(g)
        BY <1>7, <2>0, <3>2 DEF TimesAreOnSchedule, next
      <3> QED
        BY <1>5, <1>8, <3>1, <3>3
    <2>2. ASSUME NEW g \in ServerFlow, NEW i \in 1 .. n + 1, IsLastOf(i, g)'
          PROVE  next'[g] = sent'[i].birth + sent'[i].after
      <3>0. sent'[i].flow = g /\ \A k \in 1 .. n + 1 : k > i => sent'[k].flow # g
        BY <1>7, <2>2 DEF IsLastOf
      <3>1. CASE i = n + 1
        BY <1>2, <1>4, <1>7, <1>8, <3>0, <3>1
      <3>2. CASE i # n + 1
        <4>1. i \in 1 .. n /\ n + 1 \in 1 .. n + 1 /\ n + 1 > i /\ \A k \in 1 .. n : k \in 1 .. n + 1
          BY <1>1, <3>2
        <4>2. g # f
          BY <1>4, <1>7, <3>0, <4>1
        <4>3. IsLastOf(i, g)
          BY <1>7, <3>0, <4>1 DEF IsLastOf
        <4>4. next[g] = sent[i].birth + sent[i].after
          BY <1>7, <2>0, <4>1, <4>3 DEF TimesAreOnSchedule, next
        <4> QED
          BY <1>7, <1>8, <4>1, <4>2, <4>4
      <3> QED
        BY <3>1, <3>2
    <2> QED
      BY <1>7, <2>1, <2>2 DEF TimesAreOnSchedule, next
  <1>14. LastIsBehind'
    <2>1. ASSUME NEW g \in ServerFlow, g # f PROVE t <= next'[g]
      BY <1>8, <2>1 DEF ServerIInv, DueIsEarliest, f, next
    <2> QED
      BY <1>1, <1>4, <1>7, <2>1 DEF LastIsBehind, next
  <1>15. GeneratedInOrder'
    <2>1. ASSUME NEW i \in 1 .. n
          PROVE  sent'[i].birth <= sent'[i + 1].birth \/ (sent'[i].after < 0 /\ sent'[i + 1].flow = sent'[i].flow)
      <3>0. sent'[i] = sent[i] /\ sent[i] \in Packets
        BY <1>1, <1>7 DEF n
      <3>1. CASE i = n
        <4>1. sent'[i + 1] = p /\ sent # <<>>
          BY <1>1, <1>7, <3>1 DEF n
        <4>2. sent[i].birth \in Int /\ sent[i].after \in Int /\ sent[i].flow \in ServerFlow
          BY <3>0 DEF Packets
        <4>3. CASE f # sent[i].flow
          <5>1. sent[i].birth <= next[f]
            BY <1>1, <3>1, <4>1, <4>3 DEF ServerIInv, LastIsBehind, n, next
          <5> QED
            BY <1>4, <3>0, <4>1, <5>1 DEF next
        <4>4. CASE f = sent[i].flow
          <5>1. IsLastOf(i, f)
            BY <1>1, <1>7, <3>1, <4>4 DEF IsLastOf
          <5>2. next[f] = sent[i].birth + sent[i].after
            BY <1>1, <1>7, <3>1, <5>1 DEF ServerIInv, TimesAreOnSchedule, next
          <5>3. p.birth = sent[i].birth + sent[i].after
            BY <1>4, <5>2 DEF next
          <5>4. sent[i].birth <= p.birth \/ sent[i].after < 0
            BY <4>2, <5>3
          <5> QED
            BY <1>4, <3>0, <4>1, <4>4, <5>4
        <4> QED
          BY <4>3, <4>4
      <3>2. CASE i # n
        <4>1. i \in 1 .. n - 1 /\ i + 1 \in 1 .. n
          BY <1>1, <3>2
        <4>2. sent[i].birth <= sent[i + 1].birth \/ (sent[i].after < 0 /\ sent[i + 1].flow = sent[i].flow)
          BY <4>1 DEF ServerIInv, GeneratedInOrder, n
        <4> QED
          BY <1>7, <3>0, <4>1, <4>2
      <3> QED
        BY <3>1, <3>2
    <2>2. 1 .. Len(sent') - 1 = 1 .. n
      BY <1>1, <1>7
    <2> QED
      BY <2>1, <2>2 DEF GeneratedInOrder
  <1> QED
    BY <1>10, <1>11, <1>12, <1>13, <1>14, <1>15 DEF ServerIInv, ScheduleInv

LEMMA NextServerIInv == ServerIInv /\ [ServerNext]_serverVars => ServerIInv'
  <1> SUFFICES ASSUME ServerIInv, [ServerNext]_serverVars PROVE ServerIInv'
    OBVIOUS
  <1>1. CASE ServerNext
    BY <1>1, GeneratePreserves DEF ServerNext
  <1>2. CASE UNCHANGED serverVars
    BY <1>2 DEF serverVars, ServerIInv, ScheduleInv, ServerTypeOK, OnSchedule, OfFlowBefore, GeneratedInOrder,
                DueIsEarliest, TimesAreOnSchedule, IsLastOf, LastIsBehind
  <1> QED
    BY <1>1, <1>2

(* Each flow of a host keeps to its own schedule, for any number of flows  *)
(* and all values of their distributions, and a packet has at least a bit. *)
THEOREM SchedulesAreKept == ServerSpec => []ScheduleInv
  <1>1. ServerIInv => ScheduleInv
    BY DEF ServerIInv
  <1> QED
    BY <1>1, InitServerIInv, NextServerIInv, PTL DEF ServerSpec

(* Packets of all flows of a host are generated in order of time, and only *)
(* a negative period of a flow makes an exception, for its own packets.    *)
THEOREM OrderOfGeneration == ServerSpec => []GeneratedInOrder
  <1>1. ServerIInv => GeneratedInOrder
    BY DEF ServerIInv
  <1> QED
    BY <1>1, InitServerIInv, NextServerIInv, PTL DEF ServerSpec
=============================================================================
