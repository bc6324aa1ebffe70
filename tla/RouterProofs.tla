---------------------------- MODULE RouterProofs ----------------------------
(***************************************************************************)
(* The router of the simulated network, from the inside out.               *)
(*                                                                         *)
(* The scheduler (SchedulerDriver): for every number of queues, all        *)
(* weights and all sequences of size reports and requests, the weighted    *)
(* round robin scheduler only ever points at a queue, holds a request back *)
(* only while every queue is known to be empty, and starves no queue.      *)
(*                                                                         *)
(* The egress port (EgressPort): for every number of queues, all weights,  *)
(* lengths, classes of service and capacities, one request circulates in a *)
(* port, its byte counters are exact, no exception but that of             *)
(* prioritySelect is reachable, and the link never idles while a packet is *)
(* queued.                                                                 *)
(*                                                                         *)
(* The router (RouterNode): for every set of flows, routes and packets,    *)
(* packets leave the port in the order of their reception and only if a    *)
(* route of their flow leads there, the load of a flow is balanced over    *)
(* its entries, and only a burst of packets from preceding neighbours      *)
(* makes the port throw.                                                   *)
(***************************************************************************)
EXTENDS RouterNode, SchedulerDriver, ProofFacts

(***************************************************************************)
(* The scheduler.                                                          *)
(***************************************************************************)
-----------------------------------------------------------------------------
(* What the operations of the scheduler establish and preserve, whoever    *)
(* calls them.                                                             *)

(* A set of natural numbers that is not empty has a lowest element.        *)
LEMMA LowestExists ==
  ASSUME NEW S, S \subseteq Nat, S # {}
  PROVE  Lowest(S) \in S /\ \A j \in S : Lowest(S) <= j
  <1>1. \E x \in S : \A y \in S : x <= y
    BY LeastExists
  <1> QED
    BY <1>1 DEF Lowest

(* getNextWRRIndex returns a queue with known packets, or -1 when there is *)
(* none.                                                                   *)
LEMMA NextIndexIsBacklogged ==
  ASSUME NEW sizes \in [Queue -> Nat]
  PROVE  LET i == getNextWRRIndex(sizes)
         IN  \/ i \in Queue /\ i >= 0 /\ sizes[i] # 0
             \/ i = -1 /\ \A q \in Queue : sizes[q] = 0
  <1> DEFINE nonEmpty == {i \in Queue : sizes[i] # 0}
             ahead == {i \in nonEmpty : i >= FirstCandidate}
  <1>1. nonEmpty \subseteq Nat /\ ahead \subseteq nonEmpty
    BY SchedAssumption DEF Queue
  <1>2. ahead # {} => Lowest(ahead) \in nonEmpty
    BY <1>1, LowestExists
  <1>3. nonEmpty # {} => Lowest(nonEmpty) \in nonEmpty
    BY <1>1, LowestExists
  <1>4. getNextWRRIndex(sizes) = IF ahead # {} THEN Lowest(ahead)
                                 ELSE IF nonEmpty # {} THEN Lowest(nonEmpty) ELSE -1
    BY DEF getNextWRRIndex
  <1>5. getNextWRRIndex(sizes) \in nonEmpty \/ (nonEmpty = {} /\ getNextWRRIndex(sizes) = -1)
    BY <1>1, <1>2, <1>3, <1>4
  <1> QED
    BY <1>1, <1>5

(* SchedInv is inductive.                                                  *)
LEMMA InitSchedInv == SchedInit => SchedInv
  BY SchedAssumption DEF SchedInit, SchedInv, SchedTypeOK, DelayedOnlyWhenEmpty, Queue

(* A request is passed on or, when nothing is known to be queued, delayed. *)
LEMMA RequestPreserves ==
  ASSUME SchedTypeOK, NEW sizes \in [Queue -> Nat], dext_dequeRequest(sizes), knownSize' = sizes
  PROVE  SchedInv'
  <1> DEFINE i == getNextWRRIndex(sizes)
  <1>1. CASE i \in Queue /\ i >= 0
    <2>1. /\ WRRQueueIndex' = i /\ schedNext' = "now" /\ delayedRequest' = "no"
          /\ pendingWeight' = (IF pendingWeight = 0 THEN Weight[i] ELSE pendingWeight) - 1
          /\ bypassed' = Bypass(i, sizes)
      BY <1>1 DEF dext_dequeRequest
    <2>2. pendingWeight' \in Int
      <3>1. Weight[i] \in Int /\ pendingWeight \in Int
        BY <1>1, SchedAssumption DEF SchedTypeOK
      <3> HIDE DEF i
      <3> QED
        BY <2>1, <3>1
    <2>3. bypassed' \in [Queue -> Nat]
      BY <2>1 DEF Bypass, SchedTypeOK
    <2> HIDE DEF i
    <2> QED
      BY <1>1, <2>1, <2>2, <2>3 DEF SchedInv, SchedTypeOK, DelayedOnlyWhenEmpty
  <1>2. CASE i = -1 /\ \A q \in Queue : sizes[q] = 0
    <2>1. /\ WRRQueueIndex' = 0 /\ schedNext' = "never" /\ delayedRequest' = "yes"
          /\ pendingWeight' = Weight[0] /\ bypassed' = [q \in Queue |-> 0]
      BY <1>2 DEF dext_dequeRequest
    <2>2. 0 \in Queue /\ Weight[0] \in Int
      BY SchedAssumption DEF Queue
    <2> HIDE DEF i
    <2> QED
      BY <1>2, <2>1, <2>2 DEF SchedInv, SchedTypeOK, DelayedOnlyWhenEmpty
  <1> QED
    BY <1>1, <1>2, NextIndexIsBacklogged

(* A report keeps the invariant, whether or not it releases a request.     *)
LEMMA SizePreserves ==
  ASSUME SchedInv, NEW q \in Queue, NEW size \in Nat, dext_queueSize(q, size)
  PROVE  SchedInv'
  <1>0. SchedTypeOK /\ DelayedOnlyWhenEmpty
    BY DEF SchedInv
  <1>1. knownSize' = [knownSize EXCEPT ![q] = size]
    BY DEF dext_queueSize
  <1>2. knownSize' \in [Queue -> Nat]
    BY <1>0, <1>1 DEF SchedTypeOK
  <1>3. CASE delayedRequest = "yes" /\ size # 0
    BY <1>0, <1>2, <1>3, RequestPreserves DEF dext_queueSize
  <1>4. CASE ~(delayedRequest = "yes" /\ size # 0)
    <2>1. UNCHANGED requestVars
      BY <1>4 DEF dext_queueSize
    <2>2. delayedRequest = "yes" => \A r \in Queue : knownSize'[r] = 0
      BY <1>0, <1>1, <1>4 DEF DelayedOnlyWhenEmpty, SchedTypeOK
    <2> QED
      BY <1>0, <1>2, <2>1, <2>2 DEF SchedInv, SchedTypeOK, DelayedOnlyWhenEmpty, requestVars
  <1> QED
    BY <1>3, <1>4

(* Sending the request on keeps it too.                                    *)
LEMMA DintPreserves == SchedInv /\ SchedDint => SchedInv'
  BY DEF SchedDint, SchedInv, SchedTypeOK, DelayedOnlyWhenEmpty

(* A request is passed on to a queue with known packets, or delayed while  *)
(* there is none.                                                          *)
LEMMA RequestOutcome ==
  ASSUME NEW sizes \in [Queue -> Nat], dext_dequeRequest(sizes)
  PROVE  \/ /\ schedNext' = "now" /\ delayedRequest' = "no"
            /\ WRRQueueIndex' \in Queue /\ sizes[WRRQueueIndex'] # 0
         \/ schedNext' = "never" /\ delayedRequest' = "yes"
  <1> DEFINE i == getNextWRRIndex(sizes)
  <1>1. CASE i \in Queue /\ i >= 0 /\ sizes[i] # 0
    BY <1>1 DEF dext_dequeRequest
  <1>2. CASE i = -1
    BY <1>2 DEF dext_dequeRequest
  <1> QED
    BY <1>1, <1>2, NextIndexIsBacklogged

-----------------------------------------------------------------------------
(* The scheduler on its own.                                               *)

(* SchedInv is inductive.                                                  *)
LEMMA NextSchedInv == SchedInv /\ [DriverNext]_schedVars => SchedInv'
  <1> SUFFICES ASSUME SchedInv, [DriverNext]_schedVars PROVE SchedInv'
    OBVIOUS
  <1>1. ASSUME NEW q \in Queue, NEW size \in ReportedSize, dext_queueSize(q, size) PROVE SchedInv'
    BY <1>1, DriverAssumption, SizePreserves
  <1>2. CASE RequestArrives
    BY <1>2, RequestPreserves DEF RequestArrives, SchedInv, SchedTypeOK
  <1>3. CASE RequestSent
    BY <1>3, DintPreserves DEF RequestSent
  <1>4. CASE UNCHANGED schedVars
    BY <1>4 DEF schedVars, requestVars, SchedInv, SchedTypeOK, DelayedOnlyWhenEmpty
  <1> QED
    BY <1>1, <1>2, <1>3, <1>4 DEF DriverNext, SizeArrives

(* For all queues, weights and sizes the index of WRRScheduler names a     *)
(* queue and dext_dequeRequest delays a request only while all are empty.  *)
THEOREM SchedInvariant == DriverSpec => []SchedInv
  BY InitSchedInv, NextSchedInv, PTL DEF DriverSpec

(* The scheduler's index always names a queue, whatever sizes it is told   *)
(* of; its variables keep their types.                                     *)
THEOREM SchedulerTypeCorrect == DriverSpec => []SchedTypeOK
  <1>1. SchedInv => SchedTypeOK
    BY DEF SchedInv
  <1> QED
    BY <1>1, InitSchedInv, NextSchedInv, PTL DEF DriverSpec

(* A request that getNextWRRIndex could give to some queue is never held   *)
(* back by dext_dequeRequest or dext_queueSize.                            *)
THEOREM NoRequestHeldBack == DriverSpec => []DelayedOnlyWhenEmpty
  <1>1. SchedInv => DelayedOnlyWhenEmpty
    BY DEF SchedInv
  <1> QED
    BY <1>1, InitSchedInv, NextSchedInv, PTL DEF DriverSpec

-----------------------------------------------------------------------------
(* No starvation: the bound on how often a waiting queue is passed over.   *)

(* One of the queues has the largest weight.                               *)
LEMMA LargestWeight ==
  /\ MaxWeight \in Nat
  /\ \A q \in Queue : Weight[q] <= MaxWeight
  /\ \E q \in Queue : MaxWeight = Weight[q]
  <1> DEFINE Good(k) == \E m \in 0 .. k - 1 : \A q \in 0 .. k - 1 : Weight[q] <= Weight[m]
             T == {k \in 1 .. N : ~Good(k)}
  <1>t. \A q \in 0 .. N - 1 : Weight[q] \in Nat
    BY SchedAssumption DEF Queue
  <1>1. T = {}
    <2> SUFFICES ASSUME T # {} PROVE FALSE
      OBVIOUS
    <2>1. T \subseteq Nat
      BY SchedAssumption
    <2>2. PICK k \in T : \A j \in T : k <= j
      <3> HIDE DEF T
      <3> QED
        BY <2>1, LowestExists
    <2>3. k \in 1 .. N /\ ~Good(k)
      BY <2>2
    <2>4. k # 1
      <3>1. Good(1)
        BY <1>t, SchedAssumption
      <3> QED
        BY <2>3, <3>1
    <2>5. Good(k - 1)
      <3>1. k - 1 \in 1 .. N /\ ~(k <= k - 1)
        BY <2>3, <2>4, SchedAssumption
      <3>2. k - 1 \notin T
        <4> HIDE DEF T
        <4> QED
          BY <2>2, <3>1
      <3> HIDE DEF Good
      <3> QED
        BY <3>1, <3>2
    <2>6. PICK m \in 0 .. k - 2 : \A q \in 0 .. k - 2 : Weight[q] <= Weight[m]
      BY <2>3, <2>5
    <2>7. /\ m \in 0 .. k - 1 /\ k - 1 \in 0 .. k - 1
          /\ Weight[m] \in Nat /\ Weight[k - 1] \in Nat
          /\ \A q \in 0 .. k - 1 : Weight[q] \in Nat /\ (q \in 0 .. k - 2 \/ q = k - 1)
      BY <1>t, <2>3, <2>6, SchedAssumption
    <2>8. CASE Weight[k - 1] <= Weight[m]
      <3>1. \A q \in 0 .. k - 1 : Weight[q] <= Weight[m]
        BY <2>6, <2>7, <2>8
      <3> QED
        BY <2>3, <2>7, <3>1
    <2>9. CASE Weight[m] <= Weight[k - 1]
      <3>1. \A q \in 0 .. k - 1 : Weight[q] <= Weight[k - 1]
        BY <2>6, <2>7, <2>9
      <3> QED
        BY <2>3, <2>7, <3>1
    <2> QED
      BY <2>7, <2>8, <2>9
  <1>2. Good(N)
    <2>1. N \in 1 .. N
      BY SchedAssumption
    <2>2. N \notin T
      <3> HIDE DEF T
      <3> QED
        BY <1>1
    <2> HIDE DEF Good
    <2> QED
      BY <2>1, <2>2
  <1>3. PICK m \in Queue : \A q \in Queue : Weight[q] <= Weight[m]
    BY <1>2 DEF Queue
  <1>4. Weight[m] \in {Weight[q] : q \in Queue}
    BY <1>3
  <1>5. MaxWeight \in {Weight[q] : q \in Queue} /\ \A q \in Queue : Weight[q] <= MaxWeight
    BY <1>3, <1>4 DEF MaxWeight
  <1> QED
    BY <1>5, SchedAssumption

(* How many places queue q is behind queue i in the round.                 *)
Distance(i, q) == IF q >= i THEN q - i ELSE q - i + N

(* The bypasses of a queue and those it may still suffer: the rest of the  *)
(* current turn and a full turn for every queue in between.                *)
BypassBudget ==
    /\ pendingWeight \in 0 .. MaxWeight
    /\ bypassed[WRRQueueIndex] = 0
    /\ \A q \in Queue \ {WRRQueueIndex} :
          bypassed[q] + pendingWeight + (Distance(WRRQueueIndex, q) - 1) * MaxWeight <= (N - 1) * MaxWeight

FairInv == SchedInv /\ ((\A q \in Queue : Weight[q] > 0) => BypassBudget)

LEMMA Monotone ==
  ASSUME NEW a \in Int, NEW b \in Int, NEW m \in Nat, a <= b
  PROVE  a * m <= b * m /\ a * m \in Int /\ b * m \in Int
  OBVIOUS

LEMMA OneTurn ==
  ASSUME NEW a \in Int, NEW m \in Nat
  PROVE  (a - 1) * m = a * m - m /\ a * m \in Int
  OBVIOUS

(* getNextWRRIndex does not jump over a queue with packets: the chosen     *)
(* queue is no further from a waiting queue than the current one is, and   *)
(* nearer when a new turn begins.                                          *)
LEMMA NearestFirst ==
  ASSUME SchedTypeOK, NEW sizes \in [Queue -> Nat], NEW j \in Queue, j = getNextWRRIndex(sizes),
         NEW q \in Queue, sizes[q] # 0, q # j
  PROVE  /\ pendingWeight # 0 => q # WRRQueueIndex /\ Distance(j, q) <= Distance(WRRQueueIndex, q)
         /\ pendingWeight = 0 /\ q # WRRQueueIndex => Distance(j, q) <= Distance(WRRQueueIndex, q) - 1
  <1> DEFINE c == FirstCandidate
             nonEmpty == {r \in Queue : sizes[r] # 0}
             ahead == {r \in nonEmpty : r >= c}
  <1>1. nonEmpty \subseteq Nat /\ ahead \subseteq Nat /\ q \in nonEmpty /\ (q >= c => q \in ahead)
    BY SchedAssumption DEF Queue
  <1>2. j = IF ahead # {} THEN Lowest(ahead) ELSE IF nonEmpty # {} THEN Lowest(nonEmpty) ELSE -1
    BY DEF getNextWRRIndex
  <1>3. \/ j >= c /\ (q >= c => j <= q)
        \/ ~(q >= c) /\ j <= q
    <2>1. CASE ahead # {}
      <3>1. j \in ahead /\ \A r \in ahead : j <= r
        <4> HIDE DEF ahead, nonEmpty
        <4>1. j = Lowest(ahead) /\ ahead \subseteq Nat
          BY <1>1, <1>2, <2>1
        <4> QED
          BY <2>1, <4>1, LowestExists
      <3>2. j >= c
        BY <3>1
      <3> HIDE DEF ahead
      <3> QED
        BY <1>1, <3>1, <3>2
    <2>2. CASE ahead = {}
      <3>0. j = Lowest(nonEmpty) /\ nonEmpty # {}
        <4> HIDE DEF ahead, nonEmpty
        <4> QED
          BY <1>1, <1>2, <2>2
      <3>1. \A r \in nonEmpty : j <= r
        <4> HIDE DEF ahead, nonEmpty
        <4>1. nonEmpty \subseteq Nat /\ nonEmpty # {}
          BY <1>1, <3>0
        <4>2. \A r \in nonEmpty : Lowest(nonEmpty) <= r
          BY <4>1, LowestExists
        <4> QED
          BY <3>0, <4>2
      <3> HIDE DEF nonEmpty, ahead
      <3> QED
        BY <1>1, <2>2, <3>1
    <2> QED
      BY <2>1, <2>2
  <1>4. j \in Nat /\ q \in Nat /\ WRRQueueIndex \in Nat /\ j < N /\ q < N /\ WRRQueueIndex < N /\ N \in Nat
    BY SchedAssumption DEF Queue, SchedTypeOK
  <1>5. c = IF pendingWeight = 0 THEN WRRQueueIndex + 1 ELSE WRRQueueIndex
    BY DEF FirstCandidate
  <1> HIDE DEF c
  <1> QED
    BY <1>3, <1>4, <1>5 DEF Distance

LEMMA DistanceRange ==
  ASSUME NEW i \in Queue, NEW q \in Queue, q # i
  PROVE  Distance(i, q) \in Int /\ 1 <= Distance(i, q) /\ Distance(i, q) <= N - 1
  BY SchedAssumption DEF Distance, Queue

(* A queue that has suffered nothing yet is within its budget.             *)
LEMMA FreshBudget ==
  ASSUME NEW i \in Queue, NEW q \in Queue, q # i, NEW w \in Int, w <= MaxWeight
  PROVE  w + (Distance(i, q) - 1) * MaxWeight <= (N - 1) * MaxWeight
  <1> DEFINE d == Distance(i, q)
  <1>1. d \in Int /\ d <= N - 1 /\ MaxWeight \in Nat /\ N \in Int /\ N - 1 \in Int
    BY DistanceRange, LargestWeight, SchedAssumption
  <1> HIDE DEF d
  <1>2. (d - 1) * MaxWeight = d * MaxWeight - MaxWeight /\ d * MaxWeight \in Int
    BY <1>1, OneTurn
  <1>3. d * MaxWeight <= (N - 1) * MaxWeight /\ (N - 1) * MaxWeight \in Int
    BY <1>1, Monotone
  <1>4. w + (d - 1) * MaxWeight <= (N - 1) * MaxWeight
    BY <1>1, <1>2, <1>3
  <1> QED
    BY <1>4 DEF d

(* The state after init, and after a request that finds all queues empty.  *)
LEMMA StartKeepsBudget ==
  /\ Weight[0] \in 0 .. MaxWeight /\ 0 \in Queue
  /\ \A q \in Queue \ {0} :
        [r \in Queue |-> 0][q] + Weight[0] + (Distance(0, q) - 1) * MaxWeight <= (N - 1) * MaxWeight
  <1>1. 0 \in Queue /\ Weight[0] \in Nat /\ Weight[0] <= MaxWeight /\ MaxWeight \in Nat
    BY LargestWeight, SchedAssumption DEF Queue
  <1>2. ASSUME NEW q \in Queue \ {0}
        PROVE  [r \in Queue |-> 0][q] + Weight[0] + (Distance(0, q) - 1) * MaxWeight <= (N - 1) * MaxWeight
    <2>1. [r \in Queue |-> 0][q] + Weight[0] = Weight[0]
      BY <1>1
    <2>2. Weight[0] + (Distance(0, q) - 1) * MaxWeight <= (N - 1) * MaxWeight
      BY <1>1, FreshBudget
    <2> QED
      BY <2>1, <2>2
  <1> QED
    BY <1>1, <1>2

(* A request keeps every waiting queue within its budget.                  *)
LEMMA RequestKeepsBudget ==
  ASSUME SchedTypeOK, \A q \in Queue : Weight[q] > 0, BypassBudget,
         NEW sizes \in [Queue -> Nat], dext_dequeRequest(sizes)
  PROVE  BypassBudget'
  <1> DEFINE j == getNextWRRIndex(sizes)
  <1>m. MaxWeight \in Nat /\ MaxWeight' = MaxWeight /\ (\A q \in Queue : Weight[q] <= MaxWeight)
    BY LargestWeight DEF MaxWeight, Queue
  <1>n. N \in Nat \ {0} /\ 0 \in Queue /\ \A q \in Queue : Weight[q] \in Nat /\ q \in Nat
    BY SchedAssumption DEF Queue
  <1>1. CASE j \in Queue /\ j >= 0
    <2>1. /\ WRRQueueIndex' = j
          /\ pendingWeight' = (IF pendingWeight = 0 THEN Weight[j] ELSE pendingWeight) - 1
          /\ bypassed' = [q \in Queue |-> IF q = j \/ sizes[q] = 0 THEN 0 ELSE bypassed[q] + 1]
      BY <1>1 DEF dext_dequeRequest, Bypass
    <2>2. j \in Queue /\ j = getNextWRRIndex(sizes)
      BY <1>1
    <2> HIDE DEF j
    <2>3. pendingWeight' \in 0 .. MaxWeight /\ pendingWeight' <= MaxWeight - 1
      <3>1. Weight[j] \in Nat /\ Weight[j] > 0 /\ Weight[j] <= MaxWeight /\ pendingWeight \in 0 .. MaxWeight
        BY <1>m, <1>n, <2>2 DEF BypassBudget
      <3> QED
        BY <1>m, <2>1, <3>1
    <2>r. pendingWeight' + 1 \in Int /\ pendingWeight' + 1 <= MaxWeight
      <3> DEFINE v == pendingWeight'
                 M == MaxWeight
      <3>1. M \in Int /\ v \in 0 .. M /\ v <= M - 1
        BY <1>m, <2>3
      <3> HIDE DEF v, M
      <3>2. v + 1 \in Int /\ v + 1 <= M
        BY <3>1
      <3> QED
        BY <3>2 DEF v, M
    <2>4. bypassed'[WRRQueueIndex'] = 0
      BY <2>1, <2>2
    <2>5. ASSUME NEW q \in Queue, q # j
          PROVE  bypassed'[q] + pendingWeight' + (Distance(j, q) - 1) * MaxWeight <= (N - 1) * MaxWeight
      <3>1. CASE sizes[q] = 0
        <4>1. bypassed'[q] = 0
          BY <2>1, <3>1
        <4>2. pendingWeight' \in Int /\ pendingWeight' <= MaxWeight
          <5> DEFINE v == pendingWeight'
                     M == MaxWeight
          <5>1. M \in Nat /\ v \in 0 .. M
            BY <1>m, <2>3
          <5> HIDE DEF v, M
          <5>2. v \in Int /\ v <= M
            BY <5>1
          <5> QED
            BY <5>2 DEF v, M
        <4>3. pendingWeight' + (Distance(j, q) - 1) * MaxWeight <= (N - 1) * MaxWeight
          BY <2>2, <2>5, <4>2, FreshBudget
        <4>4. bypassed'[q] + pendingWeight' = pendingWeight'
          <5> DEFINE b == bypassed'[q]
                     v == pendingWeight'
          <5>1. b = 0 /\ v \in Int
            BY <4>1, <4>2
          <5> HIDE DEF b, v
          <5>2. b + v = v
            BY <5>1
          <5> QED
            BY <5>2 DEF b, v
        <4> QED
          BY <4>3, <4>4
      <3>2. CASE sizes[q] # 0
        <4> DEFINE i == WRRQueueIndex
                   w == pendingWeight
                   D == Distance(i, q)
                   E == Distance(j, q)
                   M == MaxWeight
        <4>1. bypassed'[q] = bypassed[q] + 1 /\ bypassed[q] \in Nat
          BY <2>1, <2>5, <3>2 DEF SchedTypeOK
        <4>2. i \in Queue /\ w \in 0 .. M /\ M \in Nat /\ N - 1 \in Int
          BY <1>m, <1>n DEF SchedTypeOK, BypassBudget
        <4>3. E \in Int /\ 1 <= E /\ E <= N - 1
          BY <2>2, <2>5, DistanceRange
        <4>4. CASE q = i
          <5>1. bypassed[q] = 0
            BY <4>4 DEF BypassBudget
          <5>2. pendingWeight' + 1 \in Int /\ pendingWeight' + 1 <= MaxWeight
            BY <2>r
          <5>3. (pendingWeight' + 1) + (Distance(j, q) - 1) * MaxWeight <= (N - 1) * MaxWeight
            BY <2>2, <2>5, <5>2, FreshBudget
          <5>4. bypassed'[q] + pendingWeight' = pendingWeight' + 1
            BY <1>m, <2>3, <4>1, <5>1
          <5> QED
            BY <5>3, <5>4
        <4>5. CASE q # i
          <5>1. /\ w # 0 => E <= D
                /\ w = 0 => E <= D - 1
            BY <2>2, <2>5, <3>2, <4>5, NearestFirst
          <5>2. bypassed[q] + w + (D - 1) * M <= (N - 1) * M
            BY <4>5 DEF BypassBudget
          <5>3. D \in Int
            BY <4>2, <4>5, DistanceRange
          <5>4. w # 0 => pendingWeight' = w - 1
            BY <2>1
          <5>5. pendingWeight' \in Int /\ pendingWeight' <= M - 1
            BY <1>m, <2>3
          <5> DEFINE F == E - 1
                     G == D - 1
          <5>6. F \in Int /\ G \in Int /\ G - 1 \in Int /\ (w # 0 => F <= G) /\ (w = 0 => F <= G - 1)
            BY <4>3, <5>1, <5>3
          <5> HIDE DEF F, G
          <5>7. F * M \in Int /\ G * M \in Int /\ (N - 1) * M \in Int
            BY <4>2, <5>6, OneTurn
          <5>8. w # 0 => F * M <= G * M
            BY <4>2, <5>6, Monotone
          <5>9. w = 0 => F * M <= G * M - M
            BY <4>2, <5>6, Monotone, OneTurn
          <5>10. bypassed[q] + w + G * M <= (N - 1) * M
            BY <5>2 DEF G
          <5> HIDE DEF w, M, D, E
          <5>11. bypassed[q] + 1 + pendingWeight' + F * M <= (N - 1) * M
            <6> DEFINE x == F * M
                       y == G * M
                       z == (N - 1) * M
                       b == bypassed[q]
                       v == pendingWeight'
            <6>1. x \in Int /\ y \in Int /\ z \in Int /\ b \in Int /\ v \in Int /\ w \in Int /\ M \in Int
              BY <4>1, <4>2, <5>5, <5>7
            <6>2. b + w + y <= z /\ v <= M - 1
              BY <5>5, <5>10
            <6>3. (w # 0 => x <= y /\ v = w - 1) /\ (w = 0 => x <= y - M)
              BY <5>4, <5>8, <5>9
            <6> HIDE DEF x, y, z, b, v
            <6>4. b + 1 + v + x <= z
              BY <6>1, <6>2, <6>3
            <6> QED
              BY <6>4 DEF x, z, b, v
          <5> QED
            BY <4>1, <5>11 DEF F, E, M
        <4> QED
          BY <4>4, <4>5
      <3> QED
        BY <3>1, <3>2
    <2>6. \A q \in Queue \ {WRRQueueIndex'} :
             bypassed'[q] + pendingWeight' + (Distance(WRRQueueIndex', q) - 1) * MaxWeight <= (N - 1) * MaxWeight
      BY <2>1, <2>5
    <2> QED
      BY <2>3, <2>4, <2>6 DEF BypassBudget, Distance, MaxWeight, Queue
  <1>2. CASE j = -1
    <2>1. WRRQueueIndex' = 0 /\ pendingWeight' = Weight[0] /\ bypassed' = [q \in Queue |-> 0]
      BY <1>2 DEF dext_dequeRequest
    <2> QED
      BY ZenonT(60), <2>1, StartKeepsBudget DEF BypassBudget, Distance, MaxWeight, Queue
  <1> QED
    BY <1>1, <1>2, NextIndexIsBacklogged

LEMMA InitFairInv == SchedInit => FairInv
  <1> SUFFICES ASSUME SchedInit PROVE BypassBudget
    BY InitSchedInv DEF FairInv
  <1>1. WRRQueueIndex = 0 /\ pendingWeight = Weight[0] /\ bypassed = [q \in Queue |-> 0]
    BY DEF SchedInit
  <1> QED
    BY <1>1, StartKeepsBudget DEF BypassBudget

LEMMA NextFairInv == FairInv /\ [DriverNext]_schedVars => FairInv'
  <1> SUFFICES ASSUME FairInv, [DriverNext]_schedVars, \A q \in Queue : Weight[q] > 0 PROVE BypassBudget'
    BY NextSchedInv DEF FairInv, Queue
  <1>0. SchedTypeOK /\ BypassBudget
    BY DEF FairInv, SchedInv
  <1>1. ASSUME UNCHANGED <<WRRQueueIndex, pendingWeight, bypassed>> PROVE BypassBudget'
    BY <1>0, <1>1 DEF BypassBudget, Distance, MaxWeight, Queue
  <1>2. ASSUME NEW q \in Queue, NEW size \in ReportedSize, dext_queueSize(q, size) PROVE BypassBudget'
    <2>1. knownSize' = [knownSize EXCEPT ![q] = size] /\ size \in Nat
      BY <1>2, DriverAssumption DEF dext_queueSize
    <2>2. knownSize' \in [Queue -> Nat]
      BY <1>0, <2>1 DEF SchedTypeOK
    <2>3. CASE delayedRequest = "yes" /\ size # 0
      BY <1>0, <1>2, <2>2, <2>3, RequestKeepsBudget DEF dext_queueSize
    <2>4. CASE ~(delayedRequest = "yes" /\ size # 0)
      BY <1>1, <1>2, <2>4 DEF dext_queueSize, requestVars
    <2> QED
      BY <2>3, <2>4
  <1>3. CASE RequestArrives
    BY <1>0, <1>3, RequestKeepsBudget DEF RequestArrives, SchedTypeOK
  <1>4. CASE RequestSent
    BY <1>1, <1>4 DEF RequestSent, SchedDint
  <1>5. CASE UNCHANGED schedVars
    BY <1>1, <1>5 DEF schedVars, requestVars
  <1> QED
    BY <1>2, <1>3, <1>4, <1>5 DEF DriverNext, SizeArrives

LEMMA BudgetIsBound == FairInv => BypassBound
  <1> SUFFICES ASSUME FairInv, \A q \in Queue : Weight[q] > 0, NEW q \in Queue
               PROVE  bypassed[q] <= (N - 1) * MaxWeight
    BY DEF BypassBound
  <1>0. SchedTypeOK /\ BypassBudget
    BY DEF FairInv, SchedInv
  <1>1. MaxWeight \in Nat /\ N - 1 \in Int /\ 0 <= N - 1 /\ bypassed[q] \in Nat /\ WRRQueueIndex \in Queue
    BY <1>0, LargestWeight, SchedAssumption DEF SchedTypeOK
  <1>2. CASE q = WRRQueueIndex
    <2>1. 0 * MaxWeight <= (N - 1) * MaxWeight
      BY <1>1, Monotone
    <2>2. 0 * MaxWeight = 0
      BY <1>1
    <2> QED
      BY <1>0, <1>2, <2>1, <2>2 DEF BypassBudget
  <1>3. CASE q # WRRQueueIndex
    <2> DEFINE G == Distance(WRRQueueIndex, q) - 1
    <2>1. bypassed[q] + pendingWeight + G * MaxWeight <= (N - 1) * MaxWeight /\ pendingWeight \in 0 .. MaxWeight
      BY <1>0, <1>3 DEF BypassBudget
    <2>2. G \in Int /\ 0 <= G
      BY <1>1, <1>3, DistanceRange
    <2> HIDE DEF G
    <2>3. 0 * MaxWeight <= G * MaxWeight /\ G * MaxWeight \in Int
      BY <1>1, <2>2, Monotone
    <2>4. 0 * MaxWeight = 0 /\ (N - 1) * MaxWeight \in Int
      BY <1>1, OneTurn
    <2>5. pendingWeight \in Int /\ 0 <= pendingWeight
      BY <1>1, <2>1
    <2> QED
      BY <1>1, <2>1, <2>3, <2>4, <2>5
  <1> QED
    BY <1>2, <1>3

(* When all weights are positive, getNextWRRIndex and dext_dequeRequest    *)
(* choose other queues at most (N - 1) * MaxWeight times in a row over a   *)
(* queue that has packets, for every number of queues and all weights.     *)
THEOREM NoQueueStarves == DriverSpec => []BypassBound
  BY InitFairInv, NextFairInv, BudgetIsBound, PTL DEF DriverSpec

(***************************************************************************)
(* The egress port.                                                        *)
(***************************************************************************)
-----------------------------------------------------------------------------
(* The inductive invariant.                                                *)

(* The link's next event follows from its state.                           *)
LinkTimed ==
    /\ linkState = "WAITING_NEXT_JOB" <=> linkNext = "never"
    /\ linkState = "PROCESSING" => incomingPacket \in Packet \X Queue

(* A link that is due finds the rest of the port at rest: nothing comes    *)
(* between the end of a transmission and its output.                       *)
LinkFirst ==
    linkNext = "now" => /\ \A q \in Queue : queueNext[q] = "later"
                        /\ schedNext = "never" /\ outputEvents = <<>>

(* A queue whose size the scheduler does not know is about to report it.   *)
WillReport ==
    \A q \in Queue : knownSize[q] # queueSize_bytes[q] => mystate[q] = "NOTIFYING" /\ queueNext[q] = "now"

(* A queue that can answer a request is due.                               *)
WillAnswer == \A q \in Queue : CanEmit(q) => queueNext[q] = "now"

(* The scheduler passes the request to a queue with packets, unless the    *)
(* queue has answered in the meantime of its own accord.                   *)
ChosenHasPackets == schedNext = "now" => AtDemux \/ queueSize_bytes[WRRQueueIndex] > 0

(* There is at least one request, and it is not with an empty queue.       *)
RequestNotLost == AtLink \/ AtSched \/ Parked \/ AtDemux \/ \E q \in Queue : CanEmit(q)

(* Without forced periods no queue wakes up by itself, and only the        *)
(* scheduler makes a queue take the server for waiting.                    *)
QueuesAsked ==
    forcedPeriod = "infinite" =>
        \A q \in Queue : /\ queueNext[q] = "now" => mystate[q] # "WAITING"
                         /\ AtQueue(q) => queueSize_bytes[q] > 0

PortIInv ==
    /\ TypeOK
    /\ CounterExact
    /\ DelayedOnlyWhenEmpty
    /\ OneRequest
    /\ OnlyPreemptionThrows
    /\ LinkTimed
    /\ LinkFirst
    /\ WillReport
    /\ WillAnswer
    /\ ChosenHasPackets
    /\ RequestNotLost
    /\ QueuesAsked

-----------------------------------------------------------------------------
(* The byte counters.                                                      *)

(* Bytes is the sum of the lengths of a sequence of packets.               *)
LEMMA BytesIsSum == Size \in [Packet -> Nat] /\ IsSum(Packet, Size, Bytes)
  <1>1. Size \in [Packet -> Nat]
    BY PortAssumption
  <1>2. \E F : F = [s \in Seq(Packet) |-> IF s = <<>> THEN 0 ELSE Size[Head(s)] + F[Tail(s)]]
    BY <1>1, SumExists DEF IsSum
  <1>3. Bytes = [s \in Seq(Packet) |-> IF s = <<>> THEN 0 ELSE Size[Head(s)] + Bytes[Tail(s)]]
    BY <1>2, Zenon DEF Bytes
  <1> QED
    BY <1>1, <1>3 DEF IsSum

LEMMA BytesOfNothing == Bytes[<<>>] = 0
  <1>1. <<>> \in Seq(Packet)
    OBVIOUS
  <1> QED
    BY <1>1, BytesIsSum DEF IsSum

LEMMA BytesOfTail ==
  ASSUME NEW s \in Seq(Packet), s # <<>>
  PROVE  /\ Bytes[Tail(s)] = Bytes[s] - Size[Head(s)]
         /\ Size[Head(s)] \in Nat \ {0} /\ Bytes[s] \in Nat /\ Bytes[Tail(s)] \in Nat
  <1>1. Tail(s) \in Seq(Packet) /\ Head(s) \in Packet
    OBVIOUS
  <1>2. Bytes[s] = Size[Head(s)] + Bytes[Tail(s)]
    BY BytesIsSum DEF IsSum
  <1>3. Bytes[Tail(s)] \in Nat /\ Bytes[s] \in Nat
    BY <1>1, BytesIsSum, SumIsNat
  <1>4. Size[Head(s)] \in Nat \ {0}
    BY <1>1, PortAssumption
  <1> QED
    BY <1>2, <1>3, <1>4

LEMMA BytesOfAppend ==
  ASSUME NEW s \in Seq(Packet), NEW p \in Packet
  PROVE  Bytes[Append(s, p)] = Bytes[s] + Size[p] /\ Size[p] \in Nat /\ Bytes[s] \in Nat
  BY BytesIsSum, SumOfAppend, SumIsNat

-----------------------------------------------------------------------------
LEMMA InitPortIInv == Init => PortIInv
  <1> SUFFICES ASSUME Init PROVE PortIInv
    OBVIOUS
  <1> USE DEF Init, QueuesInit, LinkInit, SelectInit, DemuxInit
  <1>1. SchedInv
    BY InitSchedInv
  <1>2. TypeOK
    BY <1>1, PortAssumption DEF TypeOK, SchedInv, NoError
  <1>3. CounterExact
    BY BytesOfNothing, PortAssumption DEF CounterExact
  <1>4. OneRequest /\ OnlyPreemptionThrows
    BY DEF SchedInit, OneRequest, OnlyPreemptionThrows, AtLink, AtSched, Parked, AtQueue, AtDemux
  <1>5. LinkTimed /\ LinkFirst /\ WillReport /\ WillAnswer
    BY DEF SchedInit, LinkTimed, LinkFirst, WillReport, WillAnswer, CanEmit
  <1>6. ChosenHasPackets /\ RequestNotLost /\ QueuesAsked
    BY DEF SchedInit, ChosenHasPackets, RequestNotLost, QueuesAsked, AtLink, AtQueue
  <1> QED
    BY <1>1, <1>2, <1>3, <1>4, <1>5, <1>6 DEF PortIInv, SchedInv

(* A step that leaves the port as it is, but may end the simulation.       *)
LEMMA PortAtRest ==
  ASSUME PortIInv, UNCHANGED <<forcedPeriod, queueVars, schedVars, outputEvents, linkVars>>,
         TypeOK', OnlyPreemptionThrows'
  PROVE  PortIInv'
  BY DEF PortIInv, queueVars, schedVars, requestVars, linkVars, CounterExact, DelayedOnlyWhenEmpty, OneRequest,
         LinkTimed, LinkFirst, WillReport, WillAnswer, ChosenHasPackets, RequestNotLost, QueuesAsked,
         CanEmit, AtLink, AtSched, Parked, AtQueue, AtDemux

(* A packet may be handed to prioritySelect at any point.                  *)
LEMMA SelectDextPreserves ==
  ASSUME PortIInv, NEW p \in Packet, SelectDext(p), UNCHANGED forcedPeriod, unsent' \subseteq Packet
  PROVE  PortIInv'
  <1>0. TypeOK /\ OnlyPreemptionThrows
    BY DEF PortIInv
  <1>1. UNCHANGED <<forcedPeriod, queueVars, schedVars, outputEvents, linkVars>>
    BY DEF SelectDext, Throw, portVars
  <1>2. TypeOK'
    BY <1>0, <1>1 DEF SelectDext, Throw, portVars, TypeOK, queueVars, schedVars, requestVars,
                      linkVars, SchedTypeOK, NoError
  <1>3. OnlyPreemptionThrows'
    BY <1>0 DEF SelectDext, Throw, OnlyPreemptionThrows, NoError
  <1> QED
    BY <1>1, <1>2, <1>3, PortAtRest

LEMMA ArrivePreserves == ASSUME PortIInv, NEW p \in Packet, Arrive(p) PROVE PortIInv'
  <1>1. unsent' \subseteq Packet
    BY DEF PortIInv, TypeOK, Arrive
  <1> QED
    BY <1>1, SelectDextPreserves DEF Arrive

LEMMA LinkStepPreserves == PortIInv /\ LinkStep => PortIInv'
  <1> SUFFICES ASSUME PortIInv, LinkStep PROVE PortIInv'
    OBVIOUS
  <1>0. /\ TypeOK /\ SchedInv /\ SchedTypeOK /\ CounterExact /\ OneRequest /\ OnlyPreemptionThrows /\ LinkTimed
        /\ LinkFirst /\ WillReport /\ WillAnswer /\ QueuesAsked
    BY DEF PortIInv, TypeOK, SchedInv
  <1>1. /\ linkNext = "now" /\ linkState # "WAITING_NEXT_JOB"
        /\ schedNext = "never" /\ outputEvents = <<>>
        /\ \A q \in Queue : queueNext[q] = "later" /\ knownSize[q] = queueSize_bytes[q]
    BY <1>0 DEF LinkStep, LinkTimed, LinkFirst, WillReport
  <1>2. CASE RequestOutstanding
    <2>1. UNCHANGED portVars /\ error' = "WRRScheduler::dext" /\ UNCHANGED <<forcedPeriod, unsent>>
      BY <1>1, <1>2 DEF LinkStep, Throw
    <2>2. forcedPeriod # "infinite"
      BY <1>0, <1>1, <1>2 DEF RequestOutstanding, OneRequest, AtLink, AtSched, Parked
    <2>3. TypeOK'
      BY <1>0, <2>1 DEF TypeOK, portVars, queueVars, schedVars, requestVars, linkVars, SchedTypeOK
    <2>4. OnlyPreemptionThrows'
      BY <2>1, <2>2 DEF OnlyPreemptionThrows
    <2> QED
      BY <2>1, <2>3, <2>4, PortAtRest DEF portVars
  <1>3. CASE ~RequestOutstanding
    <2>1. /\ dext_dequeRequest(knownSize) /\ knownSize' = knownSize
          /\ linkState' = "WAITING_NEXT_JOB" /\ linkNext' = "never"
          /\ UNCHANGED <<forcedPeriod, unsent, arrivedPacket, queueVars, outputEvents, incomingPacket, error>>
      BY <1>1, <1>3 DEF LinkStep
    <2>2. SchedInv' /\ SchedTypeOK' /\ DelayedOnlyWhenEmpty'
      BY <1>0, <2>1, RequestPreserves DEF SchedInv, SchedTypeOK
    <2>3. delivered' \in [Queue -> Seq(Packet)]
      <3>1. CASE linkState = "PROCESSING"
        <4>1. /\ incomingPacket[1] \in Packet /\ incomingPacket[2] \in Queue
              /\ delivered' = [delivered EXCEPT ![incomingPacket[2]] = Append(@, incomingPacket[1])]
          BY <1>0, <1>1, <1>3, <3>1 DEF LinkStep, LinkTimed
        <4> QED
          BY <1>0, <4>1 DEF TypeOK
      <3>2. CASE linkState # "PROCESSING"
        BY <1>0, <1>1, <1>3, <3>2 DEF LinkStep, TypeOK
      <3> QED
        BY <3>1, <3>2
    <2>4. TypeOK'
      BY <1>0, <2>1, <2>2, <2>3 DEF TypeOK, queueVars
    <2>5. \/ /\ schedNext' = "now" /\ delayedRequest' = "no"
             /\ WRRQueueIndex' \in Queue /\ knownSize[WRRQueueIndex'] # 0
          \/ schedNext' = "never" /\ delayedRequest' = "yes"
      BY <1>0, <2>1, RequestOutcome DEF SchedTypeOK
    <2>6. CounterExact' /\ OnlyPreemptionThrows' /\ WillReport' /\ WillAnswer' /\ QueuesAsked'
      BY <1>0, <2>1 DEF queueVars, CounterExact, OnlyPreemptionThrows, WillReport, WillAnswer, QueuesAsked,
                        CanEmit, AtQueue
    <2>7. OneRequest'
      BY <1>0, <1>1, <2>1, <2>5 DEF OneRequest, queueVars, AtLink, AtSched, Parked, AtQueue, AtDemux
    <2>8. LinkTimed' /\ LinkFirst'
      BY <2>1 DEF LinkTimed, LinkFirst
    <2>9. ChosenHasPackets'
      BY <1>0, <1>1, <2>1, <2>5 DEF ChosenHasPackets, queueVars, TypeOK
    <2>10. RequestNotLost'
      BY <2>5 DEF RequestNotLost, AtSched, Parked
    <2> QED
      BY <2>2, <2>4, <2>6, <2>7, <2>8, <2>9, <2>10 DEF PortIInv
  <1> QED
    BY <1>2, <1>3

(* A queue that accepts a packet counts its length.                        *)
LEMMA QueuedIsCounted ==
  ASSUME TypeOK, CounterExact, NEW q \in Queue, NEW p \in Packet, Fits(q, p)
  PROVE  /\ queuePacket(q, p) \in Seq(Packet)
         /\ queueSize_AfterArrival(q, p) \in Nat
         /\ queueSize_AfterArrival(q, p) = Bytes[queuePacket(q, p)]
         /\ queueSize_AfterArrival(q, p) <= MaxCapacity
         /\ queueSize_AfterArrival(q, p) >= queueSize_bytes[q]
  <1>1. packetQueue[q] \in Seq(Packet) /\ queueSize_bytes[q] \in Nat /\ queueSize_bytes[q] = Bytes[packetQueue[q]]
    BY DEF TypeOK, CounterExact
  <1>2. Bytes[Append(packetQueue[q], p)] = queueSize_bytes[q] + Size[p] /\ Size[p] \in Nat
    BY <1>1, BytesOfAppend
  <1>3. Append(packetQueue[q], p) \in Seq(Packet)
    BY <1>1
  <1> QED
    BY <1>1, <1>2, <1>3 DEF Fits, queuePacket, queueSize_AfterArrival

LEMMA SelectStepPreserves == PortIInv /\ SelectStep => PortIInv'
  <1> SUFFICES ASSUME PortIInv, SelectStep PROVE PortIInv'
    OBVIOUS
  <1>0. /\ TypeOK /\ SchedTypeOK /\ DelayedOnlyWhenEmpty /\ CounterExact /\ OneRequest /\ OnlyPreemptionThrows
        /\ LinkTimed /\ LinkFirst /\ WillReport /\ WillAnswer /\ ChosenHasPackets /\ RequestNotLost /\ QueuesAsked
    BY DEF PortIInv, TypeOK
  <1> DEFINE p == arrivedPacket
             to == Addressed(Tos[p])
             accepting == {q \in to : Fits(q, p)}
  <1>1. p \in Packet /\ to \subseteq Queue /\ accepting \subseteq to
    BY <1>0 DEF SelectStep, TypeOK, Addressed
  <1>2. /\ packetQueue' = [q \in Queue |-> IF q \in accepting THEN queuePacket(q, p) ELSE packetQueue[q]]
        /\ queueSize_bytes' = [q \in Queue |-> IF q \in accepting THEN queueSize_AfterArrival(q, p) ELSE queueSize_bytes[q]]
        /\ mystate' = [q \in Queue |-> IF q \in to THEN "NOTIFYING" ELSE mystate[q]]
        /\ queueNext' = [q \in Queue |-> IF q \in to THEN "now" ELSE queueNext[q]]
        /\ arrivedPacket' = NoPacket
        /\ UNCHANGED <<forcedPeriod, unsent, serverstate, schedVars, outputEvents, linkVars, error>>
        /\ linkNext # "now"
    BY DEF SelectStep, SelectDint, LinkIdle
  <1>3. \A q \in accepting : Fits(q, p)
    OBVIOUS
  <1> HIDE DEF p, to, accepting
  <1>4. ASSUME NEW q \in Queue
        PROVE  /\ packetQueue'[q] \in Seq(Packet) /\ queueSize_bytes'[q] \in Nat
               /\ queueSize_bytes'[q] = Bytes[packetQueue'[q]] /\ queueSize_bytes'[q] <= MaxCapacity
               /\ queueSize_bytes'[q] >= queueSize_bytes[q]
               /\ q \notin to => /\ queueSize_bytes'[q] = queueSize_bytes[q]
                                 /\ mystate'[q] = mystate[q] /\ queueNext'[q] = queueNext[q]
               /\ q \in to => mystate'[q] = "NOTIFYING" /\ queueNext'[q] = "now"
    <2>1. CASE q \in accepting
      <3>1. packetQueue'[q] = queuePacket(q, p) /\ queueSize_bytes'[q] = queueSize_AfterArrival(q, p)
        BY <1>2, <2>1
      <3>2. /\ queuePacket(q, p) \in Seq(Packet)
            /\ queueSize_AfterArrival(q, p) \in Nat
            /\ queueSize_AfterArrival(q, p) = Bytes[queuePacket(q, p)]
            /\ queueSize_AfterArrival(q, p) <= MaxCapacity
            /\ queueSize_AfterArrival(q, p) >= queueSize_bytes[q]
        BY <1>0, <1>1, <1>3, <2>1, QueuedIsCounted
      <3> QED
        BY <1>1, <1>2, <2>1, <3>1, <3>2
    <2>2. CASE q \notin accepting
      <3>1. packetQueue'[q] = packetQueue[q] /\ queueSize_bytes'[q] = queueSize_bytes[q]
        BY <1>2, <2>2
      <3> QED
        BY <1>0, <1>2, <2>2, <3>1 DEF TypeOK, CounterExact
    <2> QED
      BY <2>1, <2>2
  <1>5. TypeOK'
    <2>1. packetQueue' \in [Queue -> Seq(Packet)] /\ queueSize_bytes' \in [Queue -> Nat]
      BY <1>2, <1>4
    <2>2. /\ mystate' \in [Queue -> {"WAITING", "NOTIFYING", "READYTOEMIT"}]
          /\ queueNext' \in [Queue -> {"now", "later"}]
      BY <1>0, <1>2 DEF TypeOK
    <2> QED
      BY <1>0, <1>2, <2>1, <2>2 DEF TypeOK, schedVars, requestVars, linkVars, SchedTypeOK
  <1>6. CounterExact' /\ DelayedOnlyWhenEmpty' /\ OnlyPreemptionThrows'
    BY <1>0, <1>2, <1>4 DEF CounterExact, DelayedOnlyWhenEmpty, OnlyPreemptionThrows, schedVars, requestVars
  <1>7. OneRequest' /\ LinkTimed' /\ LinkFirst'
    BY <1>0, <1>2 DEF OneRequest, LinkTimed, LinkFirst, AtLink, AtSched, Parked, AtQueue, AtDemux,
                      schedVars, requestVars, linkVars
  <1>8. WillReport' /\ WillAnswer'
    BY <1>0, <1>2, <1>4 DEF WillReport, WillAnswer, CanEmit, schedVars, requestVars
  <1>9. ChosenHasPackets'
    <2>1. schedNext' = schedNext /\ WRRQueueIndex' = WRRQueueIndex /\ WRRQueueIndex \in Queue /\ outputEvents' = outputEvents
      BY <1>0, <1>2 DEF schedVars, requestVars, SchedTypeOK
    <2>2. queueSize_bytes'[WRRQueueIndex] >= queueSize_bytes[WRRQueueIndex] /\ queueSize_bytes'[WRRQueueIndex] \in Nat
          /\ queueSize_bytes[WRRQueueIndex] \in Nat
      BY <1>0, <1>4, <2>1 DEF TypeOK
    <2> QED
      BY <1>0, <2>1, <2>2 DEF ChosenHasPackets, AtDemux
  <1>10. \A q \in Queue : queueSize_bytes[q] > 0 => queueSize_bytes'[q] > 0
    BY <1>0, <1>4 DEF TypeOK
  <1>11. RequestNotLost' /\ QueuesAsked'
    BY <1>0, <1>2, <1>4, <1>10 DEF RequestNotLost, QueuesAsked, CanEmit, AtLink, AtSched, Parked, AtQueue, AtDemux,
                                  schedVars, requestVars, linkVars
  <1> QED
    BY <1>5, <1>6, <1>7, <1>8, <1>9, <1>11 DEF PortIInv

LEMMA WakeUpPreserves == ASSUME PortIInv, NEW q \in Queue, WakeUp(q) PROVE PortIInv'
  <1>0. /\ TypeOK /\ SchedTypeOK /\ DelayedOnlyWhenEmpty /\ CounterExact /\ OneRequest /\ OnlyPreemptionThrows
        /\ LinkTimed /\ LinkFirst /\ WillReport /\ WillAnswer /\ ChosenHasPackets /\ RequestNotLost /\ QueuesAsked
    BY DEF PortIInv, TypeOK
  <1>1. /\ serverstate' = [serverstate EXCEPT ![q] = "SERVERWAITING"]
        /\ mystate' = [mystate EXCEPT ![q] = "NOTIFYING"]
        /\ queueNext[q] = "now" /\ linkNext # "now" /\ mystate[q] = "WAITING"
        /\ UNCHANGED <<forcedPeriod, unsent, arrivedPacket, packetQueue, queueSize_bytes, queueNext,
                       schedVars, outputEvents, linkVars, error>>
    BY DEF WakeUp, QueueTurn, SelectIdle, LinkIdle
  <1>2. forcedPeriod' # "infinite"
    BY <1>0, <1>1 DEF QueuesAsked
  <1>3. TypeOK'
    BY SMTT(30), <1>0, <1>1 DEF TypeOK, schedVars, requestVars, linkVars, SchedTypeOK
  <1>4. OneRequest' /\ OnlyPreemptionThrows' /\ QueuesAsked'
    BY <1>2 DEF OneRequest, OnlyPreemptionThrows, QueuesAsked
  <1>5. CounterExact' /\ DelayedOnlyWhenEmpty' /\ LinkTimed' /\ LinkFirst' /\ ChosenHasPackets'
    BY <1>0, <1>1 DEF CounterExact, DelayedOnlyWhenEmpty, LinkTimed, LinkFirst, ChosenHasPackets, AtDemux,
                      schedVars, requestVars, linkVars
  <1>6. WillReport' /\ WillAnswer' /\ RequestNotLost'
    BY <1>0, <1>1 DEF TypeOK, WillReport, WillAnswer, RequestNotLost, CanEmit, AtLink, AtSched, Parked, AtDemux,
                      schedVars, requestVars, linkVars
  <1> QED
    BY <1>3, <1>4, <1>5, <1>6 DEF PortIInv

LEMMA NotifySizePreserves == ASSUME PortIInv, NEW q \in Queue, NotifySize(q) PROVE PortIInv'
  <1>0. /\ TypeOK /\ SchedInv /\ SchedTypeOK /\ DelayedOnlyWhenEmpty /\ CounterExact /\ OneRequest /\ OnlyPreemptionThrows
        /\ LinkTimed /\ LinkFirst /\ WillReport /\ WillAnswer /\ ChosenHasPackets /\ RequestNotLost /\ QueuesAsked
    BY DEF PortIInv, TypeOK, SchedInv
  <1>1. /\ dext_queueSize(q, queueSize_bytes[q]) /\ queueSize_bytes[q] \in Nat
        /\ mystate' = [mystate EXCEPT ![q] = IF CanEmit(q) THEN "READYTOEMIT" ELSE "WAITING"]
        /\ queueNext' = [queueNext EXCEPT ![q] = IF CanEmit(q) THEN "now" ELSE "later"]
        /\ linkNext # "now"
        /\ UNCHANGED <<forcedPeriod, unsent, arrivedPacket, packetQueue, queueSize_bytes, serverstate,
                       outputEvents, linkVars, error>>
    BY <1>0 DEF NotifySize, QueueTurn, SelectIdle, LinkIdle, TypeOK
  <1>2. knownSize' = [knownSize EXCEPT ![q] = queueSize_bytes[q]] /\ knownSize' \in [Queue -> Nat]
    BY <1>0, <1>1 DEF dext_queueSize, SchedTypeOK
  <1>3. SchedInv' /\ SchedTypeOK' /\ DelayedOnlyWhenEmpty'
    BY <1>0, <1>1, SizePreserves DEF SchedInv
  <1>4. TypeOK'
    BY <1>0, <1>1, <1>3 DEF TypeOK, linkVars
  <1>5. CounterExact' /\ OnlyPreemptionThrows' /\ LinkTimed' /\ LinkFirst'
    BY <1>0, <1>1 DEF CounterExact, OnlyPreemptionThrows, LinkTimed, LinkFirst, linkVars
  <1>6. WillReport' /\ WillAnswer' /\ QueuesAsked'
    BY SMTT(30), <1>0, <1>1, <1>2 DEF TypeOK, SchedTypeOK, WillReport, WillAnswer, QueuesAsked, CanEmit, AtQueue
  <1>7. OneRequest' /\ ChosenHasPackets' /\ RequestNotLost'
    <2>1. CASE delayedRequest = "yes" /\ queueSize_bytes[q] # 0
      <3>1. \/ /\ schedNext' = "now" /\ delayedRequest' = "no"
               /\ WRRQueueIndex' \in Queue /\ knownSize'[WRRQueueIndex'] # 0
            \/ schedNext' = "never" /\ delayedRequest' = "yes"
        <4>1. dext_dequeRequest(knownSize')
          BY <1>1, <2>1 DEF dext_queueSize
        <4> QED
          BY <1>2, <4>1, RequestOutcome
      <3>2. \A r \in Queue : r # q => knownSize'[r] = 0
        BY <1>0, <1>2, <2>1 DEF DelayedOnlyWhenEmpty, SchedTypeOK
      <3>3. schedNext' = "now" => WRRQueueIndex' = q
        BY <3>1, <3>2
      <3>4. ChosenHasPackets'
        BY <1>1, <2>1, <3>3 DEF ChosenHasPackets
      <3>5. RequestNotLost'
        BY <3>1 DEF RequestNotLost, AtSched, Parked
      <3>6. OneRequest'
        BY <1>0, <1>1, <2>1, <3>1 DEF OneRequest, AtLink, AtSched, Parked, AtQueue, AtDemux, linkVars
      <3> QED
        BY <3>4, <3>5, <3>6
    <2>2. CASE ~(delayedRequest = "yes" /\ queueSize_bytes[q] # 0)
      <3>1. UNCHANGED requestVars
        BY <1>1, <2>2 DEF dext_queueSize
      <3> QED
        BY <1>0, <1>1, <3>1 DEF OneRequest, ChosenHasPackets, RequestNotLost, CanEmit, AtLink, AtSched, Parked,
                                AtQueue, AtDemux, linkVars, requestVars
    <2> QED
      BY <2>1, <2>2
  <1> QED
    BY <1>3, <1>4, <1>5, <1>6, <1>7 DEF PortIInv

LEMMA EmitPacketPreserves == ASSUME PortIInv, NEW q \in Queue, EmitPacket(q) PROVE PortIInv'
  <1>0. /\ TypeOK /\ SchedTypeOK /\ DelayedOnlyWhenEmpty /\ CounterExact /\ OneRequest /\ OnlyPreemptionThrows
        /\ LinkTimed /\ LinkFirst /\ WillReport /\ WillAnswer /\ ChosenHasPackets /\ RequestNotLost /\ QueuesAsked
    BY DEF PortIInv, TypeOK
  <1>1. /\ CanEmit(q) /\ queueNext[q] = "now" /\ linkNext # "now"
        /\ outputEvents' = Append(outputEvents, <<Head(packetQueue[q]), q>>)
        /\ packetQueue' = [packetQueue EXCEPT ![q] = Tail(packetQueue[q])]
        /\ queueSize_bytes' = [queueSize_bytes EXCEPT ![q] = queueSize_bytes[q] - Size[Head(packetQueue[q])]]
        /\ serverstate' = [serverstate EXCEPT ![q] = "SERVERBUSY"]
        /\ mystate' = [mystate EXCEPT ![q] = "NOTIFYING"]
        /\ UNCHANGED <<forcedPeriod, unsent, arrivedPacket, queueNext, schedVars, linkVars, error>>
    BY DEF EmitPacket, QueueTurn, SelectIdle, LinkIdle, ServerAfterEmission
  <1>2. /\ packetQueue[q] \in Seq(Packet) /\ queueSize_bytes[q] = Bytes[packetQueue[q]] /\ queueSize_bytes[q] > 0
        /\ queueSize_bytes[q] <= MaxCapacity /\ MaxCapacity \in Nat
    BY <1>0, <1>1, PortAssumption DEF TypeOK, CounterExact, CanEmit
  <1>3. packetQueue[q] # <<>>
    BY <1>2, BytesOfNothing
  <1>4. /\ Bytes[Tail(packetQueue[q])] = queueSize_bytes[q] - Size[Head(packetQueue[q])]
        /\ Size[Head(packetQueue[q])] \in Nat \ {0}
        /\ Bytes[Tail(packetQueue[q])] \in Nat /\ Bytes[packetQueue[q]] \in Nat
    BY <1>2, <1>3, BytesOfTail
  <1>5. Head(packetQueue[q]) \in Packet /\ Tail(packetQueue[q]) \in Seq(Packet)
    BY <1>2, <1>3
  <1>6. ASSUME NEW r \in Queue
        PROVE  /\ packetQueue'[r] = IF r = q THEN Tail(packetQueue[q]) ELSE packetQueue[r]
               /\ queueSize_bytes'[r] = IF r = q THEN Bytes[Tail(packetQueue[q])] ELSE queueSize_bytes[r]
               /\ serverstate'[r] = IF r = q THEN "SERVERBUSY" ELSE serverstate[r]
               /\ mystate'[r] = IF r = q THEN "NOTIFYING" ELSE mystate[r]
    BY <1>0, <1>1, <1>4 DEF TypeOK
  <1>7. TypeOK'
    <2>1. outputEvents' \in Seq(Packet \X Queue)
      BY <1>0, <1>1, <1>5 DEF TypeOK
    <2>2. packetQueue' \in [Queue -> Seq(Packet)] /\ queueSize_bytes' \in [Queue -> Nat]
      BY <1>0, <1>1, <1>4, <1>5 DEF TypeOK
    <2> QED
      BY <1>0, <1>1, <2>1, <2>2, ZenonT(60) DEF TypeOK, schedVars, requestVars, linkVars, SchedTypeOK
  <1>8. CounterExact'
    <2> SUFFICES ASSUME NEW r \in Queue
                 PROVE  queueSize_bytes'[r] = Bytes[packetQueue'[r]] /\ queueSize_bytes'[r] <= MaxCapacity
      BY DEF CounterExact
    <2>1. CASE r = q
      <3>1. queueSize_bytes'[r] = Bytes[packetQueue'[r]]
        BY <1>6, <2>1
      <3>2. Bytes[Tail(packetQueue[q])] <= MaxCapacity
        BY <1>2, <1>4
      <3> QED
        BY <1>6, <2>1, <3>1, <3>2
    <2>2. CASE r # q
      BY <1>0, <1>6, <2>2 DEF CounterExact
    <2> QED
      BY <2>1, <2>2
  <1>9. DelayedOnlyWhenEmpty' /\ OnlyPreemptionThrows' /\ LinkTimed' /\ LinkFirst'
    BY <1>0, <1>1 DEF DelayedOnlyWhenEmpty, OnlyPreemptionThrows, LinkTimed, LinkFirst, schedVars, requestVars, linkVars
  <1>10. WillReport' /\ WillAnswer' /\ QueuesAsked'
    BY <1>0, <1>1, <1>6 DEF WillReport, WillAnswer, QueuesAsked, CanEmit, AtQueue, schedVars, requestVars
  <1>11. outputEvents' # <<>> /\ (outputEvents = <<>> => Len(outputEvents') = 1)
    <2>1. outputEvents \in Seq(Packet \X Queue) /\ <<Head(packetQueue[q]), q>> \in Packet \X Queue
      BY <1>0, <1>5 DEF TypeOK
    <2>2. Len(outputEvents') = Len(outputEvents) + 1 /\ Len(outputEvents) \in Nat
      BY <1>1, <2>1
    <2> QED
      BY <2>1, <2>2
  <1>12. ChosenHasPackets' /\ RequestNotLost'
    BY <1>11 DEF ChosenHasPackets, RequestNotLost, AtDemux
  <1>13. OneRequest'
    BY <1>0, <1>1, <1>6, <1>11 DEF OneRequest, CanEmit, AtLink, AtSched, Parked, AtQueue, AtDemux, schedVars, requestVars, linkVars
  <1> QED
    BY <1>7, <1>8, <1>9, <1>10, <1>12, <1>13 DEF PortIInv

LEMMA EmitNothingPreserves == ASSUME PortIInv, NEW q \in Queue, EmitNothing(q) PROVE PortIInv'
  <1>0. /\ TypeOK /\ SchedTypeOK /\ DelayedOnlyWhenEmpty /\ CounterExact /\ OneRequest /\ OnlyPreemptionThrows
        /\ LinkTimed /\ LinkFirst /\ WillReport /\ WillAnswer /\ ChosenHasPackets /\ RequestNotLost /\ QueuesAsked
    BY DEF PortIInv, TypeOK
  <1>1. /\ ~CanEmit(q) /\ mystate[q] = "READYTOEMIT" /\ linkNext # "now"
        /\ mystate' = [mystate EXCEPT ![q] = "WAITING"]
        /\ queueNext' = [queueNext EXCEPT ![q] = "later"]
        /\ UNCHANGED <<forcedPeriod, unsent, arrivedPacket, packetQueue, queueSize_bytes, serverstate,
                       schedVars, outputEvents, linkVars, error>>
    BY DEF EmitNothing, QueueTurn, SelectIdle, LinkIdle
  <1>2. TypeOK'
    BY <1>0, <1>1, ZenonT(60) DEF TypeOK, schedVars, requestVars, linkVars, SchedTypeOK
  <1>3. CounterExact' /\ DelayedOnlyWhenEmpty' /\ OnlyPreemptionThrows' /\ LinkTimed' /\ LinkFirst' /\ ChosenHasPackets'
    BY <1>0, <1>1 DEF CounterExact, DelayedOnlyWhenEmpty, OnlyPreemptionThrows, LinkTimed, LinkFirst, ChosenHasPackets,
                      AtDemux, schedVars, requestVars, linkVars
  <1>4. OneRequest' /\ RequestNotLost'
    BY <1>0, <1>1 DEF OneRequest, RequestNotLost, CanEmit, AtLink, AtSched, Parked, AtQueue, AtDemux,
                      schedVars, requestVars, linkVars
  <1>5. WillReport' /\ WillAnswer' /\ QueuesAsked'
    BY <1>0, <1>1 DEF TypeOK, WillReport, WillAnswer, QueuesAsked, CanEmit, AtQueue, schedVars, requestVars
  <1> QED
    BY <1>2, <1>3, <1>4, <1>5 DEF PortIInv

LEMMA SchedStepPreserves == PortIInv /\ SchedStep => PortIInv'
  <1> SUFFICES ASSUME PortIInv, SchedStep PROVE PortIInv'
    OBVIOUS
  <1>0. /\ TypeOK /\ SchedInv /\ SchedTypeOK /\ DelayedOnlyWhenEmpty /\ CounterExact /\ OneRequest /\ OnlyPreemptionThrows
        /\ LinkTimed /\ LinkFirst /\ WillReport /\ WillAnswer /\ ChosenHasPackets /\ RequestNotLost /\ QueuesAsked
    BY DEF PortIInv, TypeOK, SchedInv
  <1> DEFINE q == WRRQueueIndex
  <1>1. /\ q \in Queue /\ schedNext = "now" /\ linkNext # "now" /\ \A r \in Queue : queueNext[r] # "now"
        /\ serverstate' = [serverstate EXCEPT ![q] = "SERVERWAITING"]
        /\ mystate' = [mystate EXCEPT ![q] = "READYTOEMIT"]
        /\ queueNext' = [queueNext EXCEPT ![q] = IF queueSize_bytes[q] > 0 THEN "now" ELSE queueNext[q]]
        /\ SchedDint /\ schedNext' = "never" /\ delayedRequest' = delayedRequest /\ knownSize' = knownSize
        /\ UNCHANGED <<forcedPeriod, unsent, arrivedPacket, packetQueue, queueSize_bytes, outputEvents, linkVars, error>>
    BY <1>0 DEF SchedStep, SchedDint, QueuesIdle, SelectIdle, LinkIdle, SchedTypeOK
  <1>2. outputEvents # <<>> \/ queueSize_bytes[q] > 0
    BY <1>0, <1>1 DEF ChosenHasPackets, AtDemux
  <1>3. SchedInv' /\ SchedTypeOK' /\ DelayedOnlyWhenEmpty'
    BY <1>0, <1>1, DintPreserves DEF SchedInv
  <1> HIDE DEF q
  <1>4. TypeOK'
    BY <1>0, <1>1, <1>3 DEF TypeOK, linkVars
  <1>5. CounterExact' /\ OnlyPreemptionThrows' /\ LinkTimed' /\ LinkFirst' /\ ChosenHasPackets'
    BY <1>0, <1>1 DEF CounterExact, OnlyPreemptionThrows, LinkTimed, LinkFirst, ChosenHasPackets, linkVars
  <1>6. ASSUME NEW r \in Queue
        PROVE  /\ serverstate'[r] = IF r = q THEN "SERVERWAITING" ELSE serverstate[r]
               /\ mystate'[r] = IF r = q THEN "READYTOEMIT" ELSE mystate[r]
               /\ queueNext'[r] = IF r = q /\ queueSize_bytes[q] > 0 THEN "now" ELSE queueNext[r]
    BY <1>0, <1>1 DEF TypeOK
  <1>7. WillReport' /\ WillAnswer'
    BY <1>0, <1>1, <1>6 DEF WillReport, WillAnswer, CanEmit
  <1>8. OneRequest'
    BY <1>0, <1>1, <1>6 DEF OneRequest, AtLink, AtSched, Parked, AtQueue, AtDemux, linkVars
  <1>9. RequestNotLost'
    BY <1>1, <1>2, <1>6 DEF RequestNotLost, CanEmit, AtDemux
  <1>10. QueuesAsked'
    BY <1>0, <1>1, <1>2, <1>6 DEF QueuesAsked, OneRequest, AtQueue, AtSched, AtDemux
  <1> QED
    BY <1>3, <1>4, <1>5, <1>7, <1>8, <1>9, <1>10 DEF PortIInv

LEMMA DemuxStepPreserves == PortIInv /\ DemuxStep => PortIInv'
  <1> SUFFICES ASSUME PortIInv, DemuxStep PROVE PortIInv'
    OBVIOUS
  <1>0. /\ TypeOK /\ SchedTypeOK /\ DelayedOnlyWhenEmpty /\ CounterExact /\ OneRequest /\ OnlyPreemptionThrows
        /\ LinkTimed /\ LinkFirst /\ WillReport /\ WillAnswer /\ ChosenHasPackets /\ RequestNotLost /\ QueuesAsked
    BY DEF PortIInv, TypeOK
  <1>1. CASE linkState # "WAITING_NEXT_JOB"
    <2>1. UNCHANGED <<forcedPeriod, unsent, portVars>> /\ error' = "Link::dext"
      BY <1>1 DEF DemuxStep, Throw
    <2>2. forcedPeriod # "infinite"
      BY <1>0, <1>1 DEF DemuxStep, OneRequest, AtLink, AtDemux
    <2>3. TypeOK' /\ OnlyPreemptionThrows'
      BY <1>0, <2>1, <2>2 DEF TypeOK, portVars, queueVars, schedVars, requestVars, linkVars, SchedTypeOK, OnlyPreemptionThrows
    <2> QED
      BY <2>1, <2>3, PortAtRest DEF portVars
  <1>2. CASE linkState = "WAITING_NEXT_JOB"
    <2>1. /\ outputEvents # <<>> /\ schedNext # "now"
          /\ incomingPacket' = Head(outputEvents) /\ outputEvents' = Tail(outputEvents)
          /\ linkState' = "PROCESSING" /\ linkNext' = "later"
          /\ UNCHANGED <<forcedPeriod, unsent, arrivedPacket, queueVars, schedVars, delivered, error>>
      BY <1>2 DEF DemuxStep, SchedIdle
    <2>2. Head(outputEvents) \in Packet \X Queue /\ Tail(outputEvents) \in Seq(Packet \X Queue)
      BY <1>0, <2>1 DEF TypeOK
    <2>3. TypeOK'
      BY <1>0, <2>1, <2>2 DEF TypeOK, queueVars, schedVars, requestVars, SchedTypeOK
    <2>4. LinkTimed' /\ LinkFirst'
      BY <2>1, <2>2 DEF LinkTimed, LinkFirst
    <2>5. Len(outputEvents) = 1 => Tail(outputEvents) = <<>>
      <3>1. outputEvents \in Seq(Packet \X Queue)
        BY <1>0 DEF TypeOK
      <3> QED
        BY <3>1, TailOfSingle
    <2>6. OneRequest'
      BY <1>0, <2>1, <2>5 DEF OneRequest, AtLink, AtSched, Parked, AtQueue, AtDemux, queueVars, schedVars, requestVars
    <2>7. ChosenHasPackets' /\ RequestNotLost'
      BY <2>1 DEF ChosenHasPackets, RequestNotLost, AtLink, schedVars, requestVars
    <2>8. /\ CounterExact' /\ DelayedOnlyWhenEmpty' /\ OnlyPreemptionThrows'
          /\ WillReport' /\ WillAnswer' /\ QueuesAsked'
      BY <1>0, <2>1 DEF CounterExact, DelayedOnlyWhenEmpty, OnlyPreemptionThrows, WillReport, WillAnswer, QueuesAsked,
                        CanEmit, AtQueue, queueVars, schedVars, requestVars
    <2> QED
      BY <2>3, <2>4, <2>6, <2>7, <2>8 DEF PortIInv
  <1> QED
    BY <1>1, <1>2

LEMMA TimePassesPreserves == ASSUME PortIInv, TransmissionEnds \/ \E q \in Queue : ForcedPeriodEnds(q) PROVE PortIInv'
  <1>0. /\ TypeOK /\ SchedTypeOK /\ DelayedOnlyWhenEmpty /\ CounterExact /\ OneRequest /\ OnlyPreemptionThrows
        /\ LinkTimed /\ LinkFirst /\ WillReport /\ WillAnswer /\ ChosenHasPackets /\ RequestNotLost /\ QueuesAsked
    BY DEF PortIInv, TypeOK
  <1>1. /\ linkNext # "now" /\ schedNext = "never" /\ outputEvents = <<>>
        /\ \A q \in Queue : queueNext[q] = "later" /\ knownSize[q] = queueSize_bytes[q]
    BY <1>0 DEF TransmissionEnds, ForcedPeriodEnds, Quiescent, SchedIdle, QueuesIdle, SelectIdle, LinkIdle,
                TypeOK, SchedTypeOK, WillReport
  <1>2. CASE TransmissionEnds
    <2>1. /\ linkNext = "later" /\ linkNext' = "now"
          /\ UNCHANGED <<forcedPeriod, unsent, arrivedPacket, queueVars, schedVars, outputEvents,
                         linkState, incomingPacket, delivered, error>>
      BY <1>2 DEF TransmissionEnds
    <2>2. TypeOK'
      BY <1>0, <2>1 DEF TypeOK, queueVars, schedVars, requestVars, SchedTypeOK
    <2>3. LinkTimed' /\ LinkFirst'
      BY <1>0, <1>1, <2>1 DEF LinkTimed, LinkFirst, queueVars, schedVars, requestVars
    <2>4. /\ CounterExact' /\ DelayedOnlyWhenEmpty' /\ OnlyPreemptionThrows'
          /\ WillReport' /\ WillAnswer' /\ QueuesAsked'
      BY <1>0, <2>1 DEF CounterExact, DelayedOnlyWhenEmpty, OnlyPreemptionThrows, WillReport, WillAnswer, QueuesAsked,
                        CanEmit, AtQueue, queueVars, schedVars, requestVars
    <2>5. OneRequest' /\ ChosenHasPackets' /\ RequestNotLost'
      BY <1>0, <2>1 DEF OneRequest, ChosenHasPackets, RequestNotLost, CanEmit, AtLink, AtSched, Parked, AtQueue,
                        AtDemux, queueVars, schedVars, requestVars
    <2> QED
      BY <2>2, <2>3, <2>4, <2>5 DEF PortIInv
  <1>3. ASSUME NEW q \in Queue, ForcedPeriodEnds(q) PROVE PortIInv'
    <2>1. /\ forcedPeriod = "finite" /\ queueNext' = [queueNext EXCEPT ![q] = "now"]
          /\ UNCHANGED <<forcedPeriod, unsent, arrivedPacket, packetQueue, queueSize_bytes, mystate, serverstate,
                         schedVars, outputEvents, linkVars, error>>
      BY <1>3 DEF ForcedPeriodEnds
    <2>2. TypeOK'
      BY SMTT(30), <1>0, <2>1 DEF TypeOK, schedVars, requestVars, linkVars, SchedTypeOK
    <2>3. OneRequest' /\ OnlyPreemptionThrows' /\ QueuesAsked'
      BY <2>1 DEF OneRequest, OnlyPreemptionThrows, QueuesAsked
    <2>4. CounterExact' /\ DelayedOnlyWhenEmpty' /\ LinkTimed' /\ LinkFirst' /\ ChosenHasPackets'
      BY <1>0, <1>1, <2>1 DEF CounterExact, DelayedOnlyWhenEmpty, LinkTimed, LinkFirst, ChosenHasPackets, AtDemux,
                              schedVars, requestVars, linkVars
    <2>5. WillReport' /\ WillAnswer' /\ RequestNotLost'
      BY <1>0, <1>1, <2>1 DEF TypeOK, WillReport, WillAnswer, RequestNotLost, CanEmit, AtLink, AtSched, Parked, AtDemux,
                              schedVars, requestVars, linkVars
    <2> QED
      BY <2>2, <2>3, <2>4, <2>5 DEF PortIInv
  <1> QED
    BY <1>2, <1>3

LEMMA NextPortIInv == PortIInv /\ [Next]_vars => PortIInv'
  <1> SUFFICES ASSUME PortIInv, [Next]_vars PROVE PortIInv'
    OBVIOUS
  <1>1. ASSUME NEW q \in Queue, QueueStep(q) PROVE PortIInv'
    BY <1>1, WakeUpPreserves, NotifySizePreserves, EmitPacketPreserves, EmitNothingPreserves DEF QueueStep
  <1>2. CASE UNCHANGED vars
    <2>a. TypeOK /\ OnlyPreemptionThrows
      BY DEF PortIInv
    <2>b. UNCHANGED <<forcedPeriod, unsent, arrivedPacket, packetQueue, queueSize_bytes, queueNext, mystate,
                      serverstate, schedVars, outputEvents, linkVars, error>>
      BY <1>2 DEF vars, portVars, queueVars
    <2>c. TypeOK'
      BY <2>a, <2>b DEF TypeOK, schedVars, requestVars, linkVars, SchedTypeOK
    <2>1. TypeOK' /\ OnlyPreemptionThrows'
      BY <2>a, <2>b, <2>c DEF OnlyPreemptionThrows
    <2> QED
      BY <1>2, <2>1, PortAtRest DEF vars, portVars
  <1> QED
    BY <1>1, <1>2, ArrivePreserves, LinkStepPreserves, SelectStepPreserves, SchedStepPreserves, DemuxStepPreserves,
       TimePassesPreserves DEF Next, Engine

-----------------------------------------------------------------------------
(* When time is about to advance no queue has anything left to report.     *)
LEMMA InformedAtRest == PortIInv => SchedulerInformed
  <1> SUFFICES ASSUME PortIInv, Quiescent PROVE knownSize = queueSize_bytes
    BY DEF SchedulerInformed
  <1>1. \A q \in Queue : knownSize[q] = queueSize_bytes[q]
    BY DEF PortIInv, WillReport, Quiescent, SchedIdle, QueuesIdle
  <1> QED
    BY <1>1 DEF PortIInv, TypeOK, SchedTypeOK

(* Whatever the queues, weights, classes and capacities of a router's      *)
(* port: one request circulates between link, scheduler, queues and        *)
(* Vector2Scalar, the scheduler knows the queues' sizes whenever time      *)
(* passes, their byte counters are exact, and without forced periods only  *)
(* PacketPrioritySelect::dext throws.                                      *)
THEOREM EgressInvariant == Spec => []EgressInv
  <1>1. PortIInv => EgressInv
    BY InformedAtRest DEF PortIInv, EgressInv
  <1> QED
    BY <1>1, InitPortIInv, NextPortIInv, PTL DEF Spec

(* The port never lets time pass with an idle link and a queued packet,    *)
(* with or without forced periods.                                         *)
THEOREM NeverIdles == Spec => []WorkConserving
  <1>1. PortIInv => WorkConserving
    <2> SUFFICES ASSUME PortIInv, Quiescent, linkState = "WAITING_NEXT_JOB", NEW q \in Queue
                 PROVE  packetQueue[q] = <<>>
      BY DEF WorkConserving
    <2>1. Parked
      BY DEF PortIInv, RequestNotLost, WillAnswer, AtLink, AtSched, AtDemux, Quiescent, SchedIdle, QueuesIdle
    <2>2. queueSize_bytes[q] = 0
      BY <2>1 DEF PortIInv, DelayedOnlyWhenEmpty, Parked, WillReport, Quiescent, SchedIdle, QueuesIdle
    <2>3. packetQueue[q] \in Seq(Packet) /\ Bytes[packetQueue[q]] = 0
      BY <2>2 DEF PortIInv, TypeOK, CounterExact
    <2> SUFFICES ASSUME packetQueue[q] # <<>> PROVE FALSE
      OBVIOUS
    <2>4. /\ Bytes[Tail(packetQueue[q])] = Bytes[packetQueue[q]] - Size[Head(packetQueue[q])]
          /\ Size[Head(packetQueue[q])] \in Nat \ {0} /\ Bytes[Tail(packetQueue[q])] \in Nat
      BY <2>3, BytesOfTail
    <2> QED
      BY <2>3, <2>4
  <1> QED
    BY <1>1, InitPortIInv, NextPortIInv, PTL DEF Spec

-----------------------------------------------------------------------------
(* The refinement: each queue, with the answers and the packet on the link *)
(* that come from it, is a FIFO channel.                                   *)

(* Answers[s][q] are the packets of queue q in s, in their order.          *)
LEMMA AnswersAreSeqs ==
  ASSUME NEW s \in Seq(Packet \X Queue)
  PROVE  /\ Answers[s] \in [Queue -> Seq(Packet)]
         /\ Answers[s] = IF s = <<>> THEN [q \in Queue |-> <<>>]
                         ELSE [Answers[Tail(s)] EXCEPT ![Head(s)[2]] = <<Head(s)[1]>> \o @]
  <1> DEFINE P == Packet \X Queue
             V == [Queue -> Seq(Packet)]
             none == [q \in Queue |-> <<>>]
             step == [x \in P \X V |-> [x[2] EXCEPT ![x[1][2]] = <<x[1][1]>> \o @]]
             G == {t \in Seq(P) : Answers[t] \in V}
  <1>1. ASSUME NEW e \in P, NEW a \in V PROVE [a EXCEPT ![e[2]] = <<e[1]>> \o @] \in V
    <2>1. e[1] \in Packet /\ e[2] \in Queue /\ a[e[2]] \in Seq(Packet)
      OBVIOUS
    <2>2. <<e[1]>> \o a[e[2]] \in Seq(Packet)
      BY <2>1
    <2> QED
      BY <2>2
  <1>2. /\ step \in [P \X V -> V]
        /\ \A e \in P, a \in V : step[<<e, a>>] = [a EXCEPT ![e[2]] = <<e[1]>> \o @]
    <2> HIDE DEF P, V
    <2> QED
      BY <1>1
  <1>3. none \in V
    OBVIOUS
  <1>4. PICK F : IsRecursion(P, V, none, step, F)
    <2> HIDE DEF P, V, none, step
    <2> QED
      BY <1>2, <1>3, RecursionExists
  <1>5. F = [t \in Seq(P) |-> IF t = <<>> THEN none ELSE [F[Tail(t)] EXCEPT ![Head(t)[2]] = <<Head(t)[1]>> \o @]]
    <2> HIDE DEF none
    <2>1. F \in [Seq(P) -> V] /\ \A t \in Seq(P) : F[t] = IF t = <<>> THEN none ELSE step[<<Head(t), F[Tail(t)]>>]
      BY <1>4 DEF IsRecursion
    <2> HIDE DEF P, V, step
    <2>2. ASSUME NEW t \in Seq(P), t # <<>>
          PROVE  step[<<Head(t), F[Tail(t)]>>] = [F[Tail(t)] EXCEPT ![Head(t)[2]] = <<Head(t)[1]>> \o @]
      <3>1. Head(t) \in P /\ Tail(t) \in Seq(P)
        BY <2>2
      <3>2. F[Tail(t)] \in V
        BY <2>1, <3>1, Zenon
      <3> HIDE DEF G
      <3> QED
        BY <1>2, <3>1, <3>2, Zenon
    <2>3. \A t \in Seq(P) : F[t] = IF t = <<>> THEN none ELSE [F[Tail(t)] EXCEPT ![Head(t)[2]] = <<Head(t)[1]>> \o @]
      BY <2>1, <2>2
    <2> QED
      BY <2>1, <2>3
  <1>6. Answers = [t \in Seq(P) |-> IF t = <<>> THEN none
                                    ELSE [Answers[Tail(t)] EXCEPT ![Head(t)[2]] = <<Head(t)[1]>> \o @]]
    BY <1>5, Zenon DEF Answers
  <1>7. \A t \in Seq(P) : Answers[t] = IF t = <<>> THEN none
                                       ELSE [Answers[Tail(t)] EXCEPT ![Head(t)[2]] = <<Head(t)[1]>> \o @]
    <2> HIDE DEF P, none
    <2> QED
      BY <1>6
  <1>8. <<>> \in G
    <2>1. <<>> \in Seq(P)
      OBVIOUS
    <2> HIDE DEF P, none, V
    <2>2. Answers[<<>>] = none
      BY <1>7, <2>1, Zenon
    <2> QED
      BY <1>3, <2>1, <2>2
  <1>9. ASSUME NEW t \in Seq(P), t # <<>>, Tail(t) \in G PROVE t \in G
    <2>1. Head(t) \in P /\ Answers[Tail(t)] \in V
      BY <1>9
    <2> HIDE DEF P, none, V
    <2>2. [Answers[Tail(t)] EXCEPT ![Head(t)[2]] = <<Head(t)[1]>> \o @] \in V
      BY <1>1, <2>1
    <2> QED
      BY <1>7, <1>9, <2>2
  <1>10. Seq(P) \subseteq G
    <2> HIDE DEF P, G
    <2> QED
      BY <1>8, <1>9, SeqInduction
  <1> QED
    BY <1>7, <1>10

(* One more answer adds its packet behind those of its queue.              *)
LEMMA AnswersOfAppend ==
  ASSUME NEW s \in Seq(Packet \X Queue), NEW p \in Packet, NEW r \in Queue, NEW q \in Queue
  PROVE  Answers[Append(s, <<p, r>>)][q] = IF q = r THEN Append(Answers[s][q], p) ELSE Answers[s][q]
  <1> DEFINE P == Packet \X Queue
             e == <<p, r>>
             More(t) == IF q = r THEN Append(Answers[t][q], p) ELSE Answers[t][q]
             G == {t \in Seq(P) : Answers[Append(t, e)][q] = More(t)}
  <1>0. e \in P
    OBVIOUS
  <1>1. ASSUME NEW t \in Seq(P), t # <<>> => Tail(t) \in G PROVE t \in G
    <2>1. Append(t, e) \in Seq(P) /\ Append(t, e) # <<>>
      <3> HIDE DEF P, e, G
      <3> QED
        BY <1>0, EndsOfAppend
    <2>2. CASE t = <<>>
      <3>1. Head(Append(t, e)) = e /\ Tail(Append(t, e)) = <<>> /\ e[1] = p /\ e[2] = r
        <4>1. e[1] = p /\ e[2] = r
          OBVIOUS
        <4> HIDE DEF P, e, G
        <4> QED
          BY <1>0, <2>2, <4>1, EndsOfAppend
      <3>2. Answers[t] = [x \in Queue |-> <<>>]
        BY <2>2, AnswersAreSeqs
      <3>3. Answers[Append(t, e)] = [Answers[t] EXCEPT ![r] = <<p>> \o @]
        <4>1. Answers[Append(t, e)] = [Answers[Tail(Append(t, e))] EXCEPT ![Head(Append(t, e))[2]] = <<Head(Append(t, e))[1]>> \o @]
          BY <2>1, AnswersAreSeqs
        <4> HIDE DEF e
        <4> QED
          BY <2>2, <3>1, <4>1
      <3> HIDE DEF e
      <3>4. Answers[Append(t, e)][q] = More(t)
        BY <3>2, <3>3
      <3> QED
        BY <3>4
    <2>3. CASE t # <<>>
      <3>1. /\ Head(Append(t, e)) = Head(t) /\ Tail(Append(t, e)) = Append(Tail(t), e)
            /\ Head(t) \in P /\ Tail(t) \in Seq(P)
        <4> HIDE DEF P, e, G
        <4> QED
          BY <1>0, <2>3, EndsOfAppend
      <3> DEFINE h == Head(t)
                 u == Answers[Tail(t)]
                 v == Answers[Append(Tail(t), e)]
      <3>2. h[1] \in Packet /\ h[2] \in Queue
        BY <3>1
      <3>3. Answers[t] = [u EXCEPT ![h[2]] = <<h[1]>> \o @]
        BY <2>3, AnswersAreSeqs
      <3>4. Answers[Append(t, e)] = [v EXCEPT ![h[2]] = <<h[1]>> \o @]
        <4>1. Answers[Append(t, e)] = [Answers[Tail(Append(t, e))] EXCEPT ![Head(Append(t, e))[2]] = <<Head(Append(t, e))[1]>> \o @]
          BY <2>1, AnswersAreSeqs
        <4> HIDE DEF e
        <4> QED
          BY <3>1, <4>1
      <3>5. v[q] = IF q = r THEN Append(u[q], p) ELSE u[q]
        BY <1>1, <2>3
      <3>6. u \in [Queue -> Seq(Packet)] /\ v \in [Queue -> Seq(Packet)]
        <4>1. Append(Tail(t), e) \in Seq(P)
          <5> HIDE DEF P, e, G
          <5> QED
            BY <1>0, <3>1, EndsOfAppend
        <4> QED
          BY <3>1, <4>1, AnswersAreSeqs
      <3>7. <<h[1]>> \o Append(u[q], p) = Append(<<h[1]>> \o u[q], p)
        <4>1. <<h[1]>> \in Seq(Packet) /\ u[q] \in Seq(Packet)
          BY <3>2, <3>6
        <4> HIDE DEF h, u
        <4> QED
          BY <4>1, AppendBehind
      <3> HIDE DEF h, u, v, e
      <3>8. /\ Answers[t][q] = IF q = h[2] THEN <<h[1]>> \o u[q] ELSE u[q]
            /\ Answers[Append(t, e)][q] = IF q = h[2] THEN <<h[1]>> \o v[q] ELSE v[q]
        BY <3>2, <3>3, <3>4, <3>6
      <3>9. CASE q = r
        BY <3>5, <3>7, <3>8, <3>9
      <3>10. CASE q # r
        BY <3>5, <3>8, <3>10
      <3> QED
        BY <3>9, <3>10
    <2> QED
      BY <2>2, <2>3
  <1>2. Seq(P) \subseteq G
    <2>1. <<>> \in Seq(P)
      OBVIOUS
    <2> HIDE DEF P, G
    <2>2. <<>> \in G
      BY <1>1, <2>1
    <2> QED
      BY <1>1, <2>2, SeqInduction
  <1> QED
    BY <1>2

(* What the channel of queue q shows is well typed.                        *)
LEMMA ContentsTyped ==
  ASSUME TypeOK, LinkTimed, NEW q \in Queue
  PROVE  /\ OnWire(q) \in Seq(Packet) /\ Answers[outputEvents][q] \in Seq(Packet)
         /\ packetQueue[q] \in Seq(Packet)
         /\ OnWire(q) \o Answers[outputEvents][q] \in Seq(Packet)
  <1>1. OnWire(q) \in Seq(Packet)
    <2>1. CASE linkState = "PROCESSING"
      <3>1. incomingPacket[1] \in Packet
        BY <2>1 DEF LinkTimed
      <3> QED
        BY <3>1 DEF OnWire
    <2>2. CASE linkState # "PROCESSING"
      BY <2>2 DEF OnWire
    <2> QED
      BY <2>1, <2>2
  <1>2. Answers[outputEvents][q] \in Seq(Packet)
    <2>1. Answers[outputEvents] \in [Queue -> Seq(Packet)]
      BY AnswersAreSeqs DEF TypeOK
    <2> QED
      BY <2>1
  <1>3. packetQueue[q] \in Seq(Packet)
    BY DEF TypeOK
  <1> QED
    BY <1>1, <1>2, <1>3

(* An arriving packet enters the channels of the queues that accept it.    *)
LEMMA SelectRefines ==
  ASSUME PortIInv, SelectStep, NEW q \in Queue
  PROVE  /\ delivered'[q] = delivered[q]
         /\ Contents(q)' = Contents(q) \/ Contents(q)' = Append(Contents(q), arrivedPacket)
  <1>1. TypeOK /\ LinkTimed
    BY DEF PortIInv
  <1> DEFINE p == arrivedPacket
             accepting == {r \in Addressed(Tos[p]) : Fits(r, p)}
  <1>2. /\ p \in Packet
        /\ packetQueue' = [r \in Queue |-> IF r \in accepting THEN Append(packetQueue[r], p) ELSE packetQueue[r]]
        /\ UNCHANGED <<outputEvents, linkVars>>
    BY <1>1 DEF SelectStep, TypeOK, queuePacket
  <1> HIDE DEF p, accepting
  <1>3. /\ OnWire(q)' = OnWire(q) /\ Answers[outputEvents]'[q] = Answers[outputEvents][q]
        /\ delivered'[q] = delivered[q]
    BY <1>2 DEF OnWire, linkVars
  <1>4. CASE q \in accepting
    <2>1. packetQueue'[q] = Append(packetQueue[q], p)
      BY <1>2, <1>4
    <2> DEFINE front == OnWire(q) \o Answers[outputEvents][q]
    <2>2. Contents(q) = front \o packetQueue[q] /\ Contents(q)' = front \o Append(packetQueue[q], p)
      BY <1>3, <2>1 DEF Contents
    <2>3. front \in Seq(Packet) /\ packetQueue[q] \in Seq(Packet)
      BY <1>1, ContentsTyped
    <2> HIDE DEF front
    <2>4. Contents(q)' = Append(Contents(q), p)
      BY <1>2, <2>2, <2>3, AppendBehind
    <2> QED
      BY <1>2, <1>3, <2>4 DEF p
  <1>5. CASE q \notin accepting
    <2>1. packetQueue'[q] = packetQueue[q]
      BY <1>2, <1>5
    <2> QED
      BY <1>3, <2>1 DEF Contents
  <1> QED
    BY <1>4, <1>5

(* A packet that goes from its queue to Vector2Scalar stays in its place   *)
(* in the channel.                                                         *)
LEMMA EmitRefines ==
  ASSUME PortIInv, NEW r \in Queue, EmitPacket(r), NEW q \in Queue
  PROVE  delivered'[q] = delivered[q] /\ Contents(q)' = Contents(q)
  <1>1. TypeOK /\ LinkTimed
    BY DEF PortIInv
  <1> DEFINE p == Head(packetQueue[r])
             a == Answers[outputEvents][q]
  <1>2. packetQueue[r] \in Seq(Packet) /\ packetQueue[r] # <<>>
    <2>1. packetQueue[r] \in Seq(Packet) /\ Bytes[packetQueue[r]] > 0
      BY DEF PortIInv, TypeOK, CounterExact, EmitPacket, CanEmit
    <2> QED
      BY <2>1, BytesOfNothing
  <1>3. /\ outputEvents' = Append(outputEvents, <<p, r>>)
        /\ packetQueue' = [packetQueue EXCEPT ![r] = Tail(packetQueue[r])]
        /\ UNCHANGED linkVars
    BY DEF EmitPacket
  <1>4. p \in Packet /\ Tail(packetQueue[r]) \in Seq(Packet) /\ outputEvents \in Seq(Packet \X Queue)
    BY <1>1, <1>2 DEF TypeOK
  <1>5. OnWire(q)' = OnWire(q) /\ delivered'[q] = delivered[q]
    BY <1>3 DEF OnWire, linkVars
  <1> HIDE DEF p
  <1>6. Answers[outputEvents'][q] = IF q = r THEN Append(a, p) ELSE a
    <2> DEFINE s == outputEvents
    <2>1. s \in Seq(Packet \X Queue) /\ p \in Packet /\ outputEvents' = Append(s, <<p, r>>)
      BY <1>3, <1>4
    <2> HIDE DEF s
    <2>2. Answers[Append(s, <<p, r>>)][q] = IF q = r THEN Append(Answers[s][q], p) ELSE Answers[s][q]
      BY <2>1, AnswersOfAppend
    <2> QED
      BY <2>1, <2>2 DEF s
  <1>7. OnWire(q) \in Seq(Packet) /\ a \in Seq(Packet) /\ packetQueue[q] \in Seq(Packet)
    BY <1>1, ContentsTyped
  <1>8. CASE q = r
    <2>1. packetQueue'[q] = Tail(packetQueue[q]) /\ p = Head(packetQueue[q]) /\ packetQueue[q] # <<>>
      BY <1>1, <1>2, <1>3, <1>8 DEF TypeOK, p
    <2>2. Contents(q)' = (OnWire(q) \o Append(a, p)) \o Tail(packetQueue[q])
      BY <1>5, <1>6, <1>8, <2>1 DEF Contents
    <2>3. Contents(q) = (OnWire(q) \o a) \o packetQueue[q]
      BY DEF Contents
    <2> HIDE DEF a
    <2>4. (OnWire(q) \o Append(a, p)) \o Tail(packetQueue[q]) = (OnWire(q) \o a) \o packetQueue[q]
      <3>1. OnWire(q) \o Append(a, p) = Append(OnWire(q) \o a, p) /\ OnWire(q) \o a \in Seq(Packet)
        BY <1>4, <1>7, AppendBehind
      <3> QED
        BY <1>4, <1>7, <2>1, <3>1, HeadMovesBehind
    <2> QED
      BY <1>5, <2>2, <2>3, <2>4
  <1>9. CASE q # r
    <2>1. packetQueue'[q] = packetQueue[q]
      BY <1>1, <1>3, <1>9 DEF TypeOK
    <2>2. Answers[outputEvents'][q] = Answers[outputEvents][q]
      BY <1>6, <1>9
    <2> QED
      BY <1>5, <2>1, <2>2 DEF Contents
  <1> QED
    BY <1>8, <1>9

(* So does the packet that Vector2Scalar passes on to the link.            *)
LEMMA DemuxRefines ==
  ASSUME PortIInv, DemuxStep, NEW q \in Queue
  PROVE  delivered'[q] = delivered[q] /\ Contents(q)' = Contents(q)
  <1>1. TypeOK /\ LinkTimed
    BY DEF PortIInv
  <1>2. CASE linkState # "WAITING_NEXT_JOB"
    BY <1>2 DEF DemuxStep, Throw, portVars, queueVars, linkVars, Contents, OnWire
  <1>3. CASE linkState = "WAITING_NEXT_JOB"
    <2> DEFINE e == Head(outputEvents)
               u == Answers[Tail(outputEvents)]
    <2>1. /\ outputEvents # <<>> /\ outputEvents' = Tail(outputEvents)
          /\ incomingPacket' = e /\ linkState' = "PROCESSING"
          /\ packetQueue' = packetQueue /\ delivered' = delivered
      BY <1>3 DEF DemuxStep, queueVars
    <2>2. /\ outputEvents \in Seq(Packet \X Queue) /\ e \in Packet \X Queue
          /\ Tail(outputEvents) \in Seq(Packet \X Queue)
      BY <1>1, <2>1 DEF TypeOK
    <2>3. Answers[outputEvents] = [u EXCEPT ![e[2]] = <<e[1]>> \o @]
      BY <2>1, <2>2, AnswersAreSeqs
    <2>4. u \in [Queue -> Seq(Packet)]
      BY <2>2, AnswersAreSeqs
    <2> HIDE DEF e
    <2>5. e[1] \in Packet /\ e[2] \in Queue
      BY <2>2
    <2>6. OnWire(q) = <<>> /\ OnWire(q)' = IF e[2] = q THEN <<e[1]>> ELSE <<>>
      BY <1>3, <2>1 DEF OnWire
    <2>7. Answers[outputEvents'][q] = u[q] /\ u[q] \in Seq(Packet)
      BY <2>1, <2>4
    <2> HIDE DEF u
    <2>8. Answers[outputEvents][q] = IF e[2] = q THEN <<e[1]>> \o u[q] ELSE u[q]
      BY <2>3, <2>4, <2>5
    <2>9. Answers[outputEvents][q] \in Seq(Packet)
      BY <1>1, ContentsTyped
    <2>10. OnWire(q)' \o Answers[outputEvents'][q] = OnWire(q) \o Answers[outputEvents][q]
      <3>1. <<>> \o u[q] = u[q] /\ <<>> \o Answers[outputEvents][q] = Answers[outputEvents][q]
        BY <2>7, <2>9, EmptyFront
      <3>2. CASE e[2] = q
        BY <2>6, <2>7, <2>8, <3>1, <3>2
      <3>3. CASE e[2] # q
        BY <2>6, <2>7, <2>8, <3>1, <3>3
      <3> QED
        BY <3>2, <3>3
    <2> QED
      BY <2>1, <2>10 DEF Contents
  <1> QED
    BY <1>2, <1>3

(* The link delivers the oldest packet of the channel it came from.        *)
LEMMA LinkRefines ==
  ASSUME PortIInv, LinkStep, NEW q \in Queue
  PROVE  \/ delivered'[q] = delivered[q] /\ Contents(q)' = Contents(q)
         \/ /\ Contents(q) # <<>>
            /\ delivered'[q] = Append(delivered[q], Head(Contents(q)))
            /\ Contents(q)' = Tail(Contents(q))
  <1>1. TypeOK /\ LinkTimed /\ LinkFirst
    BY DEF PortIInv
  <1>2. CASE linkState = "WAITING_NEXT_JOB" \/ RequestOutstanding
    BY <1>2 DEF LinkStep, Throw, portVars, queueVars, linkVars, Contents, OnWire
  <1>3. CASE linkState # "WAITING_NEXT_JOB" /\ ~RequestOutstanding
    <2>1. /\ linkState' = "WAITING_NEXT_JOB" /\ outputEvents' = outputEvents /\ packetQueue' = packetQueue
          /\ IF linkState = "PROCESSING"
             THEN delivered' = [delivered EXCEPT ![incomingPacket[2]] = Append(@, incomingPacket[1])]
             ELSE UNCHANGED delivered
      BY <1>3 DEF LinkStep, queueVars
    <2>2. OnWire(q)' = <<>>
      BY <2>1 DEF OnWire
    <2>3. CASE linkState = "PROCESSING" /\ incomingPacket[2] = q
      <3> DEFINE p == incomingPacket[1]
                 rest == Answers[outputEvents][q] \o packetQueue[q]
      <3>1. p \in Packet /\ OnWire(q) = <<p>> /\ delivered'[q] = Append(delivered[q], p)
        BY <1>1, <2>1, <2>3 DEF OnWire, LinkTimed, TypeOK
      <3>2. Answers[outputEvents][q] \in Seq(Packet) /\ packetQueue[q] \in Seq(Packet)
        BY <1>1, ContentsTyped
      <3> HIDE DEF p
      <3>3. (<<p>> \o Answers[outputEvents][q]) \o packetQueue[q] = <<p>> \o rest /\ rest \in Seq(Packet)
        <4>1. <<p>> \in Seq(Packet)
          BY <3>1
        <4>2. rest \in Seq(Packet)
          BY <3>2
        <4>3. (<<p>> \o Answers[outputEvents][q]) \o packetQueue[q] = <<p>> \o (Answers[outputEvents][q] \o packetQueue[q])
          <5>1. \A a, b, c \in Seq(Packet) : (a \o b) \o c = a \o (b \o c)
            BY ConcatAssociative
          <5> HIDE DEF rest
          <5> QED
            BY <3>2, <4>1, <5>1, Zenon
        <4> QED
          BY <4>2, <4>3
      <3>4. <<>> \o Answers[outputEvents][q] = Answers[outputEvents][q]
        BY <3>2, EmptyFront
      <3>5. Contents(q) = <<p>> \o rest /\ Contents(q)' = rest
        BY <2>1, <2>2, <3>1, <3>3, <3>4 DEF Contents
      <3> HIDE DEF rest
      <3> QED
        BY <3>1, <3>3, <3>5, FrontOfWire
    <2>4. CASE ~(linkState = "PROCESSING" /\ incomingPacket[2] = q)
      <3>1. OnWire(q) = <<>> /\ delivered'[q] = delivered[q]
        BY <1>1, <2>1, <2>4 DEF OnWire, TypeOK, LinkTimed
      <3> QED
        BY <2>1, <2>2, <3>1 DEF Contents
    <2> QED
      BY <2>3, <2>4
  <1> QED
    BY <1>2, <1>3

(* Each step of the port is a step of the channels, of every lane for      *)
(* itself, or changes nothing that they show.                              *)
LEMMA StepRefines == PortIInv /\ [Next]_vars => [Channels!Next]_(Channels!chanVars)
  <1> SUFFICES ASSUME PortIInv, [Next]_vars, NEW q \in Queue
               PROVE  Channels!Put(q) \/ Channels!Deliver(q) \/ Channels!Idle(q)
    BY DEF Channels!Next
  <1>i. ASSUME delivered'[q] = delivered[q], Contents(q)' = Contents(q) PROVE Channels!Idle(q)
    BY <1>i DEF Channels!Idle
  <1>1. CASE LinkStep
    <2>1. CASE delivered'[q] = delivered[q] /\ Contents(q)' = Contents(q)
      BY <1>i, <2>1
    <2>2. CASE /\ Contents(q) # <<>>
               /\ delivered'[q] = Append(delivered[q], Head(Contents(q)))
               /\ Contents(q)' = Tail(Contents(q))
      BY <2>2 DEF Channels!Deliver
    <2> QED
      BY <1>1, <2>1, <2>2, LinkRefines
  <1>2. CASE SelectStep
    <2>1. CASE delivered'[q] = delivered[q] /\ Contents(q)' = Contents(q)
      BY <1>i, <2>1
    <2>2. CASE delivered'[q] = delivered[q] /\ Contents(q)' = Append(Contents(q), arrivedPacket)
      <3>1. arrivedPacket \in Packet
        BY <1>2 DEF PortIInv, TypeOK, SelectStep
      <3> QED
        BY <2>2, <3>1 DEF Channels!Put
    <2> QED
      BY <1>2, <2>1, <2>2, SelectRefines
  <1>3. CASE DemuxStep
    BY <1>3, <1>i, DemuxRefines
  <1>4. ASSUME NEW r \in Queue, QueueStep(r) PROVE Channels!Idle(q)
    <2>1. CASE EmitPacket(r)
      BY <1>i, <2>1, EmitRefines
    <2>2. CASE WakeUp(r) \/ NotifySize(r) \/ EmitNothing(r)
      BY <1>i, <2>2 DEF WakeUp, NotifySize, EmitNothing, linkVars, Contents, OnWire
    <2> QED
      BY <1>4, <2>1, <2>2 DEF QueueStep
  <1>5. CASE SchedStep \/ TransmissionEnds
    BY <1>5, <1>i DEF SchedStep, TransmissionEnds, queueVars, linkVars, Contents, OnWire
  <1>6. ASSUME NEW r \in Queue, ForcedPeriodEnds(r) PROVE Channels!Idle(q)
    BY <1>6, <1>i DEF ForcedPeriodEnds, linkVars, Contents, OnWire
  <1>7. ASSUME NEW p \in Packet, Arrive(p) PROVE Channels!Idle(q)
    BY <1>7, <1>i DEF Arrive, SelectDext, Throw, portVars, queueVars, linkVars, Contents, OnWire
  <1>8. CASE UNCHANGED vars
    BY <1>8, <1>i DEF vars, portVars, queueVars, linkVars, Contents, OnWire
  <1> QED
    BY <1>1, <1>2, <1>3, <1>4, <1>5, <1>6, <1>7, <1>8 DEF Next, Engine

(* Within each class of service the port neither loses, duplicates nor     *)
(* reorders a packet it accepted, for any number of queues, whatever the   *)
(* weights and the forced period.                                          *)
THEOREM LanesAreFifo == Spec => ImplementsChannels
  <1>1. Init => Channels!Init
    <2> SUFFICES ASSUME Init PROVE Channels!Init
      OBVIOUS
    <2>1. Answers[<<>>] = [q \in Queue |-> <<>>]
      <3>1. <<>> \in Seq(Packet \X Queue)
        OBVIOUS
      <3> QED
        BY <3>1, AnswersAreSeqs
    <2>2. ASSUME NEW q \in Queue PROVE Contents(q) = <<>>
      BY <2>1 DEF Init, QueuesInit, LinkInit, DemuxInit, Contents, OnWire
    <2> QED
      BY <2>2 DEF Init, LinkInit, Channels!Init
  <1> QED
    BY <1>1, InitPortIInv, NextPortIInv, StepRefines, PTL
    DEF Spec, ImplementsChannels, Channels!Spec

(***************************************************************************)
(* The router.                                                             *)
(***************************************************************************)
-----------------------------------------------------------------------------
(* The inductive invariant.                                                *)

(* The table has what was requested, and nothing else.                     *)
TableIInv ==
    /\ routingTable \in [Key -> Seq(Port)]
    /\ requested \subseteq Entry
    /\ \A e \in requested : \E i \in DOMAIN getOutPorts(e.flow, e.node) : getOutPorts(e.flow, e.node)[i] = e.port
    /\ \A k \in Key : \A i \in DOMAIN routingTable[k] :
           \E e \in requested : compareValue(e.flow, e.node) = k /\ e.port = routingTable[k][i]

(* The packets of class q that were handed to the port, in their order.    *)
Lane(q) == delivered[q] \o Contents(q)

RoutingTyped ==
    /\ phase \in {"loading", "running"}
    /\ outputPackets \in Seq(Nat \X Packet)
    /\ lastIndex \in [Flow -> Nat]
    /\ instant \in {"fresh", "stepped"}
    /\ burst \in Nat
    /\ received \in Seq(Packet)
    /\ forwarded \in [Flow -> Seq(Nat)]
    /\ unsent \subseteq Packet
    /\ arrivedPacket \in Packet \cup {NoPacket}
    /\ \A q \in Queue : delivered[q] \in Seq(Packet) /\ Contents(q) \in Seq(Packet)

(* Nothing has moved while the table is being loaded.                      *)
NothingMoved ==
    phase = "loading" => /\ outputPackets = <<>> /\ arrivedPacket = NoPacket
                         /\ \A q \in Queue : Lane(q) = <<>>
                         /\ lastIndex = [f \in Flow |-> 0] /\ forwarded = [f \in Flow |-> <<>>]

(* The packets of a lane, the packet in prioritySelect and the packets in  *)
(* Routing were received in this order.                                    *)
Seen(s, p) == \E k \in DOMAIN s : s[k] = p
Before(s, p, r) == \E k, l \in DOMAIN s : k < l /\ s[k] = p /\ s[l] = r

InLine(s, lane, arrived, waiting) ==
    /\ \A i \in DOMAIN lane : Seen(s, lane[i])
    /\ \A i, j \in DOMAIN lane : i < j => Before(s, lane[i], lane[j])
    /\ arrived # NoPacket => Seen(s, arrived) /\ \A i \in DOMAIN lane : Before(s, lane[i], arrived)
    /\ \A k \in DOMAIN waiting :
           /\ Seen(s, waiting[k][2])
           /\ \A i \in DOMAIN lane : Before(s, lane[i], waiting[k][2])
           /\ arrived # NoPacket => Before(s, arrived, waiting[k][2])
    /\ \A k, l \in DOMAIN waiting : k < l => Before(s, waiting[k][2], waiting[l][2])

InOrder == \A q \in Queue : InLine(received, Lane(q), arrivedPacket, outputPackets)

(* Packets are in the port and in Routing because of an entry of the table.*)
FlowsHere == {f \in Flow : \E i \in DOMAIN OutPorts(f) : OutPorts(f)[i] = ThisPort}
ByTheTable ==
    /\ \A q \in Queue : \A i \in DOMAIN Lane(q) : FlowOf[Lane(q)[i]] \in FlowsHere
    /\ arrivedPacket # NoPacket => FlowOf[arrivedPacket] \in FlowsHere
    /\ \A k \in DOMAIN outputPackets :
           /\ FlowOf[outputPackets[k][2]] \in Flow
           /\ outputPackets[k][1] \in DOMAIN OutPorts(FlowOf[outputPackets[k][2]])

(* The entry after i of n.                                                 *)
After(n, i) == IF i >= n THEN 1 ELSE i + 1

(* What has been sent through the entries of a flow is what round robin    *)
(* has sent when its last packet took entry i.                             *)
Turn(sent, i) == \E c \in Nat : \A j \in DOMAIN sent : sent[j] = IF j <= i THEN c + 1 ELSE c

(* A packet of flow f is at k in s; the first one, the last one, the one   *)
(* that follows that at k.                                                 *)
OfFlow(f, s, k)  == k \in DOMAIN s /\ FlowOf[s[k][2]] = f
FirstOf(f, s, k) == OfFlow(f, s, k) /\ \A j \in DOMAIN s : j < k => ~OfFlow(f, s, j)
LastOf(f, s, k)  == OfFlow(f, s, k) /\ \A j \in DOMAIN s : j > k => ~OfFlow(f, s, j)
Follows(f, s, k, l) ==
    OfFlow(f, s, k) /\ OfFlow(f, s, l) /\ k < l /\ \A j \in DOMAIN s : k < j /\ j < l => ~OfFlow(f, s, j)

(* The packets of flow f in s continue where those that were sent ended,   *)
(* and the last of them took the entry last, of n.                         *)
Rotates(f, s, n, last, sent) ==
    /\ sent \in [1 .. n -> Nat] /\ last \in 0 .. n
    /\ (\A k \in DOMAIN s : ~OfFlow(f, s, k)) => Turn(sent, last)
    /\ \A k \in DOMAIN s : FirstOf(f, s, k) => \E i \in 0 .. n : Turn(sent, i) /\ s[k][1] = After(n, i)
    /\ \A k \in DOMAIN s : LastOf(f, s, k) => s[k][1] = last
    /\ \A k, l \in DOMAIN s : Follows(f, s, k, l) => s[l][1] = After(n, s[k][1])

RoundRobin ==
    phase = "running" =>
        \A f \in Flow : Rotates(f, outputPackets, Len(OutPorts(f)), lastIndex[f], forwarded[f])

(* Unless there was a burst, at most one packet is on its way to a port.   *)
BurstCounts ==
    /\ instant = "fresh" => Len(outputPackets) = burst /\ arrivedPacket = NoPacket
    /\ burst <= 1 => Len(outputPackets) <= 1 /\ (arrivedPacket # NoPacket => outputPackets = <<>>)
    /\ PreemptedOnlyByBurst

(* Router::dext's exception leaves the port as it was.                     *)
PortSafe == error # "Router::dext" => PortIInv

RouterIInv ==
    /\ RoutingTyped
    /\ PortSafe
    /\ TableIInv
    /\ NothingMoved
    /\ InOrder
    /\ ByTheTable
    /\ RoundRobin
    /\ BurstCounts

-----------------------------------------------------------------------------
(* The table.                                                              *)

LEMMA AppendFacts ==
  ASSUME NEW S, NEW s \in Seq(S), NEW e \in S
  PROVE  /\ Append(s, e) \in Seq(S) /\ DOMAIN s = 1 .. Len(s) /\ DOMAIN Append(s, e) = 1 .. Len(s) + 1
         /\ Len(s) \in Nat /\ Len(Append(s, e)) = Len(s) + 1
         /\ Append(s, e)[Len(s) + 1] = e
         /\ \A i \in 1 .. Len(s) : Append(s, e)[i] = s[i]
         /\ \A i \in 1 .. Len(s) + 1 : i \in 1 .. Len(s) \/ i = Len(s) + 1
  OBVIOUS

LEMMA KeyOfEntry == \A f \in Flow, n \in Node : compareValue(f, n) \in Key
  BY DEF Key

LEMMA TableInitInv == TableInit => TableIInv
  <1> SUFFICES ASSUME TableInit PROVE TableIInv
    OBVIOUS
  <1>1. routingTable = [k \in Key |-> <<>>] /\ requested = {}
    BY DEF TableInit
  <1>2. routingTable \in [Key -> Seq(Port)]
    BY <1>1
  <1>3. \A k \in Key : DOMAIN routingTable[k] = {}
    BY <1>1
  <1> QED
    BY <1>1, <1>2, <1>3 DEF TableIInv

LEMMA AddEntryKeeps ==
  ASSUME TableIInv, NEW f \in Flow, NEW n \in Node, NEW port \in Port, addEntry(f, n, port)
  PROVE  TableIInv'
  <1> DEFINE k == compareValue(f, n)
             s == routingTable[k]
             e == [flow |-> f, node |-> n, port |-> port]
  <1>1. /\ routingTable \in [Key -> Seq(Port)] /\ requested \subseteq Entry /\ k \in Key /\ s \in Seq(Port)
        /\ e \in Entry /\ requested' = requested \cup {e}
        /\ compareValue(e.flow, e.node) = k /\ e.port = port
    BY KeyOfEntry DEF TableIInv, addEntry, Entry
  <1>2. /\ \A x \in requested : \E i \in DOMAIN routingTable[compareValue(x.flow, x.node)] :
                                    routingTable[compareValue(x.flow, x.node)][i] = x.port
        /\ \A c \in Key : \A i \in DOMAIN routingTable[c] :
               \E x \in requested : compareValue(x.flow, x.node) = c /\ x.port = routingTable[c][i]
    BY DEF TableIInv, getOutPorts
  <1>3. \A x \in requested : compareValue(x.flow, x.node) \in Key
    BY <1>1, KeyOfEntry DEF Entry
  <1>4. CASE AlreadyThere(f, n, port)
    <2>1. routingTable' = routingTable /\ s # <<>> /\ Head(s) = port
      BY <1>4 DEF addEntry, AlreadyThere, getOutPorts
    <2>2. 1 \in DOMAIN s /\ s[1] = port
      BY <1>1, <2>1
    <2> HIDE DEF k, s, e
    <2>3. \A x \in requested' : \E i \in DOMAIN routingTable[compareValue(x.flow, x.node)] :
                                    routingTable[compareValue(x.flow, x.node)][i] = x.port
      BY <1>1, <1>2, <2>2 DEF s
    <2>4. \A c \in Key : \A i \in DOMAIN routingTable[c] :
               \E x \in requested' : compareValue(x.flow, x.node) = c /\ x.port = routingTable[c][i]
      BY <1>1, <1>2
    <2>5. requested' \subseteq Entry
      BY <1>1
    <2> QED
      BY <1>1, <2>1, <2>3, <2>4, <2>5 DEF TableIInv, getOutPorts
  <1>5. CASE ~AlreadyThere(f, n, port)
    <2> DEFINE t == Append(s, port)
    <2>1. routingTable' = [routingTable EXCEPT ![k] = t]
      BY <1>5 DEF addEntry
    <2>2. /\ t \in Seq(Port) /\ DOMAIN s = 1 .. Len(s) /\ DOMAIN t = 1 .. Len(s) + 1 /\ Len(s) \in Nat
          /\ t[Len(s) + 1] = port /\ \A i \in 1 .. Len(s) : t[i] = s[i]
          /\ \A i \in 1 .. Len(s) + 1 : i \in 1 .. Len(s) \/ i = Len(s) + 1
          /\ Len(s) + 1 \in 1 .. Len(s) + 1 /\ \A i \in 1 .. Len(s) : i \in 1 .. Len(s) + 1
      <3>1. s \in Seq(Port)
        BY <1>1
      <3> HIDE DEF s
      <3> QED
        BY <3>1
    <2> HIDE DEF k, e, t
    <2>3. /\ routingTable' \in [Key -> Seq(Port)] /\ routingTable'[k] = t
          /\ \A c \in Key : c # k => routingTable'[c] = routingTable[c]
      BY <1>1, <2>1, <2>2
    <2>4. ASSUME NEW x \in requested'
          PROVE  \E i \in DOMAIN routingTable'[compareValue(x.flow, x.node)] :
                     routingTable'[compareValue(x.flow, x.node)][i] = x.port
      <3>1. CASE x = e
        BY <1>1, <2>2, <2>3, <3>1
      <3>2. CASE x # e
        <4>1. x \in requested
          BY <1>1, <3>2
        <4> DEFINE c == compareValue(x.flow, x.node)
        <4>2. PICK i \in DOMAIN routingTable[c] : routingTable[c][i] = x.port
          BY <1>2, <4>1
        <4>3. c \in Key
          BY <1>3, <4>1
        <4> HIDE DEF c
        <4>4. CASE c = k
          BY <2>2, <2>3, <4>2, <4>4 DEF c
        <4>5. CASE c # k
          BY <2>3, <4>2, <4>3, <4>5 DEF c
        <4> QED
          BY <4>4, <4>5
      <3> QED
        BY <3>1, <3>2
    <2>5. ASSUME NEW c \in Key, NEW i \in DOMAIN routingTable'[c]
          PROVE  \E x \in requested' : compareValue(x.flow, x.node) = c /\ x.port = routingTable'[c][i]
      <3>1. CASE c # k
        <4>1. PICK x \in requested : compareValue(x.flow, x.node) = c /\ x.port = routingTable[c][i]
          BY <1>2, <2>3, <2>5, <3>1
        <4> QED
          BY <1>1, <2>3, <3>1, <4>1
      <3>2. CASE c = k /\ i \in 1 .. Len(s)
        <4>1. PICK x \in requested : compareValue(x.flow, x.node) = k /\ x.port = s[i]
          BY <1>1, <1>2, <2>2, <3>2
        <4> QED
          BY <1>1, <2>2, <2>3, <3>2, <4>1
      <3>3. CASE c = k /\ i = Len(s) + 1
        BY <1>1, <2>2, <2>3, <3>3
      <3>4. c = k => i \in 1 .. Len(s) \/ i = Len(s) + 1
        BY <2>2, <2>3, <2>5
      <3> QED
        BY <3>1, <3>2, <3>3, <3>4, Zenon
    <2>6. requested' \subseteq Entry
      BY <1>1
    <2> QED
      BY <2>3, <2>4, <2>5, <2>6 DEF TableIInv, getOutPorts
  <1> QED
    BY <1>4, <1>5

LEMMA EmptyTableKeeps == emptyTable => TableIInv'
  <1> SUFFICES ASSUME emptyTable PROVE TableIInv'
    OBVIOUS
  <1>1. routingTable' = [k \in Key |-> <<>>] /\ requested' = {}
    BY DEF emptyTable
  <1>2. routingTable' \in [Key -> Seq(Port)]
    BY <1>1
  <1>3. \A k \in Key : DOMAIN routingTable'[k] = {}
    BY <1>1
  <1> QED
    BY <1>1, <1>2, <1>3 DEF TableIInv

LEMMA TableRests == TableIInv /\ UNCHANGED tableVars => TableIInv'
  BY DEF TableIInv, tableVars, getOutPorts

(* Names with the same front are the same if the rests are.                *)
LEMMA SameFront ==
  ASSUME NEW f \in Seq(Letter), NEW n \in Seq(Letter), NEW m \in Seq(Letter), f \o n = f \o m
  PROVE  n = m
  <1>1. Len(n) = Len(m) /\ Len(n) \in Nat /\ Len(f) \in Nat
    OBVIOUS
  <1>2. ASSUME NEW i \in 1 .. Len(n) PROVE n[i] = m[i]
    <2>1. (f \o n)[Len(f) + i] = n[i] /\ (f \o m)[Len(f) + i] = m[i]
      BY <1>1
    <2> QED
      BY <2>1
  <1> QED
    BY <1>1, <1>2

(* An entry that was found for an unambiguous pair was made for it.        *)
LEMMA EntryOfItsFlow ==
  ASSUME TableIInv, NEW f \in Flow, NEW n \in Node, Unambiguous(f, n), NEW i \in DOMAIN getOutPorts(f, n)
  PROVE  [flow |-> f, node |-> n, port |-> getOutPorts(f, n)[i]] \in requested
  <1>1. PICK e \in requested : compareValue(e.flow, e.node) = compareValue(f, n) /\ e.port = getOutPorts(f, n)[i]
    BY KeyOfEntry DEF TableIInv, getOutPorts
  <1>2. e \in Entry /\ e.flow \in Flow /\ e.node \in Node
    BY <1>1 DEF TableIInv, Entry
  <1>3. e.flow = f
    BY <1>1, <1>2 DEF Unambiguous, compareValue
  <1>4. e.node = n
    <2>1. f \in Seq(Letter) /\ n \in Seq(Letter) /\ e.node \in Seq(Letter)
      BY <1>2, TableAssumption
    <2>2. f \o e.node = f \o n
      BY <1>1, <1>3 DEF compareValue
    <2> QED
      BY <2>1, <2>2, SameFront
  <1>5. e = [flow |-> f, node |-> n, port |-> getOutPorts(f, n)[i]]
    BY <1>1, <1>2, <1>3, <1>4 DEF Entry
  <1> QED
    BY <1>1, <1>5

-----------------------------------------------------------------------------
(* The port's own steps.                                                   *)

(* They keep the order of each lane; only prioritySelect appends to one.   *)
LEMMA LaneMoves ==
  ASSUME PortIInv, Engine, NEW q \in Queue, delivered[q] \in Seq(Packet), Contents(q) \in Seq(Packet)
  PROVE  /\ delivered'[q] \in Seq(Packet) /\ Contents(q)' \in Seq(Packet)
         /\ Lane(q)' = Lane(q) \/ (SelectStep /\ Lane(q)' = Append(Lane(q), arrivedPacket))
  <1>i. ASSUME delivered'[q] = delivered[q], Contents(q)' = Contents(q)
        PROVE  /\ delivered'[q] \in Seq(Packet) /\ Contents(q)' \in Seq(Packet)
               /\ Lane(q)' = Lane(q)
    BY <1>i DEF Lane
  <1>1. CASE LinkStep
    <2>1. CASE delivered'[q] = delivered[q] /\ Contents(q)' = Contents(q)
      BY <1>i, <2>1
    <2>2. CASE /\ Contents(q) # <<>>
               /\ delivered'[q] = Append(delivered[q], Head(Contents(q)))
               /\ Contents(q)' = Tail(Contents(q))
      <3> DEFINE c == Contents(q)
                 d == delivered[q]
      <3>1. /\ c \in Seq(Packet) /\ d \in Seq(Packet) /\ c # <<>>
            /\ delivered'[q] = Append(d, Head(c)) /\ Contents(q)' = Tail(c)
            /\ Lane(q)' = Append(d, Head(c)) \o Tail(c) /\ Lane(q) = d \o c
        BY <2>2 DEF Lane
      <3> HIDE DEF c, d
      <3>2. Append(d, Head(c)) \o Tail(c) = d \o c
        BY <3>1, HeadMovesBehind
      <3>3. Append(d, Head(c)) \in Seq(Packet) /\ Tail(c) \in Seq(Packet)
        BY <3>1
      <3> QED
        BY <3>1, <3>2, <3>3
    <2> QED
      BY <1>1, <2>1, <2>2, LinkRefines
  <1>2. CASE SelectStep
    <2>1. CASE Contents(q)' = Contents(q)
      BY <1>i, <1>2, <2>1, SelectRefines
    <2>2. CASE Contents(q)' = Append(Contents(q), arrivedPacket)
      <3>1. arrivedPacket \in Packet
        BY <1>2 DEF PortIInv, TypeOK, SelectStep
      <3>2. delivered'[q] = delivered[q]
        BY <1>2, SelectRefines
      <3>3. Lane(q)' = delivered[q] \o Append(Contents(q), arrivedPacket)
        BY <2>2, <3>2 DEF Lane
      <3>4. Lane(q)' = Append(Lane(q), arrivedPacket)
        <4> DEFINE c == Contents(q)
                   d == delivered[q]
        <4>0. c \in Seq(Packet) /\ d \in Seq(Packet)
          OBVIOUS
        <4> HIDE DEF c, d
        <4>1. d \o Append(c, arrivedPacket) = Append(d \o c, arrivedPacket)
          BY <3>1, <4>0, AppendBehind
        <4>2. Lane(q) = delivered[q] \o Contents(q)
          BY DEF Lane
        <4> QED
          BY <3>3, <4>1, <4>2 DEF c, d
      <3>5. delivered'[q] \in Seq(Packet) /\ Contents(q)' \in Seq(Packet)
        BY <2>2, <3>1, <3>2
      <3> QED
        BY <1>2, <3>4, <3>5
    <2> QED
      BY <1>2, <2>1, <2>2, SelectRefines
  <1>3. CASE DemuxStep
    BY <1>3, <1>i, DemuxRefines
  <1>4. ASSUME NEW r \in Queue, QueueStep(r) PROVE delivered'[q] = delivered[q] /\ Contents(q)' = Contents(q)
    <2>1. CASE EmitPacket(r)
      BY <2>1, EmitRefines
    <2>2. CASE WakeUp(r) \/ NotifySize(r) \/ EmitNothing(r)
      BY <2>2 DEF WakeUp, NotifySize, EmitNothing, linkVars, Contents, OnWire
    <2> QED
      BY <1>4, <2>1, <2>2 DEF QueueStep
  <1>5. CASE SchedStep \/ TransmissionEnds
    BY <1>5, <1>i DEF SchedStep, TransmissionEnds, queueVars, linkVars, Contents, OnWire
  <1> QED
    BY <1>1, <1>2, <1>3, <1>4, <1>5, <1>i DEF Engine

LEMMA EngineKeeps ==
  ASSUME PortIInv, Engine
  PROVE  /\ PortIInv' /\ unsent' = unsent
         /\ error' \notin {"PacketPrioritySelect::dext", "Router::dext"}
         /\ \/ ~SelectStep /\ arrivedPacket' = arrivedPacket
            \/ SelectStep /\ arrivedPacket \in Packet /\ arrivedPacket' = NoPacket
  <1>0. TypeOK
    BY DEF PortIInv
  <1>1. PortIInv'
    BY NextPortIInv DEF Next
  <1>2. CASE LinkStep
    BY <1>0, <1>1, <1>2 DEF LinkStep, Throw, portVars, Running, NoError, SelectStep, LinkIdle
  <1>3. CASE SelectStep
    BY <1>0, <1>1, <1>3 DEF SelectStep, SelectDint, TypeOK, Running, NoError
  <1>4. ASSUME NEW q \in Queue, QueueStep(q)
        PROVE  unsent' = unsent /\ error' = NoError /\ ~SelectStep /\ arrivedPacket' = arrivedPacket
    BY <1>4 DEF QueueStep, WakeUp, NotifySize, EmitPacket, EmitNothing, QueueTurn, SelectIdle, Running, SelectStep
  <1>5. CASE SchedStep
    BY <1>1, <1>5 DEF SchedStep, QueuesIdle, SelectIdle, Running, SelectStep, NoError
  <1>6. CASE DemuxStep
    BY <1>1, <1>6 DEF DemuxStep, Throw, portVars, SchedIdle, QueuesIdle, SelectIdle, Running, SelectStep, NoError
  <1>7. CASE TransmissionEnds
    BY <1>1, <1>7 DEF TransmissionEnds, Quiescent, SchedIdle, QueuesIdle, SelectIdle, Running, SelectStep, NoError
  <1> QED
    BY <1>1, <1>2, <1>3, <1>4, <1>5, <1>6, <1>7 DEF Engine, NoError

-----------------------------------------------------------------------------
(* The order of reception.                                                 *)

LEMMA LanesRest ==
  ASSUME UNCHANGED <<queueVars, outputEvents, linkVars>>, NEW q \in Queue
  PROVE  delivered'[q] = delivered[q] /\ Contents(q)' = Contents(q) /\ Lane(q)' = Lane(q)
  BY DEF queueVars, linkVars, Contents, OnWire, Lane

(* A packet that is received comes after all that were.                    *)
LEMMA ReceptionOrders ==
  ASSUME NEW s \in Seq(Packet), NEW p \in Packet, NEW t, t = Append(s, p)
  PROVE  /\ Seen(t, p) /\ \A x : Seen(s, x) => Seen(t, x) /\ Before(t, x, p)
         /\ \A x, y : Before(s, x, y) => Before(t, x, y)
  <1> DEFINE n == Len(s)
  <1>1. /\ n \in Nat /\ DOMAIN s = 1 .. n /\ DOMAIN t = 1 .. n + 1
        /\ t[n + 1] = p /\ \A i \in 1 .. n : t[i] = s[i]
    OBVIOUS
  <1> HIDE DEF n
  <1>2. n + 1 \in 1 .. n + 1 /\ \A i \in 1 .. n : i \in 1 .. n + 1 /\ i < n + 1
    BY <1>1
  <1> QED
    BY <1>1, <1>2 DEF Seen, Before

(* It queues up behind the packets in Routing.                             *)
LEMMA LineAtReception ==
  ASSUME NEW s \in Seq(Packet), NEW lane, NEW a, NEW op \in Seq(Nat \X Packet), InLine(s, lane, a, op),
         NEW p \in Packet, NEW e \in Nat \X Packet, e[2] = p
  PROVE  InLine(Append(s, p), lane, a, Append(op, e))
  <1> DEFINE r == Append(s, p)
             t == Append(op, e)
             n == Len(op)
  <1>1. /\ Seen(r, p) /\ \A x : Seen(s, x) => Seen(r, x) /\ Before(r, x, p)
        /\ \A x, y : Before(s, x, y) => Before(r, x, y)
    BY ReceptionOrders
  <1>2. /\ n \in Nat /\ DOMAIN op = 1 .. n /\ DOMAIN t = 1 .. n + 1
        /\ t[n + 1] = e /\ \A k \in 1 .. n : t[k] = op[k]
        /\ \A k \in 1 .. n + 1 : k \in 1 .. n \/ k = n + 1
    BY AppendFacts
  <1>3. \A k, l \in 1 .. n + 1 : k < l => k \in 1 .. n
    BY <1>2
  <1> SUFFICES InLine(r, lane, a, t)
    OBVIOUS
  <1> HIDE DEF r, t, n
  <1>4. ASSUME NEW k \in DOMAIN t
        PROVE  /\ Seen(r, t[k][2])
               /\ \A i \in DOMAIN lane : Before(r, lane[i], t[k][2])
               /\ a # NoPacket => Before(r, a, t[k][2])
    <2>1. CASE k \in 1 .. n
      BY <1>1, <1>2, <2>1 DEF InLine
    <2>2. CASE k = n + 1
      BY <1>1, <1>2, <2>2 DEF InLine
    <2> QED
      BY <1>2, <2>1, <2>2
  <1>5. ASSUME NEW k \in DOMAIN t, NEW l \in DOMAIN t, k < l PROVE Before(r, t[k][2], t[l][2])
    <2>1. k \in 1 .. n
      BY <1>2, <1>3, <1>5
    <2>2. CASE l \in 1 .. n
      BY <1>1, <1>2, <1>5, <2>1, <2>2 DEF InLine
    <2>3. CASE l = n + 1
      BY <1>1, <1>2, <2>1, <2>3 DEF InLine
    <2> QED
      BY <1>2, <2>2, <2>3
  <1> QED
    BY <1>1, <1>4, <1>5 DEF InLine

(* A packet that leaves Routing is forgotten or becomes the one in         *)
(* prioritySelect.                                                         *)
LEMMA LineAtForwarding ==
  ASSUME NEW s, NEW lane, NEW a, NEW b, NEW op \in Seq(Nat \X Packet), op # <<>>, InLine(s, lane, a, op),
         b = a \/ (a = NoPacket /\ b = op[1][2])
  PROVE  InLine(s, lane, b, Tail(op))
  <1> DEFINE t == Tail(op)
             n == Len(op)
  <1>1. /\ n \in Nat /\ n >= 1 /\ DOMAIN op = 1 .. n /\ DOMAIN t = 1 .. n - 1
        /\ \A k \in 1 .. n - 1 : t[k] = op[k + 1]
    OBVIOUS
  <1> SUFFICES InLine(s, lane, b, t)
    OBVIOUS
  <1> HIDE DEF t, n
  <1>2. 1 \in 1 .. n /\ \A k \in 1 .. n - 1 : k + 1 \in 1 .. n /\ 1 < k + 1
    BY <1>1
  <1>3. \A k, l \in 1 .. n - 1 : k < l => k + 1 < l + 1
    BY <1>1
  <1>4. ASSUME NEW k \in DOMAIN t
        PROVE  /\ Seen(s, t[k][2])
               /\ \A i \in DOMAIN lane : Before(s, lane[i], t[k][2])
               /\ b # NoPacket => Before(s, b, t[k][2])
    <2>1. t[k] = op[k + 1] /\ k + 1 \in DOMAIN op /\ 1 \in DOMAIN op /\ 1 < k + 1
      BY <1>1, <1>2
    <2> QED
      BY <2>1 DEF InLine
  <1>5. ASSUME NEW k \in DOMAIN t, NEW l \in DOMAIN t, k < l PROVE Before(s, t[k][2], t[l][2])
    <2>1. t[k] = op[k + 1] /\ t[l] = op[l + 1] /\ k + 1 \in DOMAIN op /\ l + 1 \in DOMAIN op /\ k + 1 < l + 1
      BY <1>1, <1>2, <1>3, <1>5
    <2> QED
      BY <2>1 DEF InLine
  <1>6. b # NoPacket => Seen(s, b) /\ \A i \in DOMAIN lane : Before(s, lane[i], b)
    BY <1>1, <1>2 DEF InLine
  <1>7. /\ \A i \in DOMAIN lane : Seen(s, lane[i])
        /\ \A i, j \in DOMAIN lane : i < j => Before(s, lane[i], lane[j])
    BY DEF InLine
  <1> QED
    BY <1>4, <1>5, <1>6, <1>7 DEF InLine

(* The packet in prioritySelect enters a lane behind those in it.          *)
LEMMA LineAtSelect ==
  ASSUME NEW s, NEW lane \in Seq(Packet), NEW a \in Packet, NEW op, InLine(s, lane, a, op),
         NEW new, new = lane \/ new = Append(lane, a)
  PROVE  InLine(s, new, NoPacket, op)
  <1>1. a # NoPacket
    BY PortAssumption
  <1>2. CASE new = lane
    BY <1>2 DEF InLine
  <1>3. CASE new = Append(lane, a)
    <2> DEFINE n == Len(lane)
    <2>1. /\ n \in Nat /\ DOMAIN lane = 1 .. n /\ DOMAIN new = 1 .. n + 1
          /\ new[n + 1] = a /\ \A k \in 1 .. n : new[k] = lane[k]
          /\ \A k \in 1 .. n + 1 : k \in 1 .. n \/ k = n + 1
      BY <1>3, AppendFacts
    <2>2. \A k, l \in 1 .. n + 1 : k < l => k \in 1 .. n
      BY <2>1
    <2> HIDE DEF n
    <2> QED
      BY <1>1, <2>1, <2>2 DEF InLine
  <1> QED
    BY <1>2, <1>3

LEMMA OrderInPort ==
  ASSUME InOrder, RoutingTyped, PortIInv, Engine, UNCHANGED <<received, outputPackets>>
  PROVE  InOrder'
  <1>1. \A q \in Queue : Lane(q) \in Seq(Packet)
    BY DEF RoutingTyped, Lane
  <1>2. \A q \in Queue : Lane(q)' = Lane(q) \/ (SelectStep /\ Lane(q)' = Append(Lane(q), arrivedPacket))
    BY LaneMoves DEF RoutingTyped
  <1>3. \/ ~SelectStep /\ arrivedPacket' = arrivedPacket
        \/ SelectStep /\ arrivedPacket \in Packet /\ arrivedPacket' = NoPacket
    BY EngineKeeps
  <1>4. CASE ~SelectStep /\ arrivedPacket' = arrivedPacket
    BY <1>2, <1>4 DEF InOrder
  <1>5. CASE SelectStep /\ arrivedPacket \in Packet /\ arrivedPacket' = NoPacket
    <2> SUFFICES ASSUME NEW q \in Queue PROVE InLine(received, Lane(q), arrivedPacket, outputPackets)'
      BY DEF InOrder
    <2> DEFINE l == Lane(q)
               new == Lane(q)'
               a == arrivedPacket
               op == outputPackets
    <2>1. l \in Seq(Packet) /\ a \in Packet /\ InLine(received, l, a, op) /\ (new = l \/ new = Append(l, a))
      BY <1>1, <1>2, <1>5 DEF InOrder
    <2>2. InLine(received, new, NoPacket, op)
      <3> HIDE DEF l, new, a, op
      <3> QED
        BY <2>1, LineAtSelect
    <2> QED
      BY <1>5, <2>2
  <1> QED
    BY <1>3, <1>4, <1>5

-----------------------------------------------------------------------------
(* Round robin.                                                            *)

(* One more packet through the entry whose turn it is.                     *)
LEMMA TurnTaken ==
  ASSUME NEW n \in Nat, NEW sent \in [1 .. n -> Nat], NEW i \in 0 .. n, n # 0, Turn(sent, i)
  PROVE  /\ After(n, i) \in 1 .. n
         /\ Turn([sent EXCEPT ![After(n, i)] = @ + 1], After(n, i))
  <1> DEFINE j == After(n, i)
             new == [sent EXCEPT ![j] = @ + 1]
  <1>1. j \in 1 .. n
    BY DEF After
  <1>2. PICK c \in Nat : \A k \in 1 .. n : sent[k] = IF k <= i THEN c + 1 ELSE c
    BY DEF Turn
  <1>3. DOMAIN new = 1 .. n /\ \A k \in 1 .. n : new[k] = IF k = j THEN sent[j] + 1 ELSE sent[k]
    BY <1>1
  <1> SUFFICES Turn(new, j)
    BY <1>1
  <1>4. CASE i = n
    <2>1. j = 1
      BY <1>4 DEF After
    <2> HIDE DEF new, j
    <2>2. \A k \in 1 .. n : new[k] = IF k <= j THEN (c + 1) + 1 ELSE c + 1
      BY <1>2, <1>3, <1>4, <2>1
    <2>3. c + 1 \in Nat
      OBVIOUS
    <2> QED
      BY <1>3, <2>2, <2>3 DEF Turn
  <1>5. CASE i # n
    <2>1. j = i + 1
      BY <1>5 DEF After
    <2> HIDE DEF new, j
    <2>2. \A k \in 1 .. n : new[k] = IF k <= j THEN c + 1 ELSE c
      BY <1>1, <1>2, <1>3, <2>1
    <2> QED
      BY <1>3, <2>2 DEF Turn
  <1> QED
    BY <1>4, <1>5

(* A received packet takes the next entry of its flow; the other flows do  *)
(* not notice.                                                             *)
LEMMA RotatesAtReception ==
  ASSUME NEW f, NEW s \in Seq(Nat \X Packet), NEW n \in Nat, NEW last, NEW sent, Rotates(f, s, n, last, sent),
         NEW e \in Nat \X Packet, FlowOf[e[2]] = f, n # 0, e[1] = After(n, last)
  PROVE  Rotates(f, Append(s, e), n, e[1], sent)
  <1> DEFINE t == Append(s, e)
             m == Len(s)
  <1>1. /\ m \in Nat /\ DOMAIN s = 1 .. m /\ DOMAIN t = 1 .. m + 1
        /\ t[m + 1] = e /\ \A k \in 1 .. m : t[k] = s[k]
        /\ \A k \in 1 .. m + 1 : k \in 1 .. m \/ k = m + 1
    BY AppendFacts
  <1> SUFFICES Rotates(f, t, n, e[1], sent)
    OBVIOUS
  <1>2. sent \in [1 .. n -> Nat] /\ last \in 0 .. n /\ e[1] \in 0 .. n
    BY DEF Rotates, After
  <1> HIDE DEF t, m
  <1>3. m + 1 \in 1 .. m + 1 /\ \A k \in 1 .. m : k \in 1 .. m + 1 /\ k < m + 1
    BY <1>1
  <1>4. OfFlow(f, t, m + 1) /\ \A k \in 1 .. m : OfFlow(f, t, k) <=> OfFlow(f, s, k)
    BY <1>1, <1>3 DEF OfFlow
  <1>5. ASSUME NEW k \in DOMAIN t, FirstOf(f, t, k) PROVE \E i \in 0 .. n : Turn(sent, i) /\ t[k][1] = After(n, i)
    <2>1. CASE k \in 1 .. m
      <3>1. FirstOf(f, s, k)
        BY <1>1, <1>3, <1>4, <1>5, <2>1 DEF FirstOf
      <3> QED
        BY <1>1, <2>1, <3>1 DEF Rotates
    <2>2. CASE k = m + 1
      <3>1. \A j \in DOMAIN s : ~OfFlow(f, s, j)
        BY <1>1, <1>3, <1>4, <1>5, <2>2 DEF FirstOf
      <3>2. Turn(sent, last)
        BY <3>1 DEF Rotates
      <3> QED
        BY <1>1, <1>2, <2>2, <3>2
    <2> QED
      BY <1>1, <2>1, <2>2
  <1>6. ASSUME NEW k \in DOMAIN t, LastOf(f, t, k) PROVE t[k][1] = e[1]
    BY <1>1, <1>3, <1>4, <1>6 DEF LastOf
  <1>7. ASSUME NEW k \in DOMAIN t, NEW l \in DOMAIN t, Follows(f, t, k, l) PROVE t[l][1] = After(n, t[k][1])
    <2>1. k \in 1 .. m
      BY <1>1, <1>7 DEF Follows
    <2>2. CASE l \in 1 .. m
      <3>1. Follows(f, s, k, l)
        BY <1>1, <1>3, <1>4, <1>7, <2>1, <2>2 DEF Follows
      <3> QED
        BY <1>1, <2>1, <2>2, <3>1 DEF Rotates
    <2>3. CASE l = m + 1
      <3>1. LastOf(f, s, k)
        BY <1>1, <1>3, <1>4, <1>7, <2>1, <2>3 DEF Follows, LastOf
      <3> QED
        BY <1>1, <2>1, <2>3, <3>1 DEF Rotates
    <2> QED
      BY <1>1, <2>2, <2>3
  <1> QED
    BY <1>1, <1>2, <1>3, <1>4, <1>5, <1>6, <1>7 DEF Rotates

LEMMA RotatesForOthers ==
  ASSUME NEW f, NEW s \in Seq(Nat \X Packet), NEW n \in Nat, NEW last, NEW sent, Rotates(f, s, n, last, sent),
         NEW e \in Nat \X Packet, FlowOf[e[2]] # f
  PROVE  Rotates(f, Append(s, e), n, last, sent)
  <1> DEFINE t == Append(s, e)
             m == Len(s)
  <1>1. /\ m \in Nat /\ DOMAIN s = 1 .. m /\ DOMAIN t = 1 .. m + 1
        /\ t[m + 1] = e /\ \A k \in 1 .. m : t[k] = s[k]
        /\ \A k \in 1 .. m + 1 : k \in 1 .. m \/ k = m + 1
    BY AppendFacts
  <1> SUFFICES Rotates(f, t, n, last, sent)
    OBVIOUS
  <1> HIDE DEF t, m
  <1>2. \A k \in 1 .. m : k \in 1 .. m + 1
    BY <1>1
  <1>3. /\ \A k \in DOMAIN t : OfFlow(f, t, k) => k \in 1 .. m
        /\ \A k \in 1 .. m : OfFlow(f, t, k) <=> OfFlow(f, s, k)
    BY <1>1, <1>2 DEF OfFlow
  <1>4. ASSUME NEW k \in DOMAIN t, FirstOf(f, t, k) PROVE k \in 1 .. m /\ FirstOf(f, s, k)
    BY <1>1, <1>2, <1>3, <1>4 DEF FirstOf
  <1>5. ASSUME NEW k \in DOMAIN t, LastOf(f, t, k) PROVE k \in 1 .. m /\ LastOf(f, s, k)
    BY <1>1, <1>2, <1>3, <1>5 DEF LastOf
  <1>6. ASSUME NEW k \in DOMAIN t, NEW l \in DOMAIN t, Follows(f, t, k, l)
        PROVE  k \in 1 .. m /\ l \in 1 .. m /\ Follows(f, s, k, l)
    BY <1>1, <1>2, <1>3, <1>6 DEF Follows
  <1>7. (\A k \in DOMAIN t : ~OfFlow(f, t, k)) => \A k \in DOMAIN s : ~OfFlow(f, s, k)
    BY <1>1, <1>2, <1>3
  <1>8. ASSUME NEW k \in DOMAIN t, FirstOf(f, t, k) PROVE \E i \in 0 .. n : Turn(sent, i) /\ t[k][1] = After(n, i)
    <2>1. k \in DOMAIN s /\ FirstOf(f, s, k) /\ t[k] = s[k]
      BY <1>1, <1>4, <1>8
    <2> QED
      BY <2>1 DEF Rotates
  <1>9. ASSUME NEW k \in DOMAIN t, LastOf(f, t, k) PROVE t[k][1] = last
    <2>1. k \in DOMAIN s /\ LastOf(f, s, k) /\ t[k] = s[k]
      BY <1>1, <1>5, <1>9
    <2> QED
      BY <2>1 DEF Rotates
  <1>10. ASSUME NEW k \in DOMAIN t, NEW l \in DOMAIN t, Follows(f, t, k, l) PROVE t[l][1] = After(n, t[k][1])
    <2>1. k \in DOMAIN s /\ l \in DOMAIN s /\ Follows(f, s, k, l) /\ t[k] = s[k] /\ t[l] = s[l]
      BY <1>1, <1>6, <1>10
    <2> QED
      BY <2>1 DEF Rotates
  <1>11. sent \in [1 .. n -> Nat] /\ last \in 0 .. n /\ ((\A k \in DOMAIN s : ~OfFlow(f, s, k)) => Turn(sent, last))
    BY DEF Rotates
  <1> QED
    BY <1>7, <1>8, <1>9, <1>10, <1>11 DEF Rotates

(* What is left behind the first packet.                                   *)
IsBehindFirst(f, s, t) ==
    /\ \A k \in DOMAIN t : k + 1 \in DOMAIN s /\ t[k] = s[k + 1] /\ (OfFlow(f, t, k) <=> OfFlow(f, s, k + 1))
    /\ \A k \in DOMAIN s : k = 1 \/ (k - 1 \in DOMAIN t /\ k = (k - 1) + 1)
    /\ 1 \in DOMAIN s /\ DOMAIN s \subseteq Nat /\ DOMAIN t \subseteq Nat \ {0}
    /\ \A k \in DOMAIN t : LastOf(f, t, k) => LastOf(f, s, k + 1)
    /\ \A k, l \in DOMAIN t : Follows(f, t, k, l) => Follows(f, s, k + 1, l + 1)

LEMMA BehindFirst ==
  ASSUME NEW f, NEW s \in Seq(Nat \X Packet), s # <<>>
  PROVE  IsBehindFirst(f, s, Tail(s))
  <1> DEFINE t == Tail(s)
  <1> DEFINE m == Len(s)
  <1>1. /\ m \in Nat /\ m >= 1 /\ DOMAIN s = 1 .. m /\ DOMAIN t = 1 .. m - 1
        /\ \A k \in 1 .. m - 1 : t[k] = s[k + 1]
    OBVIOUS
  <1> SUFFICES IsBehindFirst(f, s, t)
    OBVIOUS
  <1> HIDE DEF m, t
  <1>2. \A k \in DOMAIN t : k + 1 \in DOMAIN s /\ t[k] = s[k + 1]
    BY <1>1
  <1>3. \A k \in DOMAIN t : OfFlow(f, t, k) <=> OfFlow(f, s, k + 1)
    BY <1>2 DEF OfFlow
  <1>4. \A k \in DOMAIN s : k = 1 \/ (k - 1 \in DOMAIN t /\ k = (k - 1) + 1)
    BY <1>1
  <1>5. 1 \in DOMAIN s /\ DOMAIN s \subseteq Nat /\ DOMAIN t \subseteq Nat \ {0}
    BY <1>1
  <1>6. ASSUME NEW k \in DOMAIN t, LastOf(f, t, k) PROVE LastOf(f, s, k + 1)
    <2>1. OfFlow(f, s, k + 1)
      BY <1>3, <1>6 DEF LastOf
    <2>2. ASSUME NEW j \in DOMAIN s, j > k + 1 PROVE ~OfFlow(f, s, j)
      <3>1. j - 1 \in DOMAIN t /\ j = (j - 1) + 1 /\ j - 1 > k
        <4>1. k \in Nat \ {0} /\ j \in Nat /\ j > k + 1
          BY <1>5, <2>2
        <4>2. j # 1 /\ j = (j - 1) + 1 /\ j - 1 > k
          BY <4>1
        <4> QED
          BY <1>4, <4>2
      <3> QED
        BY <1>3, <1>6, <3>1 DEF LastOf
    <2> QED
      BY <2>1, <2>2 DEF LastOf
  <1>7. ASSUME NEW k \in DOMAIN t, NEW l \in DOMAIN t, Follows(f, t, k, l) PROVE Follows(f, s, k + 1, l + 1)
    <2>1. OfFlow(f, s, k + 1) /\ OfFlow(f, s, l + 1)
      BY <1>3, <1>7 DEF Follows
    <2>2. k + 1 < l + 1
      BY <1>1, <1>7 DEF Follows
    <2>3. ASSUME NEW j \in DOMAIN s, k + 1 < j /\ j < l + 1 PROVE ~OfFlow(f, s, j)
      <3>0. j \in Nat /\ k \in Nat \ {0} /\ l \in Nat
        BY <1>5
      <3>a. j # 1 /\ k < j - 1 /\ j - 1 < l
        BY <2>3, <3>0
      <3>1. j - 1 \in DOMAIN t /\ j = (j - 1) + 1 /\ k < j - 1 /\ j - 1 < l
        BY <1>4, <3>a
      <3> QED
        BY <1>3, <1>7, <3>1 DEF Follows
    <2> QED
      BY <2>1, <2>2, <2>3 DEF Follows
  <1> QED
    BY <1>2, <1>3, <1>4, <1>5, <1>6, <1>7 DEF IsBehindFirst

(* A forwarded packet took its turn; the other flows do not notice.        *)
LEMMA RotatesAtForwarding ==
  ASSUME NEW f, NEW s \in Seq(Nat \X Packet), s # <<>>, NEW n \in Nat, n # 0, NEW last, NEW sent,
         Rotates(f, s, n, last, sent), FlowOf[s[1][2]] = f
  PROVE  Rotates(f, Tail(s), n, last, [sent EXCEPT ![s[1][1]] = @ + 1])
  <1> DEFINE t == Tail(s)
             new == [sent EXCEPT ![s[1][1]] = @ + 1]
  <1>t. t = Tail(s)
    OBVIOUS
  <1> SUFFICES Rotates(f, t, n, last, new)
    OBVIOUS
  <1> HIDE DEF t
  <1>0. IsBehindFirst(f, s, t)
    BY <1>t, BehindFirst, Zenon
  <1>1. /\ \A k \in DOMAIN t : k + 1 \in DOMAIN s /\ t[k] = s[k + 1] /\ (OfFlow(f, t, k) <=> OfFlow(f, s, k + 1))
        /\ \A k \in DOMAIN s : k = 1 \/ (k - 1 \in DOMAIN t /\ k = (k - 1) + 1)
        /\ 1 \in DOMAIN s /\ DOMAIN s \subseteq Nat /\ DOMAIN t \subseteq Nat \ {0}
        /\ \A k \in DOMAIN t : LastOf(f, t, k) => LastOf(f, s, k + 1)
        /\ \A k, l \in DOMAIN t : Follows(f, t, k, l) => Follows(f, s, k + 1, l + 1)
    BY <1>0 DEF IsBehindFirst
  <1>2. sent \in [1 .. n -> Nat] /\ last \in 0 .. n
    BY DEF Rotates
  <1>3. FirstOf(f, s, 1) /\ OfFlow(f, s, 1)
    <2>1. \A j \in DOMAIN s : ~(j < 1)
      <3>1. \A j \in DOMAIN s : j = 1 \/ (j - 1 \in Nat /\ j \in Nat)
        BY <1>1
      <3> QED
        BY <1>1, <3>1
    <2> QED
      BY <1>1, <2>1 DEF FirstOf, OfFlow
  <1>4. PICK i \in 0 .. n : Turn(sent, i) /\ s[1][1] = After(n, i)
    BY <1>1, <1>3 DEF Rotates
  <1>5. s[1][1] \in 1 .. n /\ Turn(new, s[1][1])
    BY <1>2, <1>4, TurnTaken
  <1>6. new \in [1 .. n -> Nat] /\ s[1][1] \in 0 .. n
    BY <1>2, <1>5
  <1> HIDE DEF new
  <1>7. (\A k \in DOMAIN t : ~OfFlow(f, t, k)) => Turn(new, last)
    <2> SUFFICES ASSUME \A k \in DOMAIN t : ~OfFlow(f, t, k) PROVE Turn(new, last)
      OBVIOUS
    <2>1. \A j \in DOMAIN s : j > 1 => ~OfFlow(f, s, j)
      <3> SUFFICES ASSUME NEW j \in DOMAIN s, j > 1 PROVE ~OfFlow(f, s, j)
        OBVIOUS
      <3>1. j # 1
        BY <1>1
      <3>2. j - 1 \in DOMAIN t /\ j = (j - 1) + 1
        BY <1>1, <3>1
      <3>3. OfFlow(f, t, j - 1) <=> OfFlow(f, s, j)
        BY <1>1, <3>2
      <3> QED
        BY <3>2, <3>3
    <2>2. LastOf(f, s, 1)
      BY <1>3, <2>1 DEF LastOf
    <2>3. s[1][1] = last
      BY <1>1, <2>2 DEF Rotates
    <2> QED
      BY <1>5, <2>3
  <1>8. ASSUME NEW k \in DOMAIN t, FirstOf(f, t, k) PROVE \E j \in 0 .. n : Turn(new, j) /\ t[k][1] = After(n, j)
    <2>1. OfFlow(f, s, k + 1) /\ k + 1 \in DOMAIN s /\ t[k] = s[k + 1] /\ k \in Nat \ {0}
      BY <1>1, <1>8 DEF FirstOf
    <2>2. ASSUME NEW j \in DOMAIN s, 1 < j /\ j < k + 1 PROVE ~OfFlow(f, s, j)
      <3>1. j - 1 \in DOMAIN t /\ j = (j - 1) + 1 /\ j - 1 < k
        BY SMTT(30), <1>1, <2>1, <2>2
      <3> QED
        BY <1>1, <1>8, <3>1 DEF FirstOf
    <2>3. 1 < k + 1
      BY <2>1
    <2>4. Follows(f, s, 1, k + 1)
      BY <1>3, <2>1, <2>2, <2>3 DEF Follows
    <2>5. s[k + 1][1] = After(n, s[1][1])
      BY <1>1, <2>1, <2>4 DEF Rotates
    <2> QED
      BY <1>5, <1>6, <2>1, <2>5
  <1>9. ASSUME NEW k \in DOMAIN t, LastOf(f, t, k) PROVE t[k][1] = last
    <2>1. k + 1 \in DOMAIN s /\ LastOf(f, s, k + 1) /\ t[k] = s[k + 1]
      BY <1>1, <1>9
    <2> QED
      BY <2>1 DEF Rotates
  <1>10. ASSUME NEW k \in DOMAIN t, NEW l \in DOMAIN t, Follows(f, t, k, l) PROVE t[l][1] = After(n, t[k][1])
    <2>1. k + 1 \in DOMAIN s /\ l + 1 \in DOMAIN s /\ Follows(f, s, k + 1, l + 1) /\ t[k] = s[k + 1] /\ t[l] = s[l + 1]
      BY <1>1, <1>10
    <2> QED
      BY <2>1 DEF Rotates
  <1> QED
    BY <1>2, <1>6, <1>7, <1>8, <1>9, <1>10 DEF Rotates

LEMMA RotatesPastOthers ==
  ASSUME NEW f, NEW s \in Seq(Nat \X Packet), s # <<>>, NEW n, NEW last, NEW sent,
         Rotates(f, s, n, last, sent), FlowOf[s[1][2]] # f
  PROVE  Rotates(f, Tail(s), n, last, sent)
  <1> DEFINE t == Tail(s)
  <1>t. t = Tail(s)
    OBVIOUS
  <1> SUFFICES Rotates(f, t, n, last, sent)
    OBVIOUS
  <1> HIDE DEF t
  <1>0. IsBehindFirst(f, s, t)
    BY <1>t, BehindFirst, Zenon
  <1>1. /\ \A k \in DOMAIN t : k + 1 \in DOMAIN s /\ t[k] = s[k + 1] /\ (OfFlow(f, t, k) <=> OfFlow(f, s, k + 1))
        /\ \A k \in DOMAIN s : k = 1 \/ (k - 1 \in DOMAIN t /\ k = (k - 1) + 1)
        /\ 1 \in DOMAIN s /\ DOMAIN s \subseteq Nat /\ DOMAIN t \subseteq Nat \ {0}
        /\ \A k \in DOMAIN t : LastOf(f, t, k) => LastOf(f, s, k + 1)
        /\ \A k, l \in DOMAIN t : Follows(f, t, k, l) => Follows(f, s, k + 1, l + 1)
    BY <1>0 DEF IsBehindFirst
  <1>2. ~OfFlow(f, s, 1)
    BY DEF OfFlow
  <1>3. sent \in [1 .. n -> Nat] /\ last \in 0 .. n
    BY DEF Rotates
  <1>7. (\A k \in DOMAIN t : ~OfFlow(f, t, k)) => Turn(sent, last)
    <2> SUFFICES ASSUME \A k \in DOMAIN t : ~OfFlow(f, t, k) PROVE Turn(sent, last)
      OBVIOUS
    <2>1. \A k \in DOMAIN s : ~OfFlow(f, s, k)
      BY <1>1, <1>2
    <2> QED
      BY <2>1 DEF Rotates
  <1>8. ASSUME NEW k \in DOMAIN t, FirstOf(f, t, k) PROVE \E j \in 0 .. n : Turn(sent, j) /\ t[k][1] = After(n, j)
    <2>1. OfFlow(f, s, k + 1) /\ k + 1 \in DOMAIN s /\ t[k] = s[k + 1] /\ k \in Nat \ {0}
      BY <1>1, <1>8 DEF FirstOf
    <2>2. ASSUME NEW j \in DOMAIN s, j < k + 1 PROVE ~OfFlow(f, s, j)
      <3>1. CASE j # 1
        <4>1. j - 1 \in DOMAIN t /\ j = (j - 1) + 1 /\ j - 1 < k
          BY SMTT(30), <1>1, <2>1, <2>2, <3>1
        <4> QED
          BY <1>1, <1>8, <4>1 DEF FirstOf
      <3> QED
        BY <1>2, <3>1
    <2>3. FirstOf(f, s, k + 1)
      BY <2>1, <2>2 DEF FirstOf
    <2> QED
      BY <2>1, <2>3 DEF Rotates
  <1>9. ASSUME NEW k \in DOMAIN t, LastOf(f, t, k) PROVE t[k][1] = last
    <2>1. k + 1 \in DOMAIN s /\ LastOf(f, s, k + 1) /\ t[k] = s[k + 1]
      BY <1>1, <1>9
    <2> QED
      BY <2>1 DEF Rotates
  <1>10. ASSUME NEW k \in DOMAIN t, NEW l \in DOMAIN t, Follows(f, t, k, l) PROVE t[l][1] = After(n, t[k][1])
    <2>1. k + 1 \in DOMAIN s /\ l + 1 \in DOMAIN s /\ Follows(f, s, k + 1, l + 1) /\ t[k] = s[k + 1] /\ t[l] = s[l + 1]
      BY <1>1, <1>10
    <2> QED
      BY <2>1 DEF Rotates
  <1> QED
    BY <1>3, <1>7, <1>8, <1>9, <1>10 DEF Rotates

-----------------------------------------------------------------------------
(* The steps of the router.                                                *)

LEMMA TableStays ==
  ASSUME UNCHANGED tableVars
  PROVE  FlowsHere' = FlowsHere /\ \A f \in Flow : OutPorts(f)' = OutPorts(f)
  BY DEF tableVars, OutPorts, getOutPorts, FlowsHere

LEMMA PortsTyped == ASSUME TableIInv, NEW f \in Flow PROVE OutPorts(f) \in Seq(Port)
  BY RouterAssumption, KeyOfEntry DEF TableIInv, OutPorts, getOutPorts

(* Nothing happens to packets or the table.                                *)
LEMMA RestPreserves ==
  ASSUME RouterIInv, UNCHANGED <<portVars, phase, tableVars, outputPackets, lastIndex, received, forwarded>>,
         unsent' \subseteq Packet, instant' \in {"fresh", "stepped"}, burst' \in Nat
  PROVE  RoutingTyped' /\ NothingMoved' /\ InOrder' /\ ByTheTable' /\ RoundRobin' /\ TableIInv'
  <1>1. \A q \in Queue : Lane(q)' = Lane(q) /\ delivered'[q] = delivered[q] /\ Contents(q)' = Contents(q)
    BY LanesRest DEF portVars
  <1>2. FlowsHere' = FlowsHere /\ \A f \in Flow : OutPorts(f)' = OutPorts(f)
    BY TableStays
  <1>3. arrivedPacket' = arrivedPacket
    BY DEF portVars
  <1>4. RoutingTyped'
    BY <1>1, <1>3 DEF RouterIInv, RoutingTyped
  <1>5. NothingMoved'
    BY <1>1, <1>3 DEF RouterIInv, NothingMoved
  <1>6. InOrder'
    BY <1>1, <1>3 DEF RouterIInv, InOrder
  <1>7. ByTheTable'
    BY <1>1, <1>2, <1>3 DEF RouterIInv, ByTheTable
  <1>8. RoundRobin'
    BY <1>2 DEF RouterIInv, RoundRobin
  <1>9. TableIInv'
    BY TableRests DEF RouterIInv
  <1> QED
    BY <1>4, <1>5, <1>6, <1>7, <1>8, <1>9

(* Routing takes a packet.                                                 *)
LEMMA TakenPreserves ==
  ASSUME RouterIInv, phase = "running", NEW p \in Packet, FlowOf[p] \in Flow, OutPorts(FlowOf[p]) # <<>>,
         NEW i, i = applyLoadBalancingPolicy(FlowOf[p]),
         lastIndex' = [lastIndex EXCEPT ![FlowOf[p]] = i], outputPackets' = Append(outputPackets, <<i, p>>),
         received' = Append(received, p), UNCHANGED <<portVars, phase, tableVars, forwarded>>,
         unsent' \subseteq Packet, instant' \in {"fresh", "stepped"}, burst' \in Nat
  PROVE  RoutingTyped' /\ NothingMoved' /\ InOrder' /\ ByTheTable' /\ RoundRobin' /\ TableIInv'
  <1> DEFINE f == FlowOf[p]
             n == Len(OutPorts(f))
             e == <<i, p>>
             s == outputPackets
  <1>1. \A q \in Queue : Lane(q)' = Lane(q) /\ delivered'[q] = delivered[q] /\ Contents(q)' = Contents(q)
    BY LanesRest DEF portVars
  <1>2. FlowsHere' = FlowsHere /\ \A g \in Flow : OutPorts(g)' = OutPorts(g)
    BY TableStays
  <1>3. arrivedPacket' = arrivedPacket
    BY DEF portVars
  <1>4. OutPorts(f) \in Seq(Port) /\ n \in Nat /\ n # 0 /\ DOMAIN OutPorts(f) = 1 .. n
    <2>1. OutPorts(f) \in Seq(Port)
      BY PortsTyped DEF RouterIInv
    <2> QED
      BY <2>1
  <1>5. \A g \in Flow : Rotates(g, s, Len(OutPorts(g)), lastIndex[g], forwarded[g])
    BY DEF RouterIInv, RoundRobin
  <1>6. lastIndex[f] \in 0 .. n
    BY <1>5 DEF Rotates
  <1>7. i = After(n, lastIndex[f]) /\ i \in 1 .. n /\ i \in Nat
    <2>1. i = After(n, lastIndex[f])
      BY DEF applyLoadBalancingPolicy, After
    <2> QED
      BY <1>4, <1>6, <2>1 DEF After
  <1>8. /\ s \in Seq(Nat \X Packet) /\ received \in Seq(Packet) /\ e \in Nat \X Packet /\ e[1] = i /\ e[2] = p
        /\ lastIndex \in [Flow -> Nat] /\ f \in Flow
    BY <1>7 DEF RouterIInv, RoutingTyped
  <1> HIDE DEF f, n, e, s
  <1>9. Append(s, e) \in Seq(Nat \X Packet) /\ Append(received, p) \in Seq(Packet)
    BY <1>8
  <1>10. outputPackets' = Append(s, e) /\ lastIndex' = [lastIndex EXCEPT ![f] = i]
    BY DEF s, e, f
  <1>11. RoutingTyped'
    <2>1. lastIndex' \in [Flow -> Nat]
      BY <1>7, <1>8, <1>10
    <2> QED
      BY <1>1, <1>3, <1>9, <1>10, <2>1 DEF RouterIInv, RoutingTyped
  <1>12. NothingMoved'
    BY DEF NothingMoved
  <1>13. InOrder'
    <2> SUFFICES ASSUME NEW q \in Queue PROVE InLine(received, Lane(q), arrivedPacket, outputPackets)'
      BY DEF InOrder
    <2>1. InLine(received, Lane(q), arrivedPacket, s)
      BY DEF RouterIInv, InOrder, s
    <2> DEFINE l == Lane(q)
    <2>2. InLine(Append(received, p), l, arrivedPacket, Append(s, e))
      <3> HIDE DEF l
      <3> QED
        BY <1>8, <2>1, LineAtReception DEF l
    <2> QED
      BY <1>1, <1>3, <1>10, <2>2
  <1>14. ByTheTable'
    <2>1. /\ Len(s) \in Nat /\ DOMAIN s = 1 .. Len(s) /\ DOMAIN Append(s, e) = 1 .. Len(s) + 1
          /\ Append(s, e)[Len(s) + 1] = e /\ \A k \in 1 .. Len(s) : Append(s, e)[k] = s[k]
          /\ \A k \in 1 .. Len(s) + 1 : k \in 1 .. Len(s) \/ k = Len(s) + 1
      BY <1>8, AppendFacts
    <2> DEFINE t == Append(s, e)
    <2> HIDE DEF t
    <2>2. ASSUME NEW k \in DOMAIN t PROVE FlowOf[t[k][2]] \in Flow /\ t[k][1] \in DOMAIN OutPorts(FlowOf[t[k][2]])
      <3>1. CASE k \in 1 .. Len(s)
        BY <2>1, <3>1 DEF RouterIInv, ByTheTable, t, s
      <3>2. CASE k = Len(s) + 1
        <4>1. t[k] = e /\ FlowOf[e[2]] = f /\ e[1] \in DOMAIN OutPorts(f)
          BY <1>4, <1>7, <1>8, <2>1, <3>2 DEF t, f
        <4> QED
          BY <1>8, <4>1
      <3> QED
        BY <2>1, <3>1, <3>2 DEF t
    <2>3. outputPackets' = t
      BY <1>10 DEF t
    <2> QED
      BY <1>1, <1>2, <1>3, <2>2, <2>3 DEF RouterIInv, ByTheTable
  <1>15. RoundRobin'
    <2> SUFFICES ASSUME NEW g \in Flow
                 PROVE  Rotates(g, outputPackets', Len(OutPorts(g)), lastIndex'[g], forwarded[g])
      BY <1>2 DEF RoundRobin
    <2>1. CASE g = f
      <3>1. lastIndex'[g] = e[1] /\ FlowOf[e[2]] = g /\ e[1] = After(n, lastIndex[g]) /\ n = Len(OutPorts(g))
        BY <1>7, <1>8, <1>10, <2>1 DEF f, n
      <3>2. Rotates(g, s, n, lastIndex[g], forwarded[g])
        BY <1>5, <3>1
      <3>3. Rotates(g, Append(s, e), n, e[1], forwarded[g])
        BY <1>4, <1>8, <3>1, <3>2, RotatesAtReception
      <3> QED
        BY <1>10, <3>1, <3>3
    <2>2. CASE g # f
      <3> DEFINE m == Len(OutPorts(g))
                 last == lastIndex[g]
                 sent == forwarded[g]
      <3>1. lastIndex'[g] = last /\ FlowOf[e[2]] # g
        BY <1>8, <1>10, <2>2 DEF f
      <3>2. Rotates(g, s, m, last, sent) /\ m \in Nat
        <4>1. OutPorts(g) \in Seq(Port)
          BY PortsTyped DEF RouterIInv
        <4> QED
          BY <1>5, <4>1
      <3> HIDE DEF m, last, sent
      <3>3. Rotates(g, Append(s, e), m, last, sent)
        BY <1>8, <3>1, <3>2, RotatesForOthers
      <3> QED
        BY <1>10, <3>1, <3>3 DEF m, sent
    <2> QED
      BY <2>1, <2>2
  <1>16. TableIInv'
    BY TableRests DEF RouterIInv
  <1> QED
    BY <1>11, <1>12, <1>13, <1>14, <1>15, <1>16

(* Routing sends a packet to the port it belongs to.                       *)
LEMMA ForwardPreserves ==
  ASSUME RouterIInv, phase = "running", ForwardStep, UNCHANGED <<tableVars, phase>>
  PROVE  RoutingTyped' /\ NothingMoved' /\ InOrder' /\ ByTheTable' /\ RoundRobin' /\ TableIInv'
  <1> DEFINE s == outputPackets
             i == s[1][1]
             p == s[1][2]
             f == FlowOf[p]
             n == Len(OutPorts(f))
             sent == forwarded[f]
             more == [sent EXCEPT ![i] = @ + 1]
  <1>1. s \in Seq(Nat \X Packet) /\ s # <<>> /\ Head(s) = s[1]
    BY DEF RouterIInv, RoutingTyped, ForwardStep
  <1>2. s[1] \in Nat \X Packet /\ 1 \in DOMAIN s /\ Tail(s) \in Seq(Nat \X Packet)
    BY <1>1
  <1>3. p \in Packet /\ i \in Nat
    BY <1>2
  <1>4. f \in Flow /\ i \in DOMAIN OutPorts(f)
    BY <1>2 DEF RouterIInv, ByTheTable
  <1>5. /\ OutPorts(f) \in Seq(Port) /\ n \in Nat /\ DOMAIN OutPorts(f) = 1 .. n /\ n # 0 /\ i \in 1 .. n
    <2>1. OutPorts(f) \in Seq(Port)
      BY <1>4, PortsTyped DEF RouterIInv
    <2> QED
      BY <1>4, <2>1
  <1>6. \A g \in Flow : Rotates(g, s, Len(OutPorts(g)), lastIndex[g], forwarded[g])
    BY DEF RouterIInv, RoundRobin
  <1>7. sent \in [1 .. n -> Nat]
    BY <1>4, <1>6 DEF Rotates
  <1>8. /\ UNCHANGED <<queueVars, outputEvents, linkVars, unsent, lastIndex, burst, received>>
        /\ outputPackets' = Tail(s) /\ instant' = "stepped"
        /\ forwarded' = [forwarded EXCEPT ![f] = more]
        /\ \/ arrivedPacket' = arrivedPacket
           \/ arrivedPacket = NoPacket /\ arrivedPacket' = p /\ OutPorts(f)[i] = ThisPort
    BY <1>1 DEF ForwardStep, NextOutput, StillPending, SelectDext, Throw, portVars
  <1>9. \A q \in Queue : Lane(q)' = Lane(q) /\ delivered'[q] = delivered[q] /\ Contents(q)' = Contents(q)
    BY <1>8, LanesRest
  <1>10. FlowsHere' = FlowsHere /\ \A g \in Flow : OutPorts(g)' = OutPorts(g)
    BY TableStays
  <1>11. more \in [1 .. n -> Nat] /\ more \in Seq(Nat)
    <2>1. more \in [1 .. n -> Nat]
      BY SMTT(30), <1>5, <1>7
    <2> HIDE DEF more, n
    <2> QED
      BY <1>5, <2>1
  <1>12. forwarded \in [Flow -> Seq(Nat)]
    BY DEF RouterIInv, RoutingTyped
  <1>m. more = [sent EXCEPT ![s[1][1]] = @ + 1] /\ f = FlowOf[s[1][2]]
    OBVIOUS
  <1> HIDE DEF s, i, p, f, n, sent, more
  <1>13. forwarded' \in [Flow -> Seq(Nat)] /\ forwarded'[f] = more /\ \A g \in Flow : g # f => forwarded'[g] = forwarded[g]
    BY <1>4, <1>8, <1>11, <1>12
  <1>14. RoutingTyped'
    <2>1. arrivedPacket' \in Packet \cup {NoPacket}
      BY <1>3, <1>8 DEF RouterIInv, RoutingTyped
    <2>2. outputPackets' \in Seq(Nat \X Packet)
      BY <1>2, <1>8
    <2> QED
      BY <1>8, <1>9, <1>13, <2>1, <2>2 DEF RouterIInv, RoutingTyped
  <1>15. NothingMoved'
    BY DEF NothingMoved
  <1>16. InOrder'
    <2> SUFFICES ASSUME NEW q \in Queue PROVE InLine(received, Lane(q), arrivedPacket, outputPackets)'
      BY DEF InOrder
    <2> DEFINE a == arrivedPacket
               b == arrivedPacket'
               l == Lane(q)
    <2>1. InLine(received, l, a, s) /\ (b = a \/ (a = NoPacket /\ b = s[1][2]))
      BY <1>8 DEF RouterIInv, InOrder, s, p
    <2>2. InLine(received, l, b, Tail(s))
      <3> HIDE DEF a, b, l
      <3> QED
        BY <1>1, <2>1, LineAtForwarding
    <2> QED
      BY <1>8, <1>9, <2>2
  <1>17. ByTheTable'
    <2>1. arrivedPacket' # NoPacket => FlowOf[arrivedPacket'] \in FlowsHere
      <3>1. OutPorts(f)[i] = ThisPort => f \in FlowsHere
        BY <1>4 DEF FlowsHere
      <3> QED
        BY <1>8, <3>1 DEF RouterIInv, ByTheTable, f
    <2>2. ASSUME NEW k \in DOMAIN outputPackets'
          PROVE  /\ FlowOf[outputPackets'[k][2]] \in Flow
                 /\ outputPackets'[k][1] \in DOMAIN OutPorts(FlowOf[outputPackets'[k][2]])
      <3>1. k + 1 \in DOMAIN s /\ Tail(s)[k] = s[k + 1]
        BY <1>1, <1>8, <2>2
      <3> QED
        BY <1>8, <3>1 DEF RouterIInv, ByTheTable, s
    <2> QED
      BY <1>9, <1>10, <2>1, <2>2 DEF RouterIInv, ByTheTable
  <1>18. RoundRobin'
    <2> SUFFICES ASSUME NEW g \in Flow
                 PROVE  Rotates(g, outputPackets', Len(OutPorts(g)), lastIndex[g], forwarded'[g])
      BY <1>8, <1>10 DEF RoundRobin
    <2> DEFINE last == lastIndex[g]
    <2>1. CASE g = f
      <3>1. Rotates(f, s, n, last, sent)
        BY <1>4, <1>6, <2>1 DEF n, sent
      <3> HIDE DEF last
      <3>2. Rotates(f, Tail(s), n, last, more)
        BY <1>1, <1>5, <1>m, <3>1, RotatesAtForwarding
      <3> QED
        BY <1>8, <1>13, <2>1, <3>2 DEF last, n
    <2>2. CASE g # f
      <3> DEFINE m == Len(OutPorts(g))
                 old == forwarded[g]
      <3>1. Rotates(g, s, m, last, old) /\ FlowOf[s[1][2]] # g
        BY <1>6, <1>m, <2>2
      <3> HIDE DEF m, last, old
      <3>2. Rotates(g, Tail(s), m, last, old)
        BY <1>1, <3>1, RotatesPastOthers
      <3> QED
        BY <1>8, <1>13, <2>2, <3>2 DEF last, m, old
    <2> QED
      BY <2>1, <2>2
  <1>19. TableIInv'
    BY TableRests DEF RouterIInv
  <1> QED
    BY <1>14, <1>15, <1>16, <1>17, <1>18, <1>19

(* The port makes a step of its own.                                       *)
LEMMA PortPreserves ==
  ASSUME RouterIInv, PortIInv, phase = "running", Engine,
         UNCHANGED <<phase, tableVars, outputPackets, lastIndex, received, forwarded>>,
         instant' \in {"fresh", "stepped"}, burst' \in Nat
  PROVE  RoutingTyped' /\ NothingMoved' /\ InOrder' /\ ByTheTable' /\ RoundRobin' /\ TableIInv'
  <1>1. FlowsHere' = FlowsHere /\ \A f \in Flow : OutPorts(f)' = OutPorts(f)
    BY TableStays
  <1>2. /\ unsent' = unsent
        /\ \/ ~SelectStep /\ arrivedPacket' = arrivedPacket
           \/ SelectStep /\ arrivedPacket \in Packet /\ arrivedPacket' = NoPacket
    BY EngineKeeps
  <1>3. \A q \in Queue : /\ delivered'[q] \in Seq(Packet) /\ Contents(q)' \in Seq(Packet)
                         /\ Lane(q)' = Lane(q) \/ (SelectStep /\ Lane(q)' = Append(Lane(q), arrivedPacket))
    BY LaneMoves DEF RouterIInv, RoutingTyped
  <1>4. RoutingTyped'
    BY <1>2, <1>3 DEF RouterIInv, RoutingTyped
  <1>5. NothingMoved'
    BY DEF NothingMoved
  <1>6. InOrder'
    BY OrderInPort DEF RouterIInv
  <1>7. ByTheTable'
    <2>1. ASSUME NEW q \in Queue, NEW i \in DOMAIN Lane(q)' PROVE FlowOf[Lane(q)'[i]] \in FlowsHere
      <3> DEFINE l == Lane(q)
                 a == arrivedPacket
      <3>1. l \in Seq(Packet) /\ \A j \in DOMAIN l : FlowOf[l[j]] \in FlowsHere
        BY DEF RouterIInv, RoutingTyped, ByTheTable, Lane
      <3>2. CASE Lane(q)' = l
        BY <2>1, <3>1, <3>2
      <3>3. CASE SelectStep /\ Lane(q)' = Append(l, a)
        <4>1. a \in Packet /\ FlowOf[a] \in FlowsHere
          BY <1>2, <3>3, PortAssumption DEF RouterIInv, ByTheTable
        <4> HIDE DEF l, a
        <4>2. /\ DOMAIN l = 1 .. Len(l) /\ DOMAIN Append(l, a) = 1 .. Len(l) + 1
              /\ Append(l, a)[Len(l) + 1] = a /\ \A j \in 1 .. Len(l) : Append(l, a)[j] = l[j]
              /\ \A j \in 1 .. Len(l) + 1 : j \in 1 .. Len(l) \/ j = Len(l) + 1
          BY <3>1, <4>1, AppendFacts
        <4> QED
          BY <2>1, <3>1, <3>3, <4>1, <4>2
      <3> QED
        BY <1>3, <3>2, <3>3
    <2>2. arrivedPacket' # NoPacket => FlowOf[arrivedPacket'] \in FlowsHere
      BY <1>2 DEF RouterIInv, ByTheTable
    <2> QED
      BY <1>1, <2>1, <2>2 DEF RouterIInv, ByTheTable
  <1>8. RoundRobin'
    BY <1>1 DEF RouterIInv, RoundRobin
  <1>9. TableIInv'
    BY TableRests DEF RouterIInv
  <1> QED
    BY <1>4, <1>5, <1>6, <1>7, <1>8, <1>9

LEMMA LoadPreserves == ASSUME RouterIInv, LoadTable PROVE RouterIInv'
  <1>1. phase = "loading" /\ UNCHANGED <<vars, phase, routingVars>>
    BY DEF LoadTable
  <1>2. TableIInv'
    <2>1. ASSUME NEW e \in Routes, addEntry(e.flow, e.node, e.port) PROVE TableIInv'
      <3>1. e.flow \in Flow /\ e.node \in Node /\ e.port \in Port
        BY RouterAssumption DEF Entry
      <3> QED
        BY <2>1, <3>1, AddEntryKeeps DEF RouterIInv
    <2> QED
      BY <2>1, EmptyTableKeeps DEF LoadTable
  <1>3. /\ UNCHANGED <<queueVars, outputEvents, linkVars, arrivedPacket, error, unsent, forcedPeriod, portVars>>
        /\ UNCHANGED <<outputPackets, lastIndex, instant, burst, received, forwarded>>
    BY <1>1 DEF vars, portVars, routingVars
  <1>4. \A q \in Queue : Lane(q)' = Lane(q) /\ delivered'[q] = delivered[q] /\ Contents(q)' = Contents(q)
    BY <1>3, LanesRest
  <1>5. outputPackets = <<>> /\ arrivedPacket = NoPacket /\ \A q \in Queue : Lane(q) = <<>>
    BY <1>1 DEF RouterIInv, NothingMoved
  <1>6. RoutingTyped'
    BY <1>1, <1>3, <1>4 DEF RouterIInv, RoutingTyped
  <1>7. NothingMoved'
    BY <1>1, <1>3, <1>4 DEF RouterIInv, NothingMoved
  <1>8. InOrder'
    BY <1>3, <1>4 DEF RouterIInv, InOrder
  <1>9. ByTheTable'
    <2>1. DOMAIN outputPackets' = {} /\ \A q \in Queue : DOMAIN Lane(q)' = {}
      BY <1>3, <1>4, <1>5
    <2> QED
      BY <1>3, <1>5, <2>1 DEF ByTheTable
  <1>10. RoundRobin'
    BY <1>1 DEF RoundRobin
  <1>11. BurstCounts'
    BY <1>3 DEF RouterIInv, BurstCounts, PreemptedOnlyByBurst
  <1>12. PortSafe'
    BY <1>1, <1>3, NextPortIInv DEF RouterIInv, PortSafe
  <1> QED
    BY <1>2, <1>6, <1>7, <1>8, <1>9, <1>10, <1>11, <1>12 DEF RouterIInv

LEMMA StartPreserves == ASSUME RouterIInv, StartSimulation PROVE RouterIInv'
  <1>1. /\ phase = "loading" /\ phase' = "running" /\ UNCHANGED <<vars, tableVars>>
        /\ UNCHANGED <<outputPackets, lastIndex, instant, burst, received>>
        /\ forwarded' = [f \in Flow |-> [i \in DOMAIN OutPorts(f) |-> 0]]
    BY DEF StartSimulation
  <1>2. UNCHANGED <<queueVars, outputEvents, linkVars, arrivedPacket, error, unsent, forcedPeriod, portVars>>
    BY <1>1 DEF vars, portVars
  <1>3. \A q \in Queue : Lane(q)' = Lane(q) /\ delivered'[q] = delivered[q] /\ Contents(q)' = Contents(q)
    BY <1>2, LanesRest
  <1>4. FlowsHere' = FlowsHere /\ \A f \in Flow : OutPorts(f)' = OutPorts(f)
    BY <1>1, TableStays
  <1>5. outputPackets = <<>> /\ lastIndex = [f \in Flow |-> 0]
    BY <1>1 DEF RouterIInv, NothingMoved
  <1>6. ASSUME NEW f \in Flow
        PROVE  /\ forwarded'[f] \in Seq(Nat)
               /\ Rotates(f, outputPackets', Len(OutPorts(f)), lastIndex'[f], forwarded'[f])
    <2> DEFINE n == Len(OutPorts(f))
               sent == [i \in 1 .. n |-> 0]
    <2>1. OutPorts(f) \in Seq(Port)
      BY PortsTyped DEF RouterIInv
    <2>2. n \in Nat /\ DOMAIN OutPorts(f) = 1 .. n
      BY <2>1
    <2>3. forwarded'[f] = sent /\ lastIndex'[f] = 0 /\ DOMAIN outputPackets' = {}
      BY <1>1, <1>5, <2>2
    <2> HIDE DEF n
    <2>4. sent \in [1 .. n -> Nat] /\ sent \in Seq(Nat) /\ 0 \in 0 .. n
      BY <2>2
    <2>5. Turn(sent, 0)
      <3>1. \A j \in DOMAIN sent : sent[j] = IF j <= 0 THEN 0 + 1 ELSE 0
        BY <2>2
      <3> QED
        BY <3>1 DEF Turn
    <2> HIDE DEF sent
    <2> QED
      BY <2>3, <2>4, <2>5 DEF Rotates, n
  <1>7. RoutingTyped'
    <2>1. forwarded' \in [Flow -> Seq(Nat)]
      BY <1>1, <1>6
    <2> QED
      BY <1>1, <1>2, <1>3, <2>1 DEF RouterIInv, RoutingTyped
  <1>8. NothingMoved'
    BY <1>1 DEF NothingMoved
  <1>9. InOrder'
    BY <1>1, <1>2, <1>3 DEF RouterIInv, InOrder
  <1>10. ByTheTable'
    BY <1>1, <1>2, <1>3, <1>4 DEF RouterIInv, ByTheTable
  <1>11. RoundRobin'
    BY <1>4, <1>6 DEF RoundRobin
  <1>12. BurstCounts'
    BY <1>1, <1>2 DEF RouterIInv, BurstCounts, PreemptedOnlyByBurst
  <1>13. PortSafe'
    BY <1>1, <1>2, NextPortIInv DEF RouterIInv, PortSafe
  <1>14. TableIInv'
    BY <1>1, TableRests DEF RouterIInv
  <1> QED
    BY <1>7, <1>8, <1>9, <1>10, <1>11, <1>12, <1>13, <1>14 DEF RouterIInv

(* The port is not concerned when Routing receives a packet.               *)
LEMMA PortWhileReceiving ==
  ASSUME RouterIInv, Running, UNCHANGED <<portVars, forcedPeriod>>, unsent' \subseteq Packet,
         error' \in {NoError, "Router::dext"}
  PROVE  PortSafe'
  <1> SUFFICES ASSUME error' = NoError PROVE PortIInv'
    BY DEF PortSafe
  <1>1. PortIInv
    BY DEF RouterIInv, PortSafe, Running, NoError
  <1>2. TypeOK'
    BY <1>1 DEF PortIInv, TypeOK, portVars, queueVars, linkVars, schedVars, requestVars, SchedTypeOK, NoError
  <1>3. OnlyPreemptionThrows'
    BY DEF OnlyPreemptionThrows, NoError
  <1> QED
    BY <1>1, <1>2, <1>3, PortAtRest DEF portVars

(* A packet reaches Routing, before or after the router's own steps.       *)
LEMMA ReceivePreserves ==
  ASSUME RouterIInv, phase = "running", UNCHANGED <<tableVars, phase>>,
         NEW p \in Packet, ReceiveBefore(p) \/ ReceiveAfter(p)
  PROVE  RouterIInv'
  <1>1. /\ Running /\ unsent' \subseteq Packet /\ forcedPeriod' = forcedPeriod /\ RoutingDext(p)
        /\ instant' \in {"fresh", "stepped"} /\ instant \in {"fresh", "stepped"} /\ burst \in Nat
        /\ received \in Seq(Packet) /\ outputPackets \in Seq(Nat \X Packet)
        /\ \/ instant = "fresh" /\ burst' = burst + (Len(received') - Len(received)) /\ instant' = instant
           \/ outputPackets = <<>> /\ arrivedPacket = NoPacket /\ burst' = burst /\ instant' = "stepped"
    BY DEF RouterIInv, RoutingTyped, ReceiveBefore, ReceiveAfter, RoutingIdle, Quiescent, SchedIdle, QueuesIdle, SelectIdle
  <1>2. error' \in {NoError, "Router::dext"} /\ UNCHANGED portVars
    BY <1>1 DEF RoutingDext, Throw, Running
  <1>3. PortSafe'
    BY <1>1, <1>2, PortWhileReceiving
  <1>4. PreemptedOnlyByBurst'
    BY <1>2 DEF PreemptedOnlyByBurst, NoError
  <1>5. arrivedPacket' = arrivedPacket
    BY <1>2 DEF portVars
  <1>6. CASE UNCHANGED <<outputPackets, lastIndex, received, forwarded>>
    <2>1. burst' = burst
      BY <1>1, <1>6
    <2>2. RoutingTyped' /\ NothingMoved' /\ InOrder' /\ ByTheTable' /\ RoundRobin' /\ TableIInv'
      BY <1>1, <1>2, <1>6, <2>1, RestPreserves
    <2>3. BurstCounts'
      BY <1>1, <1>4, <1>5, <1>6, <2>1 DEF RouterIInv, BurstCounts
    <2> QED
      BY <1>3, <2>2, <2>3 DEF RouterIInv
  <1>7. CASE /\ FlowOf[p] \in Flow /\ OutPorts(FlowOf[p]) # <<>>
             /\ lastIndex' = [lastIndex EXCEPT ![FlowOf[p]] = applyLoadBalancingPolicy(FlowOf[p])]
             /\ outputPackets' = Append(outputPackets, <<applyLoadBalancingPolicy(FlowOf[p]), p>>)
             /\ received' = Append(received, p) /\ UNCHANGED <<portVars, forwarded>>
    <2>1. Len(received') - Len(received) = 1
      BY <1>1, <1>7
    <2>2. burst' \in Nat
      BY <1>1, <2>1
    <2>3. RoutingTyped' /\ NothingMoved' /\ InOrder' /\ ByTheTable' /\ RoundRobin' /\ TableIInv'
      BY <1>1, <1>7, <2>2, TakenPreserves
    <2>4. Len(outputPackets') = Len(outputPackets) + 1 /\ Len(outputPackets) \in Nat
      <3>1. outputPackets' \in Seq(Nat \X Packet)
        BY <2>3 DEF RoutingTyped
      <3> QED
        BY <1>1, <1>7, <3>1
    <2>5. BurstCounts'
      <3>1. CASE instant = "fresh" /\ burst' = burst + (Len(received') - Len(received)) /\ instant' = instant
        <4>1. Len(outputPackets) = burst /\ arrivedPacket = NoPacket
          BY <3>1 DEF RouterIInv, BurstCounts
        <4>2. Len(outputPackets') = burst'
          BY <1>1, <2>1, <2>4, <3>1, <4>1
        <4> QED
          BY <1>4, <1>5, <2>2, <4>1, <4>2 DEF BurstCounts
      <3>2. CASE outputPackets = <<>> /\ arrivedPacket = NoPacket /\ burst' = burst /\ instant' = "stepped"
        <4>1. Len(outputPackets') = 1
          BY <2>4, <3>2
        <4> QED
          BY <1>4, <1>5, <3>2, <4>1 DEF BurstCounts
      <3> QED
        BY <1>1, <3>1, <3>2
    <2> QED
      BY <1>3, <2>3, <2>5 DEF RouterIInv
  <1>8. \/ UNCHANGED <<outputPackets, lastIndex, received, forwarded>>
        \/ /\ FlowOf[p] \in Flow /\ OutPorts(FlowOf[p]) # <<>>
           /\ lastIndex' = [lastIndex EXCEPT ![FlowOf[p]] = applyLoadBalancingPolicy(FlowOf[p])]
           /\ outputPackets' = Append(outputPackets, <<applyLoadBalancingPolicy(FlowOf[p]), p>>)
           /\ received' = Append(received, p) /\ UNCHANGED <<portVars, forwarded>>
    <2>1. CASE FlowOf[p] = NoFlow
      BY <1>1, <1>2, <2>1 DEF RoutingDext
    <2>2. CASE FlowOf[p] # NoFlow /\ OutPorts(FlowOf[p]) = <<>>
      <3>1. Throw("Router::dext") /\ UNCHANGED <<outputPackets, lastIndex, received, forwarded>>
        BY <1>1, <2>2 DEF RoutingDext
      <3> QED
        BY <3>1
    <2>3. CASE FlowOf[p] # NoFlow /\ OutPorts(FlowOf[p]) # <<>>
      <3>1. FlowOf[p] \in Flow
        BY <2>3, RouterAssumption
      <3> QED
        BY <1>1, <2>3, <3>1 DEF RoutingDext
    <2> QED
      BY <2>1, <2>2, <2>3
  <1> QED
    BY <1>6, <1>7, <1>8

LEMMA ForwardStepPreserves ==
  ASSUME RouterIInv, phase = "running", ForwardStep, UNCHANGED <<tableVars, phase>>
  PROVE  RouterIInv'
  <1>1. RoutingTyped' /\ NothingMoved' /\ InOrder' /\ ByTheTable' /\ RoundRobin' /\ TableIInv'
    BY ForwardPreserves
  <1> DEFINE p == NextOutput[2]
  <1>2. /\ Running /\ outputPackets # <<>> /\ outputPackets' = Tail(outputPackets) /\ instant' = "stepped"
        /\ UNCHANGED <<forcedPeriod, unsent, burst>>
        /\ SelectDext(p) \/ UNCHANGED <<portVars, error>>
    BY DEF ForwardStep, StillPending
  <1>3. /\ outputPackets \in Seq(Nat \X Packet) /\ unsent \subseteq Packet /\ burst \in Nat
        /\ arrivedPacket \in Packet \cup {NoPacket}
    BY DEF RouterIInv, RoutingTyped
  <1>4. p \in Packet
    <2>1. Head(outputPackets) \in Nat \X Packet
      BY <1>2, <1>3
    <2> QED
      BY <2>1 DEF NextOutput
  <1>5. PortIInv
    BY <1>2 DEF RouterIInv, PortSafe, Running, NoError
  <1> HIDE DEF p
  <1>6. PortSafe'
    <2>1. CASE SelectDext(p)
      BY <1>2, <1>3, <1>4, <1>5, <2>1, SelectDextPreserves DEF PortSafe
    <2>2. CASE UNCHANGED <<portVars, error>>
      BY <1>2, <1>5, <2>2, NextPortIInv DEF PortSafe, vars
    <2> QED
      BY <1>2, <2>1, <2>2
  <1>7. BurstCounts'
    <2>1. Len(outputPackets) \in Nat \ {0} /\ Len(outputPackets') = Len(outputPackets) - 1
      BY <1>2, <1>3
    <2>2. burst' <= 1 => outputPackets' = <<>> /\ arrivedPacket = NoPacket
      <3> SUFFICES ASSUME burst <= 1 PROVE outputPackets' = <<>> /\ arrivedPacket = NoPacket
        BY <1>2
      <3>1. Len(outputPackets) <= 1 /\ (arrivedPacket # NoPacket => outputPackets = <<>>)
        BY DEF RouterIInv, BurstCounts
      <3>2. Len(outputPackets) = 1
        BY <2>1, <3>1
      <3> QED
        BY <1>2, <1>3, <3>1, <3>2
    <2>3. PreemptedOnlyByBurst'
      <3> SUFFICES ASSUME error' = "PacketPrioritySelect::dext" PROVE burst' >= 2
        BY DEF PreemptedOnlyByBurst
      <3>1. arrivedPacket # NoPacket
        BY <1>2 DEF SelectDext, Running, NoError
      <3> QED
        BY <1>2, <1>3, <2>2, <3>1
    <2>4. Len(<<>>) <= 1
      OBVIOUS
    <2> QED
      BY <1>2, <2>2, <2>3, <2>4 DEF BurstCounts
  <1> QED
    BY <1>1, <1>6, <1>7 DEF RouterIInv

(* Only the end of a transmission makes the link's event current.          *)
LEMMA LinkIsTimed ==
  ASSUME Engine, linkNext = "later", linkNext' = "now"
  PROVE  arrivedPacket = NoPacket
  <1>1. ~LinkStep /\ ~SelectStep /\ ~SchedStep
    BY DEF LinkStep, SelectStep, SchedStep, linkVars
  <1>2. \A q \in Queue : ~QueueStep(q)
    BY DEF QueueStep, WakeUp, NotifySize, EmitPacket, EmitNothing, linkVars
  <1>3. ~DemuxStep
    BY DEF DemuxStep, Throw, portVars, linkVars
  <1>4. TransmissionEnds
    BY <1>1, <1>2, <1>3 DEF Engine
  <1> QED
    BY <1>4 DEF TransmissionEnds, Quiescent, SchedIdle, QueuesIdle, SelectIdle

LEMMA PortStepPreserves ==
  ASSUME RouterIInv, phase = "running", PortStep, UNCHANGED <<tableVars, phase>>
  PROVE  RouterIInv'
  <1>1. /\ outputPackets = <<>> /\ Engine /\ UNCHANGED <<outputPackets, lastIndex, received, forwarded>>
        /\ \/ linkNext = "later" /\ linkNext' = "now" /\ instant' = "fresh" /\ burst' = 0
           \/ instant' = "stepped" /\ burst' = burst
    BY DEF PortStep, RoutingIdle
  <1>2. Running
    BY <1>1 DEF Engine, LinkStep, SelectStep, QueueStep, WakeUp, NotifySize, EmitPacket, EmitNothing, QueueTurn,
                SchedStep, DemuxStep, TransmissionEnds
  <1>3. PortIInv
    BY <1>2 DEF RouterIInv, PortSafe, Running, NoError
  <1>4. /\ PortIInv' /\ error' \notin {"PacketPrioritySelect::dext", "Router::dext"}
        /\ arrivedPacket' = arrivedPacket \/ arrivedPacket' = NoPacket
    BY <1>1, <1>3, EngineKeeps
  <1>5. burst' \in Nat /\ instant' \in {"fresh", "stepped"}
    BY <1>1 DEF RouterIInv, RoutingTyped
  <1>6. RoutingTyped' /\ NothingMoved' /\ InOrder' /\ ByTheTable' /\ RoundRobin' /\ TableIInv'
    BY <1>1, <1>3, <1>5, PortPreserves
  <1>7. BurstCounts'
    <2>1. Len(outputPackets') = 0
      BY <1>1
    <2>2. PreemptedOnlyByBurst'
      BY <1>4 DEF PreemptedOnlyByBurst
    <2>3. instant' = "fresh" => burst' = 0 /\ arrivedPacket' = NoPacket
      BY <1>1, <1>4, LinkIsTimed
    <2> QED
      BY <1>1, <2>1, <2>2, <2>3 DEF BurstCounts
  <1> QED
    BY <1>4, <1>6, <1>7 DEF RouterIInv, PortSafe

LEMMA TimePreserves ==
  ASSUME RouterIInv, phase = "running", TimePasses, UNCHANGED <<tableVars, phase>>
  PROVE  RouterIInv'
  <1>1. /\ Running /\ outputPackets = <<>> /\ arrivedPacket = NoPacket /\ instant' = "fresh" /\ burst' = 0
        /\ UNCHANGED <<vars, outputPackets, lastIndex, received, forwarded>>
    BY DEF TimePasses, RoutingIdle, Quiescent, SchedIdle, QueuesIdle, SelectIdle
  <1>2. UNCHANGED <<portVars, arrivedPacket, error>> /\ unsent' \subseteq Packet
    BY <1>1 DEF vars, portVars, RouterIInv, RoutingTyped
  <1>3. RoutingTyped' /\ NothingMoved' /\ InOrder' /\ ByTheTable' /\ RoundRobin' /\ TableIInv'
    BY <1>1, <1>2, RestPreserves
  <1>4. BurstCounts'
    BY <1>1, <1>2 DEF BurstCounts, PreemptedOnlyByBurst, Running, NoError
  <1>5. PortSafe'
    BY <1>1, NextPortIInv DEF RouterIInv, PortSafe, vars
  <1> QED
    BY <1>3, <1>4, <1>5 DEF RouterIInv

LEMMA InitRouterIInv == RouterInit => RouterIInv
  <1> SUFFICES ASSUME RouterInit PROVE RouterIInv
    OBVIOUS
  <1>1. /\ Init /\ TableInit /\ phase = "loading" /\ outputPackets = <<>> /\ lastIndex = [f \in Flow |-> 0]
        /\ instant = "fresh" /\ burst = 0 /\ received = <<>> /\ forwarded = [f \in Flow |-> <<>>]
    BY DEF RouterInit
  <1>2. Answers[<<>>] = [q \in Queue |-> <<>>]
    <2>1. <<>> \in Seq(Packet \X Queue)
      OBVIOUS
    <2> QED
      BY <2>1, AnswersAreSeqs
  <1>3. ASSUME NEW q \in Queue PROVE delivered[q] = <<>> /\ Contents(q) = <<>>
    BY <1>1, <1>2 DEF Init, QueuesInit, LinkInit, DemuxInit, Contents, OnWire
  <1>4. ASSUME NEW q \in Queue PROVE Lane(q) = <<>>
    BY <1>3 DEF Lane
  <1>5. unsent \subseteq Packet /\ arrivedPacket = NoPacket /\ error = NoError
    BY <1>1 DEF Init, SelectInit
  <1>6. RoutingTyped
    <2>1. /\ \A q \in Queue : delivered[q] \in Seq(Packet) /\ Contents(q) \in Seq(Packet)
          /\ outputPackets \in Seq(Nat \X Packet) /\ received \in Seq(Packet)
      <3>1. <<>> \in Seq(Packet) /\ <<>> \in Seq(Nat \X Packet)
        OBVIOUS
      <3> QED
        BY <1>1, <1>3, <3>1, Zenon
    <2>2. lastIndex \in [Flow -> Nat] /\ forwarded \in [Flow -> Seq(Nat)]
      BY <1>1
    <2> QED
      BY <1>1, <1>5, <2>1, <2>2 DEF RoutingTyped
  <1>7. NothingMoved
    BY <1>1, <1>4, <1>5 DEF NothingMoved
  <1>8. DOMAIN outputPackets = {} /\ \A q \in Queue : DOMAIN Lane(q) = {}
    BY <1>1, <1>4
  <1>9. InOrder
    BY <1>5, <1>8 DEF InOrder, InLine
  <1>10. ByTheTable
    BY <1>5, <1>8 DEF ByTheTable
  <1>11. RoundRobin
    BY <1>1 DEF RoundRobin
  <1>12. BurstCounts
    BY <1>1, <1>5 DEF BurstCounts, PreemptedOnlyByBurst, NoError
  <1>13. PortSafe /\ TableIInv
    BY <1>1, InitPortIInv, TableInitInv DEF PortSafe
  <1> QED
    BY <1>6, <1>7, <1>9, <1>10, <1>11, <1>12, <1>13 DEF RouterIInv

LEMMA NextRouterIInv == RouterIInv /\ [RouterNext]_routerVars => RouterIInv'
  <1> SUFFICES ASSUME RouterIInv, [RouterNext]_routerVars PROVE RouterIInv'
    OBVIOUS
  <1>1. CASE LoadTable \/ StartSimulation
    BY <1>1, LoadPreserves, StartPreserves
  <1>2. CASE Simulate
    <2>1. phase = "running" /\ UNCHANGED <<tableVars, phase>>
      BY <1>2 DEF Simulate
    <2>2. CASE ForwardStep \/ PortStep \/ TimePasses
      BY <2>1, <2>2, ForwardStepPreserves, PortStepPreserves, TimePreserves
    <2>3. ASSUME NEW p \in Packet, ReceiveBefore(p) \/ ReceiveAfter(p) PROVE RouterIInv'
      BY <2>1, <2>3, ReceivePreserves
    <2> QED
      BY <1>2, <2>2, <2>3 DEF Simulate
  <1>3. CASE UNCHANGED routerVars
    <2>1. /\ UNCHANGED <<vars, tableVars, phase, outputPackets, lastIndex, instant, burst, received, forwarded>>
          /\ UNCHANGED <<portVars, error, unsent, arrivedPacket>>
      BY <1>3 DEF routerVars, routingVars, vars, portVars
    <2>2. unsent' \subseteq Packet /\ instant' \in {"fresh", "stepped"} /\ burst' \in Nat
      BY <2>1 DEF RouterIInv, RoutingTyped
    <2>3. RoutingTyped' /\ NothingMoved' /\ InOrder' /\ ByTheTable' /\ RoundRobin' /\ TableIInv'
      BY <2>1, <2>2, RestPreserves
    <2>4. BurstCounts'
      BY <2>1 DEF RouterIInv, BurstCounts, PreemptedOnlyByBurst
    <2>5. PortSafe'
      BY <2>1, NextPortIInv DEF RouterIInv, PortSafe
    <2> QED
      BY <2>3, <2>4, <2>5 DEF RouterIInv
  <1> QED
    BY <1>1, <1>2, <1>3 DEF RouterNext

-----------------------------------------------------------------------------
(* Whatever the flows, the table and the interleaving of neighbours,       *)
(* Routing and port: within a class of service packets leave the port in   *)
(* the order in which Router::dext received them.                          *)
THEOREM OrderIsKept == RouterSpec => []OrderPreserved
  <1>1. RouterIInv => OrderPreserved
    <2> SUFFICES ASSUME RouterIInv, NEW q \in Queue, NEW i \in DOMAIN delivered[q], NEW j \in DOMAIN delivered[q], i < j
                 PROVE  Before(received, delivered[q][i], delivered[q][j])
      BY DEF OrderPreserved, Before
    <2>1. InLine(received, Lane(q), arrivedPacket, outputPackets)
      BY DEF RouterIInv, InOrder
    <2>2. \A k \in DOMAIN delivered[q] : k \in DOMAIN Lane(q) /\ Lane(q)[k] = delivered[q][k]
      BY DEF RouterIInv, RoutingTyped, Lane
    <2> QED
      BY <2>1, <2>2 DEF InLine
  <1> QED
    BY <1>1, InitRouterIInv, NextRouterIInv, PTL DEF RouterSpec

(* applyLoadBalancingPolicy balances the load of every flow, for any       *)
(* number of flows and of entries per flow, although it decides when a     *)
(* packet is received and packets of all flows wait in one queue.          *)
THEOREM LoadIsBalanced == RouterSpec => []LoadBalanced
  <1>1. RouterIInv => LoadBalanced
    <2> SUFFICES ASSUME RouterIInv, NEW f \in Flow, NEW i \in DOMAIN forwarded[f], NEW j \in DOMAIN forwarded[f]
                 PROVE  forwarded[f][i] <= forwarded[f][j] + 1
      BY DEF LoadBalanced
    <2>1. CASE phase = "loading"
      <3>1. forwarded[f] = <<>>
        BY <2>1 DEF RouterIInv, NothingMoved
      <3> QED
        BY <3>1
    <2>2. CASE phase = "running"
      <3> DEFINE s == outputPackets
                 n == Len(OutPorts(f))
                 sent == forwarded[f]
      <3>1. Rotates(f, s, n, lastIndex[f], sent) /\ s \in Seq(Nat \X Packet)
        BY <2>2 DEF RouterIInv, RoundRobin, RoutingTyped
      <3> HIDE DEF s, n, sent
      <3>2. \E k : k \in Nat /\ Turn(sent, k)
        <4>1. CASE \A k \in DOMAIN s : ~OfFlow(f, s, k)
          <5>1. Turn(sent, lastIndex[f]) /\ lastIndex[f] \in 0 .. n
            BY <3>1, <4>1 DEF Rotates
          <5> QED
            BY <5>1
        <4>2. CASE \E k \in DOMAIN s : OfFlow(f, s, k)
          <5> DEFINE S == {k \in DOMAIN s : OfFlow(f, s, k)}
          <5>1. DOMAIN s \subseteq Nat
            BY <3>1
          <5>2. S \subseteq Nat /\ S # {}
            BY <4>2, <5>1
          <5>3. PICK k \in S : \A l \in S : k <= l
            <6> HIDE DEF S
            <6> QED
              BY <5>2, LeastExists
          <5>4. \A l \in DOMAIN s : l < k => ~OfFlow(f, s, l)
            BY <5>1, <5>3
          <5>5. FirstOf(f, s, k) /\ k \in DOMAIN s
            BY <5>3, <5>4 DEF FirstOf
          <5>6. PICK r \in 0 .. n : Turn(sent, r)
            BY <3>1, <5>5 DEF Rotates
          <5>7. r \in Nat
            BY <5>6
          <5> QED
            BY <5>6, <5>7
        <4> QED
          BY <4>1, <4>2
      <3>3. PICK k \in Nat : Turn(sent, k)
        BY <3>2
      <3>4. PICK c \in Nat : \A l \in DOMAIN sent : sent[l] = IF l <= k THEN c + 1 ELSE c
        BY <3>3 DEF Turn
      <3> QED
        BY <3>4 DEF sent
    <2> QED
      BY <2>1, <2>2 DEF RouterIInv, RoutingTyped
  <1> QED
    BY <1>1, InitRouterIInv, NextRouterIInv, PTL DEF RouterSpec

(* PacketPrioritySelect::dext throws only when Routing received two or     *)
(* more packets at one time from neighbours that precede the router in the *)
(* root coupling.                                                          *)
THEOREM BurstsAlonePreempt == RouterSpec => []PreemptedOnlyByBurst
  <1>1. RouterIInv => PreemptedOnlyByBurst
    BY DEF RouterIInv, BurstCounts
  <1> QED
    BY <1>1, InitRouterIInv, NextRouterIInv, PTL DEF RouterSpec

(* For all names of flows and nodes, and every sequence of addEntry and    *)
(* emptyTable: routes are found as they were added, and packets leave      *)
(* only where a route of their own flow leads.                             *)
THEOREM RoutingIsExact == RouterSpec => []RoutesExact
  <1>1. RouterIInv => RoutesExact
    <2> SUFFICES ASSUME RouterIInv PROVE RoutesExact
      OBVIOUS
    <2>1. TableIInv
      BY DEF RouterIInv
    <2>2. RoutesFound
      BY <2>1 DEF TableIInv, RoutesFound
    <2>3. OwnRoutesOnly
      BY <2>1, EntryOfItsFlow DEF OwnRoutesOnly
    <2>4. ASSUME NEW q \in Queue, NEW i \in DOMAIN delivered[q], Unambiguous(FlowOf[delivered[q][i]], ThisNode)
          PROVE  [flow |-> FlowOf[delivered[q][i]], node |-> ThisNode, port |-> ThisPort] \in requested
      <3>1. i \in DOMAIN Lane(q) /\ Lane(q)[i] = delivered[q][i]
        BY DEF RouterIInv, RoutingTyped, Lane
      <3> DEFINE f == FlowOf[delivered[q][i]]
      <3>2. f \in FlowsHere
        BY <3>1 DEF RouterIInv, ByTheTable
      <3> HIDE DEF f
      <3>3. f \in Flow
        BY <3>2 DEF FlowsHere
      <3>4. PICK k \in DOMAIN getOutPorts(f, ThisNode) : getOutPorts(f, ThisNode)[k] = ThisPort
        BY <3>2 DEF FlowsHere, OutPorts
      <3>5. [flow |-> f, node |-> ThisNode, port |-> getOutPorts(f, ThisNode)[k]] \in requested
        BY <2>1, <2>4, <3>3, EntryOfItsFlow, RouterAssumption DEF f
      <3> QED
        BY <3>4, <3>5 DEF f
    <2> QED
      BY <2>2, <2>3, <2>4 DEF RoutesExact, RoutedAsConfigured
  <1> QED
    BY <1>1, InitRouterIInv, NextRouterIInv, PTL DEF RouterSpec
=============================================================================
