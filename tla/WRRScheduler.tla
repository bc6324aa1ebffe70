---------------------------- MODULE WRRScheduler ----------------------------
(***************************************************************************)
(* The weighted round robin scheduler of a router's egress port            *)
(* (PhaseI/WRRScheduler.cpp).  Port 0 brings the size of a queue after     *)
(* every change, port 1 the link's request for a packet.  A request is     *)
(* passed on at once to the queue whose turn it is, skipping empty queues, *)
(* or delayed until some queue reports a packet.                           *)
(*                                                                         *)
(* EgressPort composes these operators with the queues and the link;       *)
(* SchedulerDriver runs the scheduler alone, as its unit tests do.         *)
(***************************************************************************)
EXTENDS Integers

CONSTANTS N,         \* nQueues
          Weight     \* queueWeights, truncated to int when they are used

Queue == 0 .. N - 1

ASSUME SchedAssumption ==
    /\ N \in Nat \ {0}
    /\ Weight \in [Queue -> Nat]

VARIABLES
    WRRQueueIndex,     \* the queue whose turn it is
    pendingWeight,     \* pendingWeightForCurrentIndex
    knownSize,         \* queueSizes_bytes
    delayedRequest,    \* delayedRequestPending
    schedNext,         \* sigma: 0 ("now") or infinity ("never")
    bypassed           \* history: queue -> times others were chosen while it waited

requestVars == <<WRRQueueIndex, pendingWeight, delayedRequest, schedNext, bypassed>>
schedVars   == <<requestVars, knownSize>>

(* WRRScheduler::init.                                                     *)
SchedInit ==
    /\ WRRQueueIndex = 0
    /\ pendingWeight = Weight[0]
    /\ knownSize = [q \in Queue |-> 0]
    /\ delayedRequest = "no"
    /\ schedNext = "never"
    /\ bypassed = [q \in Queue |-> 0]

Lowest(S) == CHOOSE i \in S : \A j \in S : i <= j

FirstCandidate_NeverMoves == WRRQueueIndex

FirstCandidate == IF pendingWeight = 0 THEN WRRQueueIndex + 1 ELSE WRRQueueIndex

(* getNextWRRIndex: the first non-empty queue from the candidate on,       *)
(* wrapping around; -1 when all are empty.                                 *)
getNextWRRIndex(sizes) ==
    LET nonEmpty == {i \in Queue : sizes[i] # 0}
        ahead == {i \in nonEmpty : i >= FirstCandidate}
    IN  IF ahead # {} THEN Lowest(ahead)
        ELSE IF nonEmpty # {} THEN Lowest(nonEmpty)
        ELSE -1

(* Served or empty queues wait for nobody; any other is passed over once   *)
(* more when queue i is chosen.                                            *)
Bypass(i, sizes) ==
    [q \in Queue |-> IF q = i \/ sizes[q] = 0 THEN 0 ELSE bypassed[q] + 1]

dext_dequeRequest(sizes) ==
    LET i == getNextWRRIndex(sizes)
    IN  IF i >= 0
        THEN /\ WRRQueueIndex' = i
             /\ pendingWeight' = (IF pendingWeight = 0 THEN Weight[i] ELSE pendingWeight) - 1
             /\ schedNext' = "now"
             /\ delayedRequest' = "no"
             /\ bypassed' = Bypass(i, sizes)
        ELSE /\ WRRQueueIndex' = 0
             /\ pendingWeight' = Weight[0]
             /\ schedNext' = "never"
             /\ delayedRequest' = "yes"
             /\ bypassed' = [q \in Queue |-> 0]

dext_queueSize_StaysDelayed(q, size) ==
    /\ knownSize' = [knownSize EXCEPT ![q] = size]
    /\ UNCHANGED requestVars

(* A new size of queue q; it may release a delayed request.                *)
dext_queueSize(q, size) ==
    /\ knownSize' = [knownSize EXCEPT ![q] = size]
    /\ IF delayedRequest = "yes" /\ size # 0
       THEN dext_dequeRequest(knownSize')
       ELSE UNCHANGED requestVars

(* The check that guards port 1: a request while one is still in the       *)
(* scheduler throws.                                                       *)
RequestOutstanding == schedNext = "now" \/ delayedRequest = "yes"

(* WRRScheduler::dint, after lambda has sent the request to WRRQueueIndex. *)
SchedDint ==
    /\ schedNext' = "never"
    /\ UNCHANGED <<WRRQueueIndex, pendingWeight, delayedRequest, bypassed, knownSize>>

-----------------------------------------------------------------------------
(* Properties *)

SchedTypeOK ==
    /\ WRRQueueIndex \in Queue
    /\ pendingWeight \in Int
    /\ knownSize \in [Queue -> Nat]
    /\ delayedRequest \in {"yes", "no"}
    /\ schedNext \in {"now", "never"}
    /\ bypassed \in [Queue -> Nat]

(* A delayed request means that every queue is known to be empty, and it   *)
(* is delayed, not also sent: the first packet to be reported releases it. *)
DelayedOnlyWhenEmpty ==
    delayedRequest = "yes" => schedNext = "never" /\ \A q \in Queue : knownSize[q] = 0

(* With weights of at least one, a queue that keeps reporting packets is   *)
(* passed over at most (N - 1) * largest weight times: no starvation, even *)
(* though a queue that runs empty leaves the rest of its weight to the     *)
(* next one.                                                               *)
MaxWeight == CHOOSE w \in {Weight[q] : q \in Queue} : \A q \in Queue : Weight[q] <= w
BypassBound ==
    (\A q \in Queue : Weight[q] > 0) =>
        \A q \in Queue : bypassed[q] <= (N - 1) * MaxWeight

(* What holds between two events of the scheduler: its index names a queue *)
(* whatever sizes it is told of, and it holds a request back only while it *)
(* knows of no packet.                                                     *)
SchedInv == SchedTypeOK /\ DelayedOnlyWhenEmpty
=============================================================================
