--------------------------- MODULE PipelineProofs ---------------------------
(***************************************************************************)
(* For every number of PUs, ROSes, ROBs and credits, every threshold and   *)
(* however requests and fragments of all PUs interleave and are reordered: *)
(* a PU's event is in one stage of its pipeline at a time, an event that   *)
(* is built has every fragment exactly once, and the account of DcmApp's   *)
(* credits is right.                                                       *)
(***************************************************************************)
EXTENDS EventPipeline, FiniteSetTheorems, ProofFacts

-----------------------------------------------------------------------------
(* The inductive invariant: where the event of a PU can be.                *)

(* What L2TIterator takes for the sign of a new event.                     *)
Starts(it) == it.steps < 1 \/ it.info.size >= Threshold

(* The ROBs whose fragments the L2 steps before the current one gathered.  *)
Gathered(it) == IF Starts(it) THEN {} ELSE it.info.robs

(* A vector of fragments of an event, none of them twice.                  *)
Exact(i, e) == i = Info(e.id, i.robs)

(* The models of a PU.                                                     *)
PuState(p) ==
  [event |-> event[p], requester |-> requester[p], processing |-> processing[p], iterator |-> iterator[p],
   discard |-> discard[p], ebRequester |-> ebRequester[p], builder |-> builder[p], ebProcessing |-> ebProcessing[p]]

NotRequesting(s) == s.requester.state = "WAITING"
NotProcessing(s) ==
  s.processing.state = "WAITING_NEXT_JOB" /\ s.processing.waiting = {} /\ s.processing.received = NoInfo
NotIterating(s) == s.iterator.state = "never"
NotInL2(s) == NotRequesting(s) /\ NotProcessing(s) /\ NotIterating(s)
NotBuilding(s) ==
  s.ebRequester.state = "WAITING" /\ s.builder.state = "WAITING" /\ s.builder.waiting = {} /\ s.builder.info = NoInfo
NotAfterL2(s) == s.discard = <<>> /\ NotBuilding(s) /\ s.ebProcessing = NoInfo

Idle(s) == s.event.state = "idle" /\ Starts(s.iterator) /\ NotInL2(s) /\ NotAfterL2(s)

Requesting(s) ==
  /\ s.event.state = "busy" /\ s.requester.state = "REQUESTING"
  /\ s.requester.pending \cap Gathered(s.iterator) = {}
  /\ s.requester.requested = Gathered(s.iterator) \cup s.requester.pending
  /\ ~Starts(s.iterator) => Exact(s.iterator.info, s.event)
  /\ NotProcessing(s) /\ NotIterating(s) /\ NotAfterL2(s)

Processing(s) ==
  LET pr == s.processing
  IN  /\ s.event.state = "busy" /\ pr.state # "WAITING_NEXT_JOB"
      /\ pr.event = s.event.id
      /\ pr.state = "PROCESSING" => pr.waiting = {}
      /\ pr.waiting \cap pr.received.robs = {}
      /\ (pr.waiting \cup pr.received.robs) \cap Gathered(s.iterator) = {}
      /\ s.requester.requested = Gathered(s.iterator) \cup pr.waiting \cup pr.received.robs
      /\ pr.received.size = Cardinality(pr.received.robs)
      /\ ~Starts(s.iterator) => Exact(s.iterator.info, s.event)
      /\ NotRequesting(s) /\ NotIterating(s) /\ NotAfterL2(s)

Iterating(s) ==
  /\ s.event.state = "busy" /\ s.iterator.state = "now"
  /\ Exact(s.iterator.info, s.event) /\ s.requester.requested = s.iterator.info.robs
  /\ NotRequesting(s) /\ NotProcessing(s) /\ NotAfterL2(s)

Deciding(s) ==
  /\ s.event.state = "busy" /\ Starts(s.iterator)
  /\ s.discard # <<>> /\ Tail(s.discard) = <<>> /\ Exact(Head(s.discard), s.event)
  /\ NotInL2(s) /\ NotBuilding(s) /\ s.ebProcessing = NoInfo

(* EBRequester has the request, or EventBuilder waits for the answers.     *)
Building(s) ==
  LET bu == s.builder
  IN  /\ s.event.state = "busy" /\ Starts(s.iterator)
      /\ Exact(bu.info, s.event)
      /\ \/ /\ s.ebRequester.state = "REQUESTING" /\ s.ebRequester.event = s.event.id
            /\ s.ebRequester.pending = ROB \ bu.info.robs
            /\ bu.state = "WAITING" /\ bu.waiting = {}
         \/ /\ s.ebRequester.state = "WAITING"
            /\ bu.event = s.event.id /\ bu.waiting = ROB \ bu.info.robs
            /\ bu.state = "BUILDING_EVENT" /\ bu.next = "now" => BuiltWith(bu.info.size)
      /\ NotInL2(s) /\ s.discard = <<>> /\ s.ebProcessing = NoInfo

Built(s) ==
  /\ s.event.state = "busy" /\ Starts(s.iterator)
  /\ s.ebProcessing = Info(s.event.id, ROB)
  /\ NotInL2(s) /\ s.discard = <<>> /\ NotBuilding(s)

Somewhere(s) ==
  Idle(s) \/ Requesting(s) \/ Processing(s) \/ Iterating(s) \/ Deciding(s) \/ Building(s) \/ Built(s)

InOnePlace(p) == Somewhere(PuState(p))

PuIInv == PuTypeOK /\ \A p \in PU : InOnePlace(p)

-----------------------------------------------------------------------------
(* Vectors of fragments.                                                   *)

LEMMA RobsFinite == \A S \in SUBSET ROB : IsFiniteSet(S) /\ Cardinality(S) \in Nat
  BY PipelineAssumption, FS_Subset, FS_CardinalityType

LEMMA InfoTyped ==
  ASSUME NEW n \in Int, NEW S \in SUBSET ROB
  PROVE  Info(n, S) \in EventInfo /\ Info(n, S).event = n /\ Info(n, S).robs = S /\ Info(n, S).size = Cardinality(S)
  BY RobsFinite DEF Info, EventInfo

LEMMA NoInfoTyped == NoInfo \in EventInfo /\ NoInfo.robs = {} /\ NoInfo.size = 0 /\ NoInfo.event = -1
  <1>1. NoInfo \in EventInfo /\ NoInfo.event = -1 /\ NoInfo.robs = {} /\ NoInfo.size = Cardinality({})
    BY InfoTyped DEF NoInfo
  <1>2. Cardinality({}) = 0
    BY FS_EmptySet
  <1> QED
    BY <1>1, <1>2

(* An exact vector is not the empty one.                                   *)
LEMMA ExactFacts ==
  ASSUME NEW i \in EventInfo, NEW e \in EventOfPu
  PROVE  /\ Exact(i, e) <=> i.event = e.id /\ i.size = Cardinality(i.robs)
         /\ Exact(i, e) => i # NoInfo
  <1>1. i = [event |-> i.event, robs |-> i.robs, size |-> i.size] /\ e.id \in Nat
    BY DEF EventInfo, EventOfPu
  <1>2. Exact(i, e) <=> i.event = e.id /\ i.size = Cardinality(i.robs)
    BY <1>1 DEF Exact, Info
  <1>3. i.event = e.id => i # NoInfo
    BY <1>1, NoInfoTyped
  <1> QED
    BY <1>2, <1>3

(* The fragments of two vectors that share none.                           *)
LEMMA MergedCounts ==
  ASSUME NEW i \in EventInfo, NEW j \in EventInfo
  PROVE  /\ Merged(i, j) \in EventInfo
         /\ Merged(i, j).event = i.event /\ Merged(i, j).robs = i.robs \cup j.robs
         /\ i.size = Cardinality(i.robs) /\ j.size = Cardinality(j.robs) /\ i.robs \cap j.robs = {}
              => Merged(i, j).size = Cardinality(i.robs \cup j.robs)
  <1>1. i.robs \in SUBSET ROB /\ j.robs \in SUBSET ROB /\ i.event \in Int /\ i.size \in Nat /\ j.size \in Nat
    BY DEF EventInfo
  <1>2. /\ Merged(i, j) \in EventInfo /\ Merged(i, j).event = i.event
        /\ Merged(i, j).robs = i.robs \cup j.robs /\ Merged(i, j).size = i.size + j.size
    BY <1>1 DEF Merged, EventInfo
  <1>3. ASSUME i.robs \cap j.robs = {}
        PROVE  Cardinality(i.robs \cup j.robs) = Cardinality(i.robs) + Cardinality(j.robs)
    <2>1. /\ IsFiniteSet(i.robs) /\ IsFiniteSet(j.robs)
          /\ Cardinality(i.robs) \in Nat /\ Cardinality(j.robs) \in Nat
      BY <1>1, RobsFinite
    <2>2. Cardinality(i.robs \cup j.robs) = Cardinality(i.robs) + Cardinality(j.robs) - Cardinality({})
      BY <1>3, <2>1, FS_Union
    <2> QED
      BY <2>1, <2>2, FS_EmptySet
  <1> QED
    BY <1>2, <1>3

(* One more fragment.                                                      *)
LEMMA OneMore ==
  ASSUME NEW i \in EventInfo, NEW n \in Int, NEW b \in ROB
  PROVE  /\ Merged(i, Info(n, {b})) \in EventInfo
         /\ Merged(i, Info(n, {b})).event = i.event /\ Merged(i, Info(n, {b})).robs = i.robs \cup {b}
         /\ i.size = Cardinality(i.robs) /\ b \notin i.robs => Merged(i, Info(n, {b})).size = Cardinality(i.robs \cup {b})
  <1>1. Info(n, {b}) \in EventInfo /\ Info(n, {b}).robs = {b} /\ Info(n, {b}).size = Cardinality({b})
    BY InfoTyped
  <1> DEFINE j == Info(n, {b})
  <1>2. j.size = Cardinality(j.robs) /\ (b \notin i.robs => i.robs \cap j.robs = {})
    BY <1>1
  <1> HIDE DEF j
  <1>3. /\ Merged(i, j) \in EventInfo
        /\ Merged(i, j).event = i.event /\ Merged(i, j).robs = i.robs \cup j.robs
        /\ i.size = Cardinality(i.robs) /\ b \notin i.robs => Merged(i, j).size = Cardinality(i.robs \cup j.robs)
    BY <1>1, <1>2, MergedCounts DEF j
  <1> QED
    BY <1>1, <1>3 DEF j

(* As many fragments as ROBs, none twice, are all of them.                 *)
LEMMA AllGathered ==
  ASSUME NEW in \in EventInfo, NEW e \in EventOfPu, Exact(in, e), BuiltWith(in.size)
  PROVE  in.robs = ROB
  <1>1. in.robs \in SUBSET ROB /\ in.size = Cardinality(in.robs)
    BY ExactFacts DEF EventInfo
  <1>2. /\ IsFiniteSet(ROB) /\ Cardinality(ROB) \in Nat /\ Cardinality(in.robs) \in Nat
        /\ Cardinality(in.robs) >= Cardinality(ROB)
    BY <1>1, RobsFinite DEF BuiltWith
  <1>3. Cardinality(in.robs) <= Cardinality(ROB) /\ (Cardinality(in.robs) = Cardinality(ROB) => in.robs = ROB)
    BY <1>1, <1>2, FS_Subset
  <1> QED
    BY <1>2, <1>3

(* The ROBs that L2TRequester selects were not requested before.           *)
LEMMA SelectionIsNew ==
  ASSUME NEW requested, NEW n, NEW S \in Selections(requested, n)
  PROVE  S \in SUBSET ROB /\ S \cap requested = {}
  <1>1. S \in SUBSET UNION {Selectable(requested)[r] : r \in ROS}
    BY DEF Selections
  <1>2. \A r \in ROS : Selectable(requested)[r] = RobIds[r] \ requested
    BY DEF Selectable
  <1> QED
    BY <1>1, <1>2 DEF ROB

-----------------------------------------------------------------------------
(* The models of a PU have their types.                                    *)
PuRecord ==
  [event : EventOfPu, requester : L2TRequester, processing : L2TProcessing, iterator : L2TIterator,
   discard : Seq(EventInfo), ebRequester : EBRequester, builder : EventBuilder, ebProcessing : EventInfo]

LEMMA StateTyped ==
  ASSUME PuIInv, NEW p \in PU
  PROVE  /\ PuState(p) \in PuRecord
         /\ PuState(p).event = event[p] /\ PuState(p).requester = requester[p] /\ PuState(p).processing = processing[p]
         /\ PuState(p).iterator = iterator[p] /\ PuState(p).discard = discard[p]
         /\ PuState(p).ebRequester = ebRequester[p] /\ PuState(p).builder = builder[p]
         /\ PuState(p).ebProcessing = ebProcessing[p]
  BY DEF PuIInv, PuTypeOK, PuState, PuRecord

(* A step in which PU p gets the state t and no other PU changes.          *)
Moves(p, t) ==
  /\ event' = [event EXCEPT ![p] = t.event]
  /\ requester' = [requester EXCEPT ![p] = t.requester]
  /\ processing' = [processing EXCEPT ![p] = t.processing]
  /\ iterator' = [iterator EXCEPT ![p] = t.iterator]
  /\ discard' = [discard EXCEPT ![p] = t.discard]
  /\ ebRequester' = [ebRequester EXCEPT ![p] = t.ebRequester]
  /\ builder' = [builder EXCEPT ![p] = t.builder]
  /\ ebProcessing' = [ebProcessing EXCEPT ![p] = t.ebProcessing]

LEMMA OnePuMoves ==
  ASSUME PuIInv, NEW p \in PU, NEW t \in PuRecord, Moves(p, t), Somewhere(t)
  PROVE  PuIInv'
  <1>1. /\ t.event \in EventOfPu /\ t.requester \in L2TRequester /\ t.processing \in L2TProcessing
        /\ t.iterator \in L2TIterator /\ t.discard \in Seq(EventInfo) /\ t.ebRequester \in EBRequester
        /\ t.builder \in EventBuilder /\ t.ebProcessing \in EventInfo
    BY DEF PuRecord
  <1>2. PuTypeOK
    BY DEF PuIInv
  <1>3. PuTypeOK'
    BY <1>1, <1>2 DEF PuTypeOK, Moves
  <1>4. PuState(p)' = t
    <2>1. /\ event'[p] = t.event /\ requester'[p] = t.requester /\ processing'[p] = t.processing
          /\ iterator'[p] = t.iterator /\ discard'[p] = t.discard /\ ebRequester'[p] = t.ebRequester
          /\ builder'[p] = t.builder /\ ebProcessing'[p] = t.ebProcessing
      BY <1>2 DEF PuTypeOK, Moves
    <2>2. t = [event |-> t.event, requester |-> t.requester, processing |-> t.processing, iterator |-> t.iterator,
               discard |-> t.discard, ebRequester |-> t.ebRequester, builder |-> t.builder, ebProcessing |-> t.ebProcessing]
      BY DEF PuRecord
    <2> QED
      BY <2>1, <2>2 DEF PuState
  <1>5. ASSUME NEW q \in PU, q # p PROVE PuState(q)' = PuState(q)
    BY <1>2, <1>5 DEF PuTypeOK, Moves, PuState
  <1>6. ASSUME NEW q \in PU PROVE Somewhere(PuState(q)')
    <2>1. CASE q = p
      BY <1>4, <2>1
    <2>2. CASE q # p
      <3>1. Somewhere(PuState(q))
        BY DEF PuIInv, InOnePlace
      <3> QED
        BY <1>5, <2>2, <3>1
    <2> QED
      BY <2>1, <2>2
  <1>7. \A q \in PU : InOnePlace(q)'
    BY <1>6 DEF InOnePlace
  <1> QED
    BY <1>3, <1>7 DEF PuIInv

(* What a PU's models tell about the place of its event.                   *)
LEMMA Places ==
  ASSUME PuIInv, NEW p \in PU
  PROVE  /\ event[p].state = "idle" => Idle(PuState(p))
         /\ requester[p].state = "REQUESTING" => Requesting(PuState(p))
         /\ processing[p].state # "WAITING_NEXT_JOB" \/ processing[p].waiting # {} => Processing(PuState(p))
         /\ iterator[p].state = "now" => Iterating(PuState(p))
         /\ discard[p] # <<>> => Deciding(PuState(p))
         /\ ebRequester[p].state = "REQUESTING" \/ builder[p].state = "BUILDING_EVENT" \/ builder[p].waiting # {}
              => Building(PuState(p))
         /\ ebProcessing[p] # NoInfo => Built(PuState(p))
  <1> DEFINE s == PuState(p)
  <1>1. /\ s.event = event[p] /\ s.requester = requester[p] /\ s.processing = processing[p] /\ s.iterator = iterator[p]
        /\ s.discard = discard[p] /\ s.ebRequester = ebRequester[p] /\ s.builder = builder[p]
        /\ s.ebProcessing = ebProcessing[p]
    BY DEF PuState
  <1>2. Somewhere(s)
    BY DEF PuIInv, InOnePlace
  <1> HIDE DEF s
  <1>3. Idle(s) \/ Requesting(s) \/ Processing(s) \/ Iterating(s) \/ Deciding(s) \/ Building(s) \/ Built(s)
    BY <1>2 DEF Somewhere
  <1>4. event[p].state = "idle" => Idle(s)
    BY <1>1, <1>3 DEF Requesting, Processing, Iterating, Deciding, Building, Built
  <1>5. requester[p].state = "REQUESTING" => Requesting(s)
    BY <1>1, <1>3 DEF Idle, Processing, Iterating, Deciding, Building, Built, NotInL2, NotRequesting
  <1>6. processing[p].state # "WAITING_NEXT_JOB" \/ processing[p].waiting # {} => Processing(s)
    BY <1>1, <1>3 DEF Idle, Requesting, Iterating, Deciding, Building, Built, NotInL2, NotProcessing
  <1>7. iterator[p].state = "now" => Iterating(s)
    BY <1>1, <1>3 DEF Idle, Requesting, Processing, Deciding, Building, Built, NotInL2, NotIterating
  <1>8. discard[p] # <<>> => Deciding(s)
    BY <1>1, <1>3 DEF Idle, Requesting, Processing, Iterating, Building, Built, NotAfterL2
  <1>9. ebRequester[p].state = "REQUESTING" \/ builder[p].state = "BUILDING_EVENT" \/ builder[p].waiting # {} => Building(s)
    BY <1>1, <1>3 DEF Idle, Requesting, Processing, Iterating, Deciding, Built, NotAfterL2, NotBuilding
  <1>10. ebProcessing[p] # NoInfo => Built(s)
    BY <1>1, <1>3 DEF Idle, Requesting, Processing, Iterating, Deciding, Building, NotAfterL2
  <1> QED
    BY <1>4, <1>5, <1>6, <1>7, <1>8, <1>9, <1>10 DEF s

-----------------------------------------------------------------------------
(* One lemma for each action.                                              *)

(* A new event, and the first request for it.                              *)
LEMMA AssignPreserves == ASSUME PuIInv, NEW p \in PU, AssignEvent(p) PROVE PuIInv'
  <1> DEFINE s == PuState(p)
  <1>1. s \in PuRecord
    BY StateTyped
  <1>2. Idle(s)
    BY Places DEF AssignEvent
  <1>0. PICK n \in L2Requests : \E S \in Selections({}, n) :
        requester' = [requester EXCEPT ![p] = [state |-> "REQUESTING", requested |-> {} \cup S, pending |-> S]]
    BY DEF AssignEvent, request
  <1>a. PICK S \in Selections({}, n) :
        requester' = [requester EXCEPT ![p] = [state |-> "REQUESTING", requested |-> {} \cup S, pending |-> S]]
    BY <1>0
  <1> DEFINE ev == [id |-> s.event.id + 1, state |-> "busy"]
             rq == [state |-> "REQUESTING", requested |-> {} \cup S, pending |-> S]
             t == [s EXCEPT !.event = ev, !.requester = rq]
  <1>3. Moves(p, t)
    BY StateTyped, <1>a DEF AssignEvent, Moves, PuIInv, PuTypeOK, PuState
  <1> HIDE DEF s
  <1>4. s.event.id \in Nat
    BY <1>1 DEF PuRecord, EventOfPu
  <1>5. ev \in EventOfPu /\ ev.state = "busy"
    BY <1>4 DEF EventOfPu
  <1>6. rq \in L2TRequester /\ rq.state = "REQUESTING" /\ rq.requested = S /\ rq.pending = S
    BY SelectionIsNew DEF L2TRequester
  <1> HIDE DEF ev, rq
  <1>8. t \in PuRecord
    BY <1>1, <1>5, <1>6 DEF PuRecord
  <1>9. Requesting(t)
    <2>1. /\ t.event = ev /\ t.requester = rq /\ t.processing = s.processing /\ t.iterator = s.iterator
          /\ t.discard = s.discard /\ t.ebRequester = s.ebRequester /\ t.builder = s.builder /\ t.ebProcessing = s.ebProcessing
      BY <1>1 DEF PuRecord
    <2> HIDE DEF t
    <2> QED
      BY <1>2, <1>5, <1>6, <2>1 DEF Idle, Requesting, Gathered, NotInL2, NotProcessing, NotIterating, NotAfterL2, NotBuilding
  <1> QED
    BY <1>3, <1>8, <1>9, OnePuMoves DEF Somewhere

(* The request leaves, and L2TProcessing waits for the fragments.          *)
LEMMA RequesterStepPreserves == ASSUME PuIInv, NEW p \in PU, RequesterStep(p) PROVE PuIInv'
  <1> DEFINE s == PuState(p)
  <1>1. s \in PuRecord
    BY StateTyped
  <1>2. Requesting(s)
    BY Places DEF RequesterStep
  <1> DEFINE robs == s.requester.pending
             st == IF robs = {} THEN "PROCESSING" ELSE "WAITING_RESPONSE"
             id == s.event.id
             rq == [s.requester EXCEPT !.state = "WAITING", !.pending = {}]
             pr == [s.processing EXCEPT !.state = st, !.event = id, !.waiting = robs]
             t == [s EXCEPT !.requester = rq, !.processing = pr]
  <1>3. Moves(p, t)
    BY StateTyped DEF RequesterStep, Moves, PuIInv, PuTypeOK, PuState
  <1> HIDE DEF s
  <1>4. s.requester \in L2TRequester /\ s.processing \in L2TProcessing /\ id \in Int /\ robs \in SUBSET ROB
    BY <1>1 DEF PuRecord, EventOfPu, L2TRequester
  <1>5. rq \in L2TRequester /\ rq.state = "WAITING" /\ rq.requested = s.requester.requested
    BY <1>4 DEF L2TRequester
  <1>6. st \in {"PROCESSING", "WAITING_RESPONSE"} /\ (st = "PROCESSING" => robs = {})
    OBVIOUS
  <1> HIDE DEF st, robs, id
  <1>7. /\ pr \in L2TProcessing /\ pr.event = id /\ pr.waiting = robs /\ pr.received = s.processing.received
        /\ pr.state = st
    BY <1>4, <1>6 DEF L2TProcessing
  <1> HIDE DEF rq, pr
  <1>8. t \in PuRecord
    BY <1>1, <1>5, <1>7 DEF PuRecord
  <1>9. Processing(t)
    <2>1. /\ t.event = s.event /\ t.requester = rq /\ t.processing = pr /\ t.iterator = s.iterator
          /\ t.discard = s.discard /\ t.ebRequester = s.ebRequester /\ t.builder = s.builder /\ t.ebProcessing = s.ebProcessing
      BY <1>1 DEF PuRecord
    <2> HIDE DEF t
    <2>2. s.processing.received = NoInfo
      BY <1>2 DEF Requesting, NotProcessing
    <2>3. Cardinality({}) = 0
      BY FS_EmptySet
    <2>4. /\ s.event.state = "busy" /\ robs \cap Gathered(s.iterator) = {}
          /\ s.requester.requested = Gathered(s.iterator) \cup robs
          /\ ~Starts(s.iterator) => Exact(s.iterator.info, s.event)
          /\ NotIterating(s) /\ NotAfterL2(s)
      BY <1>2 DEF Requesting, robs
    <2>5. NotRequesting(t) /\ NotIterating(t) /\ NotAfterL2(t)
      BY <1>5, <2>1, <2>4 DEF NotRequesting, NotIterating, NotAfterL2, NotBuilding
    <2>6. pr.received.robs = {} /\ pr.received.size = 0
      BY <1>7, <2>2, NoInfoTyped
    <2>7. /\ t.event.state = "busy" /\ pr.state # "WAITING_NEXT_JOB" /\ pr.event = t.event.id
          /\ pr.state = "PROCESSING" => pr.waiting = {}
      BY <1>6, <1>7, <2>1, <2>4 DEF id
    <2>8. /\ pr.waiting \cap pr.received.robs = {}
          /\ (pr.waiting \cup pr.received.robs) \cap Gathered(t.iterator) = {}
      BY <1>7, <2>1, <2>4, <2>6
    <2>9. rq.requested = Gathered(t.iterator) \cup pr.waiting \cup pr.received.robs
      BY <1>5, <1>7, <2>1, <2>4, <2>6
    <2>10. pr.received.size = Cardinality(pr.received.robs)
      BY <2>3, <2>6
    <2>11. ~Starts(t.iterator) => Exact(t.iterator.info, t.event)
      BY <2>1, <2>4
    <2> QED
      BY <2>1, <2>5, <2>7, <2>8, <2>9, <2>10, <2>11 DEF Processing
  <1> QED
    BY <1>3, <1>8, <1>9, OnePuMoves DEF Somewhere

(* The event goes to packetDiscard.                                        *)
LEMMA DecidePreserves == ASSUME PuIInv, NEW p \in PU, Decide(p) PROVE PuIInv'
  <1> DEFINE s == PuState(p)
  <1>1. s \in PuRecord
    BY StateTyped
  <1>2. Iterating(s)
    BY Places DEF Decide
  <1> DEFINE it == [s.iterator EXCEPT !.state = "never"]
             di == Append(s.discard, s.iterator.info)
             t == [s EXCEPT !.iterator = it, !.discard = di]
  <1>3. Moves(p, t)
    BY StateTyped DEF Decide, Moves, PuIInv, PuTypeOK, PuState
  <1> HIDE DEF s
  <1>4. s.iterator \in L2TIterator /\ s.iterator.info \in EventInfo /\ s.discard \in Seq(EventInfo)
    BY <1>1 DEF PuRecord, L2TIterator
  <1>5. it \in L2TIterator /\ it.state = "never" /\ it.steps = s.iterator.steps /\ it.info = s.iterator.info
    BY <1>4 DEF L2TIterator
  <1>6. di \in Seq(EventInfo)
    BY <1>4
  <1>7. Starts(s.iterator) /\ di = <<s.iterator.info>>
    <2>1. s.iterator = iterator[p] /\ s.discard = <<>>
      BY <1>2, StateTyped DEF s, Iterating, NotAfterL2
    <2> QED
      BY <1>4, <2>1 DEF Decide, Starts
  <1> HIDE DEF it, di
  <1>8. t \in PuRecord
    BY <1>1, <1>5, <1>6 DEF PuRecord
  <1>9. Deciding(t)
    <2>1. /\ t.event = s.event /\ t.requester = s.requester /\ t.processing = s.processing /\ t.iterator = it
          /\ t.discard = di /\ t.ebRequester = s.ebRequester /\ t.builder = s.builder /\ t.ebProcessing = s.ebProcessing
      BY <1>1 DEF PuRecord
    <2> HIDE DEF t
    <2>2. Head(<<s.iterator.info>>) = s.iterator.info /\ Tail(<<s.iterator.info>>) = <<>> /\ <<s.iterator.info>> # <<>>
      OBVIOUS
    <2> QED
      BY <1>2, <1>5, <1>7, <2>1, <2>2 DEF Iterating, Deciding, Starts, NotInL2, NotRequesting, NotProcessing, NotIterating, NotAfterL2, NotBuilding
  <1> QED
    BY <1>3, <1>8, <1>9, OnePuMoves DEF Somewhere

(* Another L2 request.                                                     *)
LEMMA IteratePreserves == ASSUME PuIInv, NEW p \in PU, Iterate(p) PROVE PuIInv'
  <1> DEFINE s == PuState(p)
  <1>1. s \in PuRecord
    BY StateTyped
  <1>2. Iterating(s)
    BY Places DEF Iterate
  <1>0. PICK n \in L2Requests : \E S \in Selections(requester[p].requested, n) :
        requester' = [requester EXCEPT ![p] = [state |-> "REQUESTING", requested |-> requester[p].requested \cup S,
                                               pending |-> S]]
    BY DEF Iterate, request
  <1>a. PICK S \in Selections(requester[p].requested, n) :
        requester' = [requester EXCEPT ![p] = [state |-> "REQUESTING", requested |-> requester[p].requested \cup S,
                                               pending |-> S]]
    BY <1>0
  <1> DEFINE it == [s.iterator EXCEPT !.state = "never"]
             rq == [state |-> "REQUESTING", requested |-> s.requester.requested \cup S, pending |-> S]
             t == [s EXCEPT !.iterator = it, !.requester = rq]
  <1>3. Moves(p, t)
    BY StateTyped, <1>a DEF Iterate, Moves, PuIInv, PuTypeOK, PuState
  <1> HIDE DEF s
  <1>4. s.iterator \in L2TIterator /\ s.requester.requested \in SUBSET ROB
    BY <1>1 DEF PuRecord, L2TRequester
  <1>5. it \in L2TIterator /\ it.state = "never" /\ it.steps = s.iterator.steps /\ it.info = s.iterator.info
    BY <1>4 DEF L2TIterator
  <1>6. ~Starts(s.iterator) /\ S \in SUBSET ROB /\ S \cap s.requester.requested = {}
    <2>1. s.iterator = iterator[p] /\ s.requester = requester[p]
      BY StateTyped DEF s
    <2> QED
      BY <2>1, SelectionIsNew DEF Iterate, Starts
  <1>7. /\ rq \in L2TRequester /\ rq.state = "REQUESTING" /\ rq.requested = s.requester.requested \cup S
        /\ rq.pending = S
    BY <1>4, <1>6 DEF L2TRequester
  <1> HIDE DEF it, rq
  <1>8. t \in PuRecord
    BY <1>1, <1>5, <1>7 DEF PuRecord
  <1>9. Requesting(t)
    <2>1. /\ t.event = s.event /\ t.requester = rq /\ t.processing = s.processing /\ t.iterator = it
          /\ t.discard = s.discard /\ t.ebRequester = s.ebRequester /\ t.builder = s.builder /\ t.ebProcessing = s.ebProcessing
      BY <1>1 DEF PuRecord
    <2> HIDE DEF t
    <2>2. ~Starts(it)
      BY <1>5, <1>6 DEF Starts
    <2>3. Gathered(it) = s.requester.requested
      BY <1>2, <1>5, <2>2 DEF Gathered, Iterating
    <2> QED
      BY <1>2, <1>5, <1>6, <1>7, <2>1, <2>2, <2>3 DEF Iterating, Requesting, NotProcessing, NotIterating, NotAfterL2, NotBuilding
  <1> QED
    BY <1>3, <1>8, <1>9, OnePuMoves DEF Somewhere

(* The event is rejected.                                                  *)
LEMMA RejectPreserves == ASSUME PuIInv, NEW p \in PU, Reject(p) PROVE PuIInv'
  <1> DEFINE s == PuState(p)
  <1>1. s \in PuRecord
    BY StateTyped
  <1>2. Deciding(s)
    BY Places DEF Reject
  <1> DEFINE ev == [s.event EXCEPT !.state = "idle"]
             di == Tail(s.discard)
             t == [s EXCEPT !.event = ev, !.discard = di]
  <1>3. Moves(p, t)
    BY StateTyped DEF Reject, Moves, PuIInv, PuTypeOK, PuState
  <1> HIDE DEF s
  <1>4. s.event \in EventOfPu /\ s.discard \in Seq(EventInfo) /\ s.discard # <<>> /\ Tail(s.discard) = <<>>
    BY <1>1, <1>2 DEF PuRecord, Deciding
  <1>5. ev \in EventOfPu /\ ev.state = "idle"
    BY <1>4 DEF EventOfPu
  <1>6. di \in Seq(EventInfo) /\ di = <<>>
    BY <1>4
  <1> HIDE DEF ev, di
  <1>8. t \in PuRecord
    BY <1>1, <1>5, <1>6 DEF PuRecord
  <1>9. Idle(t)
    <2>1. /\ t.event = ev /\ t.requester = s.requester /\ t.processing = s.processing /\ t.iterator = s.iterator
          /\ t.discard = di /\ t.ebRequester = s.ebRequester /\ t.builder = s.builder /\ t.ebProcessing = s.ebProcessing
      BY <1>1 DEF PuRecord
    <2> HIDE DEF t
    <2> QED
      BY <1>2, <1>5, <1>6, <2>1 DEF Deciding, Idle, NotInL2, NotRequesting, NotProcessing, NotIterating, NotAfterL2, NotBuilding
  <1> QED
    BY <1>3, <1>8, <1>9, OnePuMoves DEF Somewhere

(* The event is accepted, and EBRequester asks for the rest.               *)
LEMMA AcceptPreserves == ASSUME PuIInv, NEW p \in PU, Accept(p) PROVE PuIInv'
  <1> DEFINE s == PuState(p)
  <1>1. s \in PuRecord
    BY StateTyped
  <1>2. Deciding(s)
    BY Places DEF Accept
  <1> DEFINE in == Head(s.discard)
             di == Tail(s.discard)
             eb == [state |-> "REQUESTING", event |-> in.event, pending |-> ROB \ in.robs]
             bu == [s.builder EXCEPT !.info = in]
             t == [s EXCEPT !.discard = di, !.ebRequester = eb, !.builder = bu]
  <1>3. Moves(p, t)
    BY StateTyped DEF Accept, Moves, PuIInv, PuTypeOK, PuState
  <1> HIDE DEF s
  <1>4. /\ s.builder \in EventBuilder /\ s.discard \in Seq(EventInfo) /\ s.discard # <<>>
        /\ Tail(s.discard) = <<>> /\ Exact(in, s.event)
    BY <1>1, <1>2 DEF PuRecord, Deciding
  <1>5. in \in EventInfo /\ in.event \in Int /\ in.event = s.event.id
    <2>1. in \in EventInfo /\ s.event \in EventOfPu
      BY <1>1, <1>4 DEF PuRecord
    <2> QED
      BY <1>4, <2>1, ExactFacts DEF EventInfo
  <1>6. di \in Seq(EventInfo) /\ di = <<>>
    BY <1>4
  <1> HIDE DEF in
  <1>7. /\ eb \in EBRequester /\ eb.state = "REQUESTING" /\ eb.event = in.event /\ eb.pending = ROB \ in.robs
        /\ bu \in EventBuilder /\ bu.info = in /\ bu.state = s.builder.state /\ bu.waiting = s.builder.waiting
    BY <1>4, <1>5 DEF EBRequester, EventBuilder
  <1> HIDE DEF di, eb, bu
  <1>8. t \in PuRecord
    BY <1>1, <1>6, <1>7 DEF PuRecord
  <1>9. Building(t)
    <2>1. /\ t.event = s.event /\ t.requester = s.requester /\ t.processing = s.processing /\ t.iterator = s.iterator
          /\ t.discard = di /\ t.ebRequester = eb /\ t.builder = bu /\ t.ebProcessing = s.ebProcessing
      BY <1>1 DEF PuRecord
    <2> HIDE DEF t
    <2> QED
      BY <1>2, <1>4, <1>5, <1>6, <1>7, <2>1 DEF Deciding, Building, NotInL2, NotRequesting, NotProcessing, NotIterating, NotBuilding
  <1> QED
    BY <1>3, <1>8, <1>9, OnePuMoves DEF Somewhere

(* The request for the rest leaves, and EventBuilder waits for it.         *)
LEMMA EbRequesterStepPreserves == ASSUME PuIInv, NEW p \in PU, EbRequesterStep(p) PROVE PuIInv'
  <1> DEFINE s == PuState(p)
  <1>1. s \in PuRecord
    BY StateTyped
  <1>2. Building(s)
    BY Places DEF EbRequesterStep
  <1> DEFINE e == s.ebRequester.event
             w == s.ebRequester.pending
             eb == [state |-> "WAITING", event |-> -1, pending |-> {}]
             bu == [s.builder EXCEPT !.event = e, !.waiting = w]
             t == [s EXCEPT !.ebRequester = eb, !.builder = bu]
  <1>3. Moves(p, t)
    BY StateTyped DEF EbRequesterStep, Moves, PuIInv, PuTypeOK, PuState
  <1> HIDE DEF s
  <1>4. s.ebRequester.state = "REQUESTING"
    BY StateTyped DEF EbRequesterStep, s
  <1>5. s.builder \in EventBuilder /\ e \in Int /\ w \in SUBSET ROB
    BY <1>1 DEF PuRecord, EBRequester
  <1>6. eb \in EBRequester /\ eb.state = "WAITING"
    BY DEF EBRequester
  <1> HIDE DEF e, w
  <1>7. /\ bu \in EventBuilder /\ bu.info = s.builder.info /\ bu.state = s.builder.state
        /\ bu.event = e /\ bu.waiting = w
    BY <1>5 DEF EventBuilder
  <1> HIDE DEF eb, bu
  <1>8. t \in PuRecord
    BY <1>1, <1>6, <1>7 DEF PuRecord
  <1>9. Building(t)
    <2>1. /\ t.event = s.event /\ t.requester = s.requester /\ t.processing = s.processing /\ t.iterator = s.iterator
          /\ t.discard = s.discard /\ t.ebRequester = eb /\ t.builder = bu /\ t.ebProcessing = s.ebProcessing
      BY <1>1 DEF PuRecord
    <2> HIDE DEF t
    <2> QED
      BY <1>2, <1>4, <1>6, <1>7, <2>1 DEF Building, NotInL2, NotRequesting, NotProcessing, NotIterating, e, w
  <1> QED
    BY <1>3, <1>8, <1>9, OnePuMoves DEF Somewhere

(* The event is built: as many fragments as ROBs are all of them.          *)
LEMMA BuildPreserves == ASSUME PuIInv, NEW p \in PU, Build(p) PROVE PuIInv'
  <1> DEFINE s == PuState(p)
  <1>1. s \in PuRecord
    BY StateTyped
  <1>2. Building(s)
    BY Places DEF Build
  <1> DEFINE in == s.builder.info
             bu == [s.builder EXCEPT !.state = "WAITING", !.waiting = {}, !.info = NoInfo]
             t == [s EXCEPT !.ebProcessing = in, !.builder = bu]
  <1>3. Moves(p, t)
    BY StateTyped DEF Build, Moves, PuIInv, PuTypeOK, PuState
  <1> HIDE DEF s
  <1>4. s.builder.state = "BUILDING_EVENT" /\ s.builder.next = "now"
    BY StateTyped DEF Build, s
  <1>5. s.builder \in EventBuilder /\ in \in EventInfo /\ s.event \in EventOfPu
    BY <1>1 DEF PuRecord, EventBuilder
  <1>6. bu \in EventBuilder /\ bu.state = "WAITING" /\ bu.waiting = {} /\ bu.info = NoInfo
    BY <1>5, NoInfoTyped DEF EventBuilder
  <1>7. in = Info(s.event.id, ROB)
    <2>1. Exact(in, s.event) /\ BuiltWith(in.size)
      BY <1>2, <1>4 DEF Building
    <2>2. in.robs = ROB
      BY <1>5, <2>1, AllGathered
    <2> QED
      BY <2>1, <2>2 DEF Exact
  <1> HIDE DEF in, bu
  <1>8. t \in PuRecord
    BY <1>1, <1>5, <1>6 DEF PuRecord
  <1>9. Built(t)
    <2>1. /\ t.event = s.event /\ t.requester = s.requester /\ t.processing = s.processing /\ t.iterator = s.iterator
          /\ t.discard = s.discard /\ t.ebRequester = s.ebRequester /\ t.builder = bu /\ t.ebProcessing = in
      BY <1>1 DEF PuRecord
    <2> HIDE DEF t
    <2> QED
      BY <1>2, <1>4, <1>6, <1>7, <2>1 DEF Building, Built, NotInL2, NotRequesting, NotProcessing, NotIterating, NotBuilding
  <1> QED
    BY <1>3, <1>8, <1>9, OnePuMoves DEF Somewhere

(* The PU is idle again.                                                   *)
LEMMA EventEndsPreserves == ASSUME PuIInv, NEW p \in PU, EventEnds(p) PROVE PuIInv'
  <1> DEFINE s == PuState(p)
  <1>1. s \in PuRecord
    BY StateTyped
  <1>2. Built(s)
    BY Places DEF EventEnds
  <1> DEFINE ev == [s.event EXCEPT !.state = "idle"]
             no == NoInfo
             t == [s EXCEPT !.event = ev, !.ebProcessing = no]
  <1>3. Moves(p, t)
    BY StateTyped DEF EventEnds, Moves, PuIInv, PuTypeOK, PuState
  <1> HIDE DEF s
  <1>4. s.event \in EventOfPu
    BY <1>1 DEF PuRecord
  <1>5. ev \in EventOfPu /\ ev.state = "idle"
    BY <1>4 DEF EventOfPu
  <1>6. no \in EventInfo /\ no = NoInfo
    BY NoInfoTyped
  <1> HIDE DEF ev, no
  <1>8. t \in PuRecord
    BY <1>1, <1>5, <1>6 DEF PuRecord
  <1>9. Idle(t)
    <2>1. /\ t.event = ev /\ t.requester = s.requester /\ t.processing = s.processing /\ t.iterator = s.iterator
          /\ t.discard = s.discard /\ t.ebRequester = s.ebRequester /\ t.builder = s.builder /\ t.ebProcessing = no
      BY <1>1 DEF PuRecord
    <2> HIDE DEF t
    <2> QED
      BY <1>2, <1>5, <1>6, <2>1 DEF Built, Idle, NotAfterL2, NotInL2, NotRequesting, NotProcessing, NotIterating, NotBuilding
  <1> QED
    BY <1>3, <1>8, <1>9, OnePuMoves DEF Somewhere

(* The fragments of a step are added to those of the steps before.         *)
LEMMA ProcessingEndsPreserves == ASSUME PuIInv, NEW p \in PU, ProcessingEnds(p) PROVE PuIInv'
  <1> DEFINE s == PuState(p)
  <1>1. s \in PuRecord
    BY StateTyped
  <1>2. Processing(s)
    BY Places DEF ProcessingEnds
  <1>b. s.processing = processing[p] /\ s.iterator = iterator[p] /\ s.event = event[p]
    BY StateTyped
  <1>e. s.processing \in L2TProcessing /\ s.iterator \in L2TIterator /\ s.event \in EventOfPu
    BY <1>1 DEF PuRecord
  <1>a. s.processing.state = "PROCESSING"
    BY <1>b DEF ProcessingEnds
  <1> DEFINE new == [s.processing.received EXCEPT !.event = s.processing.event]
             it(steps, info) == [state |-> "now", steps |-> steps, info |-> info]
  <1>c. /\ processing' = [processing EXCEPT ![p] =
              [s.processing EXCEPT !.state = "WAITING_NEXT_JOB", !.waiting = {}, !.received = NoInfo]]
        /\ Starts(s.iterator) => \E n \in 1 .. MaxSteps : iterator' = [iterator EXCEPT ![p] = it(n - 1, new)]
        /\ ~Starts(s.iterator) =>
              iterator' = [iterator EXCEPT ![p] = it(s.iterator.steps - 1, Merged(s.iterator.info, new))]
        /\ UNCHANGED <<event, requester, discard, ebRequester, builder, ebProcessing>>
    <2>1. StartsNewEvent(p) <=> Starts(s.iterator)
      BY <1>b DEF StartsNewEvent, Starts
    <2>2. new = [processing[p].received EXCEPT !.event = processing[p].event]
      BY <1>b
    <2> HIDE DEF new
    <2> QED
      BY <1>b, <2>1, <2>2 DEF ProcessingEnds, PuIInv, PuTypeOK
  <1> HIDE DEF new, s, it
  <1> DEFINE info == IF Starts(s.iterator) THEN new ELSE Merged(s.iterator.info, new)
  <1>0. PICK steps \in Nat : iterator' = [iterator EXCEPT ![p] = it(steps, info)]
    <2>1. CASE Starts(s.iterator)
      <3>1. PICK n \in 1 .. MaxSteps : iterator' = [iterator EXCEPT ![p] = it(n - 1, new)]
        BY <1>c, <2>1
      <3>2. n - 1 \in Nat
        BY <3>1
      <3> QED
        BY <2>1, <3>1, <3>2
    <2>2. CASE ~Starts(s.iterator)
      <3>1. s.iterator.steps - 1 \in Nat
        BY <1>e, <2>2 DEF Starts, L2TIterator
      <3> QED
        BY <1>c, <2>2, <3>1
    <2> QED
      BY <2>1, <2>2
  <1> DEFINE pr == [s.processing EXCEPT !.state = "WAITING_NEXT_JOB", !.waiting = {}, !.received = NoInfo]
             j == it(steps, info)
             t == [s EXCEPT !.processing = pr, !.iterator = j]
  <1>3. Moves(p, t)
    BY StateTyped, <1>0, <1>c DEF ProcessingEnds, Moves, PuIInv, PuTypeOK, PuState, s, PuRecord
  <1> HIDE DEF s
  <1>4. /\ s.processing.received \in EventInfo /\ s.processing.event \in Int
        /\ s.iterator.info \in EventInfo /\ s.iterator.steps \in Nat /\ s.event.id \in Nat
    BY <1>e DEF L2TProcessing, L2TIterator, EventOfPu
  <1>f. /\ new \in EventInfo /\ new.event = s.event.id /\ new.robs = s.processing.received.robs
        /\ new.size = Cardinality(new.robs)
    BY <1>2, <1>4 DEF Processing, EventInfo, new
  <1>5. pr \in L2TProcessing /\ pr.state = "WAITING_NEXT_JOB" /\ pr.waiting = {} /\ pr.received = NoInfo
    BY <1>e, NoInfoTyped DEF L2TProcessing
  <1>6. info \in EventInfo /\ Exact(info, s.event) /\ info.robs = s.requester.requested
    <2>1. s.requester.requested = Gathered(s.iterator) \cup new.robs /\ new.robs \cap Gathered(s.iterator) = {}
      BY <1>2, <1>a, <1>f DEF Processing
    <2>2. CASE Starts(s.iterator)
      BY <1>e, <1>f, <2>1, <2>2, ExactFacts DEF Gathered
    <2>3. CASE ~Starts(s.iterator)
      <3>1. /\ Gathered(s.iterator) = s.iterator.info.robs
            /\ s.iterator.info.event = s.event.id /\ s.iterator.info.size = Cardinality(s.iterator.info.robs)
        BY <1>2, <1>4, <1>e, <2>3, ExactFacts DEF Gathered, Processing
      <3>2. /\ Merged(s.iterator.info, new) \in EventInfo
            /\ Merged(s.iterator.info, new).event = s.event.id
            /\ Merged(s.iterator.info, new).robs = s.iterator.info.robs \cup new.robs
            /\ Merged(s.iterator.info, new).size = Cardinality(s.iterator.info.robs \cup new.robs)
        BY <1>4, <1>f, <2>1, <3>1, MergedCounts
      <3>3. info = Merged(s.iterator.info, new)
        BY <2>3
      <3> HIDE DEF info
      <3>4. info \in EventInfo /\ info.event = s.event.id /\ info.size = Cardinality(info.robs)
        BY <3>2, <3>3
      <3> QED
        BY <1>e, <2>1, <3>1, <3>2, <3>3, <3>4, ExactFacts
    <2> QED
      BY <2>2, <2>3
  <1> HIDE DEF info
  <1>7. j \in L2TIterator /\ j.state = "now" /\ j.info = info
    BY <1>0, <1>6 DEF L2TIterator, it
  <1> HIDE DEF pr, j
  <1>8. t \in PuRecord
    BY <1>1, <1>5, <1>7 DEF PuRecord
  <1>9. Iterating(t)
    <2>1. /\ t.event = s.event /\ t.requester = s.requester /\ t.processing = pr /\ t.iterator = j
          /\ t.discard = s.discard /\ t.ebRequester = s.ebRequester /\ t.builder = s.builder /\ t.ebProcessing = s.ebProcessing
      BY <1>1 DEF PuRecord
    <2> HIDE DEF t
    <2> QED
      BY <1>2, <1>5, <1>6, <1>7, <2>1 DEF Processing, Iterating, NotRequesting, NotProcessing, NotAfterL2, NotBuilding
  <1> QED
    BY <1>3, <1>8, <1>9, OnePuMoves DEF Somewhere

(* EventBuilder asks for the next event.                                   *)
LEMMA BuilderAsksPreserves == ASSUME PuIInv, NEW p \in PU, BuilderAsks(p) PROVE PuIInv'
  <1> DEFINE s == PuState(p)
             bu == [s.builder EXCEPT !.next = "never"]
             t == [s EXCEPT !.builder = bu]
  <1>1. s \in PuRecord
    BY StateTyped
  <1>2. Somewhere(s)
    BY DEF PuIInv, InOnePlace
  <1>3. s.builder.state = "WAITING"
    BY StateTyped DEF BuilderAsks
  <1>4. Moves(p, t)
    BY StateTyped DEF BuilderAsks, Moves, PuIInv, PuTypeOK, PuState
  <1> HIDE DEF s
  <1>5. s.builder \in EventBuilder
    BY <1>1 DEF PuRecord
  <1>6. /\ bu \in EventBuilder /\ bu.state = s.builder.state /\ bu.event = s.builder.event
        /\ bu.waiting = s.builder.waiting /\ bu.info = s.builder.info
    BY <1>5 DEF EventBuilder
  <1> HIDE DEF bu
  <1>7. t \in PuRecord
    BY <1>1, <1>6 DEF PuRecord
  <1>8. /\ t.event = s.event /\ t.requester = s.requester /\ t.processing = s.processing /\ t.iterator = s.iterator
        /\ t.discard = s.discard /\ t.ebRequester = s.ebRequester /\ t.builder = bu /\ t.ebProcessing = s.ebProcessing
    BY <1>1 DEF PuRecord
  <1> HIDE DEF t
  <1>9. Somewhere(t)
    <2>1. NotInL2(t) <=> NotInL2(s)
      BY <1>8 DEF NotInL2, NotRequesting, NotProcessing, NotIterating
    <2>2. (NotRequesting(t) <=> NotRequesting(s)) /\ (NotProcessing(t) <=> NotProcessing(s))
          /\ (NotIterating(t) <=> NotIterating(s))
      BY <1>8 DEF NotRequesting, NotProcessing, NotIterating
    <2>3. NotBuilding(t) <=> NotBuilding(s)
      BY <1>6, <1>8 DEF NotBuilding
    <2>4. NotAfterL2(t) <=> NotAfterL2(s)
      BY <1>8, <2>3 DEF NotAfterL2
    <2>5. CASE Idle(s)
      BY <1>8, <2>1, <2>4, <2>5 DEF Idle, Somewhere
    <2>6. CASE Requesting(s)
      BY <1>8, <2>2, <2>4, <2>6 DEF Requesting, Somewhere
    <2>7. CASE Processing(s)
      BY <1>8, <2>2, <2>4, <2>7 DEF Processing, Somewhere
    <2>8. CASE Iterating(s)
      BY <1>8, <2>2, <2>4, <2>8 DEF Iterating, Somewhere
    <2>9. CASE Deciding(s)
      BY <1>8, <2>1, <2>3, <2>9 DEF Deciding, Somewhere
    <2>10. CASE Building(s)
      BY <1>3, <1>6, <1>8, <2>1, <2>10 DEF Building, Somewhere
    <2>11. CASE Built(s)
      BY <1>8, <2>1, <2>3, <2>11 DEF Built, Somewhere
    <2> QED
      BY <1>2, <2>5, <2>6, <2>7, <2>8, <2>9, <2>10, <2>11 DEF Somewhere
  <1> QED
    BY <1>4, <1>7, <1>9, OnePuMoves

(* A fragment that L2TProcessing waits for.  EventBuilder ignores it.      *)
LEMMA ProcessingReceives ==
  ASSUME PuIInv, NEW f, f.pu \in PU, f.event = processing[f.pu].event, f.rob \in processing[f.pu].waiting,
         processingReceives(f), builderReceives(f),
         UNCHANGED <<event, requester, iterator, discard, ebRequester, ebProcessing>>
  PROVE  PuIInv'
  <1> DEFINE p == f.pu
             s == PuState(p)
             b == f.rob
             received == Merged(s.processing.received, Info(f.event, {b}))
             waiting == s.processing.waiting \ {b}
             state == IF s.processing.waiting = {b} THEN "PROCESSING" ELSE s.processing.state
             pr == [s.processing EXCEPT !.waiting = waiting, !.received = received, !.state = state]
             t == [s EXCEPT !.processing = pr]
  <1>1. s \in PuRecord
    BY StateTyped
  <1>2. Processing(s) /\ b \in s.processing.waiting /\ f.event = s.processing.event
    BY Places, StateTyped
  <1>3. UNCHANGED builder
    <2>1. builder[p].waiting = {}
      BY <1>2, StateTyped DEF Processing, NotAfterL2, NotBuilding
    <2> QED
      BY <2>1 DEF builderReceives
  <1>4. processing' = [processing EXCEPT ![p] = pr]
    <2>1. s.processing = processing[p]
      BY StateTyped
    <2> HIDE DEF s
    <2> QED
      BY <2>1 DEF processingReceives
  <1>5. Moves(p, t)
    <2>1. t.processing = pr /\ t.event = event[p] /\ t.requester = requester[p] /\ t.iterator = iterator[p]
          /\ t.discard = discard[p] /\ t.ebRequester = ebRequester[p] /\ t.builder = builder[p]
          /\ t.ebProcessing = ebProcessing[p]
      <3>1. /\ s.event = event[p] /\ s.requester = requester[p] /\ s.iterator = iterator[p]
            /\ s.discard = discard[p] /\ s.ebRequester = ebRequester[p] /\ s.builder = builder[p]
            /\ s.ebProcessing = ebProcessing[p]
        BY StateTyped
      <3> HIDE DEF s, pr
      <3> QED
        BY <1>1, <3>1 DEF PuRecord
    <2> HIDE DEF t, pr
    <2> QED
      BY <1>3, <1>4, <2>1 DEF Moves, PuIInv, PuTypeOK
  <1> HIDE DEF s
  <1>6. s.processing \in L2TProcessing /\ s.processing.received \in EventInfo /\ s.processing.waiting \in SUBSET ROB
        /\ s.processing.event \in Int
    <2>1. s.processing \in L2TProcessing
      BY <1>1 DEF PuRecord
    <2> QED
      BY <2>1 DEF L2TProcessing
  <1>7. /\ b \in ROB /\ b \notin s.processing.received.robs
        /\ s.processing.received.size = Cardinality(s.processing.received.robs)
        /\ s.processing.state = "WAITING_RESPONSE"
    <2>1. /\ s.processing.state # "WAITING_NEXT_JOB" /\ s.processing.state # "PROCESSING"
          /\ s.processing.waiting \cap s.processing.received.robs = {}
          /\ s.processing.received.size = Cardinality(s.processing.received.robs)
      BY <1>2 DEF Processing
    <2>2. s.processing.state \in {"WAITING_NEXT_JOB", "WAITING_RESPONSE", "PROCESSING"}
      BY <1>6 DEF L2TProcessing
    <2> QED
      BY <1>2, <1>6, <2>1, <2>2
  <1>8. /\ received \in EventInfo /\ received.robs = s.processing.received.robs \cup {b}
        /\ received.size = Cardinality(received.robs)
    <2>1. b \in ROB /\ f.event \in Int /\ s.processing.received \in EventInfo
      BY <1>2, <1>6, <1>7
    <2> DEFINE i == s.processing.received
    <2> HIDE DEF b, i
    <2>2. received = Merged(i, Info(f.event, {b}))
      BY DEF i
    <2>3. i \in EventInfo /\ i.size = Cardinality(i.robs) /\ b \notin i.robs
      BY <1>7, <2>1 DEF i
    <2> HIDE DEF received
    <2>4. /\ received \in EventInfo /\ received.robs = i.robs \cup {b}
          /\ received.size = Cardinality(i.robs \cup {b})
      BY <2>1, <2>2, <2>3, OneMore
    <2> QED
      BY <2>4 DEF i
  <1>9. /\ waiting \in SUBSET ROB /\ state \in {"WAITING_RESPONSE", "PROCESSING"}
        /\ state = "PROCESSING" => waiting = {}
    <2>1. CASE s.processing.waiting = {b}
      BY <1>6, <2>1
    <2>2. CASE s.processing.waiting # {b}
      <3>1. state = "WAITING_RESPONSE"
        BY <1>7, <2>2
      <3> QED
        BY <1>6, <3>1
    <2> QED
      BY <2>1, <2>2
  <1>10. waiting \cup received.robs = s.processing.waiting \cup s.processing.received.robs
         /\ waiting \cap received.robs = {}
    BY <1>2, <1>8 DEF Processing
  <1> HIDE DEF received, waiting, state
  <1>11. /\ pr \in L2TProcessing /\ pr.event = s.processing.event /\ pr.waiting = waiting /\ pr.received = received
         /\ pr.state = state
    BY <1>6, <1>8, <1>9 DEF L2TProcessing
  <1> HIDE DEF pr
  <1>12. t \in PuRecord
    BY <1>1, <1>11 DEF PuRecord
  <1>13. /\ t.event = s.event /\ t.requester = s.requester /\ t.processing = pr /\ t.iterator = s.iterator
         /\ t.discard = s.discard /\ t.ebRequester = s.ebRequester /\ t.builder = s.builder
         /\ t.ebProcessing = s.ebProcessing
    BY <1>1 DEF PuRecord
  <1> HIDE DEF t
  <1>14. Processing(t)
    <2>1. s.requester.requested = Gathered(s.iterator) \cup s.processing.waiting \cup s.processing.received.robs
          /\ (s.processing.waiting \cup s.processing.received.robs) \cap Gathered(s.iterator) = {}
      BY <1>2 DEF Processing
    <2>2. s.requester.requested = Gathered(s.iterator) \cup waiting \cup received.robs
          /\ (waiting \cup received.robs) \cap Gathered(s.iterator) = {}
      BY <1>10, <2>1
    <2>3. (NotRequesting(t) <=> NotRequesting(s)) /\ (NotIterating(t) <=> NotIterating(s))
          /\ (NotAfterL2(t) <=> NotAfterL2(s))
      BY <1>13 DEF NotRequesting, NotIterating, NotAfterL2, NotBuilding
    <2> QED
      BY <1>2, <1>8, <1>9, <1>10, <1>11, <1>13, <2>2, <2>3 DEF Processing
  <1> QED
    BY <1>5, <1>12, <1>14, OnePuMoves DEF Somewhere

(* A fragment that EventBuilder waits for.  L2TProcessing ignores it.      *)
LEMMA BuilderReceives ==
  ASSUME PuIInv, NEW f, f.pu \in PU, f.event = builder[f.pu].event, f.rob \in builder[f.pu].waiting,
         processingReceives(f), builderReceives(f),
         UNCHANGED <<event, requester, iterator, discard, ebRequester, ebProcessing>>
  PROVE  PuIInv'
  <1> DEFINE p == f.pu
             s == PuState(p)
             b == f.rob
             info == Merged(s.builder.info, Info(f.event, {b}))
             waiting == s.builder.waiting \ {b}
             next == IF BuiltWith(info.size) THEN "now" ELSE "never"
             bu == [s.builder EXCEPT !.waiting = waiting, !.info = info, !.state = "BUILDING_EVENT", !.next = next]
             t == [s EXCEPT !.builder = bu]
  <1>1. s \in PuRecord
    BY StateTyped
  <1>2. Building(s) /\ b \in s.builder.waiting /\ f.event = s.builder.event
    BY Places, StateTyped
  <1>3. UNCHANGED processing
    <2>1. processing[p].waiting = {}
      BY <1>2, StateTyped DEF Building, NotInL2, NotProcessing
    <2> QED
      BY <2>1 DEF processingReceives
  <1>4. builder' = [builder EXCEPT ![p] = bu]
    <2>1. s.builder = builder[p]
      BY StateTyped
    <2> HIDE DEF s
    <2> QED
      BY <2>1 DEF builderReceives
  <1>5. Moves(p, t)
    <2>1. t.builder = bu /\ t.event = event[p] /\ t.requester = requester[p] /\ t.iterator = iterator[p]
          /\ t.discard = discard[p] /\ t.ebRequester = ebRequester[p] /\ t.processing = processing[p]
          /\ t.ebProcessing = ebProcessing[p]
      <3>1. /\ s.event = event[p] /\ s.requester = requester[p] /\ s.iterator = iterator[p]
            /\ s.discard = discard[p] /\ s.ebRequester = ebRequester[p] /\ s.processing = processing[p]
            /\ s.ebProcessing = ebProcessing[p]
        BY StateTyped
      <3> HIDE DEF s, bu
      <3> QED
        BY <1>1, <3>1 DEF PuRecord
    <2> HIDE DEF t, bu
    <2> QED
      BY <1>3, <1>4, <2>1 DEF Moves, PuIInv, PuTypeOK
  <1> HIDE DEF s
  <1>6. /\ s.builder \in EventBuilder /\ s.builder.info \in EventInfo /\ s.builder.waiting \in SUBSET ROB
        /\ s.builder.event \in Int /\ s.event \in EventOfPu
    <2>1. s.builder \in EventBuilder /\ s.event \in EventOfPu
      BY <1>1 DEF PuRecord
    <2> QED
      BY <2>1 DEF EventBuilder
  <1>7. /\ s.ebRequester.state = "WAITING" /\ s.builder.event = s.event.id
        /\ s.builder.waiting = ROB \ s.builder.info.robs /\ Exact(s.builder.info, s.event)
    BY <1>2 DEF Building
  <1>8. /\ info \in EventInfo /\ info.robs = s.builder.info.robs \cup {b} /\ Exact(info, s.event)
    <2> DEFINE i == s.builder.info
    <2>1. b \in ROB /\ f.event \in Int /\ i \in EventInfo /\ b \notin i.robs
      BY <1>2, <1>6, <1>7
    <2> HIDE DEF b, i
    <2>2. info = Merged(i, Info(f.event, {b}))
      BY DEF i
    <2>3. i.event = s.event.id /\ i.size = Cardinality(i.robs)
      BY <1>6, <1>7, ExactFacts DEF i
    <2> HIDE DEF info
    <2>4. /\ info \in EventInfo /\ info.robs = i.robs \cup {b} /\ info.event = i.event
          /\ info.size = Cardinality(i.robs \cup {b})
      BY <2>1, <2>2, <2>3, OneMore
    <2>5. info.event = s.event.id /\ info.size = Cardinality(info.robs)
      BY <2>3, <2>4
    <2>6. Exact(info, s.event)
      BY <1>6, <2>4, <2>5, ExactFacts
    <2> QED
      BY <2>4, <2>6 DEF i
  <1>9. waiting = ROB \ info.robs /\ waiting \in SUBSET ROB
    BY <1>7, <1>8
  <1>10. next \in {"now", "never"} /\ (next = "now" => BuiltWith(info.size))
    OBVIOUS
  <1> HIDE DEF info, waiting, next
  <1>11. /\ bu \in EventBuilder /\ bu.event = s.builder.event /\ bu.waiting = waiting /\ bu.info = info
         /\ bu.next = next /\ bu.state = "BUILDING_EVENT"
    BY <1>6, <1>8, <1>9, <1>10 DEF EventBuilder
  <1> HIDE DEF bu
  <1>12. t \in PuRecord
    BY <1>1, <1>11 DEF PuRecord
  <1>13. /\ t.event = s.event /\ t.requester = s.requester /\ t.processing = s.processing /\ t.iterator = s.iterator
         /\ t.discard = s.discard /\ t.ebRequester = s.ebRequester /\ t.builder = bu
         /\ t.ebProcessing = s.ebProcessing
    BY <1>1 DEF PuRecord
  <1> HIDE DEF t
  <1>14. Building(t)
    <2>1. NotInL2(t) <=> NotInL2(s)
      BY <1>13 DEF NotInL2, NotRequesting, NotProcessing, NotIterating
    <2> QED
      BY <1>2, <1>7, <1>8, <1>9, <1>10, <1>11, <1>13, <2>1 DEF Building
  <1> QED
    BY <1>5, <1>12, <1>14, OnePuMoves DEF Somewhere

(* A step that leaves the models of all PUs alone.                         *)
LEMMA PusUnchanged == ASSUME PuIInv, UNCHANGED puVars PROVE PuIInv'
  <1>1. PuTypeOK'
    BY DEF PuIInv, PuTypeOK, puVars
  <1>2. ASSUME NEW p \in PU PROVE PuState(p)' = PuState(p)
    BY DEF PuState, puVars
  <1>3. \A p \in PU : Somewhere(PuState(p))
    BY DEF PuIInv, InOnePlace
  <1>4. \A p \in PU : Somewhere(PuState(p)')
    BY <1>2, <1>3
  <1> QED
    BY <1>1, <1>4 DEF PuIInv, InOnePlace

LEMMA FragmentPreserves == ASSUME PuIInv, FragmentArrives PROVE PuIInv'
  <1>1. PICK f \in fragments :
          /\ processingReceives(f)
          /\ builderReceives(f)
          /\ UNCHANGED <<event, requester, iterator, discard, ebRequester, ebProcessing>>
    BY DEF FragmentArrives
  <1> DEFINE toL2 == f.event = processing[f.pu].event /\ f.rob \in processing[f.pu].waiting
             toEB == f.event = builder[f.pu].event /\ f.rob \in builder[f.pu].waiting
  <1>2. CASE f.pu \notin PU
    <2>1. UNCHANGED processing
      BY <1>1, <1>2 DEF processingReceives, PuIInv, PuTypeOK
    <2>2. UNCHANGED builder
      BY <1>1, <1>2 DEF builderReceives, PuIInv, PuTypeOK
    <2> QED
      BY <1>1, <2>1, <2>2, PusUnchanged DEF puVars
  <1>3. CASE f.pu \in PU /\ toL2
    BY <1>1, <1>3, ProcessingReceives
  <1>4. CASE f.pu \in PU /\ toEB
    BY <1>1, <1>4, BuilderReceives
  <1>5. CASE ~toL2 /\ ~toEB
    <2>1. UNCHANGED processing
      BY <1>1, <1>5 DEF processingReceives
    <2>2. UNCHANGED builder
      BY <1>1, <1>5 DEF builderReceives
    <2> QED
      BY <1>1, <2>1, <2>2, PusUnchanged DEF puVars
  <1> QED
    BY <1>2, <1>3, <1>4, <1>5

-----------------------------------------------------------------------------
LEMMA PuInit == Init => PuIInv
  <1> SUFFICES ASSUME Init PROVE PuIInv
    OBVIOUS
  <1>1. PuTypeOK
    <2>1. NoInfo \in EventInfo
      BY NoInfoTyped
    <2> QED
      BY <2>1 DEF Init, PuTypeOK, EventOfPu, L2TRequester, L2TProcessing, L2TIterator, EBRequester, EventBuilder
  <1>2. ASSUME NEW p \in PU PROVE InOnePlace(p)
    <2> DEFINE s == PuState(p)
    <2>1. /\ s.event.state = "idle" /\ s.requester.state = "WAITING" /\ s.processing.state = "WAITING_NEXT_JOB"
          /\ s.processing.waiting = {} /\ s.processing.received = NoInfo /\ s.iterator.state = "never"
          /\ s.iterator.steps = 0 /\ s.discard = <<>> /\ s.ebRequester.state = "WAITING"
          /\ s.builder.state = "WAITING" /\ s.builder.waiting = {} /\ s.builder.info = NoInfo
          /\ s.ebProcessing = NoInfo
      BY DEF Init, PuState
    <2> HIDE DEF s
    <2>2. Idle(s)
      BY <2>1 DEF Idle, Starts, NotInL2, NotRequesting, NotProcessing, NotIterating, NotAfterL2, NotBuilding
    <2> QED
      BY <2>2 DEF InOnePlace, Somewhere, s
  <1> QED
    BY <1>1, <1>2 DEF PuIInv

LEMMA PuNext == PuIInv /\ [Next]_vars => PuIInv'
  <1> SUFFICES ASSUME PuIInv, [Next]_vars PROVE PuIInv'
    OBVIOUS
  <1>1. ASSUME NEW p \in PU, PuStep(p) PROVE PuIInv'
    BY <1>1, RequesterStepPreserves, ProcessingEndsPreserves, DecidePreserves, IteratePreserves, RejectPreserves,
       AcceptPreserves, EbRequesterStepPreserves, BuildPreserves, BuilderAsksPreserves, EventEndsPreserves
    DEF PuStep
  <1>2. ASSUME NEW r \in ROS, RosStep(r) PROVE PuIInv'
    <2>1. UNCHANGED puVars
      BY <1>2 DEF RosStep, RosAsks, JobArrives, JobEnds
    <2> QED
      BY <2>1, PusUnchanged
  <1>3. ASSUME DcmStep PROVE PuIInv'
    BY <1>3, PusUnchanged DEF DcmStep
  <1>4. ASSUME UNCHANGED vars PROVE PuIInv'
    BY <1>4, PusUnchanged DEF vars
  <1> QED
    BY <1>1, <1>2, <1>3, <1>4, FragmentPreserves, AssignPreserves DEF Next, Engine

(* A PU's models keep their types, and its event is in one place.          *)
LEMMA PuInvariant == Spec => []PuIInv
  BY PuInit, PuNext, PTL DEF Spec

-----------------------------------------------------------------------------
(* The state of a PU's event decides how many of its stages are active.    *)
LEMMA StagesOfPlace == ASSUME PuIInv, NEW p \in PU PROVE Stages(p) = IF event[p].state = "busy" THEN 1 ELSE 0
  <1> DEFINE s == PuState(p)
             Active(n) ==
               CASE n = 1 -> requester[p].state = "REQUESTING"
                 [] n = 2 -> processing[p].state # "WAITING_NEXT_JOB"
                 [] n = 3 -> iterator[p].state = "now"
                 [] n = 4 -> discard[p] # <<>>
                 [] n = 5 -> ebRequester[p].state = "REQUESTING" \/ builder[p].info # NoInfo
                 [] n = 6 -> ebProcessing[p] # NoInfo
             A == {n \in 1 .. 6 : Active(n)}
  <1>1. Stages(p) = Cardinality(A)
    BY DEF Stages
  <1> HIDE DEF Active
  <1>2. /\ 1 \in A <=> requester[p].state = "REQUESTING"
        /\ 2 \in A <=> processing[p].state # "WAITING_NEXT_JOB"
        /\ 3 \in A <=> iterator[p].state = "now"
        /\ 4 \in A <=> discard[p] # <<>>
        /\ 5 \in A <=> ebRequester[p].state = "REQUESTING" \/ builder[p].info # NoInfo
        /\ 6 \in A <=> ebProcessing[p] # NoInfo
    <2>1. \A n \in {1, 2, 3, 4, 5, 6} : n \in A <=> Active(n)
      OBVIOUS
    <2>2. Active(1) <=> requester[p].state = "REQUESTING"
      BY DEF Active
    <2>3. Active(2) <=> processing[p].state # "WAITING_NEXT_JOB"
      BY DEF Active
    <2>4. Active(3) <=> iterator[p].state = "now"
      BY DEF Active
    <2>5. Active(4) <=> discard[p] # <<>>
      BY DEF Active
    <2>6. Active(5) <=> ebRequester[p].state = "REQUESTING" \/ builder[p].info # NoInfo
      BY DEF Active
    <2>7. Active(6) <=> ebProcessing[p] # NoInfo
      BY DEF Active
    <2> HIDE DEF A
    <2> QED
      BY <2>1, <2>2, <2>3, <2>4, <2>5, <2>6, <2>7
  <1>3. A \subseteq {1, 2, 3, 4, 5, 6}
    OBVIOUS
  <1>4. /\ s.event = event[p] /\ s.requester = requester[p] /\ s.processing = processing[p] /\ s.iterator = iterator[p]
        /\ s.discard = discard[p] /\ s.ebRequester = ebRequester[p] /\ s.builder = builder[p]
        /\ s.ebProcessing = ebProcessing[p] /\ Somewhere(s) /\ s \in PuRecord
    BY StateTyped DEF PuIInv, InOnePlace
  <1> HIDE DEF s, A
  <1>5. /\ NotRequesting(s) <=> 1 \notin A
        /\ NotIterating(s) <=> 3 \notin A
        /\ NotProcessing(s) => 2 \notin A
        /\ NotBuilding(s) => 5 \notin A
        /\ s.discard = <<>> <=> 4 \notin A
        /\ s.ebProcessing = NoInfo <=> 6 \notin A
        /\ NotInL2(s) => 1 \notin A /\ 2 \notin A /\ 3 \notin A
        /\ NotAfterL2(s) => 4 \notin A /\ 5 \notin A /\ 6 \notin A
    <2>1. s.requester \in L2TRequester /\ s.iterator \in L2TIterator
      BY <1>4 DEF PuRecord
    <2>2. s.requester.state \in {"WAITING", "REQUESTING"} /\ s.iterator.state \in {"now", "never"}
      BY <2>1 DEF L2TRequester, L2TIterator
    <2> QED
      BY <1>2, <1>4, <2>2 DEF NotRequesting, NotIterating, NotProcessing, NotBuilding, NotInL2, NotAfterL2
  <1>6. ASSUME NEW n, n \in A, A \subseteq {n} PROVE Cardinality(A) = 1
    <2>1. A = {n}
      BY <1>6
    <2> QED
      BY <2>1, FS_Singleton
  <1>7. A = {} => Cardinality(A) = 0
    BY FS_EmptySet
  <1>8. s.event.state = event[p].state
    BY <1>4
  <1>9. CASE Idle(s)
    BY <1>1, <1>3, <1>5, <1>7, <1>8, <1>9 DEF Idle
  <1>10. CASE Requesting(s)
    <2>1. s.event.state = "busy" /\ 1 \in A /\ 2 \notin A /\ 3 \notin A /\ 4 \notin A /\ 5 \notin A /\ 6 \notin A
      BY <1>2, <1>4, <1>5, <1>10 DEF Requesting
    <2>2. Cardinality(A) = 1
      <3>1. A \subseteq {1}
        BY <1>3, <2>1
      <3> QED
        BY <1>6, <2>1, <3>1
    <2> QED
      BY <1>1, <1>8, <2>1, <2>2
  <1>11. CASE Processing(s)
    <2>1. s.event.state = "busy" /\ 2 \in A /\ 1 \notin A /\ 3 \notin A /\ 4 \notin A /\ 5 \notin A /\ 6 \notin A
      BY <1>2, <1>4, <1>5, <1>11 DEF Processing
    <2>2. Cardinality(A) = 1
      <3>1. A \subseteq {2}
        BY <1>3, <2>1
      <3> QED
        BY <1>6, <2>1, <3>1
    <2> QED
      BY <1>1, <1>8, <2>1, <2>2
  <1>12. CASE Iterating(s)
    <2>1. s.event.state = "busy" /\ 3 \in A /\ 1 \notin A /\ 2 \notin A /\ 4 \notin A /\ 5 \notin A /\ 6 \notin A
      BY <1>2, <1>4, <1>5, <1>12 DEF Iterating
    <2>2. Cardinality(A) = 1
      <3>1. A \subseteq {3}
        BY <1>3, <2>1
      <3> QED
        BY <1>6, <2>1, <3>1
    <2> QED
      BY <1>1, <1>8, <2>1, <2>2
  <1>13. CASE Deciding(s)
    <2>1. s.event.state = "busy" /\ 4 \in A /\ 1 \notin A /\ 2 \notin A /\ 3 \notin A /\ 5 \notin A /\ 6 \notin A
      BY <1>2, <1>4, <1>5, <1>13 DEF Deciding
    <2>2. Cardinality(A) = 1
      <3>1. A \subseteq {4}
        BY <1>3, <2>1
      <3> QED
        BY <1>6, <2>1, <3>1
    <2> QED
      BY <1>1, <1>8, <2>1, <2>2
  <1>14. CASE Building(s)
    <2>1. builder[p].info # NoInfo
      <3>1. s.builder.info \in EventInfo /\ s.event \in EventOfPu
        BY <1>4 DEF PuRecord, EventBuilder
      <3>2. Exact(s.builder.info, s.event)
        BY <1>14 DEF Building
      <3> QED
        BY <1>4, <3>1, <3>2, ExactFacts
    <2>2. s.event.state = "busy" /\ 5 \in A /\ 1 \notin A /\ 2 \notin A /\ 3 \notin A /\ 4 \notin A /\ 6 \notin A
      BY <1>2, <1>4, <1>5, <1>14, <2>1 DEF Building
    <2>3. Cardinality(A) = 1
      <3>1. A \subseteq {5}
        BY <1>3, <2>2
      <3> QED
        BY <1>6, <2>2, <3>1
    <2> QED
      BY <1>1, <1>8, <2>2, <2>3
  <1>15. CASE Built(s)
    <2>1. ebProcessing[p] # NoInfo
      <3>1. s.event.id \in Nat
        BY <1>4 DEF PuRecord, EventOfPu
      <3>2. Info(s.event.id, ROB).event = s.event.id
        BY <3>1, InfoTyped
      <3> QED
        BY <1>4, <1>15, <3>1, <3>2, NoInfoTyped DEF Built
    <2>2. s.event.state = "busy" /\ 6 \in A /\ 1 \notin A /\ 2 \notin A /\ 3 \notin A /\ 4 \notin A /\ 5 \notin A
      BY <1>2, <1>4, <1>5, <1>15, <2>1 DEF Built
    <2>3. Cardinality(A) = 1
      <3>1. A \subseteq {6}
        BY <1>3, <2>2
      <3> QED
        BY <1>6, <2>2, <3>1
    <2> QED
      BY <1>1, <1>8, <2>2, <2>3
  <1> QED
    BY <1>4, <1>9, <1>10, <1>11, <1>12, <1>13, <1>14, <1>15 DEF Somewhere

(* A PU that has an event works on it in exactly one stage, and an idle PU *)
(* in none: L2TRequester is never called while it is REQUESTING, and no    *)
(* stage is told of an event while another one has the PU's last.          *)
THEOREM OneEventOneStage == Spec => []OneStage
  <1>1. PuIInv => OneStage
    BY StagesOfPlace DEF OneStage
  <1> QED
    BY <1>1, PuInvariant, PTL

(* An event that is built has the fragment of every ROB, none missing and  *)
(* none twice, and is the event that the PU was given last.                *)
THEOREM BuiltEventsAreComplete == Spec => []BuiltComplete
  <1>1. ASSUME PuIInv, NEW p \in PU, ebProcessing[p] # NoInfo PROVE ebProcessing[p] = Info(event[p].id, ROB)
    <2>1. Built(PuState(p))
      BY <1>1, Places
    <2> QED
      BY <1>1, <2>1, StateTyped DEF Built
  <1>2. PuIInv => BuiltComplete
    BY <1>1 DEF BuiltComplete
  <1> QED
    BY <1>2, PuInvariant, PTL

-----------------------------------------------------------------------------
(* The sums of the model.                                                  *)
OwedBy(D, U) ==
  U = [s \in SUBSET D |-> IF s = {} THEN 0 ELSE Cardinality((CHOOSE x \in s : TRUE).robs) + U[s \ {CHOOSE x \in s : TRUE}]]

LEMMA OwedIsSetSum ==
  ASSUME NEW D, IsFiniteSet(D), NEW w, \A q \in D : w[q] \in Int /\ w[q] = Cardinality(q.robs)
  PROVE  Owed(D) = SetSum(D, w)
  <1>1. PICK T : Chooses(D, w, T)
    BY SetSumByChoice
  <1>2. ASSUME NEW U PROVE OwedBy(D, U) <=> Chooses(D, w, U)
    <2>1. ASSUME NEW s \in SUBSET D, s # {} PROVE w[CHOOSE x \in s : TRUE] = Cardinality((CHOOSE x \in s : TRUE).robs)
      <3>1. (CHOOSE x \in s : TRUE) \in D
        BY <2>1
      <3> QED
        BY <3>1
    <2> QED
      BY <2>1 DEF OwedBy, Chooses
  <1>3. \E U : OwedBy(D, U) /\ Owed(D) = U[D]
    <2>1. \E U : OwedBy(D, U)
      BY <1>1, <1>2
    <2> QED
      BY <2>1 DEF OwedBy, Owed, MapThenSumSet, MapThenFoldSet
  <1>4. PICK U : OwedBy(D, U) /\ Owed(D) = U[D]
    BY <1>3
  <1> QED
    BY <1>2, <1>4, SetSumByChoice

GrantedBy(ss, D, U) ==
  U = [s \in SUBSET D |-> IF s = {} THEN 0 ELSE minCreditsNeeded(ss[CHOOSE x \in s : TRUE]) + U[s \ {CHOOSE x \in s : TRUE}]]

LEMMA GrantedIsSetSum ==
  ASSUME NEW D, IsFiniteSet(D), NEW ss, NEW w, \A r \in D : w[r] \in Int /\ w[r] = minCreditsNeeded(ss[r])
  PROVE  Granted(ss, D) = SetSum(D, w)
  <1>1. PICK T : Chooses(D, w, T)
    BY SetSumByChoice
  <1>2. ASSUME NEW U PROVE GrantedBy(ss, D, U) <=> Chooses(D, w, U)
    <2>1. ASSUME NEW s \in SUBSET D, s # {} PROVE w[CHOOSE x \in s : TRUE] = minCreditsNeeded(ss[CHOOSE x \in s : TRUE])
      <3>1. (CHOOSE x \in s : TRUE) \in D
        BY <2>1
      <3> QED
        BY <3>1
    <2> QED
      BY <2>1 DEF GrantedBy, Chooses
  <1>3. \E U : GrantedBy(ss, D, U) /\ Granted(ss, D) = U[D]
    <2>1. \E U : GrantedBy(ss, D, U)
      BY <1>1, <1>2
    <2> QED
      BY <2>1 DEF GrantedBy, Granted, MapThenSumSet, MapThenFoldSet
  <1>4. PICK U : GrantedBy(ss, D, U) /\ Granted(ss, D) = U[D]
    BY <1>3
  <1> QED
    BY <1>2, <1>4, SetSumByChoice

Loan(ss, queues, rs, r) == ss[r].credits + Owed(ToSet(queues[r])) + Owed(rs[r].jobs)

LentBy(ss, queues, rs, U) ==
  U = [s \in SUBSET ROS |-> IF s = {} THEN 0 ELSE Loan(ss, queues, rs, CHOOSE x \in s : TRUE) + U[s \ {CHOOSE x \in s : TRUE}]]

LEMMA LentIsSetSum ==
  ASSUME NEW ss, NEW queues, NEW rs, NEW w, \A r \in ROS : w[r] \in Int /\ w[r] = Loan(ss, queues, rs, r)
  PROVE  Lent(ss, queues, rs) = SetSum(ROS, w)
  <1>1. PICK T : Chooses(ROS, w, T)
    BY PipelineAssumption, SetSumByChoice
  <1>2. ASSUME NEW U PROVE LentBy(ss, queues, rs, U) <=> Chooses(ROS, w, U)
    <2>1. ASSUME NEW s \in SUBSET ROS, s # {} PROVE w[CHOOSE x \in s : TRUE] = Loan(ss, queues, rs, CHOOSE x \in s : TRUE)
      <3>1. (CHOOSE x \in s : TRUE) \in ROS
        BY <2>1
      <3> QED
        BY <3>1
    <2> DEFINE Lends(s) == IF s = {} THEN 0
                           ELSE Loan(ss, queues, rs, CHOOSE x \in s : TRUE) + U[s \ {CHOOSE x \in s : TRUE}]
               Weighs(s) == IF s = {} THEN 0 ELSE w[CHOOSE x \in s : TRUE] + U[s \ {CHOOSE x \in s : TRUE}]
    <2>2. ASSUME NEW s \in SUBSET ROS PROVE Lends(s) = Weighs(s)
      <3>1. CASE s = {}
        BY <3>1
      <3>2. CASE s # {}
        BY <2>1, <3>2
      <3> QED
        BY <3>1, <3>2
    <2>3. LentBy(ss, queues, rs, U) <=> U = [s \in SUBSET ROS |-> Lends(s)]
      BY DEF LentBy
    <2>4. Chooses(ROS, w, U) <=> U = [s \in SUBSET ROS |-> Weighs(s)]
      BY DEF Chooses
    <2> HIDE DEF Lends, Weighs
    <2>5. [s \in SUBSET ROS |-> Lends(s)] = [s \in SUBSET ROS |-> Weighs(s)]
      BY <2>2
    <2> QED
      BY <2>3, <2>4, <2>5
  <1>3. \E U : LentBy(ss, queues, rs, U) /\ Lent(ss, queues, rs) = U[ROS]
    <2>1. \E U : LentBy(ss, queues, rs, U)
      BY <1>1, <1>2
    <2> QED
      BY <2>1 DEF LentBy, Loan, Lent, MapThenSumSet, MapThenFoldSet
  <1>4. PICK U : LentBy(ss, queues, rs, U) /\ Lent(ss, queues, rs) = U[ROS]
    BY <1>3
  <1> QED
    BY <1>2, <1>4, PipelineAssumption, SetSumByChoice

-----------------------------------------------------------------------------
(* What is owed for a set of requests.                                     *)
LEMMA OwedFacts ==
  ASSUME NEW D, IsFiniteSet(D), \A q \in D : q.robs \in SUBSET ROB
  PROVE  /\ Owed(D) \in Int
         /\ D = {} => Owed(D) = 0
         /\ \A q \in D : Owed(D) = Cardinality(q.robs) + Owed(D \ {q})
  <1> DEFINE w == [q \in D |-> Cardinality(q.robs)]
  <1>1. \A q \in D : w[q] \in Int /\ w[q] = Cardinality(q.robs)
    BY RobsFinite
  <1> HIDE DEF w
  <1>2. ASSUME NEW C \in SUBSET D PROVE Owed(C) = SetSum(C, w)
    <2>1. IsFiniteSet(C)
      BY FS_Subset
    <2> QED
      BY <1>1, <2>1, OwedIsSetSum
  <1>3. /\ SetSum(D, w) \in Int
        /\ D = {} => SetSum(D, w) = 0
        /\ \A q \in D : SetSum(D, w) = w[q] + SetSum(D \ {q}, w)
    BY <1>1, SetSumFacts
  <1> QED
    BY <1>1, <1>2, <1>3

-----------------------------------------------------------------------------
(* Queues whose elements are different.                                    *)
LEMMA SetOfTail ==
  ASSUME NEW S, NEW s \in Seq(S), s # <<>>
  PROVE  /\ ToSet(s) = ToSet(Tail(s)) \cup {Head(s)}
         /\ IsInjective(s) => IsInjective(Tail(s)) /\ Head(s) \notin ToSet(Tail(s))
  <1>1. /\ Len(s) \in Nat /\ DOMAIN s = 1 .. Len(s) /\ 1 \in DOMAIN s /\ Head(s) = s[1]
        /\ DOMAIN Tail(s) = 1 .. Len(s) - 1 /\ \A i \in 1 .. Len(s) - 1 : Tail(s)[i] = s[i + 1] /\ i + 1 \in DOMAIN s
    OBVIOUS
  <1>2. \A i \in DOMAIN s : i # 1 => i - 1 \in DOMAIN Tail(s) /\ Tail(s)[i - 1] = s[i]
    BY <1>1
  <1>3. ToSet(s) = ToSet(Tail(s)) \cup {Head(s)}
    <2>1. ASSUME NEW i \in DOMAIN s PROVE s[i] \in ToSet(Tail(s)) \cup {Head(s)}
      BY <1>1, <1>2 DEF ToSet
    <2>2. \A e \in ToSet(Tail(s)) \cup {Head(s)} : e \in ToSet(s)
      BY <1>1 DEF ToSet
    <2> QED
      BY <2>1, <2>2 DEF ToSet
  <1>4. ASSUME IsInjective(s) PROVE IsInjective(Tail(s)) /\ Head(s) \notin ToSet(Tail(s))
    <2>1. \A i, j \in DOMAIN s : s[i] = s[j] => i = j
      BY <1>4 DEF IsInjective
    <2>2. \A i, j \in 1 .. Len(s) - 1 : Tail(s)[i] = Tail(s)[j] => i = j
      BY <1>1, <2>1
    <2>3. \A i \in 1 .. Len(s) - 1 : Tail(s)[i] # s[1]
      BY <1>1, <2>1
    <2> QED
      BY <1>1, <2>2, <2>3 DEF IsInjective, ToSet
  <1> QED
    BY <1>3, <1>4

LEMMA SetOfAppend ==
  ASSUME NEW S, NEW s \in Seq(S), NEW e \in S
  PROVE  /\ ToSet(Append(s, e)) = ToSet(s) \cup {e}
         /\ IsInjective(s) /\ e \notin ToSet(s) => IsInjective(Append(s, e))
  <1> DEFINE t == Append(s, e)
  <1>1. /\ Len(s) \in Nat /\ DOMAIN s = 1 .. Len(s) /\ DOMAIN t = 1 .. Len(s) + 1
        /\ t[Len(s) + 1] = e /\ \A i \in 1 .. Len(s) : t[i] = s[i]
    OBVIOUS
  <1> HIDE DEF t
  <1>2. ToSet(t) = ToSet(s) \cup {e}
    <2>1. \A x \in ToSet(t) : x \in ToSet(s) \cup {e}
      <3>1. ASSUME NEW i \in 1 .. Len(s) + 1 PROVE t[i] \in ToSet(s) \cup {e}
        <4>1. i \in 1 .. Len(s) \/ i = Len(s) + 1
          BY <1>1
        <4> QED
          BY <1>1, <4>1 DEF ToSet
      <3> QED
        BY <1>1, <3>1 DEF ToSet
    <2>2. \A x \in ToSet(s) \cup {e} : x \in ToSet(t)
      <3>1. Len(s) + 1 \in DOMAIN t /\ \A i \in DOMAIN s : i \in DOMAIN t
        BY <1>1
      <3> QED
        BY <1>1, <3>1 DEF ToSet
    <2> QED
      BY <2>1, <2>2
  <1>3. ASSUME IsInjective(s), e \notin ToSet(s) PROVE IsInjective(t)
    <2>1. \A i, j \in 1 .. Len(s) : s[i] = s[j] => i = j
      BY <1>1, <1>3 DEF IsInjective
    <2>2. \A i \in 1 .. Len(s) : s[i] # e
      BY <1>1, <1>3 DEF ToSet
    <2>3. ASSUME NEW i \in 1 .. Len(s) + 1, NEW j \in 1 .. Len(s) + 1, t[i] = t[j] PROVE i = j
      <3>1. (i \in 1 .. Len(s) \/ i = Len(s) + 1) /\ (j \in 1 .. Len(s) \/ j = Len(s) + 1)
        BY <1>1
      <3> QED
        BY <1>1, <2>1, <2>2, <2>3, <3>1
    <2> QED
      BY <1>1, <2>3 DEF IsInjective
  <1> QED
    BY <1>2, <1>3 DEF t

LEMMA SetOfQueueFinite ==
  ASSUME NEW S, NEW s \in Seq(S)
  PROVE  IsFiniteSet(ToSet(s)) /\ ToSet(s) \subseteq S
  <1>1. DOMAIN s = 1 .. Len(s) /\ Len(s) \in Nat /\ \A i \in DOMAIN s : s[i] \in S
    OBVIOUS
  <1>2. s \in Surjection(1 .. Len(s), ToSet(s))
    <2>1. s \in [1 .. Len(s) -> ToSet(s)] /\ \A t \in ToSet(s) : \E i \in 1 .. Len(s) : s[i] = t
      BY <1>1 DEF ToSet
    <2> QED
      BY <2>1 DEF Surjection
  <1>3. IsFiniteSet(1 .. Len(s))
    BY <1>1, FS_Interval
  <1>4. IsFiniteSet(ToSet(s))
    BY <1>2, <1>3, FS_Surjection
  <1> QED
    BY <1>1, <1>4 DEF ToSet

(* A queue extended by the elements of a set in any order.                 *)
LEMMA SetOfExtended ==
  ASSUME NEW S, NEW s \in Seq(S), IsInjective(s), NEW D \in SUBSET S, IsFiniteSet(D), ToSet(s) \cap D = {},
         NEW order \in SetToSeqs(D)
  PROVE  s \o order \in Seq(S) /\ IsInjective(s \o order) /\ ToSet(s \o order) = ToSet(s) \cup D
  <1> DEFINE n == Cardinality(D)
             m == Len(s)
             t == s \o order
  <1>1. n \in Nat /\ order \in [1 .. n -> D] /\ \A i, j \in 1 .. n : i # j => order[i] # order[j]
    BY FS_CardinalityType DEF SetToSeqs
  <1>2. \A d \in D : \E i \in 1 .. n : order[i] = d
    <2>1. order \in Injection(1 .. n, D)
      BY <1>1 DEF Injection, IsInjective
    <2>2. Cardinality(1 .. n) = n
      BY <1>1, FS_Interval
    <2>3. order \in Surjection(1 .. n, D)
      BY <2>1, <2>2, FS_Injection
    <2> QED
      BY <2>3 DEF Surjection
  <1> HIDE DEF n
  <1>3. order \in Seq(S) /\ Len(order) = n
    <2>1. order \in [1 .. n -> S]
      BY <1>1
    <2> QED
      BY <1>1, <2>1
  <1>4. /\ m \in Nat /\ DOMAIN s = 1 .. m /\ t \in Seq(S) /\ DOMAIN t = 1 .. m + n
        /\ \A i \in 1 .. m : t[i] = s[i]
        /\ \A i \in 1 .. m + n : i \notin 1 .. m => t[i] = order[i - m]
    BY <1>1, <1>3
  <1> HIDE DEF t, m
  <1>5. ASSUME NEW i \in 1 .. m + n
        PROVE  \/ i \in 1 .. m /\ t[i] = s[i] /\ s[i] \in ToSet(s)
               \/ i - m \in 1 .. n /\ t[i] = order[i - m] /\ order[i - m] \in D
    <2>1. CASE i \in 1 .. m
      BY <1>4, <2>1 DEF ToSet
    <2>2. CASE i \notin 1 .. m
      <3>1. i - m \in 1 .. n
        BY <1>1, <1>4, <2>2
      <3>2. t[i] = order[i - m]
        BY <1>4, <2>2
      <3>3. order[i - m] \in D
        BY <1>1, <3>1
      <3> QED
        BY <3>1, <3>2, <3>3
    <2> QED
      BY <2>1, <2>2
  <1>6. ToSet(t) = ToSet(s) \cup D
    <2>1. ASSUME NEW x \in ToSet(t) PROVE x \in ToSet(s) \cup D
      <3>1. PICK i \in 1 .. m + n : t[i] = x
        BY <1>4, <2>1 DEF ToSet
      <3> QED
        BY <1>5, <3>1
    <2>2. ASSUME NEW x \in ToSet(s) PROVE x \in ToSet(t)
      <3>1. PICK i \in 1 .. m : s[i] = x
        BY <1>4 DEF ToSet
      <3>2. i \in 1 .. m + n
        BY <1>1, <1>4
      <3> QED
        BY <1>4, <3>1, <3>2 DEF ToSet
    <2>3. ASSUME NEW x \in D PROVE x \in ToSet(t)
      <3>1. PICK i \in 1 .. n : order[i] = x
        BY <1>2
      <3> DEFINE l == m + i
      <3>2. l \in 1 .. m + n /\ l \notin 1 .. m /\ l - m = i
        BY <1>1, <1>4
      <3> HIDE DEF l
      <3>3. l \in DOMAIN t /\ t[l] = x
        BY <1>4, <3>1, <3>2
      <3> QED
        BY <3>3 DEF ToSet
    <2> QED
      BY <2>1, <2>2, <2>3
  <1>7. ASSUME NEW i \in 1 .. m + n, NEW j \in 1 .. m + n, t[i] = t[j] PROVE i = j
    <2>1. \A k, l \in 1 .. m : s[k] = s[l] => k = l
      BY <1>4 DEF IsInjective
    <2>2. \A x \in ToSet(s) : x \notin D
      OBVIOUS
    <2>3. i \in 1 .. m <=> j \in 1 .. m
      BY <1>4, <1>5, <1>7, <2>2
    <2>4. CASE i \in 1 .. m
      BY <1>4, <1>7, <2>1, <2>3, <2>4
    <2>5. CASE i \notin 1 .. m
      <3> DEFINE k == i - m
                 l == j - m
      <3>1. k \in 1 .. n /\ l \in 1 .. n /\ order[k] = order[l]
        BY <1>5, <1>7, <2>3, <2>5
      <3> HIDE DEF k, l
      <3>2. k = l
        BY <1>1, <3>1
      <3> QED
        BY <1>1, <1>4, <3>2 DEF k, l
    <2> QED
      BY <2>4, <2>5
  <1> QED
    BY <1>4, <1>6, <1>7 DEF IsInjective, t

-----------------------------------------------------------------------------
(* The inductive invariant of the credits: where the requests are.         *)

(* The ROBs whose fragments a PU waits for.                                *)
Waiting(p) == processing[p].waiting \cup builder[p].waiting

(* A request to ROS r asks for all that its PU waits for from r.           *)
Due(r, q) ==
  /\ q.pu \in PU
  /\ q = Request(q.pu, event[q.pu].id, Waiting(q.pu) \cap RobIds[r])
  /\ q.robs # {}

(* The requests that DcmApp holds back, those sent and those processed.    *)
Held(r) == ToSet(sessions[r].pending)
Sent(r) == ToSet(rosQueue[r])
Asked(r) == Held(r) \cup Sent(r) \cup ros[r].jobs

(* A request is in one place, once.                                        *)
RequestsAt(r) ==
  /\ \A q \in Asked(r) : Due(r, q)
  /\ IsInjective(sessions[r].pending) /\ IsInjective(rosQueue[r]) /\ IsFiniteSet(ros[r].jobs)
  /\ Held(r) \cap Sent(r) = {} /\ Held(r) \cap ros[r].jobs = {} /\ Sent(r) \cap ros[r].jobs = {}

(* A fragment on its way is waited for, and its request is done.           *)
Answers(f) ==
  /\ f.event = event[f.pu].id /\ f.rob \in Waiting(f.pu)
  /\ \A r \in ROS : f.rob \in RobIds[r] => \A q \in Asked(r) : q.pu # f.pu

(* A session in outQueue holds the credits of its first request, and any   *)
(* other session none.                                                     *)
ReadyIn(queue, s, r) ==
  IF r \in ToSet(queue) THEN s.pending # <<>> /\ s.credits = Cardinality(Head(s.pending).robs)
  ELSE s.credits = 0
Ready(r) == ReadyIn(outQueue, sessions[r], r)

Session == [pending : Seq(Requests), credits : Int]

DcmTypeOK ==
  /\ m_creditsAvailable \in Int
  /\ sessions \in [ROS -> Session]
  /\ outQueue \in Seq(ROS) /\ IsInjective(outQueue)

RosTypeOK ==
  /\ rosQueue \in [ROS -> Seq(Requests)]
  /\ ros \in [ROS -> [jobs : SUBSET Requests, requested : {"no", "yes"}]]
  /\ fragments \subseteq [pu : PU, event : Nat, rob : ROB] /\ IsFiniteSet(fragments)

RequestsIInv ==
  /\ DcmTypeOK /\ RosTypeOK
  /\ \A r \in ROS : RequestsAt(r) /\ Ready(r)
  /\ \A f \in fragments : Answers(f)
  /\ CreditsConserved

CreditsIInv == PuIInv /\ RequestsIInv

-----------------------------------------------------------------------------
(* DcmApp distributes credits: what a session needs, and what it gets.     *)
LEMMA NeedFacts ==
  ASSUME NEW s \in Session
  PROVE  /\ minCreditsNeeded(s) \in Int
         /\ minCreditsNeeded(s) # 0 => /\ s.pending # <<>>
                                       /\ s.credits + minCreditsNeeded(s) = Cardinality(Head(s.pending).robs)
                                       /\ s.credits < Cardinality(Head(s.pending).robs)
  <1>1. s.pending \in Seq(Requests) /\ s.credits \in Int
    BY DEF Session
  <1>2. s.pending # <<>> => Cardinality(Head(s.pending).robs) \in Nat
    <2>1. s.pending # <<>> => Head(s.pending) \in Requests
      BY <1>1
    <2> QED
      BY <2>1, RobsFinite DEF Requests
  <1> QED
    BY <1>1, <1>2 DEF minCreditsNeeded

LEMMA Distributed ==
  ASSUME NEW ss \in [ROS -> Session], NEW credits \in Int,
         outQueue \in Seq(ROS), IsInjective(outQueue), \A r \in ROS : ReadyIn(outQueue, ss[r], r),
         distributeCredits(ss, credits)
  PROVE  /\ DcmTypeOK'
         /\ \A r \in ROS : Ready(r)' /\ sessions'[r].pending = ss[r].pending
         /\ \E n : /\ m_creditsAvailable' = credits - SetSum(ROS, n) /\ SetSum(ROS, n) \in Int
                   /\ \A r \in ROS : n[r] \in Int /\ sessions'[r].credits = ss[r].credits + n[r]
  <1> DEFINE need(r) == minCreditsNeeded(ss[r])
  <1>0. \A r \in ROS : ss[r] \in Session
    OBVIOUS
  <1>1. PICK chosen \in SUBSET {r \in ROS : need(r) # 0} :
          /\ m_creditsAvailable' = credits - Granted(ss, chosen)
          /\ sessions' = [r \in ROS |->
               IF r \in chosen THEN [ss[r] EXCEPT !.credits = ss[r].credits + need(r)] ELSE ss[r]]
          /\ \E order \in SetToSeqs(chosen) : outQueue' = outQueue \o order
    BY DEF distributeCredits
  <1>2. /\ \A r \in ROS : need(r) \in Int
        /\ \A r \in chosen : /\ r \in ROS /\ ss[r].pending # <<>>
                             /\ ss[r].credits + need(r) = Cardinality(Head(ss[r].pending).robs)
                             /\ ss[r].credits < Cardinality(Head(ss[r].pending).robs)
    BY <1>0, NeedFacts
  <1> HIDE DEF need
  <1>3. chosen \in SUBSET ROS /\ IsFiniteSet(chosen)
    <2>1. chosen \in SUBSET ROS
      OBVIOUS
    <2> QED
      BY <2>1, PipelineAssumption, FS_Subset
  <1>4. ToSet(outQueue) \cap chosen = {}
    <2>1. ASSUME NEW r \in chosen, r \in ToSet(outQueue) PROVE FALSE
      <3>1. ss[r].credits = Cardinality(Head(ss[r].pending).robs) /\ ss[r].credits \in Int
        BY <1>0, <1>2, <2>1 DEF ReadyIn, Session
      <3> QED
        BY <1>2, <3>1
    <2> QED
      BY <2>1
  <1>5. outQueue' \in Seq(ROS) /\ IsInjective(outQueue') /\ ToSet(outQueue') = ToSet(outQueue) \cup chosen
    BY <1>1, <1>3, <1>4, SetOfExtended
  <1>6. ASSUME NEW r \in ROS
        PROVE  /\ sessions'[r] \in Session /\ sessions'[r].pending = ss[r].pending
               /\ sessions'[r].credits = IF r \in chosen THEN ss[r].credits + need(r) ELSE ss[r].credits
    <2> DEFINE c == ss[r].credits + need(r)
    <2>1. sessions'[r] = IF r \in chosen THEN [ss[r] EXCEPT !.credits = c] ELSE ss[r]
      BY <1>1
    <2>2. ss[r] \in Session /\ c \in Int
      BY <1>0, <1>2 DEF Session
    <2> HIDE DEF c
    <2>3. /\ [ss[r] EXCEPT !.credits = c] \in Session /\ [ss[r] EXCEPT !.credits = c].pending = ss[r].pending
          /\ [ss[r] EXCEPT !.credits = c].credits = c
      BY <2>2 DEF Session
    <2>4. CASE r \in chosen
      BY <2>1, <2>3, <2>4 DEF c
    <2>5. CASE r \notin chosen
      BY <2>1, <2>2, <2>5
    <2> QED
      BY <2>4, <2>5
  <1>7. sessions' \in [ROS -> Session]
    <2>1. sessions' = [r \in ROS |-> sessions'[r]]
      BY <1>1
    <2> QED
      BY <1>6, <2>1
  <1>8. ASSUME NEW r \in ROS PROVE ReadyIn(outQueue', sessions'[r], r)
    <2>1. CASE r \in chosen
      BY <1>2, <1>5, <1>6, <2>1 DEF ReadyIn
    <2>2. CASE r \notin chosen
      BY <1>5, <1>6, <2>2 DEF ReadyIn
    <2> QED
      BY <2>1, <2>2
  <1> DEFINE n == [r \in ROS |-> IF r \in chosen THEN need(r) ELSE 0]
  <1>9. \A r \in ROS : n[r] \in Int /\ n[r] = IF r \in chosen THEN need(r) ELSE 0
    BY <1>2
  <1> HIDE DEF n
  <1>10. Granted(ss, chosen) = SetSum(ROS, n) /\ SetSum(ROS, n) \in Int
    <2>1. \A r \in chosen : n[r] \in Int /\ n[r] = minCreditsNeeded(ss[r])
      BY <1>3, <1>9 DEF need
    <2>2. Granted(ss, chosen) = SetSum(chosen, n)
      BY <1>3, <2>1, GrantedIsSetSum
    <2>3. SetSum(ROS, n) = SetSum(chosen, n)
      BY <1>3, <1>9, PipelineAssumption, SetSumOfSupport
    <2> QED
      BY <1>9, <2>2, <2>3, PipelineAssumption, SetSumFacts
  <1>11. \A r \in ROS : sessions'[r].credits = ss[r].credits + n[r]
    <2>1. \A r \in ROS : ss[r].credits \in Int
      BY <1>0 DEF Session
    <2> QED
      BY <1>6, <1>9, <2>1
  <1>12. DcmTypeOK'
    BY <1>1, <1>5, <1>7, <1>10 DEF DcmTypeOK
  <1> QED
    BY <1>1, <1>6, <1>8, <1>9, <1>10, <1>11, <1>12 DEF Ready

-----------------------------------------------------------------------------
(* The credits lent, before and after a step.                              *)
Ros == [jobs : SUBSET Requests, requested : {"no", "yes"}]

LoansTyped(ss, queues, rs) ==
  /\ ss \in [ROS -> Session] /\ queues \in [ROS -> Seq(Requests)] /\ rs \in [ROS -> Ros]
  /\ \A r \in ROS : IsFiniteSet(rs[r].jobs)

LEMMA OwedOfQueue == ASSUME NEW s \in Seq(Requests) PROVE Owed(ToSet(s)) \in Int
  <1>1. IsFiniteSet(ToSet(s)) /\ ToSet(s) \subseteq Requests
    BY SetOfQueueFinite
  <1>2. \A q \in ToSet(s) : q.robs \in SUBSET ROB
    BY <1>1 DEF Requests
  <1> QED
    BY <1>1, <1>2, OwedFacts

LEMMA LoanTyped ==
  ASSUME NEW ss, NEW queues, NEW rs, LoansTyped(ss, queues, rs)
  PROVE  \A r \in ROS : /\ Loan(ss, queues, rs, r) \in Int /\ ss[r].credits \in Int
                        /\ Owed(ToSet(queues[r])) \in Int /\ Owed(rs[r].jobs) \in Int
  <1>1. ASSUME NEW r \in ROS PROVE Owed(ToSet(queues[r])) \in Int
    BY OwedOfQueue DEF LoansTyped
  <1>2. ASSUME NEW r \in ROS PROVE Owed(rs[r].jobs) \in Int
    <2>1. \A q \in rs[r].jobs : q.robs \in SUBSET ROB
      BY DEF Ros, Requests, LoansTyped
    <2> QED
      BY <2>1, OwedFacts DEF LoansTyped
  <1>3. \A r \in ROS : ss[r].credits \in Int
    BY DEF Session, LoansTyped
  <1> QED
    BY <1>1, <1>2, <1>3 DEF Loan

(* The loans grow by n, those of each ROS by its share.                    *)
LEMMA LentGrows ==
  ASSUME NEW ss, NEW queues, NEW rs, LoansTyped(ss, queues, rs),
         NEW ss2, NEW queues2, NEW rs2, LoansTyped(ss2, queues2, rs2),
         NEW n, \A r \in ROS : n[r] \in Int /\ Loan(ss2, queues2, rs2, r) = Loan(ss, queues, rs, r) + n[r]
  PROVE  /\ Lent(ss, queues, rs) \in Int
         /\ Lent(ss2, queues2, rs2) = Lent(ss, queues, rs) + SetSum(ROS, n)
  <1> DEFINE w == [r \in ROS |-> Loan(ss, queues, rs, r)]
             v == [r \in ROS |-> Loan(ss2, queues2, rs2, r)]
  <1>1. \A r \in ROS : w[r] \in Int /\ w[r] = Loan(ss, queues, rs, r)
    BY LoanTyped
  <1>2. \A r \in ROS : v[r] \in Int /\ v[r] = Loan(ss2, queues2, rs2, r)
    BY LoanTyped
  <1> HIDE DEF w, v
  <1>3. Lent(ss, queues, rs) = SetSum(ROS, w) /\ SetSum(ROS, w) \in Int
    <2>1. Lent(ss, queues, rs) = SetSum(ROS, w)
      BY <1>1, LentIsSetSum
    <2>2. IsFiniteSet(ROS) /\ ROS \in SUBSET ROS /\ \A r \in ROS : w[r] \in Int
      BY <1>1, PipelineAssumption
    <2>3. SetSum(ROS, w) \in Int
      BY <2>2, SetSumFacts
    <2> QED
      BY <2>1, <2>3
  <1>4. Lent(ss2, queues2, rs2) = SetSum(ROS, v)
    BY <1>2, LentIsSetSum
  <1>5. \A r \in ROS : w[r] \in Int /\ n[r] \in Int /\ v[r] = w[r] + n[r]
    BY <1>1, <1>2
  <1>6. SetSum(ROS, v) = SetSum(ROS, w) + SetSum(ROS, n)
    BY <1>5, SetSumAdds, PipelineAssumption
  <1> QED
    BY <1>3, <1>4, <1>6

(* Only the loan of one ROS grows.                                         *)
LEMMA LentGrowsAt ==
  ASSUME NEW ss, NEW queues, NEW rs, LoansTyped(ss, queues, rs),
         NEW ss2, NEW queues2, NEW rs2, LoansTyped(ss2, queues2, rs2),
         NEW r \in ROS, NEW k \in Int,
         Loan(ss2, queues2, rs2, r) = Loan(ss, queues, rs, r) + k,
         \A s \in ROS \ {r} : Loan(ss2, queues2, rs2, s) = Loan(ss, queues, rs, s)
  PROVE  /\ Lent(ss, queues, rs) \in Int
         /\ Lent(ss2, queues2, rs2) = Lent(ss, queues, rs) + k
  <1> DEFINE n == [s \in ROS |-> IF s = r THEN k ELSE 0]
  <1>1. \A s \in ROS : n[s] \in Int /\ n[s] = IF s = r THEN k ELSE 0
    OBVIOUS
  <1> HIDE DEF n
  <1>2. ASSUME NEW s \in ROS PROVE Loan(ss2, queues2, rs2, s) = Loan(ss, queues, rs, s) + n[s]
    <2>1. Loan(ss, queues, rs, s) \in Int
      BY LoanTyped
    <2>2. CASE s = r
      BY <1>1, <2>2
    <2>3. CASE s # r
      <3>1. s \in ROS \ {r} /\ n[s] = 0
        BY <1>1, <2>3
      <3> QED
        BY <2>1, <3>1
    <2> QED
      BY <2>2, <2>3
  <1>3. SetSum(ROS, n) = k
    <2>0. /\ IsFiniteSet(ROS) /\ {r} \in SUBSET ROS /\ {} \in SUBSET ROS /\ r \in {r}
          /\ \A s \in ROS : n[s] \in Int
          /\ \A s \in ROS \ {r} : n[s] = 0
      BY <1>1, PipelineAssumption
    <2>1. SetSum(ROS, n) = SetSum({r}, n)
      BY <2>0, SetSumOfSupport
    <2>2. SetSum({r}, n) = n[r] + SetSum({r} \ {r}, n) /\ SetSum({}, n) = 0
      <3>1. \A R \in SUBSET ROS : /\ R = {} => SetSum(R, n) = 0
                                 /\ \A x \in R : SetSum(R, n) = n[x] + SetSum(R \ {x}, n)
        BY <2>0, SetSumFacts
      <3> QED
        BY <2>0, <3>1, Zenon
    <2>3. {r} \ {r} = {}
      OBVIOUS
    <2>4. SetSum({r} \ {r}, n) = 0
      BY <2>2, <2>3, Zenon
    <2> QED
      BY <1>1, <2>1, <2>2, <2>4
  <1>4. \A s \in ROS : n[s] \in Int /\ Loan(ss2, queues2, rs2, s) = Loan(ss, queues, rs, s) + n[s]
    BY <1>1, <1>2
  <1>5. Lent(ss, queues, rs) \in Int /\ Lent(ss2, queues2, rs2) = Lent(ss, queues, rs) + SetSum(ROS, n)
    BY <1>4, LentGrows
  <1> QED
    BY <1>3, <1>5

-----------------------------------------------------------------------------
(* What the invariant says, in the form the steps need it.                 *)
LEMMA RequestsTyped ==
  ASSUME RequestsIInv
  PROVE  /\ LoansTyped(sessions, rosQueue, ros)
         /\ sessions \in [ROS -> Session] /\ rosQueue \in [ROS -> Seq(Requests)] /\ ros \in [ROS -> Ros]
         /\ \A r \in ROS : IsFiniteSet(ros[r].jobs) /\ Held(r) \subseteq Requests /\ Sent(r) \subseteq Requests
         /\ \A r \in ROS : Asked(r) \subseteq Requests
         /\ m_creditsAvailable \in Int /\ Cardinality(fragments) \in Nat
  <1>1. /\ sessions \in [ROS -> Session] /\ rosQueue \in [ROS -> Seq(Requests)] /\ ros \in [ROS -> Ros]
        /\ m_creditsAvailable \in Int /\ Cardinality(fragments) \in Nat
    BY FS_CardinalityType DEF RequestsIInv, DcmTypeOK, RosTypeOK, Ros
  <1>2. ASSUME NEW r \in ROS PROVE IsFiniteSet(ros[r].jobs) /\ ros[r].jobs \subseteq Requests
    BY <1>1 DEF RequestsIInv, RequestsAt, Ros
  <1>3. ASSUME NEW r \in ROS PROVE Held(r) \subseteq Requests /\ Sent(r) \subseteq Requests
    <2>1. sessions[r].pending \in Seq(Requests) /\ rosQueue[r] \in Seq(Requests)
      BY <1>1 DEF Session
    <2> QED
      BY <2>1, SetOfQueueFinite DEF Held, Sent
  <1> QED
    BY <1>1, <1>2, <1>3 DEF Asked, LoansTyped

(* A PU that waits for nothing has no request and no fragment under way.   *)
LEMMA NothingUnderWay ==
  ASSUME RequestsIInv, NEW p \in PU, Waiting(p) = {}
  PROVE  /\ \A r \in ROS : \A q \in Asked(r) : q.pu # p
         /\ \A f \in fragments : f.pu # p
  <1>1. ASSUME NEW r \in ROS, NEW q \in Asked(r), q.pu = p PROVE FALSE
    <2>1. q = Request(p, event[p].id, Waiting(p) \cap RobIds[r]) /\ q.robs # {}
      BY <1>1 DEF RequestsIInv, RequestsAt, Due
    <2>2. q.robs = Waiting(p) \cap RobIds[r]
      BY <2>1 DEF Request
    <2> QED
      BY <2>1, <2>2
  <1>2. ASSUME NEW f \in fragments, f.pu = p PROVE FALSE
    BY <1>2 DEF RequestsIInv, Answers
  <1> QED
    BY <1>1, <1>2

(* A step of a PU in which no request leaves and no fragment arrives.      *)
LEMMA Quiet ==
  ASSUME RequestsIInv, UNCHANGED <<dcmVars, rosVars, fragments>>,
         \A p \in PU : Waiting(p)' = Waiting(p) /\ (event'[p].id = event[p].id \/ Waiting(p) = {})
  PROVE  RequestsIInv'
  <1>1. ASSUME NEW p \in PU PROVE
          /\ Waiting(p)' = Waiting(p)
          /\ event'[p].id = event[p].id \/ ((\A r \in ROS : \A q \in Asked(r) : q.pu # p) /\ \A f \in fragments : f.pu # p)
    BY NothingUnderWay
  <1>2. DcmTypeOK' /\ RosTypeOK' /\ CreditsConserved'
    BY DEF RequestsIInv, DcmTypeOK, RosTypeOK, CreditsConserved, dcmVars, rosVars
  <1>3. ASSUME NEW r \in ROS PROVE RequestsAt(r)' /\ Ready(r)' /\ Asked(r)' = Asked(r)
    <2>1. RequestsAt(r) /\ Ready(r)
      BY DEF RequestsIInv
    <2>2. Asked(r)' = Asked(r) /\ Held(r)' = Held(r) /\ Sent(r)' = Sent(r)
      BY DEF Asked, Held, Sent, dcmVars, rosVars
    <2>3. ASSUME NEW q \in Asked(r) PROVE Due(r, q)'
      <3>1. Due(r, q)
        BY <2>1 DEF RequestsAt
      <3> QED
        BY <1>1, <3>1 DEF Due
    <2>4. RequestsAt(r)'
      BY <2>1, <2>2, <2>3 DEF RequestsAt, dcmVars, rosVars
    <2>5. Ready(r)'
      BY <2>1 DEF Ready, dcmVars
    <2> QED
      BY <2>2, <2>4, <2>5
  <1>4. ASSUME NEW f \in fragments PROVE Answers(f)'
    <2>1. f.pu \in PU /\ Answers(f)
      BY DEF RequestsIInv, RosTypeOK
    <2> QED
      BY <1>1, <1>3, <2>1 DEF Answers
  <1> QED
    BY <1>2, <1>3, <1>4 DEF RequestsIInv

-----------------------------------------------------------------------------
(* DcmApp and the ROSes.                                                   *)

(* A step of DcmApp or of a ROS: no PU sees it.                            *)
LEMMA SameWaiting ==
  ASSUME UNCHANGED puVars
  PROVE  event' = event /\ \A p : Waiting(p)' = Waiting(p)
  BY DEF puVars, Waiting

(* Distributing credits keeps their account: what the sessions get is no   *)
(* longer available.                                                       *)
LEMMA AccountAfterDistribution ==
  ASSUME NEW ss \in [ROS -> Session], NEW credits \in Int,
         NEW n, m_creditsAvailable' = credits - SetSum(ROS, n), SetSum(ROS, n) \in Int,
         \A r \in ROS : n[r] \in Int /\ sessions'[r].credits = ss[r].credits + n[r],
         LoansTyped(ss, rosQueue, ros), LoansTyped(sessions', rosQueue, ros)
  PROVE  /\ Lent(ss, rosQueue, ros) \in Int
         /\ m_creditsAvailable' + Lent(sessions', rosQueue, ros) = credits + Lent(ss, rosQueue, ros)
  <1>1. ASSUME NEW r \in ROS PROVE Loan(sessions', rosQueue, ros, r) = Loan(ss, rosQueue, ros, r) + n[r]
    <2>1. ss[r].credits \in Int /\ Owed(ToSet(rosQueue[r])) \in Int /\ Owed(ros[r].jobs) \in Int
      BY LoanTyped
    <2> QED
      BY <2>1 DEF Loan
  <1>2. \A r \in ROS : n[r] \in Int /\ Loan(sessions', rosQueue, ros, r) = Loan(ss, rosQueue, ros, r) + n[r]
    BY <1>1
  <1>3. /\ Lent(ss, rosQueue, ros) \in Int
        /\ Lent(sessions', rosQueue, ros) = Lent(ss, rosQueue, ros) + SetSum(ROS, n)
    BY <1>2, LentGrows
  <1> QED
    BY <1>3

(* A ROS asks for its next job.                                            *)
LEMMA RosAsksPreserves == ASSUME RequestsIInv, NEW r \in ROS, RosAsks(r) PROVE RequestsIInv'
  <1>1. /\ ros' = [ros EXCEPT ![r].requested = "yes"] /\ UNCHANGED <<puVars, dcmVars, rosQueue, fragments>>
    BY DEF RosAsks
  <1>2. ros \in [ROS -> Ros]
    BY RequestsTyped
  <1>3. ros' \in [ROS -> Ros] /\ \A s \in ROS : ros'[s].jobs = ros[s].jobs
    BY <1>1, <1>2 DEF Ros
  <1>4. event' = event /\ \A p : Waiting(p)' = Waiting(p)
    BY <1>1, SameWaiting
  <1>5. DcmTypeOK' /\ RosTypeOK'
    BY <1>1, <1>3 DEF RequestsIInv, DcmTypeOK, RosTypeOK, dcmVars, Ros
  <1>6. ASSUME NEW s \in ROS PROVE RequestsAt(s)' /\ Ready(s)' /\ Asked(s)' = Asked(s)
    <2>1. RequestsAt(s) /\ Ready(s)
      BY DEF RequestsIInv
    <2>2. Asked(s)' = Asked(s) /\ Held(s)' = Held(s) /\ Sent(s)' = Sent(s) /\ \A q : Due(s, q)' <=> Due(s, q)
      BY <1>1, <1>3, <1>4 DEF Asked, Held, Sent, dcmVars, Due
    <2>3. RequestsAt(s)'
      BY <1>1, <1>3, <2>1, <2>2 DEF RequestsAt, dcmVars
    <2>4. Ready(s)'
      BY <1>1, <2>1 DEF Ready, dcmVars
    <2> QED
      BY <2>2, <2>3, <2>4
  <1>7. ASSUME NEW f \in fragments PROVE Answers(f)'
    BY <1>4, <1>6 DEF RequestsIInv, Answers
  <1>8. CreditsConserved'
    <2>1. ASSUME NEW s \in ROS PROVE Loan(sessions, rosQueue, ros', s) = Loan(sessions, rosQueue, ros, s) + 0
      <3>1. Loan(sessions, rosQueue, ros, s) \in Int
        BY RequestsTyped, LoanTyped
      <3> QED
        BY <1>3, <3>1 DEF Loan
    <2>2. LoansTyped(sessions, rosQueue, ros')
      BY <1>3, RequestsTyped DEF LoansTyped
    <2>3. Lent(sessions, rosQueue, ros') = Lent(sessions, rosQueue, ros) + 0 /\ Lent(sessions, rosQueue, ros) \in Int
      <3>1. \A s \in ROS \ {r} : Loan(sessions, rosQueue, ros', s) = Loan(sessions, rosQueue, ros, s)
        BY <1>3 DEF Loan
      <3> QED
        BY <2>1, <2>2, <3>1, RequestsTyped, LentGrowsAt
    <2>4. Lent(sessions, rosQueue, ros') = Lent(sessions, rosQueue, ros)
      BY <2>3
    <2> QED
      BY <1>1, <2>4 DEF RequestsIInv, CreditsConserved, dcmVars
  <1> QED
    BY <1>1, <1>5, <1>6, <1>7, <1>8 DEF RequestsIInv

(* The queue of a ROS gives it a job.                                      *)
LEMMA JobArrivesPreserves == ASSUME RequestsIInv, NEW r \in ROS, JobArrives(r) PROVE RequestsIInv'
  <1> DEFINE q == Head(rosQueue[r])
  <1>1. /\ rosQueue[r] # <<>> /\ rosQueue' = [rosQueue EXCEPT ![r] = Tail(rosQueue[r])]
        /\ ros' = [ros EXCEPT ![r].jobs = ros[r].jobs \cup {q}, ![r].requested = "no"]
        /\ UNCHANGED <<puVars, dcmVars, fragments>>
    BY DEF JobArrives
  <1>2. /\ ros \in [ROS -> Ros] /\ rosQueue \in [ROS -> Seq(Requests)]
        /\ \A s \in ROS : IsFiniteSet(ros[s].jobs) /\ ros[s].jobs \subseteq Requests
    BY RequestsTyped DEF Ros
  <1>3. RequestsAt(r)
    BY DEF RequestsIInv
  <1>4. /\ q \in Requests /\ Tail(rosQueue[r]) \in Seq(Requests)
        /\ Sent(r) = ToSet(Tail(rosQueue[r])) \cup {q} /\ q \notin ToSet(Tail(rosQueue[r]))
        /\ IsInjective(Tail(rosQueue[r]))
    <2>1. rosQueue[r] \in Seq(Requests) /\ IsInjective(rosQueue[r])
      BY <1>2, <1>3 DEF RequestsAt
    <2> QED
      BY <1>1, <2>1, SetOfTail DEF Sent
  <1> HIDE DEF q
  <1>5. /\ rosQueue' \in [ROS -> Seq(Requests)] /\ rosQueue'[r] = Tail(rosQueue[r])
        /\ \A s \in ROS \ {r} : rosQueue'[s] = rosQueue[s]
    BY <1>1, <1>2, <1>4
  <1>6. /\ ros' \in [ROS -> Ros] /\ ros'[r].jobs = ros[r].jobs \cup {q}
        /\ \A s \in ROS \ {r} : ros'[s].jobs = ros[s].jobs
    BY <1>1, <1>2, <1>4 DEF Ros
  <1>7. event' = event /\ \A p : Waiting(p)' = Waiting(p)
    BY <1>1, SameWaiting
  <1>8. DcmTypeOK' /\ RosTypeOK'
    BY <1>1, <1>5, <1>6 DEF RequestsIInv, DcmTypeOK, RosTypeOK, dcmVars, Ros
  <1>9. \A s \in ROS : IsFiniteSet(ros'[s].jobs)
    <2>1. IsFiniteSet(ros[r].jobs \cup {q})
      BY <1>2, FS_AddElement
    <2> QED
      BY <1>2, <1>6, <2>1
  <1>10. ASSUME NEW s \in ROS PROVE RequestsAt(s)' /\ Ready(s)' /\ Asked(s)' = Asked(s)
    <2>1. RequestsAt(s) /\ Ready(s)
      BY DEF RequestsIInv
    <2>2. Held(s)' = Held(s) /\ \A x : Due(s, x)' <=> Due(s, x)
      BY <1>1, <1>7 DEF Held, dcmVars, Due
    <2>3. Ready(s)'
      BY <1>1, <2>1 DEF Ready, dcmVars
    <2>4. CASE s = r
      <3>1. Sent(s)' = ToSet(Tail(rosQueue[r]))
        BY <1>5, <2>4 DEF Sent
      <3>2. Asked(s)' = Asked(s)
        BY <1>4, <1>6, <2>2, <2>4, <3>1 DEF Asked
      <3>3. /\ Held(s)' \cap Sent(s)' = {} /\ Held(s)' \cap ros'[s].jobs = {} /\ Sent(s)' \cap ros'[s].jobs = {}
        BY <1>4, <1>6, <2>1, <2>2, <2>4, <3>1 DEF RequestsAt
      <3>4. IsInjective(sessions'[s].pending) /\ IsInjective(rosQueue'[s])
        BY <1>1, <1>4, <1>5, <2>1, <2>4 DEF RequestsAt, dcmVars
      <3>5. RequestsAt(s)'
        BY <1>9, <2>1, <2>2, <3>2, <3>3, <3>4 DEF RequestsAt
      <3> QED
        BY <2>3, <3>2, <3>5
    <2>5. CASE s # r
      <3>1. Sent(s)' = Sent(s) /\ ros'[s].jobs = ros[s].jobs /\ rosQueue'[s] = rosQueue[s]
        BY <1>5, <1>6, <2>5 DEF Sent
      <3>2. Asked(s)' = Asked(s)
        BY <2>2, <3>1 DEF Asked
      <3>3. RequestsAt(s)'
        BY <1>1, <2>1, <2>2, <3>1, <3>2 DEF RequestsAt, dcmVars
      <3> QED
        BY <2>3, <3>2, <3>3
    <2> QED
      BY <2>4, <2>5
  <1>11. ASSUME NEW f \in fragments PROVE Answers(f)'
    BY <1>7, <1>10 DEF RequestsIInv, Answers
  <1>12. CreditsConserved'
    <2>1. Owed(Sent(r)) = Cardinality(q.robs) + Owed(ToSet(Tail(rosQueue[r])))
      <3>1. IsFiniteSet(Sent(r)) /\ Sent(r) \subseteq Requests
        BY <1>2, SetOfQueueFinite DEF Sent
      <3>2. \A x \in Sent(r) : x.robs \in SUBSET ROB
        BY <3>1 DEF Requests
      <3>3. Owed(Sent(r)) = Cardinality(q.robs) + Owed(Sent(r) \ {q})
        BY <1>4, <3>1, <3>2, OwedFacts
      <3>4. Sent(r) \ {q} = ToSet(Tail(rosQueue[r]))
        BY <1>4
      <3> QED
        BY <3>3, <3>4
    <2>2. Owed(ros'[r].jobs) = Cardinality(q.robs) + Owed(ros[r].jobs)
      <3>1. q \notin ros[r].jobs
        BY <1>3, <1>4 DEF RequestsAt
      <3>2. \A x \in ros'[r].jobs : x.robs \in SUBSET ROB
        BY <1>2, <1>4, <1>6 DEF Requests
      <3>3. Owed(ros'[r].jobs) = Cardinality(q.robs) + Owed(ros'[r].jobs \ {q})
        BY <1>6, <1>9, <3>2, OwedFacts
      <3>4. ros'[r].jobs \ {q} = ros[r].jobs
        BY <1>6, <3>1
      <3> QED
        BY <3>3, <3>4
    <2>3. Cardinality(q.robs) \in Int
      BY <1>4, RobsFinite DEF Requests
    <2>4. /\ LoansTyped(sessions, rosQueue, ros) /\ LoansTyped(sessions, rosQueue', ros')
      BY <1>5, <1>6, <1>9, RequestsTyped DEF LoansTyped
    <2>5. Loan(sessions, rosQueue', ros', r) = Loan(sessions, rosQueue, ros, r) + 0
      <3>1. /\ sessions[r].credits \in Int /\ Owed(ToSet(rosQueue[r])) \in Int /\ Owed(ros[r].jobs) \in Int
            /\ Owed(ToSet(rosQueue'[r])) \in Int
        BY <2>4, LoanTyped
      <3> QED
        BY <1>5, <2>1, <2>2, <2>3, <3>1 DEF Loan, Sent
    <2>6. \A s \in ROS \ {r} : Loan(sessions, rosQueue', ros', s) = Loan(sessions, rosQueue, ros, s)
      BY <1>5, <1>6 DEF Loan
    <2>7. Lent(sessions, rosQueue', ros') = Lent(sessions, rosQueue, ros) + 0 /\ Lent(sessions, rosQueue, ros) \in Int
      BY <2>4, <2>5, <2>6, LentGrowsAt
    <2>8. Lent(sessions, rosQueue', ros') = Lent(sessions, rosQueue, ros)
      BY <2>7
    <2> QED
      BY <1>1, <2>8 DEF RequestsIInv, CreditsConserved, dcmVars
  <1> QED
    BY <1>1, <1>8, <1>10, <1>11, <1>12 DEF RequestsIInv

(* The fragments of a job.                                                 *)
FragmentsOf(q) == {[pu |-> q.pu, event |-> q.event, rob |-> b] : b \in q.robs}

LEMMA FragmentsCounted ==
  ASSUME NEW q \in Requests
  PROVE  /\ IsFiniteSet(FragmentsOf(q)) /\ Cardinality(FragmentsOf(q)) = Cardinality(q.robs)
         /\ FragmentsOf(q) \subseteq [pu : PU, event : Nat, rob : ROB]
         /\ \A f \in FragmentsOf(q) : f.pu = q.pu /\ f.event = q.event /\ f.rob \in q.robs
  <1> DEFINE m == [b \in q.robs |-> [pu |-> q.pu, event |-> q.event, rob |-> b]]
  <1>1. q.pu \in PU /\ q.event \in Nat /\ q.robs \in SUBSET ROB
    BY DEF Requests
  <1>2. m \in [q.robs -> FragmentsOf(q)] /\ \A b \in q.robs : m[b].rob = b
    BY DEF FragmentsOf
  <1>3. \A f \in FragmentsOf(q) : \E b \in q.robs : m[b] = f
    BY DEF FragmentsOf
  <1> HIDE DEF m
  <1>4. m \in Bijection(q.robs, FragmentsOf(q))
    <2>1. \A a, b \in q.robs : m[a] = m[b] => a = b
      BY <1>2
    <2> QED
      BY <1>2, <1>3, <2>1 DEF Bijection, Injection, Surjection, IsInjective
  <1>5. ExistsBijection(q.robs, FragmentsOf(q))
    BY <1>4 DEF ExistsBijection
  <1>6. IsFiniteSet(q.robs)
    BY <1>1, RobsFinite
  <1>7. IsFiniteSet(FragmentsOf(q)) /\ Cardinality(FragmentsOf(q)) = Cardinality(q.robs)
    BY <1>5, <1>6, FS_Bijection
  <1> QED
    BY <1>1, <1>7 DEF FragmentsOf

(* A job ends: its fragments set out.                                      *)
LEMMA JobEndsPreserves == ASSUME RequestsIInv, NEW r \in ROS, JobEnds(r) PROVE RequestsIInv'
  <1>1. PICK q \in ros[r].jobs :
          /\ ros' = [ros EXCEPT ![r].jobs = ros[r].jobs \ {q}]
          /\ fragments' = fragments \cup FragmentsOf(q)
          /\ UNCHANGED <<puVars, dcmVars, rosQueue>>
    BY DEF JobEnds, FragmentsOf
  <1>2. /\ ros \in [ROS -> Ros] /\ q \in Requests /\ IsFiniteSet(ros[r].jobs)
        /\ \A s \in ROS : IsFiniteSet(ros[s].jobs)
    BY RequestsTyped DEF Ros
  <1>3. RequestsAt(r) /\ q \in Asked(r)
    BY DEF RequestsIInv, Asked
  <1>4. /\ q.robs = Waiting(q.pu) \cap RobIds[r] /\ q.event = event[q.pu].id
        /\ \A x \in Asked(r) : x.pu = q.pu => x = q
    BY <1>3 DEF RequestsAt, Due, Request
  <1>5. ros' \in [ROS -> Ros] /\ ros'[r].jobs = ros[r].jobs \ {q} /\ \A s \in ROS \ {r} : ros'[s].jobs = ros[s].jobs
    BY <1>1, <1>2 DEF Ros
  <1>6. \A s \in ROS : IsFiniteSet(ros'[s].jobs)
    <2>1. IsFiniteSet(ros[r].jobs \ {q})
      BY <1>2, FS_RemoveElement
    <2> QED
      BY <1>2, <1>5, <2>1
  <1>7. event' = event /\ \A p : Waiting(p)' = Waiting(p)
    BY <1>1, SameWaiting
  <1>8. /\ IsFiniteSet(fragments) /\ fragments \subseteq [pu : PU, event : Nat, rob : ROB]
        /\ Cardinality(fragments) \in Nat
    BY RequestsTyped DEF RequestsIInv, RosTypeOK
  <1>9. fragments \cap FragmentsOf(q) = {}
    <2>1. ASSUME NEW f \in fragments, f \in FragmentsOf(q) PROVE FALSE
      <3>1. f.pu = q.pu /\ f.rob \in RobIds[r]
        BY <1>2, <1>4, <2>1, FragmentsCounted
      <3>2. \A x \in Asked(r) : x.pu # f.pu
        BY <3>1 DEF RequestsIInv, Answers
      <3> QED
        BY <1>3, <3>1, <3>2
    <2> QED
      BY <2>1
  <1>10. /\ IsFiniteSet(fragments') /\ fragments' \subseteq [pu : PU, event : Nat, rob : ROB]
         /\ Cardinality(fragments') = Cardinality(fragments) + Cardinality(q.robs)
         /\ Cardinality(q.robs) \in Nat
    <2>1. /\ IsFiniteSet(FragmentsOf(q)) /\ Cardinality(FragmentsOf(q)) = Cardinality(q.robs)
          /\ FragmentsOf(q) \subseteq [pu : PU, event : Nat, rob : ROB] /\ Cardinality(q.robs) \in Nat
      BY <1>2, FragmentsCounted, FS_CardinalityType
    <2>2. /\ IsFiniteSet(fragments \cup FragmentsOf(q))
          /\ Cardinality(fragments \cup FragmentsOf(q))
               = Cardinality(fragments) + Cardinality(FragmentsOf(q)) - Cardinality(fragments \cap FragmentsOf(q))
      BY <1>8, <2>1, FS_Union
    <2>3. Cardinality(fragments \cap FragmentsOf(q)) = 0
      BY <1>9, FS_EmptySet
    <2> QED
      BY <1>1, <1>8, <2>1, <2>2, <2>3
  <1>11. DcmTypeOK' /\ RosTypeOK'
    BY <1>1, <1>5, <1>10 DEF RequestsIInv, DcmTypeOK, RosTypeOK, dcmVars, Ros
  <1>12. ASSUME NEW s \in ROS
         PROVE  RequestsAt(s)' /\ Ready(s)' /\ Asked(s)' \subseteq Asked(s) /\ (s = r => q \notin Asked(s)')
    <2>1. RequestsAt(s) /\ Ready(s)
      BY DEF RequestsIInv
    <2>2. Held(s)' = Held(s) /\ Sent(s)' = Sent(s) /\ \A x : Due(s, x)' <=> Due(s, x)
      BY <1>1, <1>7 DEF Held, Sent, dcmVars, Due
    <2>3. ros'[s].jobs \subseteq ros[s].jobs /\ (s = r => q \notin ros'[s].jobs)
      BY <1>5
    <2>4. Ready(s)'
      BY <1>1, <2>1 DEF Ready, dcmVars
    <2>5. Asked(s)' \subseteq Asked(s)
      BY <2>2, <2>3 DEF Asked
    <2>6. s = r => q \notin Asked(s)'
      <3>1. s = r => q \notin Held(s) /\ q \notin Sent(s)
        BY <2>1 DEF RequestsAt
      <3> QED
        BY <2>2, <2>3, <3>1 DEF Asked
    <2>7. /\ Held(s)' \cap Sent(s)' = {} /\ Held(s)' \cap ros'[s].jobs = {} /\ Sent(s)' \cap ros'[s].jobs = {}
      BY <2>1, <2>2, <2>3 DEF RequestsAt
    <2>8. IsInjective(sessions'[s].pending) /\ IsInjective(rosQueue'[s])
      BY <1>1, <2>1 DEF RequestsAt, dcmVars
    <2>9. RequestsAt(s)'
      BY <1>6, <2>1, <2>2, <2>5, <2>7, <2>8 DEF RequestsAt
    <2> QED
      BY <2>4, <2>5, <2>6, <2>9
  <1>13. ASSUME NEW f \in fragments' PROVE Answers(f)'
    <2>1. CASE f \in fragments
      BY <1>7, <1>12, <2>1 DEF RequestsIInv, Answers
    <2>2. CASE f \in FragmentsOf(q)
      <3>1. f.pu = q.pu /\ f.event = q.event /\ f.rob \in q.robs
        BY <1>2, <2>2, FragmentsCounted
      <3>2. ASSUME NEW s \in ROS, f.rob \in RobIds[s] PROVE s = r
        BY <1>4, <3>1, <3>2, PipelineAssumption
      <3>3. \A x \in Asked(r)' : x.pu # f.pu
        BY <1>4, <1>12, <3>1
      <3>4. \A s \in ROS : f.rob \in RobIds[s] => \A x \in Asked(s)' : x.pu # f.pu
        BY <3>2, <3>3
      <3> QED
        BY <1>4, <1>7, <3>1, <3>4 DEF Answers
    <2> QED
      BY <1>1, <2>1, <2>2
  <1>14. CreditsConserved'
    <2>1. Owed(ros[r].jobs) = Cardinality(q.robs) + Owed(ros'[r].jobs)
      <3>1. \A x \in ros[r].jobs : x.robs \in SUBSET ROB
        BY <1>2 DEF Ros, Requests
      <3> QED
        BY <1>2, <1>5, <3>1, OwedFacts
    <2>2. LoansTyped(sessions, rosQueue, ros) /\ LoansTyped(sessions, rosQueue, ros')
      BY <1>5, <1>6, RequestsTyped DEF LoansTyped
    <2> DEFINE k == -Cardinality(q.robs)
    <2>3. k \in Int /\ Cardinality(fragments') = Cardinality(fragments) - k
      BY <1>8, <1>10
    <2>4. Loan(sessions, rosQueue, ros', r) = Loan(sessions, rosQueue, ros, r) + k
      <3>1. /\ sessions[r].credits \in Int /\ Owed(ToSet(rosQueue[r])) \in Int /\ Owed(ros[r].jobs) \in Int
            /\ Owed(ros'[r].jobs) \in Int
        BY <2>2, LoanTyped
      <3> QED
        BY <1>10, <2>1, <3>1 DEF Loan
    <2> HIDE DEF k
    <2>5. \A s \in ROS \ {r} : Loan(sessions, rosQueue, ros', s) = Loan(sessions, rosQueue, ros, s)
      BY <1>5 DEF Loan
    <2>6. Lent(sessions, rosQueue, ros') = Lent(sessions, rosQueue, ros) + k /\ Lent(sessions, rosQueue, ros) \in Int
      BY <2>2, <2>3, <2>4, <2>5, LentGrowsAt
    <2>7. m_creditsAvailable \in Int /\ m_creditsAvailable' = m_creditsAvailable
          /\ Lent(sessions', rosQueue', ros') = Lent(sessions, rosQueue, ros')
      BY <1>1, RequestsTyped DEF dcmVars
    <2> QED
      BY <1>8, <2>3, <2>6, <2>7 DEF RequestsIInv, CreditsConserved
  <1> QED
    BY <1>11, <1>12, <1>13, <1>14 DEF RequestsIInv

(* A session gets a queue and credits.                                     *)
Gets(s, rest, c, t) ==
  s \in Session /\ rest \in Seq(Requests) /\ c \in Int /\ t = [s EXCEPT !.pending = rest, !.credits = c]

LEMMA FieldsSet ==
  ASSUME NEW S, NEW T, NEW s \in [pending : S, credits : T], NEW rest \in S, NEW c \in T
  PROVE  /\ [s EXCEPT !.pending = rest, !.credits = c] \in [pending : S, credits : T]
         /\ [s EXCEPT !.pending = rest, !.credits = c].pending = rest
         /\ [s EXCEPT !.pending = rest, !.credits = c].credits = c
  OBVIOUS

LEMMA SessionSet ==
  ASSUME NEW s, NEW rest, NEW c, NEW t, Gets(s, rest, c, t)
  PROVE  t \in Session /\ t.pending = rest /\ t.credits = c
  <1> DEFINE S == Seq(Requests)
  <1>1. /\ s \in [pending : S, credits : Int] /\ rest \in S /\ Session = [pending : S, credits : Int]
        /\ c \in Int /\ t = [s EXCEPT !.pending = rest, !.credits = c]
    BY DEF Session, Gets
  <1> HIDE DEF S
  <1>2. /\ [s EXCEPT !.pending = rest, !.credits = c] \in [pending : S, credits : Int]
        /\ [s EXCEPT !.pending = rest, !.credits = c].pending = rest
        /\ [s EXCEPT !.pending = rest, !.credits = c].credits = c
    BY <1>1, FieldsSet
  <1> QED
    BY <1>1, <1>2

(* DcmApp sends the first request of a session, whose credits go with it.  *)
LEMMA DcmStepPreserves == ASSUME RequestsIInv, DcmStep PROVE RequestsIInv'
  <1> DEFINE r == Head(outQueue)
             q == Head(sessions[r].pending)
             rest == Tail(sessions[r].pending)
             k == Cardinality(q.robs)
  <1>1. /\ outQueue # <<>> /\ sessions[r].pending # <<>>
        /\ outQueue' = Tail(outQueue)
        /\ sessions' = [sessions EXCEPT ![r].pending = rest, ![r].credits = sessions[r].credits - k]
        /\ rosQueue' = [rosQueue EXCEPT ![r] = Append(rosQueue[r], q)]
        /\ UNCHANGED <<puVars, m_creditsAvailable, ros, fragments>>
    BY DEF DcmStep
  <1>2. /\ sessions \in [ROS -> Session] /\ rosQueue \in [ROS -> Seq(Requests)] /\ m_creditsAvailable \in Int
        /\ outQueue \in Seq(ROS) /\ IsInjective(outQueue) /\ LoansTyped(sessions, rosQueue, ros)
    BY RequestsTyped DEF RequestsIInv, DcmTypeOK
  <1>3. /\ r \in ROS /\ Tail(outQueue) \in Seq(ROS)
        /\ ToSet(outQueue) = ToSet(Tail(outQueue)) \cup {r} /\ r \notin ToSet(Tail(outQueue)) /\ IsInjective(Tail(outQueue))
    BY <1>1, <1>2, SetOfTail
  <1> HIDE DEF r
  <1>4. RequestsAt(r) /\ Ready(r)
    BY <1>3 DEF RequestsIInv
  <1>5. sessions[r].pending \in Seq(Requests) /\ sessions[r].credits \in Int
    BY <1>2, <1>3 DEF Session
  <1>6. /\ q \in Requests /\ rest \in Seq(Requests) /\ IsInjective(rest)
        /\ Held(r) = ToSet(rest) \cup {q} /\ q \notin ToSet(rest)
    BY <1>1, <1>4, <1>5, SetOfTail DEF Held, RequestsAt
  <1>7. sessions[r].credits = k /\ k \in Int
    BY <1>3, <1>4, <1>5 DEF Ready, ReadyIn
  <1> HIDE DEF q, rest, k
  <1>8. /\ sessions' \in [ROS -> Session] /\ sessions'[r].pending = rest /\ sessions'[r].credits = 0
        /\ \A s \in ROS \ {r} : sessions'[s] = sessions[s]
    <2> DEFINE c == sessions[r].credits - k
    <2>0. PICK n : n = [sessions[r] EXCEPT !.pending = rest, !.credits = c]
      OBVIOUS
    <2>1. c = 0 /\ sessions[r] \in Session
      BY <1>2, <1>3, <1>5, <1>7
    <2>2. sessions' = [sessions EXCEPT ![r] = n]
      BY <1>1, <2>0
    <2> HIDE DEF c
    <2>3. n \in Session /\ n.pending = rest /\ n.credits = 0
      <3>1. rest \in Seq(Requests) /\ c \in Int /\ sessions[r] \in Session
        BY <1>6, <2>1
      <3>2. n \in Session /\ n.pending = rest /\ n.credits = c
        <4>1. Gets(sessions[r], rest, c, n)
          BY <2>0, <3>1 DEF Gets
        <4> QED
          BY <4>1, SessionSet
      <3> QED
        BY <2>1, <3>2
    <2> QED
      BY <1>2, <1>3, <2>2, <2>3
  <1>9. /\ rosQueue' \in [ROS -> Seq(Requests)] /\ rosQueue'[r] = Append(rosQueue[r], q)
        /\ \A s \in ROS \ {r} : rosQueue'[s] = rosQueue[s]
    <2>1. Append(rosQueue[r], q) \in Seq(Requests)
      BY <1>2, <1>3, <1>6
    <2> QED
      BY <1>1, <1>2, <1>3, <2>1
  <1>10. /\ ToSet(rosQueue'[r]) = Sent(r) \cup {q} /\ q \notin Sent(r) /\ q \notin ros[r].jobs
         /\ IsInjective(rosQueue'[r])
    <2>1. q \in Held(r)
      BY <1>6
    <2>2. q \notin Sent(r) /\ q \notin ros[r].jobs /\ IsInjective(rosQueue[r])
      BY <1>4, <2>1 DEF RequestsAt
    <2>3. rosQueue[r] \in Seq(Requests)
      BY <1>2, <1>3
    <2> QED
      BY <1>6, <1>9, <2>2, <2>3, SetOfAppend DEF Sent
  <1>11. event' = event /\ \A p : Waiting(p)' = Waiting(p)
    BY <1>1, SameWaiting
  <1>12. DcmTypeOK' /\ RosTypeOK'
    BY <1>1, <1>2, <1>3, <1>8, <1>9 DEF RequestsIInv, DcmTypeOK, RosTypeOK
  <1>13. ASSUME NEW s \in ROS PROVE RequestsAt(s)' /\ Ready(s)' /\ Asked(s)' = Asked(s)
    <2>1. RequestsAt(s) /\ Ready(s)
      BY DEF RequestsIInv
    <2>2. ros' = ros /\ \A x : Due(s, x)' <=> Due(s, x)
      BY <1>1, <1>11 DEF Due
    <2>3. CASE s = r
      <3>1. Held(s)' = ToSet(rest) /\ Sent(s)' = Sent(s) \cup {q}
        BY <1>8, <1>10, <2>3 DEF Held, Sent
      <3>2. Asked(s)' = Asked(s)
        BY <1>6, <2>2, <2>3, <3>1 DEF Asked
      <3>3. Held(s)' \cap Sent(s)' = {} /\ Held(s)' \cap ros'[s].jobs = {} /\ Sent(s)' \cap ros'[s].jobs = {}
        BY <1>6, <1>10, <2>1, <2>2, <2>3, <3>1 DEF RequestsAt
      <3>4. IsInjective(sessions'[s].pending) /\ IsInjective(rosQueue'[s]) /\ IsFiniteSet(ros'[s].jobs)
        BY <1>6, <1>8, <1>10, <2>1, <2>2, <2>3 DEF RequestsAt
      <3>5. RequestsAt(s)'
        BY <2>1, <2>2, <3>2, <3>3, <3>4 DEF RequestsAt
      <3>6. Ready(s)'
        BY <1>1, <1>3, <1>8, <2>3 DEF Ready, ReadyIn
      <3> QED
        BY <3>2, <3>5, <3>6
    <2>4. CASE s # r
      <3>1. sessions'[s] = sessions[s] /\ rosQueue'[s] = rosQueue[s]
        BY <1>8, <1>9, <2>4
      <3>2. Held(s)' = Held(s) /\ Sent(s)' = Sent(s)
        BY <3>1 DEF Held, Sent
      <3>3. Asked(s)' = Asked(s)
        BY <2>2, <3>2 DEF Asked
      <3>4. RequestsAt(s)'
        BY <2>1, <2>2, <3>1, <3>2, <3>3 DEF RequestsAt
      <3>5. Ready(s)'
        BY <1>1, <1>3, <2>1, <2>4, <3>1 DEF Ready, ReadyIn
      <3> QED
        BY <3>3, <3>4, <3>5
    <2> QED
      BY <2>3, <2>4
  <1>14. ASSUME NEW f \in fragments PROVE Answers(f)'
    BY <1>11, <1>13 DEF RequestsIInv, Answers
  <1>15. CreditsConserved'
    <2>1. Owed(ToSet(rosQueue'[r])) = k + Owed(ToSet(rosQueue[r]))
      <3> DEFINE D == ToSet(rosQueue'[r])
      <3>1. rosQueue'[r] \in Seq(Requests)
        BY <1>3, <1>9
      <3>2. IsFiniteSet(D) /\ D \subseteq Requests
        BY <3>1, SetOfQueueFinite
      <3>3. D \ {q} = Sent(r) /\ q \in D
        BY <1>10
      <3> HIDE DEF D
      <3>4. \A x \in D : x.robs \in SUBSET ROB
        BY <3>2 DEF Requests
      <3>5. Owed(D) = Cardinality(q.robs) + Owed(D \ {q})
        BY <3>2, <3>3, <3>4, OwedFacts
      <3> QED
        BY <3>3, <3>5 DEF D, Sent, k
    <2>2. LoansTyped(sessions', rosQueue', ros)
      BY <1>2, <1>8, <1>9 DEF LoansTyped
    <2>3. Loan(sessions', rosQueue', ros, r) = Loan(sessions, rosQueue, ros, r) + 0
      <3>1. Owed(ToSet(rosQueue[r])) \in Int /\ Owed(ros[r].jobs) \in Int
        BY <1>2, <1>3, LoanTyped
      <3> QED
        BY <1>7, <1>8, <2>1, <3>1 DEF Loan
    <2>4. \A s \in ROS \ {r} : Loan(sessions', rosQueue', ros, s) = Loan(sessions, rosQueue, ros, s)
      BY <1>8, <1>9 DEF Loan
    <2>5. Lent(sessions', rosQueue', ros) = Lent(sessions, rosQueue, ros) + 0 /\ Lent(sessions, rosQueue, ros) \in Int
      BY <1>2, <1>3, <2>2, <2>3, <2>4, LentGrowsAt
    <2>6. Lent(sessions', rosQueue', ros) = Lent(sessions, rosQueue, ros)
      BY <2>5
    <2> QED
      BY <1>1, <2>6 DEF RequestsIInv, CreditsConserved
  <1> QED
    BY <1>1, <1>12, <1>13, <1>14, <1>15 DEF RequestsIInv

(* The parts of a request are queued at their sessions, and credits are    *)
(* distributed.                                                            *)
PartOf(q, r) == Request(q.pu, q.event, q.robs \cap RobIds[r])

Queued(ss, q) ==
  /\ ss \in [ROS -> Session]
  /\ \A r \in ROS : /\ ss[r].credits = sessions[r].credits
                    /\ ss[r].pending = IF q.robs \cap RobIds[r] = {} THEN sessions[r].pending
                                       ELSE Append(sessions[r].pending, PartOf(q, r))

LEMMA PartTyped ==
  ASSUME NEW q \in Requests, NEW r
  PROVE  /\ PartOf(q, r) \in Requests /\ PartOf(q, r).pu = q.pu /\ PartOf(q, r).event = q.event
         /\ PartOf(q, r).robs = q.robs \cap RobIds[r]
  BY DEF Requests, PartOf, Request

LEMMA PendingSet ==
  ASSUME NEW S, NEW s \in [pending : S, credits : Int], NEW rest \in S
  PROVE  /\ [s EXCEPT !.pending = rest] \in [pending : S, credits : Int]
         /\ [s EXCEPT !.pending = rest].pending = rest
         /\ [s EXCEPT !.pending = rest].credits = s.credits
  OBVIOUS

LEMMA RequestQueued ==
  ASSUME RequestsIInv, NEW q \in Requests, dcmRequest(q)
  PROVE  \E ss : Queued(ss, q) /\ distributeCredits(ss, m_creditsAvailable)
  <1> DEFINE S == Seq(Requests)
             longer(r) == Append(sessions[r].pending, PartOf(q, r))
             ss == [r \in ROS |-> IF q.robs \cap RobIds[r] = {} THEN sessions[r]
                                  ELSE [sessions[r] EXCEPT !.pending = longer(r)]]
  <1>1. distributeCredits(ss, m_creditsAvailable)
    BY DEF dcmRequest, PartOf
  <1>2. ASSUME NEW r \in ROS PROVE sessions[r] \in [pending : S, credits : Int] /\ longer(r) \in S
    <2>1. sessions[r].pending \in Seq(Requests) /\ sessions[r] \in [pending : S, credits : Int]
      BY DEF RequestsIInv, DcmTypeOK, Session
    <2>2. PartOf(q, r) \in Requests
      BY PartTyped
    <2> QED
      BY <2>1, <2>2
  <1>3. Session = [pending : S, credits : Int]
    BY DEF Session
  <1> HIDE DEF longer, S
  <1>4. ASSUME NEW r \in ROS
        PROVE  /\ ss[r] \in Session /\ ss[r].credits = sessions[r].credits
               /\ ss[r].pending = IF q.robs \cap RobIds[r] = {} THEN sessions[r].pending ELSE longer(r)
    <2>1. CASE q.robs \cap RobIds[r] = {}
      BY <1>2, <1>3, <2>1
    <2>2. CASE q.robs \cap RobIds[r] # {}
      <3>1. ss[r] = [sessions[r] EXCEPT !.pending = longer(r)]
        BY <2>2
      <3>2. /\ [sessions[r] EXCEPT !.pending = longer(r)] \in [pending : S, credits : Int]
            /\ [sessions[r] EXCEPT !.pending = longer(r)].pending = longer(r)
            /\ [sessions[r] EXCEPT !.pending = longer(r)].credits = sessions[r].credits
        BY <1>2, PendingSet
      <3> QED
        BY <1>3, <2>2, <3>1, <3>2
    <2> QED
      BY <2>1, <2>2
  <1>5. ss \in [ROS -> Session]
    <2>1. ss = [r \in ROS |-> ss[r]]
      OBVIOUS
    <2> HIDE DEF ss
    <2> QED
      BY <1>4, <2>1
  <1>6. Queued(ss, q)
    BY <1>4, <1>5 DEF Queued, longer
  <1> QED
    BY <1>1, <1>6

LEMMA AppendedHead ==
  ASSUME NEW S, NEW s \in Seq(S), NEW e \in S
  PROVE  Append(s, e) # <<>> /\ (s # <<>> => Head(Append(s, e)) = Head(s))
  <1> DEFINE t == Append(s, e)
  <1>1. t \in Seq(S) /\ Len(t) = Len(s) + 1 /\ Len(s) \in Nat /\ \A i \in 1 .. Len(s) : t[i] = s[i]
    OBVIOUS
  <1> HIDE DEF t
  <1>2. t # <<>> /\ Head(t) = t[1]
    BY <1>1
  <1>3. s # <<>> => 1 \in 1 .. Len(s) /\ Head(s) = s[1]
    OBVIOUS
  <1> QED
    BY <1>1, <1>2, <1>3 DEF t

(* The queue of a session stays one, with the new part last.               *)
LEMMA QueuedFacts ==
  ASSUME RequestsIInv, NEW q \in Requests, NEW ss, Queued(ss, q), NEW r \in ROS
  PROVE  /\ ReadyIn(outQueue, ss[r], r)
         /\ ToSet(ss[r].pending) = IF q.robs \cap RobIds[r] = {} THEN Held(r) ELSE Held(r) \cup {PartOf(q, r)}
         /\ PartOf(q, r) \notin Held(r) => IsInjective(ss[r].pending)
  <1>1. /\ sessions[r].pending \in Seq(Requests) /\ PartOf(q, r) \in Requests
        /\ Ready(r) /\ IsInjective(sessions[r].pending)
    BY PartTyped DEF RequestsIInv, DcmTypeOK, Session, RequestsAt
  <1>2. /\ ss[r].credits = sessions[r].credits
        /\ ss[r].pending = IF q.robs \cap RobIds[r] = {} THEN sessions[r].pending
                           ELSE Append(sessions[r].pending, PartOf(q, r))
    BY DEF Queued
  <1>3. CASE q.robs \cap RobIds[r] = {}
    BY <1>1, <1>2, <1>3 DEF Ready, ReadyIn, Held
  <1>4. CASE q.robs \cap RobIds[r] # {}
    <2> DEFINE s == sessions[r].pending
               e == PartOf(q, r)
    <2>1. ss[r].pending = Append(s, e)
      BY <1>2, <1>4
    <2>2. s \in Seq(Requests) /\ e \in Requests
      BY <1>1
    <2>3. Ready(r) <=> ReadyIn(outQueue, sessions[r], r)
      BY DEF Ready
    <2>6. Held(r) = ToSet(s)
      BY DEF Held
    <2>7. /\ r \in ToSet(outQueue) => s # <<>> /\ sessions[r].credits = Cardinality(Head(s).robs)
          /\ r \notin ToSet(outQueue) => sessions[r].credits = 0
      BY <1>1, <2>3 DEF ReadyIn
    <2>a. IsInjective(s)
      BY <1>1
    <2> HIDE DEF s, e
    <2>4. Append(s, e) # <<>> /\ (s # <<>> => Head(Append(s, e)) = Head(s))
      BY <2>2, AppendedHead
    <2>5. ToSet(Append(s, e)) = ToSet(s) \cup {e} /\ (e \notin ToSet(s) => IsInjective(Append(s, e)))
      BY <2>2, <2>a, SetOfAppend
    <2>8. ReadyIn(outQueue, ss[r], r)
      BY <1>2, <2>1, <2>4, <2>7 DEF ReadyIn
    <2> QED
      BY <1>4, <2>1, <2>5, <2>6, <2>8 DEF e
  <1> QED
    BY <1>3, <1>4

LEMMA LentTyped ==
  ASSUME NEW ss, NEW queues, NEW rs, LoansTyped(ss, queues, rs)
  PROVE  Lent(ss, queues, rs) \in Int
  <1> DEFINE n == [r \in ROS |-> 0]
  <1>1. \A r \in ROS : n[r] \in Int /\ Loan(ss, queues, rs, r) = Loan(ss, queues, rs, r) + n[r]
    BY LoanTyped
  <1> HIDE DEF n
  <1> QED
    BY <1>1, LentGrows

(* A PU that waited for nothing sends a request and waits for its answers. *)
LEMMA RequestLeaves ==
  ASSUME RequestsIInv, NEW p \in PU, NEW robs \in SUBSET ROB, event[p].id \in Nat,
         Waiting(p) = {}, Waiting(p)' = robs, \A o \in PU \ {p} : Waiting(o)' = Waiting(o), event' = event,
         UNCHANGED <<rosVars, fragments>>, dcmRequest(Request(p, event[p].id, robs))
  PROVE  RequestsIInv'
  <1>0. PICK q : q = Request(p, event[p].id, robs)
    OBVIOUS
  <1>1. q \in Requests /\ q.pu = p /\ q.event = event[p].id /\ q.robs = robs
    BY <1>0 DEF Requests, Request
  <1>2. PICK ss : Queued(ss, q) /\ distributeCredits(ss, m_creditsAvailable)
    BY <1>0, <1>1, RequestQueued
  <1>3. \A r \in ROS : PartOf(q, r) = Request(p, event[p].id, robs \cap RobIds[r]) /\ PartOf(q, r).pu = p
                       /\ PartOf(q, r).robs = robs \cap RobIds[r]
    BY <1>1, PartTyped DEF PartOf
  <1>4. /\ \A r \in ROS : \A x \in Asked(r) : x.pu # p
        /\ \A f \in fragments : f.pu # p
    BY NothingUnderWay
  <1>5. ASSUME NEW r \in ROS
        PROVE  /\ ReadyIn(outQueue, ss[r], r)
               /\ ToSet(ss[r].pending) = IF robs \cap RobIds[r] = {} THEN Held(r) ELSE Held(r) \cup {PartOf(q, r)}
               /\ PartOf(q, r) \notin Asked(r) /\ IsInjective(ss[r].pending)
    <2>1. PartOf(q, r) \notin Asked(r)
      BY <1>3, <1>4
    <2>2. PartOf(q, r) \notin Held(r)
      BY <2>1 DEF Asked
    <2> QED
      BY <1>1, <1>2, <2>1, <2>2, QueuedFacts
  <1>6. /\ ss \in [ROS -> Session] /\ \A r \in ROS : ss[r].credits = sessions[r].credits
        /\ m_creditsAvailable \in Int /\ outQueue \in Seq(ROS) /\ IsInjective(outQueue)
    BY <1>2 DEF Queued, RequestsIInv, DcmTypeOK
  <1>7. /\ DcmTypeOK'
        /\ \A r \in ROS : Ready(r)' /\ sessions'[r].pending = ss[r].pending
        /\ \E n : /\ m_creditsAvailable' = m_creditsAvailable - SetSum(ROS, n) /\ SetSum(ROS, n) \in Int
                  /\ \A r \in ROS : n[r] \in Int /\ sessions'[r].credits = ss[r].credits + n[r]
    BY <1>2, <1>5, <1>6, Distributed
  <1>8. rosQueue' = rosQueue /\ ros' = ros /\ fragments' = fragments
    BY DEF rosVars
  <1>9. RosTypeOK'
    BY <1>8 DEF RequestsIInv, RosTypeOK
  <1>10. ASSUME NEW r \in ROS
         PROVE  RequestsAt(r)' /\ Asked(r)' \subseteq Asked(r) \cup {PartOf(q, r)}
    <2>1. /\ Sent(r)' = Sent(r)
          /\ Held(r)' = IF robs \cap RobIds[r] = {} THEN Held(r) ELSE Held(r) \cup {PartOf(q, r)}
      BY <1>5, <1>7, <1>8 DEF Held, Sent
    <2>2. RequestsAt(r)
      BY DEF RequestsIInv
    <2>3. ASSUME NEW x \in Asked(r) PROVE Due(r, x)'
      <3>1. Due(r, x) /\ x.pu # p
        BY <1>4, <2>2 DEF RequestsAt
      <3> QED
        BY <3>1 DEF Due
    <2>4. robs \cap RobIds[r] # {} => Due(r, PartOf(q, r))'
      BY <1>3 DEF Due
    <2>5. Asked(r)' = IF robs \cap RobIds[r] = {} THEN Asked(r) ELSE Asked(r) \cup {PartOf(q, r)}
      BY <1>8, <2>1 DEF Asked
    <2>6. PartOf(q, r) \notin Sent(r) /\ PartOf(q, r) \notin ros[r].jobs
      BY <1>5 DEF Asked
    <2>7. /\ Held(r)' \cap Sent(r)' = {} /\ Held(r)' \cap ros'[r].jobs = {} /\ Sent(r)' \cap ros'[r].jobs = {}
      BY <1>8, <2>1, <2>2, <2>6 DEF RequestsAt
    <2>8. IsInjective(sessions'[r].pending) /\ IsInjective(rosQueue'[r]) /\ IsFiniteSet(ros'[r].jobs)
      BY <1>5, <1>7, <1>8, <2>2 DEF RequestsAt
    <2>9. \A x \in Asked(r)' : Due(r, x)'
      BY <2>3, <2>4, <2>5
    <2>10. RequestsAt(r)'
      BY <2>7, <2>8, <2>9 DEF RequestsAt
    <2> QED
      BY <2>5, <2>10
  <1>11. ASSUME NEW f \in fragments PROVE Answers(f)'
    <2>1. f.pu \in PU /\ f.pu # p /\ Answers(f)
      BY <1>4 DEF RequestsIInv, RosTypeOK
    <2>2. Waiting(f.pu)' = Waiting(f.pu)
      BY <2>1
    <2>3. ASSUME NEW r \in ROS, f.rob \in RobIds[r], NEW x \in Asked(r)' PROVE x.pu # f.pu
      BY <1>3, <1>10, <2>1, <2>3 DEF Answers
    <2> QED
      BY <2>1, <2>2, <2>3 DEF Answers
  <1>12. CreditsConserved'
    <2>1. PICK n : /\ m_creditsAvailable' = m_creditsAvailable - SetSum(ROS, n) /\ SetSum(ROS, n) \in Int
                   /\ \A r \in ROS : n[r] \in Int /\ sessions'[r].credits = sessions[r].credits + n[r]
      BY <1>6, <1>7
    <2>2. LoansTyped(sessions, rosQueue, ros) /\ sessions \in [ROS -> Session]
      BY RequestsTyped
    <2>3. LoansTyped(sessions', rosQueue, ros)
      BY <1>7, <2>2 DEF LoansTyped, DcmTypeOK
    <2>4. /\ Lent(sessions, rosQueue, ros) \in Int
          /\ m_creditsAvailable' + Lent(sessions', rosQueue, ros) = m_creditsAvailable + Lent(sessions, rosQueue, ros)
      BY <1>6, <2>1, <2>2, <2>3, AccountAfterDistribution
    <2>5. /\ Cardinality(fragments) \in Nat /\ m_creditsAvailable' \in Int
          /\ m_creditsAvailable + Cardinality(fragments) + Lent(sessions, rosQueue, ros) = Credits
      BY <1>6, <2>1, RequestsTyped DEF RequestsIInv, CreditsConserved
    <2>6. Lent(sessions', rosQueue, ros) \in Int
      BY <2>3, LentTyped
    <2>7. Lent(sessions', rosQueue', ros') = Lent(sessions', rosQueue, ros) /\ Cardinality(fragments') = Cardinality(fragments)
      BY <1>8
    <2>8. m_creditsAvailable' + Cardinality(fragments) + Lent(sessions', rosQueue, ros) = Credits
      <3> DEFINE l == Lent(sessions, rosQueue, ros)
                 k == Lent(sessions', rosQueue, ros)
                 a == Cardinality(fragments)
                 m == m_creditsAvailable
                 o == m_creditsAvailable'
      <3>1. l \in Int /\ k \in Int /\ a \in Int /\ m \in Int /\ o \in Int
        BY <1>6, <2>4, <2>5, <2>6
      <3>2. o + k = m + l /\ m + a + l = Credits
        BY <2>4, <2>5
      <3> HIDE DEF l, k, a, m, o
      <3>3. o + a + k = Credits
        BY <3>1, <3>2
      <3> QED
        BY <3>3 DEF o, a, k
    <2> QED
      BY <2>7, <2>8 DEF CreditsConserved
  <1> QED
    BY <1>7, <1>8, <1>9, <1>10, <1>11, <1>12 DEF RequestsIInv

(* A fragment arrives: its PU no longer waits for it, and its credit is    *)
(* available again.                                                        *)
LEMMA FragmentLeaves ==
  ASSUME RequestsIInv, NEW f \in fragments, fragments' = fragments \ {f},
         \A p \in PU : Waiting(p)' = IF p = f.pu THEN Waiting(p) \ {f.rob} ELSE Waiting(p),
         event' = event, UNCHANGED rosVars, dcmTicket
  PROVE  RequestsIInv'
  <1>1. /\ m_creditsAvailable \in Int /\ outQueue \in Seq(ROS) /\ IsInjective(outQueue)
        /\ sessions \in [ROS -> Session] /\ \A r \in ROS : ReadyIn(outQueue, sessions[r], r)
    BY DEF RequestsIInv, DcmTypeOK, Ready
  <1>c. PICK c : c = m_creditsAvailable + 1
    OBVIOUS
  <1>2. distributeCredits(sessions, c) /\ c \in Int
    BY <1>1, <1>c DEF dcmTicket
  <1>3. /\ DcmTypeOK'
        /\ \A r \in ROS : Ready(r)' /\ sessions'[r].pending = sessions[r].pending
        /\ \E n : /\ m_creditsAvailable' = c - SetSum(ROS, n) /\ SetSum(ROS, n) \in Int
                  /\ \A r \in ROS : n[r] \in Int /\ sessions'[r].credits = sessions[r].credits + n[r]
    BY <1>1, <1>2, Distributed
  <1>4. rosQueue' = rosQueue /\ ros' = ros
    BY DEF rosVars
  <1>5. /\ IsFiniteSet(fragments) /\ fragments \subseteq [pu : PU, event : Nat, rob : ROB]
        /\ Cardinality(fragments) \in Nat
    BY RequestsTyped DEF RequestsIInv, RosTypeOK
  <1>6. IsFiniteSet(fragments') /\ Cardinality(fragments') = Cardinality(fragments) - 1
    BY <1>5, FS_RemoveElement
  <1>7. RosTypeOK'
    BY <1>4, <1>5, <1>6 DEF RequestsIInv, RosTypeOK
  <1>8. Answers(f)
    BY DEF RequestsIInv
  <1>9. ASSUME NEW r \in ROS PROVE RequestsAt(r)' /\ Asked(r)' = Asked(r)
    <2>1. RequestsAt(r)
      BY DEF RequestsIInv
    <2>2. Held(r)' = Held(r) /\ Sent(r)' = Sent(r) /\ Asked(r)' = Asked(r)
      BY <1>3, <1>4 DEF Held, Sent, Asked
    <2>3. ASSUME NEW x \in Asked(r) PROVE Due(r, x)'
      <3>1. Due(r, x)
        BY <2>1 DEF RequestsAt
      <3>2. Waiting(x.pu)' \cap RobIds[r] = Waiting(x.pu) \cap RobIds[r]
        <4>1. CASE x.pu = f.pu
          BY <1>8, <3>1, <4>1 DEF Answers, Due
        <4>2. CASE x.pu # f.pu
          BY <3>1, <4>2 DEF Due
        <4> QED
          BY <4>1, <4>2
      <3> QED
        BY <3>1, <3>2 DEF Due
    <2>4. RequestsAt(r)'
      BY <1>3, <1>4, <2>1, <2>2, <2>3 DEF RequestsAt
    <2> QED
      BY <2>2, <2>4
  <1>10. ASSUME NEW g \in fragments' PROVE Answers(g)'
    <2>1. g \in fragments /\ g # f /\ Answers(g) /\ g.pu \in PU
      BY <1>5 DEF RequestsIInv
    <2>2. g.pu = f.pu => g.rob # f.rob
      <3>1. ASSUME g.pu = f.pu, g.rob = f.rob PROVE FALSE
        <4>1. g.event = f.event
          BY <1>8, <2>1, <3>1 DEF Answers
        <4>2. /\ g = [pu |-> g.pu, event |-> g.event, rob |-> g.rob]
              /\ f = [pu |-> f.pu, event |-> f.event, rob |-> f.rob]
          BY <1>5, <2>1
        <4> QED
          BY <2>1, <3>1, <4>1, <4>2
      <3> QED
        BY <3>1
    <2>3. g.rob \in Waiting(g.pu)'
      BY <2>1, <2>2 DEF Answers
    <2> QED
      BY <1>9, <2>1, <2>3 DEF Answers
  <1>11. CreditsConserved'
    <2>1. PICK n : /\ m_creditsAvailable' = c - SetSum(ROS, n) /\ SetSum(ROS, n) \in Int
                   /\ \A r \in ROS : n[r] \in Int /\ sessions'[r].credits = sessions[r].credits + n[r]
      BY <1>3
    <2>2. LoansTyped(sessions, rosQueue, ros)
      BY RequestsTyped
    <2>3. LoansTyped(sessions', rosQueue, ros)
      BY <1>3, <2>2 DEF LoansTyped, DcmTypeOK
    <2>4. /\ Lent(sessions, rosQueue, ros) \in Int
          /\ m_creditsAvailable' + Lent(sessions', rosQueue, ros) = c + Lent(sessions, rosQueue, ros)
      BY <1>1, <1>2, <2>1, <2>2, <2>3, AccountAfterDistribution
    <2>5. m_creditsAvailable + Cardinality(fragments) + Lent(sessions, rosQueue, ros) = Credits
      BY DEF RequestsIInv, CreditsConserved
    <2>6. Lent(sessions', rosQueue, ros) \in Int /\ m_creditsAvailable' \in Int
      BY <1>2, <2>1, <2>3, LentTyped
    <2>7. Lent(sessions', rosQueue', ros') = Lent(sessions', rosQueue, ros)
      BY <1>4
    <2>8. m_creditsAvailable' + Cardinality(fragments') + Lent(sessions', rosQueue, ros) = Credits
      <3> DEFINE l == Lent(sessions, rosQueue, ros)
                 k == Lent(sessions', rosQueue, ros)
                 a == Cardinality(fragments)
                 b == Cardinality(fragments')
                 m == m_creditsAvailable
                 o == m_creditsAvailable'
      <3>1. l \in Int /\ k \in Int /\ a \in Int /\ m \in Int /\ o \in Int
        BY <1>1, <1>5, <2>4, <2>6
      <3>2. b = a - 1 /\ c = m + 1 /\ o + k = c + l /\ m + a + l = Credits
        BY <1>c, <1>6, <2>4, <2>5
      <3> HIDE DEF l, k, a, b, m, o
      <3>3. o + b + k = Credits
        BY <3>1, <3>2
      <3> QED
        BY <3>3 DEF o, b, k
    <2> QED
      BY <2>7, <2>8 DEF CreditsConserved
  <1> QED
    BY <1>3, <1>7, <1>9, <1>10, <1>11 DEF RequestsIInv

-----------------------------------------------------------------------------
(* The steps of the PUs.                                                   *)

(* What a PU waits for, in each place of its event.                        *)
LEMMA WaitingByPlace ==
  ASSUME PuIInv, NEW p \in PU
  PROVE  /\ event[p].state = "idle" \/ requester[p].state = "REQUESTING" => Waiting(p) = {}
         /\ processing[p].waiting # {} =>
              builder[p].waiting = {} /\ processing[p].event = event[p].id
         /\ builder[p].waiting # {} =>
              processing[p].waiting = {} /\ builder[p].event = event[p].id
         /\ processing[p].state = "PROCESSING" => processing[p].waiting = {}
         /\ ebRequester[p].state = "REQUESTING" => Waiting(p) = {} /\ ebRequester[p].event = event[p].id
         /\ event[p].id \in Nat /\ requester[p].pending \in SUBSET ROB /\ ebRequester[p].pending \in SUBSET ROB
  <1> DEFINE s == PuState(p)
  <1>1. /\ s.event = event[p] /\ s.requester = requester[p] /\ s.processing = processing[p]
        /\ s.ebRequester = ebRequester[p] /\ s.builder = builder[p] /\ s \in PuRecord
    BY StateTyped
  <1>2. /\ event[p].state = "idle" => Idle(s)
        /\ requester[p].state = "REQUESTING" => Requesting(s)
        /\ processing[p].state # "WAITING_NEXT_JOB" \/ processing[p].waiting # {} => Processing(s)
        /\ ebRequester[p].state = "REQUESTING" \/ builder[p].state = "BUILDING_EVENT" \/ builder[p].waiting # {}
             => Building(s)
    BY Places
  <1> HIDE DEF s
  <1>3. event[p].id \in Nat /\ requester[p].pending \in SUBSET ROB /\ ebRequester[p].pending \in SUBSET ROB
    BY <1>1 DEF PuRecord, EventOfPu, L2TRequester, EBRequester
  <1>4. event[p].state = "idle" => Waiting(p) = {}
    BY <1>1, <1>2 DEF Idle, NotInL2, NotProcessing, NotAfterL2, NotBuilding, Waiting
  <1>5. requester[p].state = "REQUESTING" => Waiting(p) = {}
    BY <1>1, <1>2 DEF Requesting, NotProcessing, NotAfterL2, NotBuilding, Waiting
  <1>6. processing[p].waiting # {} => builder[p].waiting = {} /\ processing[p].event = event[p].id
    BY <1>1, <1>2 DEF Processing, NotAfterL2, NotBuilding
  <1>7. builder[p].waiting # {} => processing[p].waiting = {} /\ builder[p].event = event[p].id
    BY <1>1, <1>2 DEF Building, NotInL2, NotProcessing
  <1>8. processing[p].state = "PROCESSING" => processing[p].waiting = {}
    BY <1>1, <1>2 DEF Processing
  <1>9. ebRequester[p].state = "REQUESTING" => Waiting(p) = {} /\ ebRequester[p].event = event[p].id
    BY <1>1, <1>2 DEF Building, NotInL2, NotProcessing, Waiting
  <1> QED
    BY <1>3, <1>4, <1>5, <1>6, <1>7, <1>8, <1>9

(* An event is built when nothing is waited for.                           *)
LEMMA BuildsAll == ASSUME PuIInv, NEW p \in PU, Build(p) PROVE builder[p].waiting = {}
  <1> DEFINE s == PuState(p)
  <1>1. /\ s.event = event[p] /\ s.builder = builder[p] /\ s \in PuRecord
        /\ builder[p].state = "BUILDING_EVENT" /\ builder[p].next = "now"
    BY StateTyped DEF Build
  <1>2. Building(s)
    BY <1>1, Places
  <1> HIDE DEF s
  <1>3. s.builder.info \in EventInfo /\ s.event \in EventOfPu
    BY <1>1 DEF PuRecord, EventBuilder
  <1>4. Exact(s.builder.info, s.event) /\ BuiltWith(s.builder.info.size) /\ s.builder.waiting = ROB \ s.builder.info.robs
    BY <1>1, <1>2 DEF Building
  <1>5. s.builder.info.robs = ROB
    BY <1>3, <1>4, AllGathered
  <1> QED
    BY <1>1, <1>4, <1>5

(* The steps after which the PUs wait for what they waited for before.     *)
LEMMA QuietStep ==
  ASSUME RequestsIInv, UNCHANGED <<dcmVars, rosVars, fragments>>,
         \A p \in PU : /\ processing'[p].waiting = processing[p].waiting /\ builder'[p].waiting = builder[p].waiting
                       /\ event'[p].id = event[p].id \/ Waiting(p) = {}
  PROVE  RequestsIInv'
  <1>1. \A p \in PU : Waiting(p)' = Waiting(p) /\ (event'[p].id = event[p].id \/ Waiting(p) = {})
    BY DEF Waiting
  <1> QED
    BY <1>1, Quiet

LEMMA AssignKeepsRequests == ASSUME CreditsIInv, NEW p \in PU, AssignEvent(p) PROVE RequestsIInv'
  <1>1. /\ event' = [event EXCEPT ![p] = [id |-> event[p].id + 1, state |-> "busy"]] /\ event[p].state = "idle"
        /\ UNCHANGED <<processing, builder, dcmVars, rosVars, fragments>>
    BY DEF AssignEvent
  <1>2. Waiting(p) = {}
    BY <1>1, WaitingByPlace DEF CreditsIInv
  <1>3. \A o \in PU : event'[o].id = event[o].id \/ Waiting(o) = {}
    <2>1. \A o \in PU \ {p} : event'[o] = event[o]
      BY <1>1 DEF CreditsIInv, PuIInv, PuTypeOK
    <2> QED
      BY <1>2, <2>1
  <1> QED
    BY <1>1, <1>3, QuietStep DEF CreditsIInv

(* A step of a PU in which its models wait for what they waited for.       *)
LEMMA QuietPuSteps ==
  ASSUME CreditsIInv, NEW p \in PU,
         ProcessingEnds(p) \/ Decide(p) \/ Iterate(p) \/ Reject(p) \/ Accept(p) \/ Build(p) \/ BuilderAsks(p) \/ EventEnds(p)
  PROVE  RequestsIInv'
  <1>1. /\ event \in [PU -> EventOfPu] /\ processing \in [PU -> L2TProcessing] /\ builder \in [PU -> EventBuilder]
        /\ processing[p] \in L2TProcessing /\ builder[p] \in EventBuilder /\ event[p] \in EventOfPu
    BY DEF CreditsIInv, PuIInv, PuTypeOK
  <1>2. UNCHANGED <<dcmVars, rosVars, fragments>>
    BY DEF ProcessingEnds, Decide, Iterate, Reject, Accept, Build, BuilderAsks, EventEnds
  <1>3. \A o \in PU : processing'[o].waiting = processing[o].waiting
    <2>1. CASE ProcessingEnds(p)
      <3>1. processing[p].waiting = {}
        BY <2>1, WaitingByPlace DEF CreditsIInv, ProcessingEnds
      <3>2. processing'[p].waiting = {} /\ \A o \in PU \ {p} : processing'[o] = processing[o]
        BY <1>1, <2>1 DEF ProcessingEnds, L2TProcessing
      <3> QED
        BY <3>1, <3>2
    <2>2. CASE ~ProcessingEnds(p)
      BY <2>2 DEF Decide, Iterate, Reject, Accept, Build, BuilderAsks, EventEnds
    <2> QED
      BY <2>1, <2>2
  <1>4. \A o \in PU : builder'[o].waiting = builder[o].waiting
    <2>1. CASE Build(p)
      <3>1. builder[p].waiting = {}
        BY <2>1, BuildsAll DEF CreditsIInv
      <3>2. builder'[p].waiting = {} /\ \A o \in PU \ {p} : builder'[o] = builder[o]
        BY <1>1, <2>1 DEF Build, EventBuilder
      <3> QED
        BY <3>1, <3>2
    <2>2. CASE Accept(p)
      BY <1>1, <2>2 DEF Accept, EventBuilder
    <2>3. CASE BuilderAsks(p)
      BY <1>1, <2>3 DEF BuilderAsks, EventBuilder
    <2>4. CASE ~Build(p) /\ ~Accept(p) /\ ~BuilderAsks(p)
      BY <2>4 DEF ProcessingEnds, Decide, Iterate, Reject, EventEnds
    <2> QED
      BY <2>1, <2>2, <2>3, <2>4
  <1>5. \A o \in PU : event'[o].id = event[o].id
    <2>1. CASE Reject(p) \/ EventEnds(p)
      BY <1>1, <2>1 DEF Reject, EventEnds, EventOfPu
    <2>2. CASE ~Reject(p) /\ ~EventEnds(p)
      BY <2>2 DEF ProcessingEnds, Decide, Iterate, Accept, Build, BuilderAsks
    <2> QED
      BY <2>1, <2>2
  <1> QED
    BY <1>2, <1>3, <1>4, <1>5, QuietStep DEF CreditsIInv

LEMMA RequesterStepKeepsRequests == ASSUME CreditsIInv, NEW p \in PU, RequesterStep(p) PROVE RequestsIInv'
  <1>0. PICK robs : robs = requester[p].pending
    OBVIOUS
  <1>1. /\ requester[p].state = "REQUESTING"
        /\ dcmRequest(Request(p, event[p].id, robs))
        /\ event' = event /\ UNCHANGED <<builder, rosVars, fragments>>
    BY <1>0 DEF RequesterStep
  <1>2. Waiting(p) = {} /\ event[p].id \in Nat /\ robs \in SUBSET ROB
    BY <1>0, <1>1, WaitingByPlace DEF CreditsIInv
  <1>3. processing'[p].waiting = robs /\ \A o \in PU \ {p} : processing'[o] = processing[o]
    BY <1>0 DEF RequesterStep, CreditsIInv, PuIInv, PuTypeOK, L2TProcessing
  <1>4. Waiting(p)' = robs /\ \A o \in PU \ {p} : Waiting(o)' = Waiting(o)
    BY <1>1, <1>2, <1>3 DEF Waiting
  <1> QED
    BY <1>1, <1>2, <1>4, RequestLeaves DEF CreditsIInv

LEMMA EbRequesterStepKeepsRequests == ASSUME CreditsIInv, NEW p \in PU, EbRequesterStep(p) PROVE RequestsIInv'
  <1>0. PICK robs : robs = ebRequester[p].pending
    OBVIOUS
  <1>1. /\ ebRequester[p].state = "REQUESTING"
        /\ dcmRequest(Request(p, ebRequester[p].event, robs))
        /\ event' = event /\ UNCHANGED <<processing, rosVars, fragments>>
    BY <1>0 DEF EbRequesterStep
  <1>2. Waiting(p) = {} /\ event[p].id \in Nat /\ robs \in SUBSET ROB /\ ebRequester[p].event = event[p].id
    BY <1>0, <1>1, WaitingByPlace DEF CreditsIInv
  <1>3. builder'[p].waiting = robs /\ \A o \in PU \ {p} : builder'[o] = builder[o]
    BY <1>0 DEF EbRequesterStep, CreditsIInv, PuIInv, PuTypeOK, EventBuilder
  <1>4. Waiting(p)' = robs /\ \A o \in PU \ {p} : Waiting(o)' = Waiting(o)
    BY <1>1, <1>2, <1>3 DEF Waiting
  <1> QED
    BY <1>1, <1>2, <1>4, RequestLeaves DEF CreditsIInv

LEMMA FragmentKeepsRequests == ASSUME CreditsIInv, FragmentArrives PROVE RequestsIInv'
  <1>1. PICK f \in fragments :
          /\ fragments' = fragments \ {f} /\ processingReceives(f) /\ builderReceives(f) /\ dcmTicket
          /\ event' = event /\ UNCHANGED rosVars
    BY DEF FragmentArrives
  <1> DEFINE p == f.pu
  <1>2. p \in PU /\ Answers(f)
    BY DEF CreditsIInv, RequestsIInv, RosTypeOK
  <1>3. /\ processing \in [PU -> L2TProcessing] /\ builder \in [PU -> EventBuilder]
        /\ processing[p] \in L2TProcessing /\ builder[p] \in EventBuilder
    BY <1>2 DEF CreditsIInv, PuIInv, PuTypeOK
  <1>4. f.event = event[p].id /\ (f.rob \in processing[p].waiting \/ f.rob \in builder[p].waiting)
    BY <1>2 DEF Answers, Waiting
  <1>5. /\ f.rob \in processing[p].waiting => builder[p].waiting = {} /\ processing[p].event = event[p].id
        /\ f.rob \in builder[p].waiting => processing[p].waiting = {} /\ builder[p].event = event[p].id
    BY <1>2, WaitingByPlace DEF CreditsIInv
  <1>6. CASE f.rob \in processing[p].waiting
    <2>1. builder' = builder
      BY <1>1, <1>5, <1>6 DEF builderReceives
    <2>2. processing'[p].waiting = processing[p].waiting \ {f.rob} /\ \A o \in PU \ {p} : processing'[o] = processing[o]
      <3>0. PICK received, state :
              /\ received = Merged(processing[p].received, Info(f.event, {f.rob}))
              /\ state = IF processing[p].waiting = {f.rob} THEN "PROCESSING" ELSE processing[p].state
        OBVIOUS
      <3>1. processing' = [processing EXCEPT ![p] = [processing[p] EXCEPT
                !.waiting = processing[p].waiting \ {f.rob}, !.received = received, !.state = state]]
        BY <1>1, <1>4, <1>5, <1>6, <3>0 DEF processingReceives
      <3> QED
        BY <1>2, <1>3, <3>1 DEF L2TProcessing
    <2>3. \A o \in PU : Waiting(o)' = IF o = p THEN Waiting(o) \ {f.rob} ELSE Waiting(o)
      BY <1>5, <1>6, <2>1, <2>2 DEF Waiting
    <2> QED
      BY <1>1, <2>3, FragmentLeaves DEF CreditsIInv
  <1>7. CASE f.rob \in builder[p].waiting
    <2>1. processing' = processing
      BY <1>1, <1>5, <1>7 DEF processingReceives
    <2>2. builder'[p].waiting = builder[p].waiting \ {f.rob} /\ \A o \in PU \ {p} : builder'[o] = builder[o]
      <3>0. PICK info, state, next :
              /\ info = Merged(builder[p].info, Info(f.event, {f.rob}))
              /\ state = "BUILDING_EVENT" /\ next = IF BuiltWith(info.size) THEN "now" ELSE "never"
        OBVIOUS
      <3>1. builder' = [builder EXCEPT ![p] = [builder[p] EXCEPT
                !.waiting = builder[p].waiting \ {f.rob}, !.info = info, !.state = state, !.next = next]]
        BY <1>1, <1>4, <1>5, <1>7, <3>0 DEF builderReceives
      <3> QED
        BY <1>2, <1>3, <3>1 DEF EventBuilder
    <2>3. \A o \in PU : Waiting(o)' = IF o = p THEN Waiting(o) \ {f.rob} ELSE Waiting(o)
      BY <1>5, <1>7, <2>1, <2>2 DEF Waiting
    <2> QED
      BY <1>1, <2>3, FragmentLeaves DEF CreditsIInv
  <1> QED
    BY <1>4, <1>6, <1>7

LEMMA CreditsInit == Init => CreditsIInv
  <1> SUFFICES ASSUME Init PROVE RequestsIInv
    BY PuInit DEF CreditsIInv
  <1>1. ToSet(<<>>) = {} /\ IsInjective(<<>>) /\ IsFiniteSet({}) /\ Cardinality({}) = 0
    BY FS_EmptySet DEF ToSet, IsInjective
  <1>2. /\ m_creditsAvailable = Credits /\ Credits \in Nat /\ outQueue = <<>> /\ fragments = {}
        /\ sessions = [r \in ROS |-> [pending |-> <<>>, credits |-> 0]]
        /\ rosQueue = [r \in ROS |-> <<>>]
        /\ ros = [r \in ROS |-> [jobs |-> {}, requested |-> "no"]]
    BY PipelineAssumption DEF Init
  <1>3. DcmTypeOK
    BY <1>1, <1>2 DEF DcmTypeOK, Session
  <1>4. RosTypeOK
    BY <1>1, <1>2 DEF RosTypeOK
  <1>5. ASSUME NEW r \in ROS PROVE RequestsAt(r) /\ Ready(r)
    <2>1. sessions[r].pending = <<>> /\ sessions[r].credits = 0 /\ rosQueue[r] = <<>> /\ ros[r].jobs = {}
      BY <1>2
    <2> QED
      BY <1>1, <1>2, <2>1 DEF RequestsAt, Asked, Held, Sent, Ready, ReadyIn
  <1>6. CreditsConserved
    <2>1. Owed({}) = 0
      BY <1>1, OwedFacts
    <2>2. \A r \in ROS : Loan(sessions, rosQueue, ros, r) = 0
      <3>1. ASSUME NEW r \in ROS PROVE Loan(sessions, rosQueue, ros, r) = 0
        <4>1. sessions[r].credits = 0 /\ rosQueue[r] = <<>> /\ ros[r].jobs = {}
          BY <1>2
        <4>2. Owed(ToSet(rosQueue[r])) = 0 /\ Owed(ros[r].jobs) = 0
          BY <1>1, <2>1, <4>1, Zenon
        <4> QED
          BY <4>1, <4>2 DEF Loan
      <3> QED
        BY <3>1
    <2>3. Lent(sessions, rosQueue, ros) = 0
      <3> DEFINE n == [r \in ROS |-> 0]
      <3>1. \A r \in ROS : n[r] = 0
        OBVIOUS
      <3> HIDE DEF n
      <3>2. Lent(sessions, rosQueue, ros) = SetSum(ROS, n)
        BY <2>2, <3>1, LentIsSetSum
      <3>3. SetSum(ROS, n) = SetSum({}, n)
        BY <3>1, PipelineAssumption, SetSumOfSupport
      <3>4. SetSum({}, n) = 0
        BY <1>1, SetSumFacts
      <3> QED
        BY <3>2, <3>3, <3>4
    <2> QED
      BY <1>1, <1>2, <2>3 DEF CreditsConserved
  <1> QED
    BY <1>2, <1>3, <1>4, <1>5, <1>6 DEF RequestsIInv

LEMMA CreditsNext == CreditsIInv /\ [Next]_vars => CreditsIInv'
  <1> SUFFICES ASSUME CreditsIInv, [Next]_vars PROVE RequestsIInv'
    BY PuNext DEF CreditsIInv
  <1>0. RequestsIInv
    BY DEF CreditsIInv
  <1>1. ASSUME NEW p \in PU, PuStep(p) PROVE RequestsIInv'
    BY <1>1, QuietPuSteps, RequesterStepKeepsRequests, EbRequesterStepKeepsRequests DEF PuStep
  <1>2. ASSUME NEW r \in ROS, RosStep(r) PROVE RequestsIInv'
    BY <1>0, <1>2, RosAsksPreserves, JobArrivesPreserves, JobEndsPreserves DEF RosStep
  <1>3. ASSUME UNCHANGED vars PROVE RequestsIInv'
    BY <1>0, <1>3, QuietStep DEF vars, puVars
  <1> QED
    BY <1>0, <1>1, <1>2, <1>3, DcmStepPreserves, FragmentKeepsRequests, AssignKeepsRequests DEF Next, Engine

(* Where the requests and the credits are, whatever the interleaving.      *)
LEMMA CreditsInvariant == Spec => []CreditsIInv
  BY CreditsInit, CreditsNext, PTL DEF Spec

(* A session that waits in outQueue waits there once.                      *)
LEMMA OnceInQueue ==
  ASSUME NEW S, NEW queue \in Seq(S), IsInjective(queue), NEW r
  PROVE  /\ Contains(queue, r) <=> r \in ToSet(queue)
         /\ Contains(queue, r) => Cardinality({i \in DOMAIN queue : queue[i] = r}) = 1
  <1>1. DOMAIN queue = 1 .. Len(queue)
    OBVIOUS
  <1>2. Contains(queue, r) <=> r \in ToSet(queue)
    BY <1>1 DEF Contains, ToSet
  <1>3. ASSUME Contains(queue, r) PROVE Cardinality({i \in DOMAIN queue : queue[i] = r}) = 1
    <2>1. PICK i \in DOMAIN queue : queue[i] = r
      BY <1>1, <1>3 DEF Contains
    <2>2. {j \in DOMAIN queue : queue[j] = r} = {i}
      BY <2>1 DEF IsInjective
    <2> QED
      BY <2>2, FS_Singleton
  <1> QED
    BY <1>2, <1>3

(* DcmApp's account is right after any interleaving of requests, grants    *)
(* and responses, for any number of ROSes, PUs and credits: credits are    *)
(* neither lost nor made, a session is in outQueue exactly when it holds   *)
(* what its first request needs, and popNextTransaction never throws.      *)
THEOREM CreditsAreConserved == Spec => []CreditsInv
  <1>1. ASSUME CreditsIInv PROVE CreditsInv
    <2>1. PuTypeOK /\ DcmTypeOK /\ RosTypeOK /\ CreditsConserved /\ \A r \in ROS : Ready(r)
      BY <1>1 DEF CreditsIInv, PuIInv, RequestsIInv
    <2>2. TypeOK
      BY <2>1 DEF TypeOK, DcmTypeOK, RosTypeOK, Session
    <2>3. OutQueueReady
      <3>1. outQueue \in Seq(ROS) /\ IsInjective(outQueue)
        BY <2>1 DEF DcmTypeOK
      <3>2. ASSUME NEW r \in ROS
            PROVE  /\ Contains(outQueue, r) <=> r \in ToSet(outQueue)
                   /\ Contains(outQueue, r) => Cardinality({i \in DOMAIN outQueue : outQueue[i] = r}) = 1
        BY <3>1, OnceInQueue
      <3> QED
        BY <2>1, <3>2 DEF OutQueueReady, Ready, ReadyIn
    <2> QED
      BY <2>1, <2>2, <2>3 DEF CreditsInv
  <1> QED
    BY <1>1, CreditsInvariant, PTL
=============================================================================
