--------------------------- MODULE EventPipeline ---------------------------
(***************************************************************************)
(* The path of an event through the ATLAS-TDAQ models once HLTSupervisor   *)
(* has given it to a processing unit (PU).  The PU requests some fragments *)
(* (L2TRequester), waits for them and processes them (L2TProcessing),      *)
(* repeats that a number of steps (L2TIterator), is accepted or rejected   *)
(* (packetDiscard), and when accepted requests the remaining fragments     *)
(* (EBRequester) and builds the event (EventBuilder, EBProcessing).  All   *)
(* PUs share one DcmApp, which splits a request by read-out system (ROS)   *)
(* and sends a part only when it holds a credit for each fragment, and one *)
(* RosApp per ROS, which answers it.                                       *)
(*                                                                         *)
(* The repository holds the models but no coupling of them: the coupling   *)
(* modelled here is the one their ports and comments describe.  A fragment *)
(* that arrives goes to L2TProcessing and EventBuilder of its PU and, as a *)
(* ticket, to DcmApp ("a ticket is assigned for each fragments in the      *)
(* request").  The packet queues and the network between DcmApp, RosApp    *)
(* and the PUs keep, delay and reorder messages but do not lose them: that *)
(* is what TcpConnection provides.                                         *)
(*                                                                         *)
(* One action is one engine step of one model with the external            *)
(* transitions it causes.  Durations are arbitrary.  A request that has    *)
(* been sent is not kept, for it is set again before it is used.           *)
(***************************************************************************)
EXTENDS Integers, Sequences, FiniteSets, FiniteSetsExt, SequencesExt

CONSTANTS PU,                 \* processing units of one DCM
          ROS,                \* read-out systems
          RobIds,             \* ROS -> its read-out buffers (ROBs)
          Credits,            \* the starting value of m_creditsAvailable
          MaxParallelJobs,    \* RosApp::maxParallelJobs
          L2Requests,         \* the numbers of ROBs an L2 request may ask for
          RequestsPerSource,  \* L2TRequester::requestsPerSource
          MaxSteps,           \* the most steps L2TIterator may draw
          Threshold,          \* forwardingPercentageThreshold, in fragments
          MaxEvents           \* bound: events that HLTSupervisor gives out

ROB == UNION {RobIds[r] : r \in ROS}
RosOf(b) == CHOOSE r \in ROS : b \in RobIds[r]

ASSUME PipelineAssumption ==
    /\ \A r, s \in ROS : r # s => RobIds[r] \cap RobIds[s] = {}
    /\ IsFiniteSet(ROS) /\ IsFiniteSet(ROB)
    /\ Credits \in Nat /\ \A r \in ROS : Cardinality(RobIds[r]) <= Credits
    /\ MaxParallelJobs > 0 /\ L2Requests \subseteq Nat \ {0} /\ RequestsPerSource > 0 /\ MaxSteps > 0

(* An EventInfo: its event and its fragmentsInfo vector, of which only the *)
(* ROBs and the size matter.  A FragmentRequestInfo has the PU as well.    *)
Info(event, robs) == [event |-> event, robs |-> robs, size |-> Cardinality(robs)]
NoInfo == Info(-1, {})
Merged(i, j) == [event |-> i.event, robs |-> i.robs \cup j.robs, size |-> i.size + j.size]
Request(pu, event, robs) == [pu |-> pu, event |-> event, robs |-> robs]

VARIABLES
    event,          \* PU -> the number of its last event, and its state for HLTSV
    requester,      \* L2TRequester of each PU
    processing,     \* L2TProcessing
    iterator,       \* L2TIterator
    discard,        \* packetDiscard::arrivedSignals
    ebRequester,    \* EBRequester
    builder,        \* EventBuilder
    ebProcessing,   \* EBProcessing: the event being processed, or NoInfo
    m_creditsAvailable,
    sessions,       \* DcmApp::Session of each ROS
    outQueue,       \* DcmApp::outQueue, a queue of ROSes
    rosQueue,       \* the queue in front of each RosApp
    ros,            \* RosApp of each ROS
    fragments       \* fragments on their way to the PUs

puVars  == <<event, requester, processing, iterator, discard, ebRequester, builder, ebProcessing>>
dcmVars == <<m_creditsAvailable, sessions, outQueue>>
rosVars == <<rosQueue, ros>>
vars    == <<puVars, dcmVars, rosVars, fragments>>

(* The init functions.  EventBuilder starts by asking for its first job.   *)
Init ==
    /\ event = [p \in PU |-> [id |-> 0, state |-> "idle"]]
    /\ requester = [p \in PU |-> [state |-> "WAITING", requested |-> {}, pending |-> {}]]
    /\ processing = [p \in PU |-> [state |-> "WAITING_NEXT_JOB", event |-> -1, waiting |-> {}, received |-> NoInfo]]
    /\ iterator = [p \in PU |-> [state |-> "never", steps |-> 0, info |-> NoInfo]]
    /\ discard = [p \in PU |-> <<>>]
    /\ ebRequester = [p \in PU |-> [state |-> "WAITING", event |-> -1, pending |-> {}]]
    /\ builder = [p \in PU |-> [state |-> "WAITING", next |-> "now", event |-> -1, waiting |-> {}, info |-> NoInfo]]
    /\ ebProcessing = [p \in PU |-> NoInfo]
    /\ m_creditsAvailable = Credits
    /\ sessions = [r \in ROS |-> [pending |-> <<>>, credits |-> 0]]
    /\ outQueue = <<>>
    /\ rosQueue = [r \in ROS |-> <<>>]
    /\ ros = [r \in ROS |-> [jobs |-> {}, requested |-> "no"]]
    /\ fragments = {}

-----------------------------------------------------------------------------
(* DcmApp.                                                                 *)

minCreditsNeeded_Whole(s) == IF s.pending = <<>> THEN 0 ELSE Cardinality(Head(s.pending).robs)

(* Session::minCreditsNeeded.                                              *)
minCreditsNeeded(s) ==
    IF s.pending = <<>> \/ s.credits >= Cardinality(Head(s.pending).robs) THEN 0
    ELSE Cardinality(Head(s.pending).robs) - s.credits

Granted(ss, chosen) == MapThenSumSet(LAMBDA r : minCreditsNeeded(ss[r]), chosen)

distributeCredits_Once(ss, credits) ==
    /\ m_creditsAvailable' = credits
    /\ sessions' = ss
    /\ UNCHANGED outQueue

(* DcmApp::distributeCredits: rounds of giving credits, in random order,   *)
(* to the sessions that can be satisfied, until none can be.  A session    *)
(* that got its credits needs none, so it is chosen at most once.          *)
distributeCredits(ss, credits) ==
    \E chosen \in SUBSET {r \in ROS : minCreditsNeeded(ss[r]) # 0} :
        /\ Granted(ss, chosen) <= credits
        /\ \A r \in ROS \ chosen :
              minCreditsNeeded(ss[r]) # 0 => minCreditsNeeded(ss[r]) > credits - Granted(ss, chosen)
        /\ m_creditsAvailable' = credits - Granted(ss, chosen)
        /\ sessions' = [r \in ROS |->
              IF r \in chosen THEN [ss[r] EXCEPT !.credits = @ + minCreditsNeeded(ss[r])] ELSE ss[r]]
        /\ \E order \in SetToSeqs(chosen) : outQueue' = outQueue \o order

(* DcmApp::dext on port 0: the requested ROBs are grouped by session       *)
(* (asyncFetch), then credits are distributed.                             *)
dcmRequest(request) ==
    distributeCredits(
        [r \in ROS |->
            LET robs == request.robs \cap RobIds[r]
            IN  IF robs = {} THEN sessions[r]
                ELSE [sessions[r] EXCEPT !.pending = Append(@, Request(request.pu, request.event, robs))]],
        m_creditsAvailable)

(* DcmApp::dext on port 1.                                                 *)
dcmTicket == distributeCredits(sessions, m_creditsAvailable + 1)

(* DcmApp::lambda and dint: Session::popNextTransaction of the next        *)
(* session, which must hold its credits; the request goes to the ROS.      *)
DcmStep ==
    LET r     == Head(outQueue)
        first == Head(sessions[r].pending)
    IN  /\ outQueue # <<>>
        /\ sessions[r].pending # <<>>
        /\ Cardinality(first.robs) <= sessions[r].credits
        /\ outQueue' = Tail(outQueue)
        /\ sessions' = [sessions EXCEPT ![r].pending = Tail(@), ![r].credits = @ - Cardinality(first.robs)]
        /\ rosQueue' = [rosQueue EXCEPT ![r] = Append(@, first)]
        /\ UNCHANGED <<puVars, m_creditsAvailable, ros, fragments>>

-----------------------------------------------------------------------------
(* RosApp.                                                                 *)

(* RosApp::isNextJobNeeded.                                                *)
isNextJobNeeded(r) == MaxParallelJobs > Cardinality(ros[r].jobs) /\ ros[r].requested = "no"

(* RosApp::lambda and dint when another job can be processed.              *)
RosAsks(r) ==
    /\ isNextJobNeeded(r)
    /\ ros' = [ros EXCEPT ![r].requested = "yes"]
    /\ UNCHANGED <<puVars, dcmVars, rosQueue, fragments>>

(* The queue answers; RosApp::dext, which throws for a job it did not ask  *)
(* for.                                                                    *)
JobArrives(r) ==
    /\ ros[r].requested = "yes"
    /\ rosQueue[r] # <<>>
    /\ rosQueue' = [rosQueue EXCEPT ![r] = Tail(@)]
    /\ ros' = [ros EXCEPT ![r].jobs = @ \cup {Head(rosQueue[r])}, ![r].requested = "no"]
    /\ UNCHANGED <<puVars, dcmVars, fragments>>

(* RosApp::lambda and dint when a job ends: one fragment per ROB.          *)
JobEnds(r) ==
    /\ ~isNextJobNeeded(r)
    /\ \E job \in ros[r].jobs :
          /\ ros' = [ros EXCEPT ![r].jobs = @ \ {job}]
          /\ fragments' = fragments \cup {[pu |-> job.pu, event |-> job.event, rob |-> b] : b \in job.robs}
    /\ UNCHANGED <<puVars, dcmVars, rosQueue>>

-----------------------------------------------------------------------------
(* The processing unit.                                                    *)

Selectable_Again(requested) == [r \in ROS |-> RobIds[r]]

(* The ROBs L2TRequester::dext may still request of each ROS.              *)
Selectable(requested) == [r \in ROS |-> RobIds[r] \ requested]

(* The selection loop of L2TRequester::dext: ROSes in random order, up to  *)
(* RequestsPerSource random ROBs of each, until n are selected.  Only the  *)
(* last ROS can be cut short.                                              *)
Selections(requested, n) ==
    LET most == [r \in ROS |-> Min({RequestsPerSource, Cardinality(Selectable(requested)[r])})]
        of(S, r) == Cardinality(S \cap RobIds[r])
    IN  {S \in SUBSET UNION {Selectable(requested)[r] : r \in ROS} :
           /\ \A r \in ROS : of(S, r) <= most[r]
           /\ Cardinality(S) = Min({n, MapThenSumSet(LAMBDA r : most[r], ROS)})
           /\ Cardinality({r \in ROS : 0 < of(S, r) /\ of(S, r) < most[r]}) <= 1}

(* L2TRequester::dext, with the ROBs requested before for this event.      *)
request(p, requested) ==
    \E n \in L2Requests : \E S \in Selections(requested, n) :
        requester' = [requester EXCEPT ![p] = [state |-> "REQUESTING", requested |-> requested \cup S, pending |-> S]]

(* HLTSupervisor gives the PU its next event; L2TRequester::dext, port 0.  *)
AssignEvent(p) ==
    /\ event[p].state = "idle"
    /\ MapThenSumSet(LAMBDA q : event[q].id, PU) < MaxEvents
    /\ event' = [event EXCEPT ![p] = [id |-> @.id + 1, state |-> "busy"]]
    /\ request(p, {})
    /\ UNCHANGED <<processing, iterator, discard, ebRequester, builder, ebProcessing, dcmVars, rosVars, fragments>>

(* L2TRequester::lambda and dint; L2TProcessing::dext on port 0, which     *)
(* starts processing at once when there is nothing to wait for.            *)
RequesterStep(p) ==
    LET robs == requester[p].pending
    IN  /\ requester[p].state = "REQUESTING"
        /\ requester' = [requester EXCEPT ![p] = [@ EXCEPT !.state = "WAITING", !.pending = {}]]
        /\ processing' = [processing EXCEPT ![p] = [@ EXCEPT
              !.state = IF robs = {} THEN "PROCESSING" ELSE "WAITING_RESPONSE", !.event = event[p].id, !.waiting = robs]]
        /\ dcmRequest(Request(p, event[p].id, robs))
        /\ UNCHANGED <<event, iterator, discard, ebRequester, builder, ebProcessing, rosVars, fragments>>

processingReceives_Unasked(f) ==
    LET me == processing[f.pu]
    IN  processing' = [processing EXCEPT ![f.pu] = [me EXCEPT
          !.waiting = me.waiting \ {f.rob},
          !.received = Merged(me.received, Info(f.event, {f.rob})),
          !.state = IF me.waiting \subseteq {f.rob} THEN "PROCESSING" ELSE me.state]]

(* L2TProcessing::dext on port 1: a fragment it waits for; others are      *)
(* ignored.                                                                *)
processingReceives(f) ==
    LET me == processing[f.pu]
    IN  IF f.event = me.event /\ f.rob \in me.waiting
        THEN processing' = [processing EXCEPT ![f.pu] = [me EXCEPT
               !.waiting = me.waiting \ {f.rob},
               !.received = Merged(me.received, Info(f.event, {f.rob})),
               !.state = IF me.waiting = {f.rob} THEN "PROCESSING" ELSE me.state]]
        ELSE UNCHANGED processing

(* EventBuilder::dext on port 2.  The event is sent when its fragments,    *)
(* those of the L2 steps included, are as many as there are ROBs.          *)
BuiltWith(size) == size >= Cardinality(ROB)

builderReceives(f) ==
    LET me   == builder[f.pu]
        info == Merged(me.info, Info(f.event, {f.rob}))
    IN  IF f.event = me.event /\ f.rob \in me.waiting
        THEN builder' = [builder EXCEPT ![f.pu] = [me EXCEPT
               !.waiting = me.waiting \ {f.rob},
               !.info = info,
               !.state = "BUILDING_EVENT",
               !.next = IF BuiltWith(info.size) THEN "now" ELSE "never"]]
        ELSE UNCHANGED builder

(* A fragment arrives: L2TProcessing, EventBuilder and DcmApp see it.      *)
FragmentArrives ==
    \E f \in fragments :
        /\ fragments' = fragments \ {f}
        /\ processingReceives(f)
        /\ builderReceives(f)
        /\ dcmTicket
        /\ UNCHANGED <<event, requester, iterator, discard, ebRequester, ebProcessing, rosVars>>

(* What L2TIterator takes, in dext, for the sign of a new event: the last  *)
(* one had no steps left or had enough fragments.                          *)
StartsNewEvent(p) == iterator[p].steps < 1 \/ iterator[p].info.size >= Threshold

(* L2TProcessing::lambda and dint; L2TIterator::dext.                      *)
ProcessingEnds(p) ==
    LET info == [processing[p].received EXCEPT !.event = processing[p].event]
    IN  /\ processing[p].state = "PROCESSING"
        /\ processing' = [processing EXCEPT ![p] = [@ EXCEPT !.state = "WAITING_NEXT_JOB", !.waiting = {}, !.received = NoInfo]]
        /\ IF StartsNewEvent(p)
           THEN \E n \in 1 .. MaxSteps :
                  iterator' = [iterator EXCEPT ![p] = [state |-> "now", steps |-> n - 1, info |-> info]]
           ELSE iterator' = [iterator EXCEPT ![p] = [state |-> "now", steps |-> @.steps - 1, info |-> Merged(@.info, info)]]
        /\ UNCHANGED <<event, requester, discard, ebRequester, builder, ebProcessing, dcmVars, rosVars, fragments>>

(* L2TIterator::lambda: on port 1 to the decision, or on port 0 back to    *)
(* L2TRequester (dext on port 1).                                          *)
Decide(p) ==
    /\ iterator[p].state = "now"
    /\ iterator[p].steps < 1 \/ iterator[p].info.size >= Threshold
    /\ iterator' = [iterator EXCEPT ![p].state = "never"]
    /\ discard' = [discard EXCEPT ![p] = Append(@, iterator[p].info)]
    /\ UNCHANGED <<event, requester, processing, ebRequester, builder, ebProcessing, dcmVars, rosVars, fragments>>

Iterate(p) ==
    /\ iterator[p].state = "now"
    /\ ~(iterator[p].steps < 1 \/ iterator[p].info.size >= Threshold)
    /\ iterator' = [iterator EXCEPT ![p].state = "never"]
    /\ request(p, requester[p].requested)
    /\ UNCHANGED <<event, processing, discard, ebRequester, builder, ebProcessing, dcmVars, rosVars, fragments>>

(* packetDiscard::lambda and dint, rejecting: the PU is idle again.        *)
Reject(p) ==
    /\ discard[p] # <<>>
    /\ discard' = [discard EXCEPT ![p] = Tail(@)]
    /\ event' = [event EXCEPT ![p].state = "idle"]
    /\ UNCHANGED <<requester, processing, iterator, ebRequester, builder, ebProcessing, dcmVars, rosVars, fragments>>

(* packetDiscard::lambda and dint, accepting; EBRequester::dext, which     *)
(* requests the fragments not requested before, and EventBuilder::dext on  *)
(* port 0.                                                                 *)
Accept(p) ==
    LET info == Head(discard[p])
    IN  /\ discard[p] # <<>>
        /\ discard' = [discard EXCEPT ![p] = Tail(@)]
        /\ ebRequester' = [ebRequester EXCEPT ![p] = [state |-> "REQUESTING", event |-> info.event, pending |-> ROB \ info.robs]]
        /\ builder' = [builder EXCEPT ![p].info = info]
        /\ UNCHANGED <<event, requester, processing, iterator, ebProcessing, dcmVars, rosVars, fragments>>

(* EBRequester::lambda and dint; EventBuilder::dext on port 1 and DcmApp.  *)
EbRequesterStep(p) ==
    LET me == ebRequester[p]
    IN  /\ me.state = "REQUESTING"
        /\ ebRequester' = [ebRequester EXCEPT ![p] = [state |-> "WAITING", event |-> -1, pending |-> {}]]
        /\ builder' = [builder EXCEPT ![p] = [@ EXCEPT !.event = me.event, !.waiting = me.pending]]
        /\ dcmRequest(Request(p, me.event, me.pending))
        /\ UNCHANGED <<event, requester, processing, iterator, discard, ebProcessing, rosVars, fragments>>

(* EventBuilder::lambda and dint: the event goes to EBProcessing.          *)
Build(p) ==
    /\ builder[p].next = "now"
    /\ builder[p].state = "BUILDING_EVENT"
    /\ ebProcessing' = [ebProcessing EXCEPT ![p] = builder[p].info]
    /\ builder' = [builder EXCEPT ![p] = [@ EXCEPT !.state = "WAITING", !.waiting = {}, !.info = NoInfo]]
    /\ UNCHANGED <<event, requester, processing, iterator, discard, ebRequester, dcmVars, rosVars, fragments>>

(* EventBuilder::lambda and dint: it only asks for more.                   *)
BuilderAsks(p) ==
    /\ builder[p].next = "now"
    /\ builder[p].state = "WAITING"
    /\ builder' = [builder EXCEPT ![p].next = "never"]
    /\ UNCHANGED <<event, requester, processing, iterator, discard, ebRequester, ebProcessing, dcmVars, rosVars, fragments>>

(* EBProcessing::lambda and dint: the PU is idle again.                    *)
EventEnds(p) ==
    /\ ebProcessing[p] # NoInfo
    /\ ebProcessing' = [ebProcessing EXCEPT ![p] = NoInfo]
    /\ event' = [event EXCEPT ![p].state = "idle"]
    /\ UNCHANGED <<requester, processing, iterator, discard, ebRequester, builder, dcmVars, rosVars, fragments>>

PuStep(p) ==
    \/ RequesterStep(p) \/ ProcessingEnds(p) \/ Decide(p) \/ Iterate(p) \/ Reject(p)
    \/ Accept(p) \/ EbRequesterStep(p) \/ Build(p) \/ BuilderAsks(p) \/ EventEnds(p)

RosStep(r) == RosAsks(r) \/ JobArrives(r) \/ JobEnds(r)

Engine ==
    \/ \E p \in PU : PuStep(p)
    \/ \E r \in ROS : RosStep(r)
    \/ DcmStep
    \/ FragmentArrives

Next == Engine \/ \E p \in PU : AssignEvent(p)

Spec == Init /\ [][Next]_vars

(* RootSimulator::run keeps stepping.                                      *)
FairSpec == Spec /\ WF_vars(Engine)

-----------------------------------------------------------------------------
EventInfo       == [event : Int, robs : SUBSET ROB, size : Nat]
EventOfPu       == [id : Nat, state : {"idle", "busy"}]
L2TRequester    == [state : {"WAITING", "REQUESTING"}, requested : SUBSET ROB, pending : SUBSET ROB]
L2TProcessing   == [state : {"WAITING_NEXT_JOB", "WAITING_RESPONSE", "PROCESSING"},
                    event : Int, waiting : SUBSET ROB, received : EventInfo]
L2TIterator     == [state : {"now", "never"}, steps : Nat, info : EventInfo]
EBRequester     == [state : {"WAITING", "REQUESTING"}, event : Int, pending : SUBSET ROB]
EventBuilder    == [state : {"WAITING", "BUILDING_EVENT"}, next : {"now", "never"},
                    event : Int, waiting : SUBSET ROB, info : EventInfo]
Requests == [pu : PU, event : Nat, robs : SUBSET ROB]

PuTypeOK ==
    /\ event \in [PU -> EventOfPu]
    /\ requester \in [PU -> L2TRequester]
    /\ processing \in [PU -> L2TProcessing]
    /\ iterator \in [PU -> L2TIterator]
    /\ discard \in [PU -> Seq(EventInfo)]
    /\ ebRequester \in [PU -> EBRequester]
    /\ builder \in [PU -> EventBuilder]
    /\ ebProcessing \in [PU -> EventInfo]

TypeOK ==
    /\ PuTypeOK
    /\ m_creditsAvailable \in Int
    /\ sessions \in [ROS -> [pending : Seq(Requests), credits : Int]]
    /\ outQueue \in Seq(ROS)
    /\ rosQueue \in [ROS -> Seq(Requests)]
    /\ ros \in [ROS -> [jobs : SUBSET Requests, requested : {"no", "yes"}]]
    /\ fragments \subseteq [pu : PU, event : Nat, rob : ROB]

(* Credits are never lost nor made: those available, those given to the    *)
(* sessions, and one for each fragment requested and not yet arrived.      *)
Owed(requests) == MapThenSumSet(LAMBDA q : Cardinality(q.robs), requests)
Lent(ss, queues, rs) ==
    MapThenSumSet(LAMBDA r : ss[r].credits + Owed(ToSet(queues[r])) + Owed(rs[r].jobs), ROS)
CreditsConserved == m_creditsAvailable + Cardinality(fragments) + Lent(sessions, rosQueue, ros) = Credits

(* A session waits in outQueue once, and exactly when it holds the credits *)
(* of its first transaction, whatever requests and tickets arrive between  *)
(* distributeCredits and lambda: popNextTransaction never throws.          *)
OutQueueReady ==
    \A r \in ROS : LET s == sessions[r]
                   IN  IF Contains(outQueue, r)
                       THEN /\ Cardinality({i \in DOMAIN outQueue : outQueue[i] = r}) = 1
                            /\ s.pending # <<>> /\ s.credits = Cardinality(Head(s.pending).robs)
                       ELSE s.credits = 0

(* A PU works on an event in exactly one stage of its pipeline at a time,  *)
(* so that L2TRequester is never called while it is REQUESTING ("Invalid   *)
(* model"), and is told to be idle only when all stages are.               *)
Stages(p) ==
    Cardinality({s \in 1 .. 6 :
        CASE s = 1 -> requester[p].state = "REQUESTING"
          [] s = 2 -> processing[p].state # "WAITING_NEXT_JOB"
          [] s = 3 -> iterator[p].state = "now"
          [] s = 4 -> discard[p] # <<>>
          [] s = 5 -> ebRequester[p].state = "REQUESTING" \/ builder[p].info # NoInfo
          [] s = 6 -> ebProcessing[p] # NoInfo})
OneStage == \A p \in PU : Stages(p) = IF event[p].state = "busy" THEN 1 ELSE 0

(* A built event has the fragment of every ROB exactly once: the fragments *)
(* gathered over the L2 steps and those of the event builder are disjoint, *)
(* and belong to the event the PU was given.                               *)
BuiltComplete ==
    \A p \in PU : ebProcessing[p] # NoInfo => ebProcessing[p] = Info(event[p].id, ROB)

(* The L2 steps have gathered every fragment, so that EBRequester requests *)
(* none and no response reaches EventBuilder, which forwards an event only *)
(* when one does ("After all requests arrived the event is forwarded",     *)
(* EventBuilder.h).                                                        *)
NothingToBuild(p) == builder[p].info.robs = ROB /\ builder[p].next = "never"

(* A PU that got an event becomes idle again: no request waits for credits *)
(* that never come.  The exception is an event that needs no more          *)
(* fragments when it is accepted, which is never built.                    *)
EventuallyIdle == \A p \in PU : event[p].state = "busy" ~> (event[p].state = "idle" \/ NothingToBuild(p))

(* DcmApp's account is right after any interleaving of requests, grants    *)
(* and responses: credits are neither lost nor made, and a session is      *)
(* queued for lambda exactly when it holds what its first transaction      *)
(* needs.                                                                  *)
CreditsInv == TypeOK /\ CreditsConserved /\ OutQueueReady
=============================================================================
