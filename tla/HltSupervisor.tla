--------------------------- MODULE HltSupervisor ---------------------------
(***************************************************************************)
(* HLTSupervisor with LeastBusyDcmHltsvStrategy: events are generated at a *)
(* fixed rate and each goes to an idle processing unit (PU) of the data    *)
(* collection manager (DCM) with the fewest busy PUs; events wait while no *)
(* PU is idle.  A PU reports when it is idle again; what it does with the  *)
(* event is modelled in EventPipeline, here it takes any time.             *)
(*                                                                         *)
(* One action is one engine step.  sigma is "now" or "later"; the value    *)
(* saved in previousSigma is also "unset" (-1).                            *)
(***************************************************************************)
EXTENDS Integers, Sequences, FiniteSets, SequencesExt

CONSTANTS PusPerDcm,    \* the parameter pusPerDCM: DCM -> number of its PUs
          MaxQueued     \* bound: queuedEventsToSend is not counted further

ASSUME SupervisorAssumption ==
    /\ PusPerDcm \in Seq(Nat \ {0}) /\ PusPerDcm # <<>>
    /\ MaxQueued \in Nat \ {0}

DCM == DOMAIN PusPerDcm

(* NetworkConfiguration::loadPuToDCMMap numbers the PUs DCM after DCM.     *)
Total[s \in Seq(Nat)] == IF s = <<>> THEN 0 ELSE Head(s) + Total[Tail(s)]
FirstPu == [d \in 1 .. Len(PusPerDcm) + 1 |-> Total[SubSeq(PusPerDcm, 1, d - 1)]]
PusOf == [d \in DCM |-> FirstPu[d] .. FirstPu[d + 1] - 1]
PU == UNION Range(PusOf)
DcmIndex == [pu \in PU |-> CHOOSE d \in DCM : pu \in PusOf[d]]

VARIABLES
    dcms,                \* LeastBusyDcmHltsvStrategy::dcms, a list of DCMs
    idlePUIds,           \* HltsvDcmLoad::idlePUIds of each DCM
    totalIdlePus,
    queuedEventsToSend,
    mystate,
    supervisorNext,      \* HLTSupervisor::sigma
    previousSigma,
    working,             \* the PUs that have an event
    excuse               \* history: why an event may wait beside an idle PU

strategyVars   == <<dcms, idlePUIds, totalIdlePus>>
supervisorVars == <<queuedEventsToSend, mystate, supervisorNext, previousSigma>>
vars           == <<strategyVars, supervisorVars, working, excuse>>

(* HLTSupervisor::init, addPuToDcm for every PU.  queuedEventsToSend and   *)
(* previousSigma are never initialised.                                    *)
Init ==
    /\ dcms = [d \in DCM |-> d]
    /\ idlePUIds = [d \in DCM |-> [i \in 1 .. PusPerDcm[d] |-> FirstPu[d] + i - 1]]
    /\ totalIdlePus = FirstPu[Len(PusPerDcm) + 1]
    /\ queuedEventsToSend \in -1 .. MaxQueued
    /\ mystate = "WAITING_RATE"
    /\ supervisorNext = "later"
    /\ previousSigma \in {"unset", "later"}
    /\ working = {}
    /\ excuse = IF queuedEventsToSend > 0 THEN "uninitialised" ELSE "none"

-----------------------------------------------------------------------------
(* The strategy.                                                           *)

(* HltsvDcmLoad::countBusyPus.                                             *)
BusyPus(d, idle) == PusPerDcm[d] - Len(idle[d])

(* LessBusyDcm.                                                            *)
LessBusyDcm(d, p, idle) == BusyPus(d, idle) < BusyPus(p, idle)

MovedForward_Kept(d, idle) == dcms

(* The find_if and splice of setIdlePu: the DCM moves before the first of  *)
(* its predecessors that is busier now.                                    *)
MovedForward(d, idle) ==
    LET here == SelectInSeq(dcms, LAMBDA p : p = d)
        i    == SelectInSeq(SubSeq(dcms, 1, here - 1), LAMBDA p : LessBusyDcm(d, p, idle))
    IN  IF i = 0 THEN dcms ELSE InsertAt(RemoveAt(dcms, here), i, d)

(* The find_if and splice of setNextPuBusy: the front DCM moves before the *)
(* first of its successors that is busier now, or to the end.              *)
MovedBack(idle) ==
    LET rest == Tail(dcms)
        i    == SelectInSeq(rest, LAMBDA p : LessBusyDcm(Head(dcms), p, idle))
    IN  IF i = 0 THEN Append(rest, Head(dcms)) ELSE InsertAt(rest, i, Head(dcms))

MarkedIdle_Front(d, pu) == <<pu>> \o idlePUIds[d]

(* HltsvDcmLoad::markPUAsIdle, for an event that has requested data.  One  *)
(* that has not makes it throw once the PU is in the list, and the         *)
(* simulation ends with that.                                              *)
MarkedIdle(d, pu) == Append(idlePUIds[d], pu)

(* HltsvDcmLoad::markPUAsBusy.                                             *)
MarkedBusy(d) == Tail(idlePUIds[d])

(* LeastBusyDcmHltsvStrategy::setIdlePu.                                   *)
setIdlePu(pu) ==
    LET d    == DcmIndex[pu]
        idle == [idlePUIds EXCEPT ![d] = MarkedIdle(d, pu)]
    IN  /\ idlePUIds' = idle
        /\ totalIdlePus' = totalIdlePus + 1
        /\ dcms' = MovedForward(d, idle)

(* setNextPuBusy with HltsvDcmLoad::getNextPuId: a PU of the front DCM,    *)
(* which must have an idle one, else getNextPuId throws and the simulation *)
(* ends.                                                                   *)
setNextPuBusy(pu) ==
    LET d    == Head(dcms)
        idle == [idlePUIds EXCEPT ![d] = MarkedBusy(d)]
    IN  /\ idlePUIds[d] # <<>>
        /\ pu = Head(idlePUIds[d])
        /\ idlePUIds' = idle
        /\ totalIdlePus' = totalIdlePus - 1
        /\ dcms' = MovedBack(idle)

-----------------------------------------------------------------------------
(* The supervisor.                                                         *)

(* HLTSupervisor::lambda counts an event when the rate time has expired.   *)
EventsToSend ==
    IF mystate = "WAITING_RATE" /\ queuedEventsToSend < MaxQueued
    THEN queuedEventsToSend + 1 ELSE queuedEventsToSend

(* HLTSupervisor::dint: the saved time, or a new period when it is not     *)
(* positive; both are "later".                                             *)
dint ==
    /\ mystate' = "WAITING_RATE"
    /\ supervisorNext' = "later"
    /\ previousSigma' = "unset"

(* One engine step: HLTSupervisor::lambda and dint, the event reaches its  *)
(* PU.                                                                     *)
SendEvent ==
    /\ supervisorNext = "now"
    /\ totalIdlePus > 0 /\ EventsToSend > 0
    /\ queuedEventsToSend' = EventsToSend - 1
    /\ \E pu \in PU : setNextPuBusy(pu) /\ working' = working \cup {pu}
    /\ dint
    /\ UNCHANGED excuse

QueueEvent ==
    /\ supervisorNext = "now"
    /\ ~(totalIdlePus > 0 /\ EventsToSend > 0)
    /\ queuedEventsToSend' = EventsToSend
    /\ dint
    /\ UNCHANGED <<strategyVars, working, excuse>>

WakeUp_NotSaved ==
    /\ mystate' = "WAITING_RATE"
    /\ UNCHANGED <<supervisorNext, previousSigma>>

(* The end of HLTSupervisor::dext.                                         *)
WakeUp ==
    IF queuedEventsToSend > 0
    THEN /\ mystate' = "SENDING_TO_IDLE_PU"
         /\ previousSigma' = supervisorNext
         /\ supervisorNext' = "now"
    ELSE /\ mystate' = "WAITING_RATE"
         /\ UNCHANGED <<supervisorNext, previousSigma>>

(* HLTSupervisor::dext: a PU has finished its event.                       *)
PuIdle(pu) ==
    /\ pu \in working
    /\ working' = working \ {pu}
    /\ setIdlePu(pu)
    /\ WakeUp
    /\ excuse' = IF supervisorNext = "now" THEN "coincidence" ELSE excuse
    /\ UNCHANGED queuedEventsToSend

(* Simulated time reaches the end of the rate period.                      *)
RateExpires ==
    /\ supervisorNext = "later"
    /\ supervisorNext' = "now"
    /\ UNCHANGED <<strategyVars, queuedEventsToSend, mystate, previousSigma, working, excuse>>

Next ==
    \/ SendEvent
    \/ QueueEvent
    \/ \E pu \in PU : PuIdle(pu)
    \/ RateExpires

Spec == Init /\ [][Next]_vars

(* The engine keeps stepping, time advances, and every PU finishes its     *)
(* event.                                                                  *)
FairSpec ==
    /\ Spec
    /\ WF_vars(SendEvent \/ QueueEvent \/ RateExpires)
    /\ \A pu \in PU : WF_vars(PuIdle(pu))

-----------------------------------------------------------------------------
TypeOK ==
    /\ dcms \in Seq(DCM)
    /\ idlePUIds \in [DCM -> Seq(PU)]
    /\ totalIdlePus \in Nat
    /\ queuedEventsToSend \in -1 .. MaxQueued
    /\ mystate \in {"WAITING_RATE", "SENDING_TO_IDLE_PU"}
    /\ supervisorNext \in {"now", "later"}
    /\ previousSigma \in {"unset", "now", "later"}
    /\ working \subseteq PU
    /\ excuse \in {"none", "uninitialised", "coincidence"}

(* The list that setIdlePu and setNextPuBusy only repair by moving one     *)
(* element stays sorted by load and never loses or repeats a DCM.          *)
SortedByLoad ==
    /\ ToSet(dcms) = DCM /\ Len(dcms) = Len(PusPerDcm)
    /\ \A i, j \in DOMAIN dcms : i < j => BusyPus(dcms[i], idlePUIds) <= BusyPus(dcms[j], idlePUIds)

(* The supervisor's view of the PUs is the truth: a PU is in the idle list *)
(* of its DCM, once, exactly when it has no event, so that no PU gets an   *)
(* event while it works on another.                                        *)
IdleListsExact ==
    /\ totalIdlePus = Cardinality(PU \ working)
    /\ \A d \in DCM : LET idle == PusOf[d] \ working
                     IN  ToSet(idlePUIds[d]) = idle /\ Len(idlePUIds[d]) = Cardinality(idle)

(* HLTSupervisor::lambda sends "if there is an event to send and idle      *)
(* PUs": the front DCM then has an idle PU and getNextPuId does not throw, *)
(* provided that all DCMs have equally many PUs.  (Otherwise the DCM with  *)
(* the fewest busy PUs may be a small one without an idle PU.)             *)
FrontHasIdle == (\A d, e \in DCM : PusPerDcm[d] = PusPerDcm[e]) /\ totalIdlePus > 0 => idlePUIds[Head(dcms)] # <<>>

(* queuedEventsToSend counts the "events that should have been sent but    *)
(* there were no available idle PUs": events wait beside an idle PU only   *)
(* after a PU reported in an instant in which the supervisor was already   *)
(* imminent, whose single step then serves one of the two, or because the  *)
(* counter started with a positive value.                                  *)
WaitsOnlyWithExcuse ==
    excuse = "none" /\ queuedEventsToSend > 0 /\ totalIdlePus > 0 => supervisorNext = "now"

(* Every idle PU gets an event again.                                      *)
EveryPuServed == \A pu \in PU : pu \notin working ~> pu \in working

(* The strategy's list of DCMs stays sorted and complete, its idle lists   *)
(* are the truth, and its front can serve whenever any PU is idle.         *)
StrategyInv == TypeOK /\ SortedByLoad /\ IdleListsExact /\ FrontHasIdle
=============================================================================
