-------------------------- MODULE SchedulerDriver --------------------------
(***************************************************************************)
(* The scheduler on its own, as the unit tests of WRRScheduler drive it:   *)
(* any queue may report any size at any time, and a request may arrive     *)
(* whenever none is outstanding (EgressPort shows that the link keeps to   *)
(* that; WRRScheduler::dext throws otherwise).                             *)
(***************************************************************************)
EXTENDS WRRScheduler

CONSTANT ReportedSize     \* the sizes in bytes that queues may report

ASSUME DriverAssumption == ReportedSize \subseteq Nat

SizeArrives == \E q \in Queue, size \in ReportedSize : dext_queueSize(q, size)

RequestArrives ==
    /\ ~RequestOutstanding
    /\ dext_dequeRequest(knownSize)
    /\ UNCHANGED knownSize

RequestSent ==
    /\ schedNext = "now"
    /\ SchedDint

DriverNext == SizeArrives \/ RequestArrives \/ RequestSent

DriverSpec == SchedInit /\ [][DriverNext]_schedVars

(* The link asks again after each packet and the engine sends requests on. *)
FairDriverSpec == DriverSpec /\ WF_schedVars(RequestArrives) /\ WF_schedVars(RequestSent)

(* A queue that keeps reporting packets is served again and again.         *)
NoStarvation ==
    \A q \in Queue :
        <>[](knownSize[q] # 0) => []<>(schedNext = "now" /\ WRRQueueIndex = q)
=============================================================================
