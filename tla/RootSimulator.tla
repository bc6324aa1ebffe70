--------------------------- MODULE RootSimulator ---------------------------
(***************************************************************************)
(* The engine that runs every simulation: RootSimulator::step, the root    *)
(* coupling and one coupling nested in it (engine/root_simulator.cpp,      *)
(* coupling.cpp, simulator.cpp).  heap is the tree of the root coupling,   *)
(* innerHeap that of the nested one.                                       *)
(*                                                                         *)
(* The atomic models are arbitrary: an output is a null event or an event  *)
(* on any port, a transition leaves any time advance, and any transition   *)
(* may throw.  A step() is an output (Lambda) followed by the transitions  *)
(* it causes, in the order of the code (work), each with the heap.update   *)
(* and the ta that follow it.                                              *)
(*                                                                         *)
(* No coupling feeds its own input, which DEVS forbids: Coupling::dext     *)
(* would choose another transitionChild between the output and the         *)
(* internal transition of the first.                                       *)
(***************************************************************************)
EXTENDS ChildHeap, SequencesExt

CONSTANTS Size,        \* the number of children of the root
          Nested,      \* the child of the root that is a coupling
          InnerSize,   \* the number of its children
          Ports,
          IC,          \* root: sequence of [childSource, sourcePort, childSink, sinkPort]
          InnerIC,     \* the same for the nested coupling
          EIC,         \* nested coupling: [sourcePort, childSink]
          EOC,         \* nested coupling: [childSource, sourcePort, sinkPort]
          tf,          \* the final time
          maxSteps     \* setBreakCount

Child      == 0 .. Size - 1
InnerChild == 0 .. InnerSize - 1
Atomic     == Child \ {Nested}
NoPort     == -1                 \* a null event

(* The ends of every connection exist.                                     *)
ASSUME EngineAssumption ==
    /\ Size \in Nat \ {0} /\ Nested \in Child /\ InnerSize \in Nat \ {0}
    /\ NoPort \notin Ports
    /\ tf \in Finite /\ maxSteps \in Nat
    /\ IC \in Seq([childSource : Child, sourcePort : Nat, childSink : Child, sinkPort : Nat])
    /\ InnerIC \in Seq([childSource : InnerChild, sourcePort : Nat, childSink : InnerChild, sinkPort : Nat])
    /\ EIC \in Seq([sourcePort : Nat, childSink : InnerChild])
    /\ EOC \in Seq([childSource : InnerChild, sourcePort : Nat, sinkPort : Nat])
    /\ \A i \in DOMAIN IC : IC[i].childSource # Nested \/ IC[i].childSink # Nested

VARIABLES
    tn,                 \* child -> time of its next event, Simulator::tn
    heap,               \* ChildHeap of the root coupling: level -> position -> [model, tn]
    innerTn,            \* inner child -> Simulator::tn
    innerHeap,          \* ChildHeap of the nested coupling
    innerTransition,    \* its Coupling::transitionChild
    transitionChild,    \* of the root coupling
    rootTn,             \* the root coupling's tn
    t,                  \* RootSimulator::t
    lastTransition,
    stepsCount,
    work,               \* the transitions still to make in this step
    emitter,            \* history: the model of the last output
    stepsNow,           \* history: steps executed at time t
    status              \* "running", "ended", "aborted" or "thrown"

heapVars   == <<tn, heap>>
engineVars == <<innerTn, innerHeap, innerTransition, transitionChild, rootTn,
                t, lastTransition, stepsCount, work, emitter, stepsNow, status>>
simVars    == <<heapVars, engineVars>>

(* The atomic models by their position in the tree, and the one that the   *)
(* couplings' transitionChild fields point to.                             *)
Leaf == (Atomic \X {0}) \cup ({Nested} \X InnerChild)
LeafTn(m) == IF m[1] = Nested THEN innerTn[m[2]] ELSE tn[m[1]]
Imminent == <<transitionChild, IF transitionChild = Nested THEN innerTransition ELSE 0>>

-----------------------------------------------------------------------------
(* RootSimulator::init with ti = 0; Coupling::init and imessage of both    *)
(* couplings, whose ta chooses the child to step first.                    *)
EngineInit ==
    /\ innerTn \in [InnerChild -> Finite \cup Passive]
    /\ innerHeap = create(InnerSize, innerTn)
    /\ innerTransition = next(InnerSize, innerHeap)
    /\ tn \in {f \in [Child -> Finite \cup Passive] : f[Nested] = innerTn[innerTransition]}
    /\ heap = create(Size, tn)
    /\ transitionChild = next(Size, heap)
    /\ rootTn = tn[transitionChild]
    /\ t = 0
    /\ lastTransition = 0
    /\ stepsCount = 0
    /\ work = <<>>
    /\ emitter = Imminent
    /\ stepsNow = 0
    /\ status = "running"

(* Transitions still to make: the external ones of a child of the root or  *)
(* of the nested coupling, the end of one of the nested coupling itself,   *)
(* and the internal one of the imminent model.                             *)
RootDext(c)  == [kind |-> "rootDext", child |-> c]
InnerDext(c) == [kind |-> "innerDext", child |-> c]
NestedTa     == [kind |-> "nestedTa", child |-> Nested]
Dint         == [kind |-> "dint", child |-> 0]

(* Coupling::dext of the nested coupling, and the ta of dextmessage.       *)
NestedDext(port) ==
    FlattenSeq([i \in DOMAIN EIC |->
        IF EIC[i].sourcePort = port THEN <<InnerDext(EIC[i].childSink)>> ELSE <<>>]) \o <<NestedTa>>

(* Coupling::propagate of the root, for an output of its transitionChild.  *)
Propagated(port) ==
    FlattenSeq([i \in DOMAIN IC |->
        IF ~(IC[i].childSource = transitionChild /\ IC[i].sourcePort = port) THEN <<>>
        ELSE IF IC[i].childSink = Nested THEN NestedDext(IC[i].sinkPort)
        ELSE <<RootDext(IC[i].childSink)>>])

(* Coupling::propagate of the nested coupling: first to its own children,  *)
(* then to its father.                                                     *)
InnerPropagated(port) ==
    FlattenSeq([i \in DOMAIN InnerIC |->
        IF InnerIC[i].childSource = innerTransition /\ InnerIC[i].sourcePort = port
        THEN <<InnerDext(InnerIC[i].childSink)>> ELSE <<>>])
    \o FlattenSeq([i \in DOMAIN EOC |->
        IF EOC[i].childSource = innerTransition /\ EOC[i].sourcePort = port
        THEN Propagated(EOC[i].sinkPort) ELSE <<>>])

CountStep_FirstCounts ==
    IF lastTransition = t' THEN stepsCount' = stepsCount + 1 /\ UNCHANGED lastTransition
    ELSE lastTransition' = t' /\ stepsCount' = 1

(* The counter of steps at the same time at the beginning of step().       *)
CountStep ==
    IF lastTransition = t' THEN stepsCount' = stepsCount + 1 /\ UNCHANGED lastTransition
    ELSE lastTransition' = t' /\ stepsCount' = 0

treeVars == <<heapVars, innerTn, innerHeap, innerTransition, transitionChild, rootTn>>

(* RootSimulator::step up to its first condition.                          *)
Begin ==
    /\ status = "running"
    /\ work = <<>>
    /\ t' = rootTn
    /\ CountStep
    /\ UNCHANGED treeVars

(* Coupling::lambda of the root and of the nested coupling.                *)
Lambda(port) ==
    /\ Begin
    /\ stepsCount' <= maxSteps
    /\ t' <= tf
    /\ work' = (IF port = NoPort THEN <<>>
                ELSE IF transitionChild = Nested THEN InnerPropagated(port)
                ELSE Propagated(port)) \o <<Dint>>
    /\ emitter' = Imminent
    /\ stepsNow' = IF t' = t THEN stepsNow + 1 ELSE 1
    /\ UNCHANGED status

(* Too many steps at one time: "Illegitimate model. Aborting simulation".  *)
Abort ==
    /\ Begin
    /\ stepsCount' > maxSteps
    /\ status' = "aborted"
    /\ UNCHANGED <<work, emitter, stepsNow>>

(* The final time has been passed.                                         *)
End ==
    /\ Begin
    /\ stepsCount' <= maxSteps
    /\ t' > tf
    /\ status' = "ended"
    /\ UNCHANGED <<work, emitter, stepsNow>>

-----------------------------------------------------------------------------
Transition(kind) ==
    /\ status = "running"
    /\ work # <<>>
    /\ Head(work).kind = kind
    /\ work' = Tail(work)
    /\ UNCHANGED <<t, lastTransition, stepsCount, emitter, stepsNow, status>>

(* The time of the next event after a transition at time t.                *)
NextTime == {u \in Finite : u >= t} \cup Passive

(* A transition of a child of the root or of the nested coupling, of which *)
(* its coupling tells the heap.                                            *)
ChildMoves(child, time) ==
    /\ tn' = [tn EXCEPT ![child] = time]
    /\ heap' = update(Size, heap, child, time)

InnerMoves(child, time) ==
    /\ innerTn' = [innerTn EXCEPT ![child] = time]
    /\ innerHeap' = update(InnerSize, innerHeap, child, time)

(* dextmessage of an atomic child of the root, and heap.update.            *)
RootChildDext(time) ==
    /\ Transition("rootDext")
    /\ ChildMoves(Head(work).child, time)
    /\ UNCHANGED <<innerTn, innerHeap, innerTransition, transitionChild, rootTn>>

(* The same in the nested coupling.                                        *)
InnerChildDext(time) ==
    /\ Transition("innerDext")
    /\ InnerMoves(Head(work).child, time)
    /\ UNCHANGED <<heapVars, innerTransition, transitionChild, rootTn>>

InnerTa_SameChild ==
    /\ UNCHANGED innerTransition
    /\ ChildMoves(Nested, innerTn'[innerTransition])

(* Coupling::ta of the nested coupling, and the heap.update of the root.   *)
InnerTa ==
    /\ innerTransition' = next(InnerSize, innerHeap')
    /\ ChildMoves(Nested, innerTn'[innerTransition'])

(* Coupling::ta of the root, at the end of its dintmessage.                *)
RootTa ==
    /\ transitionChild' = next(Size, heap')
    /\ rootTn' = tn'[transitionChild']

NestedDextEnds_RootToo ==
    /\ Transition("nestedTa")
    /\ UNCHANGED <<innerTn, innerHeap>>
    /\ InnerTa
    /\ RootTa

(* dextmessage of the nested coupling returns.                             *)
NestedDextEnds ==
    /\ Transition("nestedTa")
    /\ UNCHANGED <<innerTn, innerHeap>>
    /\ InnerTa
    /\ UNCHANGED <<transitionChild, rootTn>>

(* Coupling::dint of the root: dintmessage of the child it chose.          *)
AtomicDint(time) ==
    /\ Transition("dint")
    /\ transitionChild # Nested
    /\ ChildMoves(transitionChild, time)
    /\ RootTa
    /\ UNCHANGED <<innerTn, innerHeap, innerTransition>>

NestedDint(time) ==
    /\ Transition("dint")
    /\ transitionChild = Nested
    /\ InnerMoves(innerTransition, time)
    /\ InnerTa
    /\ RootTa

(* A transition throws: exit(t) and rethrow.                               *)
Throw ==
    /\ status = "running"
    /\ work # <<>>
    /\ status' = "thrown"
    /\ UNCHANGED <<treeVars, t, lastTransition, stepsCount, work, emitter, stepsNow>>

EngineNext ==
    \/ \E port \in Ports \cup {NoPort} : Lambda(port)
    \/ Abort \/ End \/ Throw
    \/ \E time \in NextTime :
          RootChildDext(time) \/ InnerChildDext(time) \/ AtomicDint(time) \/ NestedDint(time)
    \/ NestedDextEnds

EngineSpec == EngineInit /\ [][EngineNext]_simVars

-----------------------------------------------------------------------------
(* Two levels of heaps and cached tn and transitionChild fields add up to  *)
(* one agenda: the model that steps next has the earliest event of all     *)
(* atomic models, and the lowest position among those with the same time.  *)
GloballyEarliest ==
    status = "running" /\ work = <<>> /\ (\E m \in Leaf : LeafTn(m) \in Finite) =>
        /\ rootTn = LeafTn(Imminent)
        /\ \A m \in Leaf :
              \/ LeafTn(Imminent) < LeafTn(m)
              \/ /\ LeafTn(Imminent) = LeafTn(m)
                 /\ Imminent[1] < m[1] \/ (Imminent[1] = m[1] /\ Imminent[2] <= m[2])

(* Simulated time never passes the next event of a model: every time       *)
(* advance that elapses ends in an internal transition.                    *)
NoEventMissed == \A m \in Leaf : LeafTn(m) \in Finite => LeafTn(m) >= t

(* The internal transition is that of the model that made the output: no   *)
(* external transition in between changes the couplings' choice.           *)
Paired == status = "running" /\ work # <<>> => Imminent = emitter

(* A simulation is aborted after maxSteps + 1 steps at one time, except at *)
(* time 0, where lastTransition = 0 makes the first step count and one     *)
(* step less is made; no model gets more.                                  *)
AbortedAfter ==
    /\ stepsNow <= maxSteps + 1
    /\ status = "aborted" => stepsNow = IF t = 0 THEN maxSteps ELSE maxSteps + 1

(* The trees and the cached times of both levels act as one agenda: each   *)
(* tree's next child is its earliest and no entry is stale, the globally   *)
(* earliest model steps next, and time never passes a model's event.       *)
AgendaExact ==
    /\ HeapTypeOK(Size, tn, heap) /\ HeapTypeOK(InnerSize, innerTn, innerHeap)
    /\ NextIsEarliest(Size, tn, heap) /\ NextIsEarliest(InnerSize, innerTn, innerHeap)
    /\ Fresh(Size, tn, heap) /\ Fresh(InnerSize, innerTn, innerHeap)
    /\ GloballyEarliest /\ NoEventMissed
=============================================================================
