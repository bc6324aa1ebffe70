-------------------------- MODULE MCRootSimulator --------------------------
(* Five children, so that levels 0 and 1 of the heap need padding; the     *)
(* third is a coupling of two.  Events run into it, out of it, between its *)
(* children and from one output to two models.                             *)
EXTENDS RootSimulator

MCIC == << [childSource |-> 0, sourcePort |-> 0, childSink |-> 2, sinkPort |-> 0],
           [childSource |-> 2, sourcePort |-> 0, childSink |-> 4, sinkPort |-> 0],
           [childSource |-> 2, sourcePort |-> 0, childSink |-> 1, sinkPort |-> 0],
           [childSource |-> 4, sourcePort |-> 0, childSink |-> 2, sinkPort |-> 1],
           [childSource |-> 3, sourcePort |-> 0, childSink |-> 0, sinkPort |-> 0] >>
MCInnerIC == << [childSource |-> 1, sourcePort |-> 0, childSink |-> 0, sinkPort |-> 0] >>
MCEIC == << [sourcePort |-> 0, childSink |-> 1],
            [sourcePort |-> 1, childSink |-> 0],
            [sourcePort |-> 1, childSink |-> 1] >>
MCEOC == << [childSource |-> 0, sourcePort |-> 0, sinkPort |-> 0] >>
=============================================================================
