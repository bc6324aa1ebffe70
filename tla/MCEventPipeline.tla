-------------------------- MODULE MCEventPipeline --------------------------
(* Two PUs, two ROSes with two and one ROBs, and two credits, fewer than a *)
(* whole event needs.  An L2 request asks for two ROBs, of one ROS or of   *)
(* both, and two steps may gather a whole event.                           *)
EXTENDS EventPipeline

MCRobIds == [r \in ROS |-> IF r = 1 THEN {1, 2} ELSE {3}]
=============================================================================
