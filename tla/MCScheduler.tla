---------------------------- MODULE MCScheduler ----------------------------
(* Three queues with different weights: turns of several packets, queues   *)
(* that run empty in the middle of a turn, and wrap-around.                *)
EXTENDS SchedulerDriver

MCWeight == [q \in 0 .. 2 |-> CASE q = 0 -> 3 [] q = 1 -> 1 [] q = 2 -> 2]
=============================================================================
