-------------------------- MODULE MCTcpConnection --------------------------
(* Four packets over a queue that holds one: tail drops, out of order      *)
(* ACKs, premature timeouts, both congestion avoidance states and, with a  *)
(* finite forced period, preempted packets occur.                          *)
EXTENDS TcpConnection
=============================================================================
