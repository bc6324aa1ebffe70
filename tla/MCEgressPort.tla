---------------------------- MODULE MCEgressPort ----------------------------
(* Two queues of up to three bytes with weights 2 and 1, and packets of    *)
(* one or two bytes for both classes, for an unknown class (2) and for     *)
(* the class -1 that VectorialModel delivers to every queue.               *)
EXTENDS EgressPort

MCPacket == {"a0", "b0", "c1", "e2", "f-1"}
MCSize   == [p \in MCPacket |-> IF p = "b0" THEN 2 ELSE 1]
MCTos    == [p \in MCPacket |-> CASE p \in {"a0", "b0"} -> 0
                                  [] p = "c1" -> 1
                                  [] p = "e2" -> 2
                                  [] p = "f-1" -> -1]
MCWeight == [q \in 0 .. 1 |-> IF q = 0 THEN 2 ELSE 1]
=============================================================================
