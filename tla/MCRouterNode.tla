---------------------------- MODULE MCRouterNode ----------------------------
(* Router R with two ports and five packets of two flows, F and FA, of     *)
(* which one is ambiguous: FA at R has the key of F at AR.  Port 0 has two *)
(* queues that hold two packets each.                                      *)
EXTENDS RouterNode

F  == <<"F">>
FA == <<"F", "A">>
R  == <<"R">>
AR == <<"A", "R">>

MCPacket == {"f0", "f0b", "f1", "g0", "fake"}
MCSize   == [p \in MCPacket |-> 1]
MCTos    == [p \in MCPacket |-> IF p = "f1" THEN 1 ELSE 0]
MCWeight == [q \in 0 .. 1 |-> 1]
MCFlow   == {F, FA}
MCNode   == {R, AR}
MCFlowOf == [p \in MCPacket |-> CASE p = "g0" -> FA
                                  [] p = "fake" -> <<>>
                                  [] OTHER -> F]
MCRoutes == { [flow |-> F, node |-> R, port |-> 0],
              [flow |-> F, node |-> R, port |-> 1],
              [flow |-> F, node |-> AR, port |-> 0],
              [flow |-> FA, node |-> R, port |-> 1] }
MCNoFlow == <<>>
=============================================================================
