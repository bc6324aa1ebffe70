--------------------------- MODULE MCFelixServer ---------------------------
(* Three flows, two of which start late; periods include 0, which makes    *)
(* ties, and a negative value, which a normal distribution may yield.      *)
EXTENDS FelixServer

MCStart == [f \in ServerFlow |-> f]
MCPeriod == {-2, 0, 1, 3}
MCRawSize == {-1, 2}
=============================================================================
