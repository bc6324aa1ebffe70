----------------------------- MODULE MCHostPort -----------------------------
(* Four packets of one or two bytes and a queue that accepts up to three   *)
(* bytes: enough for acceptances, discards, an idle link and a backlog.    *)
EXTENDS HostPort

MCPacket == {"a1", "b1", "c2", "d2"}
MCSize == [p \in MCPacket |-> IF p \in {"a1", "b1"} THEN 1 ELSE 2]
MCCapacity == 4
=============================================================================
