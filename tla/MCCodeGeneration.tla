-------------------------- MODULE MCCodeGeneration --------------------------
(* Three macs, one of them in two vlans.  A program defines one or two     *)
(* hosts and a flow, where the second host may be in a vlan, lack a switch *)
(* or have its mac in second place; or it has two flows, arrays, literal   *)
(* addresses or the same mac twice, in one vlan or in two.                 *)
EXTENDS CodeGeneration

a  == HostOf("a", "-1", "a", TRUE)
b  == HostOf("b", "-1", "b", TRUE)
c  == HostOf("c", "-1", "c", TRUE)
b7 == HostOf("b", "7", "b", TRUE)
bSecond   == HostOf("b", "-1", "a", TRUE)
bNoSwitch == HostOf("b", "-1", "b", FALSE)

MCNetwork == {Address(host) : host \in {a, b, c, b7}}

MCPrograms ==
    {<<a, x, FlowOf(<<a>>, <<x>>)>> : x \in {b, b7, bSecond, bNoSwitch}} \cup
    {<<a, FlowOf(<<a>>, <<Literal("b")>>)>>,
     <<b, FlowOf(<<b>>, <<b>>), a, FlowOf(<<b>>, <<a>>)>>,
     <<c, a, FlowOf(<<a, c>>, <<a>>), FlowOf(<<c>>, <<a>>)>>,
     <<a, b, b7, FlowOf(<<a>>, <<b, b7>>)>>}
=============================================================================
