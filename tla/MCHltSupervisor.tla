-------------------------- MODULE MCHltSupervisor --------------------------
(* Three DCMs with two PUs each.                                           *)
EXTENDS HltSupervisor

MCPusPerDcm == <<2, 2, 2>>
=============================================================================
