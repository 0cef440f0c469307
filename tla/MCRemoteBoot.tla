---------------------------- MODULE MCRemoteBoot ----------------------------
(* Two modules, a few blocks, a few runs of the host, for TLC: a target     *)
(* with modules that waits or not, one without modules, and both with every *)
(* option that changes what the protocol sees.                              *)
EXTENDS RemoteBoot

MCSetups == [modules : 0..2, wait : BOOLEAN, keepgoing : BOOLEAN, posted : BOOLEAN]
MCNoModules == {[modules |-> 0, wait |-> FALSE, keepgoing |-> FALSE, posted |-> FALSE]}
=============================================================================
