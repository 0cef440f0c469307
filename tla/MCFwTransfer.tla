---------------------------- MODULE MCFwTransfer ----------------------------
(* Up to three devices on a bus, two of one vendor; transfers of up to three *)
(* blocks of two quadlets, fed in pieces that fit the blocks or do not.     *)
EXTENDS FwTransfer

MCGuid == [a |-> <<20, 1>>, b |-> <<20, 2>>, c |-> <<30, 1>>]
MCBuses == {<<"a">>, <<"a", "b">>, <<"b", "a">>, <<"c", "b", "a">>}
MCCmds == [op : {"poke"}, target : {<<0>>, <<1>>, <<20, 1>>, <<20, 2>>}, len : 1..6, chunk : 2..4]
            \cup [op : {"peek"}, target : {<<0>>, <<1>>, <<20, 2>>}, len : 1..6, chunk : {2}]
=============================================================================
