------------------------------- MODULE MCOhci -------------------------------
(* A controller with a short LPS loop, few polls and a generation counter   *)
(* that wraps, for TLC.                                                     *)
EXTENDS Ohci
=============================================================================
