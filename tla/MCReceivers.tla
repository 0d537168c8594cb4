---------------------------- MODULE MCReceivers ----------------------------
(* Receivers for TLC.                                                       *)
EXTENDS Receivers
=============================================================================
