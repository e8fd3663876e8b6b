---------------------------- MODULE MCBroadcast ----------------------------
(* Instances of Broadcast for TLC.                                          *)
EXTENDS Broadcast, TLC

CONSTANTS g1, g2, g3
=============================================================================
