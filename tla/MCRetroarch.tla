---------------------------- MODULE MCRetroarch ----------------------------
(* Instances of Retroarch for TLC.                                          *)
EXTENDS Retroarch
=============================================================================
