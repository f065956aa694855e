---------------------------- MODULE MCStateSlot ----------------------------
(* Instances of StateSlot for TLC. *)
EXTENDS StateSlot
RomDef == <<"g1", "g2">>
=============================================================================
