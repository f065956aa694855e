---------------------------- MODULE MCRomCache ----------------------------
(* Instances of RomCache for TLC.                                           *)
EXTENDS RomCache
CONSTANTS r1, r2, r3
MCSize == [r \in Rom |-> IF r = r3 THEN 2 ELSE 1]
=============================================================================
