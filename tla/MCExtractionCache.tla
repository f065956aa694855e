------------------------- MODULE MCExtractionCache -------------------------
(* Instances of ExtractionCache for TLC: two titles that fit the cap one at  *)
(* a time, and one that is larger than it.                                   *)
EXTENDS ExtractionCache, TLC
CONSTANTS a1, a2, a3
MCFiles == (a1 :> {"boot", "data"}) @@ (a2 :> {"boot", "data", "music"})
           @@ (a3 :> {"boot", "data", "music", "video"})
MCPkg == (a1 :> 2) @@ (a2 :> 1) @@ (a3 :> 0)
=============================================================================
