------------------------------- MODULE MCRoom -------------------------------
(* Small instances of Room for TLC. *)
EXTENDS Room, TLC

CONSTANTS t1, t2, t3, t4, c1, c2, c3

Guest == [id |-> NoId, name |-> NoName]
Ann == [id |-> 1, name |-> "ann"]
AnnByName == [id |-> NoId, name |-> "ann"]

Guests == {Guest}
OneUser == {Ann}
Everyone == {Guest, Ann, AnnByName}
NoNicknames == {}
AnnsName == {"ann"}
Pad1 == {1}

PadFrames == {"assign_slot"}
InputFrames == {"assign_slot", "set_username", "grace"}
RoleFrames == {"assign_mk", "set_designated_speaker"}

Symmetry == Permutations({t1, t2, t3, t4} \cap Token) \cup Permutations({c1, c2, c3} \cap Conn)
=============================================================================
