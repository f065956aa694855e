---------------------------- MODULE MCMemoryCard ----------------------------
EXTENDS MemoryCard, TLC
CONSTANTS i1, i2, r1, r2, r3
Images == {i1, i2}
NoFault == {}
DiskFaults == {"stage", "rename", "read"}
AllFaults == Faults
Symmetry == Permutations(Images) \cup Permutations(Request)
=============================================================================
