----------------------------- MODULE MCPidFile ------------------------------
(* Small instances of PidFile: three process IDs, and an inode more than that. *)
EXTENDS PidFile, TLC

CONSTANTS p1, p2, p3, i1, i2, i3, i4

Pids     == {p1, p2, p3}
Inodes   == {i1, i2, i3, i4}
Symmetry == Permutations(Pids) \cup Permutations(Inodes)

AllOverlap    == {"start", "stop"}
StopsOverlap  == {"stop"}
=============================================================================
