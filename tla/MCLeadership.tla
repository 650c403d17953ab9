--------------------------- MODULE MCLeadership ---------------------------
(* Small instances of the leader election for TLC.                         *)
EXTENDS Leadership, TLC

CONSTANTS p1, p2, p3, s1, s2, s3

Symmetry == Permutations(Processes) \cup Permutations(Sessions)
============================================================================
