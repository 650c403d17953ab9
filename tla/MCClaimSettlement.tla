------------------------ MODULE MCClaimSettlement ------------------------
(* Small instances of the claims for TLC: requests q1 and q2 of the same   *)
(* address, or of two.                                                     *)
EXTENDS ClaimSettlement, TLC

CONSTANTS w1, w2, q1, q2, a1, a2, s1, s2, s3

OneAccount  == [r \in {q1} |-> a1]
SameAccount == [r \in {q1, q2} |-> a1]
TwoAccounts == (q1 :> a1) @@ (q2 :> a2)
Symmetry == Permutations(Slots) \cup Permutations(Workers)
============================================================================
