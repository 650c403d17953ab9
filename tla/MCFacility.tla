---------------------------- MODULE MCFacility ----------------------------
(* Small instances of the Facility mode for TLC.                           *)
EXTENDS Facility

CONSTANTS w1, w2, t1, t2, a1, f1, f2, f3, s1, s2

OneRequester == [t \in Tx |-> a1]
===========================================================================
