------------------------ MODULE MCRewardsDiscovery ------------------------
(* Small instances of the discovery loop for TLC.                          *)
EXTENDS RewardsDiscovery, TLC

CONSTANTS w1, w2, t1, t2, a1, a2

(* Processes, requests and the slots of Redis are interchangeable.         *)
WorkerSymmetry  == Permutations(Workers)
SlotSymmetry    == Permutations(Flows)
RequestSymmetry == SlotSymmetry \cup Permutations(Tx) \cup Permutations(Addr)
============================================================================
