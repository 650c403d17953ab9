--------------------------- MODULE RewardClients ---------------------------
(***************************************************************************)
(* What RelayRewardsService and StakingRewardsService make of the answers  *)
(* of the AO reward processes.  The processes are external: they answer a  *)
(* claim with the cumulative reward, reject it with "No rewards for", or   *)
(* the call goes wrong in one of several ways.                             *)
(***************************************************************************)
EXTENDS Integers, Functions

CONSTANT Operators    \* relay operators a hodler may stake with

(* BigNumber's NaN: what does not parse, and any sum with it.              *)
NaN == -1

Output(value) == [type |-> "output", value |-> value]
Failure(type) == [type |-> type]

-----------------------------------------------------------------------------
(* The processes (external).                                               *)

Total(m) == FoldFunction(+, 0, m)

(* The reward of a hodler, split over the operators it staked with.        *)
Splits(n) ==
    {m \in UNION {[S -> 0..n] : S \in SUBSET Operators \ {{}}} : Total(m) = n}

RelayAnswers(n)   == IF n = 0 THEN {Failure("noRewards")} ELSE {Output(n)}
StakingAnswers(n) == IF n = 0 THEN {Failure("noRewards")} ELSE {Output(m) : m \in Splits(n)}

(* Another assert of the process, the network, or an answer that is not    *)
(* what it should be: none at all, text, or a map with text in it.         *)
Failures       == {Failure("rejected"), Failure("exception"), Failure("null")}
RelayFailures  == Failures \cup {Output(NaN)}
StakingFailures ==
    Failures \cup {Output(m) : m \in {n \in [Operators -> {0, NaN}] : \E o \in Operators : n[o] = NaN}}

-----------------------------------------------------------------------------
(* claimRewards.  Only the process itself says that there is no reward.    *)

(* Mutant: what cannot be parsed counts as no reward.                      *)
NotClaimedUnlessRejected(answer) ==
    [amount |-> 0, noReward |-> answer.type \in {"noRewards", "null"}]

Claimed(n)         == [amount |-> IF n = NaN THEN 0 ELSE n, noReward |-> FALSE]
NotClaimed(answer) == [amount |-> 0, noReward |-> answer.type = "noRewards"]

RelayClaimRewards(answer) ==
    IF answer.type = "output" THEN Claimed(answer.value) ELSE NotClaimed(answer)

(* The caller wants one total.                                             *)
TotalRewards(m) ==
    IF \E o \in DOMAIN m : m[o] = NaN THEN NaN ELSE Total(m)

StakingClaimRewards(answer) ==
    IF answer.type = "output" THEN Claimed(TotalRewards(answer.value)) ELSE NotClaimed(answer)


=============================================================================
