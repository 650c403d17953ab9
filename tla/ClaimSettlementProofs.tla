---------------------- MODULE ClaimSettlementProofs ----------------------
(***************************************************************************)
(* What is proved about the claims of the Hodler mode: type correctness,   *)
(* that no address is paid more than it earned, that settling claims       *)
(* implements the abstract Payout, and that a request which is closed      *)
(* without being paid had nothing to claim.                                *)
(***************************************************************************)
EXTENDS ClaimSettlement, SequenceTheorems, TLAPS

LEMMA TotalsType ==
    /\ "relay" \in Kinds /\ "staking" \in Kinds
    /\ Zero \in Totals
    /\ \A t \in Totals : Sum(t) \in Nat
BY DEF Kinds, Totals, Zero, Sum

LEMMA NoClaimType ==
    /\ NoClaim \in Claim /\ NoClaim.totals = Zero /\ NoClaim.noReward = FALSE
    /\ NoRecovery \in [addr : Addr, totals : Totals, retries : Nat]
    /\ NoRecovery.totals = Zero
<1>1. (CHOOSE a \in Addr : TRUE) \in Addr
  BY ClaimAssumption
<1>2. QED
  BY <1>1, TotalsType DEF NoClaim, NoRecovery, Claim

LEMMA NoJobType == NoJob \in FlowJobs /\ NoJob \in Jobs
<1>1. PICK r \in Requests : TRUE
  BY ClaimAssumption
<1>2. <<r, "relay">> \in FlowJobs
  BY TotalsType DEF FlowJobs
<1>3. QED
  BY <1>2 DEF NoJob, Jobs

LEMMA TransactionForType ==
    ASSUME NEW wallet \in Wallets, NEW c \in Claim, NEW w \in Workers
    PROVE  /\ TransactionFor(wallet, c, w) \in Transaction
           /\ TransactionFor(wallet, c, w).claim.totals \in {c.totals, Zero}
           /\ TransactionFor(wallet, c, w).claim.totals = c.totals =>
                 c.totals = Zero \/ TransactionFor(wallet, c, w).claim.addr = c.addr
<1>1. CASE wallet = "rewardsPool"
  BY <1>1, NoClaimType DEF TransactionFor, Transaction, Claim
<1>2. CASE wallet # "rewardsPool"
  BY <1>2 DEF TransactionFor, Transaction, Claim
<1>3. QED  BY <1>1, <1>2

LEMMA RaisedType ==
    ASSUME TypeOK, NEW c \in Claim
    PROVE  /\ Raised(c) \in Totals
           /\ Transfer(c) \in Int
           /\ \A k \in Kinds : paid[c.addr][k] <= Raised(c)[k]
           /\ \A k \in Kinds : Raised(c)[k] \in {c.totals[k], paid[c.addr][k]}
<1>1. paid[c.addr] \in Totals /\ c.totals \in Totals
  BY DEF TypeOK, Claim
<1>2. \A x, y \in Nat : Higher(x, y) \in Nat /\ y <= Higher(x, y) /\ Higher(x, y) \in {x, y}
  BY DEF Higher
<1>3. /\ Raised(c) \in Totals
      /\ \A k \in Kinds : paid[c.addr][k] <= Raised(c)[k]
      /\ \A k \in Kinds : Raised(c)[k] \in {c.totals[k], paid[c.addr][k]}
  BY <1>1, <1>2 DEF Raised, Totals
<1>4. QED
  BY <1>1, <1>3, TotalsType DEF Transfer

(* Transactions nobody waits for any more are still the same ones.         *)
LEMMA AbandonedType ==
    ASSUME TypeOK, NEW w \in Workers
    PROVE  /\ Abandoned(w) \in [Wallets -> Seq(Transaction)]
           /\ \A x \in Wallets :
                 /\ Len(Abandoned(w)[x]) = Len(mempool[x])
                 /\ \A i \in 1..Len(mempool[x]) :
                       Abandoned(w)[x][i].claim = mempool[x][i].claim
<1>1. SUFFICES ASSUME NEW x \in Wallets
               PROVE  /\ Abandoned(w)[x] \in Seq(Transaction)
                      /\ Len(Abandoned(w)[x]) = Len(mempool[x])
                      /\ \A i \in 1..Len(mempool[x]) :
                            Abandoned(w)[x][i].claim = mempool[x][i].claim
  BY DEF Abandoned
<1> DEFINE s == mempool[x]
           t == Abandoned(w)[x]
<1>2. s \in Seq(Transaction) /\ Len(s) \in Nat /\ DOMAIN s = 1..Len(s)
  BY DEF TypeOK
<1>3. \A i \in 1..Len(s) : s[i] \in Transaction
  BY <1>2
<1>4. /\ DOMAIN t = 1..Len(s)
      /\ \A i \in 1..Len(s) :
            t[i] = IF s[i].by = w THEN [s[i] EXCEPT !.by = NoWorker] ELSE s[i]
  BY <1>2 DEF Abandoned
<1>5. \A i \in 1..Len(s) : t[i] \in Transaction /\ t[i].claim = s[i].claim
  BY <1>3, <1>4 DEF Transaction
<1>6. t = [i \in 1..Len(s) |-> t[i]]
  BY <1>2 DEF Abandoned
<1>7. t \in [1..Len(s) -> Transaction]
  BY <1>5, <1>6
<1>8. t \in Seq(Transaction)
  BY <1>2, <1>7, SeqDef
<1>9. Len(t) = Len(s)
  BY <1>2, <1>4, <1>8, LenProperties
<1>10. QED
  BY <1>5, <1>8, <1>9

LEMMA NoReadType == NoRead \in Read
BY DEF NoRead, Read

(* What a service makes of the answers of its process: the reward, or      *)
(* nothing; and "no reward" only when there is none.                       *)
LEMMA RelayReadsFacts ==
    ASSUME NEW n \in Nat, NEW v \in RelayReads(n)
    PROVE  v \in Read /\ v.amount <= n /\ (v.noReward => n = 0)
<1>1. PICK answer \in Clients!RelayAnswers(n) \cup Clients!RelayFailures :
          v = Clients!RelayClaimRewards(answer)
  BY DEF RelayReads
<1>2. CASE answer = Clients!Output(n)
  BY <1>1, <1>2
  DEF Read, Clients!Output, Clients!RelayClaimRewards, Clients!Claimed, Clients!NaN
<1>3. CASE answer = Clients!Failure("noRewards") /\ n = 0
  BY <1>1, <1>3
  DEF Read, Clients!Failure, Clients!RelayClaimRewards, Clients!NotClaimed
<1>4. CASE answer \in Clients!Failures
  <2>1. /\ v = Clients!NotClaimed(answer)
        /\ answer.type \notin {"output", "noRewards"}
    BY <1>1, <1>4 DEF Clients!Failures, Clients!Failure, Clients!RelayClaimRewards
  <2>2. v = [amount |-> 0, noReward |-> FALSE]
    BY <2>1 DEF Clients!NotClaimed
  <2>3. QED
    BY <2>2 DEF Read
<1>5. CASE answer = Clients!Output(Clients!NaN)
  BY <1>1, <1>5
  DEF Read, Clients!Output, Clients!RelayClaimRewards, Clients!Claimed, Clients!NaN
<1>6. QED
  BY <1>1, <1>2, <1>3, <1>4, <1>5 DEF Clients!RelayAnswers, Clients!RelayFailures

LEMMA StakingReadsFacts ==
    ASSUME NEW n \in Nat, NEW v \in StakingReads(n)
    PROVE  v \in Read /\ v.amount <= n /\ (v.noReward => n = 0)
<1>1. PICK answer \in Clients!StakingAnswers(n) \cup Clients!StakingFailures :
          v = Clients!StakingClaimRewards(answer)
  BY DEF StakingReads
<1>2. ASSUME NEW m \in Clients!Splits(n), answer = Clients!Output(m)
      PROVE  v \in Read /\ v.amount <= n /\ (v.noReward => n = 0)
  <2>1. Clients!Total(m) = n /\ \A o \in DOMAIN m : m[o] \in 0..n
    BY DEF Clients!Splits
  <2>2. Clients!TotalRewards(m) = n
    BY <2>1 DEF Clients!TotalRewards, Clients!NaN
  <2>3. QED
    BY <1>1, <1>2, <2>2
    DEF Read, Clients!Output, Clients!StakingClaimRewards, Clients!Claimed, Clients!NaN
<1>3. CASE answer = Clients!Failure("noRewards") /\ n = 0
  BY <1>1, <1>3
  DEF Read, Clients!Failure, Clients!StakingClaimRewards, Clients!NotClaimed
<1>4. CASE answer \in Clients!Failures
  <2>1. /\ v = Clients!NotClaimed(answer)
        /\ answer.type \notin {"output", "noRewards"}
    BY <1>1, <1>4 DEF Clients!Failures, Clients!Failure, Clients!StakingClaimRewards
  <2>2. v = [amount |-> 0, noReward |-> FALSE]
    BY <2>1 DEF Clients!NotClaimed
  <2>3. QED
    BY <2>2 DEF Read
<1>5. ASSUME NEW m \in [Operators -> {0, Clients!NaN}],
             \E o \in Operators : m[o] = Clients!NaN, answer = Clients!Output(m)
      PROVE  v \in Read /\ v.amount <= n /\ (v.noReward => n = 0)
  <2>1. Clients!TotalRewards(m) = Clients!NaN
    BY <1>5 DEF Clients!TotalRewards
  <2>2. QED
    BY <1>1, <1>5, <2>1
    DEF Read, Clients!Output, Clients!StakingClaimRewards, Clients!Claimed
<1>6. QED
  BY <1>1, <1>2, <1>3, <1>4, <1>5 DEF Clients!StakingAnswers, Clients!StakingFailures

LEMMA ReadOutcomesFacts ==
    ASSUME TypeOK, NEW r \in Requests, NEW k \in Kinds, NEW v \in ReadOutcomes(Account[r], k)
    PROVE  /\ v \in Read
           /\ v.amount <= owed[Account[r]][k]
           /\ v.noReward => owed[Account[r]][k] = 0
<1>1. owed[Account[r]][k] \in Nat
  BY ClaimAssumption DEF TypeOK, Totals
<1>2. QED
  BY <1>1, RelayReadsFacts, StakingReadsFacts DEF ReadOutcomes

LEMMA ReleaseType ==
    ASSUME TypeOK, NEW j \in Jobs, Release(j)
    PROVE  /\ state' \in [Jobs -> {"none", "blocked", "waiting", "active", "failed"}]
           /\ owner' \in [Jobs -> Workers \cup {NoWorker}]
           /\ stalls' \in [Jobs -> Nat]
<1>1. \A i \in Jobs : Completed(j)[i] \in {"none", "waiting", state[i]}
  BY DEF Completed
<1>2. state' \in [Jobs -> {"none", "blocked", "waiting", "active", "failed"}]
  BY <1>1 DEF TypeOK, Release, Completed
<1>3. QED
  BY <1>2 DEF TypeOK, Release

(* Every step keeps the state well typed.                                  *)
LEMMA TypeStep == TypeOK /\ [Next]_vars => TypeOK'
<1> SUFFICES ASSUME TypeOK, [Next]_vars
             PROVE  TypeOK'
  OBVIOUS
<1> USE ClaimAssumption
<1>1. ASSUME NEW a \in Addr, NEW k \in Kinds, Accrue(a, k)
      PROVE  TypeOK'
  <2>1. owed' \in [Addr -> Totals]
    BY <1>1 DEF TypeOK, Accrue, Totals
  <2>2. QED
    BY <1>1, <2>1 DEF TypeOK, Accrue, contract, network, mongo, redis, jobs, local
<1>2. ASSUME NEW r \in Requests, Request(r)
      PROVE  TypeOK'
  BY <1>2 DEF TypeOK, Request, contract, network, redis, jobs, local
<1>3. ASSUME NEW r \in Requests, Discover(r)
      PROVE  TypeOK'
  BY <1>3 DEF TypeOK, Discover, contract, network, redis, jobs, local
<1>4. ASSUME NEW r \in Requests, DiscoverPaid(r)
      PROVE  TypeOK'
  BY <1>4 DEF TypeOK, DiscoverPaid, contract, network, redis, jobs, local
<1>5. CASE ApproveLands
  <2> DEFINE t == Head(mempool["rewardsPool"])
  <2>1. /\ t \in Transaction
        /\ mempool' \in [Wallets -> Seq(Transaction)]
    BY <1>5 DEF TypeOK, ApproveLands, Wallets
  <2>2. allowance' \in Int
    BY <1>5, <2>1 DEF ApproveLands, Transaction, Claim
  <2>3. receipt' \in [Workers -> {"none", "mined", "reverted"}]
    BY <1>5 DEF TypeOK, ApproveLands, Receipt
  <2>4. unbooked' \in Nat
    BY <1>5 DEF TypeOK, ApproveLands, Mined
  <2>5. QED
    BY <1>5, <2>1, <2>2, <2>3, <2>4 DEF TypeOK, ApproveLands, mongo, redis, jobs
<1>6. CASE RewardLands
  <2> DEFINE t == Head(mempool["hodlerOperator"])
             c == t.claim
  <2>1. /\ t \in Transaction
        /\ mempool' \in [Wallets -> Seq(Transaction)]
    BY <1>6 DEF TypeOK, RewardLands, Wallets
  <2>2. c \in Claim
    BY <2>1 DEF Transaction
  <2>3. paid' \in [Addr -> Totals] /\ allowance' \in Int
    <3>1. CASE /\ paid' = [paid EXCEPT ![c.addr] = Raised(c)]
               /\ allowance' = allowance - Transfer(c)
      <4>1. Raised(c) \in Totals /\ Transfer(c) \in Int
        BY <2>2, RaisedType
      <4>2. c.addr \in Addr
        BY <2>2 DEF Claim
      <4>3. QED
        BY <3>1, <4>1, <4>2 DEF TypeOK
    <3>2. CASE UNCHANGED contract
      BY <3>2 DEF TypeOK, contract
    <3>3. QED
      BY <1>6, <3>1, <3>2 DEF RewardLands
  <2>4. receipt' \in [Workers -> {"none", "mined", "reverted"}] /\ unpaid' \subseteq Requests
    BY <1>6 DEF TypeOK, RewardLands, Receipt
  <2>5. unbooked' \in Nat
    BY <1>6 DEF TypeOK, RewardLands, Mined
  <2>6. QED
    BY <1>6, <2>1, <2>3, <2>4, <2>5 DEF TypeOK, RewardLands, mongo, redis, jobs
<1>7. ASSUME NEW t \in hung, HungSends(t)
      PROVE  TypeOK'
  <2>1. t.wallet \in Wallets /\ [t EXCEPT !.by = NoWorker] \in Transaction
    BY DEF TypeOK, Transaction
  <2>2. mempool' \in [Wallets -> Seq(Transaction)]
    BY <1>7, <2>1 DEF TypeOK, HungSends
  <2>3. QED
    BY <1>7, <2>2 DEF TypeOK, HungSends, contract, mongo, redis, jobs, local
<1>8. ASSUME NEW t \in hung, HungDies(t)
      PROVE  TypeOK'
  BY <1>8 DEF TypeOK, HungDies, contract, mongo, redis, jobs, local
<1>9. ASSUME NEW r \in Requests, EnqueueUpdateRewards(r)
      PROVE  TypeOK'
  <2>1. state' \in [Jobs -> {"none", "blocked", "waiting", "active", "failed"}]
    BY <1>9 DEF TypeOK, EnqueueUpdateRewards
  <2>2. duplicates' \in Nat
    BY <1>9 DEF TypeOK, EnqueueUpdateRewards
  <2>3. QED
    BY <1>9, <2>1, <2>2 DEF TypeOK, EnqueueUpdateRewards, contract, network, mongo, local
<1>10. ASSUME NEW j \in Jobs, JobStalls(j)
      PROVE  TypeOK'
  <2>1. /\ state' \in [Jobs -> {"none", "blocked", "waiting", "active", "failed"}]
        /\ stalls' \in [Jobs -> Nat]
    <3>1. PICK x \in {"waiting", "none", "failed"} : state' = [state EXCEPT ![j] = x]
      BY <1>10 DEF JobStalls
    <3>2. stalls[j] \in Nat
      BY DEF TypeOK
    <3>3. PICK y \in Nat : stalls' = [stalls EXCEPT ![j] = y]
      BY <1>10, <3>2 DEF JobStalls
    <3>4. QED
      BY <3>1, <3>3 DEF TypeOK
  <2>2. recovery' \in [Slots -> [addr : Addr, totals : Totals, retries : Nat]]
    <3>1. CASE recovery' = recovery
      BY <3>1 DEF TypeOK
    <3>2. CASE recovery' = [s \in Slots |-> IF s = j THEN NoRecovery ELSE recovery[s]]
      BY <3>2, NoClaimType DEF TypeOK
    <3>3. QED
      BY <1>10, <3>1, <3>2 DEF JobStalls
  <2>3. owner' \in [Jobs -> Workers \cup {NoWorker}]
    BY <1>10 DEF TypeOK, JobStalls
  <2>4. upsets' \in Nat
    BY <1>10 DEF TypeOK, JobStalls
  <2>5. QED
    BY <1>10, <2>1, <2>2, <2>3, <2>4 DEF TypeOK, JobStalls, contract, network, mongo, local
<1>11. ASSUME NEW w \in Workers, NEW j \in Jobs, Take(w, j)
      PROVE  TypeOK'
  <2>1. claim' \in [Workers -> Claim]
    <3>1. CASE j \in Slots /\ claim' = [claim EXCEPT ![w] =
             [NoClaim EXCEPT !.addr = recovery[j].addr, !.totals = recovery[j].totals]]
      BY <3>1, NoClaimType DEF TypeOK, Claim
    <3>2. ASSUME NEW r \in Requests,
                 claim' = [claim EXCEPT ![w] =
                    [NoClaim EXCEPT !.addr = Account[r], !.totals = SumPerKind(r),
                                    !.noReward = AllNoReward(r)]]
          PROVE  claim' \in [Workers -> Claim]
      <4>1. SumPerKind(r) \in Totals
        BY DEF TypeOK, SumPerKind, Totals, Read
      <4>2. AllNoReward(r) \in BOOLEAN
        BY DEF AllNoReward
      <4>3. QED
        BY <3>2, <4>1, <4>2, NoClaimType DEF TypeOK, Claim
    <3>3. CASE claim' = claim
      BY <3>3 DEF TypeOK
    <3>4. QED
      BY <1>11, <3>1, <3>2, <3>3 DEF Take
  <2>2. pc' \in [Workers -> Steps]
    BY <1>11 DEF TypeOK, Take, Steps
  <2>3. QED
    BY <1>11, <2>1, <2>2 DEF TypeOK, Take, contract, network, mongo
<1>12. ASSUME NEW w \in Workers, ClaimRewards(w)
      PROVE  TypeOK'
  <2>1. reads' \in [Requests -> [Kinds -> Read]]
    <3>1. ASSUME NEW r \in Requests, NEW k \in Kinds, NEW v \in ReadOutcomes(Account[r], k)
          PROVE  v \in Read
      BY ReadOutcomesFacts
    <3>2. CASE owner[job[w]] # w
      BY <1>12, <3>2 DEF TypeOK, ClaimRewards
    <3>3. CASE owner[job[w]] = w
      <4>1. PICK r \in Requests, k \in Kinds : \E v \in ReadOutcomes(Account[r], k) :
                  reads' = [reads EXCEPT ![r][k] = v]
        BY <1>12, <3>3 DEF ClaimRewards
      <4>2. QED
        BY <3>1, <4>1 DEF TypeOK
    <3>4. QED
      BY <3>2, <3>3
  <2>2. /\ pc' \in [Workers -> Steps] /\ job' \in [Workers -> Jobs]
        /\ claim' \in [Workers -> Claim]
    BY <1>12, NoJobType, NoClaimType DEF TypeOK, ClaimRewards, Returns, Steps
  <2>3. /\ state' \in [Jobs -> {"none", "blocked", "waiting", "active", "failed"}]
        /\ owner' \in [Jobs -> Workers \cup {NoWorker}] /\ stalls' \in [Jobs -> Nat]
    <3>1. CASE owner[job[w]] # w
      BY <1>12, <3>1 DEF TypeOK, ClaimRewards
    <3>2. CASE Release(job[w])
      BY <3>2, ReleaseType DEF TypeOK
    <3>3. QED
      BY <1>12, <3>1, <3>2 DEF ClaimRewards
  <2>4. QED
    BY <1>12, <2>1, <2>2, <2>3 DEF TypeOK, ClaimRewards, contract, network, mongo
<1>13. ASSUME NEW w \in Workers, FinishJob(w)
      PROVE  TypeOK'
  <2>1. reads' \in [Requests -> [Kinds -> Read]]
    <3>1. CASE owner[job[w]] # w
      BY <1>13, <3>1 DEF TypeOK, FinishJob
    <3>2. CASE reads' = [r \in Requests |-> IF job[w] = <<r, "update">>
                                            THEN [k \in Kinds |-> NoRead] ELSE reads[r]]
      BY <3>2 DEF TypeOK, Read, NoRead
    <3>3. QED
      BY <1>13, <3>1, <3>2 DEF FinishJob
  <2>2. recovery' \in [Slots -> [addr : Addr, totals : Totals, retries : Nat]]
    <3>1. CASE owner[job[w]] # w
      BY <1>13, <3>1 DEF TypeOK, FinishJob
    <3>2. CASE recovery' = [s \in Slots |-> IF s = job[w] THEN NoRecovery ELSE recovery[s]]
      BY <3>2, NoClaimType DEF TypeOK
    <3>3. QED
      BY <1>13, <3>1, <3>2 DEF FinishJob
  <2>3. /\ pc' \in [Workers -> Steps] /\ job' \in [Workers -> Jobs]
        /\ claim' \in [Workers -> Claim]
    BY <1>13, NoJobType, NoClaimType DEF TypeOK, FinishJob, Returns, Steps
  <2>4. /\ state' \in [Jobs -> {"none", "blocked", "waiting", "active", "failed"}]
        /\ owner' \in [Jobs -> Workers \cup {NoWorker}] /\ stalls' \in [Jobs -> Nat]
    <3>1. CASE owner[job[w]] # w
      BY <1>13, <3>1 DEF TypeOK, FinishJob
    <3>2. CASE Release(job[w])
      BY <3>2, ReleaseType DEF TypeOK
    <3>3. QED
      BY <1>13, <3>1, <3>2 DEF FinishJob
  <2>5. QED
    BY <1>13, <2>1, <2>2, <2>3, <2>4 DEF TypeOK, FinishJob, contract, network, mongo
<1>14. ASSUME NEW w \in Workers, RetireRequest(w)
      PROVE  TypeOK'
  BY <1>14 DEF TypeOK, RetireRequest, Goto, Steps, contract, network, redis, jobs
<1>15. ASSUME NEW w \in Workers, LeaveRequest(w)
      PROVE  TypeOK'
  BY <1>15 DEF TypeOK, LeaveRequest, Goto, Steps, contract, network, mongo, redis, jobs
<1>16. ASSUME NEW w \in Workers, ReadHodler(w)
      PROVE  TypeOK'
  <2>1. claim[w] \in Claim /\ Due(claim[w]) \in Int
    BY TotalsType DEF TypeOK, Claim, Due
  <2>2. claim' \in [Workers -> Claim] /\ pc' \in [Workers -> Steps]
    <3>1. CASE Due(claim[w]) <= 0
      BY <1>16, <3>1 DEF TypeOK, ReadHodler, Goto, Steps
    <3>2. CASE claim' = [claim EXCEPT ![w].amount = Due(claim[w])] /\ Goto(w, "approve")
      BY <2>1, <3>2 DEF TypeOK, Goto, Steps, Claim
    <3>3. QED
      BY <1>16, <3>1, <3>2 DEF ReadHodler
  <2>3. QED
    BY <1>16, <2>2 DEF TypeOK, ReadHodler, contract, network, mongo, redis, jobs
<1>17. ASSUME NEW w \in Workers, SendApprove(w)
      PROVE  TypeOK'
  <2>1. ASSUME NEW x \in Wallets, NEW step \in Steps, Send(x, w, step)
        PROVE  /\ mempool' \in [Wallets -> Seq(Transaction)]
               /\ pc' \in [Workers -> Steps]
               /\ hung' = hung /\ receipt' = receipt
    <3>1. TransactionFor(x, claim[w], w) \in Transaction
      BY TransactionForType DEF TypeOK
    <3>2. QED
      BY <2>1, <3>1 DEF TypeOK, Send, Goto
  <2>2. QED
    BY <1>17, <2>1 DEF TypeOK, SendApprove, contract, mongo, redis, jobs, Wallets, Steps
<1>18. ASSUME NEW w \in Workers, SendReward(w)
      PROVE  TypeOK'
  <2>1. ASSUME NEW x \in Wallets, NEW step \in Steps, Send(x, w, step)
        PROVE  /\ mempool' \in [Wallets -> Seq(Transaction)]
               /\ pc' \in [Workers -> Steps]
               /\ hung' = hung /\ receipt' = receipt
    <3>1. TransactionFor(x, claim[w], w) \in Transaction
      BY TransactionForType DEF TypeOK
    <3>2. QED
      BY <2>1, <3>1 DEF TypeOK, Send, Goto
  <2>2. CASE Send("hodlerOperator", w, "rewarding")
    BY <1>18, <2>1, <2>2 DEF TypeOK, SendReward, Wallets, Steps, contract, mongo, redis, jobs
  <2>3. CASE \E step \in {"done", "failed"} : Goto(w, step) /\ UNCHANGED <<network, receipt>>
    BY <1>18, <2>3 DEF TypeOK, SendReward, contract, network, mongo, redis, jobs, Goto, Steps
  <2>4. QED
    BY <1>18, <2>2, <2>3 DEF SendReward
<1>19. ASSUME NEW w \in Workers, ReceiptArrives(w)
      PROVE  TypeOK'
  BY <1>19 DEF TypeOK, ReceiptArrives, Goto, Steps, contract, network, mongo, redis, jobs
<1>20. ASSUME NEW w \in Workers, RebalanceRewardGas(w)
      PROVE  TypeOK'
  BY <1>20 DEF TypeOK, RebalanceRewardGas, Goto, Steps, contract, network, mongo, redis, jobs
<1>21. ASSUME NEW w \in Workers, RecoverReward(w)
      PROVE  TypeOK'
  <2>1. ASSUME NEW retries \in Nat, Adds(w, retries)
        PROVE  /\ state' \in [Jobs -> {"none", "blocked", "waiting", "active", "failed"}]
               /\ recovery' \in [Slots -> [addr : Addr, totals : Totals, retries : Nat]]
    BY <2>1 DEF TypeOK, Adds, Claim, Jobs
  <2>2. QED
    BY <1>21, <2>1 DEF TypeOK, RecoverReward, AddLost, Goto, Steps, contract, network, mongo
<1>22. ASSUME NEW w \in Workers, RetryReward(w)
      PROVE  TypeOK'
  <2>1. ASSUME NEW retries \in Nat, Adds(w, retries)
        PROVE  /\ state' \in [Jobs -> {"none", "blocked", "waiting", "active", "failed"}]
               /\ recovery' \in [Slots -> [addr : Addr, totals : Totals, retries : Nat]]
    BY <2>1 DEF TypeOK, Adds, Claim, Jobs
  <2>2. CASE recovery[job[w]].retries > 1
    <3>1. RetriesLeft(w) \in Nat
      BY <1>22, <2>2 DEF TypeOK, RetryReward, RetriesLeft
    <3>2. QED
      BY <1>22, <2>1, <2>2, <3>1 DEF TypeOK, RetryReward, AddLost, Goto, Steps, contract, network, mongo
  <2>3. CASE ~(recovery[job[w]].retries > 1)
    BY <1>22, <2>3 DEF TypeOK, RetryReward, Goto, Steps, contract, network, mongo
  <2>4. QED
    BY <2>2, <2>3
<1>23. ASSUME NEW w \in Workers, CallFails(w)
      PROVE  TypeOK'
  BY <1>23 DEF TypeOK, CallFails, Goto, Steps, contract, network, mongo, redis, jobs
<1>24. ASSUME NEW w \in Workers, SendTimesOut(w)
      PROVE  TypeOK'
  <2>1. \A x \in Wallets : TransactionFor(x, claim[w], w) \in Transaction
    BY TransactionForType DEF TypeOK
  <2>2. hung' \subseteq Transaction
    BY <1>24, <2>1 DEF TypeOK, SendTimesOut, Wallets
  <2>3. QED
    BY <1>24, <2>2 DEF TypeOK, SendTimesOut, Goto, Steps, contract, mongo, redis, jobs
<1>25. ASSUME NEW w \in Workers, ReceiptTimesOut(w)
      PROVE  TypeOK'
  BY <1>25, AbandonedType DEF TypeOK, ReceiptTimesOut, Goto, Steps, contract, mongo, redis, jobs
<1>26. ASSUME NEW w \in Workers, StartLeading(w)
      PROVE  TypeOK'
  <2>1. CASE DoClean
    <3>1. reads' \in [Requests -> [Kinds -> Read]]
      BY <1>26, <2>1, NoReadType DEF StartLeading
    <3>2. recovery' \in [Slots -> [addr : Addr, totals : Totals, retries : Nat]]
      BY <1>26, <2>1, NoClaimType DEF StartLeading
    <3>3. QED
      BY <1>26, <2>1, <3>1, <3>2 DEF TypeOK, StartLeading, Goto, Steps, contract, network, mongo
  <2>2. CASE ~DoClean
    BY <1>26, <2>2 DEF TypeOK, StartLeading, Goto, Steps, contract, network, mongo, jobs
  <2>3. QED
    BY <2>1, <2>2
<1>27. ASSUME NEW w \in Workers, StartStandby(w)
      PROVE  TypeOK'
  BY <1>27 DEF TypeOK, StartStandby, Goto, Steps, contract, network, mongo, redis, jobs
<1>28. ASSUME NEW w \in Workers, Elect(w)
      PROVE  TypeOK'
  BY <1>28 DEF TypeOK, Elect, contract, network, mongo, redis, jobs, local
<1>29. ASSUME NEW w \in Workers, Crash(w)
      PROVE  TypeOK'
  <2>1. mempool' \in [Wallets -> Seq(Transaction)] /\ hung' \subseteq Transaction
    BY <1>29, AbandonedType DEF TypeOK, Crash
  <2>2. owner' \in [Jobs -> Workers \cup {NoWorker}]
    BY <1>29 DEF TypeOK, Crash
  <2>3. job' \in [Workers -> Jobs] /\ claim' \in [Workers -> Claim]
    BY <1>29, NoJobType, NoClaimType DEF TypeOK, Crash
  <2>4. pc' \in [Workers -> Steps] /\ receipt' \in [Workers -> {"none", "mined", "reverted"}]
    BY <1>29 DEF TypeOK, Crash, Steps
  <2>5. leading' \subseteq Workers /\ upsets' \in Nat
    BY <1>29 DEF TypeOK, Crash
  <2>6. QED
    BY <1>29, <2>1, <2>2, <2>3, <2>4, <2>5 DEF TypeOK, Crash, contract, mongo
<1>30. ASSUME NEW w \in Workers, Demote(w)
      PROVE  TypeOK'
  BY <1>30 DEF TypeOK, Demote, contract, network, mongo, redis, jobs, local
<1>31. CASE UNCHANGED vars
  BY <1>31 DEF TypeOK, vars, contract, network, mongo, redis, jobs, local
<1>32. QED
  BY <1>1, <1>2, <1>3, <1>4, <1>5, <1>6, <1>7, <1>8, <1>9, <1>10, <1>11, <1>12, <1>13,
     <1>14, <1>15, <1>16, <1>17, <1>18, <1>19, <1>20, <1>21, <1>22, <1>23, <1>24, <1>25,
     <1>26, <1>27, <1>28, <1>29, <1>30, <1>31
  DEF Next, Environment, Settle, Faulty, Process

LEMMA TypeInit == Init => TypeOK
<1> SUFFICES ASSUME Init
             PROVE  TypeOK
  OBVIOUS
<1>1. owed \in [Addr -> Totals]
  BY ClaimAssumption DEF Init, Totals
<1>2. reads \in [Requests -> [Kinds -> Read]]
  BY DEF Init, Read, NoRead
<1>3. mempool \in [Wallets -> Seq(Transaction)]
  BY DEF Init
<1>4. QED
  BY <1>1, <1>2, <1>3, TotalsType, NoClaimType, NoJobType DEF Init, TypeOK, Steps

(* Every variable keeps the type the code gives it, in every reachable     *)
(* state: the claims, the mempool and the jobs of the hodler updates queue.*)
THEOREM TypeCorrect == Spec => []TypeOK
<1>1. QED
  BY TypeInit, TypeStep, PTL DEF Spec

-----------------------------------------------------------------------------
(* Money.  NeverOverpaid is not inductive: what a claim, a transaction, a  *)
(* recovery job or a read holds is paid later.  None of them holds more    *)
(* than its address is owed, which only grows.                             *)

Backed(a, totals) == \A k \in Kinds : totals[k] <= owed[a][k]

ReadsBacked == \A r \in Requests, k \in Kinds : reads[r][k].amount <= owed[Account[r]][k]
JobsBacked  == \A s \in Slots : Backed(recovery[s].addr, recovery[s].totals)
ClaimBacked == \A w \in Workers : Backed(claim[w].addr, claim[w].totals)
HungBacked  == \A t \in hung : Backed(t.claim.addr, t.claim.totals)
PoolBacked  == \A x \in Wallets : \A i \in 1..Len(mempool[x]) :
                   Backed(mempool[x][i].claim.addr, mempool[x][i].claim.totals)

Backing ==
    /\ NeverOverpaid
    /\ ReadsBacked /\ JobsBacked /\ ClaimBacked /\ HungBacked /\ PoolBacked

(* A claim of nothing is backed, and so is what is sent for a backed one.  *)
LEMMA ZeroBacked == TypeOK => \A a \in Addr : Backed(a, Zero)
BY DEF TypeOK, Totals, Backed, Zero

LEMMA SentBacked ==
    ASSUME TypeOK, NEW wallet \in Wallets, NEW w \in Workers, ClaimBacked
    PROVE  LET t == TransactionFor(wallet, claim[w], w)
           IN  t \in Transaction /\ Backed(t.claim.addr, t.claim.totals)
<1> DEFINE t == TransactionFor(wallet, claim[w], w)
<1>1. claim[w] \in Claim
  BY DEF TypeOK
<1>2. t \in Transaction
  BY <1>1, TransactionForType
<1>3. t.claim.addr \in Addr
  BY <1>2 DEF Transaction, Claim
<1>4. CASE wallet = "rewardsPool"
  <2>1. t.claim.totals = Zero
    BY <1>4, NoClaimType DEF TransactionFor, Claim
  <2>2. QED
    BY <1>2, <1>3, <2>1, ZeroBacked
<1>5. CASE wallet # "rewardsPool"
  <2>1. t.claim.totals = claim[w].totals /\ t.claim.addr = claim[w].addr
    BY <1>1, <1>5 DEF TransactionFor, Claim
  <2>2. QED
    BY <1>2, <2>1 DEF ClaimBacked
<1>6. QED
  BY <1>4, <1>5

(* A transaction added to a mempool of backed ones.                        *)
LEMMA AppendBacked ==
    ASSUME TypeOK, PoolBacked, NEW x \in Wallets, NEW t \in Transaction,
           Backed(t.claim.addr, t.claim.totals), UNCHANGED owed,
           mempool' = [mempool EXCEPT ![x] = Append(@, t)]
    PROVE  PoolBacked'
<1>1. SUFFICES ASSUME NEW y \in Wallets, NEW i \in 1..Len(mempool'[y])
               PROVE  Backed(mempool'[y][i].claim.addr, mempool'[y][i].claim.totals)
  BY DEF PoolBacked, Backed
<1>2. mempool[y] \in Seq(Transaction) /\ mempool[x] \in Seq(Transaction)
  BY DEF TypeOK
<1>3. CASE y # x
  <2>1. mempool'[y] = mempool[y]
    BY <1>3 DEF TypeOK
  <2>2. QED
    BY <2>1 DEF PoolBacked
<1>4. CASE y = x
  <2>1. mempool'[y] = Append(mempool[y], t)
    BY <1>4 DEF TypeOK
  <2>2. /\ i \in 1..(Len(mempool[y]) + 1)
        /\ mempool'[y][i] = IF i <= Len(mempool[y]) THEN mempool[y][i] ELSE t
    BY <1>2, <2>1
  <2>3. CASE i <= Len(mempool[y])
    BY <1>2, <2>2, <2>3 DEF PoolBacked
  <2>4. CASE ~(i <= Len(mempool[y]))
    BY <2>2, <2>4
  <2>5. QED
    BY <2>3, <2>4
<1>5. QED
  BY <1>3, <1>4

(* The first transaction of a mempool is taken from it.                    *)
LEMMA TailBacked ==
    ASSUME TypeOK, PoolBacked, NEW x \in Wallets, mempool[x] # <<>>, UNCHANGED owed,
           mempool' = [mempool EXCEPT ![x] = Tail(@)]
    PROVE  /\ PoolBacked'
           /\ Backed(Head(mempool[x]).claim.addr, Head(mempool[x]).claim.totals)
<1>1. \A y \in Wallets : mempool[y] \in Seq(Transaction)
  BY DEF TypeOK
<1>2. ASSUME NEW y \in Wallets, NEW i \in 1..Len(mempool'[y])
      PROVE  Backed(mempool'[y][i].claim.addr, mempool'[y][i].claim.totals)
  <2>1. CASE y # x
    <3>1. mempool'[y] = mempool[y]
      BY <2>1 DEF TypeOK
    <3>2. QED
      BY <1>2, <3>1 DEF PoolBacked
  <2>2. CASE y = x
    <3>1. mempool'[y] = Tail(mempool[y])
      BY <2>2 DEF TypeOK
    <3> DEFINE q == mempool[y]
               u == mempool'[y]
    <3>2. q \in Seq(Transaction) /\ q # <<>> /\ u = Tail(q) /\ i \in 1..Len(u)
      BY <1>1, <1>2, <2>2, <3>1
    <3> HIDE DEF q, u
    <3>3. Len(Tail(q)) = Len(q) - 1 /\ \A n \in 1..Len(Tail(q)) : Tail(q)[n] = q[n + 1]
      BY <3>2, HeadTailProperties
    <3>4. i + 1 \in 1..Len(q) /\ u[i] = q[i + 1]
      BY <3>2, <3>3
    <3> USE DEF q, u
    <3>5. QED
      BY <3>4 DEF PoolBacked
  <2>3. QED
    BY <2>1, <2>2
<1>3. Head(mempool[x]) = mempool[x][1] /\ 1 \in 1..Len(mempool[x])
  BY <1>1
<1>4. Backed(Head(mempool[x]).claim.addr, Head(mempool[x]).claim.totals)
  BY <1>3 DEF PoolBacked
<1>5. PoolBacked'
  BY <1>2 DEF PoolBacked, Backed
<1>6. QED
  BY <1>4, <1>5

(* A crash or a receipt given up on changes no claim of a transaction.     *)
LEMMA AbandonedBacked ==
    ASSUME TypeOK, PoolBacked, NEW w \in Workers, UNCHANGED owed, mempool' = Abandoned(w)
    PROVE  PoolBacked'
<1>1. SUFFICES ASSUME NEW x \in Wallets, NEW i \in 1..Len(mempool'[x])
               PROVE  Backed(mempool'[x][i].claim.addr, mempool'[x][i].claim.totals)
  BY DEF PoolBacked, Backed
<1>2. i \in 1..Len(mempool[x]) /\ mempool'[x][i].claim = mempool[x][i].claim
  BY AbandonedType
<1>3. QED
  BY <1>2 DEF PoolBacked

(* What the claims hold, when they, what is owed and what is paid stay.    *)
LEMMA BackingKept ==
    ASSUME UNCHANGED owed
    PROVE  /\ NeverOverpaid /\ UNCHANGED paid => NeverOverpaid'
           /\ ReadsBacked /\ UNCHANGED reads => ReadsBacked'
           /\ JobsBacked /\ UNCHANGED recovery => JobsBacked'
           /\ ClaimBacked /\ UNCHANGED claim => ClaimBacked'
           /\ HungBacked /\ UNCHANGED hung => HungBacked'
           /\ PoolBacked /\ UNCHANGED mempool => PoolBacked'
BY DEF NeverOverpaid, ReadsBacked, JobsBacked, ClaimBacked, HungBacked, PoolBacked, Backed

(* Reads and recovery jobs are emptied, claims are dropped.                *)
LEMMA EmptiedReads ==
    ASSUME TypeOK, UNCHANGED owed, ReadsBacked,
           \A r \in Requests, k \in Kinds : reads'[r][k] \in {NoRead, reads[r][k]}
    PROVE  ReadsBacked'
<1>1. ASSUME NEW r \in Requests, NEW k \in Kinds
      PROVE  reads'[r][k].amount <= owed[Account[r]][k]
  <2>1. owed[Account[r]][k] \in Nat
    BY ClaimAssumption DEF TypeOK, Totals
  <2>2. CASE reads'[r][k] = NoRead
    BY <2>1, <2>2 DEF NoRead
  <2>3. CASE reads'[r][k] = reads[r][k]
    BY <2>3 DEF ReadsBacked
  <2>4. QED
    BY <2>2, <2>3
<1>2. QED
  BY <1>1 DEF ReadsBacked

LEMMA EmptiedJobs ==
    ASSUME TypeOK, UNCHANGED owed, JobsBacked,
           \A s \in Slots : recovery'[s] \in {NoRecovery, recovery[s]}
    PROVE  JobsBacked'
<1>1. ASSUME NEW s \in Slots
      PROVE  Backed(recovery'[s].addr, recovery'[s].totals)
  <2>1. Backed(NoRecovery.addr, NoRecovery.totals)
    BY NoClaimType, ZeroBacked
  <2>2. CASE recovery'[s] = NoRecovery
    BY <2>1, <2>2
  <2>3. CASE recovery'[s] = recovery[s]
    BY <2>3 DEF JobsBacked
  <2>4. QED
    BY <2>2, <2>3
<1>2. QED
  BY <1>1 DEF JobsBacked, Backed

LEMMA DroppedClaim ==
    ASSUME TypeOK, UNCHANGED owed, ClaimBacked,
           NEW w \in Workers, claim' = [claim EXCEPT ![w] = NoClaim]
    PROVE  ClaimBacked'
<1>1. Backed(NoClaim.addr, NoClaim.totals)
  BY NoClaimType, ZeroBacked DEF Claim
<1>2. \A v \in Workers : claim'[v] \in {NoClaim, claim[v]}
  BY DEF TypeOK
<1>3. ASSUME NEW v \in Workers
      PROVE  Backed(claim'[v].addr, claim'[v].totals)
  BY <1>1, <1>2 DEF ClaimBacked
<1>4. QED
  BY <1>3 DEF ClaimBacked, Backed

(* Every step keeps what is held backed.                                   *)
LEMMA BackingStep == TypeOK /\ Backing /\ [Next]_vars => Backing'
<1> SUFFICES ASSUME TypeOK, Backing, [Next]_vars
             PROVE  Backing'
  OBVIOUS
<1> USE ClaimAssumption
<1>1. ASSUME NEW a \in Addr, NEW k \in Kinds, Accrue(a, k)
      PROVE  Backing'
  <2>1. \A b \in Addr, x \in Kinds : owed[b][x] \in Nat /\ paid[b][x] \in Nat
    BY DEF TypeOK, Totals
  <2>2. \A b \in Addr, x \in Kinds : owed[b][x] <= owed'[b][x] /\ owed'[b][x] \in Nat
    <3>1. \A b \in Addr, x \in Kinds :
             owed'[b][x] = IF b = a /\ x = k THEN owed[b][x] + 1 ELSE owed[b][x]
      BY <1>1 DEF TypeOK, Accrue, Totals
    <3>2. QED
      BY <2>1, <3>1
  <2>3. \A b \in Addr, c \in Totals : Backed(b, c) => Backed(b, c)'
    BY <2>1, <2>2 DEF Backed, Totals
  <2>4. UNCHANGED <<paid, reads, recovery, claim, hung, mempool>>
    BY <1>1 DEF Accrue, contract, network, redis, jobs, local
  <2>5. NeverOverpaid'
    BY <2>1, <2>2, <2>4 DEF Backing, NeverOverpaid
  <2>6. ReadsBacked'
    <3>1. \A r \in Requests, x \in Kinds : reads[r][x].amount \in Nat
      BY DEF TypeOK, Read
    <3>2. \A r \in Requests : Account[r] \in Addr
      OBVIOUS
    <3>3. QED
      BY <2>1, <2>2, <2>4, <3>1, <3>2 DEF Backing, ReadsBacked
  <2>7. JobsBacked'
    BY <2>3, <2>4 DEF TypeOK, Backing, JobsBacked, Backed
  <2>8. ClaimBacked'
    BY <2>3, <2>4 DEF TypeOK, Backing, ClaimBacked, Claim, Backed
  <2>9. HungBacked'
    BY <2>3, <2>4 DEF TypeOK, Backing, HungBacked, Transaction, Claim, Backed
  <2>10. PoolBacked'
    <3>1. \A x \in Wallets : \A i \in 1..Len(mempool[x]) : mempool[x][i] \in Transaction
      BY DEF TypeOK
    <3>2. QED
      BY <2>3, <2>4, <3>1 DEF Backing, PoolBacked, Transaction, Claim, Backed
  <2>11. QED
    BY <2>5, <2>6, <2>7, <2>8, <2>9, <2>10 DEF Backing
<1>2. ASSUME NEW r \in Requests, Request(r)
      PROVE  Backing'
  BY <1>2, BackingKept DEF Backing, Request, contract, network, redis, jobs, local
<1>3. ASSUME NEW r \in Requests, Discover(r)
      PROVE  Backing'
  BY <1>3, BackingKept DEF Backing, Discover, contract, network, redis, jobs, local
<1>4. ASSUME NEW r \in Requests, DiscoverPaid(r)
      PROVE  Backing'
  BY <1>4, BackingKept DEF Backing, DiscoverPaid, contract, network, redis, jobs, local
<1>5. CASE ApproveLands
  <2>1. mempool["rewardsPool"] # <<>> /\ "rewardsPool" \in Wallets
    BY <1>5 DEF ApproveLands, Wallets
  <2>2. PoolBacked'
    BY <1>5, <2>1, TailBacked DEF Backing, ApproveLands
  <2>3. QED
    BY <1>5, <2>2, BackingKept DEF Backing, ApproveLands, redis, jobs
<1>6. CASE RewardLands
  <2> DEFINE c == Head(mempool["hodlerOperator"]).claim
  <2>1. mempool["hodlerOperator"] # <<>> /\ "hodlerOperator" \in Wallets
    BY <1>6 DEF RewardLands, Wallets
  <2>2. PoolBacked' /\ Backed(c.addr, c.totals)
    BY <1>6, <2>1, TailBacked DEF Backing, RewardLands
  <2>3. c \in Claim
    <3>1. mempool["hodlerOperator"] \in Seq(Transaction)
      BY <2>1 DEF TypeOK
    <3>2. Head(mempool["hodlerOperator"]) \in Transaction
      BY <2>1, <3>1
    <3>3. QED
      BY <3>2 DEF Transaction
  <2>4. NeverOverpaid'
    <3>1. CASE paid' = [paid EXCEPT ![c.addr] = Raised(c)]
      <4>1. \A k \in Kinds : Raised(c)[k] \in {c.totals[k], paid[c.addr][k]}
        BY <2>3, RaisedType
      <4>2. \A k \in Kinds : Raised(c)[k] <= owed[c.addr][k]
        BY <2>2, <2>3, <4>1 DEF Backed, Backing, NeverOverpaid, Claim
      <4>3. QED
        BY <1>6, <2>3, <3>1, <4>2 DEF TypeOK, RewardLands, Backing, NeverOverpaid, Claim
    <3>2. CASE UNCHANGED contract
      BY <1>6, <3>2, BackingKept DEF Backing, RewardLands, contract
    <3>3. QED
      BY <1>6, <3>1, <3>2 DEF RewardLands
  <2>5. QED
    BY <1>6, <2>2, <2>4, BackingKept DEF Backing, RewardLands, redis, jobs
<1>7. ASSUME NEW t \in hung, HungSends(t)
      PROVE  Backing'
  <2> DEFINE u == [t EXCEPT !.by = NoWorker]
  <2>1. t.wallet \in Wallets /\ u \in Transaction /\ u.claim = t.claim
    BY DEF TypeOK, Transaction
  <2>2. Backed(u.claim.addr, u.claim.totals)
    BY <2>1 DEF Backing, HungBacked
  <2>3. PoolBacked'
    BY <1>7, <2>1, <2>2, AppendBacked DEF Backing, HungSends
  <2>4. HungBacked'
    BY <1>7 DEF Backing, HungSends, HungBacked, Backed
  <2>5. QED
    BY <1>7, <2>3, <2>4, BackingKept DEF Backing, HungSends, contract, redis, jobs, local
<1>8. ASSUME NEW t \in hung, HungDies(t)
      PROVE  Backing'
  <2>1. HungBacked'
    BY <1>8 DEF Backing, HungDies, HungBacked, Backed
  <2>2. QED
    BY <1>8, <2>1, BackingKept DEF Backing, HungDies, contract, redis, jobs, local
<1>9. ASSUME NEW r \in Requests, EnqueueUpdateRewards(r)
      PROVE  Backing'
  BY <1>9, BackingKept DEF Backing, EnqueueUpdateRewards, contract, network, local
<1>10. ASSUME NEW j \in Jobs, JobStalls(j)
      PROVE  Backing'
  <2>1. \A s \in Slots : recovery'[s] \in {NoRecovery, recovery[s]}
    BY <1>10 DEF JobStalls
  <2>2. JobsBacked'
    BY <1>10, <2>1, EmptiedJobs DEF Backing, JobStalls
  <2>3. QED
    BY <1>10, <2>2, BackingKept DEF Backing, JobStalls, contract, network, local
<1>11. ASSUME NEW w \in Workers, NEW j \in Jobs, Take(w, j)
      PROVE  Backing'
  <2>1. ClaimBacked'
    <3>1. ASSUME NEW c \in Claim, claim' = [claim EXCEPT ![w] = c],
                 Backed(c.addr, c.totals)
          PROVE  ClaimBacked'
      <4>1. \A v \in Workers : claim'[v] \in {c, claim[v]}
        BY <3>1 DEF TypeOK
      <4>2. ASSUME NEW v \in Workers
            PROVE  Backed(claim'[v].addr, claim'[v].totals)
        BY <3>1, <4>1 DEF Backing, ClaimBacked
      <4>3. UNCHANGED owed
        BY <1>11 DEF Take
      <4>4. QED
        BY <4>2, <4>3 DEF ClaimBacked, Backed
    <3>2. CASE j \in Slots /\ claim' = [claim EXCEPT ![w] =
             [NoClaim EXCEPT !.addr = recovery[j].addr, !.totals = recovery[j].totals]]
      <4> DEFINE c == [NoClaim EXCEPT !.addr = recovery[j].addr,
                                      !.totals = recovery[j].totals]
      <4>1. c \in Claim /\ c.addr = recovery[j].addr /\ c.totals = recovery[j].totals
        BY <3>2, NoClaimType DEF TypeOK, Claim
      <4>2. Backed(c.addr, c.totals)
        BY <3>2, <4>1 DEF Backing, JobsBacked
      <4>3. QED
        BY <3>1, <3>2, <4>1, <4>2
    <3>3. ASSUME NEW r \in Requests,
                 claim' = [claim EXCEPT ![w] =
                    [NoClaim EXCEPT !.addr = Account[r], !.totals = SumPerKind(r),
                                    !.noReward = AllNoReward(r)]]
          PROVE  ClaimBacked'
      <4> DEFINE c == [NoClaim EXCEPT !.addr = Account[r], !.totals = SumPerKind(r),
                                      !.noReward = AllNoReward(r)]
      <4>1. SumPerKind(r) \in Totals /\ AllNoReward(r) \in BOOLEAN /\ Account[r] \in Addr
        BY DEF TypeOK, SumPerKind, AllNoReward, Totals, Read
      <4>2. c \in Claim /\ c.addr = Account[r] /\ c.totals = SumPerKind(r)
        BY <4>1, NoClaimType DEF Claim
      <4>3. Backed(c.addr, c.totals)
        BY <4>2 DEF Backing, ReadsBacked, Backed, SumPerKind
      <4>4. QED
        BY <3>1, <3>3, <4>2, <4>3
    <3>4. CASE claim' = claim
      BY <1>11, <3>4, BackingKept DEF Backing, Take
    <3>5. QED
      BY <1>11, <3>2, <3>3, <3>4 DEF Take
  <2>2. QED
    BY <1>11, <2>1, BackingKept DEF Backing, Take, contract, network
<1>12. ASSUME NEW w \in Workers, ClaimRewards(w)
      PROVE  Backing'
  <2>1. ReadsBacked'
    <3>1. CASE owner[job[w]] # w
      BY <1>12, <3>1, BackingKept DEF Backing, ClaimRewards
    <3>2. CASE owner[job[w]] = w
      <4>1. PICK q \in Requests, x \in Kinds : \E v \in ReadOutcomes(Account[q], x) :
                  reads' = [reads EXCEPT ![q][x] = v]
        BY <1>12, <3>2 DEF ClaimRewards
      <4> PICK v \in ReadOutcomes(Account[q], x) : reads' = [reads EXCEPT ![q][x] = v]
        BY <4>1
      <4>2. \A r \in Requests, k \in Kinds : owed[Account[r]][k] \in Nat
        BY DEF TypeOK, Totals
      <4>3. v.amount <= owed[Account[q]][x]
        BY ReadOutcomesFacts
      <4>4. \A r \in Requests, k \in Kinds :
               reads'[r][k] = IF r = q /\ k = x THEN v ELSE reads[r][k]
        BY DEF TypeOK
      <4>5. UNCHANGED owed
        BY <1>12 DEF ClaimRewards
      <4>6. QED
        BY <4>3, <4>4, <4>5 DEF Backing, ReadsBacked
    <3>3. QED
      BY <3>1, <3>2
  <2>2. ClaimBacked'
    BY <1>12, DroppedClaim DEF Backing, ClaimRewards, Returns
  <2>3. QED
    BY <1>12, <2>1, <2>2, BackingKept DEF Backing, ClaimRewards, contract, network
<1>13. ASSUME NEW w \in Workers, FinishJob(w)
      PROVE  Backing'
  <2>1. \A r \in Requests, k \in Kinds : reads'[r][k] \in {NoRead, reads[r][k]}
    BY <1>13 DEF FinishJob
  <2>2. \A s \in Slots : recovery'[s] \in {NoRecovery, recovery[s]}
    BY <1>13 DEF FinishJob
  <2>3. ReadsBacked'
    BY <1>13, <2>1, EmptiedReads DEF Backing, FinishJob
  <2>4. JobsBacked'
    BY <1>13, <2>2, EmptiedJobs DEF Backing, FinishJob
  <2>5. ClaimBacked'
    BY <1>13, DroppedClaim DEF Backing, FinishJob, Returns
  <2>6. QED
    BY <1>13, <2>3, <2>4, <2>5, BackingKept DEF Backing, FinishJob, contract, network
<1>14. ASSUME NEW w \in Workers, RetireRequest(w)
      PROVE  Backing'
  BY <1>14, BackingKept DEF Backing, RetireRequest, contract, network, redis, jobs
<1>15. ASSUME NEW w \in Workers, LeaveRequest(w)
      PROVE  Backing'
  BY <1>15, BackingKept DEF Backing, LeaveRequest, contract, network, redis, jobs
<1>16. ASSUME NEW w \in Workers, ReadHodler(w)
      PROVE  Backing'
  <2>1. \A v \in Workers : claim'[v].addr = claim[v].addr /\ claim'[v].totals = claim[v].totals
    <3>1. CASE UNCHANGED claim
      BY <3>1
    <3>2. CASE claim' = [claim EXCEPT ![w].amount = Due(claim[w])]
      <4>1. \A v \in Workers :
               claim'[v] = IF v = w THEN [claim[v] EXCEPT !.amount = Due(claim[w])]
                           ELSE claim[v]
        BY <3>2 DEF TypeOK
      <4>2. \A v \in Workers : claim[v] \in Claim
        BY DEF TypeOK
      <4>3. QED
        BY <4>1, <4>2 DEF Claim
    <3>3. QED
      BY <1>16, <3>1, <3>2 DEF ReadHodler
  <2>2. ClaimBacked'
    BY <1>16, <2>1 DEF Backing, ReadHodler, ClaimBacked, Backed
  <2>3. QED
    BY <1>16, <2>2, BackingKept DEF Backing, ReadHodler, contract, network, redis, jobs
<1>17. ASSUME NEW w \in Workers, SendApprove(w)
      PROVE  Backing'
  <2>1. ASSUME NEW x \in Wallets, NEW step, Send(x, w, step), UNCHANGED owed
        PROVE  PoolBacked' /\ UNCHANGED hung
    <3>1. mempool' = [mempool EXCEPT ![x] = Append(@, TransactionFor(x, claim[w], w))]
      BY <2>1 DEF Send
    <3>2. QED
      BY <2>1, <3>1, SentBacked, AppendBacked DEF Backing, Send
  <2>2. PoolBacked' /\ UNCHANGED hung
    BY <1>17, <2>1 DEF SendApprove, Wallets
  <2>3. QED
    BY <1>17, <2>2, BackingKept DEF Backing, SendApprove, contract, redis, jobs
<1>18. ASSUME NEW w \in Workers, SendReward(w)
      PROVE  Backing'
  <2>1. ASSUME NEW x \in Wallets, NEW step, Send(x, w, step), UNCHANGED owed
        PROVE  PoolBacked' /\ UNCHANGED hung
    <3>1. mempool' = [mempool EXCEPT ![x] = Append(@, TransactionFor(x, claim[w], w))]
      BY <2>1 DEF Send
    <3>2. QED
      BY <2>1, <3>1, SentBacked, AppendBacked DEF Backing, Send
  <2>2. UNCHANGED owed
    BY <1>18 DEF SendReward
  <2>3. PoolBacked' /\ UNCHANGED hung
    <3>1. CASE Send("hodlerOperator", w, "rewarding")
      BY <2>1, <2>2, <3>1 DEF Wallets
    <3>2. CASE UNCHANGED network
      BY <2>2, <3>2, BackingKept DEF Backing, network
    <3>3. QED
      BY <1>18, <3>1, <3>2 DEF SendReward
  <2>4. QED
    BY <1>18, <2>3, BackingKept DEF Backing, SendReward, contract, redis, jobs
<1>19. ASSUME NEW w \in Workers, ReceiptArrives(w)
      PROVE  Backing'
  BY <1>19, BackingKept DEF Backing, ReceiptArrives, contract, network, redis, jobs
<1>20. ASSUME NEW w \in Workers, RebalanceRewardGas(w)
      PROVE  Backing'
  BY <1>20, BackingKept DEF Backing, RebalanceRewardGas, contract, network, redis, jobs
<1>21. ASSUME NEW w \in Workers, RecoverReward(w)
      PROVE  Backing'
  <2>1. ASSUME NEW retries, Adds(w, retries)
        PROVE  \A s \in Slots :
                  \/ recovery'[s] = recovery[s]
                  \/ recovery'[s].addr = claim[w].addr /\ recovery'[s].totals = claim[w].totals
    BY <2>1 DEF TypeOK, Adds
  <2>2. JobsBacked'
    BY <1>21, <2>1 DEF Backing, RecoverReward, AddLost, JobsBacked, ClaimBacked, Backed
  <2>3. QED
    BY <1>21, <2>2, BackingKept DEF Backing, RecoverReward, contract, network
<1>22. ASSUME NEW w \in Workers, RetryReward(w)
      PROVE  Backing'
  <2>1. ASSUME NEW retries, Adds(w, retries)
        PROVE  \A s \in Slots :
                  \/ recovery'[s] = recovery[s]
                  \/ recovery'[s].addr = claim[w].addr /\ recovery'[s].totals = claim[w].totals
    BY <2>1 DEF TypeOK, Adds
  <2>2. \A s \in Slots :
           \/ recovery'[s] = recovery[s]
           \/ recovery'[s].addr = claim[w].addr /\ recovery'[s].totals = claim[w].totals
    BY <1>22, <2>1 DEF RetryReward, AddLost
  <2>3. JobsBacked'
    BY <1>22, <2>2 DEF Backing, RetryReward, JobsBacked, ClaimBacked, Backed
  <2>4. QED
    BY <1>22, <2>3, BackingKept DEF Backing, RetryReward, contract, network
<1>23. ASSUME NEW w \in Workers, CallFails(w)
      PROVE  Backing'
  BY <1>23, BackingKept DEF Backing, CallFails, contract, network, redis, jobs
<1>24. ASSUME NEW w \in Workers, SendTimesOut(w)
      PROVE  Backing'
  <2>1. PICK x \in Wallets : hung' = hung \cup {TransactionFor(x, claim[w], w)}
    BY <1>24 DEF SendTimesOut, Wallets
  <2>2. HungBacked'
    BY <1>24, <2>1, SentBacked DEF Backing, SendTimesOut, HungBacked, Backed
  <2>3. QED
    BY <1>24, <2>2, BackingKept DEF Backing, SendTimesOut, contract, redis, jobs
<1>25. ASSUME NEW w \in Workers, ReceiptTimesOut(w)
      PROVE  Backing'
  <2>1. PoolBacked'
    BY <1>25, AbandonedBacked DEF Backing, ReceiptTimesOut
  <2>2. QED
    BY <1>25, <2>1, BackingKept DEF Backing, ReceiptTimesOut, contract, redis, jobs
<1>26. ASSUME NEW w \in Workers, StartLeading(w)
      PROVE  Backing'
  <2>1. \A r \in Requests, k \in Kinds : reads'[r][k] \in {NoRead, reads[r][k]}
    BY <1>26 DEF StartLeading, jobs
  <2>2. \A s \in Slots : recovery'[s] \in {NoRecovery, recovery[s]}
    BY <1>26 DEF StartLeading, jobs
  <2>3. ReadsBacked' /\ JobsBacked'
    BY <1>26, <2>1, <2>2, EmptiedReads, EmptiedJobs DEF Backing, StartLeading
  <2>4. QED
    BY <1>26, <2>3, BackingKept DEF Backing, StartLeading, contract, network
<1>27. ASSUME NEW w \in Workers, StartStandby(w)
      PROVE  Backing'
  BY <1>27, BackingKept DEF Backing, StartStandby, contract, network, redis, jobs
<1>28. ASSUME NEW w \in Workers, Elect(w)
      PROVE  Backing'
  BY <1>28, BackingKept DEF Backing, Elect, contract, network, redis, jobs, local
<1>29. ASSUME NEW w \in Workers, Crash(w)
      PROVE  Backing'
  <2>1. PoolBacked'
    BY <1>29, AbandonedBacked DEF Backing, Crash
  <2>2. ClaimBacked'
    BY <1>29, DroppedClaim DEF Backing, Crash
  <2>3. HungBacked'
    BY <1>29 DEF Backing, Crash, HungBacked, Backed
  <2>4. QED
    BY <1>29, <2>1, <2>2, <2>3, BackingKept DEF Backing, Crash, contract
<1>30. ASSUME NEW w \in Workers, Demote(w)
      PROVE  Backing'
  BY <1>30, BackingKept DEF Backing, Demote, contract, network, redis, jobs, local
<1>31. CASE UNCHANGED vars
  BY <1>31, BackingKept DEF Backing, vars, contract, network, redis, jobs, local
<1>32. QED
  BY <1>1, <1>2, <1>3, <1>4, <1>5, <1>6, <1>7, <1>8, <1>9, <1>10, <1>11, <1>12, <1>13,
     <1>14, <1>15, <1>16, <1>17, <1>18, <1>19, <1>20, <1>21, <1>22, <1>23, <1>24, <1>25,
     <1>26, <1>27, <1>28, <1>29, <1>30, <1>31
  DEF Next, Environment, Settle, Faulty, Process

LEMMA BackingInit == Init => Backing
<1> SUFFICES ASSUME Init
             PROVE  Backing
  OBVIOUS
<1>1. TypeOK
  BY TypeInit
<1>2. NeverOverpaid
  BY <1>1 DEF Init, TypeOK, NeverOverpaid, Zero, Totals
<1>3. ReadsBacked
  BY <1>1, ClaimAssumption DEF Init, TypeOK, ReadsBacked, NoRead, Totals
<1>4. JobsBacked
  BY <1>1, NoClaimType, ZeroBacked DEF Init, JobsBacked
<1>5. ClaimBacked
  BY <1>1, NoClaimType, ZeroBacked DEF Init, ClaimBacked, Claim
<1>6. HungBacked /\ PoolBacked
  BY DEF Init, HungBacked, PoolBacked
<1>7. QED
  BY <1>2, <1>3, <1>4, <1>5, <1>6 DEF Backing

LEMMA BackingHolds == Spec => []Backing
<1>1. Spec => []TypeOK
  BY TypeCorrect
<1>2. QED
  BY <1>1, BackingInit, BackingStep, PTL DEF Spec

(* No address is ever paid more than the AO processes accrued for it: not  *)
(* by a transaction that lands after its timeout, by a recovery job or by  *)
(* a job that two processes run, whatever fails and in whatever order.     *)
THEOREM MoneySafe == Spec => []NeverOverpaid
<1>1. Backing => NeverOverpaid
  BY DEF Backing
<1>2. QED
  BY <1>1, BackingHolds, PTL

(* A step of the settlement accrues, pays a backed claim, or does neither. *)
LEMMA PaysStep ==
    TypeOK /\ Backing /\ [Next]_vars => [PayoutPromise!PayoutNext]_<<owed, paid>>
<1> SUFFICES ASSUME TypeOK, Backing, [Next]_vars
             PROVE  PayoutPromise!PayoutNext \/ UNCHANGED <<owed, paid>>
  OBVIOUS
<1>1. ASSUME NEW a \in Addr, NEW k \in Kinds, Accrue(a, k)
      PROVE  PayoutPromise!Accrues(a)
  <2>1. owed' \in [Addr -> Totals]
    BY <1>1 DEF TypeOK, Accrue, Totals
  <2>2. \A x \in Kinds : owed[a][x] <= owed'[a][x]
    BY <1>1 DEF TypeOK, Accrue, Totals
  <2>3. \A b \in Addr \ {a} : owed'[b] = owed[b]
    BY <1>1 DEF TypeOK, Accrue
  <2>4. UNCHANGED paid
    BY <1>1 DEF Accrue, contract
  <2>5. QED
    BY <2>1, <2>2, <2>3, <2>4 DEF PayoutPromise!Accrues, PayoutPromise!Totals, Totals
<1>2. ASSUME RewardLands, ~UNCHANGED contract
      PROVE  PayoutPromise!PayoutNext
  <2> DEFINE c == Head(mempool["hodlerOperator"]).claim
  <2>1. /\ paid' = [paid EXCEPT ![c.addr] = Raised(c)]
        /\ UNCHANGED owed
        /\ mempool["hodlerOperator"] # <<>>
    BY <1>2 DEF RewardLands
  <2>2. Head(mempool["hodlerOperator"]) \in Transaction
    BY <2>1 DEF TypeOK, Wallets
  <2>3. c \in Claim /\ c.addr \in Addr
    BY <2>2 DEF Transaction, Claim
  <2>4. paid'[c.addr] = Raised(c)
    BY <2>1, <2>3 DEF TypeOK
  <2>5. /\ paid' \in [Addr -> Totals]
        /\ \A k \in Kinds : paid[c.addr][k] <= paid'[c.addr][k]
        /\ \A b \in Addr \ {c.addr} : paid'[b] = paid[b]
    BY <2>1, <2>3, <2>4, RaisedType DEF TypeOK
  <2>6. NeverOverpaid'
    BY BackingStep DEF Backing
  <2>7. \A k \in Kinds : paid'[c.addr][k] <= owed[c.addr][k]
    BY <2>1, <2>3, <2>6 DEF NeverOverpaid
  <2>8. PayoutPromise!Pays(c.addr)
    BY <2>1, <2>5, <2>7 DEF PayoutPromise!Pays, PayoutPromise!Totals, Totals
  <2>9. QED
    BY <2>3, <2>8 DEF PayoutPromise!PayoutNext
<1>3. ASSUME RewardLands, UNCHANGED contract
      PROVE  UNCHANGED <<owed, paid>>
  BY <1>3 DEF RewardLands, contract
<1>4. ASSUME \/ \E r \in Requests : \/ Request(r) \/ Discover(r) \/ DiscoverPaid(r)
                                    \/ EnqueueUpdateRewards(r)
             \/ ApproveLands
             \/ \E t \in hung : HungSends(t) \/ HungDies(t)
             \/ \E j \in Jobs : JobStalls(j)
             \/ \E w \in Workers : \/ \E j \in Jobs : Take(w, j)
                                   \/ Settle(w) \/ Faulty(w) \/ Process(w)
             \/ UNCHANGED vars
      PROVE  UNCHANGED <<owed, paid>>
  BY <1>4
  DEF Request, Discover, DiscoverPaid, EnqueueUpdateRewards, ApproveLands, HungSends,
      HungDies, JobStalls, Take, Settle, ClaimRewards, FinishJob, RetireRequest,
      LeaveRequest, ReadHodler, SendApprove, SendReward, ReceiptArrives,
      RebalanceRewardGas, RecoverReward, RetryReward, Faulty, CallFails, SendTimesOut,
      ReceiptTimesOut, Process, StartLeading, StartStandby, Elect, Crash, Demote,
      contract, vars
<1>5. QED
  BY <1>1, <1>2, <1>3, <1>4 DEF Next, Environment, PayoutPromise!PayoutNext

(* Settling claims implements Payout: whatever happens, the contract only  *)
(* ever sees payments that raise what one address was paid, to no more     *)
(* than that address is owed.                                              *)
THEOREM ImplementsPayout == Spec => PaysOut
<1>1. Init => PayoutPromise!PayoutInit
  <2> SUFFICES ASSUME Init
               PROVE  PayoutPromise!PayoutInit
    OBVIOUS
  <2>1. TypeOK
    BY TypeInit
  <2>2. QED
    BY <2>1 DEF TypeOK, Init, Zero, Totals, PayoutPromise!PayoutInit, PayoutPromise!Totals
<1>2. QED
  BY <1>1, TypeCorrect, BackingHolds, PaysStep, PTL
  DEF Spec, PaysOut, PayoutPromise!PayoutSpec

-----------------------------------------------------------------------------
(* Requests.  ClosedUnpaidHadNothing needs what a job knows of its request *)
(* when it retires it: a job, a child value or a busy worker belongs to a  *)
(* request that was made; one that had a reward then still has it, and the *)
(* process that computed it cannot have answered that there is none.       *)

Recorded   == fulfilled \subseteq stored /\ stored \subseteq requested
ReadsAsked == \A r \in Requests \ requested, k \in Kinds : ~reads[r][k].noReward
JobsAsked  == \A r \in Requests \ requested : \A j \in FlowOf(r) : state[j] = "none"
WorkAsked  == \A r \in Requests \ requested, w \in Workers : job[w] \in FlowOf(r) => Quiet(w)
StillOwed  ==
    \A r \in entitled : \E k \in Kinds : owed[Account[r]][k] > 0 /\ ~reads[r][k].noReward
RetiresFairly ==
    \A w \in Workers, r \in Requests :
        pc[w] = "totals" /\ job[w] = <<r, "update">> /\ claim[w].noReward => r \notin entitled

Closing ==
    /\ ClosedUnpaidHadNothing
    /\ Recorded /\ ReadsAsked /\ JobsAsked /\ WorkAsked /\ StillOwed /\ RetiresFairly

LEMMA ClosingKept ==
    /\ ClosedUnpaidHadNothing /\ UNCHANGED <<entitled, unpaid, fulfilled, retired>>
          => ClosedUnpaidHadNothing'
    /\ Recorded /\ UNCHANGED <<requested, stored, fulfilled>> => Recorded'
    /\ ReadsAsked /\ UNCHANGED <<requested, reads>> => ReadsAsked'
    /\ JobsAsked /\ UNCHANGED <<requested, state>> => JobsAsked'
    /\ WorkAsked /\ UNCHANGED <<requested, pc, job>> => WorkAsked'
    /\ StillOwed /\ UNCHANGED <<owed, entitled, reads>> => StillOwed'
    /\ RetiresFairly /\ UNCHANGED <<entitled, pc, job, claim>> => RetiresFairly'
BY DEF ClosedUnpaidHadNothing, Recorded, ReadsAsked, JobsAsked, WorkAsked, StillOwed,
       RetiresFairly, Quiet

(* The job of a flow is one of a request, and no slot is.                  *)
LEMMA FlowFacts ==
    /\ \A r \in Requests : FlowOf(r) \subseteq FlowJobs /\ <<r, "update">> \in FlowOf(r)
    /\ \A r, q \in Requests : \A j \in FlowOf(r) : j \in FlowOf(q) => q = r
    /\ \A r \in Requests, k \in Kinds : <<r, k>> \in FlowOf(r)
    /\ \A r \in Requests : FlowOf(r) \subseteq Jobs /\ FlowOf(r) \cap Slots = {}
<1>1. \A r \in Requests : FlowOf(r) \subseteq FlowJobs /\ <<r, "update">> \in FlowOf(r)
  BY DEF FlowOf, FlowJobs
<1>2. \A r, q \in Requests : \A j \in FlowOf(r) : j \in FlowOf(q) => q = r
  BY DEF FlowOf
<1>3. \A r \in Requests, k \in Kinds : <<r, k>> \in FlowOf(r)
  BY DEF FlowOf
<1>4. \A r \in Requests : FlowOf(r) \subseteq Jobs /\ FlowOf(r) \cap Slots = {}
  BY <1>1, ClaimAssumption DEF Jobs
<1>5. QED
  BY <1>1, <1>2, <1>3, <1>4

(* A worker that goes on with its job, or ends it.                         *)
LEMMA StepMoves ==
    ASSUME TypeOK, WorkAsked, RetiresFairly, NEW w \in Workers, NEW step \in Steps,
           ~Quiet(w), step # "totals", Goto(w, step), UNCHANGED <<requested, entitled, job>>,
           \A v \in Workers \ {w} : claim'[v] = claim[v]
    PROVE  WorkAsked' /\ RetiresFairly'
<1>1. \A v \in Workers : pc'[v] = IF v = w THEN step ELSE pc[v]
  BY DEF TypeOK, Goto
<1>2. WorkAsked'
  BY <1>1 DEF WorkAsked, Quiet
<1>3. RetiresFairly'
  BY <1>1 DEF RetiresFairly
<1>4. QED
  BY <1>2, <1>3

LEMMA JobEnds ==
    ASSUME TypeOK, WorkAsked, RetiresFairly, NEW w \in Workers, NEW step \in {"idle", "down"},
           pc' = [pc EXCEPT ![w] = step], UNCHANGED <<requested, entitled>>,
           \A v \in Workers \ {w} : claim'[v] = claim[v] /\ job'[v] = job[v]
    PROVE  WorkAsked' /\ RetiresFairly'
<1>1. \A v \in Workers : pc'[v] = IF v = w THEN step ELSE pc[v]
  BY DEF TypeOK
<1>2. WorkAsked'
  BY <1>1 DEF WorkAsked, Quiet
<1>3. RetiresFairly'
  BY <1>1 DEF RetiresFairly
<1>4. QED
  BY <1>2, <1>3

(* No flow appears for a request that was not made.                        *)
LEMMA JobsStayAsked ==
    ASSUME JobsAsked, UNCHANGED requested,
           \A r \in Requests \ requested : \A j \in FlowOf(r) :
               state[j] = "none" => state'[j] = "none"
    PROVE  JobsAsked'
BY DEF JobsAsked

LEMMA ReleaseAsks ==
    ASSUME JobsAsked, UNCHANGED requested, NEW j \in Jobs, Release(j)
    PROVE  JobsAsked'
<1>1. \A i \in Jobs : state[i] = "none" => state'[i] = "none"
  BY DEF Release, Completed
<1>2. QED
  BY <1>1, FlowFacts DEF JobsAsked

(* Values that are dropped leave no read that says there was no reward.    *)
LEMMA EmptiedAsks ==
    ASSUME ReadsAsked, StillOwed, UNCHANGED <<owed, requested, entitled>>, TypeOK,
           \A r \in Requests, k \in Kinds : reads'[r][k] \in {NoRead, reads[r][k]}
    PROVE  ReadsAsked' /\ StillOwed'
<1>1. \A r \in Requests, k \in Kinds : reads'[r][k].noReward => reads[r][k].noReward
  BY DEF NoRead
<1>2. ReadsAsked'
  BY <1>1 DEF ReadsAsked
<1>3. entitled \subseteq Requests
  BY DEF TypeOK
<1>4. StillOwed'
  BY <1>1, <1>3 DEF StillOwed
<1>5. QED
  BY <1>2, <1>4

(* Every step keeps closed requests justified.                             *)
LEMMA ClosingStep == TypeOK /\ Closing /\ [Next]_vars => Closing'
<1> SUFFICES ASSUME TypeOK, Closing, [Next]_vars
             PROVE  Closing'
  OBVIOUS
<1> USE ClaimAssumption
<1>1. ASSUME NEW a \in Addr, NEW k \in Kinds, Accrue(a, k)
      PROVE  Closing'
  <2>1. \A b \in Addr, x \in Kinds : owed[b][x] > 0 => owed'[b][x] > 0
    <3>1. \A b \in Addr, x \in Kinds : owed[b][x] \in Nat
      BY DEF TypeOK, Totals
    <3>2. \A b \in Addr, x \in Kinds :
             owed'[b][x] = IF b = a /\ x = k THEN owed[b][x] + 1 ELSE owed[b][x]
      BY <1>1 DEF TypeOK, Accrue, Totals
    <3>3. QED
      BY <3>1, <3>2
  <2>2. StillOwed'
    <3>1. \A r \in entitled : r \in Requests /\ Account[r] \in Addr
      BY DEF TypeOK
    <3>2. UNCHANGED <<entitled, reads>>
      BY <1>1 DEF Accrue, mongo, redis, jobs
    <3>3. QED
      BY <2>1, <3>1, <3>2 DEF Closing, StillOwed
  <2>3. QED
    BY <1>1, <2>2, ClosingKept DEF Closing, Accrue, mongo, redis, jobs, local
<1>2. ASSUME NEW r \in Requests, Request(r)
      PROVE  Closing'
  <2>1. /\ r \notin requested /\ requested' = requested \cup {r}
        /\ unpaid' = unpaid \cup {r} /\ entitled' \in {entitled, entitled \cup {r}}
        /\ Sum(owed[Account[r]]) > 0 \/ entitled' = entitled
        /\ UNCHANGED <<owed, reads, state, pc, job, claim, stored, fulfilled, retired>>
    BY <1>2 DEF Request, redis, jobs, local
  <2>2. ClosedUnpaidHadNothing' /\ Recorded'
    BY <2>1 DEF Closing, ClosedUnpaidHadNothing, Recorded
  <2>3. ReadsAsked' /\ JobsAsked' /\ WorkAsked'
    BY <2>1 DEF Closing, ReadsAsked, JobsAsked, WorkAsked, Quiet
  <2>4. StillOwed'
    <3>1. \A k \in Kinds : owed[Account[r]][k] \in Nat
      BY DEF TypeOK, Totals
    <3>2. Sum(owed[Account[r]]) > 0 => \E k \in Kinds : owed[Account[r]][k] > 0
      BY <3>1 DEF Sum, Kinds
    <3>3. \A k \in Kinds : ~reads[r][k].noReward
      BY <2>1 DEF Closing, ReadsAsked
    <3>4. QED
      BY <2>1, <3>2, <3>3 DEF Closing, StillOwed
  <2>5. RetiresFairly'
    <3>1. ASSUME NEW w \in Workers, job[w] = <<r, "update">>
          PROVE  pc[w] # "totals"
      <4>1. job[w] \in FlowOf(r)
        BY <3>1, FlowFacts
      <4>2. QED
        BY <2>1, <4>1 DEF Closing, WorkAsked, Quiet
    <3>2. QED
      BY <2>1, <3>1 DEF Closing, RetiresFairly
  <2>6. QED
    BY <2>2, <2>3, <2>4, <2>5 DEF Closing
<1>3. ASSUME NEW r \in Requests, Discover(r)
      PROVE  Closing'
  <2>1. Recorded'
    BY <1>3 DEF Closing, Recorded, Discover
  <2>2. QED
    BY <1>3, <2>1, ClosingKept DEF Closing, Discover, redis, jobs, local
<1>4. ASSUME NEW r \in Requests, DiscoverPaid(r)
      PROVE  Closing'
  <2>1. Recorded' /\ ClosedUnpaidHadNothing'
    BY <1>4 DEF Closing, Recorded, ClosedUnpaidHadNothing, DiscoverPaid
  <2>2. QED
    BY <1>4, <2>1, ClosingKept DEF Closing, DiscoverPaid, redis, jobs, local
<1>5. CASE ApproveLands
  BY <1>5, ClosingKept DEF Closing, ApproveLands, mongo, redis, jobs
<1>6. CASE RewardLands
  <2>1. unpaid' \subseteq unpaid /\ UNCHANGED <<entitled, fulfilled, retired>>
    BY <1>6 DEF RewardLands
  <2>2. ClosedUnpaidHadNothing'
    BY <2>1 DEF Closing, ClosedUnpaidHadNothing
  <2>3. QED
    BY <1>6, <2>2, ClosingKept DEF Closing, RewardLands, redis, jobs
<1>7. ASSUME NEW t \in hung, HungSends(t)
      PROVE  Closing'
  BY <1>7, ClosingKept DEF Closing, HungSends, mongo, redis, jobs, local
<1>8. ASSUME NEW t \in hung, HungDies(t)
      PROVE  Closing'
  BY <1>8, ClosingKept DEF Closing, HungDies, mongo, redis, jobs, local
<1>9. ASSUME NEW r \in Requests, EnqueueUpdateRewards(r)
      PROVE  Closing'
  <2>1. \A q \in Requests \ requested : \A j \in FlowOf(q) : state'[j] = state[j]
    BY <1>9, FlowFacts DEF EnqueueUpdateRewards
  <2>2. JobsAsked'
    BY <1>9, <2>1, JobsStayAsked DEF Closing, EnqueueUpdateRewards, mongo
  <2>3. QED
    BY <1>9, <2>2, ClosingKept DEF Closing, EnqueueUpdateRewards, mongo, local
<1>10. ASSUME NEW j \in Jobs, JobStalls(j)
      PROVE  Closing'
  <2>1. \A i \in Jobs : state[i] = "none" => state'[i] = "none"
    BY <1>10 DEF TypeOK, JobStalls
  <2>2. UNCHANGED requested
    BY <1>10 DEF JobStalls, mongo
  <2>3. JobsAsked'
    BY <2>1, <2>2, FlowFacts, JobsStayAsked DEF Closing
  <2>4. QED
    BY <1>10, <2>3, ClosingKept DEF Closing, JobStalls, mongo, local
<1>11. ASSUME NEW w \in Workers, NEW j \in Jobs, Take(w, j)
      PROVE  Closing'
  <2>1. /\ UNCHANGED <<requested, entitled, stored, fulfilled, retired, unpaid, owed, reads>>
        /\ state[j] = "waiting"
    BY <1>11 DEF Take, mongo
  <2>2. /\ \A v \in Workers : job'[v] = IF v = w THEN j ELSE job[v]
        /\ \A v \in Workers \ {w} : pc'[v] = pc[v] /\ claim'[v] = claim[v]
    BY <1>11 DEF TypeOK, Take
  <2>3. \A r \in Requests \ requested : j \notin FlowOf(r)
    BY <2>1 DEF Closing, JobsAsked
  <2>4. WorkAsked'
    BY <2>1, <2>2, <2>3 DEF Closing, WorkAsked, Quiet
  <2>5. JobsAsked'
    <3>1. \A i \in Jobs : i # j => state'[i] = state[i]
      BY <1>11 DEF TypeOK, Take
    <3>2. QED
      BY <2>1, <2>3, <3>1, FlowFacts, JobsStayAsked DEF Closing
  <2>6. RetiresFairly'
    <3>1. ASSUME NEW r \in Requests, j = <<r, "update">>,
                 pc'[w] = "totals", claim'[w].noReward
          PROVE  r \notin entitled
      <4>1. j \notin Slots /\ j \notin Requests \X Kinds
        BY <3>1, FlowFacts DEF Kinds
      <4>2. claim'[w].noReward = AllNoReward(r)
        <5>1. PICK q \in Requests :
                  /\ j = <<q, "update">>
                  /\ claim' = [claim EXCEPT ![w] =
                         [NoClaim EXCEPT !.addr = Account[q], !.totals = SumPerKind(q),
                                         !.noReward = AllNoReward(q)]]
          BY <1>11, <4>1 DEF Take
        <5>2. q = r
          BY <3>1, <5>1
        <5>3. QED
          BY <5>1, <5>2, NoClaimType DEF TypeOK, Claim
      <4>3. QED
        BY <3>1, <4>2 DEF Closing, StillOwed, AllNoReward
    <3>2. ASSUME NEW v \in Workers, NEW r \in Requests,
                 pc'[v] = "totals", job'[v] = <<r, "update">>, claim'[v].noReward
          PROVE  r \notin entitled'
      <4>1. CASE v = w
        BY <2>1, <2>2, <3>1, <3>2, <4>1
      <4>2. CASE v # w
        BY <2>1, <2>2, <3>2, <4>2 DEF Closing, RetiresFairly
      <4>3. QED
        BY <4>1, <4>2
    <3>3. QED
      BY <3>2 DEF RetiresFairly
  <2>7. QED
    BY <2>1, <2>4, <2>5, <2>6, ClosingKept DEF Closing
<1>12. ASSUME NEW w \in Workers, ClaimRewards(w)
      PROVE  Closing'
  <2>1. UNCHANGED <<requested, entitled, stored, fulfilled, retired, unpaid, owed>>
    BY <1>12 DEF ClaimRewards, mongo
  <2>2. WorkAsked' /\ RetiresFairly'
    <3>1. \A v \in Workers \ {w} : claim'[v] = claim[v] /\ job'[v] = job[v]
      BY <1>12 DEF TypeOK, ClaimRewards, Returns
    <3>2. QED
      BY <1>12, <2>1, <3>1, JobEnds DEF Closing, ClaimRewards, Returns
  <2>3. CASE owner[job[w]] # w
    <3>1. UNCHANGED <<state, reads>>
      BY <1>12, <2>3 DEF ClaimRewards
    <3>2. QED
      BY <2>1, <2>2, <3>1, ClosingKept DEF Closing
  <2>4. CASE owner[job[w]] = w
    <3>1. job[w] \in Jobs
      BY DEF TypeOK
    <3>2. JobsAsked'
      BY <1>12, <2>1, <2>4, <3>1, ReleaseAsks DEF Closing, ClaimRewards
    <3>3. PICK q \in Requests, x \in Kinds :
              /\ job[w] = <<q, x>>
              /\ \E v \in ReadOutcomes(Account[q], x) : reads' = [reads EXCEPT ![q][x] = v]
      BY <1>12, <2>4 DEF ClaimRewards
    <3> PICK v \in ReadOutcomes(Account[q], x) : reads' = [reads EXCEPT ![q][x] = v]
      BY <3>3
    <3>4. \A r \in Requests, k \in Kinds :
             reads'[r][k] = IF r = q /\ k = x THEN v ELSE reads[r][k]
      BY DEF TypeOK
    <3>5. q \in requested
      BY <1>12, <3>3, FlowFacts DEF Closing, WorkAsked, Quiet, ClaimRewards
    <3>6. ReadsAsked'
      BY <2>1, <3>4, <3>5 DEF Closing, ReadsAsked
    <3>7. v.noReward => owed[Account[q]][x] = 0
      BY ReadOutcomesFacts
    <3>8. StillOwed'
      <4>1. entitled \subseteq Requests
        BY DEF TypeOK
      <4>2. QED
        BY <2>1, <3>4, <3>7, <4>1 DEF Closing, StillOwed
    <3>9. QED
      BY <2>1, <2>2, <3>2, <3>6, <3>8, ClosingKept DEF Closing
  <2>5. QED
    BY <2>3, <2>4
<1>13. ASSUME NEW w \in Workers, FinishJob(w)
      PROVE  Closing'
  <2>1. UNCHANGED <<requested, entitled, stored, fulfilled, retired, unpaid, owed>>
    BY <1>13 DEF FinishJob, mongo
  <2>2. WorkAsked' /\ RetiresFairly'
    <3>1. \A v \in Workers \ {w} : claim'[v] = claim[v] /\ job'[v] = job[v]
      BY <1>13 DEF TypeOK, FinishJob, Returns
    <3>2. QED
      BY <1>13, <2>1, <3>1, JobEnds DEF Closing, FinishJob, Returns
  <2>3. \A r \in Requests, k \in Kinds : reads'[r][k] \in {NoRead, reads[r][k]}
    BY <1>13 DEF FinishJob
  <2>4. ReadsAsked' /\ StillOwed'
    BY <2>1, <2>3, EmptiedAsks DEF Closing
  <2>5. JobsAsked'
    <3>1. CASE Release(job[w])
      <4>1. job[w] \in Jobs
        BY DEF TypeOK
      <4>2. QED
        BY <2>1, <3>1, <4>1, ReleaseAsks DEF Closing
    <3>2. CASE UNCHANGED state
      BY <2>1, <3>2, ClosingKept DEF Closing
    <3>3. QED
      BY <1>13, <3>1, <3>2 DEF FinishJob
  <2>6. QED
    BY <2>1, <2>2, <2>4, <2>5, ClosingKept DEF Closing
<1>14. ASSUME NEW w \in Workers, RetireRequest(w)
      PROVE  Closing'
  <2>1. WorkAsked' /\ RetiresFairly'
    BY <1>14, StepMoves DEF Closing, RetireRequest, Quiet, Steps
  <2> DEFINE doc == {r \in stored \ fulfilled : job[w] = <<r, "update">>}
  <2>2. /\ UNCHANGED <<requested, entitled, unpaid, stored>>
        /\ \/ fulfilled' = fulfilled \cup doc /\ retired' = retired \cup doc
           \/ UNCHANGED <<fulfilled, retired>>
    BY <1>14 DEF RetireRequest
  <2>3. \A r \in doc : r \notin entitled
    BY <1>14 DEF TypeOK, Closing, RetiresFairly, RetireRequest
  <2>4. ClosedUnpaidHadNothing' /\ Recorded'
    BY <2>2, <2>3 DEF Closing, ClosedUnpaidHadNothing, Recorded
  <2>5. QED
    BY <1>14, <2>1, <2>4, ClosingKept DEF Closing, RetireRequest, redis, jobs
<1>15. ASSUME NEW w \in Workers, LeaveRequest(w)
      PROVE  Closing'
  <2>1. WorkAsked' /\ RetiresFairly'
    BY <1>15, StepMoves DEF Closing, LeaveRequest, Quiet, Steps, mongo
  <2>2. QED
    BY <1>15, <2>1, ClosingKept DEF Closing, LeaveRequest, mongo, redis, jobs
<1>16. ASSUME NEW w \in Workers, ReadHodler(w)
      PROVE  Closing'
  <2>1. \A v \in Workers \ {w} : claim'[v] = claim[v]
    BY <1>16 DEF TypeOK, ReadHodler
  <2>2. \E step \in {"done", "approve"} : Goto(w, step)
    BY <1>16 DEF ReadHodler
  <2>3. WorkAsked' /\ RetiresFairly'
    BY <1>16, <2>1, <2>2, StepMoves DEF Closing, ReadHodler, Quiet, Steps, mongo
  <2>4. QED
    BY <1>16, <2>3, ClosingKept DEF Closing, ReadHodler, mongo, redis, jobs
<1>17. ASSUME NEW w \in Workers, SendApprove(w)
      PROVE  Closing'
  <2>1. WorkAsked' /\ RetiresFairly'
    BY <1>17, StepMoves DEF Closing, SendApprove, Send, Quiet, Steps, mongo
  <2>2. QED
    BY <1>17, <2>1, ClosingKept DEF Closing, SendApprove, mongo, redis, jobs
<1>18. ASSUME NEW w \in Workers, SendReward(w)
      PROVE  Closing'
  <2>1. \E step \in {"rewarding", "done", "failed"} : Goto(w, step)
    BY <1>18 DEF SendReward, Send
  <2>2. WorkAsked' /\ RetiresFairly'
    BY <1>18, <2>1, StepMoves DEF Closing, SendReward, Quiet, Steps, mongo
  <2>3. QED
    BY <1>18, <2>2, ClosingKept DEF Closing, SendReward, mongo, redis, jobs
<1>19. ASSUME NEW w \in Workers, ReceiptArrives(w)
      PROVE  Closing'
  <2>1. \E step \in {"failed", "reward", "account"} : Goto(w, step)
    BY <1>19 DEF ReceiptArrives
  <2>2. WorkAsked' /\ RetiresFairly'
    BY <1>19, <2>1, StepMoves DEF Closing, ReceiptArrives, Quiet, Steps, mongo
  <2>3. QED
    BY <1>19, <2>2, ClosingKept DEF Closing, ReceiptArrives, mongo, redis, jobs
<1>20. ASSUME NEW w \in Workers, RebalanceRewardGas(w)
      PROVE  Closing'
  <2>1. WorkAsked' /\ RetiresFairly'
    BY <1>20, StepMoves DEF Closing, RebalanceRewardGas, Quiet, Steps, mongo
  <2>2. QED
    BY <1>20, <2>1, ClosingKept DEF Closing, RebalanceRewardGas, mongo, redis, jobs
<1>21. ASSUME NEW w \in Workers, RecoverReward(w)
      PROVE  Closing'
  <2>1. WorkAsked' /\ RetiresFairly'
    BY <1>21, StepMoves DEF Closing, RecoverReward, Quiet, Steps, mongo
  <2>2. \A r \in Requests : \A j \in FlowOf(r) : state'[j] = state[j]
    <3>1. ASSUME NEW retries, Adds(w, retries)
          PROVE  \A r \in Requests : \A j \in FlowOf(r) : state'[j] = state[j]
      BY <3>1, FlowFacts DEF TypeOK, Adds
    <3>2. QED
      BY <1>21, <3>1 DEF RecoverReward, AddLost
  <2>3. JobsAsked'
    BY <1>21, <2>2, JobsStayAsked DEF Closing, RecoverReward, mongo
  <2>4. QED
    BY <1>21, <2>1, <2>3, ClosingKept DEF Closing, RecoverReward, mongo
<1>22. ASSUME NEW w \in Workers, RetryReward(w)
      PROVE  Closing'
  <2>1. WorkAsked' /\ RetiresFairly'
    BY <1>22, StepMoves DEF Closing, RetryReward, Quiet, Steps, mongo
  <2>2. \A r \in Requests : \A j \in FlowOf(r) : state'[j] = state[j]
    <3>1. ASSUME NEW retries, Adds(w, retries)
          PROVE  \A r \in Requests : \A j \in FlowOf(r) : state'[j] = state[j]
      BY <3>1, FlowFacts DEF TypeOK, Adds
    <3>2. QED
      BY <1>22, <3>1 DEF RetryReward, AddLost
  <2>3. JobsAsked'
    BY <1>22, <2>2, JobsStayAsked DEF Closing, RetryReward, mongo
  <2>4. QED
    BY <1>22, <2>1, <2>3, ClosingKept DEF Closing, RetryReward, mongo
<1>23. ASSUME NEW w \in Workers, CallFails(w)
      PROVE  Closing'
  <2>1. ~Quiet(w)
    BY <1>23 DEF CallFails, Quiet
  <2>2. WorkAsked' /\ RetiresFairly'
    BY <1>23, <2>1, StepMoves DEF Closing, CallFails, Steps, mongo
  <2>3. QED
    BY <1>23, <2>2, ClosingKept DEF Closing, CallFails, mongo, redis, jobs
<1>24. ASSUME NEW w \in Workers, SendTimesOut(w)
      PROVE  Closing'
  <2>1. WorkAsked' /\ RetiresFairly'
    BY <1>24, StepMoves DEF Closing, SendTimesOut, Quiet, Steps, mongo
  <2>2. QED
    BY <1>24, <2>1, ClosingKept DEF Closing, SendTimesOut, mongo, redis, jobs
<1>25. ASSUME NEW w \in Workers, ReceiptTimesOut(w)
      PROVE  Closing'
  <2>1. WorkAsked' /\ RetiresFairly'
    BY <1>25, StepMoves DEF Closing, ReceiptTimesOut, Quiet, Steps, mongo
  <2>2. QED
    BY <1>25, <2>1, ClosingKept DEF Closing, ReceiptTimesOut, mongo, redis, jobs
<1>26. ASSUME NEW w \in Workers, StartLeading(w)
      PROVE  Closing'
  <2>1. UNCHANGED <<owed, requested, entitled, unpaid, stored, fulfilled, retired, job, claim>>
    BY <1>26 DEF StartLeading, mongo
  <2>2. WorkAsked' /\ RetiresFairly'
    BY <1>26, <2>1, JobEnds DEF Closing, StartLeading, Goto
  <2>3. \A r \in Requests, k \in Kinds : reads'[r][k] \in {NoRead, reads[r][k]}
    BY <1>26 DEF StartLeading, jobs
  <2>4. ReadsAsked' /\ StillOwed'
    BY <2>1, <2>3, EmptiedAsks DEF Closing
  <2>5. \A j \in Jobs : state'[j] \in {"none", state[j]}
    BY <1>26 DEF StartLeading, jobs
  <2>6. JobsAsked'
    BY <2>1, <2>5, FlowFacts DEF Closing, JobsAsked
  <2>7. QED
    BY <2>1, <2>2, <2>4, <2>6, ClosingKept DEF Closing
<1>27. ASSUME NEW w \in Workers, StartStandby(w)
      PROVE  Closing'
  <2>1. WorkAsked' /\ RetiresFairly'
    BY <1>27, JobEnds DEF Closing, StartStandby, Goto, mongo
  <2>2. QED
    BY <1>27, <2>1, ClosingKept DEF Closing, StartStandby, mongo, redis, jobs
<1>28. ASSUME NEW w \in Workers, Elect(w)
      PROVE  Closing'
  BY <1>28, ClosingKept DEF Closing, Elect, mongo, redis, jobs, local
<1>29. ASSUME NEW w \in Workers, Crash(w)
      PROVE  Closing'
  <2>1. \A v \in Workers \ {w} : claim'[v] = claim[v] /\ job'[v] = job[v]
    BY <1>29 DEF TypeOK, Crash
  <2>2. WorkAsked' /\ RetiresFairly'
    BY <1>29, <2>1, JobEnds DEF Closing, Crash, mongo
  <2>3. QED
    BY <1>29, <2>2, ClosingKept DEF Closing, Crash, mongo
<1>30. ASSUME NEW w \in Workers, Demote(w)
      PROVE  Closing'
  BY <1>30, ClosingKept DEF Closing, Demote, mongo, redis, jobs, local
<1>31. CASE UNCHANGED vars
  BY <1>31, ClosingKept DEF Closing, vars, mongo, redis, jobs, local
<1>32. QED
  BY <1>1, <1>2, <1>3, <1>4, <1>5, <1>6, <1>7, <1>8, <1>9, <1>10, <1>11, <1>12, <1>13,
     <1>14, <1>15, <1>16, <1>17, <1>18, <1>19, <1>20, <1>21, <1>22, <1>23, <1>24, <1>25,
     <1>26, <1>27, <1>28, <1>29, <1>30, <1>31
  DEF Next, Environment, Settle, Faulty, Process

LEMMA ClosingInit == Init => Closing
<1> SUFFICES ASSUME Init
             PROVE  Closing
  OBVIOUS
<1>1. ClosedUnpaidHadNothing /\ Recorded /\ StillOwed
  BY DEF Init, ClosedUnpaidHadNothing, Recorded, StillOwed
<1>2. ReadsAsked /\ JobsAsked
  BY FlowFacts DEF Init, ReadsAsked, JobsAsked, NoRead
<1>3. WorkAsked /\ RetiresFairly
  BY DEF Init, WorkAsked, RetiresFairly, Quiet
<1>4. QED
  BY <1>1, <1>2, <1>3 DEF Closing

(* A request is closed without a payment only if its address had earned    *)
(* nothing when it asked: a failed read, a partial one or a second run of  *)
(* its job never retires a request somebody waits for.                     *)
THEOREM ClosedJustified == Spec => []ClosedUnpaidHadNothing
<1>1. Closing => ClosedUnpaidHadNothing
  BY DEF Closing
<1>2. QED
  BY <1>1, TypeCorrect, ClosingInit, ClosingStep, PTL DEF Spec

=============================================================================
