-------------------------- MODULE ClaimSettlement --------------------------
(***************************************************************************)
(* The claims of the Hodler mode: HodlerUpdatesQueue and the part of       *)
(* EventsService that settles them.  A claim is a BullMQ flow: two child   *)
(* jobs ask the AO reward processes what an address earned so far, their   *)
(* parent approves the difference to what the Hodler contract paid already *)
(* and calls reward() with the totals.  A failed attempt is repeated by    *)
(* recovery jobs.  AO, the Hodler contract, the mempool and BullMQ are     *)
(* external and modelled as far as the code depends on them.               *)
(***************************************************************************)
EXTENDS Integers, Sequences, FiniteSets

CONSTANTS
    Workers,          \* processes that run the leader-only workers
    NoWorker,         \* no process
    Requests,         \* UpdateRewards events, that is transaction hash and address
    Addr,             \* addresses
    Account,          \* the address of each request
    Operators,        \* bound: relay operators an address stakes with
    Slots,            \* bound: recovery jobs the queue holds at a time
    MaxUpdateAllocationRetries,
    MaxStalled,       \* BullMQ maxStalledCount, per job
    Faults,           \* which calls may fail: a subset of FaultKinds
    SoleWorker,       \* leadership moves only when no other process works
    DoClean,          \* DO_CLEAN
    MaxReward,        \* bound: what an AO process accrues for an address
    MaxPool,          \* bound: transactions of a wallet in the mempool, and hung sends
    MaxUnbooked,      \* bound: transactions whose cost is not booked; 0 is no count
    MaxDuplicates,    \* bound: enqueues of a claim that is still queued
    MaxUpsets         \* bound: crashes, losses of leadership, locks lost by a living process

FaultKinds == {"ao", "rpc", "hang", "receipt", "budget", "db", "redis"}
Kinds      == {"relay", "staking"}
Wallets    == {"rewardsPool", "hodlerOperator"}
FlowJobs   == Requests \X (Kinds \cup {"update"})
Jobs       == FlowJobs \cup Slots

ASSUME ClaimAssumption ==
    /\ NoWorker \notin Workers
    /\ Requests # {}
    /\ Account \in [Requests -> Addr]
    /\ Slots \cap FlowJobs = {}
    /\ Faults \subseteq FaultKinds
    /\ {MaxUpdateAllocationRetries, MaxStalled, MaxReward, MaxPool,
        MaxUnbooked, MaxDuplicates, MaxUpsets} \subseteq Nat
    /\ {SoleWorker, DoClean} \subseteq BOOLEAN

VARIABLES
    owed,             \* AO: cumulative reward per address and kind
    paid,             \* Hodler contract: claimedRelayRewards, claimedStakingRewards
    allowance,        \* token contract: what it may take from the rewards pool
    mempool,          \* per wallet, in the order of nonces
    hung,             \* sends whose timeout fired but which still go on
    requested,        \* UpdateRewards events emitted so far
    entitled,         \* those whose address had a reward accrued at that time
    unpaid,           \* those whose address was not paid since
    stored,           \* documents of the UpdateRewardsEvent collection
    fulfilled,        \* those with fulfilled: true
    retired,          \* those with noReward: true
    state,            \* Redis: the state of each job
    owner,            \* the process holding its lock
    stalls,           \* how often it stalled
    reads,            \* children values of the flow of each request
    recovery,         \* data of each recovery job
    leading,          \* processes whose workers are started
    pc,               \* where each process is
    job,              \* the job it runs
    claim,            \* what that job settles
    receipt,          \* the receipt of the transaction it waits for
    unbooked,         \* transactions mined whose cost totalGasBalance lacks
    duplicates,       \* enqueues of a claim that was still queued so far
    upsets            \* crashes, losses of leadership and of locks so far

contract == <<paid, allowance>>
network  == <<mempool, hung>>
mongo    == <<requested, entitled, unpaid, stored, fulfilled, retired>>
jobs     == <<state, owner, stalls, reads, recovery>>
redis    == <<jobs, duplicates>>
local    == <<pc, job, claim, receipt>>
vars     == <<owed, contract, network, mongo, redis, leading, local, unbooked, upsets>>

Totals == [Kinds -> Nat]
Zero   == [k \in Kinds |-> 0]
Sum(t) == t["relay"] + t["staking"]

Read   == [amount : Nat, noReward : BOOLEAN]
NoRead == [amount |-> 0, noReward |-> FALSE]

(* The claim a job works on: noReward when every read said so, amount is   *)
(* currentTotalReward, once the contract was read.                         *)
Claim   == [addr : Addr, totals : Totals, noReward : BOOLEAN, amount : Int]
NoClaim == [addr |-> CHOOSE a \in Addr : TRUE, totals |-> Zero,
            noReward |-> FALSE, amount |-> 0]

(* An approve (of an amount) or a reward (of totals to an address); by is  *)
(* the process that waits for its receipt or, while it hangs, sends it.    *)
Transaction == [wallet : Wallets, claim : Claim, by : Workers \cup {NoWorker}]

TransactionFor(wallet, c, w) ==
    [wallet |-> wallet,
     claim  |-> IF wallet = "rewardsPool" THEN [NoClaim EXCEPT !.amount = c.amount]
                ELSE [c EXCEPT !.amount = 0],
     by     |-> w]

Steps == {"down", "idle", "read", "totals", "approve", "approving",
          "reward", "rewarding", "account", "failed", "done"}

TypeOK ==
    /\ owed \in [Addr -> Totals]
    /\ paid \in [Addr -> Totals]
    /\ allowance \in Int
    /\ mempool \in [Wallets -> Seq(Transaction)]
    /\ hung \subseteq Transaction
    /\ requested \subseteq Requests
    /\ entitled \subseteq Requests
    /\ unpaid \subseteq Requests
    /\ stored \subseteq Requests
    /\ fulfilled \subseteq Requests
    /\ retired \subseteq Requests
    /\ state \in [Jobs -> {"none", "blocked", "waiting", "active", "failed"}]
    /\ owner \in [Jobs -> Workers \cup {NoWorker}]
    /\ stalls \in [Jobs -> Nat]
    /\ reads \in [Requests -> [Kinds -> Read]]
    /\ recovery \in [Slots -> [addr : Addr, totals : Totals, retries : Nat]]
    /\ leading \subseteq Workers
    /\ pc \in [Workers -> Steps]
    /\ job \in [Workers -> Jobs]
    /\ claim \in [Workers -> Claim]
    /\ receipt \in [Workers -> {"none", "mined", "reverted"}]
    /\ unbooked \in Nat
    /\ duplicates \in Nat
    /\ upsets \in Nat

NoRecovery == [addr |-> NoClaim.addr, totals |-> Zero, retries |-> 0]
NoJob      == CHOOSE j \in FlowJobs : TRUE

Init ==
    /\ owed \in [Addr -> [Kinds -> 0..MaxReward]]
    /\ paid = [a \in Addr |-> Zero]
    /\ allowance = 0
    /\ mempool = [x \in Wallets |-> <<>>]
    /\ hung = {}
    /\ requested = {} /\ entitled = {} /\ unpaid = {}
    /\ stored = {} /\ fulfilled = {} /\ retired = {}
    /\ state = [j \in Jobs |-> "none"]
    /\ owner = [j \in Jobs |-> NoWorker]
    /\ stalls = [j \in Jobs |-> 0]
    /\ reads = [r \in Requests |-> [k \in Kinds |-> NoRead]]
    /\ recovery = [s \in Slots |-> NoRecovery]
    /\ leading = {}
    /\ pc = [w \in Workers |-> "down"]
    /\ job = [w \in Workers |-> NoJob]
    /\ claim = [w \in Workers |-> NoClaim]
    /\ receipt = [w \in Workers |-> "none"]
    /\ unbooked = 0
    /\ duplicates = 0
    /\ upsets = 0

-----------------------------------------------------------------------------
(* AO and Ethereum (external).                                             *)

Accrue(a, k) ==
    /\ owed[a][k] < MaxReward
    /\ owed' = [owed EXCEPT ![a][k] = @ + 1]
    /\ UNCHANGED <<contract, network, mongo, redis, leading, local, unbooked, upsets>>

Request(r) ==
    /\ r \notin requested
    /\ requested' = requested \cup {r}
    /\ unpaid' = unpaid \cup {r}
    /\ entitled' = IF Sum(owed[Account[r]]) > 0 THEN entitled \cup {r} ELSE entitled
    /\ UNCHANGED <<owed, contract, network, stored, fulfilled, retired, redis, leading, local,
                   unbooked, upsets>>

(* reward() takes cumulative totals, moves what they exceed the claimed    *)
(* ones by from the rewards pool, and records them.  It reverts when that  *)
(* is nothing or more than the allowance, may revert when a total is lower *)
(* than the claimed one, and when the gas budget of the address is spent.  *)
Higher(x, y)  == IF x > y THEN x ELSE y
Raised(c)     == [k \in Kinds |-> Higher(c.totals[k], paid[c.addr][k])]
Transfer(c)   == Sum(Raised(c)) - Sum(paid[c.addr])
Answers(c) ==
    {a \in {"paid", "nothing", "transfer", "reverted", "budget"} :
        CASE a = "paid"     -> 0 < Transfer(c) /\ Transfer(c) <= allowance
          [] a = "nothing"  -> Transfer(c) = 0
          [] a = "transfer" -> Transfer(c) > allowance
          [] a = "reverted" -> \E k \in Kinds : c.totals[k] < paid[c.addr][k]
          [] a = "budget"   -> "budget" \in Faults}

Receipt(t, r) == receipt' = [w \in Workers |-> IF w = t.by THEN r ELSE receipt[w]]
Mined         == unbooked' = IF unbooked < MaxUnbooked THEN unbooked + 1 ELSE unbooked

ApproveLands ==
    /\ mempool["rewardsPool"] # <<>>
    /\ LET t == Head(mempool["rewardsPool"])
       IN  allowance' = t.claim.amount /\ Receipt(t, "mined")
    /\ mempool' = [mempool EXCEPT !["rewardsPool"] = Tail(@)]
    /\ Mined
    /\ UNCHANGED <<owed, paid, hung, mongo, redis, leading, pc, job, claim, upsets>>

RewardLands ==
    /\ mempool["hodlerOperator"] # <<>>
    /\ LET t == Head(mempool["hodlerOperator"])
           c == t.claim
       IN  \/ /\ "paid" \in Answers(c)
              /\ paid' = [paid EXCEPT ![c.addr] = Raised(c)]
              /\ allowance' = allowance - Transfer(c)
              /\ unpaid' = {r \in unpaid : Account[r] # c.addr}
              /\ Receipt(t, "mined")
           \/ /\ Answers(c) \ {"paid"} # {}
              /\ Receipt(t, "reverted")
              /\ UNCHANGED <<contract, unpaid>>
    /\ mempool' = [mempool EXCEPT !["hodlerOperator"] = Tail(@)]
    /\ Mined
    /\ UNCHANGED <<owed, hung, requested, entitled, stored, fulfilled, retired,
                   redis, leading, pc, job, claim, upsets>>

-----------------------------------------------------------------------------
(* The discovery loop, as RewardsDiscovery models it in detail: requests   *)
(* are stored, those paid later are closed, the others are enqueued.  A    *)
(* live event enqueues a request that may not be stored yet.               *)

Discover(r) ==
    /\ r \in requested \ stored
    /\ stored' = stored \cup {r}
    /\ UNCHANGED <<owed, contract, network, requested, entitled, unpaid, fulfilled, retired,
                   redis, leading, local, unbooked, upsets>>

DiscoverPaid(r) ==
    /\ r \in stored \ (unpaid \cup fulfilled)
    /\ fulfilled' = fulfilled \cup {r}
    /\ UNCHANGED <<owed, contract, network, requested, entitled, unpaid, stored, retired,
                   redis, leading, local, unbooked, upsets>>

(* enqueueUpdateRewards.  The job ids are those of the request, and BullMQ *)
(* adds no job whose id it still has: a failed one keeps its id.           *)
FlowOf(r) == {r} \X (Kinds \cup {"update"})

EnqueueUpdateRewards(r) ==
    /\ r \in requested \ fulfilled
    /\ leading # {}
    /\ \E j \in FlowOf(r) : state[j] = "none"
    /\ IF state[<<r, "update">>] = "none" THEN UNCHANGED duplicates
       ELSE duplicates < MaxDuplicates /\ duplicates' = duplicates + 1
    /\ state' = [j \in Jobs |-> IF j \notin FlowOf(r) \/ state[j] # "none" THEN state[j]
                                ELSE IF j = <<r, "update">> THEN "blocked" ELSE "waiting"]
    /\ UNCHANGED <<owed, contract, network, mongo, owner, stalls, reads, recovery, leading,
                   local, unbooked, upsets>>

-----------------------------------------------------------------------------
(* The worker of HodlerUpdatesQueue: one job at a time per process.        *)

(* Mutant: whatever the kind, an amount is added to the relay total.       *)
SumAsRelay(r) ==
    [k \in Kinds |-> IF k = "relay" THEN reads[r]["relay"].amount + reads[r]["staking"].amount
                     ELSE 0]

(* Per kind, the sum of the children values.                               *)
SumPerKind(r) == [k \in Kinds |-> reads[r][k].amount]

(* Mutant: one authoritative read is enough.                               *)
AnyNoReward(r) == \E k \in Kinds : reads[r][k].noReward

AllNoReward(r) == \A k \in Kinds : reads[r][k].noReward

(* Bound: a claim is taken while there is a slot for the recovery job it   *)
(* may add, and another for a retry.                                       *)
Room == Cardinality({s \in Slots : state[s] = "none"})
            >= (IF MaxUpdateAllocationRetries > 1 THEN 2 ELSE 1)

Take(w, j) ==
    /\ w \in leading
    /\ pc[w] = "idle"
    /\ state[j] = "waiting"
    /\ state' = [state EXCEPT ![j] = "active"]
    /\ owner' = [owner EXCEPT ![j] = w]
    /\ job' = [job EXCEPT ![w] = j]
    /\ \/ /\ j \in Slots
          /\ pc' = [pc EXCEPT ![w] = "totals"]
          /\ claim' = [claim EXCEPT ![w] =
                 [NoClaim EXCEPT !.addr = recovery[j].addr, !.totals = recovery[j].totals]]
       \/ \E r \in Requests :
             /\ j = <<r, "update">> /\ Room
             /\ pc' = [pc EXCEPT ![w] = "totals"]
             /\ claim' = [claim EXCEPT ![w] =
                    [NoClaim EXCEPT !.addr = Account[r], !.totals = SumPerKind(r),
                                    !.noReward = AllNoReward(r)]]
       \/ /\ j \in Requests \X Kinds
          /\ pc' = [pc EXCEPT ![w] = "read"]
          /\ UNCHANGED claim
    /\ UNCHANGED <<owed, contract, network, mongo, stalls, reads, recovery, leading,
                   receipt, unbooked, duplicates, upsets>>

(* The lock of an active job expired: its process crashed or, when several *)
(* may work, was cut off from Redis.  A job that stalls too often fails    *)
(* and is kept, so a flow's id stays taken.                                *)
JobStalls(j) ==
    /\ state[j] = "active"
    /\ \/ owner[j] = NoWorker /\ UNCHANGED upsets
       \/ /\ owner[j] # NoWorker /\ ~SoleWorker
          /\ upsets < MaxUpsets /\ upsets' = upsets + 1
    /\ owner' = [owner EXCEPT ![j] = NoWorker]
    /\ IF stalls[j] < MaxStalled
       THEN /\ state' = [state EXCEPT ![j] = "waiting"]
            /\ stalls' = [stalls EXCEPT ![j] = @ + 1]
            /\ UNCHANGED recovery
       ELSE /\ state' = [state EXCEPT ![j] = IF j \in Slots THEN "none" ELSE "failed"]
            /\ stalls' = [stalls EXCEPT ![j] = 0]
            /\ recovery' = [s \in Slots |-> IF s = j THEN NoRecovery ELSE recovery[s]]
    /\ UNCHANGED <<owed, contract, network, mongo, reads, leading, local,
                   unbooked, duplicates>>

(* The job of w returned.  BullMQ takes the result only from the holder of *)
(* the lock; removeOnComplete frees the id; a parent all of whose children *)
(* are done may run, and loses their values when it is removed.            *)
Returns(w) ==
    /\ pc' = [pc EXCEPT ![w] = "idle"]
    /\ job' = [job EXCEPT ![w] = NoJob]
    /\ claim' = [claim EXCEPT ![w] = NoClaim]

Completed(j) ==
    [i \in Jobs |->
        IF i = j THEN "none"
        ELSE IF /\ state[i] = "blocked"
                /\ \E r \in Requests : /\ i = <<r, "update">>
                                       /\ j \in {r} \X Kinds
                                       /\ \A c \in ({r} \X Kinds) \ {j} : state[c] = "none"
             THEN "waiting" ELSE state[i]]

Release(j) ==
    /\ state' = Completed(j)
    /\ owner' = [owner EXCEPT ![j] = NoWorker]
    /\ stalls' = [stalls EXCEPT ![j] = 0]

(* claimRewards of the two services, for whatever AO answers.              *)
Clients == INSTANCE RewardClients

RelayReads(n) ==
    {Clients!RelayClaimRewards(answer) : answer \in Clients!RelayAnswers(n) \cup
        (IF "ao" \in Faults THEN Clients!RelayFailures ELSE {})}

StakingReads(n) ==
    {Clients!StakingClaimRewards(answer) : answer \in Clients!StakingAnswers(n) \cup
        (IF "ao" \in Faults THEN Clients!StakingFailures ELSE {})}

ReadOutcomes(a, k) ==
    IF k = "relay" THEN RelayReads(owed[a][k]) ELSE StakingReads(owed[a][k])

ClaimRewards(w) ==
    /\ pc[w] = "read"
    /\ IF owner[job[w]] # w
       THEN UNCHANGED <<state, owner, stalls, reads>>
       ELSE /\ Release(job[w])
            /\ \E r \in Requests, k \in Kinds :
                  /\ job[w] = <<r, k>>
                  /\ \E v \in ReadOutcomes(Account[r], k) :
                        reads' = [reads EXCEPT ![r][k] = v]
    /\ Returns(w)
    /\ UNCHANGED <<owed, contract, network, mongo, recovery, leading, receipt, unbooked,
                   duplicates, upsets>>

FinishJob(w) ==
    /\ pc[w] = "done"
    /\ IF owner[job[w]] # w
       THEN UNCHANGED <<state, owner, stalls, reads, recovery>>
       ELSE /\ Release(job[w])
            /\ reads' = [r \in Requests |-> IF job[w] = <<r, "update">>
                                            THEN [k \in Kinds |-> NoRead] ELSE reads[r]]
            /\ recovery' = [s \in Slots |-> IF s = job[w] THEN NoRecovery ELSE recovery[s]]
    /\ Returns(w)
    /\ UNCHANGED <<owed, contract, network, mongo, leading, receipt, unbooked, duplicates, upsets>>

-----------------------------------------------------------------------------
(* updateClaimedRewards, await by await.                                   *)

Goto(w, step) == pc' = [pc EXCEPT ![w] = step]

(* markUpdateRewardsEventNoReward: only an update job knows the request,   *)
(* and only a stored, open document is changed.  An error is logged.       *)
RetireRequest(w) ==
    /\ pc[w] = "totals"
    /\ Sum(claim[w].totals) = 0 /\ claim[w].noReward
    /\ \/ LET doc == {r \in stored \ fulfilled : job[w] = <<r, "update">>}
          IN  fulfilled' = fulfilled \cup doc /\ retired' = retired \cup doc
       \/ "db" \in Faults /\ UNCHANGED <<fulfilled, retired>>
    /\ Goto(w, "done")
    /\ UNCHANGED <<owed, contract, network, requested, entitled, unpaid, stored, redis, leading,
                   job, claim, receipt, unbooked, upsets>>

(* Nothing to claim, but not every read was authoritative.                 *)
LeaveRequest(w) ==
    /\ pc[w] = "totals"
    /\ Sum(claim[w].totals) = 0 /\ ~claim[w].noReward
    /\ Goto(w, "done")
    /\ UNCHANGED <<owed, contract, network, mongo, redis, leading, job, claim, receipt,
                   unbooked, upsets>>

(* Mutant: only a reward of both kinds counts as a new one.                *)
DueOfBoth(c) ==
    IF \A k \in Kinds : c.totals[k] > paid[c.addr][k]
    THEN Sum(c.totals) - Sum(paid[c.addr]) ELSE 0

(* currentTotalReward, from what hodlers(address) reports as claimed.      *)
Due(c) == Sum(c.totals) - Sum(paid[c.addr])

ReadHodler(w) ==
    /\ pc[w] = "totals"
    /\ Sum(claim[w].totals) > 0
    /\ IF Due(claim[w]) <= 0
       THEN Goto(w, "done") /\ UNCHANGED claim
       ELSE Goto(w, "approve") /\ claim' = [claim EXCEPT ![w].amount = Due(claim[w])]
    /\ UNCHANGED <<owed, contract, network, mongo, redis, leading, job, receipt, unbooked, upsets>>

Send(wallet, w, step) ==
    /\ Len(mempool[wallet]) < MaxPool
    /\ mempool' = [mempool EXCEPT ![wallet] =
                      Append(@, TransactionFor(wallet, claim[w], w))]
    /\ Goto(w, step)
    /\ UNCHANGED <<hung, receipt>>

SendApprove(w) ==
    /\ pc[w] = "approve"
    /\ Send("rewardsPool", w, "approving")
    /\ UNCHANGED <<owed, contract, mongo, redis, leading, job, claim, unbooked, upsets>>

(* The send of reward() estimates its gas first.  What would pay is sent;  *)
(* a reason that is passable ends the claim, any other fails the attempt.  *)
SendReward(w) ==
    /\ pc[w] = "reward"
    /\ \E a \in Answers(claim[w]) :
          IF a = "paid"
          THEN Send("hodlerOperator", w, "rewarding")
          ELSE /\ Goto(w, IF a \in {"nothing", "budget"} THEN "done" ELSE "failed")
               /\ UNCHANGED <<network, receipt>>
    /\ UNCHANGED <<owed, contract, mongo, redis, leading, job, claim, unbooked, upsets>>

(* A call to the node fails before a transaction is sent.                  *)
CallFails(w) ==
    /\ "rpc" \in Faults
    /\ \/ pc[w] = "totals" /\ Sum(claim[w].totals) > 0
       \/ pc[w] \in {"approve", "reward"}
    /\ Goto(w, "failed")
    /\ UNCHANGED <<owed, contract, network, mongo, redis, leading, job, claim, receipt,
                   unbooked, upsets>>

(* withTimeout gives up waiting, but does not stop what it waits for.      *)
SendTimesOut(w) ==
    /\ "hang" \in Faults
    /\ pc[w] \in {"approve", "reward"}
    /\ Cardinality(hung) < MaxPool
    /\ hung' = hung \cup
          {TransactionFor(IF pc[w] = "approve" THEN "rewardsPool" ELSE "hodlerOperator",
                          claim[w], w)}
    /\ Goto(w, "failed")
    /\ UNCHANGED <<owed, contract, mempool, mongo, redis, leading, job, claim, receipt,
                   unbooked, upsets>>

HungSends(t) ==
    /\ t.wallet = "rewardsPool" \/ "paid" \in Answers(t.claim)
    /\ Len(mempool[t.wallet]) < MaxPool
    /\ mempool' = [mempool EXCEPT ![t.wallet] = Append(@, [t EXCEPT !.by = NoWorker])]
    /\ hung' = hung \ {t}
    /\ UNCHANGED <<owed, contract, mongo, redis, leading, local, unbooked, upsets>>

HungDies(t) ==
    /\ hung' = hung \ {t}
    /\ UNCHANGED <<owed, contract, mempool, mongo, redis, leading, local, unbooked, upsets>>

ReceiptArrives(w) ==
    /\ pc[w] \in {"approving", "rewarding"}
    /\ receipt[w] # "none"
    /\ receipt' = [receipt EXCEPT ![w] = "none"]
    /\ Goto(w, IF receipt[w] = "reverted" THEN "failed"
               ELSE IF pc[w] = "approving" THEN "reward" ELSE "account")
    /\ UNCHANGED <<owed, contract, network, mongo, redis, leading, job, claim, unbooked, upsets>>

(* Nobody waits for the transactions of w any more; they may land.         *)
Abandoned(w) ==
    [x \in Wallets |-> [i \in DOMAIN mempool[x] |->
        IF mempool[x][i].by = w THEN [mempool[x][i] EXCEPT !.by = NoWorker] ELSE mempool[x][i]]]

ReceiptTimesOut(w) ==
    /\ "receipt" \in Faults
    /\ pc[w] \in {"approving", "rewarding"}
    /\ receipt[w] = "none"
    /\ mempool' = Abandoned(w)
    /\ Goto(w, "failed")
    /\ UNCHANGED <<owed, contract, hung, mongo, redis, leading, job, claim, receipt,
                   unbooked, upsets>>

(* rebalanceRewardGas: both costs are known, their sum is booked.          *)
RebalanceRewardGas(w) ==
    /\ pc[w] = "account"
    /\ \/ unbooked' = IF unbooked > 2 THEN unbooked - 2 ELSE 0
       \/ "db" \in Faults /\ UNCHANGED unbooked
    /\ Goto(w, "done")
    /\ UNCHANGED <<owed, contract, network, mongo, redis, leading, job, claim, receipt, upsets>>

Adds(w, retries) ==
    \E s \in Slots :
        /\ state[s] = "none"
        /\ state' = [state EXCEPT ![s] = "waiting"]
        /\ recovery' = [recovery EXCEPT ![s] =
               [addr |-> claim[w].addr, totals |-> claim[w].totals, retries |-> retries]]

RetriesLeft(w) == recovery[job[w]].retries - 1

(* Mutant: a failed recovery is always repeated.                           *)
RetryAlways(w) ==
    /\ pc[w] = "failed"
    /\ job[w] \in Slots
    /\ Adds(w, RetriesLeft(w))
    /\ Goto(w, "done")
    /\ UNCHANGED <<owed, contract, network, mongo, owner, stalls, reads, leading, job, claim,
                   receipt, unbooked, duplicates, upsets>>

(* Nobody awaits the add: the job may complete although Redis refused it.  *)
AddLost == "redis" \in Faults /\ UNCHANGED <<state, recovery>>

(* recoverReward after an update job; retryReward after a recovery job     *)
(* with retries left; otherwise trackFailedReward, which only logs.        *)
RecoverReward(w) ==
    /\ pc[w] = "failed"
    /\ job[w] \in FlowJobs
    /\ Adds(w, MaxUpdateAllocationRetries) \/ AddLost
    /\ Goto(w, "done")
    /\ UNCHANGED <<owed, contract, network, mongo, owner, stalls, reads, leading, job, claim,
                   receipt, unbooked, duplicates, upsets>>

RetryReward(w) ==
    /\ pc[w] = "failed"
    /\ job[w] \in Slots
    /\ IF recovery[job[w]].retries > 1
       THEN Adds(w, RetriesLeft(w)) \/ AddLost
       ELSE UNCHANGED <<state, recovery>>
    /\ Goto(w, "done")
    /\ UNCHANGED <<owed, contract, network, mongo, owner, stalls, reads, leading, job, claim,
                   receipt, unbooked, duplicates, upsets>>

-----------------------------------------------------------------------------
(* Processes, as in RewardsDiscovery.                                      *)

Quiet(w)   == pc[w] \in {"down", "idle"}
MayLead(w) == SoleWorker => leading = {} /\ \A v \in Workers \ {w} : Quiet(v)

(* A process elected while it bootstraps; DO_CLEAN empties the queue       *)
(* before its workers start.                                               *)
StartLeading(w) ==
    /\ pc[w] = "down"
    /\ MayLead(w)
    /\ leading' = leading \cup {w}
    /\ Goto(w, "idle")
    /\ IF DoClean
       THEN /\ state' = [j \in Jobs |-> "none"]
            /\ owner' = [j \in Jobs |-> NoWorker]
            /\ stalls' = [j \in Jobs |-> 0]
            /\ reads' = [r \in Requests |-> [k \in Kinds |-> NoRead]]
            /\ recovery' = [s \in Slots |-> NoRecovery]
       ELSE UNCHANGED jobs
    /\ UNCHANGED <<owed, contract, network, mongo, job, claim, receipt, unbooked, duplicates,
                   upsets>>

StartStandby(w) ==
    /\ pc[w] = "down"
    /\ Goto(w, "idle")
    /\ UNCHANGED <<owed, contract, network, mongo, redis, leading, job, claim, receipt,
                   unbooked, upsets>>

Elect(w) ==
    /\ pc[w] # "down" /\ w \notin leading
    /\ MayLead(w)
    /\ leading' = leading \cup {w}
    /\ UNCHANGED <<owed, contract, network, mongo, redis, local, unbooked, upsets>>

Crash(w) ==
    /\ upsets < MaxUpsets
    /\ upsets' = upsets + 1
    /\ pc[w] # "down"
    /\ pc' = [pc EXCEPT ![w] = "down"]
    /\ job' = [job EXCEPT ![w] = NoJob]
    /\ claim' = [claim EXCEPT ![w] = NoClaim]
    /\ receipt' = [receipt EXCEPT ![w] = "none"]
    /\ leading' = leading \ {w}
    /\ owner' = [j \in Jobs |-> IF owner[j] = w THEN NoWorker ELSE owner[j]]
    /\ mempool' = Abandoned(w)
    /\ hung' = {t \in hung : t.by # w}
    /\ UNCHANGED <<owed, contract, mongo, state, stalls, reads, recovery, unbooked, duplicates>>

(* Leadership is lost: the worker pauses after the job in flight.          *)
Demote(w) ==
    /\ upsets < MaxUpsets
    /\ upsets' = upsets + 1
    /\ w \in leading
    /\ leading' = leading \ {w}
    /\ UNCHANGED <<owed, contract, network, mongo, redis, local, unbooked>>

-----------------------------------------------------------------------------
Settle(w) ==
    \/ ClaimRewards(w) \/ RetireRequest(w) \/ LeaveRequest(w) \/ ReadHodler(w)
    \/ SendApprove(w) \/ SendReward(w) \/ ReceiptArrives(w) \/ RebalanceRewardGas(w)
    \/ RecoverReward(w) \/ RetryReward(w) \/ FinishJob(w)

Faulty(w) == CallFails(w) \/ SendTimesOut(w) \/ ReceiptTimesOut(w)

Process(w) ==
    \/ StartLeading(w) \/ StartStandby(w) \/ Elect(w) \/ Crash(w) \/ Demote(w)

Environment ==
    \/ \E a \in Addr, k \in Kinds : Accrue(a, k)
    \/ \E r \in Requests : Request(r) \/ Discover(r) \/ DiscoverPaid(r)
    \/ ApproveLands \/ RewardLands
    \/ \E t \in hung : HungSends(t) \/ HungDies(t)

Next ==
    \/ Environment
    \/ \E r \in Requests : EnqueueUpdateRewards(r)
    \/ \E j \in Jobs : JobStalls(j)
    \/ \E w \in Workers :
          \/ \E j \in Jobs : Take(w, j)
          \/ Settle(w) \/ Faulty(w) \/ Process(w)

Spec == Init /\ [][Next]_vars

(* What runs is run on: a waiting job gets its turn (BullMQ is first in,   *)
(* first out), a lost lock is noticed, Nomad restarts a process, Consul    *)
(* has a leader, and miners take what is in the mempool.  A call to the    *)
(* node that is made again and again does not fail every time.             *)
WorkerFairness ==
    /\ WF_vars(ApproveLands) /\ WF_vars(RewardLands)
    /\ \A j \in Jobs : WF_vars(JobStalls(j)) /\ SF_vars(\E w \in Workers : Take(w, j))
    /\ SF_vars(\E w \in Workers : ReadHodler(w))
    /\ SF_vars(\E w \in Workers : SendApprove(w))
    /\ SF_vars(\E w \in Workers : SendReward(w))
    /\ \A w \in Workers :
          /\ WF_vars(Settle(w) \/ Faulty(w))
          /\ WF_vars(StartLeading(w) \/ StartStandby(w))
          /\ WF_vars(Elect(w))

(* The discovery loop turns, see ChainedRequestsHandled there.             *)
DiscoveryFairness ==
    \A r \in Requests :
        WF_vars(EnqueueUpdateRewards(r)) /\ WF_vars(Discover(r)) /\ WF_vars(DiscoverPaid(r))

FairSpec == Spec /\ WorkerFairness /\ DiscoveryFairness

-----------------------------------------------------------------------------
(* Correctness.                                                            *)

(* Money: no address is ever paid more than the AO processes accrued for   *)
(* it, whatever is sent twice, lands late, is repeated by recovery or is   *)
(* run again after a crash.                                                *)
NeverOverpaid == \A a \in Addr, k \in Kinds : paid[a][k] <= owed[a][k]

(* A request is closed while unpaid only when its address had earned       *)
(* nothing when it asked; one that failed to be read stays open.           *)
ClosedUnpaidHadNothing == \A r \in fulfilled \cap unpaid : r \in retired \ entitled

(* What a claim settles is a payment of the abstract specification, be it  *)
(* settled by two processes at a time, each by its own reads.              *)
PayoutPromise == INSTANCE Payout WITH
    Addr <- Addr, Kinds <- Kinds, owed <- owed, paid <- paid
PaysOut == PayoutPromise!PayoutSpec

(* A reward that was accrued when its request was made is paid in the end, *)
(* although the process that settles it may crash at any step, calls fail, *)
(* recovery runs out or is lost: the next cycle of the discovery enqueues  *)
(* the request again.                                                      *)
NothingToClaim(r) == paid[Account[r]] = owed[Account[r]]
RequestPaid ==
    \A r \in Requests : (r \in entitled \cap unpaid) ~> (r \notin unpaid \/ NothingToClaim(r))

-----------------------------------------------------------------------------
(* What one would expect and the code does otherwise.                      *)

(* The approve and reward pair: when the approve of a claim is mined and   *)
(* its reward is about to be sent, the rewards pool still allows what was  *)
(* approved for it.                                                        *)
PairIntact == \A w \in Workers : pc[w] = "reward" => claim[w].amount <= allowance

(* A transaction that lands late is simply seen as already paid: it takes  *)
(* nothing away from what another claim was just approved.                 *)
LateRewardHarmless ==
    \A w \in Workers : pc[w] = "reward" => Transfer(claim[w]) <= allowance

(* What is approved for a claim is what its reward moves.                  *)
ApproveCoversReward ==
    \A w \in Workers : pc[w] = "approve" => Transfer(claim[w]) <= claim[w].amount

(* A request for an address with nothing to claim is marked fulfilled, so  *)
(* that discovery does not find it again on every cycle.                   *)
NothingToClaimIsClosed ==
    \A r \in Requests :
        (r \in requested /\ [](NothingToClaim(r))) ~> r \in fulfilled

(* When a leader crashes, the job it ran is run again: a claim that was    *)
(* queued is not left in the queue for ever.                               *)
Queued(r) == state[<<r, "update">>] # "none"
CrashedClaimRerun == \A r \in Requests : Queued(r) ~> ~Queued(r)

(* The running balance holds the gas of every transaction sent, once no    *)
(* claim is in progress.                                                   *)
GasBooked ==
    (\A w \in Workers : Quiet(w)) /\ (\A j \in Jobs : state[j] = "none")
        /\ (\A x \in Wallets : mempool[x] = <<>>) => unbooked = 0

============================================================================
