------------------------- MODULE FacilityUpdates -------------------------
(***************************************************************************)
(* The updates of the Facility mode: FacilitatorUpdatesQueue and the part  *)
(* of EventsService that settles them.  An update is a BullMQ flow of two  *)
(* jobs: the child reads from AO what an address is owed in all, its       *)
(* parent calls updateAllocation of the Facility contract with it.  A      *)
(* failed attempt is repeated by recovery jobs that carry the amount along.*)
(* The worker of every process takes these jobs; nothing bounds the time a *)
(* send or a receipt may take.                                             *)
(*                                                                         *)
(* AO, the contract, the mempool and BullMQ are external.  Who requests    *)
(* and enqueues updates is up to FacilityDiscovery and the live events.    *)
(***************************************************************************)
EXTENDS Integers, Sequences, FiniteSets

CONSTANTS
    Workers,          \* processes
    NoWorker,         \* no process
    Tx, Addr,         \* transactions that request an update, and addresses
    Requester,        \* the address each of them asks for
    Slots,            \* bound: recovery jobs the queue holds at a time
    NoAmount,         \* undefined
    MaxUpdateAllocationRetries,
    MaxStalled,       \* BullMQ maxStalledCount, per job
    Faults,           \* which calls may fail
    DoClean,          \* DO_CLEAN
    MaxReward,        \* bound: what AO accrues for an address
    MaxUpsets         \* bound: crashes and calls that fail

FlowJobs == Tx \X {"get", "update"}
Jobs     == FlowJobs \cup Slots

(* What the constants are; Facility assumes it.                            *)
FacilityUpdatesAssumption ==
    /\ NoWorker \notin Workers
    /\ Tx # {}
    /\ Requester \in [Tx -> Addr]
    /\ Slots \cap FlowJobs = {}
    /\ NoAmount \notin Nat
    /\ {MaxUpdateAllocationRetries, MaxStalled, MaxReward, MaxUpsets} \subseteq Nat
    /\ DoClean \in BOOLEAN

VARIABLES
    owed,             \* AO: cumulative reward per address
    paid,             \* Facility contract: what an address claimed so far
    mempool,          \* transactions of the operator, in the order of nonces
    requested,        \* RequestingUpdate events emitted so far
    unpaid,           \* those whose address was not paid since
    state,            \* Redis: the state of each job
    lock,             \* the process holding its lock
    repeats,          \* how often it stalled
    reads,            \* value of the finished child of each flow
    recovery,         \* data of each recovery job
    up,               \* processes that run
    step,             \* where the worker of each process is
    job,              \* the job it runs
    data,             \* address and amount of that job
    receipt,          \* the receipt of the transaction it waits for
    upsets            \* crashes and failed calls so far

money   == <<owed, paid, mempool>>
events  == <<requested, unpaid>>
queue   == <<state, lock, repeats, reads, recovery>>
process == <<up, step, job, data, receipt>>
vars    == <<money, events, queue, process, upsets>>

Data   == [addr : Addr, amount : Nat \cup {NoAmount}]
NoData == [addr |-> CHOOSE a \in Addr : TRUE, amount |-> NoAmount]
NoJob  == CHOOSE j \in FlowJobs : TRUE

Recovery   == [addr : Addr, amount : Nat \cup {NoAmount}, retries : Nat]
NoRecovery == [addr |-> NoData.addr, amount |-> NoAmount, retries |-> 0]

(* updateAllocation of an amount; by is the process that waits for it.     *)
Transaction == [addr : Addr, amount : Nat, by : Workers \cup {NoWorker}]

TypeOK ==
    /\ owed \in [Addr -> Nat]
    /\ paid \in [Addr -> Nat]
    /\ mempool \in Seq(Transaction)
    /\ requested \subseteq Tx
    /\ unpaid \subseteq Tx
    /\ state \in [Jobs -> {"none", "blocked", "waiting", "active", "failed"}]
    /\ lock \in [Jobs -> Workers \cup {NoWorker}]
    /\ repeats \in [Jobs -> Nat]
    /\ reads \in [Tx -> Nat \cup {NoAmount}]
    /\ recovery \in [Slots -> Recovery]
    /\ up \subseteq Workers
    /\ step \in [Workers -> {"idle", "get", "send", "wait", "failed", "done", "hung"}]
    /\ job \in [Workers -> Jobs]
    /\ data \in [Workers -> Data]
    /\ receipt \in [Workers -> {"none", "mined", "reverted"}]
    /\ upsets \in Nat

InitBesideRequests ==
    /\ owed = [a \in Addr |-> 0]
    /\ paid = [a \in Addr |-> 0]
    /\ mempool = <<>>
    /\ unpaid = {}
    /\ state = [j \in Jobs |-> "none"]
    /\ lock = [j \in Jobs |-> NoWorker]
    /\ repeats = [j \in Jobs |-> 0]
    /\ reads = [t \in Tx |-> NoAmount]
    /\ recovery = [s \in Slots |-> NoRecovery]
    /\ up = {}
    /\ step = [w \in Workers |-> "idle"]
    /\ job = [w \in Workers |-> NoJob]
    /\ data = [w \in Workers |-> NoData]
    /\ receipt = [w \in Workers |-> "none"]
    /\ upsets = 0

Init == InitBesideRequests /\ requested = {}

Upset == upsets < MaxUpsets /\ upsets' = upsets + 1
Fault(kind) == kind \in Faults /\ Upset

-----------------------------------------------------------------------------
(* AO and Ethereum (external).                                             *)

Accrue(a) ==
    /\ owed[a] < MaxReward
    /\ owed' = [owed EXCEPT ![a] = @ + 1]
    /\ UNCHANGED <<paid, mempool, events, queue, process, upsets>>

Request(t) ==
    /\ t \notin requested
    /\ requested' = requested \cup {t}
    /\ unpaid' = unpaid \cup {t}
    /\ UNCHANGED <<money, queue, process, upsets>>

(* updateAllocation sets the cumulative amount and pays what exceeds the   *)
(* amount claimed; it reverts when that is nothing.                        *)
Pays(d) == d.amount > paid[d.addr]

Receipt(r) ==
    receipt' = [w \in Workers |-> IF w = Head(mempool).by THEN r ELSE receipt[w]]

Lands ==
    /\ mempool # <<>>
    /\ mempool' = Tail(mempool)
    /\ UNCHANGED <<owed, requested, queue, up, step, job, data, upsets>>

UpdateLands ==
    /\ Lands
    /\ Pays(Head(mempool))
    /\ paid' = [paid EXCEPT ![Head(mempool).addr] = Head(mempool).amount]
    /\ unpaid' = {t \in unpaid : Requester[t] # Head(mempool).addr}
    /\ Receipt("mined")

UpdateReverts ==
    /\ Lands
    /\ ~Pays(Head(mempool))
    /\ Receipt("reverted")
    /\ UNCHANGED <<paid, unpaid>>

-----------------------------------------------------------------------------
(* enqueueUpdateAllocation.  The job ids are those of the request, and     *)
(* BullMQ adds no job whose id it still has: a failed one keeps its id.    *)
FlowOf(t) == {t} \X {"get", "update"}
Queued(t) == state[<<t, "update">>] # "none"

EnqueueUpdateAllocation(t) ==
    /\ t \in requested
    /\ state' = [j \in Jobs |-> IF j \notin FlowOf(t) \/ state[j] # "none" THEN state[j]
                                ELSE IF j = <<t, "update">> THEN "blocked" ELSE "waiting"]
    /\ UNCHANGED <<money, events, lock, repeats, reads, recovery, process, upsets>>

-----------------------------------------------------------------------------
(* The worker of FacilitatorUpdatesQueue: one job at a time per process.   *)

(* Bound: an update is taken while there is a slot for the recovery job it *)
(* may add, and another for a retry.                                       *)
Room == Cardinality({s \in Slots : state[s] = "none"})
            >= (IF MaxUpdateAllocationRetries > 1 THEN 2 ELSE 1)

Starts(w, j, d, at) ==
    /\ w \in up /\ step[w] = "idle" /\ state[j] = "waiting"
    /\ state' = [state EXCEPT ![j] = "active"]
    /\ lock' = [lock EXCEPT ![j] = w]
    /\ job' = [job EXCEPT ![w] = j]
    /\ data' = [data EXCEPT ![w] = d]
    /\ step' = [step EXCEPT ![w] = at]
    /\ UNCHANGED <<money, events, repeats, reads, recovery, up, receipt, upsets>>

TakeGet(w, t) ==
    Starts(w, <<t, "get">>, [NoData EXCEPT !.addr = Requester[t]], "get")

(* Without reward data the update is over, and nobody retries it.          *)
TakeUpdate(w, t) ==
    /\ Room
    /\ Starts(w, <<t, "update">>, [addr |-> Requester[t], amount |-> reads[t]],
              IF reads[t] = NoAmount THEN "done" ELSE "send")

TakeRecovery(w, s) ==
    Starts(w, s, [addr |-> recovery[s].addr, amount |-> recovery[s].amount], "send")

(* The lock of an active job expired: its process crashed, or was cut off  *)
(* from Redis.  A job that stalls too often fails and is kept, so a flow's *)
(* id stays taken.                                                         *)
JobStalls(j) ==
    /\ state[j] = "active"
    /\ IF lock[j] = NoWorker THEN UNCHANGED upsets ELSE Fault("cutoff")
    /\ lock' = [lock EXCEPT ![j] = NoWorker]
    /\ IF repeats[j] < MaxStalled
       THEN /\ state' = [state EXCEPT ![j] = "waiting"]
            /\ repeats' = [repeats EXCEPT ![j] = @ + 1]
            /\ UNCHANGED recovery
       ELSE /\ state' = [state EXCEPT ![j] = IF j \in Slots THEN "none" ELSE "failed"]
            /\ repeats' = [repeats EXCEPT ![j] = 0]
            /\ recovery' = [s \in Slots |-> IF s = j THEN NoRecovery ELSE recovery[s]]
    /\ UNCHANGED <<money, events, reads, process>>

(* The job of w returned.  BullMQ takes the result only from the holder of *)
(* the lock; removeOnComplete frees the id.                                *)
Returns(w) ==
    /\ step' = [step EXCEPT ![w] = "idle"]
    /\ job' = [job EXCEPT ![w] = NoJob]
    /\ data' = [data EXCEPT ![w] = NoData]
    /\ UNCHANGED <<up, receipt>>

(* Mutant: the job is kept, as BullMQ does without removeOnComplete.       *)
ReleaseAndKeep(j) ==
    /\ state' = [i \in Jobs |->
           IF i = j THEN "failed"
           ELSE IF /\ state[i] = "blocked"
                   /\ \E t \in Tx : i = <<t, "update">> /\ j = <<t, "get">>
                THEN "waiting" ELSE state[i]]
    /\ lock' = [lock EXCEPT ![j] = NoWorker]
    /\ repeats' = [repeats EXCEPT ![j] = 0]

Release(j) ==
    /\ state' = [i \in Jobs |->
           IF i = j THEN "none"
           ELSE IF /\ state[i] = "blocked"
                   /\ \E t \in Tx : i = <<t, "update">> /\ j = <<t, "get">>
                THEN "waiting" ELSE state[i]]
    /\ lock' = [lock EXCEPT ![j] = NoWorker]
    /\ repeats' = [repeats EXCEPT ![j] = 0]

(* Mutant: what is due is rounded up.                                      *)
GetAllocationRoundedUp(a) == IF owed[a] = 0 THEN NoAmount ELSE owed[a] + 1

(* getAllocation: the cumulative reward.  An address without one has no    *)
(* amount, and an exception reads as none.                                 *)
GetAllocation(a) == IF owed[a] = 0 THEN NoAmount ELSE owed[a]

GetCurrentRewards(w) ==
    /\ step[w] = "get"
    /\ \E v \in {GetAllocation(data[w].addr), NoAmount} :
          /\ IF v = GetAllocation(data[w].addr) THEN UNCHANGED upsets ELSE Fault("ao")
          /\ IF lock[job[w]] # w
             THEN UNCHANGED <<state, lock, repeats, reads>>
             ELSE /\ Release(job[w])
                  /\ reads' = [t \in Tx |-> IF job[w] = <<t, "get">> THEN v ELSE reads[t]]
    /\ Returns(w)
    /\ UNCHANGED <<money, events, recovery>>

FinishJob(w) ==
    /\ step[w] = "done"
    /\ IF lock[job[w]] # w
       THEN UNCHANGED <<state, lock, repeats, reads, recovery>>
       ELSE /\ Release(job[w])
            /\ reads' = [t \in Tx |-> IF job[w] = <<t, "update">> THEN NoAmount ELSE reads[t]]
            /\ recovery' = [s \in Slots |-> IF s = job[w] THEN NoRecovery ELSE recovery[s]]
    /\ Returns(w)
    /\ UNCHANGED <<money, events, upsets>>

-----------------------------------------------------------------------------
(* updateAllocation.                                                       *)

Goto(w, at) == step' = [step EXCEPT ![w] = at]

(* The gas of the call is estimated first.  What would pay is sent; "no    *)
(* tokens allocated" and "no tokens available to claim" pass.              *)
SendUpdate(w) ==
    /\ step[w] = "send"
    /\ IF Pays(data[w])
       THEN /\ mempool' = Append(mempool, [addr |-> data[w].addr, amount |-> data[w].amount,
                                           by |-> w])
            /\ Goto(w, "wait")
       ELSE Goto(w, "done") /\ UNCHANGED mempool
    /\ UNCHANGED <<owed, paid, events, queue, up, job, data, receipt, upsets>>

ReceiptArrives(w) ==
    /\ step[w] = "wait" /\ receipt[w] # "none"
    /\ receipt' = [receipt EXCEPT ![w] = "none"]
    /\ Goto(w, IF receipt[w] = "mined" THEN "done" ELSE "failed")
    /\ UNCHANGED <<money, events, queue, up, job, data, upsets>>

(* Nobody waits for the transaction of w any more; it may land, or it was  *)
(* dropped or replaced by one of another process with its nonce.           *)
Abandoned(w) ==
    [i \in DOMAIN mempool |->
        IF mempool[i].by = w THEN [mempool[i] EXCEPT !.by = NoWorker] ELSE mempool[i]]
Without(i) == SubSeq(mempool, 1, i - 1) \o SubSeq(mempool, i + 1, Len(mempool))
Abandons(w) ==
    \/ mempool' = Abandoned(w)
    \/ \E i \in DOMAIN mempool : mempool[i].by = w /\ mempool' = Without(i)

(* A call to the node fails, the contract or AO's operator lacks tokens    *)
(* ("needs manual intervention"), or the wait for the receipt throws.      *)
CallFails(w) ==
    /\ step[w] \in {"send", "wait"} /\ receipt[w] = "none"
    /\ Fault("rpc")
    /\ Abandons(w)
    /\ Goto(w, "failed")
    /\ UNCHANGED <<owed, paid, events, queue, up, job, data, receipt>>

(* The operator's wallet sends through the first WebSocketProvider, which  *)
(* is not the one a reconnect builds (see EvmProviders): nothing answers.  *)
Hangs(w) ==
    /\ step[w] \in {"send", "wait"} /\ receipt[w] = "none"
    /\ Fault("hang")
    /\ Abandons(w)
    /\ Goto(w, "hung")
    /\ UNCHANGED <<owed, paid, events, queue, up, job, data, receipt>>

FreeSlot == CHOOSE s \in Slots : state[s] = "none"

(* Mutant: address and amount change places in the recovery job.           *)
AddsRecoverySwapped(w, retries) ==
    \E s \in Slots \cap {FreeSlot} :
        /\ state[s] = "none"
        /\ state' = [state EXCEPT ![s] = "waiting"]
        /\ recovery' = [recovery EXCEPT ![s] =
               [addr |-> data[w].amount, amount |-> data[w].addr, retries |-> retries]]

AddsRecovery(w, retries) ==
    \E s \in Slots \cap {FreeSlot} :
        /\ state[s] = "none"
        /\ state' = [state EXCEPT ![s] = "waiting"]
        /\ recovery' = [recovery EXCEPT ![s] =
               [addr |-> data[w].addr, amount |-> data[w].amount, retries |-> retries]]

(* Nobody awaits the add: the job may complete although Redis refused it.  *)
AddLost == "redis" \in Faults /\ UNCHANGED <<state, recovery>>

(* recoverUpdateAllocation after an update job; retryUpdateAllocation      *)
(* after a recovery job with retries left; otherwise                       *)
(* trackFailedUpdateAllocation, which only logs.                           *)
RecoverUpdateAllocation(w) ==
    /\ step[w] = "failed"
    /\ IF job[w] \in FlowJobs
       THEN AddsRecovery(w, MaxUpdateAllocationRetries) \/ AddLost
       ELSE IF recovery[job[w]].retries > 1
            THEN AddsRecovery(w, recovery[job[w]].retries - 1) \/ AddLost
            ELSE UNCHANGED <<state, recovery>>
    /\ Goto(w, "done")
    /\ UNCHANGED <<money, events, lock, repeats, reads, up, job, data, receipt, upsets>>

-----------------------------------------------------------------------------
(* Processes.  DO_CLEAN empties the queue when a leader bootstraps; the    *)
(* workers do not wait for a leader.                                       *)

Start(w, leads) ==
    /\ w \notin up
    /\ up' = up \cup {w}
    /\ IF leads /\ DoClean
       THEN /\ state' = [j \in Jobs |-> "none"]
            /\ lock' = [j \in Jobs |-> NoWorker]
            /\ repeats' = [j \in Jobs |-> 0]
            /\ reads' = [t \in Tx |-> NoAmount]
            /\ recovery' = [s \in Slots |-> NoRecovery]
       ELSE UNCHANGED queue
    /\ UNCHANGED <<money, events, step, job, data, receipt, upsets>>

Crash(w) ==
    /\ Upset
    /\ w \in up
    /\ up' = up \ {w}
    /\ step' = [step EXCEPT ![w] = "idle"]
    /\ job' = [job EXCEPT ![w] = NoJob]
    /\ data' = [data EXCEPT ![w] = NoData]
    /\ receipt' = [receipt EXCEPT ![w] = "none"]
    /\ lock' = [j \in Jobs |-> IF lock[j] = w THEN NoWorker ELSE lock[j]]
    /\ mempool' = Abandoned(w)
    /\ UNCHANGED <<owed, paid, events, state, repeats, reads, recovery>>

-----------------------------------------------------------------------------
Settle(w) ==
    \/ GetCurrentRewards(w) \/ SendUpdate(w) \/ ReceiptArrives(w)
    \/ RecoverUpdateAllocation(w) \/ FinishJob(w)

Faulty(w) == CallFails(w) \/ Hangs(w)

Takes(w) ==
    \/ \E t \in Tx : TakeGet(w, t) \/ TakeUpdate(w, t)
    \/ \E s \in Slots : TakeRecovery(w, s)

Settlement ==
    \/ \E j \in Jobs : JobStalls(j)
    \/ \E w \in Workers : Takes(w) \/ Settle(w) \/ Faulty(w)

Next ==
    \/ Settlement
    \/ UpdateLands \/ UpdateReverts
    \/ \E a \in Addr : Accrue(a)
    \/ \E t \in Tx : Request(t) \/ EnqueueUpdateAllocation(t)
    \/ \E w \in Workers :
          Crash(w) \/ \E leads \in BOOLEAN : Start(w, leads)

(* A call of the discovery failed.                                         *)
DiscoveryUpset == Upset /\ UNCHANGED <<money, events, queue, process>>

Spec == Init /\ [][Next \/ DiscoveryUpset]_vars

-----------------------------------------------------------------------------
(* Correctness.                                                            *)

(* What an update settles is a payment of the abstract specification, of   *)
(* one kind: whatever is sent twice, lands late, is repeated by recovery   *)
(* with a stale amount or is run again after a crash, nobody is paid more  *)
(* than AO accrued, and nothing is taken back.                             *)
Allocation == INSTANCE Payout WITH
    Kinds <- {"relay"},
    owed  <- [a \in Addr |-> [k \in {"relay"} |-> owed[a]]],
    paid  <- [a \in Addr |-> [k \in {"relay"} |-> paid[a]]]
PaysOut == Allocation!PayoutSpec

=============================================================================
