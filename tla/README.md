# Facilitator controller: TLA+ verification project

The facilitator controller settles relay and staking rewards of the Anyone
Protocol. In its *Hodler* mode (the one in production) it finds
`UpdateRewards` events of the Hodler contract on Ethereum, asks two AO
processes what the requesting address earned, and pays the difference on
chain with two transactions: `approve()` from the rewards pool, `reward()`
from the operator. A user's request must not be lost and must not be paid
twice, although processes crash, nodes lag, calls time out, BullMQ runs jobs
again and leadership moves. This directory models that code in TLA+, checks it
with TLC and proves its main safety properties with TLAPS. Paths below are
relative to `src/` of the repository; "`src/events/...`" is the TypeScript.

## 1. Inventory

| Component | Source | State it keeps | Operations |
|---|---|---|---|
| Rewards discovery | `src/events/rewards-discovery.service.ts`, `processors/discover-hodler-events-queue.ts` | MongoDB: stored `UpdateRewards` and `Rewarded` events with their flags, the checkpoint `lastSafeCompleteBlock`; Redis: one flow of three jobs | bootstrap with `DO_CLEAN`/`DO_DB_NUKE`, the three jobs, `enqueueDiscoverFlow` |
| Claim settlement | `src/events/events.service.ts` (Hodler part), `processors/hodler-updates-queue.ts` | Redis: a flow of two reads and an update per request, recovery jobs; MongoDB: `totalGasBalance`; chain: allowance, claimed totals | `enqueueUpdateRewards`, the two reads, `updateClaimedRewards`, recovery, gas accounting |
| Cluster leadership | `src/cluster/*.ts` | `sessionId`, `isLeader`; Consul: sessions and the leader key; per worker whether it was started or paused | create and renew a session, acquire, watch, start and pause all workers, shutdown |
| EVM providers | `src/evm-provider/*`, `src/util/resilient-websocket-provider.ts` | per provider the socket `ws`, its `reconnectionAttempts`, `terminate` and `subscriptions`; the current provider and its name | bootstrap with a credits check, connect, reconnect, keep-alive, resubscribe, swap |
| Live event subscription | `subscribeToHodler`, `subscribeToFacilitator` and their handlers in `events.service.ts` | the contracts listened to | subscribe at the bootstrap and after a swap, hand an event to the queues |
| AO reward clients | `src/relay-rewards/*`, `src/staking-rewards/*` | none | message an AO process, read its answer |
| Facility discovery | `src/events/events-discovery.service.ts`, `processors/discover-facilitator-events-queue.ts` | MongoDB: `RequestingUpdate` and `AllocationUpdated` events, the checkpoint; Redis: one flow of three jobs | as the rewards discovery, on the workers of every process; the checkpoint is written without being read |
| Facility updates | `events.service.ts` (Facility part), `processors/facilitator-updates-queue.ts` | Redis: a flow of one read and one update per request, recovery jobs | `enqueueUpdateAllocation`, `getAllocation`, `updateAllocation`, recovery |
| Application shell, utilities, ABIs, deployment | rest | none | wiring, string validation |

How they interact. A live event (`onHodlerUpdateRewards`) and the match job of
every discovery flow both enqueue claims; the queue is the only channel between
discovery and settlement. The chain is the channel back: the `Rewarded` event
of a settled claim is found by a later discovery flow, which closes the
request. A claim that finds nothing to pay closes its request in MongoDB
directly, beside the match job that may hold the same document. Leadership
decides which process runs the workers of both queues. The Facility mode has the
same shape with queues of its own, whose workers run in every process, leader or
not; the `AllocationUpdated` event is its channel back. The live events of both
modes come through one of two WebSocket providers, which reconnect and are
swapped underneath their subscriptions. AO, Ethereum, Consul, BullMQ, MongoDB,
Nomad and the provider companies are external.

What is hard here:

- *Crash and repetition.* BullMQ runs a stalled job again from its start; a
  stalled job may still be running in a process that lost its lock.
- *Atomicity.* The checkpoint is read and written in two steps, the queue is
  counted and added to in two steps, `approve` and `reward` are two
  transactions with one shared allowance between them.
- *Time.* `withTimeout` stops waiting, but neither the send nor the
  transaction stops; both may take effect during a later claim.
- *Partial failure.* One of two reads, one of several stores, a cost that is
  unknown.
- *Staleness.* A node that trails the head, documents loaded before others
  changed them, recovery jobs with the totals of an earlier attempt, a flow
  with the block it was enqueued with, `isLeader` after the session is gone.
- *Callbacks.* The handlers of a socket act on `this.ws`, `this.provider` and the
  counters of the moment they run, when another socket may have been started.
- *Liveness.* The discovery loops live only because every match job queues its
  successor; a standby leads only because its watch wakes up; a listener is only
  heard because somebody subscribes it again.

PROJECT.json lists each of these at its line ("hazards") with the properties
that would notice it going wrong; where the code does not guard against it, so
that no property can hold, with the configuration that shows what happens.

What makes each component correct:

- Discovery: the checkpoint never passes a request that is not stored, and
  never moves back; a request is closed when, and only when, it was paid or had
  nothing; the loop does not end, and a flow more than one takes two
  interruptions; in the end every request is closed or claimed.
- Settlement: nobody is paid more than was accrued; a request is closed unpaid
  only when it had nothing; a reward that was accrued is paid in the end.
- Leadership: one live leader; a standby rests, a leader works; after a crash
  another takes over.
- EVM providers: one socket per provider, which is tried again until the
  attempts run out and never after; one swap per provider that ran out; what was
  subscribed is heard again.
- Facility mode: nobody is paid more than AO accrued; the checkpoint passes no
  request; a request is closed only when its address was paid after it; a
  request that is owed something is served.

## 2. Modules

| Module | Models | Checked by |
|---|---|---|
| `RewardsDiscovery` | the discovery loop, await by await | `MCRewardsDiscovery`, `disc_*` |
| `ClaimSettlement` | the claims, from the enqueue to the receipts | `MCClaimSettlement`, `claim_*` |
| `RewardClients` | what the two AO clients make of an answer; `ClaimSettlement` instantiates it (`Clients`) | `claim_*` |
| `Payout` | abstract specification: what is promised about money; `ClaimSettlement` and `FacilityUpdates` implement it (`PaysOut`) | `claim_retry`, `claim_faults`, `fac_serve` |
| `RequestRegister` | abstract specification: what is promised about requests; `RewardsDiscovery` and `FacilityDiscovery` implement it (`KeepsRegister`) | `disc_split`, `fac_serve` |
| `Leadership` | election in Consul, start and pause of the workers | `MCLeadership`, `lead_*` |
| `EvmProviders` | the two resilient WebSocket providers, the swap between them and the subscriptions on them | `MCEvmProviders`, `prov_*` |
| `FacilityDiscovery` | the discovery loop of the Facility mode | through `Facility` |
| `FacilityUpdates` | the updates of the Facility mode | through `Facility` |
| `Facility` | the composition of the two, with the live event and the chain between them | `MCFacility`, `fac_*` |
| `*Proofs` | theorems about the module they are named after; `RewardsLoopProofs` has those about the flows of `RewardsDiscovery` | TLAPS |

`Facility` composes its two components in full. The others share no variables,
and each abstracts its neighbours to what the code sees of them: discovery lets claims be settled, emptied or fail at any time;
settlement lets requests be discovered again at any time; both let leadership
move, and `SoleWorker` says whether the new leader may start while a job of the
old one is still in flight. `Leadership` justifies that choice: by
`OneLiveLeader` two processes never hold the key at once, but a process whose
session ended, or that is shutting down, may go on working (below). So
`disc_split` and `claim_retry` have two processes at work.

### RewardsDiscovery

`chain` is what Ethereum has emitted, `mongo` the collections and the
checkpoint, `redis` the flows (one slot of `Flows` per flow; a flow is in one of
its three stages, children first), `local` where each process is. An action is
the code between two awaits: `ReadCheckpoint`, `QueryRequests` and
`StoreRequest` are `discoverUpdateRewardsEvents`, `QueryRewards`
and `StoreReward` `discoverRewardedEvents`; `LoadUnfulfilled`, `MatchRequest`,
`EnqueueClaim`, `GuardCheckpoint` and `WriteCheckpoint` are
`matchDiscoveredEvents`; `CountJobs`, `AddFlow` and `FinishMatch` are
`enqueueDiscoverFlow` and the end of the match job. A crash, a
loss of leadership, a stall under a live process, a mined block or a settled
claim may fall between any two. Two queries of one range are separate steps, so
a node may answer the second with more than the first. Mining is bounded by
`MaxBlock`, crashes by `MaxUpsets`.

### ClaimSettlement

A claim is a flow of three jobs per request, and recovery jobs are the members
of `Slots`. `owed` is what AO has accrued (it only grows), `paid` and
`allowance` are the two contracts, `mempool` the transactions that were sent,
in the order of nonces, `hung` the sends whose timeout fired although they go
on. `ClaimRewards` is a child job; `RetireRequest`, `LeaveRequest`, `ReadHodler`,
`SendApprove`, `ReceiptArrives`, `SendReward` and `RebalanceRewardGas` are
`updateClaimedRewards`, one action per await, so a crash, a timeout, a late transaction or another process
may come between any two of them. `Settle` collects them; `RecoverReward` and `RetryReward` are the recovery jobs,
whose add nobody awaits: when Redis refuses it, the job completes all the same and
the recovery is lost (`AddLost`, here and in `FacilityUpdates`).
The two ways a
request comes to the queue are `EnqueueUpdateRewards` and the discovery actions
`Discover` and `DiscoverPaid`, which stand for what `RewardsDiscovery` does to
the same documents.

What a read may return is computed by `RewardClients` (`RelayReads`,
`StakingReads`): the relay process answers with a total, the staking process with
a map per operator that the client sums; text that is no number, an empty answer,
an exception and a rejection other than "No rewards for" all count as a failed
read of zero, and only the process's own rejection counts as having nothing.

Rewards are small numbers: `MaxReward = 1` distinguishes nothing, one
kind, the other kind and both, which is what the branches on sums tell apart
(2 where a difference has to be negative). Delays are not timed: anything
waiting may continue at any time.

### Leadership

`alive`, `holder`, `delayed` and `changed` are Consul (external): the sessions,
the session that holds the leader key, whether the key's lock-delay is running,
and the watches that have a change to tell. Per process there are `session`,
`isLeader`, the calls of `acquireLock` in flight with their answers, the state
of its workers, the jobs they have in flight, and the runs of `pauseAll`.
`acquireLock` is split into what Consul does (`Acquire`) and what the process
does with the answer (`Answered`): several may be in flight because every
change starts one without waiting for the last. `pauseAll` is a step per worker
(`PauseAll`, `PauseNext`), each waiting for a job in flight; a worker that is
paused while its job still runs is not started again by `startAll`, because
BullMQ's `resume` does nothing then. Faults are the
expiry of a session that is still renewed, a failed `createSession`, a lost
answer, and answers out of order. Consul may answer an acquire without a
session by a refusal or an error; the code treats the two differently, so
`InvalidAnswers` leaves both open. The model starts with `IS_LIVE=true` and one
local leader per allocation; without them the code skips the election.

### EvmProviders

A resilient provider (`"primary"`, `"secondary"`) has a set of `Sockets`, each with
the phase it is in and the listeners on the `WebSocketProvider` built over it;
`ws` is `this.ws`, `timers` the `setTimeout`s of `startConnection` that have not
fired, `saved` the tracked subscriptions. `held` is the socket of the one
`WebSocketProvider` that `connect()` returned: the service keeps that object, so
a subscription goes to it, and is heard at once only while that first socket
lives; `Open` is the handler that subscribes everything saved on the next one.
`Open`, `Poll`, `ResubscribeFails`, `Close`, `RateLimited` and `PongMissing` are
the callbacks of a socket, `StartConnection` is the timer's, `SwapProviders` the
service's, and `Subscribes` the two `subscribeTo...` functions, of which one takes
the old listener off and the other does not. A socket may close, fall silent or be
limited (status 429) between any two of them.

### Facility

`FacilityDiscovery` and `FacilityUpdates` are specifications of their own, each
with its neighbour reduced to what it sees of it: `wanted`, the requests with a
flow in the updates queue, and `requested`, the requests on the chain. `Facility`
replaces both by the neighbour's own variables (`INSTANCE ... WITH`) and joins the
actions at the four places where the components meet: a request is mined, an
update is enqueued, an update lands, a process starts or ends. The operator's
wallet sends through the first `WebSocketProvider`, so a send may never return
(`Hangs`); nothing bounds that wait. BullMQ keeps failed jobs and with them their
ids; an id that is taken is not added again.

## 3. Runs

All bounds are constants in the `.cfg`. `CHECK_DEADLOCK FALSE` throughout: with
bounded blocks, crashes and rewards the system really comes to rest, and the
liveness properties say what must have happened by then.

| Run | Question | Shows |
|---|---|---|
| `disc_sole` | one process at a time, a node up to one block behind, one crash at any step | `NoRequestSkipped`, `PaidRequestsClosed`, `CheckpointMonotone`, `ChainKept` |
| `disc_split` | two processes running the same jobs, stalls under live processes, `DO_CLEAN`, failing RPC, database and Redis | `NoRequestSkipped`, `KeepsRegister` |
| `disc_match` | two transactions, two addresses, `DO_CLEAN` and `DO_DB_NUKE` at any start, two interruptions | `ClosedWithCause`, `DoublingCostsCrashes` |
| `disc_live` | one crash, fairness, live events that are all lost | `ChainedRequestsHandled` |
| `claim_retry` | two processes that lead and settle at once; reads, RPC, estimates and writes that fail, recovery jobs that are lost, a request enqueued twice | `ClosedUnpaidHadNothing`, `PaysOut` |
| `claim_faults` | crash at any await, `DO_CLEAN`, hanging sends, receipts that time out, transactions that land late | `NeverOverpaid`, `PaysOut` |
| `claim_live` | one crash, failing calls of the node, a recovery that runs out or is lost; fairness | `RequestPaid` |
| `lead_safe` | two processes of two workers, expiries, failed calls and sessions, answers in any order | `OneLiveLeader`, `StandbyRests` |
| `lead_live` | three sessions, one crash or shutdown, fairness | `OneLiveLeader`, `LeaderWorks`, `StandbyTakesOver`, `HolderLeads` |
| `prov_reconnect` | both providers, two attempts, six upsets of every kind, the secondary one limited; fairness | `OneSocketEach`, `KeepsTrying`, `SwappedOncePerProvider`, `GivenUpIsFinal`, `ListenerReturns` |
| `fac_serve` | the whole Facility mode with one upset of any kind, `DO_CLEAN`; fairness | `NoRequestSkipped`, `ClosedMeansPaid`, `KeepsRegister`, `LoopKept`, `PaysOut`, `RequestServed` |

`disc_sole`, `claim_retry`, `lead_safe`, `prov_reconnect` and `fac_serve` also check
`TypeOK`. Every property has a mutant of a mapped definition that breaks it.

Why the bounds are enough for what the runs ask. The chain is one to three
blocks past the deployment, with ranges of one, two and three blocks: a range
that is cut, one that is not, and one that ends at the checkpoint all occur.
One late block (`MaxLag = 1`) is what the code absorbs, since every range starts
at the block of the checkpoint; with two, `NoRequestSkipped` fails, and the
theorem states that limit as an assumption. While one process works there are at
most two flows more than interruptions (`Budget` in `RewardsLoopProofs`), and the
second of them only while a match job ends behind its successor. The three slots
of `disc_sole` and `disc_live` are therefore all that one interruption can use;
`disc_match`, with two, leaves out an add while three flows are alive.
`disc_match` has the second interruption because `DoublingCostsCrashes` allows a
second flow only then: one interrupts a match job that has added its successor,
the other the successor, which the match job then does not count when it runs
again. `disc_split` has one slot and two processes, which share the runs of its
jobs. Elsewhere one crash reaches every await; a second one
adds the stall limit (`MaxStalled`), which `claim_crashes.cfg` explores.
Slots, processes and requests are interchangeable, so the runs without liveness
use them as symmetries (`SlotSymmetry`, `WorkerSymmetry`, `RequestSymmetry`).
`claim_retry` has two slots for the recovery jobs of a request that is
enqueued once more than needed, with two attempts each, so that recovery is
nested and runs out, and two processes that each lead while the other does
(`SoleWorker = FALSE`), so that both settle the claim at once, one from its flow
and one from a recovery job with older totals. `claim_live` has one process: two
of them with a crash have more states than liveness can be checked for.
`MaxCalls = 2` is two calls of `acquireLock` in flight,
the fewest that can be answered in two orders. In `lead_safe` the sessions
expire under processes that live on; the third session of `lead_live` is that of
a process that was started again after a crash or a shutdown.

`prov_reconnect` has two sockets per provider, the most one has at a time there:
a third would need two limited connections at once. Six upsets are enough for
both providers to run out of two attempts each with two upsets left, and
`MaxListeners` is what six upsets can leave behind. `fac_serve` has one process,
one request and one address, a chain that moves once without an update, and one
upset; three slots for flows (one that is orphaned, its successor and one more)
and two recovery slots of two attempts. A second process multiplies the states
beyond the time a run has; for any number of processes there are the theorems.
Which of two waiting nodes trails (`MaxLag`) and `DO_DB_NUKE` are left to them,
too, as their assumptions. `LoopKept` speaks of the flows that still have a
successor to add or are one (`Continuing`), not of those that are alive: with
several processes a call may fail in a successor before the match job that added
it has returned, and the last flow would then end in a step that did no harm.

### What the code does otherwise

The run `disc_rpc_outage` ends in a violation of `ChainKept`: the 15 minutes
between retries of `enqueueDiscoverFlow` (`rewards-discovery.service.ts:412`) are
a default of a parameter object whose callers pass a partial one, so the retries
follow each other at once and a short outage of the node ends the loop that
README.md:24 says "periodically scans historical blocks".

Besides the runs, this directory keeps configurations that show what the code
does not guarantee; each of them ends in a counterexample of one property
stated in its module:

| Configuration | Property | What happens |
|---|---|---|
| `disc_store_error` | `NoRequestSkipped` | a failed `create` is logged and the range reported as done (`rewards-discovery.service.ts:237`) |
| `disc_multi` | `NoRequestSkipped` | the lookup by transaction hash takes the second request of a transaction for known (`:220`) |
| `disc_double` | `SingleChain` | two interruptions leave two flows, and each feeds itself from then on: every query and every claim is made twice (`:421`) |
| `disc_clean_crash` | `EmptiedQueueRebuilt` | a leader empties the queue and ends before it enqueues a flow; the next leader never enqueues one (`:166`) |
| `claim_overlap` | `PairIntact` | leadership moves while a claim is in flight; the old leader finishes its job, and the new leader's approve replaces the allowance between the other's approve and reward (`events.service.ts:864`; docs/claim-processing.md:8-10 runs "one active worker and a standby" against it) |
| `claim_late` | `LateRewardHarmless` | a reward that lands late takes the allowance of another claim (`events.service.ts:917`) |
| `claim_partial` | `ApproveCoversReward` | a read that failed counts as zero and cancels part of the other kind's difference (`:840`) |
| `claim_nothing` | `NothingToClaimIsClosed` | a request whose rewards were all paid before is enqueued on every cycle (`:849`) |
| `claim_crashes` | `CrashedClaimRerun` | a job that stalls twice fails, and its parent waits for ever (`:696`) |
| `claim_gas` | `GasBooked` | the gas of a claim that fails half-way is never booked (`:981`) |
| `lead_stale` | `ReplacedLeaderStops` | an acquire that fails with an error leaves `isLeader` as it was, and the session is never created again: a leader that missed its renewals keeps working beside the new one (`cluster.service.ts:207`; README.md:97-100: "exactly one process is "the one"") |
| `lead_overlap` | `OneActiveWorker` | a shutdown gives the key up while its workers finish their jobs (`cluster.service.ts:146`) |
| `lead_reorder` | `LeaderWorks` | two answers out of order: a run of `pauseAll` goes on after `startAll` (`leader-only-workers.service.ts:62`) |
| `prov_failover` | `FailoverListens` | the swap goes to a secondary provider whose socket was replaced since, and the listener is attached to the first one, which nobody hears (`evm-provider.service.ts:177`; README.md:81-82: automatic failover) |
| `prov_swap` | `SwapLeavesFailed` | the secondary provider runs out first, the service swaps to it, and stays with it (`:177`) |
| `prov_limited` | `LimitedOneSocket` | status 429 closes a connection twice, and two are started (`resilient-websocket-provider.ts:163`) |
| `prov_shutdown` | `StopsOnlyAfterAttempts` | a server that closes with code 1000 or 1005 ends the reconnecting, and no swap follows (`:72`) |
| `fac_hang` | `WorkerFree` | a send through a socket that was replaced is never answered, and its worker takes no other job (`events.service.ts:277`) |
| `fac_outage` | `LoopGoesOn` | one failed `getBlockNumber` ends the loop (`events-discovery.service.ts:412`) |
| `fac_closed` | `ClosedInFull` | an update read before the last reward accrued is mined after the request and closes it (`:328`) |
| `fac_nothing` | `NothingOwedIsClosed` | a request of an address without rewards is enqueued by every flow (`:357`) |

None of these costs an address more than it is owed: `NeverOverpaid` and, in the
Facility mode, `PaysOut` hold in all of them.

### Fairness

`disc_live` assumes that what is running is run on (Node's event loop), that a
lost lock is noticed (BullMQ's stalled check), that Nomad restarts a process
and that Consul has a leader; `claim_live` adds that a waiting job gets its
turn (some process takes each job: strongly fair, since BullMQ serves first in,
first out, but a worker is busy in between), that miners take what is in the
mempool, and that discovery turns, which is the property of `disc_live`. Its calls of the
node may fail any number of times, but not for ever: reading the contract, sending
the approve and sending the reward are strongly fair, each on its own. Whether a
recovery job is added at all is left open. `disc_live` and `lead_live` have no
faults beside the crash or shutdown; `lead_live` assumes that calls are answered, jobs end,
sessions nobody renews expire, and that other keys of Consul are written:
while the leader key does not exist, a blocking query on it wakes up with the
index of all keys, and that is the only thing that lets a standby that was
refused during the lock-delay try again. Without `OtherKeyWritten`
`StandbyTakesOver` does not hold.

`prov_reconnect` assumes that timers fire, that a connection that is tried is
opened unless it fails, that the keep-alive finds a missing pong of the provider
that must answer, and that Nomad restarts what ended; closing, falling silent,
429 and a refused subscription are never fair. `fac_serve` assumes what
`disc_live` and `claim_live` do together: the event loops turn (a failing call is
a way for a step to end, not one that must happen or must not), delays run out,
lost locks are noticed, waiting jobs get their turn, processes are restarted and
the mempool is mined. Whether AO accrues, a live event is heard or a call fails
is left open.

## 4. Proofs

TLC checks the instances above; TLAPS proves, for every value of the constants
that satisfies the modules' assumptions:

| Theorem | States | Argument |
|---|---|---|
| `RewardsDiscoveryProofs!TypeCorrect` | `Spec => []TypeOK` | one step per action |
| `RewardsDiscoveryProofs!NothingSkipped` | `Careful => (Spec => []NoRequestSkipped)` | `DiscoveryInv` |
| `RewardsDiscoveryProofs!PaidIsClosed` | `Careful => (Spec => []PaidRequestsClosed)` | `DiscoveryInv` |
| `RewardsDiscoveryProofs!ClosedJustified` | `Spec => []ClosedWithCause` | `Causes` |
| `RewardsDiscoveryProofs!NeverMovesBack` | `SoleWorker => (Spec => CheckpointMonotone)` | `Alone`, `Guarded` |
| `RewardsDiscoveryProofs!ImplementsRegister` | `Careful => (Spec => KeepsRegister)` | every step is one of the register, or a stutter (`RegisterStep`) |
| `RewardsLoopProofs!FlowsCostCrashes` | `SoleWorker => (Spec => []DoublingCostsCrashes)` | `Locks`, `Budget` |
| `RewardsLoopProofs!OneFlow` | `SoleWorker => (Spec => [](upsets <= 1 => SingleChain))` | `Locks`, `Budget` |
| `RewardsLoopProofs!LoopFeedsItself` | `Spec => ChainKept`, with `SoleWorker` and neither `rpc` nor `redis` faults | `Locks`, `Interrupted` |
| `RequestRegisterProofs!RegisterTrusted` | `RegisterSpec => []Trusted` | `RegisterInv` |
| `ClaimSettlementProofs!TypeCorrect` | `Spec => []TypeOK` | one step per action |
| `ClaimSettlementProofs!MoneySafe` | `Spec => []NeverOverpaid` | `Backing` |
| `ClaimSettlementProofs!ImplementsPayout` | `Spec => PaysOut` | every step pays one address within what it is owed (`PaysStep`) |
| `ClaimSettlementProofs!ClosedJustified` | `Spec => []ClosedUnpaidHadNothing` | `Closing` |
| `LeadershipProofs!TypeCorrect` | `Spec => []TypeOK` | one step per action |
| `LeadershipProofs!LeaderIsLive` | `Spec => []OneLiveLeader` | `Lease` |
| `LeadershipProofs!StandbyIsPaused` | `Spec => []StandbyRests` | `Rests` |
| `LeadershipProofs!LeaderIsAtWork` | `Spec => []LeaderWorks`, without `reorder` faults | `Lease`, `Awaited`, `InTurn` |
| `EvmProvidersProofs!TypeCorrect` | `Spec => []TypeOK` | one step per action |
| `EvmProvidersProofs!NeverTwoSockets` | `Spec => []OneSocketEach` | `ReconnectInv` |
| `EvmProvidersProofs!NeverAbandoned` | `Spec => []KeepsTrying` | `ReconnectInv` |
| `EvmProvidersProofs!NeverRevived` | `Spec => []GivenUpIsFinal` | `ReconnectInv` |
| `EvmProvidersProofs!OneSwapEach` | `Spec => []SwappedOncePerProvider` | `OneRanOut` |
| `FacilityProofs!TypeCorrect` | `Spec => []TypeOK` | the two components' types |
| `FacilityProofs!ImplementsUpdates` | `Spec => U!Spec` | every step is one of the component, or of its neighbour |
| `FacilityProofs!ImplementsDiscovery` | `Spec => D!Spec` | the same |
| `FacilityProofs!ImplementsPayout` | `Spec => PaysOut` | `Backing` of the Facility mode |
| `FacilityProofs!ClosedWasPaid` | `Spec => []ClosedMeansPaid` | `Observed`, `Settled` |
| `FacilityProofs!NothingSkipped` | `Careful => (Spec => []NoRequestSkipped)` | `Discovered` |
| `FacilityProofs!LoopFeedsItself` | `Spec => LoopKept` | `LoopInv` |
| `FacilityProofs!ImplementsRegister` | `Careful => (Spec => KeepsRegister)` | `Discovered`, `Matched` |

*Discovery.* `NoRequestSkipped` speaks of the checkpoint, which is written from
the block a job got from Redis, which a job before it returned, which an
earlier job read: the request is safe because of what each of them knew.
`DiscoveryInv` says it of every place a block may wait in: whatever range a
flow carries, or a process is working on, or has read but not yet written, has
its requests and rewards stored up to there, except those its loop has yet to
visit. The invariant is stable under everything the others do, because chain
and database only grow. `Careful` are the assumptions it needs: at most one
block of lag, no store that fails silently, no `DO_DB_NUKE`, and one
request per transaction; each is necessary, as `disc_store_error.cfg`,
`disc_multi.cfg` and the two experiments `MaxLag = 2` and `DoDbNuke = TRUE`
show. It holds for any number of processes that all work at once
(`SoleWorker = FALSE`) and any number of crashes. `ClosedWithCause` needs none of
this: what closes a request was stored, and what is stored was read from the
chain (`Causes`). `CheckpointMonotone` does need one process at a time, since the
checkpoint is read and written in two steps: `Guarded` says that whoever is about
to write has not been overtaken, which nobody else can change (`Alone`).

*The register.* What a user relies on can be said without flows, jobs, ranges or
documents: a register of requests that is complete up to a horizon.
`RequestRegister` says it in five steps (a block happens, a request is recorded,
closed, or retired because there was nothing to pay, the horizon advances), and
`RegisterTrusted` shows that these steps alone make it one: below the horizon
nothing is missing and nothing that was paid is open, and above it nothing is made
up. Both loops implement it with the checkpoint as the horizon. The steps that
need an argument are three: a block brings nothing behind the checkpoint, which
is never ahead of the head (`MineHappens`, `BlockHappens`); a request is closed
for a payment that is on the chain and later than itself (`MatchCloses`, from
`Causes` or `Observed`); and the checkpoint moves only to where the match is
complete (`CheckpointAdvances`). For the last one the Facility needs more than
`Discovered`: `Matched` says of every block on its way to the checkpoint that the
updates below it are stored and the requests they serve closed, except those a
loop has yet to visit. `Later` is what makes that stable: a request or update that
comes later comes in a block of its own, and a request stored later is not below a
block whose requests are all stored.

*The loops.* How many flows there are is a matter of counting. `Locks` says that a
process that works holds the lock of exactly one job, in the stage it is at.
`Budget` then charges each flow to an interruption: the flows that are alive, and
once more those among them that were interrupted before their match job, are at
most the interruptions and one, or two while a match job ends behind its
successor. Who is about to add a flow found none waiting or delayed, so what is
on its way beside it is active without a process and was charged twice. An
interruption raises both sides by one at most; only adding a flow raises the left
side alone, which the end of the match job that added it makes up for. That the loop feeds itself needs less: what
stalled too often was interrupted too often (`Interrupted`), and a match job that
added its successor ends before anybody can take that one. `SoleWorker` is
what keeps two processes from counting the same queue, and with failing calls of
the node `disc_rpc_outage` refutes `ChainKept`. In the Facility mode several processes always work at once, and `LoopKept` needs none of
these hypotheses, because a failed call is an upset of its own there and
`Continuing` leaves out what is spent.

*Money.* `NeverOverpaid` speaks of the contract, whose totals come from a
transaction, that comes from a claim, that comes from values a child job
stored or a recovery job carries. `Backing` says of each of these that its
totals are at most what its address is owed; since what is owed only grows, a
transaction may land as late as it likes. Together with the contract's own
rule, that totals are only raised, this gives the refinement of `Payout`.
`Closing` follows `noReward` the same way: whoever carries it belongs to
a request that was made and whose address had nothing at that time.
None of the three needs one process at a time: that two may settle the same claim
costs the rewards pool an allowance (`claim_overlap.cfg`, `claim_late.cfg`), not
money.

*Leadership.* `isLeader` is set from an answer given earlier. `Lease` adds that
an answer that waits keeps what it says as long as its session lives
(`AnswersHold`), that sessions are not shared and that a process starts without
either. `Rests` adds to `StandbyRests` that before a process is up its workers
were not started. Both hold with answers in any order. `LeaderWorks` does not
(`lead_reorder.cfg`); with answers in
order, a process that is refused after it won has lost its session, for which
nothing is won again, so no run of `pauseAll` can meet a `startAll` (`InTurn`).
A worker that is paused while its job runs would stay paused through a
`startAll`; `Awaited` says that a run of `pauseAll` waits for it then, so that
no leader has one.

*Providers.* The safety properties of a provider that is not limited hold
together or not at all: a close event starts one connection because the socket
was the only one (`OneSocketEach`), and it is the last to do so before the
attempts run out because a provider that gave up has no socket left
(`GivenUpIsFinal`). `ReconnectInv` is their conjunction with two facts about the
counters: nothing was started before the bootstrap came to a provider
(`FreshBefore`), and a connection that was made begins to count anew
(`OpenResets`), so that a provider runs out while it is connecting and not
later. `OneRanOut` says which of the two ran out when the name is the second
one's, from which `SwappedOncePerProvider` follows.

*Facility.* Every step of the composition is a step of either component with the
other's variables in the place of its view of the neighbour, or leaves the
component as it is (`UpdatesStep`, `DiscoveryStepOf`); so the invariants of a
component are proved about its own next-state relation and hold in the
composition. `Amounts` and `Backing` are those of the claims: an amount that was read, is
carried by a recovery job or was sent is at most what AO owes its address.
`Observed` says that what a process has read of the chain is on it, wherever it
waits, and `Settled` that a request is closed by an update that is later than
itself. `Discovered` is the Facility's counterpart of `DiscoveryInv`: every block
on its way to the checkpoint, in a flow or in a process, has its
requests stored, except those a loop has yet to visit. The checkpoint is written
without being read, so a flow that was overtaken may move it back; the theorem says
that every block it is ever set to is a safe one, for any number of flows at once.
Its `Careful` has three parts, and each is necessary: `MaxLag = 2`,
`DoDbNuke = TRUE`, and a failing `create` with ranges of two blocks each lead TLC
to a counterexample.

Assumptions: the named `ASSUME`s of the modules (types of constants, all
evaluated by TLC), the two `Careful`s, and what the table says. Nothing else is
assumed.

Only model-checked: liveness (`ChainedRequestsHandled`, `RequestPaid`,
`StandbyTakesOver`, `HolderLeads`, `ListenerReturns` and `RequestServed`; fairness
and `ENABLED` are out of the prover's reach). Every invariant, action property and
refinement that a run finds to hold is also the conclusion of a theorem. What a recursive definition
computes for every input could not be proved with the installed provers; the
modules use none.

## 5. What is not modelled

- *Reorganisations.* The code keeps no confirmations; a model would have to fix
  a depth. Chain actions only append.
- *Requests of several addresses in one transaction* in the Facility mode; what
  happens to them in the Hodler mode is `disc_multi.cfg`.
- *External contracts.* It is assumed, as the code assumes, that the totals a
  claim was paid up to never fall, that `reward()` moves exactly the difference,
  and that `updateAllocation` pays what exceeds the amount claimed; the code of
  the contracts is not in the repository.
- *Gas.* Amounts of gas, price and budget are abstracted to whether the budget
  check passes and whether a mined transaction's cost was booked.
- *removeOnFail.* The queues keep eight failed jobs; the instances never hold
  that many. An eviction frees a stuck claim.
- *A node that lags in `eth_call`.* Claimed totals are read consistently with
  the receipts; a stale one only overestimates the difference, which the
  contract corrects.
- *`IS_LIVE` other than `true`* (no transactions are sent, every process leads)
  and the retries inside ethers and aoconnect.
- *Three sockets of one provider at a time*, see `Poll` in `EvmProviders`, and a
  keep-alive that an older socket stops as it closes, see `CloseConnection`.
- *A WebSocket handshake that never ends*: no `handshakeTimeout` is set
  (`resilient-websocket-provider.ts:102`), so a peer that falls silent in it is
  found by TCP only, which the fairness of `Open` assumes.
- *The three counts of a queue one by one.* `enqueueDiscover...Flow` awaits them
  in turn; they are one step. Only a started worker moves jobs between the states
  that are counted, so with one process at work nothing comes between; where
  several work, a job may be missed, and the loop gets a flow too many.
- *Redis refusing an add at the bootstrap of the Facility mode*, and *a blocking
  query of Consul that fails* (the watch has no listener for `error`,
  `cluster.service.ts:215`): both end the process, for which `Crash` stands.
- *`resetApproval`*, which nobody calls.
- *Shell, utilities, ABIs, deployment*: no state.

## 6. Plan

Done: every component with state has a module. What is left:

1. Composition of `Leadership` with the claims, so that `SoleWorker` becomes a
   consequence of the election and of when a worker stops.
2. `IS_LIVE` other than `true` as a constant of `Leadership` and `FacilityUpdates`.
