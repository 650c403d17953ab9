------------------------- MODULE RewardsDiscovery -------------------------
(***************************************************************************)
(* The discovery loop of the Hodler mode: RewardsDiscoveryService and the  *)
(* three jobs of DiscoverHodlerEventsQueue.  A BullMQ flow walks the chain *)
(* from a checkpoint kept in MongoDB: job "update" stores UpdateRewards    *)
(* events, job "rewarded" stores Rewarded events of the same block range,  *)
(* job "match" closes the requests a later Rewarded event paid, queues a   *)
(* claim for the others, moves the checkpoint and enqueues the next flow.  *)
(*                                                                         *)
(* Every await of the code that a crash, another process or a block may    *)
(* fall into is a step of its own.                                         *)
(***************************************************************************)
EXTENDS Integers, FiniteSets

CONSTANTS
    Workers,          \* processes that run the leader-only workers
    NoWorker,         \* no process holds the lock of a job
    Tx, Addr,         \* transaction hashes and addresses of requests
    Flows,            \* slots for discovery flows in Redis
    Deployed,         \* HODLER_CONTRACT_DEPLOYED_BLOCK
    MaxRange,         \* MAX_BLOCK_QUERY_RANGE
    MaxRpcRetries,    \* jsonRpcMaxRetries
    MaxStalled,       \* BullMQ maxStalledCount, per job
    MaxLag,           \* blocks by which the RPC node asked may trail the head
    Faults,           \* which calls may fail: a subset of FaultKinds
    SoleWorker,       \* leadership moves only when no other process works
    DoClean,          \* DO_CLEAN
    DoDbNuke,         \* DO_DB_NUKE
    MultiRequestTx,   \* one transaction may carry requests of several addresses
    MaxBlock,         \* bound: last block mined
    MaxUpsets         \* bound: crashes and losses of leadership

FaultKinds == {"rpc", "db", "store", "redis"}

ASSUME DiscoveryAssumption ==
    /\ NoWorker \notin Workers
    /\ Deployed \in Nat \ {0}
    /\ MaxRange \in Nat \ {0}
    /\ MaxRpcRetries \in Nat
    /\ MaxStalled \in Nat
    /\ MaxLag \in Nat
    /\ MaxBlock \in Nat
    /\ MaxUpsets \in Nat
    /\ Faults \subseteq FaultKinds
    /\ {SoleWorker, DoClean, DoDbNuke, MultiRequestTx} \subseteq BOOLEAN

VARIABLES
    head,             \* the chain: number of its last block
    requests,         \* UpdateRewards events emitted so far
    rewards,          \* Rewarded events emitted so far
    stored,           \* documents of the UpdateRewardsEvent collection
    fulfilled,        \* those with fulfilled: true
    retired,          \* those with noReward: true
    storedRewards,    \* documents of the RewardedEvent collection
    checkpoint,       \* lastSafeCompleteBlock; 0 while no document has one
    stage,            \* Redis: which job of the flow is next or running
    jobState,         \* its state; "none" for a free slot
    currentBlock,     \* the currentBlock the flow carries
    range,            \* value returned by the finished child of that job
    stalls,           \* how often that job stalled
    owner,            \* the process holding its lock
    claims,           \* claim flows in the hodler updates queue
    leading,          \* processes whose workers are started
    pc,               \* where each process is
    span,             \* from and to of the job it runs
    todo,             \* requests, events or documents, its loop has yet to visit
    todoRewards,      \* Rewarded events its loop has yet to visit
    unmatched,        \* unmatchedEvents of its match job
    tries,            \* jsonRpcRetryCount
    upsets            \* crashes and losses of leadership so far

chain == <<head, requests, rewards>>
mongo == <<stored, fulfilled, retired, storedRewards, checkpoint>>
redis == <<stage, jobState, currentBlock, range, stalls, owner>>
loops == <<todo, todoRewards, unmatched>>
local == <<pc, span, loops, tries>>
vars  == <<chain, mongo, redis, claims, leading, local, upsets>>

Request == [tx : Tx, addr : Addr, block : Nat]
Reward  == [addr : Addr, block : Nat]
Claim   == [tx : Tx, addr : Addr]
QueryRange == [from : Nat, to : Nat]

(* A child that failed returns undefined; block 0 precedes the contract.   *)
NoRange == [from |-> 0, to |-> 0]

Stages    == {"update", "rewarded", "match"}
JobStates == {"none", "delayed", "waiting", "active"}
Steps     == {"down", "idle", "clean", "nuke", "bootCount", "bootAdd",
              "checkpoint", "queryRequests", "storeRequests",
              "queryRewards", "storeRewards",
              "load", "match", "enqueue", "guard", "write", "count", "add", "added"}

TypeOK ==
    /\ head \in Nat
    /\ requests \subseteq Request
    /\ rewards \subseteq Reward
    /\ stored \subseteq Request
    /\ fulfilled \subseteq Request
    /\ retired \subseteq Request
    /\ storedRewards \subseteq Reward
    /\ checkpoint \in Nat
    /\ stage \in [Flows -> Stages]
    /\ jobState \in [Flows -> JobStates]
    /\ currentBlock \in [Flows -> Nat]
    /\ range \in [Flows -> QueryRange]
    /\ stalls \in [Flows -> Nat]
    /\ owner \in [Flows -> Workers \cup {NoWorker}]
    /\ claims \subseteq Claim
    /\ leading \subseteq Workers
    /\ pc \in [Workers -> Steps]
    /\ span \in [Workers -> QueryRange]
    /\ todo \in [Workers -> SUBSET Request]
    /\ todoRewards \in [Workers -> SUBSET Reward]
    /\ unmatched \in [Workers -> SUBSET Request]
    /\ tries \in [Workers -> Nat]
    /\ upsets \in Nat

Init ==
    /\ head = Deployed
    /\ requests = {} /\ rewards = {}
    /\ stored = {} /\ fulfilled = {} /\ retired = {} /\ storedRewards = {}
    /\ checkpoint = 0
    /\ stage = [f \in Flows |-> "update"]
    /\ jobState = [f \in Flows |-> "none"]
    /\ currentBlock = [f \in Flows |-> 0]
    /\ range = [f \in Flows |-> NoRange]
    /\ stalls = [f \in Flows |-> 0]
    /\ owner = [f \in Flows |-> NoWorker]
    /\ claims = {}
    /\ leading = {}
    /\ pc = [w \in Workers |-> "down"]
    /\ span = [w \in Workers |-> NoRange]
    /\ todo = [w \in Workers |-> {}]
    /\ todoRewards = [w \in Workers |-> {}]
    /\ unmatched = [w \in Workers |-> {}]
    /\ tries = [w \in Workers |-> 0]
    /\ upsets = 0

-----------------------------------------------------------------------------
(* Ethereum (external): a block is mined, with the requests of at most one *)
(* transaction and the Rewarded event of at most one settled claim.        *)

RequestBatches(b) ==
    {{[tx |-> t, addr |-> a, block |-> b] : a \in A} :
        t \in {u \in Tx : \A r \in requests : r.tx # u},
        A \in {B \in SUBSET Addr : B # {} /\ (MultiRequestTx \/ \A x, y \in B : x = y)}}

Mine ==
    /\ head < MaxBlock
    /\ head' = head + 1
    /\ \E batch \in {{}} \cup RequestBatches(head + 1),
          paid \in {{}} \cup {{c} : c \in claims} :
            /\ requests' = requests \cup batch
            /\ rewards' = rewards \cup {[addr |-> c.addr, block |-> head + 1] : c \in paid}
            /\ claims' = claims \ paid
    /\ UNCHANGED <<mongo, redis, leading, local, upsets>>

(* onHodlerUpdateRewards: the live WebSocket event, on a leader only.      *)
LiveEvent(r) ==
    /\ r.block = head
    /\ leading # {}
    /\ claims' = claims \cup {[tx |-> r.tx, addr |-> r.addr]}
    /\ UNCHANGED <<chain, mongo, redis, leading, local, upsets>>

(* A claim that ends without a Rewarded event: when every reward read was  *)
(* authoritative the request is retired (markUpdateRewardsEventNoReward),  *)
(* otherwise it is left for the next cycle.                                *)
ClaimRetires(c) ==
    /\ claims' = claims \ {c}
    /\ LET doc == {r \in stored \ fulfilled : r.tx = c.tx /\ r.addr = c.addr}
       IN  /\ fulfilled' = fulfilled \cup doc
           /\ retired' = retired \cup doc
    /\ UNCHANGED <<chain, stored, storedRewards, checkpoint, redis, leading, local, upsets>>

ClaimGivesUp(c) ==
    /\ claims' = claims \ {c}
    /\ UNCHANGED <<chain, mongo, redis, leading, local, upsets>>

-----------------------------------------------------------------------------
(* Redis, as BullMQ keeps it.                                              *)

InState(S) == {f \in Flows : jobState[f] \in S}
LiveFlows  == InState({"delayed", "waiting", "active"})
Quiet(w)   == pc[w] \in {"down", "idle"}

(* The job of w is over.  While w still holds its lock the flow moves on   *)
(* with the job's value; once the lock is lost BullMQ refuses the result.  *)
Finish(w, value) ==
    /\ pc' = [pc EXCEPT ![w] = "idle"]
    /\ span' = [span EXCEPT ![w] = NoRange]
    /\ todo' = [todo EXCEPT ![w] = {}]
    /\ todoRewards' = [todoRewards EXCEPT ![w] = {}]
    /\ unmatched' = [unmatched EXCEPT ![w] = {}]
    /\ tries' = [tries EXCEPT ![w] = 0]
    /\ stage' = [f \in Flows |-> IF owner[f] # w THEN stage[f]
                                 ELSE IF stage[f] = "update" THEN "rewarded"
                                 ELSE IF stage[f] = "rewarded" THEN "match" ELSE "update"]
    /\ jobState' = [f \in Flows |-> IF owner[f] # w THEN jobState[f]
                                    ELSE IF stage[f] = "match" THEN "none" ELSE "waiting"]
    /\ range' = [f \in Flows |-> IF owner[f] = w THEN value ELSE range[f]]
    /\ stalls' = [f \in Flows |-> IF owner[f] = w THEN 0 ELSE stalls[f]]
    /\ owner' = [f \in Flows |-> IF owner[f] = w THEN NoWorker ELSE owner[f]]
    /\ currentBlock' = [f \in Flows |-> IF owner[f] = w THEN 0 ELSE currentBlock[f]]

DelayExpires(f) ==
    /\ jobState[f] = "delayed"
    /\ jobState' = [jobState EXCEPT ![f] = "waiting"]
    /\ UNCHANGED <<chain, mongo, stage, currentBlock, range, stalls, owner, claims, leading, local, upsets>>

(* A started worker takes a job.  One job at a time per process.           *)
Take(w, f) ==
    /\ w \in leading
    /\ pc[w] = "idle"
    /\ jobState[f] = "waiting"
    /\ jobState' = [jobState EXCEPT ![f] = "active"]
    /\ owner' = [owner EXCEPT ![f] = w]
    /\ pc' = [pc EXCEPT ![w] = CASE stage[f] = "update"   -> "checkpoint"
                                 [] stage[f] = "rewarded" -> "queryRewards"
                                 [] stage[f] = "match"    -> "load"]
    /\ span' = [span EXCEPT ![w] = IF stage[f] = "update"
                                   THEN [from |-> 0, to |-> currentBlock[f]]
                                   ELSE range[f]]
    /\ UNCHANGED <<chain, mongo, stage, currentBlock, range, stalls, claims, leading,
                   loops, tries, upsets>>

(* The lock of an active job expired: its process crashed or, when several *)
(* processes may work, was cut off from Redis.  The job runs again from    *)
(* its start, or fails for good and its parents wait for it for ever,      *)
(* which no count of the queue sees: the slot is free.                     *)
JobStalls(f) ==
    /\ jobState[f] = "active"
    /\ owner[f] = NoWorker \/ ~SoleWorker
    /\ owner' = [owner EXCEPT ![f] = NoWorker]
    /\ IF stalls[f] < MaxStalled
       THEN /\ jobState' = [jobState EXCEPT ![f] = "waiting"]
            /\ stalls' = [stalls EXCEPT ![f] = @ + 1]
            /\ UNCHANGED <<stage, currentBlock, range>>
       ELSE /\ jobState' = [jobState EXCEPT ![f] = "none"]
            /\ stalls' = [stalls EXCEPT ![f] = 0]
            /\ stage' = [stage EXCEPT ![f] = "update"]
            /\ currentBlock' = [currentBlock EXCEPT ![f] = 0]
            /\ range' = [range EXCEPT ![f] = NoRange]
    /\ UNCHANGED <<chain, mongo, claims, leading, local, upsets>>

-----------------------------------------------------------------------------
(* Job "update": getLastSafeCompleteBlockNumber, then                      *)
(* discoverUpdateRewardsEvents from there to the block the flow carries.   *)

(* Mutant: steps one block back, without the default for a first run.      *)
ReadCheckpointBefore(w) ==
    /\ pc[w] = "checkpoint"
    /\ span' = [span EXCEPT ![w] = [from |-> checkpoint - 1, to |-> @.to]]
    /\ pc' = [pc EXCEPT ![w] = "queryRequests"]
    /\ UNCHANGED <<chain, mongo, redis, claims, leading, loops, tries, upsets>>

ReadCheckpoint(w) ==
    /\ pc[w] = "checkpoint"
    /\ checkpoint' = IF checkpoint = 0 THEN Deployed ELSE checkpoint
    /\ span' = [span EXCEPT ![w] = [from |-> checkpoint', to |-> @.to]]
    /\ pc' = [pc EXCEPT ![w] = "queryRequests"]
    /\ UNCHANGED <<chain, stored, fulfilled, retired, storedRewards, redis, claims, leading,
                   loops, tries, upsets>>

Capped(s) ==
    [from |-> s.from, to |-> IF s.to - s.from > MaxRange THEN s.from + MaxRange ELSE s.to]

(* Mutant: the block of the checkpoint itself is taken for done.           *)
VisibleAfter(events, s, lag) ==
    {e \in events : s.from < e.block /\ e.block <= s.to /\ e.block <= head - lag}

(* What queryFilter returns: a node behind the head knows fewer blocks and *)
(* answers with what it has.                                               *)
Visible(events, s, lag) ==
    {e \in events : s.from <= e.block /\ e.block <= s.to /\ e.block <= head - lag}

QueryRequests(w) ==
    /\ pc[w] = "queryRequests"
    /\ span' = [span EXCEPT ![w] = Capped(span[w])]
    /\ \E lag \in 0..MaxLag :
          todo' = [todo EXCEPT ![w] = Visible(requests, Capped(span[w]), lag)]
    /\ pc' = [pc EXCEPT ![w] = "storeRequests"]
    /\ UNCHANGED <<chain, mongo, redis, claims, leading, todoRewards, unmatched, tries, upsets>>

(* findOne by transaction hash alone, then create.  An error of create is  *)
(* logged and the event counted as known.                                  *)
StoreRequest(w) ==
    /\ pc[w] = "storeRequests"
    /\ \E r \in todo[w] :
          /\ todo' = [todo EXCEPT ![w] = @ \ {r}]
          /\ \/ stored' = IF \E d \in stored : d.tx = r.tx THEN stored ELSE stored \cup {r}
             \/ "store" \in Faults /\ stored' = stored
    /\ UNCHANGED <<chain, fulfilled, retired, storedRewards, checkpoint, redis, claims, leading,
                   pc, span, todoRewards, unmatched, tries, upsets>>

(* Mutant: the job does not wait for the stores it started.                *)
FinishUpdateEarly(w) ==
    /\ pc[w] = "storeRequests"
    /\ Finish(w, span[w])
    /\ UNCHANGED <<chain, mongo, claims, leading, upsets>>

FinishUpdate(w) ==
    /\ pc[w] = "storeRequests" /\ todo[w] = {}
    /\ Finish(w, span[w])
    /\ UNCHANGED <<chain, mongo, claims, leading, upsets>>

-----------------------------------------------------------------------------
(* Job "rewarded": discoverRewardedEvents over the range its child         *)
(* returned, or nothing when the child failed.                             *)

QueryRewards(w) ==
    /\ pc[w] = "queryRewards" /\ span[w] # NoRange
    /\ \E lag \in 0..MaxLag :
          todoRewards' = [todoRewards EXCEPT ![w] = Visible(rewards, span[w], lag)]
    /\ pc' = [pc EXCEPT ![w] = "storeRewards"]
    /\ UNCHANGED <<chain, mongo, redis, claims, leading, span, todo, unmatched, tries, upsets>>

StoreReward(w) ==
    /\ pc[w] = "storeRewards"
    /\ \E e \in todoRewards[w] :
          /\ todoRewards' = [todoRewards EXCEPT ![w] = @ \ {e}]
          /\ \/ storedRewards' = storedRewards \cup {e}
             \/ "store" \in Faults /\ storedRewards' = storedRewards
    /\ UNCHANGED <<chain, stored, fulfilled, retired, checkpoint, redis, claims, leading,
                   pc, span, todo, unmatched, tries, upsets>>

FinishRewarded(w) ==
    /\ \/ pc[w] = "storeRewards" /\ todoRewards[w] = {}
       \/ pc[w] = "queryRewards" /\ span[w] = NoRange
    /\ Finish(w, span[w])
    /\ UNCHANGED <<chain, mongo, claims, leading, upsets>>

(* An exception in either job is caught there and the job returns          *)
(* undefined.  A node asked for a range that ends before it starts may     *)
(* refuse it.                                                              *)
DiscoverFails(w) ==
    /\ \/ pc[w] \in {"queryRequests", "queryRewards"} /\ "rpc" \in Faults
       \/ pc[w] \in {"checkpoint", "storeRequests", "storeRewards"} /\ "db" \in Faults
       \/ pc[w] \in {"queryRequests", "queryRewards"} /\ span[w].to < span[w].from
    /\ Finish(w, NoRange)
    /\ UNCHANGED <<chain, mongo, claims, leading, upsets>>

-----------------------------------------------------------------------------
(* Job "match": matchDiscoveredHodlerEvents, then always the next flow.    *)

LoadUnfulfilled(w) ==
    /\ pc[w] = "load" /\ span[w] # NoRange
    /\ todo' = [todo EXCEPT ![w] = stored \ fulfilled]
    /\ pc' = [pc EXCEPT ![w] = "match"]
    /\ UNCHANGED <<chain, mongo, redis, claims, leading, span, todoRewards, unmatched, tries, upsets>>

(* Mutant: a payment in the block of the request counts for it.            *)
PaidSince(r) == \E e \in storedRewards : e.addr = r.addr /\ e.block >= r.block

PaidLater(r) == \E e \in storedRewards : e.addr = r.addr /\ e.block > r.block

(* One document of the snapshot: saved as fulfilled when a Rewarded event  *)
(* of a later block names its address.  Saving a document that was deleted *)
(* since it was loaded throws, see MatchFails.                             *)
MatchRequest(w) ==
    /\ pc[w] = "match"
    /\ \E r \in todo[w] :
          /\ todo' = [todo EXCEPT ![w] = @ \ {r}]
          /\ \/ /\ PaidLater(r)
                /\ r \in stored
                /\ fulfilled' = fulfilled \cup {r}
                /\ UNCHANGED unmatched
             \/ /\ ~PaidLater(r)
                /\ unmatched' = [unmatched EXCEPT ![w] = @ \cup {r}]
                /\ UNCHANGED fulfilled
    /\ UNCHANGED <<chain, stored, retired, storedRewards, checkpoint, redis, claims, leading,
                   pc, span, todoRewards, tries, upsets>>

MatchingDone(w) ==
    /\ pc[w] = "match" /\ todo[w] = {}
    /\ pc' = [pc EXCEPT ![w] = "enqueue"]
    /\ UNCHANGED <<chain, mongo, redis, claims, leading, span, loops, tries, upsets>>

(* uniqBy keeps one unmatched document per address, the first in the order *)
(* find returned them, which the code does not fix.                        *)
EnqueueClaim(w) ==
    /\ pc[w] = "enqueue"
    /\ \E r \in unmatched[w] :
          /\ claims' = claims \cup {[tx |-> r.tx, addr |-> r.addr]}
          /\ unmatched' = [unmatched EXCEPT ![w] = {u \in @ : u.addr # r.addr}]
    /\ UNCHANGED <<chain, mongo, redis, leading, pc, span, todo, todoRewards, tries, upsets>>

EnqueueingDone(w) ==
    /\ pc[w] = "enqueue" /\ unmatched[w] = {}
    /\ pc' = [pc EXCEPT ![w] = "guard"]
    /\ UNCHANGED <<chain, mongo, redis, claims, leading, span, loops, tries, upsets>>

(* Mutant: the checkpoint is written without being read.                   *)
SkipGuard(w) ==
    /\ pc[w] = "guard"
    /\ pc' = [pc EXCEPT ![w] = "write"]
    /\ UNCHANGED <<chain, mongo, redis, claims, leading, span, loops, tries, upsets>>

(* setLastSafeCompleteBlockNumber: the largest checkpoint is read, then    *)
(* every document is overwritten.                                          *)
GuardCheckpoint(w) ==
    /\ pc[w] = "guard"
    /\ pc' = [pc EXCEPT ![w] = IF span[w].to < checkpoint THEN "count" ELSE "write"]
    /\ UNCHANGED <<chain, mongo, redis, claims, leading, span, loops, tries, upsets>>

WriteCheckpoint(w) ==
    /\ pc[w] = "write"
    /\ checkpoint' = span[w].to
    /\ pc' = [pc EXCEPT ![w] = "count"]
    /\ UNCHANGED <<chain, stored, fulfilled, retired, storedRewards, redis, claims, leading,
                   span, loops, tries, upsets>>

(* Matching is skipped without a range, and left on an exception.          *)
MatchFails(w) ==
    /\ \/ pc[w] = "load" /\ span[w] = NoRange
       \/ pc[w] \in {"load", "match", "guard", "write"} /\ "db" \in Faults
       \/ pc[w] = "enqueue" /\ "redis" \in Faults
       \/ pc[w] = "match" /\ ~(todo[w] \subseteq stored)
    /\ pc' = [pc EXCEPT ![w] = "count"]
    /\ todo' = [todo EXCEPT ![w] = {}]
    /\ unmatched' = [unmatched EXCEPT ![w] = {}]
    /\ UNCHANGED <<chain, mongo, redis, claims, leading, span, todoRewards, tries, upsets>>

-----------------------------------------------------------------------------
(* enqueueDiscoverHodlerEventsFlow, called by the match job ("count",      *)
(* "add") and by the bootstrap of a leader ("bootCount", "bootAdd").       *)

Booting(w) == pc[w] \in {"bootCount", "bootAdd"}

(* The call returned: the match job ends, or the bootstrap does.           *)
CallReturns(w) ==
    IF Booting(w)
    THEN /\ pc' = [pc EXCEPT ![w] = "idle"]
         /\ tries' = [tries EXCEPT ![w] = 0]
         /\ UNCHANGED <<redis, span, loops>>
    ELSE Finish(w, NoRange)

(* Mutants: delayed jobs are left out; the match job counts itself.        *)
CountedWaiting(w) == InState({"waiting"} \cup (IF Booting(w) THEN {"active"} ELSE {}))
CountedActive(w)  == InState({"waiting", "delayed", "active"})

(* The match job does not count active jobs: it is one of them.  The       *)
(* numbers are awaited one after the other and are one step here: only a   *)
(* started worker that asks for a job moves one from state to state, and   *)
(* the one that counts is busy or not started.  (With SoleWorker there is  *)
(* no other; another could make the count miss a job, and so add a flow.)  *)
Counted(w) == InState({"waiting", "delayed"} \cup (IF Booting(w) THEN {"active"} ELSE {}))

CountJobs(w) ==
    /\ pc[w] \in {"count", "bootCount"}
    /\ IF Counted(w) # {}
       THEN CallReturns(w)
       ELSE /\ pc' = [pc EXCEPT ![w] = IF Booting(w) THEN "bootAdd" ELSE "add"]
            /\ UNCHANGED <<redis, span, loops, tries>>
    /\ UNCHANGED <<chain, mongo, claims, leading, upsets>>

(* getBlockNumber answered and the flow is added, delayed by an hour or    *)
(* not at all.  The match job still has to end.                            *)
AddFlow(w) ==
    /\ pc[w] \in {"add", "bootAdd"}
    /\ \E f \in InState({"none"}), lag \in 0..MaxLag :
          /\ lag <= head
          /\ stage' = [stage EXCEPT ![f] = "update"]
          /\ jobState' = [jobState EXCEPT ![f] = IF Booting(w) THEN "waiting" ELSE "delayed"]
          /\ currentBlock' = [currentBlock EXCEPT ![f] = head - lag]
          /\ range' = [range EXCEPT ![f] = NoRange]
    /\ pc' = [pc EXCEPT ![w] = IF Booting(w) THEN "idle" ELSE "added"]
    /\ tries' = [tries EXCEPT ![w] = 0]
    /\ UNCHANGED <<chain, mongo, stalls, owner, claims, leading, span, loops, upsets>>

FinishMatch(w) ==
    /\ pc[w] = "added"
    /\ Finish(w, NoRange)
    /\ UNCHANGED <<chain, mongo, claims, leading, upsets>>

(* getBlockNumber failed.  The callers leave jsonRpcSleepMs and            *)
(* jsonRpcMaxRetries unset, so the call is repeated at once, counting the  *)
(* queue again, and after the last retry it returns without a flow.        *)
BlockNumberFails(w) ==
    /\ pc[w] \in {"add", "bootAdd"}
    /\ "rpc" \in Faults
    /\ IF tries[w] >= MaxRpcRetries
       THEN CallReturns(w)
       ELSE /\ tries' = [tries EXCEPT ![w] = @ + 1]
            /\ pc' = [pc EXCEPT ![w] = IF Booting(w) THEN "bootCount" ELSE "count"]
            /\ UNCHANGED <<redis, span, loops>>
    /\ UNCHANGED <<chain, mongo, claims, leading, upsets>>

(* Redis failed under the match job: the exception leaves finally, and the *)
(* job fails with it.  Under a bootstrap it ends the process, see Crash.   *)
EnqueueThrows(w) ==
    /\ pc[w] \in {"count", "add"}
    /\ "redis" \in Faults
    /\ Finish(w, NoRange)
    /\ UNCHANGED <<chain, mongo, claims, leading, upsets>>

-----------------------------------------------------------------------------
(* Processes.  A process that wins the election while it bootstraps cleans *)
(* up and enqueues the first flow; its workers start after its bootstrap.  *)
(* One elected later only starts its workers.                              *)

MayLead(w) == SoleWorker => leading = {} /\ \A v \in Workers \ {w} : Quiet(v)

StartLeading(w) ==
    /\ pc[w] = "down"
    /\ MayLead(w)
    /\ leading' = leading \cup {w}
    /\ pc' = [pc EXCEPT ![w] = "clean"]
    /\ UNCHANGED <<chain, mongo, redis, claims, span, loops, tries, upsets>>

StartStandby(w) ==
    /\ pc[w] = "down"
    /\ pc' = [pc EXCEPT ![w] = "idle"]
    /\ UNCHANGED <<chain, mongo, redis, claims, leading, span, loops, tries, upsets>>

Elect(w) ==
    /\ pc[w] # "down" /\ w \notin leading
    /\ MayLead(w)
    /\ leading' = leading \cup {w}
    /\ UNCHANGED <<chain, mongo, redis, claims, local, upsets>>

(* onApplicationBootstrap of a leader.  DO_CLEAN empties this queue and,   *)
(* in EventsService, the hodler updates queue.                             *)
CleanQueues(w) ==
    /\ pc[w] = "clean"
    /\ pc' = [pc EXCEPT ![w] = "nuke"]
    /\ IF DoClean
       THEN /\ claims' = {}
            /\ jobState' = [f \in Flows |-> "none"]
            /\ owner' = [f \in Flows |-> NoWorker]
            /\ stalls' = [f \in Flows |-> 0]
       ELSE UNCHANGED <<claims, jobState, owner, stalls>>
    /\ UNCHANGED <<chain, mongo, stage, currentBlock, range, leading,
                   span, loops, tries, upsets>>

NukeRequests(w) ==
    /\ pc[w] = "nuke"
    /\ pc' = [pc EXCEPT ![w] = "bootCount"]
    /\ IF DoDbNuke
       THEN stored' = {} /\ fulfilled' = {} /\ retired' = {}
       ELSE UNCHANGED <<stored, fulfilled, retired>>
    /\ UNCHANGED <<chain, storedRewards, checkpoint, redis, claims, leading,
                   span, loops, tries, upsets>>

Crash(w) ==
    /\ upsets < MaxUpsets
    /\ upsets' = upsets + 1
    /\ pc[w] # "down"
    /\ pc' = [pc EXCEPT ![w] = "down"]
    /\ leading' = leading \ {w}
    /\ owner' = [f \in Flows |-> IF owner[f] = w THEN NoWorker ELSE owner[f]]
    /\ span' = [span EXCEPT ![w] = NoRange]
    /\ todo' = [todo EXCEPT ![w] = {}]
    /\ todoRewards' = [todoRewards EXCEPT ![w] = {}]
    /\ unmatched' = [unmatched EXCEPT ![w] = {}]
    /\ tries' = [tries EXCEPT ![w] = 0]
    /\ UNCHANGED <<chain, mongo, stage, jobState, currentBlock, range, stalls, claims>>

(* Leadership is lost: the workers pause after the job in flight.          *)
Demote(w) ==
    /\ upsets < MaxUpsets
    /\ upsets' = upsets + 1
    /\ w \in leading
    /\ leading' = leading \ {w}
    /\ UNCHANGED <<chain, mongo, redis, claims, local>>

-----------------------------------------------------------------------------
UpdateJob(w) ==
    \/ ReadCheckpoint(w) \/ QueryRequests(w) \/ StoreRequest(w) \/ FinishUpdate(w)

RewardedJob(w) ==
    \/ QueryRewards(w) \/ StoreReward(w) \/ FinishRewarded(w)

MatchJob(w) ==
    \/ LoadUnfulfilled(w) \/ MatchRequest(w) \/ MatchingDone(w)
    \/ EnqueueClaim(w) \/ EnqueueingDone(w) \/ GuardCheckpoint(w) \/ WriteCheckpoint(w)

EnqueueFlow(w) ==
    \/ CountJobs(w) \/ AddFlow(w) \/ FinishMatch(w)

Faulty(w) ==
    \/ DiscoverFails(w) \/ MatchFails(w) \/ BlockNumberFails(w) \/ EnqueueThrows(w)

Bootstrap(w) == CleanQueues(w) \/ NukeRequests(w)

Process(w) ==
    \/ StartLeading(w) \/ StartStandby(w) \/ Elect(w) \/ Crash(w) \/ Demote(w)

Environment ==
    \/ Mine
    \/ \E r \in requests : LiveEvent(r)
    \/ \E c \in claims : ClaimRetires(c) \/ ClaimGivesUp(c)

Next ==
    \/ Environment
    \/ \E f \in Flows : DelayExpires(f) \/ JobStalls(f)
    \/ \E w \in Workers :
          \/ \E f \in Flows : Take(w, f)
          \/ UpdateJob(w) \/ RewardedJob(w) \/ MatchJob(w)
          \/ EnqueueFlow(w) \/ Faulty(w)
          \/ Bootstrap(w) \/ Process(w)

Spec == Init /\ [][Next]_vars

(* What is running is run on: the event loop turns, a delay runs out, a    *)
(* lost lock is noticed, Nomad restarts a process, Consul has a leader.    *)
(* Whether a call fails, and whether blocks are mined, is left open.       *)
Fairness ==
    /\ \A f \in Flows : WF_vars(DelayExpires(f)) /\ WF_vars(JobStalls(f))
    /\ \A w \in Workers :
          /\ WF_vars(\E f \in Flows : Take(w, f))
          /\ WF_vars(UpdateJob(w) \/ RewardedJob(w) \/ MatchJob(w) \/ EnqueueFlow(w)
                     \/ Bootstrap(w) \/ Faulty(w))
          /\ WF_vars(StartLeading(w) \/ StartStandby(w))
          /\ WF_vars(Elect(w))

FairSpec == Spec /\ Fairness

-----------------------------------------------------------------------------
(* Correctness.                                                            *)

(* The checkpoint never passes a request the database does not hold: what  *)
(* lies below lastSafeCompleteBlock is never queried again, so a request   *)
(* missed there would never be discovered.  Holds for any number of        *)
(* concurrent flows and crashes between any two steps.                     *)
NoRequestSkipped ==
    \A r \in requests : r.block < checkpoint => r \in stored

(* A stored request whose address was paid in a later block below the      *)
(* checkpoint is closed; otherwise it would be claimed again every hour.   *)
PaidRequestsClosed ==
    \A r \in stored :
        (\E e \in rewards : e.addr = r.addr /\ r.block < e.block /\ e.block < checkpoint)
            => r \in fulfilled

(* No request is closed without cause: its address was paid on chain after *)
(* the request, or the rewards processes reported that it has nothing.     *)
ClosedWithCause ==
    \A r \in fulfilled :
        r \in retired \/ \E e \in rewards : e.addr = r.addr /\ e.block > r.block

(* To whoever relies on it the loop is a register of requests, complete up *)
(* to the checkpoint: nothing recorded is forgotten, nothing closed is     *)
(* opened again, and nothing is closed but for a payment or a retirement.  *)
Payments == {p \in [request : requests, block : {e.block : e \in rewards}] :
                \E e \in rewards : /\ e.addr = p.request.addr /\ e.block = p.block
                                   /\ p.request.block < p.block}

Register == INSTANCE RequestRegister WITH
    emitted <- requests, payments <- Payments, known <- stored, closed <- fulfilled,
    retired <- retired, horizon <- checkpoint

KeepsRegister == Register!RegisterSpec

(* A flow on its way to its match job.  A second one would double every    *)
(* query and every claim, and it takes two ends of a process to make one:  *)
(* the match job that has added its successor is run again, and does not   *)
(* count that successor because it is active without a process.            *)
Walking == {f \in LiveFlows : stage[f] # "match"}
DoublingCostsCrashes == 2 * (Cardinality(Walking) - 1) <= upsets

(* lastSafeCompleteBlock never moves back, whatever block a flow carries.  *)
CheckpointMonotone == [][checkpoint' >= checkpoint]_vars

(* The loop feeds itself: once a flow exists one always does.  It ends     *)
(* only when a job was interrupted more often than BullMQ allows, or in    *)
(* DO_CLEAN, and nothing else enqueues a flow before the next start of a   *)
(* leader.                                                                 *)
ChainKept ==
    [][LiveFlows # {} /\ LiveFlows' = {}
        => upsets > MaxStalled \/ \E w \in Workers : pc[w] = "clean" /\ pc'[w] = "nuke"]_vars

(* While the loop is alive, every request on chain is in the end closed,   *)
(* or a claim for its address is queued, although live events may be lost. *)
Pending(t, a) == \E r \in requests \ fulfilled : r.tx = t /\ r.addr = a
Claimed(a)    == \E c \in claims : c.addr = a

ChainedRequestsHandled ==
    \A t \in Tx, a \in Addr :
        (Pending(t, a) /\ LiveFlows # {}) ~> (~Pending(t, a) \/ Claimed(a))

-----------------------------------------------------------------------------
(* What one would expect and the code does otherwise.                      *)

(* The queue is counted before a flow is added so that there is one.       *)
SingleChain == \A f, g \in Walking : f = g

(* Why DO_CLEAN may empty the queues when a leader starts: the next cycle  *)
(* queues again whatever is still to be claimed.                           *)
EmptiedQueueRebuilt ==
    \A t \in Tx, a \in Addr :
        (Pending(t, a) /\ DoClean /\ \E w \in Workers : pc[w] = "nuke")
            ~> (~Pending(t, a) \/ Claimed(a))

============================================================================
