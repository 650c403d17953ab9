------------------------ MODULE FacilityDiscovery ------------------------
(***************************************************************************)
(* The discovery loop of the Facility mode: EventsDiscoveryService and the *)
(* three jobs of DiscoverFacilitatorEventsQueue, which the workers of      *)
(* every process take.  It is the older sibling of RewardsDiscovery: the   *)
(* checkpoint is written without being read, the next flow is not retried, *)
(* and a request is closed by an AllocationUpdated event only.             *)
(*                                                                         *)
(* The chain and the updates queue are external here; Facility puts        *)
(* FacilityUpdates in the place of the queue.  A transaction requests an   *)
(* update for one address.                                                 *)
(***************************************************************************)
EXTENDS Integers, FiniteSets

CONSTANTS
    Workers,          \* processes
    NoWorker,         \* no process holds the lock of a job
    Tx, Addr,         \* transactions that request an update, and addresses
    Requester,        \* the address each of them asks for
    Flows,            \* slots for discovery flows in Redis
    Deployed,         \* FACILITY_CONTRACT_DEPLOYED_BLOCK
    MaxRange,         \* MAX_BLOCK_QUERY_RANGE
    MaxStalled,       \* BullMQ maxStalledCount, per job
    MaxLag,           \* blocks by which the RPC node asked may trail the head
    Faults,           \* which calls may fail
    DoClean,          \* DO_CLEAN
    DoDbNuke,         \* DO_DB_NUKE
    MaxBlock,         \* bound: last block mined without an update
    MaxUpsets         \* bound: crashes and calls that fail

(* What the constants are; Facility assumes it.                            *)
FacilityDiscoveryAssumption ==
    /\ NoWorker \notin Workers
    /\ Requester \in [Tx -> Addr]
    /\ Deployed \in Nat \ {0}
    /\ {MaxRange, MaxStalled, MaxLag, MaxBlock, MaxUpsets} \subseteq Nat
    /\ {DoClean, DoDbNuke} \subseteq BOOLEAN

VARIABLES
    head,             \* the chain: number of its last block
    asked,            \* block of the RequestingUpdate event of each transaction, or 0
    updates,          \* AllocationUpdated events emitted so far
    stored,           \* documents of the RequestingUpdateEvent collection
    fulfilled,        \* those with fulfilled: true
    storedUpdates,    \* documents of the AllocationUpdatedEvent collection
    checkpoint,       \* lastSafeCompleteBlock; 0 while no document has one
    stage,            \* Redis: which job of the flow is next or running
    jobState,         \* its state; "none" for a free slot
    currentBlock,     \* the currentBlock the flow carries
    range,            \* value returned by the finished child of that job
    stalls,           \* how often that job stalled
    owner,            \* the process holding its lock
    wanted,           \* requests with a flow in the facilitator updates queue
    pc,               \* where the worker of each process is
    span,             \* from and to of the job it runs
    todo,             \* events its loop has yet to store
    unmatched,        \* requests its match job has yet to enqueue
    boot,             \* where the bootstrap of each process is
    upsets            \* crashes and failed calls so far

chain == <<head, asked, updates>>
mongo == <<stored, fulfilled, storedUpdates, checkpoint>>
redis == <<stage, jobState, currentBlock, range, stalls, owner>>
work  == <<pc, span, todo, unmatched>>
local == <<work, boot>>
vars  == <<chain, mongo, redis, wanted, local, upsets>>

Update == [addr : Addr, block : Nat]
Range  == [from : Nat, to : Nat]

(* A child that failed returns undefined; block 0 precedes the contract.   *)
NoRange == [from |-> 0, to |-> 0]

Stages    == {"requesting", "allocation", "match"}
JobStates == {"none", "delayed", "waiting", "active"}
Steps     == {"idle", "checkpoint", "query", "store", "queryUpdates", "storeUpdates",
              "match", "enqueue", "count", "add", "added"}
Boots     == {"down", "nuke", "count", "add", "up"}

TypeOK ==
    /\ head \in Nat
    /\ asked \in [Tx -> Nat]
    /\ updates \subseteq Update
    /\ stored \subseteq Tx
    /\ fulfilled \subseteq Tx
    /\ storedUpdates \subseteq Update
    /\ checkpoint \in Nat
    /\ stage \in [Flows -> Stages]
    /\ jobState \in [Flows -> JobStates]
    /\ currentBlock \in [Flows -> Nat]
    /\ range \in [Flows -> Range]
    /\ stalls \in [Flows -> Nat]
    /\ owner \in [Flows -> Workers \cup {NoWorker}]
    /\ wanted \subseteq Tx
    /\ pc \in [Workers -> Steps]
    /\ span \in [Workers -> Range]
    /\ todo \in [Workers -> SUBSET (Tx \cup Update)]
    /\ unmatched \in [Workers -> SUBSET Tx]
    /\ boot \in [Workers -> Boots]
    /\ upsets \in Nat

InitBesideQueue ==
    /\ head = Deployed
    /\ asked = [t \in Tx |-> 0]
    /\ updates = {}
    /\ stored = {} /\ fulfilled = {} /\ storedUpdates = {}
    /\ checkpoint = 0
    /\ stage = [f \in Flows |-> "requesting"]
    /\ jobState = [f \in Flows |-> "none"]
    /\ currentBlock = [f \in Flows |-> 0]
    /\ range = [f \in Flows |-> NoRange]
    /\ stalls = [f \in Flows |-> 0]
    /\ owner = [f \in Flows |-> NoWorker]
    /\ pc = [w \in Workers |-> "idle"]
    /\ span = [w \in Workers |-> NoRange]
    /\ todo = [w \in Workers |-> {}]
    /\ unmatched = [w \in Workers |-> {}]
    /\ boot = [w \in Workers |-> "down"]
    /\ upsets = 0

Init == InitBesideQueue /\ wanted = {}

Upset == upsets < MaxUpsets /\ upsets' = upsets + 1
Fault(kind) == kind \in Faults /\ Upset

-----------------------------------------------------------------------------
(* Ethereum and the updates queue (external).                              *)

Request(t) ==
    /\ asked[t] = 0 /\ head < MaxBlock
    /\ head' = head + 1
    /\ asked' = [asked EXCEPT ![t] = head + 1]
    /\ UNCHANGED <<updates, mongo, redis, wanted, local, upsets>>

MineEmpty ==
    /\ head < MaxBlock
    /\ head' = head + 1
    /\ UNCHANGED <<asked, updates, mongo, redis, wanted, local, upsets>>

(* updateAllocation is mined for an address.                               *)
MineUpdate(a) ==
    /\ head' = head + 1
    /\ updates' = updates \cup {[addr |-> a, block |-> head + 1]}
    /\ UNCHANGED <<asked, mongo, redis, wanted, local, upsets>>

(* onRequestingUpdateEvent enqueues an update, too, updates come to an end *)
(* and may have failed calls.                                              *)
QueueChanges ==
    /\ wanted' \in SUBSET Tx
    /\ UNCHANGED upsets \/ Upset
    /\ UNCHANGED <<chain, mongo, redis, local>>

-----------------------------------------------------------------------------
(* Redis, as BullMQ keeps it.                                              *)

InState(S) == {f \in Flows : jobState[f] \in S}
LiveFlows  == InState({"delayed", "waiting", "active"})

(* The job of w is over.  While w still holds its lock the flow moves on   *)
(* with the job's value; once the lock is lost BullMQ refuses the result.  *)
Finish(w, value) ==
    /\ pc' = [pc EXCEPT ![w] = "idle"]
    /\ span' = [span EXCEPT ![w] = NoRange]
    /\ todo' = [todo EXCEPT ![w] = {}]
    /\ unmatched' = [unmatched EXCEPT ![w] = {}]
    /\ stage' = [f \in Flows |-> IF owner[f] # w THEN stage[f]
                                 ELSE IF stage[f] = "requesting" THEN "allocation"
                                 ELSE IF stage[f] = "allocation" THEN "match" ELSE "requesting"]
    /\ jobState' = [f \in Flows |-> IF owner[f] # w THEN jobState[f]
                                    ELSE IF stage[f] = "match" THEN "none" ELSE "waiting"]
    /\ range' = [f \in Flows |-> IF owner[f] = w THEN value ELSE range[f]]
    /\ stalls' = [f \in Flows |-> IF owner[f] = w THEN 0 ELSE stalls[f]]
    /\ owner' = [f \in Flows |-> IF owner[f] = w THEN NoWorker ELSE owner[f]]
    /\ currentBlock' = [f \in Flows |-> IF owner[f] = w /\ stage[f] = "match" THEN 0
                                        ELSE currentBlock[f]]

DelayExpires(f) ==
    /\ jobState[f] = "delayed"
    /\ jobState' = [jobState EXCEPT ![f] = "waiting"]
    /\ UNCHANGED <<chain, mongo, stage, currentBlock, range, stalls, owner, wanted, local, upsets>>

(* The worker of any process takes a job, one at a time per process.       *)
Take(w, f) ==
    /\ boot[w] # "down" /\ pc[w] = "idle"
    /\ jobState[f] = "waiting"
    /\ jobState' = [jobState EXCEPT ![f] = "active"]
    /\ owner' = [owner EXCEPT ![f] = w]
    /\ pc' = [pc EXCEPT ![w] = CASE stage[f] = "requesting" -> "checkpoint"
                                 [] stage[f] = "allocation" -> "queryUpdates"
                                 [] stage[f] = "match"      -> "match"]
    /\ span' = [span EXCEPT ![w] = IF stage[f] = "requesting"
                                   THEN [from |-> 0, to |-> currentBlock[f]]
                                   ELSE range[f]]
    /\ UNCHANGED <<chain, mongo, stage, currentBlock, range, stalls, wanted, todo, unmatched, boot,
                   upsets>>

(* The lock of an active job expired: its process crashed, or was cut off  *)
(* from Redis.  The job runs again from its start, or fails for good and   *)
(* its parents wait for it for ever, which no count of the queue sees.     *)
JobStalls(f) ==
    /\ jobState[f] = "active"
    /\ IF owner[f] = NoWorker THEN UNCHANGED upsets ELSE Fault("cutoff")
    /\ owner' = [owner EXCEPT ![f] = NoWorker]
    /\ IF stalls[f] < MaxStalled
       THEN /\ jobState' = [jobState EXCEPT ![f] = "waiting"]
            /\ stalls' = [stalls EXCEPT ![f] = @ + 1]
            /\ UNCHANGED <<stage, currentBlock, range>>
       ELSE /\ jobState' = [jobState EXCEPT ![f] = "none"]
            /\ stalls' = [stalls EXCEPT ![f] = 0]
            /\ stage' = [stage EXCEPT ![f] = "requesting"]
            /\ currentBlock' = [currentBlock EXCEPT ![f] = 0]
            /\ range' = [range EXCEPT ![f] = NoRange]
    /\ UNCHANGED <<chain, mongo, wanted, local>>

-----------------------------------------------------------------------------
(* Jobs "discover-requesting-update-events" and, over the range its child  *)
(* returned, "discover-allocation-updated-events".                         *)

ReadCheckpoint(w) ==
    /\ pc[w] = "checkpoint"
    /\ checkpoint' = IF checkpoint = 0 THEN Deployed ELSE checkpoint
    /\ span' = [span EXCEPT ![w].from = checkpoint']
    /\ pc' = [pc EXCEPT ![w] = "query"]
    /\ UNCHANGED <<chain, stored, fulfilled, storedUpdates, redis, wanted, todo, unmatched, boot, upsets>>

Capped(s) ==
    [from |-> s.from, to |-> IF s.to - s.from > MaxRange THEN s.from + MaxRange ELSE s.to]

(* What queryFilter returns: a node behind the head answers with what it   *)
(* has.                                                                    *)
Within(b, s, lag) == s.from <= b /\ b <= s.to /\ b <= head - lag

QueryRequests(w) ==
    /\ pc[w] = "query"
    /\ span' = [span EXCEPT ![w] = Capped(span[w])]
    /\ \E lag \in 0..MaxLag :
          todo' = [todo EXCEPT ![w] =
              {t \in Tx : asked[t] # 0 /\ Within(asked[t], Capped(span[w]), lag)}]
    /\ pc' = [pc EXCEPT ![w] = "store"]
    /\ UNCHANGED <<chain, mongo, redis, wanted, unmatched, boot, upsets>>

QueryUpdates(w) ==
    /\ pc[w] = "queryUpdates" /\ span[w] # NoRange
    /\ \E lag \in 0..MaxLag :
          todo' = [todo EXCEPT ![w] = {e \in updates : Within(e.block, span[w], lag)}]
    /\ pc' = [pc EXCEPT ![w] = "storeUpdates"]
    /\ UNCHANGED <<chain, mongo, redis, wanted, span, unmatched, boot, upsets>>

(* findOne, then create.  An error of create is logged, and the event is   *)
(* counted as known.                                                       *)
StoreEvent(w) ==
    /\ \E e \in todo[w] :
          /\ todo' = [todo EXCEPT ![w] = @ \ {e}]
          /\ \/ pc[w] = "store" /\ stored' = stored \cup {e}
                /\ UNCHANGED <<storedUpdates, upsets>>
             \/ pc[w] = "storeUpdates" /\ storedUpdates' = storedUpdates \cup {e}
                /\ UNCHANGED <<stored, upsets>>
             \/ pc[w] \in {"store", "storeUpdates"} /\ Fault("create")
                /\ UNCHANGED <<stored, storedUpdates>>
    /\ UNCHANGED <<chain, fulfilled, checkpoint, redis, wanted, pc, span, unmatched, boot>>

FinishDiscover(w) ==
    /\ pc[w] \in {"store", "storeUpdates"} /\ todo[w] = {}
    /\ Finish(w, span[w])
    /\ UNCHANGED <<chain, mongo, wanted, boot, upsets>>

(* Mutant: the range is returned before it was discovered.                 *)
DiscoverFailsQuietly(w) ==
    /\ \/ pc[w] \in {"query", "queryUpdates"} /\ Fault("rpc")
       \/ pc[w] \in {"checkpoint", "store", "storeUpdates"} /\ Fault("db")
       \/ pc[w] \in {"query", "queryUpdates"} /\ span[w].to < span[w].from /\ UNCHANGED upsets
       \/ pc[w] = "queryUpdates" /\ span[w] = NoRange /\ UNCHANGED upsets
    /\ Finish(w, span[w])
    /\ UNCHANGED <<chain, mongo, wanted, boot>>

(* An exception is caught and the job returns undefined, which the next    *)
(* job cannot take apart.  A node asked for a range that ends before it    *)
(* starts may refuse it.                                                   *)
DiscoverFails(w) ==
    /\ \/ pc[w] \in {"query", "queryUpdates"} /\ Fault("rpc")
       \/ pc[w] \in {"checkpoint", "store", "storeUpdates"} /\ Fault("db")
       \/ pc[w] \in {"query", "queryUpdates"} /\ span[w].to < span[w].from /\ UNCHANGED upsets
       \/ pc[w] = "queryUpdates" /\ span[w] = NoRange /\ UNCHANGED upsets
    /\ Finish(w, NoRange)
    /\ UNCHANGED <<chain, mongo, wanted, boot>>

-----------------------------------------------------------------------------
(* Job "match-discovered-facilitator-events".                              *)

UpdatedLater(t) ==
    \E e \in storedUpdates : e.addr = Requester[t] /\ e.block > asked[t]

(* Mutant: a request whose update is enqueued counts as fulfilled.         *)
MatchesOnEnqueue(w, done) ==
    /\ fulfilled' = fulfilled \cup done
    /\ unmatched' = [unmatched EXCEPT ![w] = {t \in done : ~UpdatedLater(t)}]

(* The documents found unfulfilled are saved as fulfilled when a later     *)
(* update is known, one after the other; done are those it came to.  (What *)
(* other processes do between the find and a save changes neither: a       *)
(* document is only ever saved as fulfilled, and an update never deleted.) *)
Matches(w, done) ==
    /\ fulfilled' = fulfilled \cup {t \in done : UpdatedLater(t)}
    /\ unmatched' = [unmatched EXCEPT ![w] = {t \in done : ~UpdatedLater(t)}]

Unfulfilled == stored \ fulfilled

MatchRequests(w) ==
    /\ pc[w] = "match" /\ span[w] # NoRange
    /\ Matches(w, Unfulfilled)
    /\ pc' = [pc EXCEPT ![w] = "enqueue"]
    /\ UNCHANGED <<chain, stored, storedUpdates, checkpoint, redis, wanted, span, todo, boot, upsets>>

(* uniqBy keeps one unmatched document per address, the first in the order *)
(* find returned them, which the code does not fix.                        *)
EnqueueUpdate(w, t) ==
    /\ pc[w] = "enqueue" /\ t \in unmatched[w]
    /\ wanted' = wanted \cup {t}
    /\ unmatched' = [unmatched EXCEPT ![w] = {u \in @ : Requester[u] # Requester[t]}]
    /\ UNCHANGED <<chain, mongo, redis, pc, span, todo, boot, upsets>>

(* setLastSafeCompleteBlockNumber overwrites what there is.                *)
WriteCheckpoint(w) ==
    /\ pc[w] = "enqueue" /\ unmatched[w] = {}
    /\ checkpoint' = span[w].to
    /\ pc' = [pc EXCEPT ![w] = "count"]
    /\ UNCHANGED <<chain, stored, fulfilled, storedUpdates, redis, wanted, span, todo, unmatched,
                   boot, upsets>>

(* An exception is caught; finally enqueues the next flow all the same.    *)
MatchFails(w) ==
    /\ \/ /\ pc[w] = "match" /\ span[w] = NoRange
          /\ UNCHANGED <<fulfilled, upsets>>
       \/ /\ pc[w] = "match" /\ span[w] # NoRange
          /\ Fault("db")
          /\ \E done \in SUBSET Unfulfilled :
                fulfilled' = fulfilled \cup {t \in done : UpdatedLater(t)}
       \/ /\ pc[w] = "enqueue" /\ unmatched[w] # {}
          /\ Fault("redis") /\ UNCHANGED fulfilled
       \/ /\ pc[w] = "enqueue" /\ unmatched[w] = {}
          /\ Fault("db") /\ UNCHANGED fulfilled
    /\ pc' = [pc EXCEPT ![w] = "count"]
    /\ unmatched' = [unmatched EXCEPT ![w] = {}]
    /\ UNCHANGED <<chain, stored, storedUpdates, checkpoint, redis, wanted, span, todo, boot>>

-----------------------------------------------------------------------------
(* enqueueDiscoverFacilitatorEventsFlow: getBlockNumber answered and the   *)
(* flow is added, in a free slot: which one makes no difference.           *)
FreeSlot == CHOOSE f \in Flows : jobState[f] = "none"

Adds(delay) ==
    \E f \in InState({"none"}) \cap {FreeSlot}, lag \in 0..MaxLag :
        /\ lag < head
        /\ stage' = [stage EXCEPT ![f] = "requesting"]
        /\ jobState' = [jobState EXCEPT ![f] = delay]
        /\ currentBlock' = [currentBlock EXCEPT ![f] = head - lag]
        /\ range' = [range EXCEPT ![f] = NoRange]
        /\ UNCHANGED <<stalls, owner>>

(* Mutant: the match job counts itself.                                    *)
QueuedWithActive == InState({"waiting", "delayed", "active"})

(* skipActiveCheck: the match job that calls is active itself.  The        *)
(* numbers, awaited one after the other, are one step: the worker of       *)
(* another process may move a job between two of them, and the count miss  *)
(* it, which adds a flow where there is one already.                       *)
Queued == InState({"waiting", "delayed"})

CountJobs(w) ==
    /\ pc[w] = "count"
    /\ IF Queued # {}
       THEN Finish(w, NoRange)
       ELSE /\ pc' = [pc EXCEPT ![w] = "add"]
            /\ UNCHANGED <<redis, span, todo, unmatched>>
    /\ UNCHANGED <<chain, mongo, wanted, boot, upsets>>

(* The flow is delayed by an hour.  The match job still has to end.        *)
AddFlow(w) ==
    /\ pc[w] = "add"
    /\ Adds("delayed")
    /\ pc' = [pc EXCEPT ![w] = "added"]
    /\ UNCHANGED <<chain, mongo, wanted, span, todo, unmatched, boot, upsets>>

FinishMatch(w) ==
    /\ pc[w] = "added"
    /\ Finish(w, NoRange)
    /\ UNCHANGED <<chain, mongo, wanted, boot, upsets>>

(* getBlockNumber failed: the call returns without a flow, and nobody      *)
(* repeats it.  Redis failed: the exception leaves finally, and the job    *)
(* fails with it.                                                          *)
EnqueueFails(w) ==
    /\ \/ pc[w] = "add" /\ Fault("rpc")
       \/ pc[w] \in {"count", "add"} /\ Fault("redis")
    /\ Finish(w, NoRange)
    /\ UNCHANGED <<chain, mongo, wanted, boot>>

-----------------------------------------------------------------------------
(* Processes.  The one that leads while it bootstraps cleans up and        *)
(* enqueues the first flow.  The worker of every process runs from its     *)
(* start, before and during the bootstrap.                                 *)

Start(w, leads) ==
    /\ boot[w] = "down"
    /\ boot' = [boot EXCEPT ![w] = IF leads THEN "nuke" ELSE "up"]
    /\ IF leads /\ DoClean
       THEN /\ jobState' = [f \in Flows |-> "none"]
            /\ owner' = [f \in Flows |-> NoWorker]
            /\ stalls' = [f \in Flows |-> 0]
            /\ wanted' = {}
       ELSE UNCHANGED <<jobState, owner, stalls, wanted>>
    /\ UNCHANGED <<chain, mongo, stage, currentBlock, range, work, upsets>>

NukeRequests(w) ==
    /\ boot[w] = "nuke"
    /\ boot' = [boot EXCEPT ![w] = "count"]
    /\ IF DoDbNuke THEN stored' = {} /\ fulfilled' = {}
       ELSE UNCHANGED <<stored, fulfilled>>
    /\ UNCHANGED <<chain, storedUpdates, checkpoint, redis, wanted, work, upsets>>

BootCount(w) ==
    /\ boot[w] = "count"
    /\ boot' = [boot EXCEPT ![w] = IF LiveFlows = {} THEN "add" ELSE "up"]
    /\ UNCHANGED <<chain, mongo, redis, wanted, work, upsets>>

(* The first flow is not delayed.  An add that Redis refuses ends the      *)
(* bootstrap with nothing queued, as a crash does.                         *)
BootAdd(w) ==
    /\ boot[w] = "add"
    /\ \/ Adds("waiting") /\ UNCHANGED upsets
       \/ Fault("rpc") /\ UNCHANGED redis
    /\ boot' = [boot EXCEPT ![w] = "up"]
    /\ UNCHANGED <<chain, mongo, wanted, work>>

Crash(w) ==
    /\ Upset
    /\ boot[w] # "down"
    /\ boot' = [boot EXCEPT ![w] = "down"]
    /\ pc' = [pc EXCEPT ![w] = "idle"]
    /\ owner' = [f \in Flows |-> IF owner[f] = w THEN NoWorker ELSE owner[f]]
    /\ span' = [span EXCEPT ![w] = NoRange]
    /\ todo' = [todo EXCEPT ![w] = {}]
    /\ unmatched' = [unmatched EXCEPT ![w] = {}]
    /\ UNCHANGED <<chain, mongo, stage, jobState, currentBlock, range, stalls, wanted>>

-----------------------------------------------------------------------------
(* What the workers do beside EnqueueUpdate, and what only concerns them.  *)
Discover(w) ==
    \/ ReadCheckpoint(w) \/ QueryRequests(w) \/ QueryUpdates(w) \/ StoreEvent(w)
    \/ FinishDiscover(w) \/ MatchRequests(w) \/ WriteCheckpoint(w)
    \/ CountJobs(w) \/ AddFlow(w) \/ FinishMatch(w)

Bootstrap(w) == NukeRequests(w) \/ BootCount(w) \/ BootAdd(w)

Faulty(w) ==
    DiscoverFails(w) \/ MatchFails(w) \/ EnqueueFails(w)

Loop ==
    \/ \E f \in Flows : DelayExpires(f) \/ JobStalls(f)
    \/ \E w \in Workers :
          \/ \E f \in Flows : Take(w, f)
          \/ Discover(w) \/ Faulty(w) \/ Bootstrap(w)

Next ==
    \/ Loop
    \/ MineEmpty \/ QueueChanges
    \/ \E t \in Tx : Request(t)
    \/ \E a \in Addr : MineUpdate(a)
    \/ \E w \in Workers :
          \/ Crash(w) \/ \E leads \in BOOLEAN : Start(w, leads)
          \/ \E t \in Tx : EnqueueUpdate(w, t)

Spec == Init /\ [][Next]_vars

-----------------------------------------------------------------------------
(* Correctness.                                                            *)

(* The checkpoint never passes a request the database does not hold: it    *)
(* would never be discovered.                                              *)
NoRequestSkipped ==
    \A t \in Tx : asked[t] # 0 /\ asked[t] < checkpoint => t \in stored

(* A request is closed only because an update for its address was mined    *)
(* in a later block.                                                       *)
ClosedByUpdate ==
    \A t \in fulfilled : \E e \in updates : e.addr = Requester[t] /\ e.block > asked[t]

(* To whoever relies on it the loop is a register of requests, complete up *)
(* to the checkpoint: nothing recorded is forgotten, nothing closed is     *)
(* opened again, nothing is closed but for an update that followed it, and *)
(* the checkpoint never passes a request that was updated and left open.   *)
Requested    == {t \in Tx : asked[t] # 0}
Documents(T) == {[tx |-> t, block |-> asked[t]] : t \in T}

Payments == {p \in [request : Documents(Requested), block : {e.block : e \in updates}] :
                \E e \in updates : /\ e.addr = Requester[p.request.tx] /\ e.block = p.block
                                   /\ p.request.block < p.block}

Register == INSTANCE RequestRegister WITH
    emitted <- Documents(Requested), payments <- Payments, known <- Documents(stored),
    closed <- Documents(fulfilled), retired <- {}, horizon <- checkpoint

KeepsRegister == Register!RegisterSpec

(* The loop feeds itself: while a flow exists that still has a successor   *)
(* to add, or is one, there will be another.  That ends only in a step in  *)
(* which a call fails or a process ends, after a job was interrupted more  *)
(* often than BullMQ allows, or when DO_CLEAN makes room for a new flow.   *)
Spent(f)   == \E w \in Workers : owner[f] = w /\ pc[w] = "added"
Continuing == {f \in LiveFlows : ~Spent(f)}

LoopKept ==
    [][Continuing # {} /\ Continuing' = {}
        => \/ upsets' # upsets
           \/ upsets > MaxStalled
           \/ \E w \in Workers : boot[w] = "down" /\ boot'[w] = "nuke"]_vars

==========================================================================
