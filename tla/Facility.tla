----------------------------- MODULE Facility -----------------------------
(***************************************************************************)
(* The Facility mode as a whole: the discovery loop and the live event     *)
(* enqueue updates, the updates land on the chain, and the loop finds the  *)
(* event each of them leaves there and closes the request.  A step of one  *)
(* component leaves the other alone, except where they meet: a request on  *)
(* the chain, an update that is enqueued, one that lands, and a process    *)
(* that starts or ends.                                                    *)
(***************************************************************************)
EXTENDS Integers, Sequences, FiniteSets

CONSTANTS
    Workers, NoWorker, Tx, Addr, Requester, MaxStalled, Faults, DoClean, MaxUpsets,
    Flows, Deployed, MaxRange, MaxLag, DoDbNuke, MaxBlock,
    LockHeldAtStart,  \* a process may start while another, or its predecessor, leads
    Slots, NoAmount, MaxUpdateAllocationRetries, MaxReward

VARIABLES
    head, asked, updates, stored, fulfilled, storedUpdates, checkpoint,
    stage, jobState, currentBlock, range, stalls, owner,
    pc, span, todo, unmatched, boot,
    owed, paid, mempool, unpaid,
    state, lock, repeats, reads, recovery, up, step, job, data, receipt,
    upsets

discovery == <<head, asked, updates, stored, fulfilled, storedUpdates, checkpoint,
               stage, jobState, currentBlock, range, stalls, owner,
               pc, span, todo, unmatched, boot>>
settling  == <<owed, paid, mempool, unpaid, state, lock, repeats, reads,
               recovery, up, step, job, data, receipt>>
vars      == <<discovery, settling, upsets>>

(* What each component knows of the other: the requests with a flow in the *)
(* updates queue, and the requests on the chain.                           *)
D == INSTANCE FacilityDiscovery WITH
    wanted <- {t \in Tx : state[<<t, "update">>] # "none"}
U == INSTANCE FacilityUpdates WITH
    requested <- {t \in Tx : asked[t] # 0}

ASSUME FacilityAssumption ==
    /\ D!FacilityDiscoveryAssumption
    /\ U!FacilityUpdatesAssumption
    /\ LockHeldAtStart \in BOOLEAN

Init == U!InitBesideRequests /\ D!InitBesideQueue

(* An action assigns asked and state before it comes to the component that *)
(* reads their next values through the mapping.                            *)
Request(t)    == UNCHANGED state /\ D!Request(t) /\ U!Request(t)
MineEmpty     == UNCHANGED settling /\ D!MineEmpty
Accrue(a)     == UNCHANGED discovery /\ U!Accrue(a)
UpdateLands   == UNCHANGED asked /\ U!UpdateLands /\ D!MineUpdate(Head(mempool).addr)
UpdateReverts == UNCHANGED discovery /\ U!UpdateReverts

(* onRequestingUpdateEvent: the live event, on whatever process hears it,  *)
(* leader or not.                                                          *)
LiveEvent(t) ==
    /\ asked[t] = head
    /\ up # {}
    /\ UNCHANGED discovery
    /\ U!EnqueueUpdateAllocation(t)

EnqueueUpdate(w, t) ==
    UNCHANGED asked /\ U!EnqueueUpdateAllocation(t) /\ D!EnqueueUpdate(w, t)

DiscoveryStep  == UNCHANGED settling /\ D!Loop
SettlementStep == UNCHANGED discovery /\ U!Settlement

(* Whether a process that starts leads is up to the lock in Consul (see    *)
(* Leadership): it may still be held, be it for the process before it.     *)
Start(w, leads) ==
    /\ leads \/ LockHeldAtStart
    /\ UNCHANGED asked
    /\ U!Start(w, leads)
    /\ D!Start(w, leads)

Crash(w) == UNCHANGED asked /\ U!Crash(w) /\ D!Crash(w)

Next ==
    \/ DiscoveryStep \/ SettlementStep
    \/ MineEmpty \/ UpdateLands \/ UpdateReverts
    \/ \E a \in Addr : Accrue(a)
    \/ \E t \in Tx : Request(t) \/ LiveEvent(t) \/ \E w \in Workers : EnqueueUpdate(w, t)
    \/ \E w \in Workers : Crash(w) \/ \E leads \in BOOLEAN : Start(w, leads)

Spec == Init /\ [][Next]_vars

(* What is running is run on: the event loops turn, a delay runs out, a    *)
(* lost lock is noticed, a waiting job gets its turn (BullMQ is first in,  *)
(* first out), Nomad restarts a process, and miners take what is in the    *)
(* mempool.  Whether a call fails, an event is heard or AO accrues is left *)
(* open.                                                                   *)
Fairness ==
    /\ WF_vars(UpdateLands) /\ WF_vars(UpdateReverts)
    /\ \A f \in Flows :
          WF_vars(UNCHANGED settling /\ (D!DelayExpires(f) \/ D!JobStalls(f)))
    /\ \A j \in U!Jobs : WF_vars(UNCHANGED discovery /\ U!JobStalls(j))
    /\ \A w \in Workers :
          /\ WF_vars(UNCHANGED settling /\ \E f \in Flows : D!Take(w, f))
          /\ WF_vars(\/ UNCHANGED settling /\ (D!Discover(w) \/ D!Faulty(w))
                     \/ \E t \in Tx : EnqueueUpdate(w, t))
          /\ WF_vars(UNCHANGED settling /\ D!Bootstrap(w))
          /\ WF_vars(\E leads \in BOOLEAN : Start(w, leads))
          /\ \A t \in Tx : /\ SF_vars(UNCHANGED discovery /\ U!TakeGet(w, t))
                           /\ SF_vars(UNCHANGED discovery /\ U!TakeUpdate(w, t))
          /\ \A s \in Slots : SF_vars(UNCHANGED discovery /\ U!TakeRecovery(w, s))
          /\ WF_vars(UNCHANGED discovery /\ U!Settle(w))

FairSpec == Spec /\ Fairness

-----------------------------------------------------------------------------
(* Correctness.                                                            *)

TypeOK == D!TypeOK /\ U!TypeOK

(* The checkpoint never passes a request the database does not hold,       *)
(* although it is overwritten without a look at it and two flows, of two   *)
(* processes, may walk the chain at a time.                                *)
NoRequestSkipped == D!NoRequestSkipped

(* The discovery is a register of requests that is complete up to the      *)
(* checkpoint: what was paid below it is closed, and not enqueued again.   *)
KeepsRegister == D!KeepsRegister

(* A request is closed only because an update that was mined after it paid *)
(* its address.                                                            *)
ClosedMeansPaid == \A t \in fulfilled : t \notin unpaid

(* The loop feeds itself, unless a call fails, a job is interrupted too    *)
(* often or DO_CLEAN makes room for a new flow.                            *)
LoopKept == D!LoopKept

(* The updates implement the abstract specification of a payment.          *)
PaysOut == U!PaysOut

(* A request of an address that is owed something is served in the end,    *)
(* although live events may be lost, a process may crash and a call may    *)
(* fail: unless that failure ended the loop or holds a worker for ever.    *)
LoopEnded == D!LiveFlows = {} /\ \A w \in Workers : boot[w] = "up"
Held      == \E w \in Workers : step[w] = "hung"
RequestServed ==
    \A t \in Tx :
        t \in unpaid /\ owed[Requester[t]] > paid[Requester[t]]
            ~> t \notin unpaid \/ LoopEnded \/ Held

-----------------------------------------------------------------------------
(* What one would expect and the code does otherwise.                      *)

(* The update that closes a request pays what its address was owed.        *)
ClosedInFull ==
    [][\A t \in Tx : t \notin fulfilled /\ t \in fulfilled'
                        => paid[Requester[t]] = owed[Requester[t]]]_vars

(* A request with nothing to pay is closed, too, instead of being enqueued *)
(* again by every flow.                                                    *)
NothingOwedIsClosed ==
    \A t \in Tx : (asked[t] # 0 /\ [](owed[Requester[t]] = 0)) ~> (t \in fulfilled)

(* A worker is never held for ever.                                        *)
WorkerFree == \A w \in Workers : (step[w] # "idle") ~> (step[w] = "idle")

(* README.md, discovery as the safety net: the loop does not end.          *)
LoopGoesOn == (D!LiveFlows # {}) ~> []<>(D!LiveFlows # {})

===========================================================================
