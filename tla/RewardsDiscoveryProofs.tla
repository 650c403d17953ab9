---------------------- MODULE RewardsDiscoveryProofs ----------------------
(***************************************************************************)
(* Type correctness of the discovery loop, and its central promise: no     *)
(* request below the checkpoint is missing from the database.              *)
(***************************************************************************)
EXTENDS RewardsDiscovery, TLAPS

LEMMA CappedType ==
    ASSUME NEW s \in QueryRange
    PROVE  /\ Capped(s) \in QueryRange
           /\ Capped(s).from = s.from
           /\ Capped(s).to <= s.to
<1> USE DiscoveryAssumption DEF QueryRange, Capped
<1>1. CASE s.to - s.from > MaxRange  BY <1>1
<1>2. CASE ~(s.to - s.from > MaxRange)  BY <1>2
<1>3. QED  BY <1>1, <1>2

LEMMA NoRangeType == NoRange \in QueryRange /\ NoRange.from = 0 /\ NoRange.to = 0
BY DEF NoRange, QueryRange

(* What the end of a job leaves well typed.                                *)
LEMMA FinishType ==
    ASSUME TypeOK, NEW w \in Workers, NEW value \in QueryRange, Finish(w, value)
    PROVE  /\ stage' \in [Flows -> Stages]
           /\ jobState' \in [Flows -> JobStates]
           /\ currentBlock' \in [Flows -> Nat]
           /\ range' \in [Flows -> QueryRange]
           /\ stalls' \in [Flows -> Nat]
           /\ owner' \in [Flows -> Workers \cup {NoWorker}]
           /\ pc' \in [Workers -> Steps]
           /\ span' \in [Workers -> QueryRange]
           /\ todo' \in [Workers -> SUBSET Request]
           /\ todoRewards' \in [Workers -> SUBSET Reward]
           /\ unmatched' \in [Workers -> SUBSET Request]
           /\ tries' \in [Workers -> Nat]
<1>1. stage' \in [Flows -> Stages] /\ jobState' \in [Flows -> JobStates]
  BY DEF TypeOK, Finish, Stages, JobStates
<1>2. /\ currentBlock' \in [Flows -> Nat] /\ range' \in [Flows -> QueryRange]
      /\ stalls' \in [Flows -> Nat] /\ owner' \in [Flows -> Workers \cup {NoWorker}]
  BY DEF TypeOK, Finish
<1>3. pc' \in [Workers -> Steps]
  BY DEF TypeOK, Finish, Steps
<1>4. span' \in [Workers -> QueryRange]
  BY NoRangeType DEF TypeOK, Finish
<1>5. /\ todo' \in [Workers -> SUBSET Request]
      /\ todoRewards' \in [Workers -> SUBSET Reward]
      /\ unmatched' \in [Workers -> SUBSET Request]
      /\ tries' \in [Workers -> Nat]
  BY DEF TypeOK, Finish
<1>6. QED  BY <1>1, <1>2, <1>3, <1>4, <1>5

LEMMA CallReturnsType ==
    ASSUME TypeOK, NEW w \in Workers, CallReturns(w)
    PROVE  /\ stage' \in [Flows -> Stages]
           /\ jobState' \in [Flows -> JobStates]
           /\ currentBlock' \in [Flows -> Nat]
           /\ range' \in [Flows -> QueryRange]
           /\ stalls' \in [Flows -> Nat]
           /\ owner' \in [Flows -> Workers \cup {NoWorker}]
           /\ pc' \in [Workers -> Steps]
           /\ span' \in [Workers -> QueryRange]
           /\ todo' \in [Workers -> SUBSET Request]
           /\ todoRewards' \in [Workers -> SUBSET Reward]
           /\ unmatched' \in [Workers -> SUBSET Request]
           /\ tries' \in [Workers -> Nat]
<1>1. CASE Booting(w)
  BY <1>1 DEF TypeOK, CallReturns, Steps, redis, loops
<1>2. CASE ~Booting(w)
  BY <1>2, FinishType, NoRangeType DEF CallReturns
<1>3. QED  BY <1>1, <1>2

(* Every step keeps the state well typed: one step of the proof for each   *)
(* action.                                                                 *)
LEMMA TypeStep == TypeOK /\ [Next]_vars => TypeOK'
<1> SUFFICES ASSUME TypeOK, [Next]_vars
             PROVE  TypeOK'
  OBVIOUS
<1> USE DiscoveryAssumption
<1>1. CASE Mine
  <2>1. ASSUME NEW batch \in {{}} \cup RequestBatches(head + 1)
        PROVE  batch \subseteq Request
    BY DEF TypeOK, RequestBatches, Request
  <2>2. requests' \subseteq Request
    BY <1>1, <2>1 DEF TypeOK, Mine
  <2>3. rewards' \subseteq Reward /\ claims' \subseteq Claim
    BY <1>1 DEF TypeOK, Mine, Reward, Claim
  <2>4. QED
    BY <1>1, <2>2, <2>3 DEF TypeOK, Mine, mongo, redis, local, loops
<1>2. ASSUME NEW r \in requests, LiveEvent(r)
      PROVE  TypeOK'
  BY <1>2 DEF TypeOK, LiveEvent, Request, Claim, chain, mongo, redis, local, loops
<1>3. ASSUME NEW c \in claims, ClaimRetires(c)
      PROVE  TypeOK'
  BY <1>3 DEF TypeOK, ClaimRetires, chain, redis, local, loops
<1>4. ASSUME NEW c \in claims, ClaimGivesUp(c)
      PROVE  TypeOK'
  BY <1>4 DEF TypeOK, ClaimGivesUp, chain, mongo, redis, local, loops
<1>5. ASSUME NEW f \in Flows, DelayExpires(f)
      PROVE  TypeOK'
  BY <1>5 DEF TypeOK, DelayExpires, JobStates, chain, mongo, local, loops
<1>6. ASSUME NEW f \in Flows, JobStalls(f)
      PROVE  TypeOK'
  BY <1>6, NoRangeType DEF TypeOK, JobStalls, JobStates, Stages, chain, mongo, local, loops
<1>7. ASSUME NEW w \in Workers, NEW f \in Flows, Take(w, f)
      PROVE  TypeOK'
  BY <1>7 DEF TypeOK, Take, JobStates, Stages, Steps, QueryRange, chain, mongo, loops
<1>8. ASSUME NEW w \in Workers, ReadCheckpoint(w)
      PROVE  TypeOK'
  BY <1>8 DEF TypeOK, ReadCheckpoint, Steps, QueryRange, chain, redis, loops
<1>9. ASSUME NEW w \in Workers, QueryRequests(w)
      PROVE  TypeOK'
  BY <1>9, CappedType DEF TypeOK, QueryRequests, Visible, Steps, chain, mongo, redis, loops
<1>10. ASSUME NEW w \in Workers, StoreRequest(w)
      PROVE  TypeOK'
  BY <1>10 DEF TypeOK, StoreRequest, chain, redis, loops
<1>11. ASSUME NEW w \in Workers, FinishUpdate(w)
      PROVE  TypeOK'
  <2>1. span[w] \in QueryRange /\ Finish(w, span[w])
    BY <1>11 DEF TypeOK, FinishUpdate
  <2>2. QED
    BY <1>11, <2>1, FinishType DEF TypeOK, FinishUpdate, chain, mongo, loops
<1>12. ASSUME NEW w \in Workers, QueryRewards(w)
      PROVE  TypeOK'
  BY <1>12 DEF TypeOK, QueryRewards, Visible, Steps, chain, mongo, redis, loops
<1>13. ASSUME NEW w \in Workers, StoreReward(w)
      PROVE  TypeOK'
  BY <1>13 DEF TypeOK, StoreReward, chain, redis, loops
<1>14. ASSUME NEW w \in Workers, FinishRewarded(w)
      PROVE  TypeOK'
  <2>1. span[w] \in QueryRange /\ Finish(w, span[w])
    BY <1>14 DEF TypeOK, FinishRewarded
  <2>2. QED
    BY <1>14, <2>1, FinishType DEF TypeOK, FinishRewarded, chain, mongo, loops
<1>15. ASSUME NEW w \in Workers, DiscoverFails(w)
      PROVE  TypeOK'
  BY <1>15, FinishType, NoRangeType DEF TypeOK, DiscoverFails, chain, mongo, loops
<1>16. ASSUME NEW w \in Workers, LoadUnfulfilled(w)
      PROVE  TypeOK'
  BY <1>16 DEF TypeOK, LoadUnfulfilled, Steps, chain, mongo, redis, loops
<1>17. ASSUME NEW w \in Workers, MatchRequest(w)
      PROVE  TypeOK'
  BY <1>17 DEF TypeOK, MatchRequest, chain, redis, loops
<1>18. ASSUME NEW w \in Workers, MatchingDone(w)
      PROVE  TypeOK'
  BY <1>18 DEF TypeOK, MatchingDone, Steps, chain, mongo, redis, loops
<1>19. ASSUME NEW w \in Workers, EnqueueClaim(w)
      PROVE  TypeOK'
  BY <1>19 DEF TypeOK, EnqueueClaim, Request, Claim, chain, mongo, redis, loops
<1>20. ASSUME NEW w \in Workers, EnqueueingDone(w)
      PROVE  TypeOK'
  BY <1>20 DEF TypeOK, EnqueueingDone, Steps, chain, mongo, redis, loops
<1>21. ASSUME NEW w \in Workers, GuardCheckpoint(w)
      PROVE  TypeOK'
  BY <1>21 DEF TypeOK, GuardCheckpoint, Steps, chain, mongo, redis, loops
<1>22. ASSUME NEW w \in Workers, WriteCheckpoint(w)
      PROVE  TypeOK'
  BY <1>22 DEF TypeOK, WriteCheckpoint, Steps, QueryRange, chain, redis, loops
<1>23. ASSUME NEW w \in Workers, MatchFails(w)
      PROVE  TypeOK'
  BY <1>23 DEF TypeOK, MatchFails, Steps, chain, mongo, redis, loops
<1>24. ASSUME NEW w \in Workers, CountJobs(w)
      PROVE  TypeOK'
  <2>1. CASE CallReturns(w)
    BY <1>24, <2>1, CallReturnsType DEF TypeOK, CountJobs, chain, mongo, loops
  <2>2. CASE ~CallReturns(w)
    BY <1>24, <2>2 DEF TypeOK, CountJobs, Steps, chain, mongo, redis, loops
  <2>3. QED  BY <2>1, <2>2
<1>25. ASSUME NEW w \in Workers, AddFlow(w)
      PROVE  TypeOK'
  BY <1>25, NoRangeType DEF TypeOK, AddFlow, InState, Stages, JobStates, Steps, chain, mongo, loops
<1>26. ASSUME NEW w \in Workers, FinishMatch(w)
      PROVE  TypeOK'
  BY <1>26, FinishType, NoRangeType DEF TypeOK, FinishMatch, chain, mongo, loops
<1>27. ASSUME NEW w \in Workers, BlockNumberFails(w)
      PROVE  TypeOK'
  <2>1. CASE CallReturns(w)
    BY <1>27, <2>1, CallReturnsType DEF TypeOK, BlockNumberFails, chain, mongo, loops
  <2>2. CASE ~CallReturns(w)
    BY <1>27, <2>2 DEF TypeOK, BlockNumberFails, Steps, chain, mongo, redis, loops
  <2>3. QED  BY <2>1, <2>2
<1>28. ASSUME NEW w \in Workers, EnqueueThrows(w)
      PROVE  TypeOK'
  BY <1>28, FinishType, NoRangeType DEF TypeOK, EnqueueThrows, chain, mongo, loops
<1>29. ASSUME NEW w \in Workers, StartLeading(w)
      PROVE  TypeOK'
  BY <1>29 DEF TypeOK, StartLeading, Steps, chain, mongo, redis, loops
<1>30. ASSUME NEW w \in Workers, StartStandby(w)
      PROVE  TypeOK'
  BY <1>30 DEF TypeOK, StartStandby, Steps, chain, mongo, redis, loops
<1>31. ASSUME NEW w \in Workers, Elect(w)
      PROVE  TypeOK'
  BY <1>31 DEF TypeOK, Elect, chain, mongo, redis, local, loops
<1>32. ASSUME NEW w \in Workers, CleanQueues(w)
      PROVE  TypeOK'
  BY <1>32 DEF TypeOK, CleanQueues, Steps, JobStates, chain, mongo, loops
<1>33. ASSUME NEW w \in Workers, NukeRequests(w)
      PROVE  TypeOK'
  BY <1>33 DEF TypeOK, NukeRequests, Steps, chain, redis, loops
<1>34. ASSUME NEW w \in Workers, Crash(w)
      PROVE  TypeOK'
  BY <1>34, NoRangeType DEF TypeOK, Crash, Steps, chain, mongo, loops
<1>35. ASSUME NEW w \in Workers, Demote(w)
      PROVE  TypeOK'
  BY <1>35 DEF TypeOK, Demote, chain, mongo, redis, local, loops
<1>36. CASE UNCHANGED vars
  BY <1>36 DEF TypeOK, vars, chain, mongo, redis, local, loops
<1> QED
  BY <1>1, <1>2, <1>3, <1>4, <1>5, <1>6, <1>7, <1>8, <1>9, <1>10, <1>11, <1>12, <1>13,
     <1>14, <1>15, <1>16, <1>17, <1>18, <1>19, <1>20, <1>21, <1>22, <1>23, <1>24, <1>25,
     <1>26, <1>27, <1>28, <1>29, <1>30, <1>31, <1>32, <1>33, <1>34, <1>35, <1>36
     DEF Next, Environment, UpdateJob, RewardedJob, MatchJob, EnqueueFlow, Faulty,
         Bootstrap, Process

(* Every state the loop reaches is well typed.                             *)
THEOREM TypeCorrect == Spec => []TypeOK
<1>1. Init => TypeOK
  BY DiscoveryAssumption, NoRangeType
     DEF Init, TypeOK, Stages, JobStates, Steps
<1>2. TypeOK /\ [Next]_vars => TypeOK'
  BY TypeStep
<1>3. QED  BY <1>1, <1>2, PTL DEF Spec

-----------------------------------------------------------------------------
(* The inductive invariant.  A block b is Covered when every request below *)
(* it is stored, RewardsCovered when every Rewarded event is, and Closed   *)
(* when every stored request paid below it is fulfilled.  A flow carries   *)
(* these facts from job to job in its range, a job carries them from await *)
(* to await in its span, and the checkpoint inherits them when it is       *)
(* written.  None of them is undone by what others do meanwhile: that is   *)
(* why they hold for any number of concurrent flows.                       *)

Covered(b)        == \A r \in requests : r.block < b => r \in stored
RewardsCovered(b) == \A e \in rewards : e.block < b => e \in storedRewards

PaidBefore(r, b) ==
    \E e \in rewards : e.addr = r.addr /\ r.block < e.block /\ e.block < b

Closed(b) == \A r \in stored : PaidBefore(r, b) => r \in fulfilled

ChainInv ==
    /\ \A r \in requests : Deployed < r.block /\ r.block <= head
    /\ \A e \in rewards : Deployed < e.block /\ e.block <= head
    /\ \A r, q \in requests : r.tx = q.tx => r = q
    /\ stored \subseteq requests
    /\ Deployed <= head

CheckpointInv ==
    /\ checkpoint <= head
    /\ Covered(checkpoint) /\ RewardsCovered(checkpoint) /\ Closed(checkpoint)

UpdateSteps   == {"checkpoint", "queryRequests", "storeRequests"}
RewardedSteps == {"queryRewards", "storeRewards"}
MatchSteps    == {"load", "match", "enqueue", "guard", "write", "count", "add", "added"}

FlowOK(f) ==
    /\ currentBlock[f] <= head
    /\ range[f].from <= head /\ range[f].to <= head
    /\ Covered(range[f].to)
    /\ stage[f] = "rewarded" => RewardsCovered(range[f].from)
    /\ stage[f] = "match" => RewardsCovered(range[f].to)

OwnerOK(f) ==
    \A w \in Workers : owner[f] = w =>
        /\ jobState[f] = "active"
        /\ \/ stage[f] = "update" /\ pc[w] \in UpdateSteps
           \/ stage[f] = "rewarded" /\ pc[w] \in RewardedSteps
           \/ stage[f] = "match" /\ pc[w] \in MatchSteps

SpanOK(w) ==
    /\ span[w].from <= head /\ span[w].to <= head
    /\ pc[w] \in {"queryRequests", "storeRequests", "queryRewards"} => RewardsCovered(span[w].from)
    /\ pc[w] = "queryRequests" => Covered(span[w].from)
    /\ pc[w] \in RewardedSteps \cup MatchSteps => Covered(span[w].to)
    /\ pc[w] \in MatchSteps => RewardsCovered(span[w].to)
    /\ pc[w] \in {"enqueue", "guard", "write"} => Closed(span[w].to)

TodoOK(w) ==
    /\ pc[w] = "storeRequests" =>
          /\ todo[w] \subseteq requests
          /\ \A r \in requests : r.block < span[w].to => r \in stored \cup todo[w]
    /\ pc[w] = "storeRewards" =>
          \A e \in rewards : e.block < span[w].to => e \in storedRewards \cup todoRewards[w]
    /\ pc[w] = "match" =>
          \A r \in stored : PaidBefore(r, span[w].to) => r \in fulfilled \cup todo[w]

DiscoveryInv ==
    /\ TypeOK
    /\ ChainInv
    /\ CheckpointInv
    /\ \A f \in Flows : FlowOK(f) /\ OwnerOK(f)
    /\ \A w \in Workers : SpanOK(w) /\ TodoOK(w)

(* What the theorems below assume of the deployment: no node trails the    *)
(* head by more than the one block that successive ranges share, no create *)
(* fails after findOne succeeded, the database is not emptied, and no      *)
(* transaction carries the requests of two addresses.                      *)
Careful ==
    /\ MaxLag <= 1
    /\ "store" \notin Faults
    /\ ~DoDbNuke
    /\ ~MultiRequestTx

-----------------------------------------------------------------------------
(* What a step may do to the data while others are at work: the chain   *)
(* and the database grow, the chain by blocks after its head.              *)
Grow ==
    /\ stored \subseteq stored' /\ stored' \subseteq requests
    /\ storedRewards \subseteq storedRewards'
    /\ fulfilled \subseteq fulfilled'
    /\ requests \subseteq requests'
    /\ rewards \subseteq rewards'
    /\ head <= head'
    /\ \A r \in requests' : r \notin requests => head < r.block
    /\ \A e \in rewards' : e \notin rewards => head < e.block

LEMMA Stable ==
    ASSUME TypeOK, TypeOK', ChainInv, Grow, NEW b \in Nat, b <= head
    PROVE  /\ Covered(b) => \A r \in requests' : r.block < b => r \in stored'
           /\ RewardsCovered(b) => \A e \in rewards' : e.block < b => e \in storedRewards'
           /\ Covered(b) /\ Closed(b) =>
                \A r \in stored' :
                   (\E e \in rewards' : e.addr = r.addr /\ r.block < e.block /\ e.block < b)
                       => r \in fulfilled'
<1>1. /\ \A r \in requests' : r.block \in Nat /\ (r.block < b => r \in requests)
      /\ \A e \in rewards' : e.block \in Nat /\ (e.block < b => e \in rewards)
  BY DEF TypeOK, Request, Reward, Grow
<1>2. \A r \in stored' : r \in requests' /\ r.block \in Nat
  BY DEF TypeOK, Request, Grow
<1>3. Covered(b) => \A r \in requests' : r.block < b => r \in stored'
  BY <1>1 DEF Covered, Grow
<1>4. RewardsCovered(b) => \A e \in rewards' : e.block < b => e \in storedRewards'
  BY <1>1 DEF RewardsCovered, Grow
<1>5. ASSUME Covered(b), Closed(b), NEW r \in stored',
             NEW e \in rewards', e.addr = r.addr, r.block < e.block, e.block < b
      PROVE  r \in fulfilled'
  <2>1. r.block < b /\ e \in rewards /\ r \in requests
    BY <1>1, <1>2, <1>5
  <2>2. r \in stored
    BY <2>1, <1>5 DEF Covered
  <2>3. r \in fulfilled
    BY <2>1, <2>2, <1>5 DEF Closed, PaidBefore
  <2>4. QED  BY <2>3 DEF Grow
<1>6. QED  BY <1>3, <1>4, <1>5

LEMMA CheckpointStable ==
    ASSUME TypeOK, TypeOK', ChainInv, Grow, CheckpointInv, UNCHANGED checkpoint
    PROVE  CheckpointInv'
<1>1. checkpoint \in Nat /\ checkpoint <= head
  BY DEF TypeOK, CheckpointInv
<1>2. checkpoint' <= head'
  BY <1>1 DEF TypeOK, Grow
<1>3. QED
  BY <1>1, <1>2, Stable DEF CheckpointInv, Covered, RewardsCovered, Closed, PaidBefore

LEMMA FlowStable ==
    ASSUME TypeOK, TypeOK', ChainInv, Grow, NEW f \in Flows, FlowOK(f),
           UNCHANGED <<stage[f], currentBlock[f], range[f]>>
    PROVE  FlowOK(f)'
<1>1. /\ range[f].to \in Nat /\ range[f].from \in Nat /\ currentBlock[f] \in Nat
      /\ head \in Nat /\ head' \in Nat
  BY DEF TypeOK, QueryRange
<1>2. QED
  BY <1>1, Stable DEF FlowOK, Grow, Covered, RewardsCovered

LEMMA WorkerStable ==
    ASSUME TypeOK, TypeOK', ChainInv, Grow, NEW w \in Workers, SpanOK(w), TodoOK(w),
           UNCHANGED <<pc[w], span[w], todo[w], todoRewards[w]>>
    PROVE  SpanOK(w)' /\ TodoOK(w)'
<1>1. /\ span[w].to \in Nat /\ span[w].from \in Nat
      /\ head \in Nat /\ head' \in Nat
      /\ span[w].to <= head /\ span[w].from <= head
  BY DEF TypeOK, QueryRange, SpanOK
<1>2. SpanOK(w)'
  BY <1>1, Stable
     DEF SpanOK, Grow, Covered, RewardsCovered, Closed, PaidBefore, RewardedSteps, MatchSteps
<1>3. ASSUME pc[w] = "storeRequests"
      PROVE  /\ todo[w] \subseteq requests'
             /\ \A r \in requests' : r.block < span[w].to => r \in stored' \cup todo[w]
  <2>1. ASSUME NEW r \in requests', r.block < span[w].to
        PROVE  r \in requests
    BY <1>1, <2>1 DEF TypeOK, Request, Grow
  <2>2. QED  BY <1>3, <2>1 DEF TodoOK, Grow
<1>4. ASSUME pc[w] = "storeRewards", NEW e \in rewards', e.block < span[w].to
      PROVE  e \in storedRewards' \cup todoRewards[w]
  <2>1. e \in rewards
    BY <1>1, <1>4 DEF TypeOK, Reward, Grow
  <2>2. QED  BY <1>4, <2>1 DEF TodoOK, Grow
<1>5. ASSUME pc[w] = "match", NEW r \in stored', NEW e \in rewards',
             e.addr = r.addr, r.block < e.block, e.block < span[w].to
      PROVE  r \in fulfilled' \cup todo[w]
  <2>1. r \in Request /\ e \in Reward
    BY DEF TypeOK, Grow
  <2>2. r.block < span[w].to /\ e \in rewards /\ r \in requests
    BY <1>1, <1>5, <2>1 DEF Request, Reward, Grow
  <2>3. Covered(span[w].to)
    BY <1>5 DEF SpanOK, MatchSteps
  <2>4. r \in stored
    BY <2>2, <2>3 DEF Covered
  <2>5. r \in fulfilled \cup todo[w]
    BY <1>5, <2>2, <2>4 DEF TodoOK, PaidBefore
  <2>6. QED  BY <2>5 DEF Grow
<1>6. TodoOK(w)'
  BY <1>3, <1>4, <1>5 DEF TodoOK, PaidBefore
<1>7. QED  BY <1>2, <1>6

LEMMA NothingBelowZero ==
    ASSUME TypeOK
    PROVE  Covered(0) /\ RewardsCovered(0) /\ Closed(0)
BY DEF TypeOK, Request, Reward, Covered, RewardsCovered, Closed, PaidBefore

(* The end of a job hands its value to the next job of the flow.  The      *)
(* value must carry what that job relies on.                               *)
LEMMA FinishKeeps ==
    ASSUME DiscoveryInv, TypeOK', UNCHANGED <<chain, mongo>>,
           NEW w \in Workers, NEW value \in QueryRange, Finish(w, value),
           value.from <= head, value.to <= head, Covered(value.to),
           pc[w] \in UpdateSteps => RewardsCovered(value.from),
           pc[w] \in RewardedSteps => RewardsCovered(value.to)
    PROVE  DiscoveryInv'
<1>1. ChainInv' /\ CheckpointInv'
  BY DEF DiscoveryInv, ChainInv, CheckpointInv, Covered, RewardsCovered, Closed, PaidBefore,
         chain, mongo
<1>2. Grow
  BY DEF DiscoveryInv, TypeOK, ChainInv, Grow, chain, mongo
<1>3. ASSUME NEW f \in Flows
      PROVE  FlowOK(f)'
  <2>1. CASE owner[f] = w
    <3>1. /\ stage'[f] = IF stage[f] = "update" THEN "rewarded"
                         ELSE IF stage[f] = "rewarded" THEN "match" ELSE "update"
          /\ range'[f] = value /\ currentBlock'[f] = 0
      BY <2>1 DEF Finish
    <3>2. /\ stage[f] = "update" => RewardsCovered(value.from)
          /\ stage[f] = "rewarded" => RewardsCovered(value.to)
      BY <2>1 DEF DiscoveryInv, OwnerOK
    <3>3. /\ 0 <= head /\ head' = head
          /\ stage'[f] = "match" => stage[f] = "rewarded"
          /\ stage'[f] = "rewarded" => stage[f] = "update"
      BY <3>1 DEF DiscoveryInv, TypeOK, chain
    <3>4. QED
      BY <3>1, <3>2, <3>3 DEF FlowOK, Covered, RewardsCovered, chain, mongo
  <2>2. CASE owner[f] # w
    <3>1. UNCHANGED <<stage[f], currentBlock[f], range[f]>>
      BY <2>2 DEF Finish
    <3>2. QED  BY <1>2, <3>1, FlowStable DEF DiscoveryInv
  <2>3. QED  BY <2>1, <2>2
<1>4. ASSUME NEW f \in Flows
      PROVE  OwnerOK(f)'
  BY DiscoveryAssumption DEF DiscoveryInv, TypeOK, OwnerOK, Finish
<1>5. ASSUME NEW v \in Workers
      PROVE  SpanOK(v)' /\ TodoOK(v)'
  <2>1. CASE v = w
    <3>1. pc'[v] = "idle" /\ span'[v] = NoRange
      BY <2>1 DEF DiscoveryInv, TypeOK, Finish
    <3>2. QED
      BY <3>1, NoRangeType
         DEF DiscoveryInv, TypeOK, SpanOK, TodoOK, RewardedSteps, MatchSteps, chain
  <2>2. CASE v # w
    <3>1. UNCHANGED <<pc[v], span[v], todo[v], todoRewards[v]>>
      BY <2>2 DEF DiscoveryInv, TypeOK, Finish
    <3>2. QED  BY <1>2, <3>1, WorkerStable DEF DiscoveryInv
  <2>3. QED  BY <2>1, <2>2
<1>6. QED  BY <1>1, <1>3, <1>4, <1>5 DEF DiscoveryInv

(* A step of one process that leaves Redis alone keeps the invariant when it  *)
(* keeps its own part of it and stays within its job.                      *)
LEMMA LocalKeeps ==
    ASSUME DiscoveryInv, TypeOK', Grow, UNCHANGED chain, UNCHANGED redis,
           NEW w \in Workers,
           \A v \in Workers \ {w} : UNCHANGED <<pc[v], span[v], todo[v], todoRewards[v]>>,
           CheckpointInv', SpanOK(w)', TodoOK(w)',
           pc[w] \in UpdateSteps => pc'[w] \in UpdateSteps,
           pc[w] \in RewardedSteps => pc'[w] \in RewardedSteps,
           pc[w] \in MatchSteps => pc'[w] \in MatchSteps
    PROVE  DiscoveryInv'
<1>1. ChainInv'
  BY DEF DiscoveryInv, ChainInv, Grow, chain
<1>2. ASSUME NEW f \in Flows
      PROVE  FlowOK(f)'
  BY FlowStable DEF DiscoveryInv, redis
<1>3. ASSUME NEW f \in Flows
      PROVE  OwnerOK(f)'
  BY DEF DiscoveryInv, OwnerOK, redis
<1>4. ASSUME NEW v \in Workers
      PROVE  SpanOK(v)' /\ TodoOK(v)'
  <2>1. CASE v = w  BY <2>1
  <2>2. CASE v # w  BY <2>2, WorkerStable DEF DiscoveryInv
  <2>3. QED  BY <2>1, <2>2
<1>5. QED  BY <1>1, <1>2, <1>3, <1>4 DEF DiscoveryInv

(* A step that leaves the processes alone keeps the invariant when it      *)
(* keeps the part of the flows.                                            *)
LEMMA ElsewhereKeeps ==
    ASSUME DiscoveryInv, TypeOK', Grow, ChainInv', CheckpointInv', UNCHANGED local,
           \A f \in Flows : FlowOK(f)' /\ OwnerOK(f)'
    PROVE  DiscoveryInv'
<1>1. ASSUME NEW v \in Workers
      PROVE  SpanOK(v)' /\ TodoOK(v)'
  BY WorkerStable DEF DiscoveryInv, local, loops
<1>2. QED  BY <1>1 DEF DiscoveryInv

LEMMA UnchangedGrow ==
    ASSUME TypeOK, ChainInv, UNCHANGED chain, stored' = stored,
           storedRewards \subseteq storedRewards', fulfilled \subseteq fulfilled'
    PROVE  Grow
BY DEF TypeOK, ChainInv, Grow, chain

-----------------------------------------------------------------------------
(* The environment.                                                        *)

LEMMA MineKeeps ==
    ASSUME Careful, DiscoveryInv, TypeOK', Mine
    PROVE  DiscoveryInv'
<1>1. PICK batch \in {{}} \cup RequestBatches(head + 1), paid \in {{}} \cup {{c} : c \in claims} :
          /\ requests' = requests \cup batch
          /\ rewards' = rewards \cup {[addr |-> c.addr, block |-> head + 1] : c \in paid}
  BY DEF Mine
<1>2. /\ \A r \in batch : r.block = head + 1 /\ \A q \in requests : q.tx # r.tx
      /\ \A r, q \in batch : r = q
  <2>1. CASE batch = {}  BY <2>1
  <2>2. CASE batch # {}
    <3>1. PICK t \in {u \in Tx : \A r \in requests : r.tx # u},
               A \in {B \in SUBSET Addr : B # {} /\ (MultiRequestTx \/ \A x, y \in B : x = y)} :
             batch = {[tx |-> t, addr |-> a, block |-> head + 1] : a \in A}
      BY <2>2 DEF RequestBatches
    <3>2. \A x, y \in A : x = y
      BY <3>1 DEF Careful
    <3>3. QED  BY <3>1, <3>2
  <2>3. QED  BY <2>1, <2>2
<1>3. \A e \in rewards' : e \in rewards \/ e.block = head + 1
  BY <1>1
<1>4. head' = head + 1 /\ head \in Nat /\ Deployed \in Nat /\ Deployed <= head
  BY DiscoveryAssumption DEF Mine, DiscoveryInv, TypeOK, ChainInv
<1>5. Grow
  BY <1>1, <1>2, <1>3, <1>4 DEF Grow, Mine, mongo, DiscoveryInv, ChainInv
<1>6. ChainInv'
  <2>1. \A r \in requests' : Deployed < r.block /\ r.block <= head'
    BY <1>1, <1>2, <1>4 DEF DiscoveryInv, TypeOK, Request, ChainInv
  <2>2. \A e \in rewards' : Deployed < e.block /\ e.block <= head'
    BY <1>3, <1>4 DEF DiscoveryInv, TypeOK, Reward, ChainInv
  <2>3. \A r, q \in requests' : r.tx = q.tx => r = q
    BY <1>1, <1>2 DEF DiscoveryInv, ChainInv
  <2>4. stored' \subseteq requests' /\ Deployed <= head'
    BY <1>1, <1>4 DEF Mine, mongo, DiscoveryInv, ChainInv
  <2>5. QED  BY <2>1, <2>2, <2>3, <2>4 DEF ChainInv
<1>7. CheckpointInv'
  BY <1>5, CheckpointStable DEF DiscoveryInv, Mine, mongo
<1>8. ASSUME NEW f \in Flows
      PROVE  FlowOK(f)' /\ OwnerOK(f)'
  <2>1. FlowOK(f)'
    BY <1>5, FlowStable DEF DiscoveryInv, Mine, redis
  <2>2. OwnerOK(f)'
    BY DEF DiscoveryInv, OwnerOK, Mine, redis, local
  <2>3. QED  BY <2>1, <2>2
<1>9. QED
  BY <1>5, <1>6, <1>7, <1>8, ElsewhereKeeps DEF Mine

(* Claims, elections and losses of leadership touch nothing the invariant  *)
(* speaks of, except that a retired request is closed.                     *)
LEMMA BystanderKeeps ==
    ASSUME DiscoveryInv, TypeOK', UNCHANGED <<chain, redis, local>>,
           UNCHANGED <<stored, storedRewards, checkpoint>>, fulfilled \subseteq fulfilled'
    PROVE  DiscoveryInv'
<1>1. Grow
  BY UnchangedGrow DEF DiscoveryInv
<1>2. ChainInv' /\ CheckpointInv'
  BY <1>1, CheckpointStable DEF DiscoveryInv, ChainInv, chain
<1>3. ASSUME NEW f \in Flows
      PROVE  FlowOK(f)' /\ OwnerOK(f)'
  <2>1. FlowOK(f)'
    BY <1>1, FlowStable DEF DiscoveryInv, redis
  <2>2. OwnerOK(f)'
    BY DEF DiscoveryInv, OwnerOK, redis, local
  <2>3. QED  BY <2>1, <2>2
<1>4. QED  BY <1>1, <1>2, <1>3, ElsewhereKeeps

-----------------------------------------------------------------------------
(* Redis and the life of a process.                                        *)

LEMMA QueueKeeps ==
    ASSUME DiscoveryInv, TypeOK', NEW f \in Flows, DelayExpires(f) \/ JobStalls(f)
    PROVE  DiscoveryInv'
<1>1. UNCHANGED <<chain, mongo, local>>
  BY DEF DelayExpires, JobStalls, local, loops
<1>2. Grow
  BY <1>1, UnchangedGrow DEF DiscoveryInv, mongo
<1>3. ChainInv' /\ CheckpointInv'
  BY <1>1, <1>2, CheckpointStable DEF DiscoveryInv, ChainInv, chain, mongo
<1>4. ASSUME NEW g \in Flows
      PROVE  FlowOK(g)' /\ OwnerOK(g)'
  <2>1. FlowOK(g)'
    <3>1. CASE UNCHANGED <<stage[g], currentBlock[g], range[g]>>
      BY <1>1, <1>2, <3>1, FlowStable DEF DiscoveryInv
    <3>2. CASE ~UNCHANGED <<stage[g], currentBlock[g], range[g]>>
      <4>1. stage'[g] = "update" /\ currentBlock'[g] = 0 /\ range'[g] = NoRange
        BY <3>2 DEF DiscoveryInv, TypeOK, DelayExpires, JobStalls
      <4>2. Covered(0) /\ 0 <= head
        BY NothingBelowZero DEF DiscoveryInv, TypeOK
      <4> QED BY <1>1, <4>1, <4>2, NoRangeType DEF FlowOK, Covered, chain, mongo
    <3> QED BY <3>1, <3>2
  <2>2. CASE DelayExpires(f)
    BY <1>1, <2>1, <2>2 DEF DiscoveryInv, TypeOK, OwnerOK, DelayExpires, local
  <2>3. CASE JobStalls(f)
    BY <1>1, <2>1, <2>3, DiscoveryAssumption
       DEF DiscoveryInv, TypeOK, OwnerOK, JobStalls, local
  <2>4. QED  BY <2>1, <2>2, <2>3
<1>5. QED  BY <1>1, <1>2, <1>3, <1>4, ElsewhereKeeps

(* A job starts from what its flow carries.                                *)
LEMMA TakeKeeps ==
    ASSUME DiscoveryInv, TypeOK', NEW w \in Workers, NEW f \in Flows, Take(w, f)
    PROVE  DiscoveryInv'
<1>1. UNCHANGED <<chain, mongo, stage, currentBlock, range, todo, todoRewards>>
  BY DEF Take, loops
<1>2. Grow
  BY <1>1, UnchangedGrow DEF DiscoveryInv, mongo
<1>3. ChainInv' /\ CheckpointInv'
  BY <1>1, <1>2, CheckpointStable DEF DiscoveryInv, ChainInv, chain, mongo
<1>4. ASSUME NEW g \in Flows
      PROVE  FlowOK(g)' /\ OwnerOK(g)'
  <2>1. FlowOK(g)'
    BY <1>1, <1>2, FlowStable DEF DiscoveryInv
  <2>2. ASSUME NEW v \in Workers, owner'[g] = v
        PROVE  /\ jobState'[g] = "active"
               /\ \/ stage'[g] = "update" /\ pc'[v] \in UpdateSteps
                  \/ stage'[g] = "rewarded" /\ pc'[v] \in RewardedSteps
                  \/ stage'[g] = "match" /\ pc'[v] \in MatchSteps
    <3>1. CASE g = f
      <4>1. v = w /\ jobState'[g] = "active" /\ stage'[g] = stage[g]
        BY <2>2, <3>1 DEF DiscoveryInv, TypeOK, Take
      <4>2. \/ stage[g] = "update" /\ pc'[w] = "checkpoint"
            \/ stage[g] = "rewarded" /\ pc'[w] = "queryRewards"
            \/ stage[g] = "match" /\ pc'[w] = "load"
        BY <3>1 DEF DiscoveryInv, TypeOK, Stages, Take
      <4>3. QED  BY <4>1, <4>2 DEF UpdateSteps, RewardedSteps, MatchSteps
    <3>2. CASE g # f
      <4>1. owner[g] = v /\ jobState'[g] = jobState[g] /\ stage'[g] = stage[g]
        BY <2>2, <3>2 DEF DiscoveryInv, TypeOK, Take
      <4>2. v # w
        BY <4>1 DEF DiscoveryInv, OwnerOK, Take, UpdateSteps, RewardedSteps, MatchSteps
      <4>3. QED
        BY <4>1, <4>2 DEF DiscoveryInv, TypeOK, OwnerOK, Take
    <3>3. QED  BY <3>1, <3>2
  <2>3. QED  BY <2>1, <2>2 DEF OwnerOK
<1>5. ASSUME NEW v \in Workers
      PROVE  SpanOK(v)' /\ TodoOK(v)'
  <2>1. CASE v = w
    <3>1. /\ span[w] \in QueryRange /\ range[f] \in QueryRange /\ currentBlock[f] \in Nat /\ head \in Nat
          /\ FlowOK(f)
      BY DEF DiscoveryInv, TypeOK
    <3>2. CASE stage[f] = "update"
      <4>1. pc'[w] = "checkpoint" /\ span'[w] = [from |-> 0, to |-> currentBlock[f]]
        BY <3>2 DEF DiscoveryInv, TypeOK, Take
      <4>2. QED
        BY <1>1, <2>1, <3>1, <4>1 DEF FlowOK, SpanOK, TodoOK, RewardedSteps, MatchSteps, chain
    <3>3. CASE stage[f] = "rewarded"
      <4>1. pc'[w] = "queryRewards" /\ span'[w] = range[f]
        BY <3>3 DEF DiscoveryInv, TypeOK, Take
      <4>2. QED
        BY <1>1, <2>1, <3>1, <3>3, <4>1
           DEF FlowOK, SpanOK, TodoOK, MatchSteps, Covered, RewardsCovered, chain, mongo
    <3>4. CASE stage[f] = "match"
      <4>1. pc'[w] = "load" /\ span'[w] = range[f]
        BY <3>4 DEF DiscoveryInv, TypeOK, Take
      <4>2. QED
        BY <1>1, <2>1, <3>1, <3>4, <4>1
           DEF FlowOK, SpanOK, TodoOK, Covered, RewardsCovered, chain, mongo
    <3>5. QED  BY <3>2, <3>3, <3>4 DEF DiscoveryInv, TypeOK, Stages
  <2>2. CASE v # w
    <3>1. UNCHANGED <<pc[v], span[v], todo[v], todoRewards[v]>>
      BY <1>1, <2>2 DEF DiscoveryInv, TypeOK, Take
    <3>2. QED  BY <1>2, <3>1, WorkerStable DEF DiscoveryInv
  <2>3. QED  BY <2>1, <2>2
<1>6. QED  BY <1>3, <1>4, <1>5 DEF DiscoveryInv

LEMMA AddFlowKeeps ==
    ASSUME DiscoveryInv, TypeOK', NEW w \in Workers, AddFlow(w)
    PROVE  DiscoveryInv'
<1>1. UNCHANGED <<chain, mongo, span, todo, todoRewards, owner>>
  BY DEF AddFlow, loops
<1>2. Grow
  BY <1>1, UnchangedGrow DEF DiscoveryInv, mongo
<1>3. ChainInv' /\ CheckpointInv'
  BY <1>1, <1>2, CheckpointStable DEF DiscoveryInv, ChainInv, chain, mongo
<1>4. \/ pc[w] = "add" /\ pc' = [pc EXCEPT ![w] = "added"]
      \/ pc[w] = "bootAdd" /\ pc' = [pc EXCEPT ![w] = "idle"]
  BY DEF AddFlow, Booting, DiscoveryInv, TypeOK
<1>5. PICK f \in Flows, lag \in 0..MaxLag :
         /\ jobState[f] = "none" /\ lag <= head
         /\ stage' = [stage EXCEPT ![f] = "update"]
         /\ jobState' = [jobState EXCEPT ![f] = IF Booting(w) THEN "waiting" ELSE "delayed"]
         /\ currentBlock' = [currentBlock EXCEPT ![f] = head - lag]
         /\ range' = [range EXCEPT ![f] = NoRange]
  BY DEF AddFlow, InState
<1>6. ASSUME NEW g \in Flows
      PROVE  FlowOK(g)' /\ OwnerOK(g)'
  <2>1. CASE g = f
    <3>1. /\ stage'[g] = "update" /\ range'[g] = NoRange
          /\ currentBlock'[g] = head - lag
      BY <1>5, <2>1 DEF DiscoveryInv, TypeOK
    <3>2. head - lag <= head /\ 0 <= head
      BY <1>5, DiscoveryAssumption DEF DiscoveryInv, TypeOK
    <3>3. FlowOK(g)'
      BY <1>1, <3>1, <3>2, NoRangeType, NothingBelowZero
         DEF DiscoveryInv, FlowOK, Covered, chain, mongo
    <3>4. OwnerOK(g)'
      BY <1>1, <1>5, <2>1 DEF DiscoveryInv, TypeOK, OwnerOK
    <3>5. QED  BY <3>3, <3>4
  <2>2. CASE g # f
    <3>1. UNCHANGED <<stage[g], currentBlock[g], range[g], jobState[g]>>
      BY <1>5, <2>2 DEF DiscoveryInv, TypeOK
    <3>2. FlowOK(g)'
      BY <1>2, <3>1, FlowStable DEF DiscoveryInv
    <3>3. OwnerOK(g)'
      BY <1>1, <1>4, <3>1
         DEF DiscoveryInv, TypeOK, OwnerOK, UpdateSteps, RewardedSteps, MatchSteps
    <3>4. QED  BY <3>2, <3>3
  <2>3. QED  BY <2>1, <2>2
<1>7. ASSUME NEW v \in Workers
      PROVE  SpanOK(v)' /\ TodoOK(v)'
  <2>1. CASE v = w
    BY <1>1, <1>4, <2>1
       DEF DiscoveryInv, TypeOK, SpanOK, TodoOK, RewardedSteps, MatchSteps, Covered,
           RewardsCovered, chain, mongo
  <2>2. CASE v # w
    <3>1. UNCHANGED <<pc[v], span[v], todo[v], todoRewards[v]>>
      BY <1>1, <1>4, <2>2 DEF DiscoveryInv, TypeOK
    <3>2. QED  BY <1>2, <3>1, WorkerStable DEF DiscoveryInv
  <2>3. QED  BY <2>1, <2>2
<1>8. QED  BY <1>3, <1>6, <1>7 DEF DiscoveryInv

(* Emptying the queue and crashing both take locks away.                   *)
LEMMA UnlockKeeps ==
    ASSUME DiscoveryInv, TypeOK', NEW w \in Workers, CleanQueues(w) \/ Crash(w)
    PROVE  DiscoveryInv'
<1>1. UNCHANGED <<chain, mongo, stage, currentBlock, range>>
  BY DEF CleanQueues, Crash
<1>2. Grow
  BY <1>1, UnchangedGrow DEF DiscoveryInv, mongo
<1>3. ChainInv' /\ CheckpointInv'
  BY <1>1, <1>2, CheckpointStable DEF DiscoveryInv, ChainInv, chain, mongo
<1>4. \/ Crash(w) /\ pc'[w] = "down" /\ span'[w] = NoRange
      \/ CleanQueues(w) /\ pc[w] = "clean" /\ pc'[w] = "nuke" /\ span' = span
  BY DEF DiscoveryInv, TypeOK, CleanQueues, Crash
<1>5. \A v \in Workers \ {w} : UNCHANGED <<pc[v], span[v], todo[v], todoRewards[v]>>
  BY DEF DiscoveryInv, TypeOK, CleanQueues, Crash, loops
<1>6. ASSUME NEW g \in Flows
      PROVE  FlowOK(g)' /\ OwnerOK(g)'
  <2>1. FlowOK(g)'
    BY <1>1, <1>2, FlowStable DEF DiscoveryInv
  <2>2. CASE Crash(w)
    <3>1. \A v \in Workers : owner'[g] = v => v # w /\ owner[g] = v
      BY <2>2, DiscoveryAssumption DEF DiscoveryInv, TypeOK, Crash
    <3>2. QED
      BY <1>1, <1>5, <2>1, <2>2, <3>1 DEF DiscoveryInv, OwnerOK, Crash
  <2>3. CASE CleanQueues(w) /\ DoClean
    BY <2>1, <2>3, DiscoveryAssumption DEF OwnerOK, CleanQueues
  <2>4. CASE CleanQueues(w) /\ ~DoClean
    BY <1>1, <1>4, <1>5, <2>1, <2>4
       DEF DiscoveryInv, OwnerOK, CleanQueues, UpdateSteps, RewardedSteps, MatchSteps
  <2>5. QED  BY <2>2, <2>3, <2>4
<1>7. ASSUME NEW v \in Workers
      PROVE  SpanOK(v)' /\ TodoOK(v)'
  <2>1. CASE v = w
    BY <1>1, <1>4, <2>1, NoRangeType
       DEF DiscoveryInv, TypeOK, SpanOK, TodoOK, RewardedSteps, MatchSteps, chain
  <2>2. CASE v # w
    BY <1>2, <1>5, <2>2, WorkerStable DEF DiscoveryInv
  <2>3. QED  BY <2>1, <2>2
<1>8. QED  BY <1>3, <1>6, <1>7 DEF DiscoveryInv

-----------------------------------------------------------------------------
(* The steps of the three jobs.                                            *)

LEMMA UpdateJobKeeps ==
    ASSUME Careful, DiscoveryInv, TypeOK', NEW w \in Workers, UpdateJob(w)
    PROVE  DiscoveryInv'
<1> USE DEF UpdateSteps, RewardedSteps, MatchSteps
<1>1. /\ span[w] \in QueryRange /\ span[w].from \in Nat /\ span[w].to \in Nat
      /\ head \in Nat /\ checkpoint \in Nat /\ SpanOK(w) /\ TodoOK(w)
  BY DEF DiscoveryInv, TypeOK, QueryRange
<1>2. CASE ReadCheckpoint(w)
  <2>1. UNCHANGED <<chain, redis, stored, storedRewards, fulfilled, todo, todoRewards>>
    BY <1>2 DEF ReadCheckpoint, loops
  <2>2. Grow
    BY <2>1, UnchangedGrow DEF DiscoveryInv
  <2>3. /\ Deployed \in Nat /\ Deployed <= head
        /\ Covered(Deployed) /\ RewardsCovered(Deployed) /\ Closed(Deployed)
    BY DiscoveryAssumption
       DEF DiscoveryInv, TypeOK, ChainInv, Request, Reward, Covered, RewardsCovered, Closed,
           PaidBefore
  <2>4. /\ checkpoint' \in Nat /\ checkpoint' <= head
        /\ Covered(checkpoint)' /\ RewardsCovered(checkpoint)' /\ Closed(checkpoint)'
    BY <1>1, <1>2, <2>1, <2>3
       DEF DiscoveryInv, CheckpointInv, ReadCheckpoint, Covered, RewardsCovered, Closed,
           PaidBefore, chain
  <2>5. /\ pc' = [pc EXCEPT ![w] = "queryRequests"]
        /\ span' = [span EXCEPT ![w] = [from |-> checkpoint', to |-> span[w].to]]
    BY <1>2 DEF ReadCheckpoint
  <2>6. /\ pc'[w] = "queryRequests"
        /\ span'[w].from = checkpoint' /\ span'[w].to = span[w].to
    BY <2>5 DEF DiscoveryInv, TypeOK
  <2>7. SpanOK(w)' /\ TodoOK(w)' /\ CheckpointInv'
    BY <1>1, <2>1, <2>4, <2>6
       DEF SpanOK, TodoOK, CheckpointInv, Covered, RewardsCovered, chain
  <2>8. \A v \in Workers \ {w} : UNCHANGED <<pc[v], span[v], todo[v], todoRewards[v]>>
    BY <2>1, <2>5 DEF DiscoveryInv, TypeOK
  <2>9. pc[w] = "checkpoint"
    BY <1>2 DEF ReadCheckpoint
  <2>10. QED
    BY <2>1, <2>2, <2>6, <2>7, <2>8, <2>9, LocalKeeps
<1>3. CASE QueryRequests(w)
  <2>1. UNCHANGED <<chain, mongo, redis, todoRewards>>
    BY <1>3 DEF QueryRequests
  <2>2. Grow
    BY <2>1, UnchangedGrow DEF DiscoveryInv, mongo
  <2>3. PICK lag \in 0..MaxLag :
           todo' = [todo EXCEPT ![w] = Visible(requests, Capped(span[w]), lag)]
    BY <1>3 DEF QueryRequests
  <2>4. /\ pc[w] = "queryRequests" /\ pc' = [pc EXCEPT ![w] = "storeRequests"]
        /\ span' = [span EXCEPT ![w] = Capped(span[w])]
    BY <1>3 DEF QueryRequests
  <2>5. /\ pc'[w] = "storeRequests" /\ span'[w] = Capped(span[w])
        /\ todo'[w] = Visible(requests, Capped(span[w]), lag)
    BY <2>3, <2>4 DEF DiscoveryInv, TypeOK
  <2>6. /\ span'[w].from = span[w].from /\ span'[w].to <= span[w].to
        /\ span'[w].to \in Nat
    BY <1>1, <2>5, CappedType DEF QueryRange
  <2>7. lag \in {0, 1}
    BY DiscoveryAssumption DEF Careful
  <2>8. \A r \in requests : r.block < span'[w].to => r \in stored \cup todo'[w]
    <3>1. SUFFICES ASSUME NEW r \in requests, r.block < span'[w].to, r \notin stored
                   PROVE  r \in todo'[w]
      OBVIOUS
    <3>2. r.block \in Nat
      BY DEF DiscoveryInv, TypeOK, Request
    <3>3. span[w].from <= r.block
      BY <1>1, <2>4, <3>1, <3>2 DEF SpanOK, Covered
    <3>4. r.block <= head - lag
      BY <1>1, <2>6, <2>7, <3>1, <3>2 DEF SpanOK
    <3>5. QED
      BY <2>5, <2>6, <3>1, <3>2, <3>3, <3>4 DEF Visible
  <2>9. SpanOK(w)'
    BY <1>1, <2>1, <2>4, <2>5, <2>6 DEF SpanOK, RewardsCovered, chain, mongo
  <2>10. TodoOK(w)'
    BY <2>1, <2>5, <2>8 DEF TodoOK, Visible, chain, mongo
  <2>11. \A v \in Workers \ {w} : UNCHANGED <<pc[v], span[v], todo[v], todoRewards[v]>>
    BY <2>1, <2>3, <2>4 DEF DiscoveryInv, TypeOK
  <2>12. CheckpointInv'
    BY <2>1, <2>2, CheckpointStable DEF DiscoveryInv, mongo
  <2>13. QED
    BY <2>1, <2>2, <2>4, <2>5, <2>9, <2>10, <2>11, <2>12, LocalKeeps
<1>4. CASE StoreRequest(w)
  <2>1. PICK r \in todo[w] :
           /\ todo' = [todo EXCEPT ![w] = @ \ {r}]
           /\ stored' = IF \E d \in stored : d.tx = r.tx THEN stored ELSE stored \cup {r}
    BY <1>4 DEF StoreRequest, Careful
  <2>2. /\ UNCHANGED <<chain, redis, pc, span, todoRewards, checkpoint, fulfilled, storedRewards>>
        /\ pc[w] = "storeRequests"
    BY <1>4 DEF StoreRequest
  <2>3. r \in requests
    BY <1>1, <2>2 DEF TodoOK
  <2>4. r \in stored' /\ stored \subseteq stored' /\ stored' \subseteq requests
    BY <2>1, <2>3 DEF DiscoveryInv, ChainInv
  <2>5. Grow
    BY <2>2, <2>4 DEF DiscoveryInv, TypeOK, Grow, chain
  <2>6. todo'[w] = todo[w] \ {r}
    BY <2>1 DEF DiscoveryInv, TypeOK
  <2>7. TodoOK(w)'
    BY <1>1, <2>2, <2>4, <2>6 DEF TodoOK, chain
  <2>8. SpanOK(w)'
    BY <1>1, <2>2 DEF SpanOK, RewardsCovered, chain
  <2>9. \A v \in Workers \ {w} : UNCHANGED <<pc[v], span[v], todo[v], todoRewards[v]>>
    BY <2>1, <2>2 DEF DiscoveryInv, TypeOK
  <2>10. CheckpointInv'
    BY <2>2, <2>5, CheckpointStable DEF DiscoveryInv
  <2>11. QED
    BY <2>2, <2>5, <2>7, <2>8, <2>9, <2>10, LocalKeeps
<1>5. CASE FinishUpdate(w)
  <2>1. /\ pc[w] = "storeRequests" /\ todo[w] = {}
        /\ Finish(w, span[w]) /\ UNCHANGED <<chain, mongo>>
    BY <1>5 DEF FinishUpdate
  <2>2. /\ Covered(span[w].to) /\ RewardsCovered(span[w].from)
        /\ span[w].to <= head /\ span[w].from <= head
    BY <1>1, <2>1 DEF SpanOK, TodoOK, Covered
  <2>3. QED
    BY <1>1, <2>1, <2>2, FinishKeeps
<1>6. QED  BY <1>2, <1>3, <1>4, <1>5 DEF UpdateJob

LEMMA RewardedJobKeeps ==
    ASSUME Careful, DiscoveryInv, TypeOK', NEW w \in Workers, RewardedJob(w)
    PROVE  DiscoveryInv'
<1> USE DEF UpdateSteps, RewardedSteps, MatchSteps
<1>1. /\ span[w] \in QueryRange /\ span[w].from \in Nat /\ span[w].to \in Nat
      /\ head \in Nat /\ checkpoint \in Nat /\ SpanOK(w) /\ TodoOK(w)
  BY DEF DiscoveryInv, TypeOK, QueryRange
<1>2. CASE QueryRewards(w)
  <2>1. UNCHANGED <<chain, mongo, redis, span, todo>>
    BY <1>2 DEF QueryRewards
  <2>2. Grow
    BY <2>1, UnchangedGrow DEF DiscoveryInv, mongo
  <2>3. PICK lag \in 0..MaxLag :
           todoRewards' = [todoRewards EXCEPT ![w] = Visible(rewards, span[w], lag)]
    BY <1>2 DEF QueryRewards
  <2>4. pc[w] = "queryRewards" /\ pc' = [pc EXCEPT ![w] = "storeRewards"]
    BY <1>2 DEF QueryRewards
  <2>5. pc'[w] = "storeRewards" /\ todoRewards'[w] = Visible(rewards, span[w], lag)
    BY <2>3, <2>4 DEF DiscoveryInv, TypeOK
  <2>6. lag \in {0, 1}
    BY DiscoveryAssumption DEF Careful
  <2>7. \A e \in rewards : e.block < span[w].to => e \in storedRewards \cup todoRewards'[w]
    <3>1. SUFFICES ASSUME NEW e \in rewards, e.block < span[w].to, e \notin storedRewards
                   PROVE  e \in todoRewards'[w]
      OBVIOUS
    <3>2. e.block \in Nat
      BY DEF DiscoveryInv, TypeOK, Reward
    <3>3. span[w].from <= e.block
      BY <1>1, <2>4, <3>1, <3>2 DEF SpanOK, RewardsCovered
    <3>4. e.block <= head - lag
      BY <1>1, <2>6, <3>1, <3>2 DEF SpanOK
    <3>5. QED
      BY <1>1, <2>5, <3>1, <3>2, <3>3, <3>4 DEF Visible
  <2>8. SpanOK(w)' /\ TodoOK(w)'
    BY <1>1, <2>1, <2>4, <2>5, <2>7 DEF SpanOK, TodoOK, Covered, chain, mongo
  <2>9. \A v \in Workers \ {w} : UNCHANGED <<pc[v], span[v], todo[v], todoRewards[v]>>
    BY <2>1, <2>3, <2>4 DEF DiscoveryInv, TypeOK
  <2>10. CheckpointInv'
    BY <2>1, <2>2, CheckpointStable DEF DiscoveryInv, mongo
  <2>11. QED
    BY <2>1, <2>2, <2>4, <2>5, <2>8, <2>9, <2>10, LocalKeeps
<1>3. CASE StoreReward(w)
  <2>1. PICK e \in todoRewards[w] :
           /\ todoRewards' = [todoRewards EXCEPT ![w] = @ \ {e}]
           /\ storedRewards' = storedRewards \cup {e}
    BY <1>3 DEF StoreReward, Careful
  <2>2. /\ UNCHANGED <<chain, redis, pc, span, todo, checkpoint, stored, fulfilled>>
        /\ pc[w] = "storeRewards"
    BY <1>3 DEF StoreReward
  <2>3. Grow
    BY <2>1, <2>2, UnchangedGrow DEF DiscoveryInv
  <2>4. todoRewards'[w] = todoRewards[w] \ {e}
    BY <2>1 DEF DiscoveryInv, TypeOK
  <2>5. TodoOK(w)' /\ SpanOK(w)'
    BY <1>1, <2>1, <2>2, <2>4 DEF SpanOK, TodoOK, Covered, chain
  <2>6. \A v \in Workers \ {w} : UNCHANGED <<pc[v], span[v], todo[v], todoRewards[v]>>
    BY <2>1, <2>2 DEF DiscoveryInv, TypeOK
  <2>7. CheckpointInv'
    BY <2>2, <2>3, CheckpointStable DEF DiscoveryInv
  <2>8. QED
    BY <2>2, <2>3, <2>5, <2>6, <2>7, LocalKeeps
<1>4. CASE FinishRewarded(w)
  <2>1. /\ \/ pc[w] = "storeRewards" /\ todoRewards[w] = {}
           \/ pc[w] = "queryRewards" /\ span[w] = NoRange
        /\ Finish(w, span[w]) /\ UNCHANGED <<chain, mongo>>
    BY <1>4 DEF FinishRewarded
  <2>2. /\ Covered(span[w].to)
        /\ span[w].to <= head /\ span[w].from <= head
    BY <1>1, <2>1 DEF SpanOK
  <2>3. RewardsCovered(span[w].to)
    <3>1. CASE pc[w] = "storeRewards"
      BY <1>1, <2>1, <3>1 DEF TodoOK, RewardsCovered
    <3>2. CASE span[w] = NoRange
      BY <3>2, NoRangeType, NothingBelowZero DEF DiscoveryInv
    <3>3. QED  BY <2>1, <3>1, <3>2
  <2>4. QED
    BY <1>1, <2>1, <2>2, <2>3, FinishKeeps
<1>5. QED  BY <1>2, <1>3, <1>4 DEF RewardedJob

LEMMA MatchJobKeeps ==
    ASSUME DiscoveryInv, TypeOK', NEW w \in Workers, MatchJob(w)
    PROVE  DiscoveryInv'
<1> USE DEF UpdateSteps, RewardedSteps, MatchSteps
<1>1. /\ span[w] \in QueryRange /\ span[w].from \in Nat /\ span[w].to \in Nat
      /\ head \in Nat /\ checkpoint \in Nat /\ SpanOK(w) /\ TodoOK(w)
  BY DEF DiscoveryInv, TypeOK, QueryRange
<1>2. CASE LoadUnfulfilled(w)
  <2>1. UNCHANGED <<chain, mongo, redis, span, todoRewards>>
    BY <1>2 DEF LoadUnfulfilled
  <2>2. Grow
    BY <2>1, UnchangedGrow DEF DiscoveryInv, mongo
  <2>3. /\ pc[w] = "load" /\ pc' = [pc EXCEPT ![w] = "match"]
        /\ todo' = [todo EXCEPT ![w] = stored \ fulfilled]
    BY <1>2 DEF LoadUnfulfilled
  <2>4. pc'[w] = "match" /\ todo'[w] = stored \ fulfilled
    BY <2>3 DEF DiscoveryInv, TypeOK
  <2>5. SpanOK(w)' /\ TodoOK(w)'
    BY <1>1, <2>1, <2>3, <2>4 DEF SpanOK, TodoOK, Covered, RewardsCovered, chain, mongo
  <2>6. \A v \in Workers \ {w} : UNCHANGED <<pc[v], span[v], todo[v], todoRewards[v]>>
    BY <2>1, <2>3 DEF DiscoveryInv, TypeOK
  <2>7. CheckpointInv'
    BY <2>1, <2>2, CheckpointStable DEF DiscoveryInv, mongo
  <2>8. QED
    BY <2>1, <2>2, <2>3, <2>4, <2>5, <2>6, <2>7, LocalKeeps
<1>3. CASE MatchRequest(w)
  <2>1. PICK r \in todo[w] :
           /\ todo' = [todo EXCEPT ![w] = @ \ {r}]
           /\ \/ PaidLater(r) /\ fulfilled' = fulfilled \cup {r}
              \/ ~PaidLater(r) /\ fulfilled' = fulfilled
    BY <1>3 DEF MatchRequest
  <2>2. /\ UNCHANGED <<chain, redis, pc, span, todoRewards, checkpoint, stored, storedRewards>>
        /\ pc[w] = "match"
    BY <1>3 DEF MatchRequest
  <2>3. Grow
    BY <2>1, <2>2, UnchangedGrow DEF DiscoveryInv
  <2>4. todo'[w] = todo[w] \ {r}
    BY <2>1 DEF DiscoveryInv, TypeOK
  <2>5. PaidBefore(r, span[w].to) => r \in fulfilled'
    <3>1. r \in Request
      BY DEF DiscoveryInv, TypeOK
    <3>2. SUFFICES ASSUME NEW e \in rewards, e.addr = r.addr, r.block < e.block,
                          e.block < span[w].to
                   PROVE  r \in fulfilled'
      BY DEF PaidBefore
    <3>3. e \in storedRewards
      BY <1>1, <2>2, <3>2 DEF SpanOK, RewardsCovered
    <3>4. PaidLater(r)
      BY <3>1, <3>2, <3>3 DEF PaidLater, DiscoveryInv, TypeOK, Request, Reward
    <3>5. QED  BY <2>1, <3>4
  <2>6. TodoOK(w)'
    <3>1. ASSUME NEW q \in stored, PaidBefore(q, span[w].to)
          PROVE  q \in fulfilled' \cup todo'[w]
      BY <1>1, <2>2, <2>3, <2>4, <2>5, <3>1 DEF TodoOK, Grow
    <3>2. QED  BY <2>2, <3>1 DEF TodoOK, PaidBefore, chain
  <2>7. SpanOK(w)'
    BY <1>1, <2>2 DEF SpanOK, Covered, RewardsCovered, chain
  <2>8. \A v \in Workers \ {w} : UNCHANGED <<pc[v], span[v], todo[v], todoRewards[v]>>
    BY <2>1, <2>2 DEF DiscoveryInv, TypeOK
  <2>9. CheckpointInv'
    BY <2>2, <2>3, CheckpointStable DEF DiscoveryInv
  <2>10. QED
    BY <2>2, <2>3, <2>6, <2>7, <2>8, <2>9, LocalKeeps
<1>4. CASE MatchingDone(w) \/ EnqueueClaim(w) \/ EnqueueingDone(w) \/ GuardCheckpoint(w)
  <2>1. UNCHANGED <<chain, mongo, redis, span, todo, todoRewards>>
    BY <1>4 DEF MatchingDone, EnqueueClaim, EnqueueingDone, GuardCheckpoint, loops
  <2>2. \/ pc[w] = "match" /\ todo[w] = {} /\ pc' = [pc EXCEPT ![w] = "enqueue"]
        \/ pc[w] = "enqueue" /\ pc' = pc
        \/ pc[w] = "enqueue" /\ pc' = [pc EXCEPT ![w] = "guard"]
        \/ pc[w] = "guard" /\ pc' = [pc EXCEPT ![w] = "count"]
        \/ pc[w] = "guard" /\ pc' = [pc EXCEPT ![w] = "write"]
    BY <1>4 DEF MatchingDone, EnqueueClaim, EnqueueingDone, GuardCheckpoint
  <2>3. \/ pc[w] = "match" /\ todo[w] = {} /\ pc'[w] = "enqueue"
        \/ pc[w] = "enqueue" /\ pc'[w] \in {"enqueue", "guard"}
        \/ pc[w] = "guard" /\ pc'[w] \in {"count", "write"}
    BY <2>2 DEF DiscoveryInv, TypeOK
  <2>4. Grow
    BY <2>1, UnchangedGrow DEF DiscoveryInv, mongo
  <2>5. pc[w] = "match" /\ todo[w] = {} => Closed(span[w].to)
    BY <1>1 DEF TodoOK, Closed
  <2>6. SpanOK(w)' /\ TodoOK(w)'
    BY <1>1, <2>1, <2>3, <2>5
       DEF SpanOK, TodoOK, Covered, RewardsCovered, Closed, PaidBefore, chain, mongo
  <2>7. \A v \in Workers \ {w} : UNCHANGED <<pc[v], span[v], todo[v], todoRewards[v]>>
    BY <2>1, <2>2 DEF DiscoveryInv, TypeOK
  <2>8. CheckpointInv'
    BY <2>1, <2>4, CheckpointStable DEF DiscoveryInv, mongo
  <2>9. QED
    BY <2>1, <2>3, <2>4, <2>6, <2>7, <2>8, LocalKeeps
<1>5. CASE WriteCheckpoint(w)
  <2>1. /\ UNCHANGED <<chain, redis, stored, storedRewards, fulfilled, span, todo, todoRewards>>
        /\ pc[w] = "write" /\ pc' = [pc EXCEPT ![w] = "count"]
        /\ checkpoint' = span[w].to
    BY <1>5 DEF WriteCheckpoint, loops
  <2>2. Grow
    BY <2>1, UnchangedGrow DEF DiscoveryInv
  <2>3. pc'[w] = "count"
    BY <2>1 DEF DiscoveryInv, TypeOK
  <2>4. CheckpointInv'
    BY <1>1, <2>1
       DEF SpanOK, CheckpointInv, Covered, RewardsCovered, Closed, PaidBefore, chain
  <2>5. SpanOK(w)' /\ TodoOK(w)'
    BY <1>1, <2>1, <2>3 DEF SpanOK, TodoOK, Covered, RewardsCovered, chain
  <2>6. \A v \in Workers \ {w} : UNCHANGED <<pc[v], span[v], todo[v], todoRewards[v]>>
    BY <2>1 DEF DiscoveryInv, TypeOK
  <2>7. QED
    BY <2>1, <2>2, <2>3, <2>4, <2>5, <2>6, LocalKeeps
<1>6. QED  BY <1>2, <1>3, <1>4, <1>5 DEF MatchJob

(* Moves between steps that promise nothing about the range beyond what    *)
(* the match job was given.                                                *)
LEMMA MoveKeeps ==
    ASSUME DiscoveryInv, TypeOK', NEW w \in Workers, UNCHANGED <<chain, mongo, redis, span>>,
           \A v \in Workers \ {w} : UNCHANGED <<pc[v], todo[v], todoRewards[v]>>,
           \/ pc[w] \in MatchSteps /\ pc'[w] \in {"count", "add"}
           \/ /\ pc[w] \in {"down", "idle", "clean", "nuke", "bootCount", "bootAdd"}
              /\ pc'[w] \in {"down", "idle", "clean", "nuke", "bootCount", "bootAdd"}
    PROVE  DiscoveryInv'
<1>1. Grow
  BY UnchangedGrow DEF DiscoveryInv, mongo
<1>2. CheckpointInv'
  BY <1>1, CheckpointStable DEF DiscoveryInv, mongo
<1>3. SpanOK(w)' /\ TodoOK(w)'
  BY DEF DiscoveryInv, SpanOK, TodoOK, RewardedSteps, MatchSteps, Covered, RewardsCovered,
         chain, mongo
<1>4. QED
  BY <1>1, <1>2, <1>3, LocalKeeps DEF UpdateSteps, RewardedSteps, MatchSteps

LEMMA NoRangeFinishKeeps ==
    ASSUME DiscoveryInv, TypeOK', UNCHANGED <<chain, mongo>>, NEW w \in Workers,
           Finish(w, NoRange)
    PROVE  DiscoveryInv'
<1>1. 0 <= head
  BY DEF DiscoveryInv, TypeOK
<1>2. QED
  BY <1>1, NoRangeType, NothingBelowZero, FinishKeeps DEF DiscoveryInv

LEMMA CallReturnsKeeps ==
    ASSUME DiscoveryInv, TypeOK', UNCHANGED <<chain, mongo>>, NEW w \in Workers,
           CallReturns(w)
    PROVE  DiscoveryInv'
<1>1. CASE Booting(w)
  <2>1. /\ UNCHANGED <<redis, span, todo, todoRewards>>
        /\ pc' = [pc EXCEPT ![w] = "idle"] /\ pc[w] \in {"bootCount", "bootAdd"}
    BY <1>1 DEF CallReturns, Booting, loops
  <2>2. pc'[w] = "idle" /\ \A v \in Workers \ {w} : pc'[v] = pc[v]
    BY <2>1 DEF DiscoveryInv, TypeOK
  <2>3. QED  BY <2>1, <2>2, MoveKeeps
<1>2. CASE ~Booting(w)
  BY <1>2, NoRangeFinishKeeps DEF CallReturns
<1>3. QED  BY <1>1, <1>2

LEMMA EnqueueKeeps ==
    ASSUME DiscoveryInv, TypeOK', NEW w \in Workers,
           \/ CountJobs(w) \/ FinishMatch(w) \/ BlockNumberFails(w) \/ EnqueueThrows(w)
           \/ DiscoverFails(w)
    PROVE  DiscoveryInv'
<1>1. UNCHANGED <<chain, mongo>>
  BY DEF CountJobs, FinishMatch, BlockNumberFails, EnqueueThrows, DiscoverFails
<1>2. CASE CallReturns(w)
  BY <1>1, <1>2, CallReturnsKeeps
<1>3. CASE (CountJobs(w) \/ BlockNumberFails(w)) /\ ~CallReturns(w)
  <2>1. /\ UNCHANGED <<redis, span, todo, todoRewards>>
        /\ \/ /\ pc[w] \in {"count", "add"}
              /\ \/ pc' = [pc EXCEPT ![w] = "count"]
                 \/ pc' = [pc EXCEPT ![w] = "add"]
           \/ /\ pc[w] \in {"bootCount", "bootAdd"}
              /\ \/ pc' = [pc EXCEPT ![w] = "bootCount"]
                 \/ pc' = [pc EXCEPT ![w] = "bootAdd"]
    BY <1>3 DEF CountJobs, BlockNumberFails, Booting, loops
  <2>2. /\ \A v \in Workers \ {w} : pc'[v] = pc[v]
        /\ \/ pc[w] \in {"count", "add"} /\ pc'[w] \in {"count", "add"}
           \/ pc[w] \in {"bootCount", "bootAdd"} /\ pc'[w] \in {"bootCount", "bootAdd"}
    BY <2>1 DEF DiscoveryInv, TypeOK
  <2>3. QED  BY <1>1, <2>1, <2>2, MoveKeeps DEF MatchSteps
<1>4. CASE FinishMatch(w) \/ EnqueueThrows(w) \/ DiscoverFails(w)
  BY <1>1, <1>4, NoRangeFinishKeeps DEF FinishMatch, EnqueueThrows, DiscoverFails
<1>5. QED  BY <1>2, <1>3, <1>4

LEMMA OtherMovesKeep ==
    ASSUME Careful, DiscoveryInv, TypeOK', NEW w \in Workers,
           MatchFails(w) \/ NukeRequests(w) \/ StartLeading(w) \/ StartStandby(w)
    PROVE  DiscoveryInv'
<1>1. UNCHANGED <<chain, mongo, redis, span>>
  BY DEF Careful, MatchFails, NukeRequests, StartLeading, StartStandby, mongo
<1>2. \A v \in Workers \ {w} : UNCHANGED <<pc[v], todo[v], todoRewards[v]>>
  BY DEF DiscoveryInv, TypeOK, MatchFails, NukeRequests, StartLeading, StartStandby, loops
<1>3. \/ pc[w] \in MatchSteps /\ pc'[w] \in {"count", "add"}
      \/ /\ pc[w] \in {"down", "idle", "clean", "nuke", "bootCount", "bootAdd"}
         /\ pc'[w] \in {"down", "idle", "clean", "nuke", "bootCount", "bootAdd"}
  BY DEF DiscoveryInv, TypeOK, MatchFails, NukeRequests, StartLeading, StartStandby, MatchSteps
<1>4. QED  BY <1>1, <1>2, <1>3, MoveKeeps

-----------------------------------------------------------------------------
(* Together.                                                               *)

LEMMA DiscoveryStep ==
    ASSUME Careful, DiscoveryInv, [Next]_vars
    PROVE  DiscoveryInv'
<1>1. TypeOK'
  BY TypeStep DEF DiscoveryInv
<1>2. CASE Mine
  BY <1>1, <1>2, MineKeeps
<1>3. ASSUME NEW r \in requests, LiveEvent(r)
      PROVE  DiscoveryInv'
  BY <1>1, <1>3, BystanderKeeps DEF LiveEvent, mongo
<1>4. ASSUME NEW c \in claims, ClaimRetires(c) \/ ClaimGivesUp(c)
      PROVE  DiscoveryInv'
  BY <1>1, <1>4, BystanderKeeps DEF ClaimRetires, ClaimGivesUp, mongo
<1>5. ASSUME NEW f \in Flows, DelayExpires(f) \/ JobStalls(f)
      PROVE  DiscoveryInv'
  BY <1>1, <1>5, QueueKeeps
<1>6. ASSUME NEW w \in Workers, NEW f \in Flows, Take(w, f)
      PROVE  DiscoveryInv'
  BY <1>1, <1>6, TakeKeeps
<1>7. ASSUME NEW w \in Workers, UpdateJob(w) \/ RewardedJob(w) \/ MatchJob(w)
      PROVE  DiscoveryInv'
  BY <1>1, <1>7, UpdateJobKeeps, RewardedJobKeeps, MatchJobKeeps
<1>8. ASSUME NEW w \in Workers, EnqueueFlow(w)
      PROVE  DiscoveryInv'
  BY <1>1, <1>8, EnqueueKeeps, AddFlowKeeps DEF EnqueueFlow
<1>9. ASSUME NEW w \in Workers, Faulty(w)
      PROVE  DiscoveryInv'
  BY <1>1, <1>9, EnqueueKeeps, OtherMovesKeep DEF Faulty
<1>10. ASSUME NEW w \in Workers, Bootstrap(w)
       PROVE  DiscoveryInv'
  BY <1>1, <1>10, UnlockKeeps, OtherMovesKeep DEF Bootstrap
<1>11. ASSUME NEW w \in Workers, StartLeading(w) \/ StartStandby(w) \/ Crash(w)
       PROVE  DiscoveryInv'
  BY <1>1, <1>11, UnlockKeeps, OtherMovesKeep
<1>12. ASSUME NEW w \in Workers, Elect(w) \/ Demote(w)
       PROVE  DiscoveryInv'
  BY <1>1, <1>12, BystanderKeeps DEF Elect, Demote, mongo
<1>13. CASE UNCHANGED vars
  BY <1>1, <1>13, BystanderKeeps DEF vars, mongo
<1>14. QED
  BY <1>2, <1>3, <1>4, <1>5, <1>6, <1>7, <1>8, <1>9, <1>10, <1>11, <1>12, <1>13
     DEF Next, Environment, Process

LEMMA DiscoveryInit == Init => DiscoveryInv
<1> SUFFICES ASSUME Init PROVE DiscoveryInv
  OBVIOUS
<1> USE DiscoveryAssumption
<1>1. TypeOK
  BY NoRangeType DEF Init, TypeOK, Stages, JobStates, Steps
<1>2. ChainInv /\ CheckpointInv
  BY DEF Init, ChainInv, CheckpointInv, Covered, RewardsCovered, Closed
<1>3. \A f \in Flows : FlowOK(f) /\ OwnerOK(f)
  BY NoRangeType DEF Init, FlowOK, OwnerOK, Covered
<1>4. \A w \in Workers : SpanOK(w) /\ TodoOK(w)
  BY NoRangeType DEF Init, SpanOK, TodoOK, RewardedSteps, MatchSteps
<1>5. QED  BY <1>1, <1>2, <1>3, <1>4 DEF DiscoveryInv

(* For any number of processes, flows, requests and blocks, and a crash or *)
(* a loss of leadership at any step: no request below the checkpoint is    *)
(* missing from the database.                                              *)
THEOREM NothingSkipped ==
    ASSUME Careful
    PROVE  Spec => []NoRequestSkipped
<1>1. DiscoveryInv => NoRequestSkipped
  BY DEF DiscoveryInv, CheckpointInv, Covered, NoRequestSkipped
<1>2. DiscoveryInv /\ [Next]_vars => DiscoveryInv'
  BY DiscoveryStep
<1>3. QED  BY DiscoveryInit, <1>1, <1>2, PTL DEF Spec

(* Likewise: no stored request that was paid below the checkpoint is left  *)
(* open, to be claimed again in every cycle.                               *)
THEOREM PaidIsClosed ==
    ASSUME Careful
    PROVE  Spec => []PaidRequestsClosed
<1>1. DiscoveryInv => PaidRequestsClosed
  BY DEF DiscoveryInv, CheckpointInv, Closed, PaidBefore, PaidRequestsClosed
<1>2. DiscoveryInv /\ [Next]_vars => DiscoveryInv'
  BY DiscoveryStep
<1>3. QED  BY DiscoveryInit, <1>1, <1>2, PTL DEF Spec

-----------------------------------------------------------------------------
(* What closed a request.  A Rewarded event was read from the chain before *)
(* it was stored, and stored before it closed a request.                   *)

Causes ==
    /\ storedRewards \subseteq rewards
    /\ \A w \in Workers : todoRewards[w] \subseteq rewards
    /\ retired \subseteq fulfilled
    /\ ClosedWithCause

LEMMA CausesStep == TypeOK /\ Causes /\ [Next]_vars => Causes'
<1> SUFFICES ASSUME TypeOK, Causes, [Next]_vars
             PROVE  Causes'
  OBVIOUS
<1> USE DEF chain, mongo, redis, loops, local
<1>t. todoRewards \in [Workers -> SUBSET Reward]
  BY DEF TypeOK
(* The loops over Rewarded events go on, or end.                           *)
<1>a. ASSUME UNCHANGED <<rewards, storedRewards, fulfilled, retired>>,
             \A w \in Workers : todoRewards'[w] \subseteq todoRewards[w]
      PROVE  Causes'
  BY <1>a DEF Causes, ClosedWithCause
<1>f. ASSUME NEW w \in Workers, NEW value, Finish(w, value),
             UNCHANGED <<rewards, storedRewards, fulfilled, retired>>
      PROVE  Causes'
  BY <1>f, <1>t, <1>a DEF Finish
<1>c. ASSUME NEW w \in Workers, CallReturns(w),
             UNCHANGED <<rewards, storedRewards, fulfilled, retired>>
      PROVE  Causes'
  BY <1>c, <1>a, <1>f DEF CallReturns
<1>1. CASE Environment
  <2>1. CASE Mine
    BY <2>1 DEF Mine, Causes, ClosedWithCause
  <2>2. ASSUME NEW c \in claims, ClaimRetires(c) PROVE Causes'
    BY <2>2 DEF ClaimRetires, Causes, ClosedWithCause
  <2>3. CASE (\E r \in requests : LiveEvent(r)) \/ \E c \in claims : ClaimGivesUp(c)
    BY <2>3, <1>a DEF LiveEvent, ClaimGivesUp
  <2> QED BY <1>1, <2>1, <2>2, <2>3 DEF Environment
<1>2. CASE \E f \in Flows : DelayExpires(f) \/ JobStalls(f)
  BY <1>2, <1>a DEF DelayExpires, JobStalls
<1>3. ASSUME NEW w \in Workers, \E f \in Flows : Take(w, f) PROVE Causes'
  BY <1>3, <1>a DEF Take
<1>4. ASSUME NEW w \in Workers, UpdateJob(w) PROVE Causes'
  BY <1>4, <1>a, <1>f
     DEF UpdateJob, ReadCheckpoint, QueryRequests, StoreRequest, FinishUpdate
<1>5. ASSUME NEW w \in Workers, RewardedJob(w) PROVE Causes'
  <2>1. CASE QueryRewards(w)
    BY <2>1, <1>t DEF QueryRewards, Visible, Causes, ClosedWithCause
  <2>2. CASE StoreReward(w)
    BY <2>2, <1>t DEF StoreReward, Causes, ClosedWithCause
  <2>3. CASE FinishRewarded(w)
    BY <2>3, <1>f DEF FinishRewarded
  <2> QED BY <1>5, <2>1, <2>2, <2>3 DEF RewardedJob
<1>6. ASSUME NEW w \in Workers, MatchJob(w) PROVE Causes'
  <2>1. CASE MatchRequest(w)
    BY <2>1 DEF MatchRequest, PaidLater, Causes, ClosedWithCause
  <2>2. CASE \/ LoadUnfulfilled(w) \/ MatchingDone(w) \/ EnqueueClaim(w)
             \/ EnqueueingDone(w) \/ GuardCheckpoint(w) \/ WriteCheckpoint(w)
    BY <2>2, <1>a DEF LoadUnfulfilled, MatchingDone, EnqueueClaim, EnqueueingDone,
       GuardCheckpoint, WriteCheckpoint
  <2> QED BY <1>6, <2>1, <2>2 DEF MatchJob
<1>7. ASSUME NEW w \in Workers, EnqueueFlow(w) PROVE Causes'
  BY <1>7, <1>a, <1>c, <1>f DEF EnqueueFlow, CountJobs, AddFlow, FinishMatch
<1>8. ASSUME NEW w \in Workers, Faulty(w) PROVE Causes'
  BY <1>8, <1>a, <1>c, <1>f
     DEF Faulty, DiscoverFails, MatchFails, BlockNumberFails, EnqueueThrows
<1>9. ASSUME NEW w \in Workers, Bootstrap(w) PROVE Causes'
  <2>1. CASE CleanQueues(w)
    BY <2>1, <1>a DEF CleanQueues
  <2>2. CASE NukeRequests(w)
    BY <2>2 DEF NukeRequests, Causes, ClosedWithCause
  <2> QED BY <1>9, <2>1, <2>2 DEF Bootstrap
<1>10. ASSUME NEW w \in Workers, Process(w) PROVE Causes'
  BY <1>10, <1>a, <1>t DEF Process, StartLeading, StartStandby, Elect, Crash, Demote
<1>11. CASE UNCHANGED vars
  BY <1>11, <1>a DEF vars
<1> QED
  BY <1>1, <1>2, <1>3, <1>4, <1>5, <1>6, <1>7, <1>8, <1>9, <1>10, <1>11 DEF Next

LEMMA CausesInit == Init => TypeOK /\ Causes
BY DiscoveryInit DEF DiscoveryInv, Init, Causes, ClosedWithCause

(* Whatever fails, and however many processes match the same documents: a  *)
(* request is closed because its address was paid later, or had nothing.   *)
THEOREM ClosedJustified == Spec => []ClosedWithCause
<1>1. Init => TypeOK /\ Causes
  BY CausesInit
<1>2. (TypeOK /\ Causes) /\ [Next]_vars => (TypeOK /\ Causes)'
  BY TypeStep, CausesStep
<1>3. Causes => ClosedWithCause
  BY DEF Causes
<1> QED BY <1>1, <1>2, <1>3, PTL DEF Spec

-----------------------------------------------------------------------------
(* One process at a time keeps the checkpoint from moving back: between    *)
(* reading and writing it nobody else writes.                              *)

Working(w) == w \in leading \/ ~Quiet(w)

Alone == \A v, w \in Workers : Working(v) /\ Working(w) => v = w

Guarded == \A w \in Workers : pc[w] = "write" => checkpoint <= span[w].to

LEMMA AloneStep ==
    ASSUME SoleWorker
    PROVE  TypeOK /\ Alone /\ [Next]_vars => Alone'
<1> SUFFICES ASSUME TypeOK, Alone, [Next]_vars
             PROVE  Alone'
  OBVIOUS
<1> USE SoleWorker DEF chain, mongo, redis, loops, local
<1>t. pc \in [Workers -> Steps] /\ leading \subseteq Workers
  BY DEF TypeOK
<1>a. ASSUME UNCHANGED pc, leading' \subseteq leading PROVE Alone'
  BY <1>a DEF Alone, Working, Quiet
(* One that works goes on, one comes to rest, one starts while all rest.   *)
<1>b. ASSUME NEW w \in Workers, Working(w) \/ pc'[w] \in {"down", "idle"},
             leading' \subseteq leading, \A v \in Workers \ {w} : pc'[v] = pc[v]
      PROVE  Alone'
  BY <1>b DEF Alone, Working, Quiet
<1>c. ASSUME NEW w \in Workers, MayLead(w), leading' = leading \cup {w},
             \A v \in Workers \ {w} : pc'[v] = pc[v]
      PROVE  Alone'
  BY <1>c DEF Alone, Working, Quiet, MayLead
<1>f. ASSUME NEW w \in Workers, NEW value, Finish(w, value), UNCHANGED leading PROVE Alone'
  BY <1>f, <1>b, <1>t DEF Finish
<1>r. ASSUME NEW w \in Workers, CallReturns(w), UNCHANGED leading PROVE Alone'
  BY <1>r, <1>b, <1>f, <1>t DEF CallReturns
<1>1. CASE Environment
  BY <1>1, <1>a DEF Environment, Mine, LiveEvent, ClaimRetires, ClaimGivesUp
<1>2. CASE \E f \in Flows : DelayExpires(f) \/ JobStalls(f)
  BY <1>2, <1>a DEF DelayExpires, JobStalls
<1>3. ASSUME NEW w \in Workers, \E f \in Flows : Take(w, f) PROVE Alone'
  BY <1>3, <1>b, <1>t DEF Take, Working
<1>4. ASSUME NEW w \in Workers, UpdateJob(w) PROVE Alone'
  BY <1>4, <1>b, <1>f, <1>t
     DEF UpdateJob, ReadCheckpoint, QueryRequests, StoreRequest, FinishUpdate, Working, Quiet
<1>5. ASSUME NEW w \in Workers, RewardedJob(w) PROVE Alone'
  BY <1>5, <1>b, <1>f, <1>t
     DEF RewardedJob, QueryRewards, StoreReward, FinishRewarded, Working, Quiet
<1>6. ASSUME NEW w \in Workers, MatchJob(w) PROVE Alone'
  BY <1>6, <1>b, <1>t
     DEF MatchJob, LoadUnfulfilled, MatchRequest, MatchingDone, EnqueueClaim, EnqueueingDone,
         GuardCheckpoint, WriteCheckpoint, Working, Quiet
<1>7. ASSUME NEW w \in Workers, EnqueueFlow(w) PROVE Alone'
  BY <1>7, <1>b, <1>f, <1>r, <1>t
     DEF EnqueueFlow, CountJobs, AddFlow, FinishMatch, Working, Quiet
<1>8. ASSUME NEW w \in Workers, Faulty(w) PROVE Alone'
  BY <1>8, <1>b, <1>f, <1>r, <1>t
     DEF Faulty, DiscoverFails, MatchFails, BlockNumberFails, EnqueueThrows, Working, Quiet
<1>9. ASSUME NEW w \in Workers, Bootstrap(w) PROVE Alone'
  BY <1>9, <1>b, <1>t DEF Bootstrap, CleanQueues, NukeRequests, Working, Quiet
<1>10. ASSUME NEW w \in Workers, Process(w) PROVE Alone'
  BY <1>10, <1>a, <1>b, <1>c, <1>t
     DEF Process, StartLeading, StartStandby, Elect, Crash, Demote
<1>11. CASE UNCHANGED vars
  BY <1>11, <1>a DEF vars
<1> QED
  BY <1>1, <1>2, <1>3, <1>4, <1>5, <1>6, <1>7, <1>8, <1>9, <1>10, <1>11 DEF Next

LEMMA GuardedStep ==
    TypeOK /\ Alone /\ Guarded /\ [Next]_vars => Guarded' /\ checkpoint' >= checkpoint
<1> SUFFICES ASSUME TypeOK, Alone, Guarded, [Next]_vars
             PROVE  Guarded' /\ checkpoint' >= checkpoint
  OBVIOUS
<1> USE DEF chain, mongo, redis, loops, local
<1> DEFINE Goal == Guarded' /\ checkpoint' >= checkpoint
<1>t. /\ pc \in [Workers -> Steps] /\ checkpoint \in Nat
      /\ span \in [Workers -> [from : Nat, to : Nat]]
  BY DEF TypeOK, QueryRange
(* Nobody comes to the write, and whoever is there keeps its range.        *)
<1>a. ASSUME UNCHANGED checkpoint,
             \A v \in Workers : pc'[v] = "write" => pc[v] = "write" /\ span'[v] = span[v]
      PROVE  Goal
  BY <1>a, <1>t DEF Guarded
<1>f. ASSUME NEW w \in Workers, NEW value, Finish(w, value), UNCHANGED checkpoint PROVE Goal
  BY <1>f, <1>a, <1>t DEF Finish
<1>r. ASSUME NEW w \in Workers, CallReturns(w), UNCHANGED checkpoint PROVE Goal
  BY <1>r, <1>a, <1>f, <1>t DEF CallReturns
<1>1. CASE Environment
  BY <1>1, <1>a DEF Environment, Mine, LiveEvent, ClaimRetires, ClaimGivesUp
<1>2. CASE \E f \in Flows : DelayExpires(f) \/ JobStalls(f)
  BY <1>2, <1>a DEF DelayExpires, JobStalls
<1>3. ASSUME NEW w \in Workers, \E f \in Flows : Take(w, f) PROVE Goal
  BY <1>3, <1>a, <1>t DEF Take, TypeOK, Stages
<1>4. ASSUME NEW w \in Workers, UpdateJob(w) PROVE Goal
  <2>1. CASE ReadCheckpoint(w)
    <3>1. \A v \in Workers : pc'[v] # "write"
      BY <2>1, <1>t DEF ReadCheckpoint, Alone, Working, Quiet
    <3> QED BY <2>1, <3>1, <1>t, DiscoveryAssumption DEF ReadCheckpoint, Guarded
  <2>2. CASE QueryRequests(w) \/ StoreRequest(w) \/ FinishUpdate(w)
    BY <2>2, <1>a, <1>f, <1>t DEF QueryRequests, StoreRequest, FinishUpdate
  <2> QED BY <1>4, <2>1, <2>2 DEF UpdateJob
<1>5. ASSUME NEW w \in Workers, RewardedJob(w) PROVE Goal
  BY <1>5, <1>a, <1>f, <1>t DEF RewardedJob, QueryRewards, StoreReward, FinishRewarded
<1>6. ASSUME NEW w \in Workers, MatchJob(w) PROVE Goal
  <2>1. CASE GuardCheckpoint(w)
    BY <2>1, <1>t DEF GuardCheckpoint, Guarded
  <2>2. CASE WriteCheckpoint(w)
    <3>1. \A v \in Workers : pc'[v] # "write"
      BY <2>2, <1>t DEF WriteCheckpoint, Alone, Working, Quiet
    <3> QED BY <2>2, <3>1, <1>t DEF WriteCheckpoint, Guarded
  <2>3. CASE \/ LoadUnfulfilled(w) \/ MatchRequest(w) \/ MatchingDone(w)
             \/ EnqueueClaim(w) \/ EnqueueingDone(w)
    BY <2>3, <1>a, <1>t
       DEF LoadUnfulfilled, MatchRequest, MatchingDone, EnqueueClaim, EnqueueingDone
  <2> QED BY <1>6, <2>1, <2>2, <2>3 DEF MatchJob
<1>7. ASSUME NEW w \in Workers, EnqueueFlow(w) PROVE Goal
  BY <1>7, <1>a, <1>f, <1>r, <1>t DEF EnqueueFlow, CountJobs, AddFlow, FinishMatch
<1>8. ASSUME NEW w \in Workers, Faulty(w) PROVE Goal
  BY <1>8, <1>a, <1>f, <1>r, <1>t
     DEF Faulty, DiscoverFails, MatchFails, BlockNumberFails, EnqueueThrows
<1>9. ASSUME NEW w \in Workers, Bootstrap(w) PROVE Goal
  BY <1>9, <1>a, <1>t DEF Bootstrap, CleanQueues, NukeRequests
<1>10. ASSUME NEW w \in Workers, Process(w) PROVE Goal
  BY <1>10, <1>a, <1>t DEF Process, StartLeading, StartStandby, Elect, Crash, Demote
<1>11. CASE UNCHANGED vars
  BY <1>11, <1>a DEF vars
<1> QED
  BY <1>1, <1>2, <1>3, <1>4, <1>5, <1>6, <1>7, <1>8, <1>9, <1>10, <1>11 DEF Next

(* While leadership moves only when no other process works, the largest    *)
(* block that is known to be complete never gets smaller, whatever block a *)
(* flow carries and wherever a process ends.                               *)
THEOREM NeverMovesBack ==
    ASSUME SoleWorker
    PROVE  Spec => CheckpointMonotone
<1> DEFINE Inv == TypeOK /\ Alone /\ Guarded
<1>1. Init => Inv
  BY DiscoveryInit DEF DiscoveryInv, Init, Alone, Working, Quiet, Guarded
<1>2. Inv /\ [Next]_vars => Inv'
  BY TypeStep, AloneStep, GuardedStep
<1>3. Inv /\ [Next]_vars => [checkpoint' >= checkpoint]_vars
  BY GuardedStep
<1> QED BY <1>1, <1>2, <1>3, PTL DEF Spec, CheckpointMonotone

-----------------------------------------------------------------------------
(* The loop as a register of requests.  Only few steps change what the     *)
(* register shows: a block, a stored event, a saved match, a retirement    *)
(* and the two writes of the checkpoint.                                   *)

(* A block brings requests and payments that the checkpoint is not past.   *)
LEMMA MineHappens ==
    ASSUME DiscoveryInv, Mine
    PROVE  Register!Happens
<1>h. head \in Nat /\ checkpoint \in Nat /\ checkpoint <= head
  BY DEF DiscoveryInv, TypeOK, CheckpointInv
<1>1. ASSUME NEW r \in requests' \ requests PROVE r.block = head + 1
  BY <1>1 DEF Mine, RequestBatches
<1>2. ASSUME NEW e \in rewards' \ rewards PROVE e.block = head + 1
  BY <1>2 DEF Mine
<1>3. requests \subseteq requests' /\ rewards \subseteq rewards'
  BY DEF Mine
<1>4. Payments \subseteq Payments'
  BY <1>3 DEF Payments
<1>5. ASSUME NEW p \in Payments' \ Payments PROVE p.block \in Nat /\ checkpoint <= p.block
  <2>1. /\ p \in [request : requests', block : {e.block : e \in rewards'}]
        /\ \E e \in rewards' : /\ e.addr = p.request.addr /\ e.block = p.block
                               /\ p.request.block < p.block
    BY <1>5 DEF Payments
  <2>2. PICK e \in rewards' : /\ e.addr = p.request.addr /\ e.block = p.block
                              /\ p.request.block < p.block
    BY <2>1
  <2>3. CASE e \notin rewards
    BY <1>h, <1>2, <2>2, <2>3
  <2>4. CASE e \in rewards
    <3>1. p.request \notin requests
      <4>1. SUFFICES ASSUME p.request \in requests PROVE FALSE
        OBVIOUS
      <4>2. p \in [request : requests, block : {x.block : x \in rewards}]
        BY <2>1, <2>2, <2>4, <4>1
      <4>3. QED  BY <1>5, <2>2, <2>4, <4>2 DEF Payments
    <3>2. p.request.block = head + 1
      BY <1>1, <2>1, <3>1
    <3>3. p.block \in Nat
      BY <2>2, <2>4 DEF DiscoveryInv, TypeOK, Reward
    <3>4. QED  BY <1>h, <2>2, <3>2, <3>3
  <2>5. QED  BY <2>3, <2>4
<1>6. \A r \in requests' \ requests : r.block \in Nat /\ checkpoint <= r.block
  BY <1>h, <1>1
<1>7. UNCHANGED <<stored, fulfilled, retired, checkpoint>>
  BY DEF Mine, mongo
<1>8. QED  BY <1>3, <1>4, <1>5, <1>6, <1>7 DEF Register!Happens

(* A match closes a request for a payment on the chain.                    *)
LEMMA MatchCloses ==
    ASSUME DiscoveryInv, Causes, NEW w \in Workers, MatchRequest(w)
    PROVE  [Register!Close]_(Register!vars)
<1>1. UNCHANGED <<requests, rewards, stored, retired, checkpoint>>
  BY DEF MatchRequest, chain
<1>2. Payments' = Payments
  BY <1>1 DEF Payments
<1>3. PICK r \in todo[w] : \/ PaidLater(r) /\ r \in stored /\ fulfilled' = fulfilled \cup {r}
                           \/ UNCHANGED fulfilled
  BY DEF MatchRequest
<1>4. CASE UNCHANGED fulfilled
  BY <1>1, <1>2, <1>4 DEF Register!vars
<1>5. CASE PaidLater(r) /\ r \in stored /\ fulfilled' = fulfilled \cup {r}
  <2>1. PICK e \in rewards : e.addr = r.addr /\ e.block > r.block
    BY <1>5 DEF PaidLater, Causes
  <2>2. r \in requests
    BY <1>5 DEF DiscoveryInv, ChainInv
  <2>n. r.block \in Nat /\ e.block \in Nat
    BY <2>1, <2>2 DEF DiscoveryInv, TypeOK, Request, Reward
  <2> DEFINE p == [request |-> r, block |-> e.block]
  <2>3. p \in Payments
    BY <2>1, <2>2, <2>n DEF Payments
  <2>4. \E q \in Payments : q.request = r
    BY <2>3
  <2>5. fulfilled' \ fulfilled \subseteq {d \in stored : \E q \in Payments : q.request = d}
    BY <1>5, <2>4
  <2>6. QED  BY <1>1, <1>2, <1>5, <2>5 DEF Register!Close
<1>6. QED  BY <1>3, <1>4, <1>5

(* The checkpoint moves to where nothing is missing and nothing is open.   *)
LEMMA CheckpointAdvances ==
    ASSUME DiscoveryInv, DiscoveryInv',
           UNCHANGED <<requests, rewards, stored, fulfilled, retired>>
    PROVE  Register!Advance
<1>1. Payments' = Payments
  BY DEF Payments
<1>2. \A r \in requests : r.block < checkpoint' => r \in stored
  BY DEF DiscoveryInv, CheckpointInv, Covered
<1>3. ASSUME NEW p \in Payments, p.block < checkpoint' PROVE p.request \in fulfilled
  <2>1. PICK e \in rewards : /\ e.addr = p.request.addr /\ e.block = p.block
                             /\ p.request.block < p.block
    BY DEF Payments
  <2>2. p.request \in requests
    BY DEF Payments
  <2>n. p.request.block \in Nat /\ p.block \in Nat /\ checkpoint' \in Nat
    BY <2>1, <2>2 DEF DiscoveryInv, TypeOK, Request, Reward
  <2>3. p.request \in stored
    BY <1>2, <1>3, <2>1, <2>2, <2>n
  <2>4. PaidBefore(p.request, checkpoint')
    BY <1>3, <2>1 DEF PaidBefore
  <2>5. \A r \in stored : PaidBefore(r, checkpoint') => r \in fulfilled
    BY DEF DiscoveryInv, CheckpointInv, Closed, PaidBefore
  <2>6. QED  BY <2>3, <2>4, <2>5
<1>4. checkpoint' \in Nat
  BY DEF DiscoveryInv, TypeOK
<1>5. QED  BY <1>1, <1>2, <1>3, <1>4 DEF Register!Advance

LEMMA RegisterStep ==
    ASSUME Careful, DiscoveryInv, Causes, [Next]_vars
    PROVE  [Register!RegisterNext]_(Register!vars)
<1> DEFINE Goal == [Register!RegisterNext]_(Register!vars)
<1> SUFFICES Goal
  OBVIOUS
<1> HIDE DEF Goal
<1> USE DEF chain, mongo, redis, loops, local
<1>n. DiscoveryInv'
  BY DiscoveryStep
(* What the register does not show.                                        *)
<1>s. UNCHANGED <<requests, rewards, stored, fulfilled, retired, checkpoint>> => Goal
  BY DEF Goal, Register!vars, Payments
<1>v. UNCHANGED <<requests, rewards, stored, fulfilled, retired>> => Goal
  BY <1>n, CheckpointAdvances DEF Goal, Register!RegisterNext
<1>1. CASE Environment
  <2>1. CASE Mine
    BY <2>1, MineHappens DEF Goal, Register!RegisterNext
  <2>2. ASSUME NEW c \in claims, ClaimRetires(c) PROVE Goal
    <3>1. UNCHANGED <<requests, rewards, stored, checkpoint>>
      BY <2>2 DEF ClaimRetires
    <3>2. PICK doc \in SUBSET (stored \ fulfilled) : /\ fulfilled' = fulfilled \cup doc
                                                     /\ retired' = retired \cup doc
      BY <2>2 DEF ClaimRetires
    <3>3. retired \subseteq fulfilled
      BY DEF Causes
    <3>4. fulfilled' \ fulfilled = doc /\ retired' \ retired = doc
      BY <3>2, <3>3
    <3>5. Payments' = Payments
      BY <3>1 DEF Payments
    <3>6. Register!Retire
      BY <3>1, <3>2, <3>4, <3>5 DEF Register!Retire
    <3>7. QED  BY <3>6 DEF Goal, Register!RegisterNext
  <2>3. CASE (\E r \in requests : LiveEvent(r)) \/ \E c \in claims : ClaimGivesUp(c)
    BY <2>3, <1>s DEF LiveEvent, ClaimGivesUp
  <2> QED BY <1>1, <2>1, <2>2, <2>3 DEF Environment
<1>2. CASE \E f \in Flows : DelayExpires(f) \/ JobStalls(f)
  BY <1>2, <1>s DEF DelayExpires, JobStalls
<1>3. ASSUME NEW w \in Workers, \E f \in Flows : Take(w, f) PROVE Goal
  BY <1>3, <1>s DEF Take
<1>4. ASSUME NEW w \in Workers, UpdateJob(w) PROVE Goal
  <2>1. CASE ReadCheckpoint(w)
    BY <2>1, <1>v DEF ReadCheckpoint
  <2>2. CASE StoreRequest(w)
    <3>1. stored \subseteq stored' /\ stored' \subseteq requests
      BY <2>2, <1>n DEF StoreRequest, DiscoveryInv, ChainInv
    <3>2. Payments' = Payments
      BY <2>2 DEF StoreRequest, Payments
    <3>3. Register!Record
      BY <2>2, <3>1, <3>2 DEF StoreRequest, Register!Record
    <3>4. QED  BY <3>3 DEF Goal, Register!RegisterNext
  <2>3. CASE QueryRequests(w) \/ FinishUpdate(w)
    BY <2>3, <1>s DEF QueryRequests, FinishUpdate
  <2> QED BY <1>4, <2>1, <2>2, <2>3 DEF UpdateJob
<1>5. ASSUME NEW w \in Workers, RewardedJob(w) PROVE Goal
  BY <1>5, <1>s DEF RewardedJob, QueryRewards, StoreReward, FinishRewarded
<1>6. ASSUME NEW w \in Workers, MatchJob(w) PROVE Goal
  <2>1. CASE MatchRequest(w)
    BY <2>1, MatchCloses DEF Goal, Register!RegisterNext
  <2>2. CASE WriteCheckpoint(w)
    BY <2>2, <1>v DEF WriteCheckpoint
  <2>3. CASE \/ LoadUnfulfilled(w) \/ MatchingDone(w) \/ EnqueueClaim(w)
             \/ EnqueueingDone(w) \/ GuardCheckpoint(w)
    BY <2>3, <1>s
       DEF LoadUnfulfilled, MatchingDone, EnqueueClaim, EnqueueingDone, GuardCheckpoint
  <2> QED BY <1>6, <2>1, <2>2, <2>3 DEF MatchJob
<1>7. ASSUME NEW w \in Workers, EnqueueFlow(w) PROVE Goal
  BY <1>7, <1>s DEF EnqueueFlow, CountJobs, AddFlow, FinishMatch
<1>8. ASSUME NEW w \in Workers, Faulty(w) PROVE Goal
  BY <1>8, <1>s DEF Faulty, DiscoverFails, MatchFails, BlockNumberFails, EnqueueThrows
<1>9. ASSUME NEW w \in Workers, Bootstrap(w) PROVE Goal
  BY <1>9, <1>s DEF Bootstrap, CleanQueues, NukeRequests, Careful
<1>10. ASSUME NEW w \in Workers, Process(w) PROVE Goal
  BY <1>10, <1>s DEF Process, StartLeading, StartStandby, Elect, Crash, Demote
<1>11. CASE UNCHANGED vars
  BY <1>11, <1>s DEF vars
<1> QED
  BY <1>1, <1>2, <1>3, <1>4, <1>5, <1>6, <1>7, <1>8, <1>9, <1>10, <1>11 DEF Next

(* For any number of processes and flows, and a crash or a failing call at *)
(* any step: the loop is a register of requests that can be trusted up to  *)
(* the checkpoint.                                                         *)
THEOREM ImplementsRegister ==
    ASSUME Careful
    PROVE  Spec => KeepsRegister
<1> DEFINE Inv == DiscoveryInv /\ Causes
<1>1. Init => Inv
  BY DiscoveryInit, CausesInit
<1>2. Inv /\ [Next]_vars => Inv'
  BY DiscoveryStep, CausesStep DEF DiscoveryInv
<1>3. Init => Register!RegisterInit
  BY DEF Init, Register!RegisterInit, Payments
<1>4. Inv /\ [Next]_vars => [Register!RegisterNext]_(Register!vars)
  BY RegisterStep
<1> QED BY <1>1, <1>2, <1>3, <1>4, PTL DEF Spec, KeepsRegister, Register!RegisterSpec

============================================================================
