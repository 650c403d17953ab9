------------------------- MODULE RewardsLoopProofs -------------------------
(***************************************************************************)
(* How many discovery flows there are, while one process works at a time:  *)
(* a second one on its way to a match job costs two ends of a process, and *)
(* the last one ends only when a job was interrupted too often, or when    *)
(* DO_CLEAN empties the queue.                                             *)
(***************************************************************************)
EXTENDS RewardsDiscoveryProofs, FiniteSetTheorems

JobSteps == UpdateSteps \cup RewardedSteps \cup MatchSteps

(* A process that works on a job holds the lock of exactly one.            *)
Locks ==
    /\ \A f \in Flows : OwnerOK(f)
    /\ \A f, g \in Flows : owner[f] # NoWorker /\ owner[g] = owner[f] => f = g
    /\ \A w \in Workers : pc[w] \in JobSteps => \E f \in Flows : owner[f] = w

(* Two steps of the same job, or both of none.                             *)
SameJob(s, t) ==
    /\ s \in UpdateSteps <=> t \in UpdateSteps
    /\ s \in RewardedSteps <=> t \in RewardedSteps
    /\ s \in MatchSteps <=> t \in MatchSteps

(* Steps after which the queue is known to be empty, or a flow was added.  *)
Counting == {"add", "added", "bootAdd"}

(* A step inside a job or outside of any, which leaves the queue alone.    *)
GoesOn ==
    /\ UNCHANGED <<stage, jobState, owner, stalls>>
    /\ upsets <= upsets'
    /\ \A w \in Workers :
          /\ SameJob(pc[w], pc'[w])
          /\ pc'[w] \in Counting => pc'[w] = pc[w]
          /\ pc[w] = "added" => pc'[w] = pc[w]

(* The end of a job.  A match job ends behind its successor, behind one    *)
(* it counted, or after a call that failed.                                *)
Ends(w) ==
    /\ \E value : Finish(w, value)
    /\ UNCHANGED upsets
    /\ pc[w] \in JobSteps
    /\ pc[w] \in MatchSteps =>
          \/ pc[w] = "added"
          \/ InState({"waiting", "delayed"}) # {}
          \/ "rpc" \in Faults
          \/ "redis" \in Faults

CountsNone(w) ==
    /\ pc[w] \in {"count", "bootCount"}
    /\ Counted(w) = {}
    /\ pc' = [pc EXCEPT ![w] = IF Booting(w) THEN "bootAdd" ELSE "add"]
    /\ UNCHANGED <<stage, jobState, owner, stalls, upsets>>

(* Every step of the loop, seen from its queue.                            *)
LEMMA StepKinds ==
    ASSUME TypeOK, [Next]_vars
    PROVE  \/ GoesOn
           \/ \E f \in Flows : DelayExpires(f) \/ JobStalls(f)
           \/ \E w \in Workers, f \in Flows : Take(w, f)
           \/ \E w \in Workers : Ends(w) \/ CountsNone(w) \/ AddFlow(w)
                                   \/ CleanQueues(w) \/ Crash(w)
<1> DEFINE Kind == \/ GoesOn
                   \/ \E f \in Flows : DelayExpires(f) \/ JobStalls(f)
                   \/ \E w \in Workers, f \in Flows : Take(w, f)
                   \/ \E w \in Workers : Ends(w) \/ CountsNone(w) \/ AddFlow(w)
                                           \/ CleanQueues(w) \/ Crash(w)
<1>t. pc \in [Workers -> Steps] /\ upsets \in Nat
  BY DEF TypeOK
<1>a. ASSUME UNCHANGED <<stage, jobState, owner, stalls, pc>>, upsets <= upsets' PROVE GoesOn
  BY <1>a DEF GoesOn, SameJob
<1>b. ASSUME NEW w \in Workers, UNCHANGED <<stage, jobState, owner, stalls, upsets>>,
             \A v \in Workers \ {w} : pc'[v] = pc[v],
             SameJob(pc[w], pc'[w]), pc'[w] \notin Counting, pc[w] # "added"
      PROVE  GoesOn
  <2>1. \A v \in Workers : v # w => SameJob(pc[v], pc'[v])
    BY <1>b DEF SameJob
  <2> QED BY <1>b, <2>1, <1>t DEF GoesOn
<1> HIDE DEF Kind
<1>k. GoesOn => Kind  BY DEF Kind
<1>e. (\E w \in Workers : Ends(w)) => Kind  BY DEF Kind
<1> USE DEF UpdateSteps, RewardedSteps, MatchSteps
<1>1. CASE Environment
  BY <1>1, <1>a, <1>k, <1>t DEF Environment, Mine, LiveEvent, ClaimRetires, ClaimGivesUp, redis, local
<1>2. CASE \E f \in Flows : DelayExpires(f) \/ JobStalls(f)
  BY <1>2 DEF Kind
<1>3. ASSUME NEW w \in Workers, \E f \in Flows : Take(w, f) PROVE Kind
  BY <1>3 DEF Kind
<1>4. ASSUME NEW w \in Workers, UpdateJob(w) PROVE Kind
  <2>1. CASE FinishUpdate(w)
    BY <2>1, <1>e DEF FinishUpdate, Ends, JobSteps
  <2>2. CASE ReadCheckpoint(w) \/ QueryRequests(w) \/ StoreRequest(w)
    BY <2>2, <1>b, <1>k, <1>t
       DEF ReadCheckpoint, QueryRequests, StoreRequest, SameJob, Counting, redis
  <2> QED BY <1>4, <2>1, <2>2 DEF UpdateJob
<1>5. ASSUME NEW w \in Workers, RewardedJob(w) PROVE Kind
  <2>1. CASE FinishRewarded(w)
    BY <2>1, <1>e DEF FinishRewarded, Ends, JobSteps
  <2>2. CASE QueryRewards(w) \/ StoreReward(w)
    BY <2>2, <1>b, <1>k, <1>t DEF QueryRewards, StoreReward, SameJob, Counting, redis
  <2> QED BY <1>5, <2>1, <2>2 DEF RewardedJob
<1>6. ASSUME NEW w \in Workers, MatchJob(w) PROVE Kind
  BY <1>6, <1>b, <1>k, <1>t
     DEF MatchJob, LoadUnfulfilled, MatchRequest, MatchingDone, EnqueueClaim, EnqueueingDone,
         GuardCheckpoint, WriteCheckpoint, SameJob, Counting, redis
(* What the calls that count the queue do.                                 *)
<1>r. ASSUME NEW w \in Workers, CallReturns(w), UNCHANGED upsets,
             pc[w] \in {"count", "add", "bootCount", "bootAdd"},
             \/ InState({"waiting", "delayed"}) # {} \/ "rpc" \in Faults
             \/ Booting(w)
      PROVE  Kind
  <2>1. CASE Booting(w)
    BY <1>r, <2>1, <1>b, <1>k, <1>t DEF CallReturns, Booting, SameJob, Counting, redis
  <2>2. CASE ~Booting(w)
    BY <1>r, <2>2, <1>e DEF CallReturns, Booting, Ends, JobSteps
  <2> QED BY <2>1, <2>2
<1>7. ASSUME NEW w \in Workers, EnqueueFlow(w) PROVE Kind
  <2>1. CASE CountJobs(w) /\ Counted(w) # {}
    <3>1. Booting(w) \/ InState({"waiting", "delayed"}) # {}
      BY <2>1 DEF Counted
    <3> QED BY <2>1, <3>1, <1>r DEF CountJobs
  <2>2. CASE CountJobs(w) /\ Counted(w) = {}
    BY <2>2 DEF CountJobs, CountsNone, Kind, redis
  <2>3. CASE AddFlow(w)
    BY <2>3 DEF Kind
  <2>4. CASE FinishMatch(w)
    BY <2>4, <1>e DEF FinishMatch, Ends, JobSteps
  <2> QED BY <1>7, <2>1, <2>2, <2>3, <2>4 DEF EnqueueFlow
<1>8. ASSUME NEW w \in Workers, Faulty(w) PROVE Kind
  <2>1. CASE DiscoverFails(w)
    BY <2>1, <1>e DEF DiscoverFails, Ends, JobSteps
  <2>2. CASE MatchFails(w)
    BY <2>2, <1>b, <1>k, <1>t DEF MatchFails, SameJob, Counting, redis
  <2>3. CASE BlockNumberFails(w) /\ tries[w] >= MaxRpcRetries
    BY <2>3, <1>r DEF BlockNumberFails
  <2>4. CASE BlockNumberFails(w) /\ ~(tries[w] >= MaxRpcRetries)
    BY <2>4, <1>b, <1>k, <1>t DEF BlockNumberFails, Booting, SameJob, Counting, redis
  <2>5. CASE EnqueueThrows(w)
    BY <2>5, <1>e DEF EnqueueThrows, Ends, JobSteps
  <2> QED BY <1>8, <2>1, <2>2, <2>3, <2>4, <2>5 DEF Faulty
<1>9. ASSUME NEW w \in Workers, Bootstrap(w) PROVE Kind
  <2>1. CASE CleanQueues(w)
    BY <2>1 DEF Kind
  <2>2. CASE NukeRequests(w)
    BY <2>2, <1>b, <1>k, <1>t DEF NukeRequests, SameJob, Counting, redis
  <2> QED BY <1>9, <2>1, <2>2 DEF Bootstrap
<1>10. ASSUME NEW w \in Workers, Process(w) PROVE Kind
  <2>1. CASE StartLeading(w) \/ StartStandby(w)
    BY <2>1, <1>b, <1>k, <1>t DEF StartLeading, StartStandby, SameJob, Counting, redis
  <2>2. CASE Elect(w) \/ Demote(w)
    BY <2>2, <1>a, <1>k, <1>t DEF Elect, Demote, redis, local
  <2>3. CASE Crash(w)
    BY <2>3 DEF Kind
  <2> QED BY <1>10, <2>1, <2>2, <2>3 DEF Process
<1>11. CASE UNCHANGED vars
  BY <1>11, <1>a, <1>k, <1>t DEF vars, redis, local
<1> QED
  BY <1>1, <1>2, <1>3, <1>4, <1>5, <1>6, <1>7, <1>8, <1>9, <1>10, <1>11 DEF Next, Kind

(* Locks: only a process that rests takes a job, and then works on it; a   *)
(* job that ends, or whose process ends, is let go.                        *)
LEMMA LocksStep ==
    ASSUME SoleWorker, TypeOK, TypeOK', Alone, Locks, [Next]_vars
    PROVE  Locks'
<1> USE SoleWorker, DiscoveryAssumption
        DEF UpdateSteps, RewardedSteps, MatchSteps, JobSteps
<1>t. /\ pc \in [Workers -> Steps] /\ pc' \in [Workers -> Steps]
      /\ owner \in [Flows -> Workers \cup {NoWorker}]
      /\ stage \in [Flows -> Stages] /\ jobState \in [Flows -> JobStates]
  BY DEF TypeOK
(* A process that rests, or starts, holds no lock.                         *)
<1>r. ASSUME NEW w \in Workers, pc[w] \notin JobSteps PROVE \A f \in Flows : owner[f] # w
  BY <1>r DEF Locks, OwnerOK
<1>1. CASE GoesOn
  BY <1>1, <1>t DEF GoesOn, SameJob, Locks, OwnerOK
<1>2. ASSUME NEW f \in Flows, DelayExpires(f) PROVE Locks'
  BY <1>2, <1>t DEF DelayExpires, Locks, OwnerOK, local
<1>3. ASSUME NEW f \in Flows, JobStalls(f) PROVE Locks'
  <2>1. owner[f] = NoWorker /\ UNCHANGED <<owner, pc>>
    BY <1>3, <1>t DEF JobStalls, local
  <2>2. \A g \in Flows : owner[g] # NoWorker => UNCHANGED <<jobState[g], stage[g]>>
    BY <1>3, <2>1, <1>t DEF JobStalls
  <2>3. ASSUME NEW g \in Flows PROVE OwnerOK(g)'
    BY <2>1, <2>2 DEF Locks, OwnerOK
  <2> QED BY <2>1, <2>3 DEF Locks
<1>4. ASSUME NEW w \in Workers, NEW f \in Flows, Take(w, f) PROVE Locks'
  <2>1. \A g \in Flows : owner[g] # w
    BY <1>4, <1>r DEF Take
  <2>2. owner' = [owner EXCEPT ![f] = w] /\ UNCHANGED stage /\ jobState' = [jobState EXCEPT ![f] = "active"]
    BY <1>4 DEF Take
  <2>3. \A v \in Workers \ {w} : pc'[v] = pc[v]
    BY <1>4, <1>t DEF Take
  <2>4. \/ stage[f] = "update" /\ pc'[w] = "checkpoint"
        \/ stage[f] = "rewarded" /\ pc'[w] = "queryRewards"
        \/ stage[f] = "match" /\ pc'[w] = "load"
    BY <1>4, <1>t DEF Take, Stages
  <2>5. ASSUME NEW g \in Flows PROVE OwnerOK(g)'
    <3>1. CASE g = f
      BY <2>2, <2>4, <3>1, <1>t DEF OwnerOK
    <3>2. CASE g # f
      BY <2>1, <2>2, <2>3, <3>2, <1>t DEF Locks, OwnerOK
    <3> QED BY <3>1, <3>2
  <2>6. \A g, h \in Flows : owner'[g] # NoWorker /\ owner'[h] = owner'[g] => g = h
    BY <2>1, <2>2, <1>t DEF Locks
  <2>7. ASSUME NEW v \in Workers, pc'[v] \in JobSteps PROVE \E g \in Flows : owner'[g] = v
    <3>1. owner[f] = NoWorker
      BY <1>4, <1>t DEF Take, Locks, OwnerOK
    <3>2. CASE v = w
      BY <2>2, <3>2, <1>t
    <3>3. CASE v # w
      BY <2>2, <2>3, <2>7, <3>1, <3>3, <1>t DEF Locks
    <3> QED BY <3>2, <3>3
  <2> QED BY <2>5, <2>6, <2>7 DEF Locks
<1>5. ASSUME NEW w \in Workers, Ends(w) PROVE Locks'
  <2>1. /\ pc' = [pc EXCEPT ![w] = "idle"]
        /\ \A f \in Flows : owner'[f] = IF owner[f] = w THEN NoWorker ELSE owner[f]
        /\ \A f \in Flows : owner[f] # w => UNCHANGED <<stage[f], jobState[f]>>
    BY <1>5 DEF Ends, Finish
  <2>2. ASSUME NEW f \in Flows PROVE OwnerOK(f)'
    BY <2>1, <1>t DEF Locks, OwnerOK
  <2>3. \A f, g \in Flows : owner'[f] # NoWorker /\ owner'[g] = owner'[f] => f = g
    BY <2>1, <1>t DEF Locks
  <2>4. \A v \in Workers : pc'[v] \in JobSteps => \E f \in Flows : owner'[f] = v
    BY <2>1, <1>t DEF Locks
  <2> QED BY <2>2, <2>3, <2>4 DEF Locks
<1>6. ASSUME NEW w \in Workers, CountsNone(w) PROVE Locks'
  BY <1>6, <1>t DEF CountsNone, Booting, Locks, OwnerOK
<1>7. ASSUME NEW w \in Workers, AddFlow(w) PROVE Locks'
  <2>1. PICK f \in Flows :
          /\ jobState[f] = "none"
          /\ \A g \in Flows : g # f => UNCHANGED <<stage[g], jobState[g]>>
    BY <1>7, <1>t DEF AddFlow, InState
  <2>2. \A v \in Workers : owner[f] # v
    BY <2>1 DEF Locks, OwnerOK
  <2>3. \A v \in Workers : SameJob(pc[v], pc'[v])
    BY <1>7, <1>t DEF AddFlow, Booting, SameJob
  <2>4. UNCHANGED owner
    BY <1>7 DEF AddFlow
  <2>5. ASSUME NEW g \in Flows PROVE OwnerOK(g)'
    BY <2>1, <2>2, <2>3, <2>4 DEF Locks, OwnerOK, SameJob
  <2> QED BY <2>3, <2>4, <2>5 DEF Locks, SameJob
<1>8. ASSUME NEW w \in Workers, CleanQueues(w) PROVE Locks'
  <2>1. CASE DoClean
    <3>1. \A v \in Workers : pc'[v] \notin JobSteps
      BY <1>8, <1>t DEF CleanQueues, Alone, Working, Quiet
    <3>2. \A f \in Flows : owner'[f] = NoWorker
      BY <1>8, <2>1 DEF CleanQueues
    <3> QED BY <3>1, <3>2 DEF Locks, OwnerOK
  <2>2. CASE ~DoClean
    BY <1>8, <2>2, <1>t DEF CleanQueues, Locks, OwnerOK
  <2> QED BY <2>1, <2>2
<1>9. ASSUME NEW w \in Workers, Crash(w) PROVE Locks'
  <2>1. /\ pc' = [pc EXCEPT ![w] = "down"]
        /\ \A f \in Flows : owner'[f] = IF owner[f] = w THEN NoWorker ELSE owner[f]
        /\ UNCHANGED <<stage, jobState>>
    BY <1>9 DEF Crash
  <2>2. ASSUME NEW f \in Flows PROVE OwnerOK(f)'
    BY <2>1, <1>t DEF Locks, OwnerOK
  <2>3. \A f, g \in Flows : owner'[f] # NoWorker /\ owner'[g] = owner'[f] => f = g
    BY <2>1, <1>t DEF Locks
  <2>4. \A v \in Workers : pc'[v] \in JobSteps => \E f \in Flows : owner'[f] = v
    BY <2>1, <1>t DEF Locks
  <2> QED BY <2>2, <2>3, <2>4 DEF Locks
<1> QED
  BY StepKinds, <1>1, <1>2, <1>3, <1>4, <1>5, <1>6, <1>7, <1>8, <1>9

-----------------------------------------------------------------------------
(* A second flow costs two crashes.  A job whose process ended is Lost     *)
(* until its lock expires: a process can make one such job, and only while *)
(* it works.  A match job adds a flow when every other job is Lost, so a   *)
(* flow on its way costs the crash that hides it from the count, and, as   *)
(* the match job that counts leaves when it ends, the crash that made a    *)
(* second flow live at all.                                                *)

Lost    == {f \in Flows : jobState[f] = "active" /\ owner[f] = NoWorker}
Orphans == {f \in Lost : stage[f] # "match"}
Adding  == \E w \in Workers : pc[w] = "added"

Budget ==
    /\ IsFiniteSet(LiveFlows)
    /\ \A w \in Workers : pc[w] = "bootAdd" => LiveFlows = {}
    /\ Cardinality(LiveFlows) + Cardinality(Orphans) <= upsets + (IF Adding THEN 2 ELSE 1)
    /\ \A w \in Workers : pc[w] = "add" => 2 * Cardinality(Walking) <= upsets
    /\ DoublingCostsCrashes

LEMMA Sizes ==
    ASSUME IsFiniteSet(LiveFlows)
    PROVE  /\ IsFiniteSet(Walking) /\ IsFiniteSet(Orphans)
           /\ Cardinality(LiveFlows) \in Nat
           /\ Cardinality(Walking) \in Nat
           /\ Cardinality(Orphans) \in Nat
<1>1. Walking \subseteq LiveFlows /\ Orphans \subseteq LiveFlows
  BY DEF Walking, Orphans, Lost, LiveFlows, InState
<1>2. IsFiniteSet(Walking) /\ IsFiniteSet(Orphans)
  BY <1>1, FS_Subset
<1> QED BY <1>2, FS_CardinalityType

(* Nothing is added, nobody comes to count, and whoever added is not done. *)
LEMMA Shrinks ==
    ASSUME TypeOK, Budget,
           LiveFlows' \subseteq LiveFlows, Orphans' \subseteq Orphans, Walking' \subseteq Walking,
           upsets' \in Nat, upsets <= upsets', Adding => Adding',
           \A w \in Workers : pc'[w] \in {"add", "bootAdd"} => pc[w] = pc'[w]
    PROVE  Budget'
<1>1. /\ Cardinality(LiveFlows) \in Nat /\ Cardinality(Walking) \in Nat
      /\ Cardinality(Orphans) \in Nat /\ upsets \in Nat
  BY Sizes DEF Budget, TypeOK
<1>2. /\ IsFiniteSet(LiveFlows')
      /\ Cardinality(LiveFlows') <= Cardinality(LiveFlows)
      /\ Cardinality(Orphans') <= Cardinality(Orphans)
      /\ Cardinality(Walking') <= Cardinality(Walking)
  BY Sizes, FS_Subset DEF Budget
<1>3. /\ Cardinality(LiveFlows') \in Nat /\ Cardinality(Walking') \in Nat
      /\ Cardinality(Orphans') \in Nat
  BY Sizes, FS_Subset, FS_CardinalityType DEF Budget
<1>4. \A w \in Workers : pc'[w] = "bootAdd" => LiveFlows' = {}
  BY DEF Budget
<1>5. Cardinality(LiveFlows') + Cardinality(Orphans') <= upsets' + (IF Adding' THEN 2 ELSE 1)
  BY <1>1, <1>2, <1>3 DEF Budget
<1>6. \A w \in Workers : pc'[w] = "add" => 2 * Cardinality(Walking') <= upsets'
  BY <1>1, <1>2, <1>3 DEF Budget
<1>7. 2 * (Cardinality(Walking') - 1) <= upsets'
  BY <1>1, <1>2, <1>3 DEF Budget, DoublingCostsCrashes
<1> QED BY <1>2, <1>4, <1>5, <1>6, <1>7 DEF Budget, DoublingCostsCrashes

(* The match job leaves the queue, and leaves to its successor the place   *)
(* it took.                                                                *)
LEMMA EndsKeepsBudget ==
    ASSUME TypeOK, TypeOK', Alone, Locks, Budget, NEW w \in Workers, Ends(w)
    PROVE  Budget'
<1>t. pc \in [Workers -> Steps] /\ stage \in [Flows -> Stages] /\ upsets \in Nat
  BY DEF TypeOK
<1>1. /\ pc' = [pc EXCEPT ![w] = "idle"] /\ UNCHANGED upsets
      /\ \A f \in Flows : owner'[f] = IF owner[f] = w THEN NoWorker ELSE owner[f]
      /\ \A f \in Flows : owner[f] # w => UNCHANGED <<stage[f], jobState[f]>>
      /\ \A f \in Flows : owner[f] = w =>
            jobState'[f] = IF stage[f] = "match" THEN "none" ELSE "waiting"
  BY DEF Ends, Finish
<1>2. \A f \in Flows : owner[f] = w => jobState[f] = "active"
  BY DEF Locks, OwnerOK
<1>3. \A f \in Flows : owner[f] = w => f \notin Orphans' /\ (f \in Walking' => f \in Walking)
  BY <1>1, <1>2 DEF Orphans, Lost, Walking, LiveFlows, InState
<1>4. /\ LiveFlows' \subseteq LiveFlows /\ Walking' \subseteq Walking /\ Orphans' \subseteq Orphans
  BY <1>1, <1>2, <1>3 DEF LiveFlows, Walking, Orphans, Lost, InState
<1>5. \A v \in Workers : pc'[v] \in {"add", "bootAdd"} => pc[v] = pc'[v]
  BY <1>1, <1>t
<1>6. CASE pc[w] # "added"
  <2>1. Adding => Adding'
    BY <1>1, <1>6, <1>t DEF Adding
  <2> QED BY <1>1, <1>4, <1>5, <1>t, <2>1, Shrinks
<1>7. CASE pc[w] = "added"
  <2>1. PICK f \in Flows : owner[f] = w
    BY <1>7 DEF Locks, JobSteps, MatchSteps
  <2>2. f \in LiveFlows /\ f \notin LiveFlows'
    <3>1. stage[f] = "match"
      BY <1>7, <2>1 DEF Locks, OwnerOK, UpdateSteps, RewardedSteps
    <3> QED BY <1>1, <1>2, <2>1, <3>1 DEF LiveFlows, InState
  <2>3. Adding /\ IsFiniteSet(LiveFlows)
    BY <1>7 DEF Adding, Budget
  <2>4. /\ Cardinality(LiveFlows') <= Cardinality(LiveFlows) - 1
        /\ Cardinality(Orphans') <= Cardinality(Orphans)
        /\ Cardinality(Walking') <= Cardinality(Walking)
    <3>1. /\ IsFiniteSet(LiveFlows \ {f})
          /\ Cardinality(LiveFlows \ {f}) = Cardinality(LiveFlows) - 1
      BY <2>2, <2>3, FS_RemoveElement
    <3>2. LiveFlows' \subseteq LiveFlows \ {f}
      BY <1>4, <2>2
    <3>3. Cardinality(LiveFlows') <= Cardinality(LiveFlows \ {f})
      BY <3>1, <3>2, FS_Subset
    <3> QED BY <1>4, <2>3, <3>1, <3>3, Sizes, FS_Subset
  <2>5. /\ IsFiniteSet(LiveFlows')
        /\ Cardinality(LiveFlows') \in Nat /\ Cardinality(LiveFlows) \in Nat
        /\ Cardinality(Walking') \in Nat /\ Cardinality(Walking) \in Nat
        /\ Cardinality(Orphans') \in Nat /\ Cardinality(Orphans) \in Nat
    BY <1>4, <2>3, Sizes, FS_Subset, FS_CardinalityType
  <2>6. Cardinality(LiveFlows') + Cardinality(Orphans') <= upsets + 1
    BY <2>3, <2>4, <2>5, <1>t DEF Budget
  <2>7. Cardinality(LiveFlows') + Cardinality(Orphans') <= upsets' + (IF Adding' THEN 2 ELSE 1)
    BY <1>1, <1>t, <2>5, <2>6
  <2>8. \A v \in Workers : pc'[v] = "bootAdd" => LiveFlows' = {}
    BY <1>4, <1>5 DEF Budget
  <2>9. \A v \in Workers : pc'[v] = "add" => 2 * Cardinality(Walking') <= upsets'
    BY <1>1, <1>5, <1>t, <2>4, <2>5 DEF Budget
  <2>10. 2 * (Cardinality(Walking') - 1) <= upsets'
    BY <1>1, <1>t, <2>4, <2>5 DEF Budget, DoublingCostsCrashes
  <2> QED BY <2>5, <2>7, <2>8, <2>9, <2>10 DEF Budget, DoublingCostsCrashes
<1> QED BY <1>6, <1>7

(* Where every other job is Lost, the flows on their way are Orphans, and  *)
(* the match job that counts is live too.                                  *)
LEMMA CountsNoneKeepsBudget ==
    ASSUME TypeOK, Alone, Locks, Budget, NEW w \in Workers, CountsNone(w)
    PROVE  Budget'
<1>t. pc \in [Workers -> Steps] /\ upsets \in Nat /\ NoWorker \notin Workers
      /\ owner \in [Flows -> Workers \cup {NoWorker}]
  BY DiscoveryAssumption DEF TypeOK
<1>1. /\ LiveFlows' = LiveFlows /\ Walking' = Walking /\ Orphans' = Orphans /\ upsets' = upsets
      /\ \A v \in Workers \ {w} : pc'[v] = pc[v]
      /\ pc'[w] = IF pc[w] = "bootCount" THEN "bootAdd" ELSE "add"
      /\ pc[w] \in {"count", "bootCount"}
  BY <1>t DEF CountsNone, Booting, LiveFlows, Walking, Orphans, Lost, InState
<1>2. ~Adding /\ ~Adding'
  BY <1>1, <1>t DEF Adding, Alone, Working, Quiet
<1>3. CASE pc[w] = "bootCount"
  <2>1. LiveFlows = {}
    BY <1>3 DEF CountsNone, Counted, Booting, LiveFlows, InState
  <2> QED BY <1>1, <1>2, <1>3, <2>1 DEF Budget, DoublingCostsCrashes
<1>4. CASE pc[w] = "count"
  <2>1. PICK f \in Flows : owner[f] = w
    BY <1>4 DEF Locks, JobSteps, MatchSteps
  <2>2. jobState[f] = "active" /\ stage[f] = "match"
    BY <1>4, <2>1 DEF Locks, OwnerOK, UpdateSteps, RewardedSteps
  <2>3. Walking \subseteq Orphans
    <3>1. ASSUME NEW g \in Walking PROVE jobState[g] = "active"
      BY <1>4, <3>1 DEF CountsNone, Counted, Booting, Walking, LiveFlows, InState
    <3>2. ASSUME NEW g \in Walking, owner[g] # NoWorker PROVE FALSE
      <4>1. g \in Flows /\ owner[g] \in Workers
        BY <1>t, <3>2 DEF Walking, LiveFlows, InState
      <4>2. pc[owner[g]] \in JobSteps
        BY <4>1 DEF Locks, OwnerOK, JobSteps
      <4>3. owner[g] = w
        BY <1>4, <4>1, <4>2
           DEF Alone, Working, Quiet, JobSteps, UpdateSteps, RewardedSteps, MatchSteps
      <4>4. g = f
        BY <1>t, <2>1, <4>1, <4>3 DEF Locks
      <4> QED BY <2>2, <3>2, <4>4 DEF Walking
    <3> QED BY <3>1, <3>2 DEF Orphans, Lost, Walking, LiveFlows, InState
  <2>4. Walking \subseteq LiveFlows \ {f} /\ f \in LiveFlows
    BY <2>2 DEF Walking, LiveFlows, InState
  <2>5. /\ IsFiniteSet(LiveFlows)
        /\ IsFiniteSet(LiveFlows \ {f})
        /\ Cardinality(LiveFlows \ {f}) = Cardinality(LiveFlows) - 1
    BY <2>4, FS_RemoveElement DEF Budget
  <2>6. /\ Cardinality(Walking) <= Cardinality(LiveFlows) - 1
        /\ Cardinality(Walking) <= Cardinality(Orphans)
    BY <2>3, <2>4, <2>5, Sizes, FS_Subset
  <2>7. /\ Cardinality(LiveFlows) \in Nat /\ Cardinality(Walking) \in Nat
        /\ Cardinality(Orphans) \in Nat
    BY <2>5, Sizes
  <2>8. 2 * Cardinality(Walking) <= upsets
    BY <1>2, <1>t, <2>6, <2>7 DEF Budget
  <2>9. pc'[w] = "add" /\ \A v \in Workers : pc'[v] = "bootAdd" => pc[v] = "bootAdd"
    BY <1>1, <1>4
  <2> QED BY <1>1, <1>2, <2>8, <2>9 DEF Budget, DoublingCostsCrashes
<1> QED BY <1>1, <1>3, <1>4

(* The new flow is the first, or the others are paid for.                  *)
LEMMA AddFlowKeepsBudget ==
    ASSUME TypeOK, Alone, Locks, Budget, NEW w \in Workers, AddFlow(w)
    PROVE  Budget'
<1>t. /\ pc \in [Workers -> Steps] /\ upsets \in Nat
      /\ jobState \in [Flows -> JobStates] /\ stage \in [Flows -> Stages]
  BY DEF TypeOK
<1>1. PICK f \in Flows :
        /\ jobState[f] = "none" /\ jobState'[f] \in {"waiting", "delayed"} /\ stage'[f] = "update"
        /\ \A g \in Flows \ {f} : UNCHANGED <<stage[g], jobState[g]>>
  BY <1>t DEF AddFlow, InState
<1>2. UNCHANGED <<owner, upsets>> /\ pc[w] \in {"add", "bootAdd"}
  BY DEF AddFlow
<1>3. /\ f \notin LiveFlows /\ f \notin Walking
      /\ LiveFlows' = LiveFlows \cup {f} /\ Walking' = Walking \cup {f} /\ Orphans' = Orphans
  BY <1>1, <1>2 DEF LiveFlows, Walking, Orphans, Lost, InState
<1>4. IsFiniteSet(LiveFlows) /\ IsFiniteSet(Walking)
  BY Sizes DEF Budget
<1>5. /\ IsFiniteSet(LiveFlows')
      /\ Cardinality(LiveFlows') = Cardinality(LiveFlows) + 1
      /\ Cardinality(Walking') = Cardinality(Walking) + 1
  BY <1>3, <1>4, FS_AddElement
<1>6. /\ Cardinality(LiveFlows) \in Nat /\ Cardinality(Walking) \in Nat
      /\ Cardinality(Orphans) \in Nat
  BY <1>4, Sizes
<1>7. \A v \in Workers : pc'[v] \notin {"add", "bootAdd"}
  BY <1>2, <1>t DEF AddFlow, Alone, Working, Quiet
<1>8. ~Adding
  BY <1>2, <1>t DEF Adding, Alone, Working, Quiet
<1>9. CASE pc[w] = "add"
  <2>1. Adding'
    BY <1>9, <1>t DEF AddFlow, Booting, Adding
  <2>2. Cardinality(LiveFlows') + Cardinality(Orphans') <= upsets' + 2
    BY <1>2, <1>3, <1>5, <1>6, <1>8, <1>t DEF Budget
  <2>3. 2 * (Cardinality(Walking') - 1) <= upsets'
    BY <1>2, <1>5, <1>6, <1>9, <1>t DEF Budget
  <2> QED BY <1>5, <1>7, <2>1, <2>2, <2>3 DEF Budget, DoublingCostsCrashes
<1>10. CASE pc[w] = "bootAdd"
  <2>1. LiveFlows = {}
    BY <1>10 DEF Budget
  <2>2. Walking = {} /\ Orphans = {}
    BY <2>1 DEF Walking, Orphans, Lost, LiveFlows, InState
  <2>3. /\ Cardinality(LiveFlows') = 1 /\ Cardinality(Walking') = 1
        /\ Cardinality(Orphans') = 0
    BY <1>3, <1>5, <2>1, <2>2, FS_EmptySet
  <2>4. Cardinality(LiveFlows') + Cardinality(Orphans') <= upsets' + (IF Adding' THEN 2 ELSE 1)
    BY <1>2, <1>t, <2>3
  <2>5. 2 * (Cardinality(Walking') - 1) <= upsets'
    BY <1>2, <1>t, <2>3
  <2> QED BY <1>5, <1>7, <2>4, <2>5 DEF Budget, DoublingCostsCrashes
<1> QED BY <1>2, <1>9, <1>10

(* A process loses the one job it works on, or the one that added a flow.  *)
LEMMA CrashKeepsBudget ==
    ASSUME TypeOK, Locks, Budget, NEW w \in Workers, Crash(w)
    PROVE  Budget'
<1>t. pc \in [Workers -> Steps] /\ upsets \in Nat
  BY DEF TypeOK
<1>1. /\ LiveFlows' = LiveFlows /\ Walking' = Walking /\ upsets' = upsets + 1
      /\ pc' = [pc EXCEPT ![w] = "down"]
      /\ UNCHANGED <<stage, jobState>>
      /\ \A f \in Flows : owner'[f] = IF owner[f] = w THEN NoWorker ELSE owner[f]
  BY DEF Crash, LiveFlows, Walking, InState
<1>2. /\ IsFiniteSet(LiveFlows) /\ IsFiniteSet(Orphans)
      /\ Cardinality(LiveFlows) \in Nat /\ Cardinality(Walking) \in Nat
      /\ Cardinality(Orphans) \in Nat
  BY Sizes DEF Budget
<1>3. Cardinality(Orphans') \in Nat
  <2>1. Orphans' \subseteq LiveFlows
    BY <1>1 DEF Orphans, Lost, LiveFlows, InState
  <2> QED BY <1>2, <2>1, FS_Subset, FS_CardinalityType
<1>4. Cardinality(LiveFlows') + Cardinality(Orphans') <= upsets' + (IF Adding' THEN 2 ELSE 1)
  <2>1. CASE pc[w] = "added"
    <3>1. \A f \in Flows : owner[f] = w => stage[f] = "match"
      BY <2>1 DEF Locks, OwnerOK, UpdateSteps, RewardedSteps
    <3>2. Orphans' \subseteq Orphans
      BY <1>1, <3>1 DEF Orphans, Lost
    <3>3. Cardinality(Orphans') <= Cardinality(Orphans)
      BY <1>2, <3>2, FS_Subset
    <3> QED BY <1>1, <1>2, <1>3, <1>t, <3>3 DEF Budget
  <2>2. CASE pc[w] # "added"
    <3>1. Adding => Adding'
      BY <1>1, <1>t, <2>2 DEF Adding
    <3>2. Cardinality(Orphans') <= Cardinality(Orphans) + 1
      <4>1. CASE \A f \in Flows : owner[f] # w
        <5>1. Orphans' \subseteq Orphans
          BY <1>1, <4>1 DEF Orphans, Lost
        <5> QED BY <1>2, <1>3, <5>1, FS_Subset
      <4>2. CASE \E f \in Flows : owner[f] = w
        <5>1. PICK f \in Flows : owner[f] = w
          BY <4>2
        <5>2. \A g \in Flows : owner[g] = w => g = f
          BY <5>1, DiscoveryAssumption DEF Locks
        <5>3. Orphans' \subseteq Orphans \cup {f}
          BY <1>1, <5>2 DEF Orphans, Lost
        <5>4. /\ IsFiniteSet(Orphans \cup {f})
              /\ Cardinality(Orphans \cup {f}) = Cardinality(Orphans) + 1
          <6>1. f \notin Orphans
            BY <5>1, DiscoveryAssumption DEF Orphans, Lost
          <6> QED BY <1>2, <6>1, FS_AddElement
        <5>5. Cardinality(Orphans') <= Cardinality(Orphans \cup {f})
          BY <5>3, <5>4, FS_Subset
        <5> QED BY <1>2, <1>3, <5>4, <5>5, FS_CardinalityType
      <4> QED BY <4>1, <4>2
    <3> QED BY <1>1, <1>2, <1>3, <1>t, <3>1, <3>2 DEF Budget
  <2> QED BY <2>1, <2>2
<1>5. \A v \in Workers : pc'[v] = "bootAdd" => LiveFlows' = {}
  BY <1>1, <1>t DEF Budget
<1>6. \A v \in Workers : pc'[v] = "add" => 2 * Cardinality(Walking') <= upsets'
  BY <1>1, <1>2, <1>t DEF Budget
<1>7. 2 * (Cardinality(Walking') - 1) <= upsets'
  BY <1>1, <1>2, <1>t DEF Budget, DoublingCostsCrashes
<1> QED BY <1>1, <1>2, <1>4, <1>5, <1>6, <1>7 DEF Budget, DoublingCostsCrashes

LEMMA BudgetStep ==
    ASSUME SoleWorker, TypeOK, TypeOK', Alone, Locks, Budget, [Next]_vars
    PROVE  Budget'
<1>t. /\ pc \in [Workers -> Steps] /\ upsets \in Nat /\ upsets' \in Nat
      /\ owner \in [Flows -> Workers \cup {NoWorker}] /\ jobState \in [Flows -> JobStates]
      /\ stage \in [Flows -> Stages]
  BY DEF TypeOK
<1> USE DEF LiveFlows, Walking, Orphans, Lost, InState
<1>1. CASE GoesOn
  BY <1>1, <1>t, Shrinks DEF GoesOn, Adding, Counting
<1>2. ASSUME NEW f \in Flows, DelayExpires(f) PROVE Budget'
  <2>1. /\ LiveFlows' \subseteq LiveFlows /\ Orphans' \subseteq Orphans /\ Walking' \subseteq Walking
        /\ UNCHANGED <<pc, upsets>>
    BY <1>2, <1>t DEF DelayExpires, local
  <2> QED BY <2>1, <1>t, Shrinks DEF Adding
<1>3. ASSUME NEW f \in Flows, JobStalls(f) PROVE Budget'
  <2>1. /\ owner[f] = NoWorker /\ jobState[f] = "active" /\ UNCHANGED <<owner, pc, upsets>>
        /\ \A g \in Flows \ {f} : UNCHANGED <<stage[g], jobState[g]>>
        /\ \/ jobState'[f] = "waiting" /\ UNCHANGED stage
           \/ jobState'[f] = "none"
    BY <1>3, <1>t, SoleWorker DEF JobStalls, local
  <2>2. /\ LiveFlows' \subseteq LiveFlows /\ Orphans' \subseteq Orphans /\ Walking' \subseteq Walking
    BY <2>1
  <2> QED BY <2>1, <2>2, <1>t, Shrinks DEF Adding
<1>4. ASSUME NEW w \in Workers, NEW f \in Flows, Take(w, f) PROVE Budget'
  <2>1. /\ jobState[f] = "waiting" /\ owner'[f] = w /\ UNCHANGED <<stage, upsets>>
        /\ \A g \in Flows \ {f} : UNCHANGED <<owner[g], jobState[g]>>
        /\ w # NoWorker
    BY <1>4, <1>t, DiscoveryAssumption DEF Take
  <2>2. /\ LiveFlows' \subseteq LiveFlows /\ Orphans' \subseteq Orphans /\ Walking' \subseteq Walking
    BY <2>1
  <2>3. /\ pc[w] = "idle" /\ pc'[w] \in {"checkpoint", "queryRewards", "load"}
        /\ \A v \in Workers \ {w} : pc'[v] = pc[v]
    BY <1>4, <1>t DEF Take, Stages
  <2> QED BY <2>1, <2>2, <2>3, <1>t, Shrinks DEF Adding
<1>5. ASSUME NEW w \in Workers, CleanQueues(w) PROVE Budget'
  <2>1. /\ LiveFlows' \subseteq LiveFlows /\ Orphans' \subseteq Orphans /\ Walking' \subseteq Walking
    BY <1>5 DEF CleanQueues
  <2>2. /\ pc[w] = "clean" /\ pc'[w] = "nuke" /\ upsets' = upsets
        /\ \A v \in Workers \ {w} : pc'[v] = pc[v]
    BY <1>5, <1>t DEF CleanQueues
  <2> QED BY <2>1, <2>2, <1>t, Shrinks DEF Adding
<1> QED
  BY StepKinds, EndsKeepsBudget, CountsNoneKeepsBudget, AddFlowKeepsBudget, CrashKeepsBudget,
     <1>1, <1>2, <1>3, <1>4, <1>5

LEMMA LoopInit == Init => TypeOK /\ Alone /\ Locks /\ Budget
<1> SUFFICES ASSUME Init PROVE TypeOK /\ Alone /\ Locks /\ Budget
  OBVIOUS
<1>1. TypeOK
  BY DiscoveryInit DEF DiscoveryInv
<1>2. Alone
  BY DEF Init, Alone, Working, Quiet
<1>3. Locks
  BY DiscoveryAssumption
     DEF Init, Locks, OwnerOK, JobSteps, UpdateSteps, RewardedSteps, MatchSteps
<1>4. LiveFlows = {} /\ Walking = {} /\ Orphans = {}
  BY DEF Init, LiveFlows, Walking, Orphans, Lost, InState
<1>5. Budget
  BY <1>4, FS_EmptySet DEF Init, Budget, Adding, DoublingCostsCrashes
<1> QED BY <1>1, <1>2, <1>3, <1>5

(* Whatever fails, and however long the system runs: k flows on their way  *)
(* to a match job cost 2 * (k - 1) ends of a process or losses of          *)
(* leadership.  Without one there is at most one flow.                     *)
THEOREM FlowsCostCrashes ==
    ASSUME SoleWorker
    PROVE  Spec => []DoublingCostsCrashes
<1> DEFINE Inv == TypeOK /\ Alone /\ Locks /\ Budget
<1>1. Inv /\ [Next]_vars => Inv'
  BY SoleWorker, TypeStep, AloneStep, LocksStep, BudgetStep
<1>2. Inv => DoublingCostsCrashes
  BY DEF Budget
<1> QED BY LoopInit, <1>1, <1>2, PTL DEF Spec

(* So there is one flow on its way to its match job until a process ended  *)
(* twice, which is what counting the queue before adding a flow is for.    *)
THEOREM OneFlow ==
    ASSUME SoleWorker
    PROVE  Spec => [](upsets <= 1 => SingleChain)
<1> DEFINE Inv == TypeOK /\ Alone /\ Locks /\ Budget
<1>1. Inv /\ [Next]_vars => Inv'
  BY SoleWorker, TypeStep, AloneStep, LocksStep, BudgetStep
<1>2. Inv => (upsets <= 1 => SingleChain)
  <2> SUFFICES ASSUME TypeOK, Budget, upsets <= 1, NEW f \in Walking, NEW g \in Walking
               PROVE  f = g
    BY DEF SingleChain
  <2>1. IsFiniteSet(Walking) /\ Cardinality(Walking) \in Nat /\ upsets \in Nat
    BY Sizes DEF Budget, TypeOK
  <2>2. Cardinality(Walking) <= 1
    BY <2>1 DEF Budget, DoublingCostsCrashes
  <2>3. Cardinality(Walking) = 1
    BY <2>1, <2>2, FS_EmptySet
  <2> QED BY <2>1, <2>3, FS_Singleton
<1> QED BY LoopInit, <1>1, <1>2, PTL DEF Spec

-----------------------------------------------------------------------------
(* The loop feeds itself.  A job is interrupted only by the end of its     *)
(* process, so what is counted as stalled, and the interruption that is    *)
(* not yet noticed, happened; and a match job that has added its successor *)
(* ends before anybody can take that one.                                  *)

Interrupted ==
    /\ \A f \in Flows : stalls[f] + (IF f \in Lost THEN 1 ELSE 0) <= upsets
    /\ \A w \in Workers : pc[w] = "added" => InState({"waiting", "delayed"}) # {}

LEMMA InterruptedStep ==
    ASSUME SoleWorker, TypeOK, TypeOK', Alone, Locks, Interrupted, [Next]_vars
    PROVE  Interrupted'
<1>t. /\ pc \in [Workers -> Steps] /\ upsets \in Nat /\ upsets' \in Nat
      /\ owner \in [Flows -> Workers \cup {NoWorker}] /\ jobState \in [Flows -> JobStates]
      /\ stage \in [Flows -> Stages] /\ stalls \in [Flows -> Nat] /\ stalls' \in [Flows -> Nat]
      /\ NoWorker \notin Workers
  BY DiscoveryAssumption DEF TypeOK
<1> USE DEF Lost, InState
(* No count grows, no job is newly lost, and who adds no longer, or never  *)
(* did, leaves the queue alone.                                            *)
<1>k. ASSUME \A f \in Flows : stalls'[f] <= stalls[f], Lost' \subseteq Lost,
             upsets <= upsets',
             \A w \in Workers : pc'[w] = "added" =>
                 pc[w] = "added" /\ InState({"waiting", "delayed"}) \subseteq
                                       InState({"waiting", "delayed"})'
      PROVE  Interrupted'
  BY <1>k, <1>t DEF Interrupted
<1>1. CASE GoesOn
  BY <1>1, <1>k, <1>t DEF GoesOn, Counting
<1>2. ASSUME NEW f \in Flows, DelayExpires(f) PROVE Interrupted'
  BY <1>2, <1>k, <1>t DEF DelayExpires, local
<1>3. ASSUME NEW f \in Flows, JobStalls(f) PROVE Interrupted'
  <2>1. /\ f \in Lost /\ f \notin Lost' /\ UNCHANGED <<owner, pc, upsets>>
        /\ \A g \in Flows \ {f} : UNCHANGED <<jobState[g], stalls[g]>>
        /\ stalls'[f] <= stalls[f] + 1
    BY <1>3, <1>t, SoleWorker DEF JobStalls, local
  <2>2. \A g \in Flows : stalls'[g] + (IF g \in Lost' THEN 1 ELSE 0) <= upsets'
    <3>1. stalls[f] + 1 <= upsets
      BY <2>1 DEF Interrupted
    <3>2. stalls'[f] + (IF f \in Lost' THEN 1 ELSE 0) <= upsets'
      BY <2>1, <3>1, <1>t
    <3>3. \A g \in Flows \ {f} : g \in Lost' <=> g \in Lost
      BY <2>1
    <3> QED BY <2>1, <3>2, <3>3 DEF Interrupted
  <2>3. \A w \in Workers : pc'[w] = "added" => InState({"waiting", "delayed"})' # {}
    BY <2>1, <1>t DEF Interrupted
  <2> QED BY <2>2, <2>3 DEF Interrupted
<1>4. ASSUME NEW w \in Workers, NEW f \in Flows, Take(w, f) PROVE Interrupted'
  <2>1. \A v \in Workers : pc'[v] # "added"
    BY <1>4, <1>t DEF Take, Alone, Working, Quiet, Stages
  <2>2. Lost' \subseteq Lost /\ UNCHANGED <<stalls, upsets>>
    BY <1>4, <1>t DEF Take
  <2> QED BY <2>1, <2>2, <1>k, <1>t
<1>5. ASSUME NEW w \in Workers, Ends(w) PROVE Interrupted'
  <2>1. \A v \in Workers : pc'[v] # "added"
    BY <1>5, <1>t
       DEF Ends, Finish, Alone, Working, Quiet, JobSteps, UpdateSteps, RewardedSteps, MatchSteps
  <2>2. \A f \in Flows : owner[f] = w => f \notin Lost'
    BY <1>5, <1>t DEF Ends, Finish
  <2>3. Lost' \subseteq Lost /\ upsets' = upsets /\ \A f \in Flows : stalls'[f] <= stalls[f]
    BY <1>5, <2>2, <1>t DEF Ends, Finish
  <2> QED BY <2>1, <2>3, <1>k, <1>t
<1>6. ASSUME NEW w \in Workers, CountsNone(w) PROVE Interrupted'
  BY <1>6, <1>k, <1>t DEF CountsNone
<1>7. ASSUME NEW w \in Workers, AddFlow(w) PROVE Interrupted'
  <2>1. Lost' = Lost /\ UNCHANGED <<stalls, upsets>>
    BY <1>7, <1>t DEF AddFlow
  <2>2. InState({"waiting", "delayed"})' # {}
    BY <1>7, <1>t DEF AddFlow
  <2> QED BY <2>1, <2>2 DEF Interrupted
<1>8. ASSUME NEW w \in Workers, CleanQueues(w) PROVE Interrupted'
  <2>1. \A v \in Workers : pc'[v] # "added"
    BY <1>8, <1>t DEF CleanQueues, Alone, Working, Quiet
  <2>2. Lost' \subseteq Lost /\ upsets' = upsets /\ \A f \in Flows : stalls'[f] <= stalls[f]
    BY <1>8, <1>t DEF CleanQueues
  <2> QED BY <2>1, <2>2, <1>k, <1>t
<1>9. ASSUME NEW w \in Workers, Crash(w) PROVE Interrupted'
  <2>1. UNCHANGED <<stalls, jobState>> /\ upsets' = upsets + 1
    BY <1>9 DEF Crash
  <2>2. \A f \in Flows : stalls'[f] + (IF f \in Lost' THEN 1 ELSE 0) <= upsets'
    BY <2>1, <1>t DEF Interrupted
  <2>3. \A v \in Workers : pc'[v] = "added" => pc[v] = "added"
    BY <1>9, <1>t DEF Crash
  <2> QED BY <2>1, <2>2, <2>3 DEF Interrupted
<1> QED
  BY StepKinds, <1>1, <1>2, <1>3, <1>4, <1>5, <1>6, <1>7, <1>8, <1>9

(* The step that ends the last flow.                                       *)
LEMMA LastFlow ==
    ASSUME SoleWorker, "rpc" \notin Faults, "redis" \notin Faults,
           TypeOK, TypeOK', Alone, Locks, Interrupted, [Next]_vars,
           LiveFlows # {}, LiveFlows' = {}
    PROVE  upsets > MaxStalled \/ \E w \in Workers : pc[w] = "clean" /\ pc'[w] = "nuke"
<1>t. /\ pc \in [Workers -> Steps] /\ upsets \in Nat
      /\ owner \in [Flows -> Workers \cup {NoWorker}] /\ jobState \in [Flows -> JobStates]
      /\ stage \in [Flows -> Stages] /\ stalls \in [Flows -> Nat]
  BY DEF TypeOK
<1> USE DEF LiveFlows, InState
<1>1. jobState' # jobState
  OBVIOUS
<1>2. ~GoesOn
  BY <1>1 DEF GoesOn
<1>3. \A f \in Flows : ~DelayExpires(f)
  BY <1>t DEF DelayExpires
<1>4. ASSUME NEW f \in Flows, JobStalls(f) PROVE upsets > MaxStalled
  <2>1. f \in Lost
    BY <1>4, SoleWorker DEF JobStalls, Lost
  <2>2. stalls[f] + 1 <= upsets
    BY <2>1 DEF Interrupted
  <2>3. ~(stalls[f] < MaxStalled)
    BY <1>4, <1>t DEF JobStalls
  <2> QED BY <2>2, <2>3, <1>t, DiscoveryAssumption
<1>5. \A w \in Workers, f \in Flows : ~Take(w, f)
  BY <1>t DEF Take
<1>6. ASSUME NEW w \in Workers, Ends(w) PROVE FALSE
  <2>1. PICK f \in Flows : owner[f] = w
    BY <1>6 DEF Ends, Locks
  <2>2. stage[f] = "match"
    BY <1>6, <2>1 DEF Ends, Finish
  <2>3. pc[w] \in MatchSteps
    BY <2>1, <2>2 DEF Locks, OwnerOK
  <2>4. InState({"waiting", "delayed"}) # {}
    BY <1>6, <2>3 DEF Ends, Interrupted
  <2>5. PICK g \in Flows : jobState[g] \in {"waiting", "delayed"}
    BY <2>4
  <2>6. owner[g] # w
    BY <2>5 DEF Locks, OwnerOK
  <2>7. jobState'[g] = jobState[g]
    BY <1>6, <2>6 DEF Ends, Finish
  <2> QED BY <2>5, <2>7
<1>7. \A w \in Workers : ~CountsNone(w) /\ ~Crash(w)
  BY <1>1 DEF CountsNone, Crash
<1>8. \A w \in Workers : ~AddFlow(w)
  BY <1>t DEF AddFlow
<1>9. \A w \in Workers : CleanQueues(w) => pc[w] = "clean" /\ pc'[w] = "nuke"
  BY <1>t DEF CleanQueues
<1> QED BY StepKinds, <1>2, <1>3, <1>4, <1>5, <1>6, <1>7, <1>8, <1>9

(* While the node and Redis answer, the loop ends only after more ends of  *)
(* a process than BullMQ forgives one job, or in the DO_CLEAN of a leader  *)
(* that starts and then adds the first flow itself.                        *)
THEOREM LoopFeedsItself ==
    ASSUME SoleWorker, "rpc" \notin Faults, "redis" \notin Faults
    PROVE  Spec => ChainKept
<1> DEFINE Inv == TypeOK /\ Alone /\ Locks /\ Interrupted
<1>1. Init => Inv
  BY LoopInit DEF Init, Interrupted, Lost
<1>2. Inv /\ [Next]_vars => Inv'
  BY SoleWorker, TypeStep, AloneStep, LocksStep, InterruptedStep
<1>3. Inv /\ [Next]_vars =>
        [LiveFlows # {} /\ LiveFlows' = {}
            => upsets > MaxStalled \/ \E w \in Workers : pc[w] = "clean" /\ pc'[w] = "nuke"]_vars
  BY <1>2, LastFlow
<1> QED BY <1>1, <1>2, <1>3, PTL DEF Spec, ChainKept
============================================================================
