--------------------------- MODULE FacilityProofs ---------------------------
(***************************************************************************)
(* What is proved about the Facility mode, for any number of processes,    *)
(* transactions, addresses and flows: it implements both of its            *)
(* components, its updates implement the abstract Payout, a request is     *)
(* closed only when it was paid, and the checkpoint skips none.            *)
(***************************************************************************)
EXTENDS Facility, SequenceTheorems, TLAPS

-----------------------------------------------------------------------------
(* What a step of the whole is to each component.                          *)

(* A call that fails counts once, in the part that makes it.               *)
CountsUpsets == UNCHANGED upsets \/ (upsets < MaxUpsets /\ upsets' = upsets + 1)

LEMMA SettlementCounts == U!Settlement => CountsUpsets
<1> SUFFICES ASSUME U!Settlement PROVE CountsUpsets
  OBVIOUS
<1> USE DEF CountsUpsets, U!Upset, U!Fault
<1>1. ASSUME NEW j \in U!Jobs, U!JobStalls(j) PROVE CountsUpsets
  BY <1>1 DEF U!JobStalls
<1>2. ASSUME NEW w \in Workers, U!Takes(w) PROVE CountsUpsets
  BY <1>2 DEF U!Takes, U!TakeGet, U!TakeUpdate, U!TakeRecovery, U!Starts
<1>3. ASSUME NEW w \in Workers, U!Settle(w) PROVE CountsUpsets
  BY <1>3 DEF U!Settle, U!GetCurrentRewards, U!SendUpdate, U!ReceiptArrives,
     U!RecoverUpdateAllocation, U!FinishJob
<1>4. ASSUME NEW w \in Workers, U!Faulty(w) PROVE CountsUpsets
  BY <1>4 DEF U!Faulty, U!CallFails, U!Hangs
<1> QED BY <1>1, <1>2, <1>3, <1>4 DEF U!Settlement

LEMMA LoopCounts == D!Loop => CountsUpsets /\ UNCHANGED asked
<1> SUFFICES ASSUME D!Loop PROVE CountsUpsets /\ UNCHANGED asked
  OBVIOUS
<1> USE DEF CountsUpsets, D!Upset, D!Fault, D!chain
<1>1. ASSUME NEW f \in Flows, D!DelayExpires(f) \/ D!JobStalls(f)
      PROVE  CountsUpsets /\ UNCHANGED asked
  BY <1>1 DEF D!DelayExpires, D!JobStalls
<1>2. ASSUME NEW w \in Workers, NEW f \in Flows, D!Take(w, f)
      PROVE  CountsUpsets /\ UNCHANGED asked
  BY <1>2 DEF D!Take
<1>3. ASSUME NEW w \in Workers, D!Discover(w) PROVE CountsUpsets /\ UNCHANGED asked
  BY <1>3 DEF D!Discover, D!ReadCheckpoint, D!QueryRequests, D!QueryUpdates, D!StoreEvent,
     D!FinishDiscover, D!MatchRequests, D!WriteCheckpoint, D!CountJobs, D!AddFlow, D!FinishMatch
<1>4. ASSUME NEW w \in Workers, D!Faulty(w) PROVE CountsUpsets /\ UNCHANGED asked
  BY <1>4 DEF D!Faulty, D!DiscoverFails, D!MatchFails, D!EnqueueFails
<1>5. ASSUME NEW w \in Workers, D!Bootstrap(w) PROVE CountsUpsets /\ UNCHANGED asked
  BY <1>5 DEF D!Bootstrap, D!NukeRequests, D!BootCount, D!BootAdd
<1> QED BY <1>1, <1>2, <1>3, <1>4, <1>5 DEF D!Loop

(* What the discovery does leaves the updates alone.                       *)
LEMMA UpdatesStep == [Next]_vars => [U!Next \/ U!DiscoveryUpset]_(U!vars)
<1> SUFFICES ASSUME [Next]_vars PROVE U!Next \/ U!DiscoveryUpset \/ UNCHANGED U!vars
  OBVIOUS
<1>1. ASSUME UNCHANGED settling, UNCHANGED asked, CountsUpsets
      PROVE  U!DiscoveryUpset \/ UNCHANGED U!vars
  BY <1>1 DEF settling, CountsUpsets, U!DiscoveryUpset, U!Upset, U!vars, U!money, U!events,
     U!queue, U!process
<1>2. CASE DiscoveryStep
  BY <1>1, <1>2, LoopCounts DEF DiscoveryStep
<1>3. CASE SettlementStep
  BY <1>3 DEF SettlementStep, U!Next
<1>4. CASE MineEmpty
  BY <1>1, <1>4 DEF MineEmpty, D!MineEmpty, CountsUpsets
<1>5. CASE UpdateLands \/ UpdateReverts
  BY <1>5 DEF UpdateLands, UpdateReverts, U!Next
<1>6. ASSUME NEW a \in Addr, Accrue(a) PROVE U!Next
  BY <1>6 DEF Accrue, U!Next
<1>7. ASSUME NEW t \in Tx, Request(t) \/ LiveEvent(t) PROVE U!Next
  BY <1>7 DEF Request, LiveEvent, U!Next
<1>8. ASSUME NEW w \in Workers, NEW t \in Tx, EnqueueUpdate(w, t) PROVE U!Next
  BY <1>8 DEF EnqueueUpdate, U!Next
<1>9. ASSUME NEW w \in Workers, Crash(w) PROVE U!Next
  BY <1>9 DEF Crash, U!Next
<1>10. ASSUME NEW w \in Workers, NEW leads \in BOOLEAN, Start(w, leads) PROVE U!Next
  BY <1>10 DEF Start, U!Next
<1>11. CASE UNCHANGED vars
  BY <1>1, <1>11 DEF vars, discovery, CountsUpsets
<1> QED
  BY <1>2, <1>3, <1>4, <1>5, <1>6, <1>7, <1>8, <1>9, <1>10, <1>11 DEF Next

-----------------------------------------------------------------------------
(* The updates: types, and amounts that are backed.                        *)

LEMMA UpdateConstants ==
    /\ NoWorker \notin Workers
    /\ Requester \in [Tx -> Addr]
    /\ Slots \cap U!FlowJobs = {}
    /\ NoAmount \notin Nat
    /\ MaxUpdateAllocationRetries \in Nat
    /\ U!NoData \in U!Data /\ U!NoData.amount = NoAmount
    /\ U!NoJob \in U!FlowJobs
    /\ U!NoRecovery \in U!Recovery /\ U!NoRecovery.amount = NoAmount
<1>1. U!FacilityUpdatesAssumption
  BY FacilityAssumption
<1>2. PICK t \in Tx : TRUE
  BY <1>1 DEF U!FacilityUpdatesAssumption
<1>3. Requester[t] \in Addr /\ <<t, "get">> \in U!FlowJobs
  BY <1>1 DEF U!FacilityUpdatesAssumption, U!FlowJobs
<1>4. (CHOOSE a \in Addr : TRUE) \in Addr /\ U!NoJob \in U!FlowJobs
  BY <1>3 DEF U!NoJob
<1> QED
  BY <1>1, <1>4
  DEF U!FacilityUpdatesAssumption, U!NoData, U!Data, U!NoRecovery, U!Recovery

(* A transaction nobody waits for any more is the same one, or gone.       *)
LEMMA AbandonsKeeps ==
    ASSUME NEW S, mempool \in Seq(S), NEW w \in Workers,
           \A d \in S : [d EXCEPT !.by = NoWorker] \in S
    PROVE  /\ U!Abandoned(w) \in Seq(S)
           /\ U!Abandons(w) => mempool' \in Seq(S)
<1>1. /\ Len(mempool) \in Nat /\ DOMAIN mempool = 1..Len(mempool)
      /\ \A i \in 1..Len(mempool) : mempool[i] \in S
  BY LenProperties
<1>2. U!Abandoned(w) \in [1..Len(mempool) -> S]
  BY <1>1 DEF U!Abandoned
<1>3. U!Abandoned(w) \in Seq(S)
  BY <1>1, <1>2, SeqDef
<1>4. ASSUME NEW i \in DOMAIN mempool PROVE U!Without(i) \in Seq(S)
  <2>1. SubSeq(mempool, 1, i - 1) \in Seq(S) /\ SubSeq(mempool, i + 1, Len(mempool)) \in Seq(S)
    BY <1>1, SubSeqProperties
  <2> QED BY <2>1, ConcatProperties DEF U!Without
<1> QED BY <1>3, <1>4 DEF U!Abandons

(* An update of an amount that AO has accrued.                             *)
Honest == {d \in U!Transaction : d.amount <= owed[d.addr]}

Backed(a, m) == m = NoAmount \/ m <= owed[a]

(* Nobody carries more than his address is owed: from the value a child    *)
(* read, to the job, the recovery jobs and the mempool; what is sent is an *)
(* amount, and what is read is read for the address of the request.        *)
Backing ==
    /\ \A a \in Addr : paid[a] <= owed[a]
    /\ mempool \in Seq(Honest)
    /\ \A t \in Tx : Backed(Requester[t], reads[t])
    /\ \A s \in Slots : Backed(recovery[s].addr, recovery[s].amount)
    /\ \A w \in Workers : Backed(data[w].addr, data[w].amount)

Amounts ==
    /\ \A w \in Workers : step[w] \in {"send", "wait", "failed"} => data[w].amount \in Nat
    /\ \A s \in Slots : state[s] # "none" => recovery[s].amount \in Nat
    /\ \A w \in Workers : \A t \in Tx :
          step[w] = "get" /\ job[w] = <<t, "get">> => data[w].addr = Requester[t]

LEMMA UpdatesType ==
    U!TypeOK /\ Amounts /\ [U!Next \/ U!DiscoveryUpset]_(U!vars) => U!TypeOK'
<1> SUFFICES ASSUME U!TypeOK, Amounts, U!Next \/ U!DiscoveryUpset \/ UNCHANGED U!vars
             PROVE  U!TypeOK'
  OBVIOUS
<1> USE UpdateConstants DEF U!money, U!events, U!queue, U!process, U!Jobs, U!TypeOK
<1>1. ASSUME NEW j \in U!Jobs, U!JobStalls(j) PROVE U!TypeOK'
  <2>1. state' \in [U!Jobs -> {"none", "blocked", "waiting", "active", "failed"}]
    BY <1>1 DEF U!JobStalls
  <2>2. lock' \in [U!Jobs -> Workers \cup {NoWorker}]
    BY <1>1 DEF U!JobStalls
  <2>3. repeats' \in [U!Jobs -> Nat]
    <3>1. repeats[j] + 1 \in Nat /\ repeats \in [U!Jobs -> Nat]
      OBVIOUS
    <3>2. repeats' = [repeats EXCEPT ![j] = repeats[j] + 1] \/ repeats' = [repeats EXCEPT ![j] = 0]
      BY <1>1 DEF U!JobStalls
    <3> HIDE DEF U!TypeOK, U!Jobs
    <3> QED BY <3>1, <3>2
  <2>4. recovery' \in [Slots -> U!Recovery]
    BY <1>1 DEF U!JobStalls
  <2>5. upsets' \in Nat
    BY <1>1 DEF U!JobStalls, U!Fault, U!Upset
  <2>6. UNCHANGED <<U!money, U!events, reads, U!process>>
    BY <1>1 DEF U!JobStalls
  <2> QED BY <2>1, <2>2, <2>3, <2>4, <2>5, <2>6
<1>2. ASSUME NEW w \in Workers, U!Takes(w) PROVE U!TypeOK'
  <2>1. ASSUME NEW j \in U!Jobs, NEW d \in U!Data, NEW at \in {"get", "send", "done"},
               U!Starts(w, j, d, at)
        PROVE  U!TypeOK'
    BY <2>1 DEF U!Starts
  <2>2. ASSUME NEW t \in Tx, U!TakeGet(w, t) PROVE U!TypeOK'
    BY <2>1, <2>2 DEF U!TakeGet, U!FlowJobs, U!Data
  <2>3. ASSUME NEW t \in Tx, U!TakeUpdate(w, t) PROVE U!TypeOK'
    BY <2>1, <2>3 DEF U!TakeUpdate, U!FlowJobs, U!Data
  <2>4. ASSUME NEW s \in Slots, U!TakeRecovery(w, s) PROVE U!TypeOK'
    BY <2>1, <2>4 DEF U!TakeRecovery, U!Data, U!Recovery
  <2> QED BY <1>2, <2>2, <2>3, <2>4 DEF U!Takes
<1>a. ASSUME NEW w \in Workers, UNCHANGED <<state, lock, repeats>> \/ U!Release(job[w]),
             U!Returns(w)
      PROVE  /\ state' \in [U!Jobs -> {"none", "blocked", "waiting", "active", "failed"}]
             /\ lock' \in [U!Jobs -> Workers \cup {NoWorker}]
             /\ repeats' \in [U!Jobs -> Nat]
             /\ step' \in [Workers -> {"idle", "get", "send", "wait", "failed", "done", "hung"}]
             /\ job' \in [Workers -> U!Jobs]
             /\ data' \in [Workers -> U!Data]
  <2>1. state' \in [U!Jobs -> {"none", "blocked", "waiting", "active", "failed"}]
    BY <1>a DEF U!Release
  <2>2. lock' \in [U!Jobs -> Workers \cup {NoWorker}] /\ repeats' \in [U!Jobs -> Nat]
    <3>1. lock \in [U!Jobs -> Workers \cup {NoWorker}] /\ repeats \in [U!Jobs -> Nat]
      OBVIOUS
    <3> HIDE DEF U!TypeOK, U!Jobs
    <3> QED BY <1>a, <3>1 DEF U!Release
  <2>3. step' \in [Workers -> {"idle", "get", "send", "wait", "failed", "done", "hung"}]
    BY <1>a DEF U!Returns
  <2>4. job' \in [Workers -> U!Jobs] /\ data' \in [Workers -> U!Data]
    BY <1>a DEF U!Returns
  <2> QED BY <2>1, <2>2, <2>3, <2>4
<1>3. ASSUME NEW w \in Workers, U!GetCurrentRewards(w) PROVE U!TypeOK'
  <2>1. PICK v \in Nat \cup {NoAmount} :
           /\ UNCHANGED upsets \/ U!Fault("ao")
           /\ \/ UNCHANGED <<state, lock, repeats, reads>>
              \/ /\ U!Release(job[w])
                 /\ reads' = [t \in Tx |-> IF job[w] = <<t, "get">> THEN v ELSE reads[t]]
    <3>1. U!GetAllocation(data[w].addr) \in Nat \cup {NoAmount}
      BY DEF U!GetAllocation, U!Data
    <3> HIDE DEF U!TypeOK, U!Jobs
    <3> QED BY <1>3, <3>1 DEF U!GetCurrentRewards
  <2>2. reads' \in [Tx -> Nat \cup {NoAmount}] /\ upsets' \in Nat
    <3>1. reads \in [Tx -> Nat \cup {NoAmount}] /\ upsets \in Nat
      OBVIOUS
    <3> HIDE DEF U!TypeOK, U!Jobs
    <3> QED BY <2>1, <3>1 DEF U!Fault, U!Upset
  <2>3. UNCHANGED <<state, lock, repeats>> \/ U!Release(job[w])
    BY <2>1
  <2>4. UNCHANGED <<U!money, U!events, recovery>> /\ U!Returns(w)
    BY <1>3 DEF U!GetCurrentRewards
  <2> QED BY <1>a, <2>2, <2>3, <2>4 DEF U!Returns
<1>4. ASSUME NEW w \in Workers, U!FinishJob(w) PROVE U!TypeOK'
  <2>1. UNCHANGED <<state, lock, repeats>> \/ U!Release(job[w])
    BY <1>4 DEF U!FinishJob
  <2>2. reads' \in [Tx -> Nat \cup {NoAmount}] /\ recovery' \in [Slots -> U!Recovery]
    <3>1. reads \in [Tx -> Nat \cup {NoAmount}] /\ recovery \in [Slots -> U!Recovery]
      OBVIOUS
    <3> HIDE DEF U!TypeOK, U!Jobs
    <3> QED BY <1>4, <3>1 DEF U!FinishJob
  <2>3. UNCHANGED <<U!money, U!events, upsets>> /\ U!Returns(w)
    BY <1>4 DEF U!FinishJob
  <2> QED BY <1>a, <2>1, <2>2, <2>3 DEF U!Returns
<1>5. ASSUME NEW w \in Workers, U!SendUpdate(w) PROVE U!TypeOK'
  <2>1. [addr |-> data[w].addr, amount |-> data[w].amount, by |-> w] \in U!Transaction
    BY <1>5 DEF U!SendUpdate, Amounts, U!Transaction, U!Data
  <2>2. mempool' \in Seq(U!Transaction)
    <3>1. mempool' \in {mempool, Append(mempool, [addr |-> data[w].addr,
                                                 amount |-> data[w].amount, by |-> w])}
      BY <1>5 DEF U!SendUpdate
    <3> HIDE DEF U!TypeOK
    <3>2. mempool \in Seq(U!Transaction)
      BY DEF U!TypeOK
    <3> QED BY <2>1, <3>1, <3>2, AppendProperties
  <2> QED BY <1>5, <2>2 DEF U!SendUpdate, U!Goto
<1>6. ASSUME NEW w \in Workers, U!ReceiptArrives(w) PROVE U!TypeOK'
  BY <1>6 DEF U!ReceiptArrives, U!Goto
<1>7. ASSUME NEW w \in Workers, U!RecoverUpdateAllocation(w) PROVE U!TypeOK'
  <2>1. ASSUME NEW n \in Nat, U!AddsRecovery(w, n)
        PROVE  /\ state' \in [U!Jobs -> {"none", "blocked", "waiting", "active", "failed"}]
               /\ recovery' \in [Slots -> U!Recovery]
    <3>1. PICK s \in Slots :
            /\ state' = [state EXCEPT ![s] = "waiting"]
            /\ recovery' = [recovery EXCEPT ![s] =
                   [addr |-> data[w].addr, amount |-> data[w].amount, retries |-> n]]
      BY <2>1 DEF U!AddsRecovery
    <3>2. [addr |-> data[w].addr, amount |-> data[w].amount, retries |-> n] \in U!Recovery
      BY DEF U!Recovery, U!Data
    <3> QED BY <3>1, <3>2
  <2>2. job[w] \notin U!FlowJobs /\ recovery[job[w]].retries > 1
            => recovery[job[w]].retries - 1 \in Nat
    BY DEF U!Recovery
  <2>3. /\ state' \in [U!Jobs -> {"none", "blocked", "waiting", "active", "failed"}]
        /\ recovery' \in [Slots -> U!Recovery]
    BY <1>7, <2>1, <2>2 DEF U!RecoverUpdateAllocation, U!AddLost
  <2> QED BY <1>7, <2>3 DEF U!RecoverUpdateAllocation, U!Goto
<1>8. ASSUME NEW w \in Workers, U!Faulty(w) PROVE U!TypeOK'
  <2>1. \A d \in U!Transaction : [d EXCEPT !.by = NoWorker] \in U!Transaction
    BY DEF U!Transaction
  <2>2. mempool' \in Seq(U!Transaction)
    BY <1>8, <2>1, AbandonsKeeps DEF U!Faulty, U!CallFails, U!Hangs
  <2>3. upsets' \in Nat /\ UNCHANGED <<owed, paid, U!events, U!queue, up, job, data, receipt>>
    BY <1>8 DEF U!Faulty, U!CallFails, U!Hangs, U!Fault, U!Upset
  <2>4. step' \in [Workers -> {"idle", "get", "send", "wait", "failed", "done", "hung"}]
    BY <1>8 DEF U!Faulty, U!CallFails, U!Hangs, U!Goto
  <2> QED BY <2>2, <2>3, <2>4
<1>9. ASSUME U!Lands PROVE mempool' \in Seq(U!Transaction) /\ Head(mempool) \in U!Transaction
  BY <1>9, HeadTailProperties DEF U!Lands
<1>10. CASE U!UpdateLands
  BY <1>9, <1>10 DEF U!UpdateLands, U!Lands, U!Receipt, U!Transaction
<1>11. CASE U!UpdateReverts
  BY <1>9, <1>11 DEF U!UpdateReverts, U!Lands, U!Receipt
<1>12. ASSUME NEW a \in Addr, U!Accrue(a) PROVE U!TypeOK'
  BY <1>12 DEF U!Accrue
<1>13. ASSUME NEW t \in Tx, U!Request(t) PROVE U!TypeOK'
  BY <1>13 DEF U!Request
<1>14. ASSUME NEW t \in Tx, U!EnqueueUpdateAllocation(t) PROVE U!TypeOK'
  BY <1>14 DEF U!EnqueueUpdateAllocation
<1>15. ASSUME NEW w \in Workers, U!Crash(w) PROVE U!TypeOK'
  <2>1. \A d \in U!Transaction : [d EXCEPT !.by = NoWorker] \in U!Transaction
    BY DEF U!Transaction
  <2>2. mempool' \in Seq(U!Transaction)
    BY <1>15, <2>1, AbandonsKeeps DEF U!Crash
  <2> QED BY <1>15, <2>2 DEF U!Crash, U!Upset
<1>16. ASSUME NEW w \in Workers, NEW leads \in BOOLEAN, U!Start(w, leads) PROVE U!TypeOK'
  BY <1>16 DEF U!Start
<1>17. CASE U!DiscoveryUpset
  BY <1>17 DEF U!DiscoveryUpset, U!Upset
<1>18. CASE UNCHANGED U!vars
  BY <1>18 DEF U!vars
<1> HIDE DEF U!TypeOK, U!Jobs
<1> QED
  BY <1>1, <1>2, <1>3, <1>4, <1>5, <1>6, <1>7, <1>8, <1>10, <1>11, <1>12, <1>13, <1>14, <1>15,
     <1>16, <1>17, <1>18 DEF U!Next, U!Settlement, U!Settle

LEMMA AmountsStep ==
    U!TypeOK /\ Amounts /\ [U!Next \/ U!DiscoveryUpset]_(U!vars) => Amounts'
<1> SUFFICES ASSUME U!TypeOK, Amounts, U!Next \/ U!DiscoveryUpset \/ UNCHANGED U!vars
             PROVE  Amounts'
  OBVIOUS
<1> USE UpdateConstants DEF U!money, U!events, U!queue, U!process
<1>t. /\ state \in [U!Jobs -> {"none", "blocked", "waiting", "active", "failed"}]
      /\ recovery \in [Slots -> U!Recovery] /\ data \in [Workers -> U!Data]
      /\ step \in [Workers -> {"idle", "get", "send", "wait", "failed", "done", "hung"}]
      /\ job \in [Workers -> U!Jobs]
      /\ reads \in [Tx -> Nat \cup {NoAmount}]
  BY DEF U!TypeOK
<1>s. Slots \subseteq U!Jobs
  BY DEF U!Jobs
<1>1. ASSUME NEW j \in U!Jobs, U!JobStalls(j) PROVE Amounts'
  BY <1>1, <1>t, <1>s DEF U!JobStalls, Amounts
<1>2. ASSUME NEW w \in Workers, U!Takes(w) PROVE Amounts'
  <2>1. ASSUME NEW j, NEW d, NEW at, U!Starts(w, j, d, at),
               at = "send" => d.amount \in Nat, at \notin {"wait", "failed"},
               \A t \in Tx : at = "get" /\ j = <<t, "get">> => d.addr = Requester[t]
        PROVE  Amounts'
    BY <2>1, <1>t, <1>s DEF U!Starts, Amounts
  <2>2. ASSUME NEW t \in Tx, U!TakeGet(w, t) PROVE Amounts'
    <3>1. [U!NoData EXCEPT !.addr = Requester[t]].addr = Requester[t]
      BY DEF U!Data
    <3>2. \A u \in Tx : <<t, "get">> = <<u, "get">> => u = t
      OBVIOUS
    <3> QED BY <2>1, <2>2, <3>1, <3>2 DEF U!TakeGet
  <2>3. ASSUME NEW t \in Tx, U!TakeUpdate(w, t) PROVE Amounts'
    BY <2>1, <2>3, <1>t DEF U!TakeUpdate
  <2>4. ASSUME NEW s \in Slots, U!TakeRecovery(w, s) PROVE Amounts'
    BY <2>1, <2>4, <1>t DEF U!TakeRecovery, U!Starts, Amounts
  <2> QED BY <1>2, <2>2, <2>3, <2>4 DEF U!Takes
<1>3. ASSUME NEW w \in Workers, U!GetCurrentRewards(w) PROVE Amounts'
  <2>1. UNCHANGED recovery /\ U!Returns(w) /\ (UNCHANGED state \/ U!Release(job[w]))
    BY <1>3 DEF U!GetCurrentRewards
  <2> QED BY <2>1, <1>t, <1>s DEF U!Returns, U!Release, U!FlowJobs, Amounts
<1>4. ASSUME NEW w \in Workers, U!FinishJob(w) PROVE Amounts'
  <2>1. /\ U!Returns(w)
        /\ \/ UNCHANGED <<state, recovery>>
           \/ /\ U!Release(job[w])
              /\ recovery' = [s \in Slots |-> IF s = job[w] THEN U!NoRecovery ELSE recovery[s]]
    BY <1>4 DEF U!FinishJob
  <2> QED BY <2>1, <1>t, <1>s DEF U!Returns, U!Release, U!FlowJobs, Amounts
<1>5. ASSUME NEW w \in Workers, U!SendUpdate(w) \/ U!ReceiptArrives(w) PROVE Amounts'
  BY <1>5, <1>t DEF U!SendUpdate, U!ReceiptArrives, U!Goto, Amounts
<1>6. ASSUME NEW w \in Workers, U!RecoverUpdateAllocation(w) PROVE Amounts'
  <2>1. ASSUME NEW n, U!AddsRecovery(w, n)
        PROVE  \A s \in Slots : state'[s] # "none" => recovery'[s].amount \in Nat
    BY <1>6, <2>1, <1>t, <1>s DEF U!AddsRecovery, U!RecoverUpdateAllocation, Amounts
  <2>2. \A s \in Slots : state'[s] # "none" => recovery'[s].amount \in Nat
    BY <1>6, <2>1 DEF U!RecoverUpdateAllocation, U!AddLost, Amounts
  <2> QED BY <1>6, <2>2, <1>t DEF U!RecoverUpdateAllocation, U!Goto, Amounts
<1>7. ASSUME NEW w \in Workers, U!Faulty(w) PROVE Amounts'
  BY <1>7, <1>t DEF U!Faulty, U!CallFails, U!Hangs, U!Goto, Amounts
<1>8. CASE U!UpdateLands \/ U!UpdateReverts
  BY <1>8 DEF U!UpdateLands, U!UpdateReverts, U!Lands, Amounts
<1>9. ASSUME NEW a \in Addr, U!Accrue(a) PROVE Amounts'
  BY <1>9 DEF U!Accrue, Amounts
<1>10. ASSUME NEW t \in Tx, U!Request(t) PROVE Amounts'
  BY <1>10 DEF U!Request, Amounts
<1>11. ASSUME NEW t \in Tx, U!EnqueueUpdateAllocation(t) PROVE Amounts'
  BY <1>11, <1>t, <1>s DEF U!EnqueueUpdateAllocation, U!FlowOf, U!FlowJobs, Amounts
<1>12. ASSUME NEW w \in Workers, U!Crash(w) PROVE Amounts'
  BY <1>12, <1>t DEF U!Crash, Amounts
<1>13. ASSUME NEW w \in Workers, NEW leads \in BOOLEAN, U!Start(w, leads) PROVE Amounts'
  BY <1>13, <1>s DEF U!Start, Amounts
<1>14. CASE U!DiscoveryUpset
  BY <1>14 DEF U!DiscoveryUpset, Amounts
<1>15. CASE UNCHANGED U!vars
  BY <1>15 DEF U!vars, Amounts
<1> QED
  BY <1>1, <1>2, <1>3, <1>4, <1>5, <1>6, <1>7, <1>8, <1>9, <1>10, <1>11, <1>12, <1>13, <1>14,
     <1>15 DEF U!Next, U!Settlement, U!Settle

LEMMA BackingStep ==
    U!TypeOK /\ Amounts /\ Backing /\ [U!Next \/ U!DiscoveryUpset]_(U!vars) => Backing'
<1> SUFFICES ASSUME U!TypeOK, Amounts, Backing, U!Next \/ U!DiscoveryUpset \/ UNCHANGED U!vars
             PROVE  Backing'
  OBVIOUS
<1> USE UpdateConstants DEF U!money, U!events, U!queue, U!process
<1>t. /\ recovery \in [Slots -> U!Recovery] /\ data \in [Workers -> U!Data]
      /\ reads \in [Tx -> Nat \cup {NoAmount}]
      /\ owed \in [Addr -> Nat] /\ paid \in [Addr -> Nat]
  BY DEF U!TypeOK
<1>h. UNCHANGED owed => Honest' = Honest
  BY DEF Honest
<1>m. UNCHANGED <<owed, mempool>> => mempool' \in Seq(Honest)'
  BY <1>h DEF Backing
<1>e. \A d \in Honest : [d EXCEPT !.by = NoWorker] \in Honest
  BY DEF Honest, U!Transaction
<1>1. ASSUME NEW j \in U!Jobs, U!JobStalls(j) PROVE Backing'
  BY <1>1, <1>t, <1>m DEF U!JobStalls, Backing, Backed
<1>2. ASSUME NEW w \in Workers, U!Takes(w) PROVE Backing'
  <2>1. ASSUME NEW j, NEW d, NEW at, U!Starts(w, j, d, at), Backed(d.addr, d.amount)
        PROVE  Backing'
    BY <2>1, <1>t, <1>m DEF U!Starts, Backing, Backed
  <2>2. ASSUME NEW t \in Tx, U!TakeGet(w, t) PROVE Backing'
    <3>1. Backed(Requester[t], [U!NoData EXCEPT !.addr = Requester[t]].amount)
      BY DEF Backed, U!Data
    <3>2. [U!NoData EXCEPT !.addr = Requester[t]].addr = Requester[t]
      BY DEF U!Data
    <3> QED BY <2>1, <2>2, <3>1, <3>2 DEF U!TakeGet
  <2>3. ASSUME NEW t \in Tx, U!TakeUpdate(w, t) PROVE Backing'
    BY <2>1, <2>3 DEF U!TakeUpdate, Backing
  <2>4. ASSUME NEW s \in Slots, U!TakeRecovery(w, s) PROVE Backing'
    BY <2>1, <2>4 DEF U!TakeRecovery, Backing
  <2> QED BY <1>2, <2>2, <2>3, <2>4 DEF U!Takes
<1>a. ASSUME NEW w \in Workers, U!Returns(w)
      PROVE  data' = [data EXCEPT ![w] = U!NoData]
  BY <1>a DEF U!Returns
<1>3. ASSUME NEW w \in Workers, U!GetCurrentRewards(w) PROVE Backing'
  <2>1. UNCHANGED <<owed, paid, mempool, recovery>> /\ U!Returns(w)
    BY <1>3 DEF U!GetCurrentRewards
  <2>2. PICK v \in {U!GetAllocation(data[w].addr), NoAmount} :
           UNCHANGED reads \/ reads' = [t \in Tx |-> IF job[w] = <<t, "get">> THEN v ELSE reads[t]]
    BY <1>3 DEF U!GetCurrentRewards
  <2>3. \A t \in Tx : job[w] = <<t, "get">> /\ step[w] = "get" => Backed(Requester[t], v)
    BY <2>2, <1>t DEF U!GetAllocation, Amounts, Backed, U!Data
  <2> QED BY <2>1, <2>2, <2>3, <1>3, <1>a, <1>t, <1>m DEF U!GetCurrentRewards, Backing, Backed
<1>4. ASSUME NEW w \in Workers, U!FinishJob(w) PROVE Backing'
  <2>1. /\ \A t \in Tx : reads'[t] \in {reads[t], NoAmount}
        /\ \A s \in Slots : recovery'[s] \in {recovery[s], U!NoRecovery}
    BY <1>4, <1>t DEF U!FinishJob
  <2>2. UNCHANGED <<owed, paid, mempool>> /\ U!Returns(w)
    BY <1>4 DEF U!FinishJob
  <2>3. (\A t \in Tx : Backed(Requester[t], reads[t]))'
    BY <2>1, <2>2 DEF Backing, Backed
  <2>4. (\A s \in Slots : Backed(recovery[s].addr, recovery[s].amount))'
    BY <2>1, <2>2 DEF Backing, Backed
  <2>5. (\A v \in Workers : Backed(data[v].addr, data[v].amount))'
    BY <2>2, <1>a, <1>t DEF Backing, Backed
  <2> QED BY <2>2, <2>3, <2>4, <2>5, <1>m DEF Backing
<1>5. ASSUME NEW w \in Workers, U!SendUpdate(w) PROVE Backing'
  <2> DEFINE d == [addr |-> data[w].addr, amount |-> data[w].amount, by |-> w]
  <2>1. d \in Honest
    BY <1>5, <1>t DEF U!SendUpdate, Amounts, Backing, Backed, Honest, U!Transaction, U!Data
  <2>2. mempool' \in {mempool, Append(mempool, d)}
    BY <1>5 DEF U!SendUpdate
  <2>3. mempool' \in Seq(Honest)
    BY <2>1, <2>2, AppendProperties DEF Backing
  <2> QED BY <1>5, <2>3, <1>h DEF U!SendUpdate, Backing, Backed
<1>6. ASSUME NEW w \in Workers, U!ReceiptArrives(w) PROVE Backing'
  BY <1>6, <1>m DEF U!ReceiptArrives, Backing, Backed
<1>7. ASSUME NEW w \in Workers, U!RecoverUpdateAllocation(w) PROVE Backing'
  <2>1. UNCHANGED <<owed, paid, mempool, reads, data>>
    BY <1>7 DEF U!RecoverUpdateAllocation
  <2>2. UNCHANGED recovery \/ \E n : U!AddsRecovery(w, n)
    BY <1>7 DEF U!RecoverUpdateAllocation, U!AddLost
  <2>3. ASSUME NEW n, U!AddsRecovery(w, n), NEW x \in Slots
        PROVE  \/ recovery'[x] = recovery[x]
               \/ recovery'[x].addr = data[w].addr /\ recovery'[x].amount = data[w].amount
    <3>1. PICK s \in Slots, rec \in {[addr |-> data[w].addr, amount |-> data[w].amount,
                                      retries |-> n]} :
             recovery' = [recovery EXCEPT ![s] = rec]
      BY <2>3 DEF U!AddsRecovery
    <3>2. recovery'[x] \in {recovery[x], rec}
      BY <3>1, <1>t
    <3> QED BY <3>2
  <2>4. \A x \in Slots :
           \/ recovery'[x] = recovery[x]
           \/ recovery'[x].addr = data[w].addr /\ recovery'[x].amount = data[w].amount
    BY <2>2, <2>3
  <2> QED BY <2>1, <2>4, <1>m DEF Backing, Backed
<1>8. ASSUME NEW w \in Workers, U!Faulty(w) PROVE Backing'
  <2>1. mempool' \in Seq(Honest)
    BY <1>8, <1>e, AbandonsKeeps DEF U!Faulty, U!CallFails, U!Hangs, Backing
  <2> QED BY <1>8, <2>1, <1>h DEF U!Faulty, U!CallFails, U!Hangs, Backing, Backed
<1>9. ASSUME U!Lands
      PROVE  /\ mempool' \in Seq(Honest) /\ Head(mempool) \in Honest
             /\ UNCHANGED <<owed, reads, recovery, data>>
  BY <1>9, HeadTailProperties DEF U!Lands, Backing
<1>10. CASE U!UpdateLands
  <2>1. U!Lands
    BY <1>10 DEF U!UpdateLands
  <2>2. \A a \in Addr : paid'[a] <= owed[a]
    BY <1>10, <2>1, <1>9, <1>t DEF U!UpdateLands, Honest, Backing
  <2> QED BY <2>1, <2>2, <1>9, <1>h DEF Backing, Backed
<1>11. CASE U!UpdateReverts
  BY <1>11, <1>9, <1>h DEF U!UpdateReverts, Backing, Backed
<1>12. ASSUME NEW a \in Addr, U!Accrue(a) PROVE Backing'
  <2>1. /\ \A b \in Addr : owed[b] <= owed'[b] /\ owed'[b] \in Nat
        /\ UNCHANGED <<paid, mempool, reads, recovery, data>>
    BY <1>12, <1>t DEF U!Accrue
  <2>2. Honest \subseteq Honest'
    BY <2>1, <1>t DEF Honest, U!Transaction
  <2>3. mempool' \in Seq(Honest)'
    BY <2>1, <2>2, SeqMonotonic DEF Backing
  <2>4. \A b \in Addr : \A m \in Nat \cup {NoAmount} : Backed(b, m) => Backed(b, m)'
    BY <2>1, <1>t DEF Backed
  <2>5. /\ \A s \in Slots : recovery[s].addr \in Addr /\ recovery[s].amount \in Nat \cup {NoAmount}
        /\ \A w \in Workers : data[w].addr \in Addr /\ data[w].amount \in Nat \cup {NoAmount}
        /\ \A t \in Tx : Requester[t] \in Addr /\ reads[t] \in Nat \cup {NoAmount}
    BY <1>t DEF U!Recovery, U!Data
  <2>6. \A b \in Addr : paid'[b] <= owed'[b]
    BY <2>1, <1>t DEF Backing
  <2> QED BY <2>1, <2>3, <2>4, <2>5, <2>6 DEF Backing
<1>13. ASSUME NEW t \in Tx, U!Request(t) PROVE Backing'
  BY <1>13, <1>m DEF U!Request, Backing, Backed
<1>14. ASSUME NEW t \in Tx, U!EnqueueUpdateAllocation(t) PROVE Backing'
  BY <1>14, <1>m DEF U!EnqueueUpdateAllocation, Backing, Backed
<1>15. ASSUME NEW w \in Workers, U!Crash(w) PROVE Backing'
  <2>1. mempool' \in Seq(Honest)
    BY <1>15, <1>e, AbandonsKeeps DEF U!Crash, Backing
  <2> QED BY <1>15, <2>1, <1>h, <1>t DEF U!Crash, Backing, Backed
<1>16. ASSUME NEW w \in Workers, NEW leads \in BOOLEAN, U!Start(w, leads) PROVE Backing'
  BY <1>16, <1>m DEF U!Start, Backing, Backed
<1>17. CASE U!DiscoveryUpset
  BY <1>17, <1>m DEF U!DiscoveryUpset, Backing, Backed
<1>18. CASE UNCHANGED U!vars
  BY <1>18, <1>m DEF U!vars, Backing, Backed
<1> QED
  BY <1>1, <1>2, <1>3, <1>4, <1>5, <1>6, <1>7, <1>8, <1>10, <1>11, <1>12, <1>13, <1>14, <1>15,
     <1>16, <1>17, <1>18 DEF U!Next, U!Settlement, U!Settle

UpdatesInv == U!TypeOK /\ Amounts /\ Backing

LEMMA UpdatesInvariant == Spec => []UpdatesInv
<1>1. Init => UpdatesInv
  <2> SUFFICES ASSUME Init PROVE UpdatesInv
    OBVIOUS
  <2> USE UpdateConstants
  <2>1. U!InitBesideRequests
    BY DEF Init
  <2>2. U!TypeOK
    BY <2>1 DEF U!TypeOK, U!InitBesideRequests, U!Jobs
  <2>3. Amounts
    BY <2>1 DEF Amounts, U!InitBesideRequests, U!Jobs
  <2>4. Backing
    BY <2>1 DEF Backing, Backed, U!InitBesideRequests
  <2> QED BY <2>2, <2>3, <2>4 DEF UpdatesInv
<1>2. UpdatesInv /\ [Next]_vars => UpdatesInv'
  BY UpdatesStep, UpdatesType, AmountsStep, BackingStep DEF UpdatesInv
<1> QED BY <1>1, <1>2, PTL DEF Spec

(* A step accrues a reward, pays what is backed, or does neither.          *)
LEMMA PaysStep ==
    UpdatesInv /\ UpdatesInv' /\ [Next]_vars
        => [U!Allocation!PayoutNext]_<<[a \in Addr |-> [k \in {"relay"} |-> owed[a]]],
                                       [a \in Addr |-> [k \in {"relay"} |-> paid[a]]]>>
<1> DEFINE total(m) == [a \in Addr |-> [k \in {"relay"} |-> m[a]]]
<1> SUFFICES ASSUME UpdatesInv, UpdatesInv', U!Next \/ U!DiscoveryUpset \/ UNCHANGED U!vars
             PROVE  U!Allocation!PayoutNext \/ UNCHANGED <<total(owed), total(paid)>>
  BY UpdatesStep
<1> USE DEF U!money
<1>t. /\ owed \in [Addr -> Nat] /\ paid \in [Addr -> Nat]
      /\ owed' \in [Addr -> Nat] /\ paid' \in [Addr -> Nat]
      /\ \A a \in Addr : paid'[a] <= owed'[a]
  BY DEF UpdatesInv, U!TypeOK, Backing
<1>1. ASSUME NEW a \in Addr, U!Accrue(a) PROVE U!Allocation!PayoutNext
  <2>1. U!Allocation!Accrues(a)
    BY <1>1, <1>t DEF U!Accrue, U!Allocation!Accrues, U!Allocation!Totals
  <2> QED BY <2>1 DEF U!Allocation!PayoutNext
<1>2. CASE U!UpdateLands
  <2> DEFINE d == Head(mempool)
  <2>1. d \in Honest
    BY <1>2, HeadTailProperties DEF U!UpdateLands, U!Lands, UpdatesInv, Backing
  <2>2. d.addr \in Addr /\ d.amount \in Nat
    BY <2>1 DEF Honest, U!Transaction
  <2>3. d.amount > paid[d.addr] /\ paid' = [paid EXCEPT ![d.addr] = d.amount] /\ UNCHANGED owed
    BY <1>2 DEF U!UpdateLands, U!Lands, U!Pays
  <2> HIDE DEF d
  <2>4. U!Allocation!Pays(d.addr)
    BY <1>t, <2>2, <2>3 DEF U!Allocation!Pays, U!Allocation!Totals
  <2> QED BY <2>2, <2>4 DEF U!Allocation!PayoutNext
<1>3. ASSUME U!Settlement PROVE UNCHANGED <<owed, paid>>
  BY <1>3
  DEF U!Settlement, U!JobStalls, U!Takes, U!TakeGet, U!TakeUpdate, U!TakeRecovery, U!Starts,
      U!Settle, U!GetCurrentRewards, U!SendUpdate, U!ReceiptArrives,
      U!RecoverUpdateAllocation, U!FinishJob, U!Faulty, U!CallFails, U!Hangs
<1>4. ASSUME \/ U!UpdateReverts
             \/ \E t \in Tx : U!Request(t) \/ U!EnqueueUpdateAllocation(t)
             \/ \E w \in Workers : U!Crash(w) \/ \E leads \in BOOLEAN : U!Start(w, leads)
             \/ U!DiscoveryUpset \/ UNCHANGED U!vars
      PROVE  UNCHANGED <<owed, paid>>
  BY <1>4
  DEF U!UpdateReverts, U!Lands, U!Request, U!EnqueueUpdateAllocation, U!Crash, U!Start,
      U!DiscoveryUpset, U!vars
<1> QED BY <1>1, <1>2, <1>3, <1>4 DEF U!Next

(* The updates implement Payout, whatever fails, crashes, comes late or is *)
(* done twice: nobody is paid more than AO accrued, and nothing is taken   *)
(* back.                                                                   *)
THEOREM ImplementsPayout == Spec => PaysOut
<1>1. Init => U!Allocation!PayoutInit
  BY DEF Init, U!InitBesideRequests, U!Allocation!PayoutInit, U!Allocation!Totals
<1> QED
  BY <1>1, UpdatesInvariant, PaysStep, PTL DEF Spec, PaysOut, U!PaysOut, U!Allocation!PayoutSpec

-----------------------------------------------------------------------------
(* The discovery: types.                                                   *)

(* What the updates do changes the queue the discovery looks into.         *)
LEMMA DiscoveryStepOf == UpdatesInv /\ [Next]_vars => [D!Next]_(D!vars)
<1> SUFFICES ASSUME UpdatesInv, [Next]_vars PROVE D!Next \/ UNCHANGED D!vars
  OBVIOUS
<1>1. ASSUME UNCHANGED discovery, CountsUpsets
      PROVE  D!Next
  <2>1. D!QueueChanges
    BY <1>1 DEF discovery, CountsUpsets, D!QueueChanges, D!Upset, D!chain, D!mongo, D!redis,
       D!local, D!work
  <2> QED BY <2>1 DEF D!Next
<1>2. CASE DiscoveryStep
  BY <1>2 DEF DiscoveryStep, D!Next
<1>3. CASE SettlementStep
  BY <1>1, <1>3, SettlementCounts DEF SettlementStep
<1>4. CASE MineEmpty
  BY <1>4 DEF MineEmpty, D!Next
<1>5. CASE UpdateLands
  <2>1. mempool # <<>> /\ D!MineUpdate(Head(mempool).addr)
    BY <1>5 DEF UpdateLands, U!UpdateLands, U!Lands
  <2>2. Head(mempool) \in Honest
    BY <2>1, HeadTailProperties DEF UpdatesInv, Backing
  <2>3. Head(mempool).addr \in Addr
    BY <2>2 DEF Honest, U!Transaction
  <2> QED BY <2>1, <2>3 DEF D!Next
<1>6. CASE UpdateReverts
  BY <1>1, <1>6 DEF UpdateReverts, U!UpdateReverts, U!Lands, CountsUpsets
<1>7. ASSUME NEW a \in Addr, Accrue(a) PROVE D!Next
  BY <1>1, <1>7 DEF Accrue, U!Accrue, CountsUpsets
<1>8. ASSUME NEW t \in Tx, LiveEvent(t) PROVE D!Next
  BY <1>1, <1>8 DEF LiveEvent, U!EnqueueUpdateAllocation, CountsUpsets
<1>9. ASSUME NEW t \in Tx, Request(t) PROVE D!Next
  BY <1>9 DEF Request, D!Next
<1>10. ASSUME NEW w \in Workers, NEW t \in Tx, EnqueueUpdate(w, t) PROVE D!Next
  BY <1>10 DEF EnqueueUpdate, D!Next
<1>11. ASSUME NEW w \in Workers, Crash(w) PROVE D!Next
  BY <1>11 DEF Crash, D!Next
<1>12. ASSUME NEW w \in Workers, NEW leads \in BOOLEAN, Start(w, leads) PROVE D!Next
  BY <1>12 DEF Start, D!Next
<1>13. CASE UNCHANGED vars
  BY <1>1, <1>13 DEF vars, CountsUpsets
<1> QED
  BY <1>2, <1>3, <1>4, <1>5, <1>6, <1>7, <1>8, <1>9, <1>10, <1>11, <1>12, <1>13 DEF Next

LEMMA DiscoveryConstants ==
    /\ NoWorker \notin Workers
    /\ Requester \in [Tx -> Addr]
    /\ Deployed \in Nat /\ Deployed # 0
    /\ MaxRange \in Nat /\ MaxLag \in Nat
    /\ D!NoRange \in D!Range
BY FacilityAssumption DEF D!FacilityDiscoveryAssumption, D!NoRange, D!Range

(* The flows in Redis, and what the processes have at hand.                *)
RedisType ==
    /\ stage \in [Flows -> D!Stages]
    /\ jobState \in [Flows -> D!JobStates]
    /\ currentBlock \in [Flows -> Nat]
    /\ range \in [Flows -> D!Range]
    /\ stalls \in [Flows -> Nat]
    /\ owner \in [Flows -> Workers \cup {NoWorker}]

WorkType ==
    /\ pc \in [Workers -> D!Steps]
    /\ span \in [Workers -> D!Range]
    /\ todo \in [Workers -> SUBSET (Tx \cup D!Update)]
    /\ unmatched \in [Workers -> SUBSET Tx]

LEMMA FinishType ==
    ASSUME RedisType, WorkType, NEW w \in Workers, NEW value \in D!Range, D!Finish(w, value)
    PROVE  RedisType' /\ WorkType'
<1> USE DiscoveryConstants
<1>1. stage' \in [Flows -> D!Stages] /\ jobState' \in [Flows -> D!JobStates]
  BY DEF RedisType, D!Finish, D!Stages, D!JobStates
<1>2. range' \in [Flows -> D!Range] /\ stalls' \in [Flows -> Nat]
  BY DEF RedisType, D!Finish
<1>3. owner' \in [Flows -> Workers \cup {NoWorker}] /\ currentBlock' \in [Flows -> Nat]
  BY DEF RedisType, D!Finish
<1>4. pc' \in [Workers -> D!Steps] /\ span' \in [Workers -> D!Range]
  BY DEF WorkType, D!Finish, D!Steps
<1>5. todo' \in [Workers -> SUBSET (Tx \cup D!Update)] /\ unmatched' \in [Workers -> SUBSET Tx]
  BY DEF WorkType, D!Finish
<1> QED BY <1>1, <1>2, <1>3, <1>4, <1>5 DEF RedisType, WorkType

LEMMA AddsType ==
    ASSUME RedisType, head \in Nat, NEW delay \in D!JobStates, D!Adds(delay)
    PROVE  RedisType'
<1>1. PICK f \in Flows, lag \in 0..MaxLag :
        /\ lag < head
        /\ stage' = [stage EXCEPT ![f] = "requesting"]
        /\ jobState' = [jobState EXCEPT ![f] = delay]
        /\ currentBlock' = [currentBlock EXCEPT ![f] = head - lag]
        /\ range' = [range EXCEPT ![f] = D!NoRange]
        /\ UNCHANGED <<stalls, owner>>
  BY DEF D!Adds, D!InState
<1>2. head - lag \in Nat /\ "requesting" \in D!Stages
  BY <1>1, DiscoveryConstants DEF D!Stages
<1> QED BY <1>1, <1>2, DiscoveryConstants DEF RedisType

LEMMA CappedType ==
    ASSUME NEW s \in D!Range
    PROVE  D!Capped(s) \in D!Range /\ D!Capped(s).from = s.from /\ D!Capped(s).to <= s.to
BY DiscoveryConstants DEF D!Range, D!Capped

(* What a process is about to store is of the kind its job looks for.      *)
Fitting ==
    \A w \in Workers :
        /\ pc[w] = "store" => \A t \in todo[w] : t \in Tx /\ asked[t] # 0
        /\ pc[w] = "storeUpdates" => todo[w] \subseteq updates

DiscoveryType ==
    /\ head \in Nat
    /\ asked \in [Tx -> Nat]
    /\ updates \subseteq D!Update
    /\ stored \subseteq Tx
    /\ fulfilled \subseteq Tx
    /\ storedUpdates \subseteq D!Update
    /\ checkpoint \in Nat
    /\ boot \in [Workers -> D!Boots]
    /\ upsets \in Nat

LEMMA DiscoverTypes ==
    D!TypeOK /\ Fitting /\ [D!Next]_(D!vars) => D!TypeOK'
<1> SUFFICES ASSUME RedisType, WorkType, DiscoveryType, Fitting, D!Next \/ UNCHANGED D!vars
             PROVE  RedisType' /\ WorkType' /\ DiscoveryType'
  BY DEF D!TypeOK, RedisType, WorkType, DiscoveryType
<1> DEFINE Types == RedisType' /\ WorkType' /\ DiscoveryType'
<1> USE DiscoveryConstants DEF D!chain, D!mongo, D!redis, D!local, D!work
<1>d. ASSUME UNCHANGED <<D!chain, D!mongo, boot>>, UNCHANGED upsets \/ D!Upset
      PROVE  DiscoveryType'
  BY <1>d DEF DiscoveryType, D!Upset
<1>r. ASSUME UNCHANGED D!redis PROVE RedisType'
  BY <1>r DEF RedisType
<1>w. ASSUME UNCHANGED D!work PROVE WorkType'
  BY <1>w DEF WorkType
<1>1. ASSUME NEW f \in Flows, D!DelayExpires(f) PROVE Types
  BY <1>1, <1>d, <1>w DEF D!DelayExpires, RedisType, D!JobStates
<1>2. ASSUME NEW f \in Flows, D!JobStalls(f) PROVE Types
  BY <1>2, <1>d, <1>w DEF D!JobStalls, D!Fault, RedisType, D!JobStates, D!Stages
<1>3. ASSUME NEW w \in Workers, NEW f \in Flows, D!Take(w, f) PROVE Types
  BY <1>3, <1>d DEF D!Take, RedisType, WorkType, D!JobStates, D!Stages, D!Steps, D!Range
<1>4. ASSUME NEW w \in Workers, D!ReadCheckpoint(w) PROVE Types
  BY <1>4, <1>r DEF D!ReadCheckpoint, WorkType, DiscoveryType, D!Steps, D!Range
<1>5. ASSUME NEW w \in Workers, D!QueryRequests(w) PROVE Types
  BY <1>5, <1>d, <1>r, CappedType DEF D!QueryRequests, WorkType, D!Steps
<1>6. ASSUME NEW w \in Workers, D!QueryUpdates(w) PROVE Types
  BY <1>6, <1>d, <1>r DEF D!QueryUpdates, WorkType, DiscoveryType, D!Steps
<1>7. ASSUME NEW w \in Workers, D!StoreEvent(w) PROVE Types
  BY <1>7, <1>r DEF D!StoreEvent, D!Fault, D!Upset, WorkType, DiscoveryType, Fitting
<1>8. ASSUME NEW w \in Workers, \/ D!FinishDiscover(w) \/ D!DiscoverFails(w) \/ D!EnqueueFails(w)
                                \/ D!FinishMatch(w)
      PROVE  Types
  <2>1. PICK value \in D!Range : D!Finish(w, value)
    BY <1>8 DEF D!FinishDiscover, D!DiscoverFails, D!EnqueueFails, D!FinishMatch, WorkType
  <2>2. UNCHANGED <<D!chain, D!mongo, boot>> /\ (UNCHANGED upsets \/ D!Upset)
    BY <1>8 DEF D!FinishDiscover, D!DiscoverFails, D!EnqueueFails, D!FinishMatch, D!Fault
  <2> QED BY <2>1, <2>2, <1>d, FinishType
<1>9. ASSUME NEW w \in Workers, D!CountJobs(w) PROVE Types
  <2>1. CASE D!Finish(w, D!NoRange)
    BY <1>9, <2>1, <1>d, FinishType DEF D!CountJobs
  <2>2. CASE ~D!Finish(w, D!NoRange)
    BY <1>9, <2>2, <1>d, <1>r DEF D!CountJobs, WorkType, D!Steps
  <2> QED BY <2>1, <2>2
<1>10. ASSUME NEW w \in Workers, D!AddFlow(w) PROVE Types
  <2>1. RedisType'
    BY <1>10, AddsType DEF D!AddFlow, D!JobStates, DiscoveryType
  <2> QED BY <1>10, <2>1, <1>d DEF D!AddFlow, WorkType, D!Steps
<1>11. ASSUME NEW w \in Workers, D!MatchRequests(w) PROVE Types
  BY <1>11, <1>r DEF D!MatchRequests, D!Matches, D!Unfulfilled, WorkType, DiscoveryType, D!Steps
<1>12. ASSUME NEW w \in Workers, NEW t \in Tx, D!EnqueueUpdate(w, t) PROVE Types
  BY <1>12, <1>d, <1>r DEF D!EnqueueUpdate, WorkType
<1>13. ASSUME NEW w \in Workers, D!WriteCheckpoint(w) PROVE Types
  BY <1>13, <1>r DEF D!WriteCheckpoint, WorkType, DiscoveryType, D!Steps, D!Range
<1>14. ASSUME NEW w \in Workers, D!MatchFails(w) PROVE Types
  BY <1>14, <1>r DEF D!MatchFails, D!Unfulfilled, D!Fault, D!Upset, WorkType, DiscoveryType, D!Steps
<1>15. ASSUME NEW w \in Workers, D!Bootstrap(w) PROVE Types
  <2>1. RedisType'
    BY <1>15, <1>r, AddsType
    DEF D!Bootstrap, D!NukeRequests, D!BootCount, D!BootAdd, D!JobStates, DiscoveryType
  <2>2. WorkType'
    BY <1>15, <1>w DEF D!Bootstrap, D!NukeRequests, D!BootCount, D!BootAdd
  <2>3. DiscoveryType'
    BY <1>15 DEF D!Bootstrap, D!NukeRequests, D!BootCount, D!BootAdd, D!Fault, D!Upset,
       DiscoveryType, D!Boots
  <2> QED BY <2>1, <2>2, <2>3
<1>16. ASSUME NEW w \in Workers, NEW leads \in BOOLEAN, D!Start(w, leads) PROVE Types
  BY <1>16, <1>w DEF D!Start, RedisType, DiscoveryType, D!JobStates, D!Boots
<1>17. ASSUME NEW w \in Workers, D!Crash(w) PROVE Types
  BY <1>17 DEF D!Crash, D!Upset, RedisType, WorkType, DiscoveryType, D!Boots, D!Steps
<1>18. ASSUME NEW t \in Tx, D!Request(t) PROVE Types
  BY <1>18, <1>r, <1>w DEF D!Request, DiscoveryType
<1>19. ASSUME NEW a \in Addr, D!MineUpdate(a) PROVE Types
  BY <1>19, <1>r, <1>w DEF D!MineUpdate, DiscoveryType, D!Update
<1>20. CASE D!MineEmpty
  BY <1>20, <1>r, <1>w DEF D!MineEmpty, DiscoveryType
<1>21. CASE D!QueueChanges
  BY <1>21, <1>d, <1>r, <1>w DEF D!QueueChanges
<1>22. CASE UNCHANGED D!vars
  BY <1>22, <1>d, <1>r, <1>w DEF D!vars
<1> QED
  BY <1>1, <1>2, <1>3, <1>4, <1>5, <1>6, <1>7, <1>8, <1>9, <1>10, <1>11, <1>12, <1>13, <1>14,
     <1>15, <1>16, <1>17, <1>18, <1>19, <1>20, <1>21, <1>22
  DEF D!Next, D!Loop, D!Discover, D!Faulty

-----------------------------------------------------------------------------
(* A request that is closed was paid.                                      *)

(* What the database holds has happened on the chain, and what is closed   *)
(* was updated later.                                                      *)
Observed ==
    /\ Deployed <= head
    /\ \A t \in Tx : asked[t] <= head /\ (asked[t] # 0 => asked[t] > Deployed)
    /\ \A e \in updates : e.block <= head
    /\ storedUpdates \subseteq updates
    /\ \A t \in stored : asked[t] # 0
    /\ \A t \in fulfilled :
          asked[t] # 0 /\ \E e \in updates : e.addr = Requester[t] /\ e.block > asked[t]
    /\ Fitting

LEMMA ObservedStep == D!TypeOK /\ Observed /\ [D!Next]_(D!vars) => Observed'
<1> SUFFICES ASSUME D!TypeOK, Observed, D!Next \/ UNCHANGED D!vars
             PROVE  Observed'
  OBVIOUS
<1> USE DiscoveryConstants DEF D!chain, D!mongo, D!redis, D!local, D!work
<1>t. /\ head \in Nat /\ asked \in [Tx -> Nat] /\ updates \subseteq D!Update
      /\ stored \subseteq Tx /\ fulfilled \subseteq Tx
      /\ pc \in [Workers -> D!Steps] /\ todo \in [Workers -> SUBSET (Tx \cup D!Update)]
  BY DEF D!TypeOK
(* Nothing of it changes.                                                  *)
<1>a. ASSUME UNCHANGED <<head, asked, updates, stored, fulfilled, storedUpdates>>, Fitting'
      PROVE  Observed'
  BY <1>a DEF Observed
<1>b. ASSUME UNCHANGED <<asked, updates>>,
             \A w \in Workers : pc'[w] \notin {"store", "storeUpdates"}
                                  \/ (pc'[w] = pc[w] /\ todo'[w] \subseteq todo[w])
      PROVE  Fitting'
  BY <1>b DEF Observed, Fitting
<1>f. ASSUME NEW w \in Workers, NEW value, D!Finish(w, value), UNCHANGED <<D!chain, D!mongo>>
      PROVE  Observed'
  BY <1>f, <1>a, <1>b, <1>t DEF D!Finish
<1>1. ASSUME NEW f \in Flows, D!DelayExpires(f) \/ D!JobStalls(f) PROVE Observed'
  BY <1>1, <1>a, <1>b DEF D!DelayExpires, D!JobStalls
<1>2. ASSUME NEW w \in Workers, NEW f \in Flows, D!Take(w, f) PROVE Observed'
  BY <1>2, <1>a, <1>b, <1>t DEF D!Take, D!TypeOK, D!Stages
<1>3. ASSUME NEW w \in Workers, D!ReadCheckpoint(w) PROVE Observed'
  BY <1>3, <1>a, <1>b, <1>t DEF D!ReadCheckpoint
<1>4. ASSUME NEW w \in Workers, D!QueryRequests(w) \/ D!QueryUpdates(w) PROVE Observed'
  BY <1>4, <1>a, <1>t DEF D!QueryRequests, D!QueryUpdates, Observed, Fitting
<1>5. ASSUME NEW w \in Workers, D!StoreEvent(w) PROVE Observed'
  <2>1. stored' \subseteq stored \cup {t \in Tx : asked[t] # 0} /\ storedUpdates' \subseteq updates
    BY <1>5 DEF D!StoreEvent, Observed, Fitting
  <2>2. Fitting'
    BY <1>5, <1>b, <1>t DEF D!StoreEvent
  <2> QED BY <1>5, <2>1, <2>2 DEF D!StoreEvent, Observed
<1>6. ASSUME NEW w \in Workers, \/ D!FinishDiscover(w) \/ D!DiscoverFails(w) \/ D!EnqueueFails(w)
                                \/ D!FinishMatch(w)
      PROVE  Observed'
  BY <1>6, <1>f DEF D!FinishDiscover, D!DiscoverFails, D!EnqueueFails, D!FinishMatch
<1>7. ASSUME NEW w \in Workers, D!CountJobs(w) PROVE Observed'
  <2>1. CASE D!Finish(w, D!NoRange)
    BY <1>7, <2>1, <1>f DEF D!CountJobs
  <2>2. CASE ~D!Finish(w, D!NoRange)
    BY <1>7, <2>2, <1>a, <1>b, <1>t DEF D!CountJobs
  <2> QED BY <2>1, <2>2
<1>8. ASSUME NEW w \in Workers, D!AddFlow(w) PROVE Observed'
  BY <1>8, <1>a, <1>b, <1>t DEF D!AddFlow
<1>9. ASSUME NEW w \in Workers, D!MatchRequests(w) \/ D!MatchFails(w) PROVE Observed'
  <2>1. \A t \in fulfilled' : t \in fulfilled \/ (t \in stored /\ D!UpdatedLater(t))
    BY <1>9 DEF D!MatchRequests, D!Matches, D!MatchFails, D!Unfulfilled
  <2>2. Fitting'
    BY <1>9, <1>b, <1>t DEF D!MatchRequests, D!MatchFails
  <2>3. UNCHANGED <<head, asked, updates, stored, storedUpdates>>
    BY <1>9 DEF D!MatchRequests, D!MatchFails
  <2> QED BY <2>1, <2>2, <2>3 DEF D!UpdatedLater, Observed
<1>10. ASSUME NEW w \in Workers, NEW t \in Tx, D!EnqueueUpdate(w, t) PROVE Observed'
  BY <1>10, <1>a, <1>b DEF D!EnqueueUpdate
<1>11. ASSUME NEW w \in Workers, D!WriteCheckpoint(w) PROVE Observed'
  BY <1>11, <1>a, <1>b, <1>t DEF D!WriteCheckpoint
<1>12. ASSUME NEW w \in Workers, D!Bootstrap(w) PROVE Observed'
  <2>1. /\ UNCHANGED <<head, asked, updates, storedUpdates, pc, todo>>
        /\ stored' \subseteq stored /\ fulfilled' \subseteq fulfilled
    BY <1>12 DEF D!Bootstrap, D!NukeRequests, D!BootCount, D!BootAdd
  <2> QED BY <2>1, <1>b DEF Observed
<1>13. ASSUME NEW w \in Workers, NEW leads \in BOOLEAN, D!Start(w, leads) PROVE Observed'
  BY <1>13, <1>a, <1>b DEF D!Start
<1>14. ASSUME NEW w \in Workers, D!Crash(w) PROVE Observed'
  BY <1>14, <1>a, <1>b, <1>t DEF D!Crash
<1>15. ASSUME NEW t \in Tx, D!Request(t) PROVE Observed'
  <2>1. \A u \in Tx : asked[u] # 0 => asked'[u] = asked[u]
    BY <1>15, <1>t DEF D!Request
  <2>2. Fitting'
    BY <1>15, <2>1 DEF D!Request, Observed, Fitting
  <2>3. Deployed <= head'
           /\ \A u \in Tx : asked'[u] <= head' /\ (asked'[u] # 0 => asked'[u] > Deployed)
    BY <1>15, <1>t DEF D!Request, Observed
  <2>4. \A e \in updates : e.block <= head'
    BY <1>15, <1>t DEF D!Request, Observed, D!Update
  <2> QED BY <1>15, <1>t, <2>1, <2>2, <2>3, <2>4 DEF D!Request, Observed
<1>16. ASSUME NEW a \in Addr, D!MineUpdate(a) PROVE Observed'
  <2>1. Deployed <= head' /\ \A u \in Tx : asked[u] <= head'
    BY <1>16, <1>t DEF D!MineUpdate, Observed
  <2>2. \A e \in updates' : e.block <= head'
    BY <1>16, <1>t DEF D!MineUpdate, Observed, D!Update
  <2>3. /\ updates \subseteq updates'
        /\ UNCHANGED <<asked, stored, fulfilled, storedUpdates, pc, todo>>
    BY <1>16 DEF D!MineUpdate
  <2>4. Fitting'
    BY <2>3 DEF Observed, Fitting
  <2> QED BY <2>1, <2>2, <2>3, <2>4 DEF Observed
<1>17. CASE D!MineEmpty
  <2>1. Deployed <= head' /\ \A u \in Tx : asked[u] <= head'
    BY <1>17, <1>t DEF D!MineEmpty, Observed
  <2>2. \A e \in updates : e.block <= head'
    BY <1>17, <1>t DEF D!MineEmpty, Observed, D!Update
  <2> QED BY <1>17, <1>b, <2>1, <2>2 DEF D!MineEmpty, Observed
<1>18. CASE D!QueueChanges \/ UNCHANGED D!vars
  BY <1>18, <1>a, <1>b DEF D!QueueChanges, D!vars
<1> QED
  BY <1>1, <1>2, <1>3, <1>4, <1>5, <1>6, <1>7, <1>8, <1>9, <1>10, <1>11, <1>12, <1>13, <1>14,
     <1>15, <1>16, <1>17, <1>18
  DEF D!Next, D!Loop, D!Discover, D!Faulty

(* An update on the chain has paid all that had asked before.              *)
Settled ==
    \A e \in updates : \A t \in Tx :
        asked[t] # 0 /\ e.addr = Requester[t] /\ e.block > asked[t] => t \notin unpaid

LEMMA SettledStep ==
    UpdatesInv /\ D!TypeOK /\ Observed /\ Settled /\ [Next]_vars => Settled'
<1> SUFFICES ASSUME UpdatesInv, D!TypeOK, Observed, Settled, [Next]_vars
             PROVE  Settled'
  OBVIOUS
<1>t. head \in Nat /\ asked \in [Tx -> Nat] /\ updates \subseteq D!Update
  BY DEF D!TypeOK
<1>1. ASSUME NEW t \in Tx, Request(t) PROVE Settled'
  <2>1. /\ asked' = [asked EXCEPT ![t] = head + 1] /\ asked[t] = 0
        /\ unpaid' = unpaid \cup {t} /\ UNCHANGED updates
    BY <1>1 DEF Request, D!Request, U!Request
  <2>2. \A e \in updates : ~(e.block > head + 1)
    BY <1>t DEF Observed, D!Update
  <2> QED BY <1>t, <2>1, <2>2 DEF Settled
<1>2. CASE UpdateLands
  <2> DEFINE a == Head(mempool).addr
  <2>1. /\ updates' = updates \cup {[addr |-> a, block |-> head + 1]}
        /\ unpaid' = {t \in unpaid : Requester[t] # a} /\ UNCHANGED asked
    BY <1>2 DEF UpdateLands, U!UpdateLands, D!MineUpdate
  <2> QED BY <2>1 DEF Settled
<1>3. ASSUME UNCHANGED <<asked, updates, unpaid>> PROVE Settled'
  BY <1>3 DEF Settled
<1>4. ASSUME ~UpdateLands, ~\E t \in Tx : Request(t) PROVE UNCHANGED <<asked, updates, unpaid>>
  <2>1. CASE DiscoveryStep
    <3>1. UNCHANGED D!chain
      BY <2>1
      DEF DiscoveryStep, D!Loop, D!DelayExpires, D!JobStalls, D!Take, D!Discover, D!ReadCheckpoint,
          D!QueryRequests, D!QueryUpdates, D!StoreEvent, D!FinishDiscover, D!MatchRequests,
          D!WriteCheckpoint, D!CountJobs, D!AddFlow, D!FinishMatch, D!Faulty, D!DiscoverFails,
          D!MatchFails, D!EnqueueFails, D!Bootstrap, D!NukeRequests, D!BootCount, D!BootAdd
    <3> QED BY <2>1, <3>1 DEF DiscoveryStep, settling, D!chain
  <2>2. CASE SettlementStep
    <3>1. UNCHANGED U!events
      BY <2>2
      DEF SettlementStep, U!Settlement, U!JobStalls, U!Takes, U!TakeGet, U!TakeUpdate,
          U!TakeRecovery, U!Starts, U!Settle, U!GetCurrentRewards, U!SendUpdate, U!ReceiptArrives,
          U!RecoverUpdateAllocation, U!FinishJob, U!Faulty, U!CallFails, U!Hangs
    <3> QED BY <2>2, <3>1 DEF SettlementStep, discovery, U!events
  <2>3. CASE MineEmpty \/ UpdateReverts
    BY <2>3 DEF MineEmpty, D!MineEmpty, settling, UpdateReverts, U!UpdateReverts, discovery
  <2>4. ASSUME NEW a \in Addr, Accrue(a) PROVE UNCHANGED <<asked, updates, unpaid>>
    BY <2>4 DEF Accrue, U!Accrue, U!events, discovery
  <2>5. ASSUME NEW t \in Tx, LiveEvent(t) PROVE UNCHANGED <<asked, updates, unpaid>>
    BY <2>5 DEF LiveEvent, U!EnqueueUpdateAllocation, U!events, discovery
  <2>6. ASSUME NEW w \in Workers, NEW t \in Tx, EnqueueUpdate(w, t)
        PROVE  UNCHANGED <<asked, updates, unpaid>>
    BY <2>6 DEF EnqueueUpdate, U!EnqueueUpdateAllocation, D!EnqueueUpdate, U!events, D!chain
  <2>7. ASSUME NEW w \in Workers, Crash(w) PROVE UNCHANGED <<asked, updates, unpaid>>
    BY <2>7 DEF Crash, U!Crash, D!Crash, U!events, D!chain
  <2>8. ASSUME NEW w \in Workers, NEW leads \in BOOLEAN, Start(w, leads)
        PROVE  UNCHANGED <<asked, updates, unpaid>>
    BY <2>8 DEF Start, U!Start, D!Start, U!events, D!chain
  <2>9. CASE UNCHANGED vars
    BY <2>9 DEF vars, discovery, settling
  <2> QED BY <1>4, <2>1, <2>2, <2>3, <2>4, <2>5, <2>6, <2>7, <2>8, <2>9 DEF Next
<1> QED BY <1>1, <1>2, <1>3, <1>4

DiscoveryInv == D!TypeOK /\ Observed /\ Settled

LEMMA DiscoveryInvariant == Spec => []DiscoveryInv
<1>1. Init => DiscoveryInv
  <2> SUFFICES ASSUME Init PROVE DiscoveryInv
    OBVIOUS
  <2> USE DiscoveryConstants DEF Init, D!InitBesideQueue
  <2>1. D!TypeOK
    BY DEF D!TypeOK, D!Stages, D!JobStates, D!Steps, D!Boots
  <2>2. Observed
    BY DEF Observed, Fitting
  <2>3. Settled
    BY DEF Settled
  <2> QED BY <2>1, <2>2, <2>3 DEF DiscoveryInv
<1>2. UpdatesInv /\ DiscoveryInv /\ [Next]_vars => DiscoveryInv'
  BY DiscoveryStepOf, DiscoverTypes, ObservedStep, SettledStep DEF DiscoveryInv, Observed
<1> QED BY <1>1, <1>2, UpdatesInvariant, PTL DEF Spec

(* The whole implements each of its components.                            *)
THEOREM ImplementsUpdates == Spec => U!Spec
<1>1. Init => U!Init
  BY DEF Init, U!Init, D!InitBesideQueue
<1> QED BY <1>1, UpdatesStep, PTL DEF Spec, U!Spec

(* The discovery's part of it, likewise.                                   *)
THEOREM ImplementsDiscovery == Spec => D!Spec
<1>1. Init => D!Init
  BY DEF Init, D!Init, U!InitBesideRequests, U!Jobs, U!FlowJobs
<1> QED BY <1>1, DiscoveryStepOf, UpdatesInvariant, PTL DEF Spec, D!Spec

(* Every state variable keeps its type, in both components.                *)
THEOREM TypeCorrect == Spec => []TypeOK
<1>1. UpdatesInv /\ DiscoveryInv => TypeOK
  BY DEF UpdatesInv, DiscoveryInv, TypeOK
<1> QED BY <1>1, UpdatesInvariant, DiscoveryInvariant, PTL

(* matchDiscoveredFacilitatorEvents closes a request only when an update   *)
(* that was mined later paid its address, whatever fails meanwhile and     *)
(* however far behind the nodes are.                                       *)
THEOREM ClosedWasPaid == Spec => []ClosedMeansPaid
<1>1. DiscoveryInv => ClosedMeansPaid
  BY DEF DiscoveryInv, D!TypeOK, Observed, Settled, ClosedMeansPaid
<1> QED BY <1>1, DiscoveryInvariant, PTL

-----------------------------------------------------------------------------
(* The checkpoint skips no request.                                        *)

(* Nodes at most a block behind the head, no store that fails silently,    *)
(* and a database that is not nuked.                                       *)
Careful == MaxLag <= 1 /\ "create" \notin Faults /\ DoDbNuke = FALSE

(* All requests before a block are in the database.                        *)
KnownBefore(b) == b <= head /\ \A t \in Tx : asked[t] # 0 /\ asked[t] < b => t \in stored

(* Whatever block is on its way to the checkpoint, in what a job returned  *)
(* or a process works on: the requests before it are stored, save those a  *)
(* loop has yet to store.                                                  *)
Discovered ==
    /\ KnownBefore(checkpoint)
    /\ \A f \in Flows : currentBlock[f] <= head /\ KnownBefore(range[f].to)
    /\ \A w \in Workers :
          /\ pc[w] = "checkpoint" => span[w].to <= head
          /\ pc[w] = "query" => KnownBefore(span[w].from) /\ span[w].to <= head
          /\ pc[w] = "store" =>
                /\ span[w].to <= head
                /\ \A t \in Tx : asked[t] # 0 /\ asked[t] < span[w].to
                                    => t \in stored \cup todo[w]
          /\ pc[w] \in {"queryUpdates", "storeUpdates", "match", "enqueue"} => KnownBefore(span[w].to)

LEMMA DiscoveredStep ==
    ASSUME Careful
    PROVE  D!TypeOK /\ Observed /\ Discovered /\ [D!Next]_(D!vars) => Discovered'
<1> SUFFICES ASSUME D!TypeOK, Observed, Discovered, D!Next \/ UNCHANGED D!vars
             PROVE  Discovered'
  OBVIOUS
<1> USE DiscoveryConstants, Careful DEF Careful, D!chain, D!mongo, D!redis, D!local, D!work
<1>t. /\ head \in Nat /\ asked \in [Tx -> Nat] /\ stored \subseteq Tx /\ checkpoint \in Nat
      /\ pc \in [Workers -> D!Steps] /\ todo \in [Workers -> SUBSET (Tx \cup D!Update)]
      /\ span \in [Workers -> D!Range] /\ range \in [Flows -> D!Range]
      /\ stage \in [Flows -> D!Stages] /\ currentBlock \in [Flows -> Nat]
      /\ owner \in [Flows -> Workers \cup {NoWorker}]
  BY DEF D!TypeOK
<1>n. KnownBefore(D!NoRange.to) /\ 0 <= head
  BY <1>t DEF KnownBefore, D!NoRange
<1> DEFINE Redis == \A f \in Flows : currentBlock[f] <= head /\ KnownBefore(range[f].to)
           Carried(w) ==
             /\ pc[w] = "checkpoint" => span[w].to <= head
             /\ pc[w] = "query" => KnownBefore(span[w].from) /\ span[w].to <= head
             /\ pc[w] = "store" =>
                  /\ span[w].to <= head
                  /\ \A t \in Tx : asked[t] # 0 /\ asked[t] < span[w].to
                                      => t \in stored \cup todo[w]
             /\ pc[w] \in {"queryUpdates", "storeUpdates", "match", "enqueue"}
                  => KnownBefore(span[w].to)
(* Known blocks stay known, while chain and database grow.                 *)
<1>k. ASSUME UNCHANGED <<head, asked>>, stored \subseteq stored'
      PROVE  \A b \in Nat : KnownBefore(b) => KnownBefore(b)'
  BY <1>k DEF KnownBefore
<1>c. UNCHANGED <<head, asked, stored, checkpoint>> => KnownBefore(checkpoint)'
  BY DEF Discovered, KnownBefore
<1>r. UNCHANGED <<head, asked, stored, currentBlock, range>> => Redis'
  BY DEF Discovered, KnownBefore
<1>w. ASSUME NEW w \in Workers, UNCHANGED <<head, asked>>, stored \subseteq stored',
             UNCHANGED <<pc[w], span[w], todo[w]>>
      PROVE  Carried(w)'
  BY <1>k, <1>w, <1>t DEF Discovered, D!Range
<1>i. ASSUME NEW w \in Workers, pc'[w] \in {"idle", "count", "add", "added"} PROVE Carried(w)'
  BY <1>i
<1>d. KnownBefore(checkpoint)' /\ Redis' /\ (\A w \in Workers : Carried(w)') => Discovered'
  BY DEF Discovered
<1> HIDE DEF Carried, Redis
<1>f. ASSUME NEW w \in Workers, NEW value \in D!Range, D!Finish(w, value), KnownBefore(value.to),
             UNCHANGED <<D!chain, D!mongo>>
      PROVE  Discovered'
  <2>1. \A f \in Flows : /\ range'[f] \in {range[f], value}
                         /\ currentBlock'[f] \in {currentBlock[f], 0}
    BY <1>f, <1>t DEF D!Finish
  <2>2. Redis'
    BY <1>f, <2>1, <1>t, <1>k, <1>n DEF Discovered, Redis, D!Range
  <2>3. \A v \in Workers : v # w => UNCHANGED <<pc[v], span[v], todo[v]>>
    BY <1>f, <1>t DEF D!Finish
  <2>4. pc'[w] = "idle"
    BY <1>f, <1>t DEF D!Finish
  <2> QED BY <1>f, <2>2, <2>3, <2>4, <1>c, <1>w, <1>i, <1>d
<1>a. ASSUME NEW delay, D!Adds(delay), UNCHANGED <<D!chain, D!mongo>> PROVE Redis'
  <2>1. \A f \in Flows : /\ range'[f] \in {range[f], D!NoRange}
                         /\ (currentBlock'[f] = currentBlock[f] \/ currentBlock'[f] <= head)
    BY <1>a, <1>t DEF D!Adds, D!InState
  <2> QED BY <1>a, <2>1, <1>t, <1>k, <1>n DEF Discovered, Redis, D!Range
<1>1. ASSUME NEW f \in Flows, D!DelayExpires(f) PROVE Discovered'
  BY <1>1, <1>c, <1>r, <1>w, <1>d DEF D!DelayExpires
<1>2. ASSUME NEW f \in Flows, D!JobStalls(f) PROVE Discovered'
  <2>1. \A g \in Flows : /\ range'[g] \in {range[g], D!NoRange}
                         /\ currentBlock'[g] \in {currentBlock[g], 0}
    BY <1>2, <1>t DEF D!JobStalls
  <2>2. UNCHANGED <<D!chain, D!mongo, D!work>>
    BY <1>2 DEF D!JobStalls
  <2>3. Redis'
    BY <2>1, <2>2, <1>t, <1>k, <1>n DEF Discovered, Redis, D!Range
  <2> QED BY <2>2, <2>3, <1>c, <1>w, <1>d
<1>3. ASSUME NEW w \in Workers, NEW f \in Flows, D!Take(w, f) PROVE Discovered'
  <2>1. UNCHANGED <<D!chain, D!mongo, currentBlock, range>>
    BY <1>3 DEF D!Take
  <2>2. \A v \in Workers : v # w => UNCHANGED <<pc[v], span[v], todo[v]>>
    BY <1>3, <1>t DEF D!Take
  <2>3. \/ pc'[w] = "checkpoint" /\ span'[w].to = currentBlock[f]
        \/ pc'[w] \in {"queryUpdates", "match"} /\ span'[w] = range[f]
    BY <1>3, <1>t DEF D!Take, D!Stages
  <2>4. currentBlock[f] <= head /\ KnownBefore(range[f].to) /\ range[f].to \in Nat
    BY <1>t DEF Discovered, D!Range
  <2>5. Carried(w)'
    BY <2>1, <2>3, <2>4, <1>k DEF Carried
  <2> QED BY <2>1, <2>2, <2>5, <1>c, <1>r, <1>w, <1>d
<1>4. ASSUME NEW w \in Workers, D!ReadCheckpoint(w) PROVE Discovered'
  <2>1. UNCHANGED <<D!chain, stored, D!redis, todo>>
    BY <1>4 DEF D!ReadCheckpoint
  <2>2. \A v \in Workers : v # w => UNCHANGED <<pc[v], span[v], todo[v]>>
    BY <1>4, <1>t DEF D!ReadCheckpoint
  <2>3. checkpoint' \in Nat /\ KnownBefore(checkpoint')
    <3>1. KnownBefore(Deployed)
      BY <1>t DEF Observed, KnownBefore
    <3>2. checkpoint' \in {Deployed, checkpoint} /\ KnownBefore(checkpoint)
      BY <1>4 DEF D!ReadCheckpoint, Discovered
    <3> QED BY <3>1, <3>2, <1>t
  <2>4. pc'[w] = "query" /\ span'[w].from = checkpoint' /\ span'[w].to = span[w].to
    BY <1>4, <1>t DEF D!ReadCheckpoint, D!Range
  <2>5. KnownBefore(checkpoint)'
    BY <2>1, <2>3 DEF KnownBefore
  <2>6. Carried(w)'
    BY <1>4, <2>1, <2>4, <2>5 DEF Carried, KnownBefore, D!ReadCheckpoint, Discovered
  <2> QED BY <2>1, <2>2, <2>5, <2>6, <1>r, <1>w, <1>d
<1>5. ASSUME NEW w \in Workers, D!QueryRequests(w) PROVE Discovered'
  <2>1. UNCHANGED <<D!chain, D!mongo, D!redis>>
    BY <1>5 DEF D!QueryRequests
  <2>2. \A v \in Workers : v # w => UNCHANGED <<pc[v], span[v], todo[v]>>
    BY <1>5, <1>t DEF D!QueryRequests
  <2> DEFINE s == D!Capped(span[w])
  <2>3. /\ pc'[w] = "store" /\ span'[w] = s
        /\ \E lag \in 0..MaxLag :
              todo'[w] = {t \in Tx : asked[t] # 0 /\ D!Within(asked[t], s, lag)}
    BY <1>5, <1>t DEF D!QueryRequests
  <2>4. s \in D!Range /\ s.from = span[w].from /\ s.to <= span[w].to
    BY <1>t, CappedType
  <2> HIDE DEF s
  <2>5. KnownBefore(span[w].from) /\ s.to <= head
    BY <1>5, <1>t, <2>4 DEF D!QueryRequests, Discovered, D!Range
  <2>6. \A t \in Tx : asked[t] # 0 /\ asked[t] < s.to => t \in stored \cup todo'[w]
    BY <2>3, <2>4, <2>5, <1>t DEF KnownBefore, D!Within, D!Range, Observed
  <2>7. Carried(w)'
    BY <2>1, <2>3, <2>5, <2>6 DEF Carried
  <2> QED BY <2>1, <2>2, <2>7, <1>c, <1>r, <1>w, <1>d
<1>6. ASSUME NEW w \in Workers, D!QueryUpdates(w) PROVE Discovered'
  <2>1. UNCHANGED <<D!chain, D!mongo, D!redis, span>>
    BY <1>6 DEF D!QueryUpdates
  <2>2. \A v \in Workers : v # w => UNCHANGED <<pc[v], span[v], todo[v]>>
    BY <1>6, <1>t DEF D!QueryUpdates
  <2>3. pc'[w] = "storeUpdates" /\ KnownBefore(span[w].to)
    BY <1>6, <1>t DEF D!QueryUpdates, Discovered
  <2>4. Carried(w)'
    BY <2>1, <2>3 DEF Carried, KnownBefore
  <2> QED BY <2>1, <2>2, <2>4, <1>c, <1>r, <1>w, <1>d
<1>7. ASSUME NEW w \in Workers, D!StoreEvent(w) PROVE Discovered'
  <2>1. UNCHANGED <<D!chain, checkpoint, D!redis, pc, span>> /\ stored \subseteq stored'
    BY <1>7 DEF D!StoreEvent
  <2>2. \A v \in Workers : v # w => UNCHANGED <<pc[v], span[v], todo[v]>>
    BY <1>7, <1>t DEF D!StoreEvent
  <2>3. pc[w] = "store" => \A e \in todo[w] : e \in stored' \/ e \in todo'[w]
    BY <1>7, <1>t DEF D!StoreEvent, D!Fault
  <2>4. Carried(w)'
    BY <1>7, <2>1, <2>3, <1>k, <1>t DEF Carried, Discovered, D!StoreEvent, D!Range
  <2>5. Redis' /\ KnownBefore(checkpoint)'
    BY <2>1, <1>k, <1>t DEF Redis, Discovered, D!Range
  <2> QED BY <2>1, <2>2, <2>4, <2>5, <1>w, <1>d
<1>8. ASSUME NEW w \in Workers, D!FinishDiscover(w) PROVE Discovered'
  <2>1. KnownBefore(span[w].to) /\ span[w] \in D!Range
    BY <1>8, <1>t DEF D!FinishDiscover, Discovered, KnownBefore
  <2> QED BY <1>8, <2>1, <1>f DEF D!FinishDiscover
<1>9. ASSUME NEW w \in Workers, D!DiscoverFails(w) \/ D!EnqueueFails(w) \/ D!FinishMatch(w)
      PROVE  Discovered'
  BY <1>9, <1>f, <1>n DEF D!DiscoverFails, D!EnqueueFails, D!FinishMatch
<1>10. ASSUME NEW w \in Workers, \/ D!CountJobs(w) /\ ~D!Finish(w, D!NoRange)
                                 \/ D!MatchFails(w)
       PROVE  Discovered'
  <2>1. UNCHANGED <<D!chain, stored, checkpoint, D!redis, todo, span>>
    BY <1>10 DEF D!CountJobs, D!MatchFails
  <2>2. \A v \in Workers : v # w => UNCHANGED <<pc[v], span[v], todo[v]>>
    BY <1>10, <1>t DEF D!CountJobs, D!MatchFails
  <2>3. pc'[w] \in {"add", "count"}
    BY <1>10, <1>t DEF D!CountJobs, D!MatchFails
  <2> QED BY <2>1, <2>2, <2>3, <1>c, <1>r, <1>w, <1>i, <1>d
<1>11. ASSUME NEW w \in Workers, D!CountJobs(w) PROVE Discovered'
  <2>1. CASE D!Finish(w, D!NoRange)
    BY <1>11, <2>1, <1>f, <1>n DEF D!CountJobs
  <2> QED BY <1>10, <1>11, <2>1
<1>12. ASSUME NEW w \in Workers, D!AddFlow(w) PROVE Discovered'
  <2>1. Redis' /\ UNCHANGED <<D!chain, D!mongo>>
    BY <1>12, <1>a DEF D!AddFlow
  <2>2. \A v \in Workers : v # w => UNCHANGED <<pc[v], span[v], todo[v]>>
    BY <1>12, <1>t DEF D!AddFlow
  <2>3. pc'[w] = "added"
    BY <1>12, <1>t DEF D!AddFlow
  <2> QED BY <2>1, <2>2, <2>3, <1>c, <1>w, <1>i, <1>d
<1>13. ASSUME NEW w \in Workers, D!MatchRequests(w) PROVE Discovered'
  <2>1. UNCHANGED <<D!chain, stored, checkpoint, D!redis, todo, span>>
    BY <1>13 DEF D!MatchRequests
  <2>2. \A v \in Workers : v # w => UNCHANGED <<pc[v], span[v], todo[v]>>
    BY <1>13, <1>t DEF D!MatchRequests
  <2>3. pc'[w] = "enqueue" /\ KnownBefore(span[w].to)
    BY <1>13, <1>t DEF D!MatchRequests, Discovered
  <2>4. Carried(w)'
    BY <2>1, <2>3 DEF Carried, KnownBefore
  <2> QED BY <2>1, <2>2, <2>4, <1>c, <1>r, <1>w, <1>d
<1>14. ASSUME NEW w \in Workers, NEW t \in Tx, D!EnqueueUpdate(w, t) PROVE Discovered'
  BY <1>14, <1>c, <1>r, <1>w, <1>d DEF D!EnqueueUpdate
<1>15. ASSUME NEW w \in Workers, D!WriteCheckpoint(w) PROVE Discovered'
  <2>1. UNCHANGED <<D!chain, stored, D!redis, todo, span>>
    BY <1>15 DEF D!WriteCheckpoint
  <2>2. \A v \in Workers : v # w => UNCHANGED <<pc[v], span[v], todo[v]>>
    BY <1>15, <1>t DEF D!WriteCheckpoint
  <2>3. pc'[w] = "count" /\ checkpoint' = span[w].to /\ KnownBefore(span[w].to) /\ span[w].to \in Nat
    BY <1>15, <1>t DEF D!WriteCheckpoint, Discovered, D!Range
  <2>4. KnownBefore(checkpoint)'
    BY <2>1, <2>3, <1>t DEF KnownBefore
  <2> QED BY <2>1, <2>2, <2>3, <2>4, <1>r, <1>w, <1>i, <1>d
<1>16. ASSUME NEW w \in Workers, D!Bootstrap(w) PROVE Discovered'
  <2>1. UNCHANGED <<D!chain, D!mongo, D!work>>
    BY <1>16 DEF D!Bootstrap, D!NukeRequests, D!BootCount, D!BootAdd
  <2>2. UNCHANGED D!redis \/ D!Adds("waiting")
    BY <1>16 DEF D!Bootstrap, D!NukeRequests, D!BootCount, D!BootAdd
  <2>3. Redis'
    BY <2>1, <2>2, <1>a, <1>r
  <2> QED BY <2>1, <2>3, <1>c, <1>w, <1>d
<1>17. ASSUME NEW w \in Workers, NEW leads \in BOOLEAN, D!Start(w, leads) PROVE Discovered'
  BY <1>17, <1>c, <1>r, <1>w, <1>d DEF D!Start
<1>18. ASSUME NEW w \in Workers, D!Crash(w) PROVE Discovered'
  <2>1. UNCHANGED <<D!chain, D!mongo, currentBlock, range>>
    BY <1>18 DEF D!Crash
  <2>2. \A v \in Workers : v # w => UNCHANGED <<pc[v], span[v], todo[v]>>
    BY <1>18, <1>t DEF D!Crash
  <2>3. pc'[w] = "idle"
    BY <1>18, <1>t DEF D!Crash
  <2> QED BY <2>1, <2>2, <2>3, <1>c, <1>r, <1>w, <1>i, <1>d
(* A request comes in a block beyond every block that is known.            *)
<1>19. ASSUME head' = head + 1,
              \/ UNCHANGED asked
              \/ \E t \in Tx : asked' = [asked EXCEPT ![t] = head + 1],
              UNCHANGED <<D!mongo, D!redis, D!work>>
       PROVE  Discovered'
  <2>1. \A t \in Tx : \A b \in Nat :
           b <= head /\ asked'[t] # 0 /\ asked'[t] <= b => asked[t] = asked'[t]
    BY <1>19, <1>t
  <2>2. \A b \in Nat : KnownBefore(b) => KnownBefore(b)'
    BY <1>19, <2>1, <1>t DEF KnownBefore
  <2>3. KnownBefore(checkpoint)' /\ Redis'
    BY <1>19, <2>2, <1>t DEF Discovered, Redis, D!Range
  <2>4. \A w \in Workers : Carried(w)'
    BY <1>19, <2>1, <2>2, <1>t DEF Discovered, Carried, D!Range
  <2> QED BY <2>3, <2>4, <1>d
<1>20. ASSUME \/ D!MineEmpty \/ (\E t \in Tx : D!Request(t)) \/ (\E a \in Addr : D!MineUpdate(a))
       PROVE  Discovered'
  BY <1>19, <1>20 DEF D!MineEmpty, D!Request, D!MineUpdate
<1>21. CASE D!QueueChanges \/ UNCHANGED D!vars
  BY <1>21, <1>c, <1>r, <1>w, <1>d DEF D!QueueChanges, D!vars
<1> QED
  BY <1>1, <1>2, <1>3, <1>4, <1>5, <1>6, <1>7, <1>8, <1>9, <1>10, <1>11, <1>12, <1>13, <1>14,
     <1>15, <1>16, <1>17, <1>18, <1>20, <1>21
  DEF D!Next, D!Loop, D!Discover, D!Faulty

(* setLastSafeCompleteBlockNumber, which overwrites the checkpoint without *)
(* reading it, never passes a request that is not stored, even while       *)
(* several processes run flows of their own.                               *)
THEOREM NothingSkipped == Careful => (Spec => []NoRequestSkipped)
<1> SUFFICES ASSUME Careful PROVE Spec => []NoRequestSkipped
  OBVIOUS
<1>1. Init => Discovered
  BY DiscoveryConstants DEF Init, D!InitBesideQueue, Discovered, KnownBefore, D!NoRange
<1>2. UpdatesInv /\ DiscoveryInv /\ Discovered /\ [Next]_vars => Discovered'
  BY DiscoveredStep, DiscoveryStepOf DEF DiscoveryInv
<1>3. Discovered => NoRequestSkipped
  BY DEF Discovered, KnownBefore, NoRequestSkipped, D!NoRequestSkipped
<1> QED BY <1>1, <1>2, <1>3, UpdatesInvariant, DiscoveryInvariant, PTL DEF Spec


-----------------------------------------------------------------------------
(* The loop feeds itself.  A flow that is no job's successor any more and  *)
(* has none is the only one that may vanish quietly; the lock of a job     *)
(* tells which process works on it, and a job has stalled no more often    *)
(* than something went wrong.                                              *)

RequestingSteps == {"checkpoint", "query", "store"}
AllocationSteps == {"queryUpdates", "storeUpdates"}
MatchSteps      == {"match", "enqueue", "count", "add", "added"}
JobSteps        == RequestingSteps \cup AllocationSteps \cup MatchSteps

OwnerOK(f) ==
    \A w \in Workers : owner[f] = w =>
        /\ jobState[f] = "active"
        /\ \/ stage[f] = "requesting" /\ pc[w] \in RequestingSteps
           \/ stage[f] = "allocation" /\ pc[w] \in AllocationSteps
           \/ stage[f] = "match" /\ pc[w] \in MatchSteps

Lost == {f \in Flows : jobState[f] = "active" /\ owner[f] = NoWorker}

LoopInv ==
    /\ \A f \in Flows : OwnerOK(f)
    /\ \A f \in Flows : stalls[f] + (IF f \in Lost THEN 1 ELSE 0) <= upsets

(* Two steps of the same job, or both of none.                             *)
SameJob(s, t) ==
    /\ s \in RequestingSteps <=> t \in RequestingSteps
    /\ s \in AllocationSteps <=> t \in AllocationSteps
    /\ s \in MatchSteps <=> t \in MatchSteps

(* A step inside a job or outside of any, which leaves the queue alone.    *)
GoesOn ==
    /\ UNCHANGED <<stage, jobState, owner, stalls>>
    /\ upsets <= upsets'
    /\ \A w \in Workers :
          SameJob(pc[w], pc'[w]) /\ (pc'[w] = "added" => pc[w] = "added")

(* The end of a job: a match job ends behind its successor, behind a flow  *)
(* it counted, or in a call that failed.                                   *)
Ends(w) ==
    /\ \E value : D!Finish(w, value)
    /\ upsets <= upsets'
    /\ pc[w] \in MatchSteps =>
          pc[w] = "added" \/ D!Queued # {} \/ upsets' # upsets

(* A flow is added, by a match job or by a bootstrap.                      *)
AddsOne ==
    /\ UNCHANGED <<owner, stalls, upsets>>
    /\ \E f \in Flows :
          /\ jobState[f] = "none" /\ jobState'[f] \in {"waiting", "delayed"}
          /\ \A g \in Flows \ {f} : UNCHANGED <<stage[g], jobState[g]>>
    /\ \A w \in Workers : SameJob(pc[w], pc'[w])

(* DO_CLEAN of a leader that starts.                                       *)
Cleans ==
    /\ \A f \in Flows : jobState'[f] = "none" /\ owner'[f] = NoWorker /\ stalls'[f] = 0
    /\ UNCHANGED upsets
    /\ \E w \in Workers : boot[w] = "down" /\ boot'[w] = "nuke"

(* Every step, seen from the queue.                                        *)
LEMMA LoopKinds ==
    ASSUME D!TypeOK, D!Next \/ UNCHANGED D!vars
    PROVE  \/ GoesOn \/ AddsOne \/ Cleans
           \/ \E f \in Flows : D!DelayExpires(f) \/ D!JobStalls(f)
           \/ \E w \in Workers : Ends(w) \/ D!Crash(w) \/ \E f \in Flows : D!Take(w, f)
<1> DEFINE Kind == \/ GoesOn \/ AddsOne \/ Cleans
                   \/ \E f \in Flows : D!DelayExpires(f) \/ D!JobStalls(f)
                   \/ \E w \in Workers : Ends(w) \/ D!Crash(w) \/ \E f \in Flows : D!Take(w, f)
<1>t. /\ pc \in [Workers -> D!Steps] /\ upsets \in Nat
      /\ jobState \in [Flows -> D!JobStates] /\ stage \in [Flows -> D!Stages]
  BY DEF D!TypeOK
<1>u. ASSUME UNCHANGED upsets \/ D!Upset PROVE upsets <= upsets'
  BY <1>u, <1>t DEF D!Upset
<1>a. ASSUME UNCHANGED <<stage, jobState, owner, stalls, pc>>, UNCHANGED upsets \/ D!Upset
      PROVE  GoesOn
  BY <1>a, <1>u DEF GoesOn, SameJob
<1>b. ASSUME NEW w \in Workers, NEW s, pc' = [pc EXCEPT ![w] = s], SameJob(pc[w], s), s # "added",
             UNCHANGED <<stage, jobState, owner, stalls>>, UNCHANGED upsets \/ D!Upset
      PROVE  GoesOn
  BY <1>b, <1>u, <1>t DEF GoesOn, SameJob
<1> USE DEF D!redis, RequestingSteps, AllocationSteps, MatchSteps
<1>d. ASSUME NEW delay \in {"waiting", "delayed"}, D!Adds(delay), UNCHANGED upsets,
             \A w \in Workers : SameJob(pc[w], pc'[w])
      PROVE  AddsOne
  BY <1>d, <1>t DEF D!Adds, D!InState, AddsOne
<1>1. CASE \E f \in Flows : D!DelayExpires(f) \/ D!JobStalls(f)
  BY <1>1
<1>2. ASSUME NEW w \in Workers, D!Crash(w) \/ \E f \in Flows : D!Take(w, f) PROVE Kind
  BY <1>2
<1>e. (\E w \in Workers : Ends(w)) => Kind
  OBVIOUS
<1>g. GoesOn \/ AddsOne \/ Cleans => Kind
  OBVIOUS
<1> HIDE DEF Kind
<1>3. ASSUME NEW w \in Workers, D!Discover(w) PROVE Kind
  <2>1. CASE D!ReadCheckpoint(w) \/ D!QueryRequests(w)
    BY <2>1, <1>b, <1>g DEF D!ReadCheckpoint, D!QueryRequests, SameJob
  <2>2. CASE D!QueryUpdates(w) \/ D!MatchRequests(w) \/ D!WriteCheckpoint(w)
    BY <2>2, <1>b, <1>g DEF D!QueryUpdates, D!MatchRequests, D!WriteCheckpoint, SameJob
  <2>3. CASE D!StoreEvent(w)
    BY <2>3, <1>a, <1>g DEF D!StoreEvent, D!Fault
  <2>4. CASE D!FinishDiscover(w)
    BY <2>4, <1>e, <1>u DEF D!FinishDiscover, Ends
  <2>5. CASE D!CountJobs(w) /\ D!Queued # {}
    BY <2>5, <1>e, <1>u DEF D!CountJobs, Ends
  <2>6. CASE D!CountJobs(w) /\ D!Queued = {}
    BY <2>6, <1>b, <1>g DEF D!CountJobs, SameJob
  <2>7. CASE D!AddFlow(w)
    <3>1. \A v \in Workers : SameJob(pc[v], pc'[v])
      BY <2>7, <1>t DEF D!AddFlow, SameJob
    <3> QED BY <2>7, <3>1, <1>d, <1>g DEF D!AddFlow
  <2>8. CASE D!FinishMatch(w)
    BY <2>8, <1>e, <1>u DEF D!FinishMatch, Ends
  <2> QED BY <1>3, <2>1, <2>2, <2>3, <2>4, <2>5, <2>6, <2>7, <2>8 DEF D!Discover
<1>4. ASSUME NEW w \in Workers, D!Faulty(w) PROVE Kind
  <2>1. CASE D!DiscoverFails(w)
    BY <2>1, <1>e, <1>u DEF D!DiscoverFails, D!Fault, Ends
  <2>2. CASE D!MatchFails(w)
    BY <2>2, <1>b, <1>g DEF D!MatchFails, D!Fault, SameJob
  <2>3. CASE D!EnqueueFails(w)
    <3>1. D!Upset
      BY <2>3 DEF D!EnqueueFails, D!Fault
    <3>2. upsets' # upsets
      BY <3>1, <1>t DEF D!Upset
    <3> QED BY <2>3, <3>1, <3>2, <1>e, <1>u DEF D!EnqueueFails, Ends
  <2> QED BY <1>4, <2>1, <2>2, <2>3 DEF D!Faulty
<1>5. ASSUME NEW w \in Workers, D!Bootstrap(w) PROVE Kind
  <2>1. CASE D!NukeRequests(w) \/ D!BootCount(w)
    BY <2>1, <1>a, <1>g DEF D!NukeRequests, D!BootCount, D!work
  <2>2. CASE D!BootAdd(w) /\ D!Adds("waiting") /\ UNCHANGED upsets
    BY <2>2, <1>d, <1>g DEF D!BootAdd, D!work, SameJob
  <2>3. CASE D!BootAdd(w) /\ D!Fault("rpc") /\ UNCHANGED D!redis
    BY <2>3, <1>a, <1>g DEF D!BootAdd, D!work, D!Fault
  <2> QED BY <1>5, <2>1, <2>2, <2>3 DEF D!Bootstrap, D!BootAdd
<1>6. ASSUME NEW w \in Workers, NEW leads \in BOOLEAN, D!Start(w, leads) PROVE Kind
  <2>1. CASE leads /\ DoClean
    <3>1. Cleans
      BY <1>6, <2>1, <1>t DEF D!Start, Cleans, D!TypeOK
    <3> QED BY <3>1, <1>g
  <2>2. CASE ~(leads /\ DoClean)
    BY <1>6, <2>2, <1>a, <1>g DEF D!Start, D!work
  <2> QED BY <2>1, <2>2
<1>7. ASSUME NEW w \in Workers, NEW t \in Tx, D!EnqueueUpdate(w, t) PROVE Kind
  BY <1>7, <1>a, <1>g DEF D!EnqueueUpdate
<1>8. CASE D!MineEmpty \/ D!QueueChanges \/ UNCHANGED D!vars
  BY <1>8, <1>a, <1>g DEF D!MineEmpty, D!QueueChanges, D!vars, D!local, D!work
<1>9. CASE (\E t \in Tx : D!Request(t)) \/ (\E a \in Addr : D!MineUpdate(a))
  BY <1>9, <1>a, <1>g DEF D!Request, D!MineUpdate, D!local, D!work
<1> QED
  BY <1>1, <1>2, <1>3, <1>4, <1>5, <1>6, <1>7, <1>8, <1>9 DEF D!Next, D!Loop, Kind

LEMMA LoopInvStep ==
    ASSUME D!TypeOK, D!TypeOK', LoopInv, D!Next \/ UNCHANGED D!vars
    PROVE  LoopInv'
<1> USE DiscoveryConstants DEF RequestingSteps, AllocationSteps, MatchSteps
<1>t. /\ pc \in [Workers -> D!Steps] /\ upsets \in Nat /\ upsets' \in Nat
      /\ owner \in [Flows -> Workers \cup {NoWorker}] /\ jobState \in [Flows -> D!JobStates]
      /\ stage \in [Flows -> D!Stages] /\ stalls \in [Flows -> Nat] /\ stalls' \in [Flows -> Nat]
  BY DEF D!TypeOK
(* No count grows and no job is newly lost.                                *)
<1>k. ASSUME \A f \in Flows : stalls'[f] <= stalls[f], Lost' \subseteq Lost, upsets <= upsets'
      PROVE  \A f \in Flows : stalls'[f] + (IF f \in Lost' THEN 1 ELSE 0) <= upsets'
  BY <1>k, <1>t DEF LoopInv, Lost
<1>1. CASE GoesOn
  <2>1. Lost' \subseteq Lost
    BY <1>1 DEF GoesOn, Lost
  <2>2. ASSUME NEW f \in Flows PROVE OwnerOK(f)'
    BY <1>1, <1>t DEF GoesOn, SameJob, LoopInv, OwnerOK
  <2> QED BY <1>1, <1>k, <1>t, <2>1, <2>2 DEF GoesOn, LoopInv
<1>2. CASE AddsOne
  <2>1. PICK f \in Flows :
          /\ jobState[f] = "none" /\ jobState'[f] \in {"waiting", "delayed"}
          /\ \A g \in Flows \ {f} : UNCHANGED <<stage[g], jobState[g]>>
    BY <1>2 DEF AddsOne
  <2>2. \A v \in Workers : owner[f] # v
    BY <2>1 DEF LoopInv, OwnerOK
  <2>3. Lost' \subseteq Lost
    BY <1>2, <2>1 DEF AddsOne, Lost
  <2>4. ASSUME NEW g \in Flows PROVE OwnerOK(g)'
    BY <1>2, <2>1, <2>2 DEF AddsOne, SameJob, LoopInv, OwnerOK
  <2> QED BY <1>2, <1>k, <1>t, <2>3, <2>4 DEF AddsOne, LoopInv
<1>3. CASE Cleans
  <2>1. Lost' \subseteq Lost /\ \A f \in Flows : OwnerOK(f)'
    BY <1>3 DEF Cleans, Lost, OwnerOK
  <2> QED BY <1>3, <1>k, <1>t, <2>1 DEF Cleans, LoopInv
<1>4. ASSUME NEW f \in Flows, D!DelayExpires(f) PROVE LoopInv'
  <2>1. Lost' \subseteq Lost /\ UNCHANGED <<stalls, upsets>>
    BY <1>4, <1>t DEF D!DelayExpires, Lost
  <2>2. ASSUME NEW g \in Flows PROVE OwnerOK(g)'
    BY <1>4, <1>t DEF D!DelayExpires, LoopInv, OwnerOK, D!local, D!work
  <2> QED BY <1>k, <1>t, <2>1, <2>2 DEF LoopInv
<1>5. ASSUME NEW f \in Flows, D!JobStalls(f) PROVE LoopInv'
  <2>1. /\ jobState[f] = "active" /\ owner'[f] = NoWorker /\ jobState'[f] # "active"
        /\ \A g \in Flows \ {f} : UNCHANGED <<stage[g], jobState[g], owner[g], stalls[g]>>
        /\ stalls'[f] <= stalls[f] + 1
        /\ UNCHANGED pc
        /\ IF owner[f] = NoWorker THEN upsets' = upsets ELSE upsets' = upsets + 1
    BY <1>5, <1>t DEF D!JobStalls, D!Fault, D!Upset, D!local, D!work
  <2>2. stalls[f] + (IF owner[f] = NoWorker THEN 1 ELSE 0) <= upsets
    BY <2>1 DEF LoopInv, Lost
  <2>3. f \notin Lost' /\ stalls'[f] <= upsets'
    BY <2>1, <2>2, <1>t DEF Lost
  <2>4. \A g \in Flows \ {f} : g \in Lost' <=> g \in Lost
    BY <2>1 DEF Lost
  <2>5. \A g \in Flows : stalls'[g] + (IF g \in Lost' THEN 1 ELSE 0) <= upsets'
    BY <2>1, <2>3, <2>4, <1>t DEF LoopInv
  <2>6. ASSUME NEW g \in Flows PROVE OwnerOK(g)'
    BY <2>1 DEF LoopInv, OwnerOK
  <2> QED BY <2>5, <2>6 DEF LoopInv
<1>6. ASSUME NEW w \in Workers, NEW f \in Flows, D!Take(w, f) PROVE LoopInv'
  <2>1. \A g \in Flows : owner[g] # w
    BY <1>6 DEF D!Take, LoopInv, OwnerOK
  <2>2. /\ owner' = [owner EXCEPT ![f] = w] /\ jobState' = [jobState EXCEPT ![f] = "active"]
        /\ UNCHANGED <<stage, stalls, upsets>>
        /\ \A v \in Workers \ {w} : pc'[v] = pc[v]
    BY <1>6, <1>t DEF D!Take
  <2>3. \/ stage[f] = "requesting" /\ pc'[w] = "checkpoint"
        \/ stage[f] = "allocation" /\ pc'[w] = "queryUpdates"
        \/ stage[f] = "match" /\ pc'[w] = "match"
    BY <1>6, <1>t DEF D!Take, D!Stages
  <2>4. Lost' \subseteq Lost
    BY <2>2, <1>t DEF Lost
  <2>5. ASSUME NEW g \in Flows PROVE OwnerOK(g)'
    <3>1. CASE g = f
      BY <2>2, <2>3, <3>1, <1>t DEF OwnerOK
    <3>2. CASE g # f
      BY <2>1, <2>2, <3>2, <1>t DEF LoopInv, OwnerOK
    <3> QED BY <3>1, <3>2
  <2> QED BY <1>k, <1>t, <2>2, <2>4, <2>5 DEF LoopInv
<1>7. ASSUME NEW w \in Workers, Ends(w) PROVE LoopInv'
  <2>1. /\ pc' = [pc EXCEPT ![w] = "idle"]
        /\ \A f \in Flows : owner'[f] = IF owner[f] = w THEN NoWorker ELSE owner[f]
        /\ \A f \in Flows : owner[f] # w => UNCHANGED <<stage[f], jobState[f], stalls[f]>>
        /\ \A f \in Flows : owner[f] = w => jobState'[f] # "active" /\ stalls'[f] = 0
    BY <1>7 DEF Ends, D!Finish
  <2>2. Lost' \subseteq Lost /\ \A f \in Flows : stalls'[f] <= stalls[f]
    BY <2>1, <1>t DEF Lost
  <2>3. ASSUME NEW f \in Flows PROVE OwnerOK(f)'
    BY <2>1, <1>t DEF LoopInv, OwnerOK
  <2> QED BY <1>7, <1>k, <1>t, <2>2, <2>3 DEF Ends, LoopInv
<1>8. ASSUME NEW w \in Workers, D!Crash(w) PROVE LoopInv'
  <2>1. /\ pc' = [pc EXCEPT ![w] = "idle"] /\ upsets' = upsets + 1
        /\ \A f \in Flows : owner'[f] = IF owner[f] = w THEN NoWorker ELSE owner[f]
        /\ UNCHANGED <<stage, jobState, stalls>>
    BY <1>8 DEF D!Crash, D!Upset
  <2>2. \A f \in Flows : stalls'[f] + (IF f \in Lost' THEN 1 ELSE 0) <= upsets'
    BY <2>1, <1>t DEF LoopInv
  <2>3. ASSUME NEW f \in Flows PROVE OwnerOK(f)'
    BY <2>1, <1>t DEF LoopInv, OwnerOK
  <2> QED BY <2>2, <2>3 DEF LoopInv
<1> QED
  BY LoopKinds, <1>1, <1>2, <1>3, <1>4, <1>5, <1>6, <1>7, <1>8

(* The step after which no flow will have a successor.                     *)
LEMMA LastSuccessor ==
    ASSUME D!TypeOK, D!TypeOK', LoopInv, D!Next \/ UNCHANGED D!vars,
           D!Continuing # {}, D!Continuing' = {}
    PROVE  \/ upsets' # upsets
           \/ upsets > MaxStalled
           \/ \E w \in Workers : boot[w] = "down" /\ boot'[w] = "nuke"
<1> USE DiscoveryConstants DEF RequestingSteps, AllocationSteps, MatchSteps, D!LiveFlows, D!InState
<1>t. /\ pc \in [Workers -> D!Steps] /\ upsets \in Nat /\ MaxStalled \in Nat
      /\ owner \in [Flows -> Workers \cup {NoWorker}] /\ jobState \in [Flows -> D!JobStates]
      /\ stage \in [Flows -> D!Stages] /\ stalls \in [Flows -> Nat]
  BY FacilityAssumption DEF D!TypeOK, D!FacilityDiscoveryAssumption
<1>p. PICK f \in D!Continuing : f \in Flows
  BY DEF D!Continuing
(* A flow that waits is one of them.                                       *)
<1>w. \A g \in Flows : jobState'[g] \in {"waiting", "delayed"}
                         /\ (\A w \in Workers : owner'[g] = w => pc'[w] # "added")
                         => g \in D!Continuing'
  BY DEF D!Continuing, D!Spent
<1>1. ~GoesOn
  <2>1. CASE GoesOn
    <3>1. f \in D!Continuing'
      BY <1>p, <2>1 DEF GoesOn, D!Continuing, D!Spent
    <3> QED BY <3>1
  <2> QED BY <2>1
<1>2. ~AddsOne
  <2>1. CASE AddsOne
    <3>1. PICK g \in Flows : jobState[g] = "none" /\ jobState'[g] \in {"waiting", "delayed"}
      BY <2>1 DEF AddsOne
    <3>2. \A w \in Workers : owner'[g] # w
      BY <2>1, <3>1 DEF AddsOne, LoopInv, OwnerOK
    <3> QED BY <3>1, <3>2, <1>w
  <2> QED BY <2>1
<1>3. CASE Cleans
  BY <1>3 DEF Cleans
<1>4. ASSUME NEW g \in Flows, D!DelayExpires(g) PROVE FALSE
  <2>1. jobState'[g] = "waiting" /\ \A w \in Workers : owner'[g] # w
    BY <1>4, <1>t DEF D!DelayExpires, LoopInv, OwnerOK
  <2> QED BY <2>1, <1>w
<1>5. ASSUME NEW g \in Flows, D!JobStalls(g), upsets' = upsets PROVE upsets > MaxStalled
  <2>1. owner[g] = NoWorker /\ owner'[g] = NoWorker
    BY <1>5, <1>t DEF D!JobStalls, D!Fault, D!Upset
  <2>2. stalls[g] + 1 <= upsets
    BY <1>5, <2>1 DEF D!JobStalls, LoopInv, Lost
  <2>3. jobState'[g] # "waiting"
    BY <2>1, <1>w
  <2>4. ~(stalls[g] < MaxStalled)
    BY <1>5, <2>3, <1>t DEF D!JobStalls
  <2> QED BY <2>2, <2>4, <1>t
<1>6. ASSUME NEW w \in Workers, NEW g \in Flows, D!Take(w, g) PROVE FALSE
  <2>1. pc'[w] # "added" /\ jobState'[g] = "active" /\ owner'[g] = w
    BY <1>6, <1>t DEF D!Take, D!Stages
  <2>2. g \in D!Continuing'
    BY <2>1 DEF D!Continuing, D!Spent
  <2> QED BY <2>2
<1>7. ASSUME NEW w \in Workers, Ends(w), upsets' = upsets PROVE FALSE
  <2>1. /\ pc' = [pc EXCEPT ![w] = "idle"]
        /\ \A g \in Flows : owner'[g] = IF owner[g] = w THEN NoWorker ELSE owner[g]
        /\ \A g \in Flows : owner[g] # w => UNCHANGED jobState[g]
        /\ \A g \in Flows : owner[g] = w /\ stage[g] # "match" => jobState'[g] = "waiting"
    BY <1>7 DEF Ends, D!Finish
  <2>2. CASE owner[f] # w
    <3>1. f \in D!Continuing'
      BY <1>p, <1>t, <2>1, <2>2 DEF D!Continuing, D!Spent
    <3> QED BY <3>1
  <2>3. CASE owner[f] = w /\ stage[f] # "match"
    BY <1>p, <1>w, <2>1, <2>3
  <2>4. CASE owner[f] = w /\ stage[f] = "match"
    <3>1. pc[w] \in MatchSteps
      BY <1>p, <2>4 DEF LoopInv, OwnerOK
    <3>2. pc[w] # "added"
      BY <1>p, <2>4 DEF D!Continuing, D!Spent
    <3>3. PICK g \in Flows : jobState[g] \in {"waiting", "delayed"}
      BY <1>7, <3>1, <3>2 DEF Ends, D!Queued
    <3>4. \A v \in Workers : owner[g] # v
      BY <3>3 DEF LoopInv, OwnerOK
    <3>5. jobState'[g] = jobState[g] /\ \A v \in Workers : owner'[g] # v
      BY <2>1, <3>4
    <3> QED BY <1>w, <3>3, <3>5
  <2> QED BY <2>2, <2>3, <2>4
<1>8. ASSUME NEW w \in Workers, D!Crash(w) PROVE upsets' # upsets
  BY <1>8, <1>t DEF D!Crash, D!Upset
<1> QED
  BY LoopKinds, <1>1, <1>2, <1>3, <1>4, <1>5, <1>6, <1>7, <1>8

(* enqueueDiscoverFacilitatorEventsFlow is called by every match job, and  *)
(* returns without a flow only where one is queued.  For any number of     *)
(* processes, whatever order their jobs run in.                            *)
THEOREM LoopFeedsItself == Spec => LoopKept
<1>1. Init => LoopInv
  BY DiscoveryConstants DEF Init, D!InitBesideQueue, LoopInv, OwnerOK, Lost
<1>2. UpdatesInv /\ DiscoveryInv /\ UpdatesInv' /\ DiscoveryInv' /\ LoopInv /\ [Next]_vars => LoopInv'
  BY LoopInvStep, DiscoveryStepOf DEF DiscoveryInv
<1>3. UpdatesInv /\ DiscoveryInv /\ UpdatesInv' /\ DiscoveryInv' /\ LoopInv /\ [Next]_vars
        => [D!Continuing # {} /\ D!Continuing' = {}
              => \/ upsets' # upsets
                 \/ upsets > MaxStalled
                 \/ \E w \in Workers : boot[w] = "down" /\ boot'[w] = "nuke"]_(D!vars)
  BY LastSuccessor, DiscoveryStepOf DEF DiscoveryInv
<1> QED BY <1>1, <1>2, <1>3, UpdatesInvariant, DiscoveryInvariant, PTL
        DEF Spec, LoopKept, D!LoopKept

-----------------------------------------------------------------------------
(* The discovery is a register of requests.  What was updated before a     *)
(* block on its way to the checkpoint is in the database, and closed by    *)
(* the time the checkpoint is written.                                     *)

UpdatesBefore(b) == b <= head /\ \A e \in updates : e.block < b => e \in storedUpdates

Served(b) ==
    \A t \in stored :
        (\E e \in updates : e.addr = Requester[t] /\ asked[t] < e.block /\ e.block < b)
            => t \in fulfilled

Matched ==
    /\ \A e \in updates : e.block > Deployed
    /\ UpdatesBefore(checkpoint) /\ Served(checkpoint)
    /\ \A f \in Flows :
          /\ stage[f] = "allocation" => UpdatesBefore(range[f].from)
          /\ stage[f] = "match" => UpdatesBefore(range[f].to)
    /\ \A w \in Workers :
          /\ pc[w] \in {"query", "store", "queryUpdates"} => UpdatesBefore(span[w].from)
          /\ pc[w] = "storeUpdates" =>
                \A e \in updates : e.block < span[w].to => e \in storedUpdates \cup todo[w]
          /\ pc[w] \in {"match", "enqueue"} => UpdatesBefore(span[w].to)
          /\ pc[w] = "enqueue" => Served(span[w].to)

(* What is known before a block is not undone: a request or an update that *)
(* comes later comes in a block of its own, and one stored later is not    *)
(* before a block whose requests are all stored.                           *)
Later ==
    /\ head <= head'
    /\ updates \subseteq updates' /\ \A e \in updates' \ updates : e.block > head
    /\ \A t \in Tx : asked'[t] = asked[t] \/ (asked[t] = 0 /\ asked'[t] > head)
    /\ stored \subseteq stored'
    /\ storedUpdates \subseteq storedUpdates'
    /\ fulfilled \subseteq fulfilled'

LEMMA LaterKeeps ==
    ASSUME D!TypeOK, D!TypeOK', Observed, Observed', Later
    PROVE  \A b \in Nat : /\ UpdatesBefore(b) => UpdatesBefore(b)'
                          /\ KnownBefore(b) /\ Served(b) => Served(b)'
<1> TAKE b \in Nat
<1>t. /\ head \in Nat /\ head' \in Nat /\ asked \in [Tx -> Nat] /\ asked' \in [Tx -> Nat]
      /\ stored \subseteq Tx /\ stored' \subseteq Tx
      /\ \A e \in updates \cup updates' : e.block \in Nat
  BY DEF D!TypeOK, D!Update
<1>1. ASSUME UpdatesBefore(b) PROVE UpdatesBefore(b)'
  BY <1>1, <1>t DEF UpdatesBefore, Later
<1>2. ASSUME KnownBefore(b), Served(b) PROVE Served(b)'
  <2>1. SUFFICES ASSUME NEW t \in stored', NEW e \in updates',
                        e.addr = Requester[t], asked'[t] < e.block, e.block < b
                 PROVE  t \in fulfilled'
    BY DEF Served
  <2>2. e \in updates
    BY <1>2, <1>t, <2>1 DEF KnownBefore, Later
  <2>3. t \in Tx /\ asked'[t] # 0 /\ asked'[t] < b
    BY <1>t, <2>1 DEF Observed
  <2>4. asked[t] = asked'[t]
    BY <1>2, <1>t, <2>2, <2>3, <2>1 DEF Later, KnownBefore
  <2>5. t \in stored
    BY <1>2, <1>t, <2>3, <2>4 DEF KnownBefore
  <2>6. QED  BY <1>2, <2>1, <2>2, <2>4, <2>5 DEF Served, Later
<1>3. QED  BY <1>1, <1>2

LEMMA LaterStep ==
    ASSUME Careful, D!TypeOK, Observed, D!Next \/ UNCHANGED D!vars
    PROVE  Later
<1> USE DEF D!chain, D!mongo, D!redis, D!local, D!work
<1>t. head \in Nat /\ asked \in [Tx -> Nat]
  BY DEF D!TypeOK
<1>a. ASSUME UNCHANGED <<head, asked, updates>>, stored \subseteq stored',
             storedUpdates \subseteq storedUpdates', fulfilled \subseteq fulfilled'
      PROVE  Later
  BY <1>a, <1>t DEF Later
<1>1. CASE \E f \in Flows : D!DelayExpires(f) \/ D!JobStalls(f)
  BY <1>1, <1>a DEF D!DelayExpires, D!JobStalls
<1>2. ASSUME NEW w \in Workers, D!Discover(w) PROVE Later
  BY <1>2, <1>a DEF D!Discover, D!ReadCheckpoint, D!QueryRequests, D!QueryUpdates, D!StoreEvent,
     D!FinishDiscover, D!MatchRequests, D!Matches, D!WriteCheckpoint, D!CountJobs, D!AddFlow,
     D!FinishMatch
<1>3. ASSUME NEW w \in Workers, D!Faulty(w) PROVE Later
  BY <1>3, <1>a DEF D!Faulty, D!DiscoverFails, D!MatchFails, D!EnqueueFails
<1>4. ASSUME NEW w \in Workers, D!Bootstrap(w) PROVE Later
  BY <1>4, <1>a DEF D!Bootstrap, D!NukeRequests, D!BootCount, D!BootAdd, Careful
<1>5. ASSUME NEW w \in Workers, \/ D!Crash(w) \/ \E leads \in BOOLEAN : D!Start(w, leads)
                                \/ \E f \in Flows : D!Take(w, f)
                                \/ \E t \in Tx : D!EnqueueUpdate(w, t)
      PROVE  Later
  BY <1>5, <1>a DEF D!Crash, D!Start, D!Take, D!EnqueueUpdate
<1>6. ASSUME NEW t \in Tx, D!Request(t) PROVE Later
  BY <1>6, <1>t DEF D!Request, Later
<1>7. ASSUME NEW a \in Addr, D!MineUpdate(a) PROVE Later
  BY <1>7, <1>t DEF D!MineUpdate, Later
<1>8. CASE D!MineEmpty
  BY <1>8, <1>t DEF D!MineEmpty, Later
<1>9. CASE D!QueueChanges \/ UNCHANGED D!vars
  BY <1>9, <1>a DEF D!QueueChanges, D!vars
<1> QED
  BY <1>1, <1>2, <1>3, <1>4, <1>5, <1>6, <1>7, <1>8, <1>9 DEF D!Next, D!Loop

LEMMA MatchedStep ==
    ASSUME Careful, D!TypeOK, D!TypeOK', Observed, Observed', Discovered, LoopInv, Matched,
           D!Next \/ UNCHANGED D!vars
    PROVE  Matched'
<1> USE DiscoveryConstants DEF D!chain, D!mongo, D!redis, D!local, D!work
<1>t. /\ head \in Nat /\ head' \in Nat /\ checkpoint \in Nat /\ checkpoint' \in Nat
      /\ pc \in [Workers -> D!Steps] /\ todo \in [Workers -> SUBSET (Tx \cup D!Update)]
      /\ span \in [Workers -> D!Range] /\ range \in [Flows -> D!Range]
      /\ stage \in [Flows -> D!Stages] /\ owner \in [Flows -> Workers \cup {NoWorker}]
      /\ updates \subseteq D!Update
  BY DEF D!TypeOK
<1>b. \A w \in Workers : span[w].from \in Nat /\ span[w].to \in Nat
  BY <1>t DEF D!Range
<1>g. \A f \in Flows : range[f].from \in Nat /\ range[f].to \in Nat
  BY <1>t DEF D!Range
<1>l. Later
  BY LaterStep
<1>u. \A b \in Nat : UpdatesBefore(b) => UpdatesBefore(b)'
  BY <1>l, LaterKeeps
<1>k. \A b \in Nat : KnownBefore(b) /\ Served(b) => Served(b)'
  BY <1>l, LaterKeeps
<1>n. UpdatesBefore(0)
  BY <1>t DEF UpdatesBefore, D!Update
<1> DEFINE Redis == \A f \in Flows : /\ stage[f] = "allocation" => UpdatesBefore(range[f].from)
                                     /\ stage[f] = "match" => UpdatesBefore(range[f].to)
           Carried(w) ==
             /\ pc[w] \in {"query", "store", "queryUpdates"} => UpdatesBefore(span[w].from)
             /\ pc[w] = "storeUpdates" =>
                   \A e \in updates : e.block < span[w].to => e \in storedUpdates \cup todo[w]
             /\ pc[w] \in {"match", "enqueue"} => UpdatesBefore(span[w].to)
             /\ pc[w] = "enqueue" => Served(span[w].to)
(* What others do meanwhile disturbs nothing.                              *)
<1>c. checkpoint' = checkpoint => UpdatesBefore(checkpoint)' /\ Served(checkpoint)'
  <2>1. UpdatesBefore(checkpoint) /\ KnownBefore(checkpoint) /\ Served(checkpoint)
    BY DEF Matched, Discovered
  <2>2. UpdatesBefore(checkpoint)' <=> (checkpoint' <= head' /\ \A e \in updates' : e.block < checkpoint' => e \in storedUpdates')
    BY DEF UpdatesBefore
  <2> QED BY <1>l, <2>1, <1>t, <1>u, <1>k DEF UpdatesBefore, Served
<1>r. UNCHANGED <<stage, range>> => Redis'
  BY <1>g, <1>u DEF Matched, UpdatesBefore
<1>w. ASSUME NEW w \in Workers, UNCHANGED <<pc[w], span[w], todo[w]>>
      PROVE  Carried(w)'
  <2>1. /\ pc[w] \in {"query", "store", "queryUpdates"} => UpdatesBefore(span[w].from)'
        /\ pc[w] \in {"match", "enqueue"} => UpdatesBefore(span[w].to)'
    BY <1>b, <1>u, <1>w DEF Matched, UpdatesBefore
  <2>2. pc[w] = "enqueue" => Served(span[w].to)'
    BY <1>b, <1>k, <1>w DEF Matched, Discovered, Served
  <2>3. ASSUME pc[w] = "storeUpdates", NEW e \in updates', e.block < span[w].to
        PROVE  e \in storedUpdates' \cup todo[w]
    <3>1. span[w].to <= head
      BY <2>3 DEF Discovered, KnownBefore
    <3>2. e \in updates
      BY <1>l, <1>b, <1>t, <2>3, <3>1 DEF Later, D!TypeOK, D!Update
    <3> QED BY <1>l, <2>3, <3>2 DEF Matched, Later
  <2> QED BY <1>w, <2>1, <2>2, <2>3
<1>i. ASSUME NEW w \in Workers, pc'[w] \in {"idle", "checkpoint", "count", "add", "added"}
      PROVE  Carried(w)'
  BY <1>i
<1>d. ASSUME UpdatesBefore(checkpoint)', Served(checkpoint)', Redis',
             \A w \in Workers : Carried(w)'
      PROVE  Matched'
  <2>1. \A e \in updates' : e.block > Deployed
    BY <1>l, <1>t DEF Matched, Observed, Later, D!TypeOK, D!Update
  <2> QED BY <1>d, <2>1 DEF Matched
<1> HIDE DEF Carried, Redis
<1>m. ASSUME NEW w \in Workers, UNCHANGED <<checkpoint, stage, range>>, Carried(w)',
             \A v \in Workers : v # w => UNCHANGED <<pc[v], span[v], todo[v]>>
      PROVE  Matched'
  BY <1>m, <1>c, <1>r, <1>w, <1>d
<1>s. ASSUME UNCHANGED <<checkpoint, stage, range, pc, span, todo>> PROVE Matched'
  BY <1>s, <1>c, <1>r, <1>w, <1>d
(* A flow that is added or ends waits for its first job.                   *)
<1>q. ASSUME \A f \in Flows : \/ stage'[f] = stage[f] /\ range'[f] = range[f]
                              \/ stage'[f] = "requesting"
      PROVE  Redis'
  BY <1>q, <1>g, <1>u DEF Redis, Matched, UpdatesBefore
(* The end of a job hands its range to the next one.                       *)
<1>f. ASSUME NEW w \in Workers, NEW value \in D!Range, D!Finish(w, value), UNCHANGED checkpoint,
             pc[w] \in RequestingSteps => UpdatesBefore(value.from),
             pc[w] \in AllocationSteps => UpdatesBefore(value.to)
      PROVE  Matched'
  <2>1. ASSUME NEW f \in Flows
        PROVE  (/\ stage[f] = "allocation" => UpdatesBefore(range[f].from)
                /\ stage[f] = "match" => UpdatesBefore(range[f].to))'
    <3>1. CASE owner[f] # w
      <4>1. stage'[f] = stage[f] /\ range'[f] = range[f]
        BY <1>f, <3>1 DEF D!Finish
      <4> QED BY <1>g, <1>u, <4>1 DEF Matched, UpdatesBefore
    <3>2. CASE owner[f] = w
      <4>1. /\ range'[f] = value
            /\ stage'[f] = IF stage[f] = "requesting" THEN "allocation"
                           ELSE IF stage[f] = "allocation" THEN "match" ELSE "requesting"
        BY <1>f, <3>2 DEF D!Finish
      <4>2. /\ stage[f] = "requesting" => pc[w] \in RequestingSteps
            /\ stage[f] = "allocation" => pc[w] \in AllocationSteps
        BY <3>2 DEF LoopInv, OwnerOK
      <4>3. value.from \in Nat /\ value.to \in Nat
        BY <1>f DEF D!Range
      <4> QED BY <1>f, <1>u, <4>1, <4>2, <4>3 DEF UpdatesBefore
    <3> QED BY <3>1, <3>2
  <2>2. Redis'
    BY <2>1 DEF Redis, UpdatesBefore
  <2>3. \A v \in Workers : v # w => UNCHANGED <<pc[v], span[v], todo[v]>>
    BY <1>f, <1>t DEF D!Finish
  <2>4. pc'[w] = "idle"
    BY <1>f, <1>t DEF D!Finish
  <2> QED BY <1>f, <2>2, <2>3, <2>4, <1>c, <1>w, <1>i, <1>d
<1>o. ASSUME NEW w \in Workers, D!Finish(w, D!NoRange), UNCHANGED checkpoint PROVE Matched'
  BY <1>o, <1>f, <1>n DEF D!NoRange
<1>a. ASSUME NEW delay, D!Adds(delay) PROVE Redis'
  <2>1. \A f \in Flows : \/ stage'[f] = stage[f] /\ range'[f] = range[f]
                         \/ stage'[f] = "requesting"
    BY <1>a, <1>t DEF D!Adds, D!InState
  <2> QED BY <2>1, <1>q
<1>1. ASSUME NEW f \in Flows, D!DelayExpires(f) PROVE Matched'
  BY <1>1, <1>s DEF D!DelayExpires
<1>2. ASSUME NEW f \in Flows, D!JobStalls(f) PROVE Matched'
  <2>1. \A g \in Flows : \/ stage'[g] = stage[g] /\ range'[g] = range[g]
                         \/ stage'[g] = "requesting"
    BY <1>2, <1>t DEF D!JobStalls
  <2>2. Redis'
    BY <2>1, <1>q
  <2> QED BY <1>2, <2>2, <1>c, <1>w, <1>d DEF D!JobStalls
<1>3. ASSUME NEW w \in Workers, NEW f \in Flows, D!Take(w, f) PROVE Matched'
  <2>1. UNCHANGED <<checkpoint, stage, range>>
    BY <1>3 DEF D!Take
  <2>2. \A v \in Workers : v # w => UNCHANGED <<pc[v], span[v], todo[v]>>
    BY <1>3, <1>t DEF D!Take
  <2>3. \/ pc'[w] = "checkpoint"
        \/ stage[f] = "allocation" /\ pc'[w] = "queryUpdates" /\ span'[w] = range[f]
        \/ stage[f] = "match" /\ pc'[w] = "match" /\ span'[w] = range[f]
    BY <1>3, <1>t DEF D!Take, D!Stages
  <2>4. Carried(w)'
    BY <2>3, <1>g, <1>u DEF Carried, Matched, UpdatesBefore
  <2> QED BY <2>1, <2>2, <2>4, <1>m
<1>4. ASSUME NEW w \in Workers, D!ReadCheckpoint(w) PROVE Matched'
  <2>1. UNCHANGED <<D!chain, stored, fulfilled, storedUpdates, stage, range>>
    BY <1>4 DEF D!ReadCheckpoint
  <2>2. \A v \in Workers : v # w => UNCHANGED <<pc[v], span[v], todo[v]>>
    BY <1>4, <1>t DEF D!ReadCheckpoint
  <2>3. UpdatesBefore(Deployed) /\ Served(Deployed)
    <3>1. \A e \in updates : e.block > Deployed
      BY DEF Matched
    <3> QED BY <3>1, <1>t DEF Observed, UpdatesBefore, Served, D!Update
  <2>4. checkpoint' \in {Deployed, checkpoint}
    BY <1>4 DEF D!ReadCheckpoint
  <2>5. UpdatesBefore(checkpoint)' /\ Served(checkpoint)'
    BY <2>1, <2>3, <2>4 DEF UpdatesBefore, Served, Matched
  <2>6. pc'[w] = "query" /\ span'[w].from = checkpoint'
    BY <1>4, <1>t DEF D!ReadCheckpoint, D!Range
  <2>7. Carried(w)'
    BY <2>5, <2>6 DEF Carried, UpdatesBefore
  <2> QED BY <2>1, <2>2, <2>5, <2>7, <1>r, <1>w, <1>d
<1>5. ASSUME NEW w \in Workers, D!QueryRequests(w) PROVE Matched'
  <2>1. UNCHANGED <<checkpoint, stage, range>>
    BY <1>5 DEF D!QueryRequests
  <2>2. \A v \in Workers : v # w => UNCHANGED <<pc[v], span[v], todo[v]>>
    BY <1>5, <1>t DEF D!QueryRequests
  <2>3. pc[w] = "query" /\ pc'[w] = "store" /\ span'[w].from = span[w].from
    BY <1>5, <1>t, CappedType DEF D!QueryRequests
  <2>4. Carried(w)'
    BY <2>3, <1>b, <1>u DEF Carried, Matched, UpdatesBefore
  <2> QED BY <2>1, <2>2, <2>4, <1>m
<1>6. ASSUME NEW w \in Workers, D!QueryUpdates(w) PROVE Matched'
  <2>1. UNCHANGED <<D!chain, storedUpdates, checkpoint, stage, range, span>>
    BY <1>6 DEF D!QueryUpdates
  <2>2. \A v \in Workers : v # w => UNCHANGED <<pc[v], span[v], todo[v]>>
    BY <1>6, <1>t DEF D!QueryUpdates
  <2>3. /\ pc[w] = "queryUpdates" /\ pc'[w] = "storeUpdates"
        /\ \E lag \in 0..MaxLag : todo'[w] = {e \in updates : D!Within(e.block, span[w], lag)}
    BY <1>6, <1>t DEF D!QueryUpdates
  <2>4. UpdatesBefore(span[w].from) /\ span[w].to <= head
    BY <2>3 DEF Matched, Discovered, KnownBefore
  <2>5. ASSUME NEW e \in updates, e.block < span[w].to PROVE e \in storedUpdates \cup todo'[w]
    <3>1. e.block \in Nat
      BY <1>t DEF D!Update
    <3>2. CASE e.block < span[w].from
      BY <2>4, <3>2 DEF UpdatesBefore
    <3>3. CASE span[w].from <= e.block
      BY <2>3, <2>4, <2>5, <3>1, <3>3, <1>b, <1>t DEF D!Within, Careful
    <3> QED BY <3>1, <3>2, <3>3, <1>b
  <2>6. Carried(w)'
    BY <2>1, <2>3, <2>5 DEF Carried
  <2> QED BY <2>1, <2>2, <2>6, <1>m
<1>7. ASSUME NEW w \in Workers, D!StoreEvent(w) PROVE Matched'
  <2>1. UNCHANGED <<D!chain, checkpoint, stage, range, pc, span>>
    BY <1>7 DEF D!StoreEvent
  <2>2. \A v \in Workers : v # w => UNCHANGED <<pc[v], span[v], todo[v]>>
    BY <1>7, <1>t DEF D!StoreEvent
  <2>3. pc[w] \in {"store", "storeUpdates"}
    BY <1>7 DEF D!StoreEvent
  <2>4. pc[w] = "storeUpdates" =>
          \A e \in todo[w] : e \in storedUpdates' \/ e \in todo'[w]
    BY <1>7, <1>t DEF D!StoreEvent, D!Fault, Careful
  <2>5. Carried(w)'
    BY <2>1, <2>3, <2>4, <1>b, <1>l, <1>u DEF Carried, Matched, Later, UpdatesBefore
  <2> QED BY <2>1, <2>2, <2>5, <1>m
<1>8. ASSUME NEW w \in Workers, D!FinishDiscover(w) PROVE Matched'
  <2>1. span[w] \in D!Range /\ D!Finish(w, span[w]) /\ UNCHANGED checkpoint
    BY <1>8, <1>t DEF D!FinishDiscover
  <2>2. CASE pc[w] = "store"
    <3>1. UpdatesBefore(span[w].from) /\ pc[w] \notin AllocationSteps
      BY <2>2 DEF Matched, AllocationSteps
    <3> QED BY <2>1, <3>1, <1>f
  <2>3. CASE pc[w] = "storeUpdates"
    <3>1. todo[w] = {}
      BY <1>8 DEF D!FinishDiscover
    <3>2. UpdatesBefore(span[w].to) /\ pc[w] \notin RequestingSteps
      BY <2>3, <3>1 DEF Matched, Discovered, KnownBefore, UpdatesBefore, RequestingSteps
    <3> QED BY <2>1, <3>2, <1>f
  <2> QED BY <1>8, <2>2, <2>3 DEF D!FinishDiscover
<1>9. ASSUME NEW w \in Workers, D!DiscoverFails(w) \/ D!EnqueueFails(w) \/ D!FinishMatch(w)
      PROVE  Matched'
  BY <1>9, <1>o DEF D!DiscoverFails, D!EnqueueFails, D!FinishMatch
<1>10. ASSUME NEW w \in Workers, \/ D!CountJobs(w) /\ ~D!Finish(w, D!NoRange)
                                 \/ D!MatchFails(w)
       PROVE  Matched'
  <2>1. UNCHANGED <<checkpoint, stage, range, todo, span>>
    BY <1>10 DEF D!CountJobs, D!MatchFails
  <2>2. \A v \in Workers : v # w => UNCHANGED <<pc[v], span[v], todo[v]>>
    BY <1>10, <1>t DEF D!CountJobs, D!MatchFails
  <2>3. pc'[w] \in {"add", "count"}
    BY <1>10, <1>t DEF D!CountJobs, D!MatchFails
  <2> QED BY <2>1, <2>2, <2>3, <1>i, <1>m
<1>11. ASSUME NEW w \in Workers, D!CountJobs(w) PROVE Matched'
  <2>1. CASE D!Finish(w, D!NoRange)
    BY <1>11, <2>1, <1>o DEF D!CountJobs
  <2> QED BY <1>10, <1>11, <2>1
<1>12. ASSUME NEW w \in Workers, D!AddFlow(w) PROVE Matched'
  <2>1. Redis' /\ UNCHANGED checkpoint
    BY <1>12, <1>a DEF D!AddFlow
  <2>2. \A v \in Workers : v # w => UNCHANGED <<pc[v], span[v], todo[v]>>
    BY <1>12, <1>t DEF D!AddFlow
  <2>3. pc'[w] = "added"
    BY <1>12, <1>t DEF D!AddFlow
  <2> QED BY <2>1, <2>2, <2>3, <1>c, <1>w, <1>i, <1>d
<1>13. ASSUME NEW w \in Workers, D!MatchRequests(w) PROVE Matched'
  <2>1. UNCHANGED <<D!chain, stored, storedUpdates, checkpoint, stage, range, todo, span>>
    BY <1>13 DEF D!MatchRequests
  <2>2. \A v \in Workers : v # w => UNCHANGED <<pc[v], span[v], todo[v]>>
    BY <1>13, <1>t DEF D!MatchRequests
  <2>3. /\ pc[w] = "match" /\ pc'[w] = "enqueue"
        /\ fulfilled' = fulfilled \cup {t \in stored \ fulfilled : D!UpdatedLater(t)}
    BY <1>13, <1>t DEF D!MatchRequests, D!Matches, D!Unfulfilled
  <2>4. UpdatesBefore(span[w].to)
    BY <2>3 DEF Matched
  <2>5. ASSUME NEW t \in stored, NEW e \in updates,
               e.addr = Requester[t], asked[t] < e.block, e.block < span[w].to
        PROVE  t \in fulfilled'
    <3>1. e \in storedUpdates
      BY <2>4, <2>5 DEF UpdatesBefore
    <3>2. D!UpdatedLater(t)
      BY <2>5, <3>1, <1>t DEF D!UpdatedLater, D!Update, D!TypeOK
    <3> QED BY <2>3, <3>2
  <2>6. Carried(w)'
    BY <2>1, <2>3, <2>4, <2>5 DEF Carried, UpdatesBefore, Served
  <2> QED BY <2>1, <2>2, <2>6, <1>m
<1>14. ASSUME NEW w \in Workers, NEW t \in Tx, D!EnqueueUpdate(w, t) PROVE Matched'
  BY <1>14, <1>s DEF D!EnqueueUpdate
<1>15. ASSUME NEW w \in Workers, D!WriteCheckpoint(w) PROVE Matched'
  <2>1. UNCHANGED <<D!chain, stored, fulfilled, storedUpdates, stage, range, todo, span>>
    BY <1>15 DEF D!WriteCheckpoint
  <2>2. \A v \in Workers : v # w => UNCHANGED <<pc[v], span[v], todo[v]>>
    BY <1>15, <1>t DEF D!WriteCheckpoint
  <2>3. pc[w] = "enqueue" /\ pc'[w] = "count" /\ checkpoint' = span[w].to
    BY <1>15, <1>t DEF D!WriteCheckpoint
  <2>4. UpdatesBefore(checkpoint)' /\ Served(checkpoint)'
    BY <2>1, <2>3 DEF Matched, UpdatesBefore, Served
  <2> QED BY <2>1, <2>2, <2>3, <2>4, <1>r, <1>w, <1>i, <1>d
<1>16. ASSUME NEW w \in Workers, D!Bootstrap(w) PROVE Matched'
  <2>1. UNCHANGED <<checkpoint, D!work>>
    BY <1>16 DEF D!Bootstrap, D!NukeRequests, D!BootCount, D!BootAdd
  <2>2. UNCHANGED D!redis \/ D!Adds("waiting")
    BY <1>16 DEF D!Bootstrap, D!NukeRequests, D!BootCount, D!BootAdd
  <2>3. Redis'
    BY <2>2, <1>a, <1>r
  <2> QED BY <2>1, <2>3, <1>c, <1>w, <1>d
<1>17. ASSUME NEW w \in Workers, NEW leads \in BOOLEAN, D!Start(w, leads) PROVE Matched'
  BY <1>17, <1>s DEF D!Start
<1>18. ASSUME NEW w \in Workers, D!Crash(w) PROVE Matched'
  <2>1. UNCHANGED <<checkpoint, stage, range>>
    BY <1>18 DEF D!Crash
  <2>2. \A v \in Workers : v # w => UNCHANGED <<pc[v], span[v], todo[v]>>
    BY <1>18, <1>t DEF D!Crash
  <2>3. pc'[w] = "idle"
    BY <1>18, <1>t DEF D!Crash
  <2> QED BY <2>1, <2>2, <2>3, <1>i, <1>m
<1>19. CASE \/ D!MineEmpty \/ (\E t \in Tx : D!Request(t)) \/ (\E a \in Addr : D!MineUpdate(a))
            \/ D!QueueChanges \/ UNCHANGED D!vars
  BY <1>19, <1>s DEF D!MineEmpty, D!Request, D!MineUpdate, D!QueueChanges, D!vars
<1> QED
  BY <1>1, <1>2, <1>3, <1>4, <1>5, <1>6, <1>7, <1>8, <1>9, <1>10, <1>11, <1>12, <1>13, <1>14,
     <1>15, <1>16, <1>17, <1>18, <1>19
  DEF D!Next, D!Loop, D!Discover, D!Faulty

(* A block brings requests and payments that the checkpoint is not past.   *)
LEMMA BlockHappens ==
    ASSUME D!TypeOK, D!TypeOK', Observed, Discovered, Later,
           UNCHANGED <<stored, fulfilled, checkpoint>>
    PROVE  D!Register!Happens
<1>t. /\ head \in Nat /\ checkpoint \in Nat /\ checkpoint <= head
      /\ asked \in [Tx -> Nat] /\ asked' \in [Tx -> Nat] /\ stored \subseteq Tx /\ fulfilled \subseteq Tx
      /\ \A e \in updates \cup updates' : e.block \in Nat
  BY DEF D!TypeOK, D!Update, Discovered, KnownBefore
<1>1. \A t \in Tx : asked[t] # 0 => asked'[t] = asked[t]
  BY DEF Later
<1>2. D!Documents(stored)' = D!Documents(stored) /\ D!Documents(fulfilled)' = D!Documents(fulfilled)
  <2>1. (\A t \in stored : asked[t] # 0) /\ (\A t \in fulfilled : asked[t] # 0)
    BY DEF Observed
  <2> QED BY <1>1, <1>t, <2>1 DEF D!Documents
<1>3. D!Documents(D!Requested) \subseteq D!Documents(D!Requested)'
  BY <1>1, <1>t DEF D!Documents, D!Requested
<1>4. ASSUME NEW d \in D!Documents(D!Requested)' \ D!Documents(D!Requested)
      PROVE  d.block > head
  <2>1. PICK t \in Tx : asked'[t] # 0 /\ d = [tx |-> t, block |-> asked'[t]]
    BY <1>4 DEF D!Documents, D!Requested
  <2>2. asked[t] = 0
    BY <1>1, <1>4, <2>1 DEF D!Documents, D!Requested
  <2> QED BY <2>1, <2>2 DEF Later
<1>5. D!Payments \subseteq D!Payments'
  BY <1>3 DEF D!Payments, Later
<1>6. ASSUME NEW p \in D!Payments' \ D!Payments PROVE p.block \in Nat /\ checkpoint <= p.block
  <2>1. /\ p \in [request : D!Documents(D!Requested)', block : {e.block : e \in updates'}]
        /\ \E e \in updates' : /\ e.addr = Requester[p.request.tx] /\ e.block = p.block
                               /\ p.request.block < p.block
    BY <1>6 DEF D!Payments
  <2>2. PICK e \in updates' : /\ e.addr = Requester[p.request.tx] /\ e.block = p.block
                              /\ p.request.block < p.block
    BY <2>1
  <2>3. CASE e \notin updates
    BY <1>t, <2>2, <2>3 DEF Later
  <2>4. CASE e \in updates
    <3>1. p.request \notin D!Documents(D!Requested)
      <4>1. SUFFICES ASSUME p.request \in D!Documents(D!Requested) PROVE FALSE
        OBVIOUS
      <4>2. p \in [request : D!Documents(D!Requested), block : {x.block : x \in updates}]
        BY <2>1, <2>2, <2>4, <4>1
      <4>3. QED  BY <1>6, <2>2, <2>4, <4>2 DEF D!Payments
    <3>2. p.request.block > head
      BY <1>4, <2>1, <3>1
    <3>3. p.request.block \in Nat
      BY <1>t, <2>1 DEF D!Documents, D!Requested
    <3>4. QED  BY <1>t, <2>2, <3>2, <3>3
  <2>5. QED  BY <2>3, <2>4
<1>7. \A d \in D!Documents(D!Requested)' \ D!Documents(D!Requested) : d.block \in Nat /\ checkpoint <= d.block
  <2>1. \A d \in D!Documents(D!Requested)' : d.block \in Nat
    BY <1>t DEF D!Documents, D!Requested
  <2> QED BY <1>4, <1>t, <2>1
<1> QED BY <1>2, <1>3, <1>5, <1>6, <1>7 DEF D!Register!Happens

(* A match closes requests for updates on the chain.                       *)
LEMMA MatchCloses ==
    ASSUME D!TypeOK, Observed, UNCHANGED <<asked, updates, stored, checkpoint>>,
           fulfilled \subseteq fulfilled',
           \A t \in fulfilled' \ fulfilled : t \in stored /\ D!UpdatedLater(t)
    PROVE  D!Register!Close
<1>1. UNCHANGED <<D!Documents(D!Requested), D!Payments, D!Documents(stored)>>
  BY DEF D!Documents, D!Requested, D!Payments
<1>2. D!Documents(fulfilled) \subseteq D!Documents(fulfilled)'
  BY DEF D!Documents
<1>3. ASSUME NEW d \in D!Documents(fulfilled)' \ D!Documents(fulfilled)
      PROVE  d \in D!Documents(stored) /\ \E p \in D!Payments : p.request = d
  <2>1. PICK t \in fulfilled' \ fulfilled : d = [tx |-> t, block |-> asked[t]]
    BY <1>3 DEF D!Documents
  <2>2. t \in Tx /\ t \in stored /\ asked[t] # 0
    BY <2>1 DEF Observed, D!TypeOK
  <2>3. PICK e \in updates : e.addr = Requester[t] /\ e.block > asked[t]
    BY <2>1 DEF D!UpdatedLater, Observed
  <2>4. d \in D!Documents(stored) /\ d \in D!Documents(D!Requested)
    BY <2>1, <2>2 DEF D!Documents, D!Requested
  <2>5. e.block \in Nat /\ asked[t] \in Nat
    BY <2>2 DEF D!TypeOK, D!Update
  <2> DEFINE p == [request |-> d, block |-> e.block]
  <2>6. p \in D!Payments
    BY <2>1, <2>3, <2>4, <2>5 DEF D!Payments
  <2> QED BY <2>4, <2>6
<1> QED BY <1>1, <1>2, <1>3 DEF D!Register!Close

(* The checkpoint moves to where nothing is missing and nothing is open.   *)
LEMMA CheckpointAdvances ==
    ASSUME D!TypeOK, D!TypeOK', Discovered', Matched',
           UNCHANGED <<asked, updates, stored, fulfilled>>
    PROVE  D!Register!Advance
<1>t. asked \in [Tx -> Nat] /\ checkpoint' \in Nat /\ stored \subseteq Tx /\ updates \subseteq D!Update
  BY DEF D!TypeOK
<1>1. UNCHANGED <<D!Documents(D!Requested), D!Payments, D!Documents(stored), D!Documents(fulfilled)>>
  BY DEF D!Documents, D!Requested, D!Payments
<1>2. ASSUME NEW t \in D!Requested, asked[t] < checkpoint' PROVE t \in stored
  BY <1>2 DEF D!Requested, Discovered, KnownBefore
<1>3. \A r \in D!Documents(D!Requested) : r.block < checkpoint' => r \in D!Documents(stored)
  BY <1>2 DEF D!Documents
<1>4. ASSUME NEW p \in D!Payments, p.block < checkpoint' PROVE p.request \in D!Documents(fulfilled)
  <2>1. PICK e \in updates : /\ e.addr = Requester[p.request.tx] /\ e.block = p.block
                             /\ p.request.block < p.block
    BY DEF D!Payments
  <2>2. p.request \in D!Documents(D!Requested)
    BY DEF D!Payments
  <2>3. PICK t \in D!Requested : p.request = [tx |-> t, block |-> asked[t]]
    BY <2>2 DEF D!Documents
  <2>4. asked[t] < e.block /\ e.block < checkpoint' /\ e.addr = Requester[t]
    BY <1>4, <2>1, <2>3
  <2>5. asked[t] \in Nat /\ e.block \in Nat
    BY <1>t, <2>3 DEF D!Requested, D!Update
  <2>6. t \in stored
    BY <1>2, <1>t, <2>4, <2>5
  <2>7. t \in fulfilled
    BY <2>1, <2>4, <2>6 DEF Matched, Served
  <2> QED BY <2>3, <2>7 DEF D!Documents
<1> QED BY <1>1, <1>3, <1>4, <1>t DEF D!Register!Advance

LEMMA RegisterStep ==
    ASSUME Careful, D!TypeOK, D!TypeOK', Observed, Observed', Discovered, Discovered', Matched',
           D!Next \/ UNCHANGED D!vars
    PROVE  D!Register!RegisterNext \/ UNCHANGED D!Register!vars
<1> DEFINE Goal == D!Register!RegisterNext \/ UNCHANGED D!Register!vars
<1> SUFFICES Goal
  OBVIOUS
<1> HIDE DEF Goal
<1> USE DEF D!chain, D!mongo, D!redis, D!local, D!work
<1>l. Later
  BY LaterStep
(* What the register does not show.                                        *)
<1>s. UNCHANGED <<asked, updates, stored, fulfilled, checkpoint>> => Goal
  BY DEF Goal, D!Register!vars, D!Documents, D!Requested, D!Payments
<1>v. UNCHANGED <<asked, updates, stored, fulfilled>> => Goal
  BY CheckpointAdvances DEF Goal, D!Register!RegisterNext
<1>1. CASE \E f \in Flows : D!DelayExpires(f) \/ D!JobStalls(f)
  BY <1>1, <1>s DEF D!DelayExpires, D!JobStalls
<1>2. ASSUME NEW w \in Workers, D!StoreEvent(w) PROVE Goal
  <2>1. UNCHANGED <<asked, updates, fulfilled, checkpoint>> /\ stored \subseteq stored'
    BY <1>2 DEF D!StoreEvent
  <2>2. /\ UNCHANGED <<D!Documents(D!Requested), D!Payments, D!Documents(fulfilled)>>
        /\ D!Documents(stored) \subseteq D!Documents(stored)'
    BY <2>1 DEF D!Documents, D!Requested, D!Payments
  <2>3. stored' \subseteq D!Requested
    BY <2>1 DEF Observed, D!Requested, D!TypeOK
  <2>4. D!Documents(stored)' \subseteq D!Documents(D!Requested)
    BY <2>1, <2>3 DEF D!Documents
  <2>5. D!Register!Record
    BY <2>1, <2>2, <2>4 DEF D!Register!Record
  <2> QED BY <2>5 DEF Goal, D!Register!RegisterNext
<1>3. ASSUME NEW w \in Workers, D!MatchRequests(w) \/ D!MatchFails(w) PROVE Goal
  <2>1. /\ UNCHANGED <<asked, updates, stored, checkpoint>> /\ fulfilled \subseteq fulfilled'
        /\ \A t \in fulfilled' \ fulfilled : t \in stored /\ D!UpdatedLater(t)
    BY <1>3 DEF D!MatchRequests, D!Matches, D!MatchFails, D!Unfulfilled
  <2> QED BY <2>1, MatchCloses DEF Goal, D!Register!RegisterNext
<1>4. ASSUME NEW w \in Workers, D!ReadCheckpoint(w) \/ D!WriteCheckpoint(w) PROVE Goal
  BY <1>4, <1>v DEF D!ReadCheckpoint, D!WriteCheckpoint
<1>5. ASSUME NEW w \in Workers, \/ D!QueryRequests(w) \/ D!QueryUpdates(w) \/ D!FinishDiscover(w)
                                \/ D!CountJobs(w) \/ D!AddFlow(w) \/ D!FinishMatch(w)
                                \/ D!DiscoverFails(w) \/ D!EnqueueFails(w)
      PROVE  Goal
  BY <1>5, <1>s DEF D!QueryRequests, D!QueryUpdates, D!FinishDiscover, D!CountJobs, D!AddFlow,
     D!FinishMatch, D!DiscoverFails, D!EnqueueFails
<1>6. ASSUME NEW w \in Workers, D!Bootstrap(w) PROVE Goal
  BY <1>6, <1>s DEF D!Bootstrap, D!NukeRequests, D!BootCount, D!BootAdd, Careful
<1>7. ASSUME NEW w \in Workers, \/ D!Crash(w) \/ \E leads \in BOOLEAN : D!Start(w, leads)
                                \/ \E f \in Flows : D!Take(w, f)
                                \/ \E t \in Tx : D!EnqueueUpdate(w, t)
      PROVE  Goal
  BY <1>7, <1>s DEF D!Crash, D!Start, D!Take, D!EnqueueUpdate
<1>8. CASE (\E t \in Tx : D!Request(t)) \/ (\E a \in Addr : D!MineUpdate(a))
  <2>1. UNCHANGED <<stored, fulfilled, checkpoint>>
    BY <1>8 DEF D!Request, D!MineUpdate
  <2> QED BY <2>1, <1>l, BlockHappens DEF Goal, D!Register!RegisterNext
<1>9. CASE D!MineEmpty \/ D!QueueChanges \/ UNCHANGED D!vars
  BY <1>9, <1>s DEF D!MineEmpty, D!QueueChanges, D!vars
<1> QED
  BY <1>1, <1>2, <1>3, <1>4, <1>5, <1>6, <1>7, <1>8, <1>9
  DEF D!Next, D!Loop, D!Discover, D!Faulty

(* The discovery implements the register for any number of processes and   *)
(* flows, although the checkpoint is overwritten without being read: what  *)
(* was requested below it is known, what was paid below it is closed.      *)
THEOREM ImplementsRegister == Careful => (Spec => KeepsRegister)
<1> SUFFICES ASSUME Careful PROVE Spec => KeepsRegister
  OBVIOUS
<1> DEFINE Inv == UpdatesInv /\ DiscoveryInv /\ LoopInv /\ Discovered /\ Matched
<1>1. Init => LoopInv /\ Discovered /\ Matched
  <2> SUFFICES ASSUME Init PROVE LoopInv /\ Discovered /\ Matched
    OBVIOUS
  <2> USE DiscoveryConstants DEF Init, D!InitBesideQueue
  <2>1. LoopInv
    BY DEF LoopInv, OwnerOK, Lost
  <2>2. Discovered
    BY DEF Discovered, KnownBefore, D!NoRange
  <2>3. Matched
    BY DEF Matched, UpdatesBefore, Served
  <2> QED BY <2>1, <2>2, <2>3
<1>2. UpdatesInv /\ DiscoveryInv /\ DiscoveryInv' /\ LoopInv /\ Discovered /\ Matched /\ [Next]_vars
        => (LoopInv /\ Discovered /\ Matched)'
  BY LoopInvStep, DiscoveredStep, MatchedStep, DiscoveryStepOf DEF DiscoveryInv
<1>3. UpdatesInv /\ DiscoveryInv /\ DiscoveryInv' /\ Discovered /\ Discovered' /\ Matched' /\ [Next]_vars
        => [D!Register!RegisterNext]_(D!Register!vars)
  BY RegisterStep, DiscoveryStepOf DEF DiscoveryInv
<1>4. Init => D!Register!RegisterInit
  BY DEF Init, D!InitBesideQueue, D!Register!RegisterInit, D!Documents, D!Requested, D!Payments
<1> QED
  BY <1>1, <1>2, <1>3, <1>4, UpdatesInvariant, DiscoveryInvariant, PTL
  DEF Spec, KeepsRegister, D!KeepsRegister, D!Register!RegisterSpec

=============================================================================
