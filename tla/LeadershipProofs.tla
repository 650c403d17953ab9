------------------------- MODULE LeadershipProofs -------------------------
(***************************************************************************)
(* Theorems about Leadership, for any number of processes, sessions and    *)
(* workers, every fault and any order of answers.                          *)
(***************************************************************************)
EXTENDS Leadership, SequenceTheorems, TLAPS

(* What a call to Consul is: on its way, or its answer.                    *)
Call == Answers \cup {"sent"}

USE DEF Call, Answers, Steps

(* Taking one call out of those in flight leaves calls that were there.    *)
LEMMA WithoutType ==
    ASSUME NEW s \in Seq(Call), NEW i \in DOMAIN s
    PROVE  /\ Without(s, i) \in Seq(Call)
           /\ \A j \in DOMAIN Without(s, i) : \E k \in DOMAIN s : Without(s, i)[j] = s[k]
<1> DEFINE n == Len(s)
           e(j) == IF j < i THEN s[j] ELSE s[j + 1]
<1>1. n \in Nat /\ DOMAIN s = 1..n /\ i \in 1..n /\ \A k \in 1..n : s[k] \in Call
  OBVIOUS
<1>2. \A j \in 1..(n - 1) : j \in 1..n /\ j + 1 \in 1..n
  BY <1>1
<1>3. Without(s, i) = [j \in 1..(n - 1) |-> e(j)]
  BY DEF Without
<1>4. \A j \in 1..(n - 1) : e(j) \in Call /\ \E k \in 1..n : e(j) = s[k]
  BY <1>1, <1>2
<1>5. n - 1 \in Nat
  BY <1>1
<1>6. [j \in 1..(n - 1) |-> e(j)] \in Seq(Call)
  <2> HIDE DEF e, Call
  <2> QED BY <1>4, <1>5
<1>7. DOMAIN Without(s, i) = 1..(n - 1)
  BY <1>3
<1> QED BY <1>1, <1>3, <1>4, <1>6, <1>7

-----------------------------------------------------------------------------
(* Type correctness.                                                       *)

(* The part of TypeOK that startAll and pauseAll disturb.                  *)
WorkersOK ==
    /\ worker \in [Processes -> [Queues -> {"stopped", "active", "paused"}]]
    /\ busy \in [Processes -> SUBSET Queues]
    /\ pausing \in [Processes -> SUBSET PauseRun]

LEMMA FirstQueue == 1 \in Queues
BY LeadershipAssumption DEF Queues

LEMMA StartAllType ==
    ASSUME WorkersOK, NEW p \in Processes, StartAll(p)
    PROVE  WorkersOK'
BY DEF WorkersOK, StartAll

LEMMA PauseType ==
    ASSUME WorkersOK, NEW p \in Processes, NEW q \in Queues, NEW runs \in SUBSET PauseRun,
           Pause(p, q, runs)
    PROVE  WorkersOK'
<1>1. [at |-> q, waits |-> worker[p][q] = "active" /\ q \in busy[p]] \in PauseRun
  BY DEF PauseRun
<1>2. pausing' \in [Processes -> SUBSET PauseRun]
  BY <1>1 DEF WorkersOK, Pause
<1>3. worker' \in [Processes -> [Queues -> {"stopped", "active", "paused"}]]
  BY DEF WorkersOK, Pause
<1> QED BY <1>2, <1>3 DEF WorkersOK, Pause

(* A process that ends loses what it kept in memory.                       *)
LEMMA GoneType ==
    ASSUME TypeOK, NEW p \in Processes, Gone(p), upsets' \in Nat
    PROVE  TypeOK'
<1>1. <<>> \in Seq(Call)
  OBVIOUS
<1>2. calls' \in [Processes -> Seq(Call)]
  BY <1>1 DEF TypeOK, Gone
<1> QED BY <1>2 DEF TypeOK, Gone, consul, PauseRun

(* Every state variable keeps its type, for any number of processes,       *)
(* sessions and workers.                                                   *)
LEMMA TypeStep == TypeOK /\ [Next]_vars => TypeOK'
<1> SUFFICES ASSUME TypeOK, [Next]_vars PROVE TypeOK'
  OBVIOUS
<1>0. WorkersOK /\ calls \in [Processes -> Seq(Call)]
  BY DEF TypeOK, WorkersOK
<1>1. CASE LockDelayOver
  BY <1>1 DEF TypeOK, LockDelayOver, workers
<1>2. CASE \E s \in Sessions : Expire(s)
  BY <1>2 DEF TypeOK, Expire, Invalidate, Watching, workers
<1>3. ASSUME NEW p \in Processes, OtherKeyWritten(p) PROVE TypeOK'
  BY <1>3 DEF TypeOK, OtherKeyWritten, consul, workers
<1>4. ASSUME NEW p \in Processes, Start(p) PROVE TypeOK'
  BY <1>4 DEF TypeOK, Start, consul, workers
<1>5. ASSUME NEW p \in Processes, CreateSession(p) PROVE TypeOK'
  <2>1. <<"sent">> \in Seq(Call)
    OBVIOUS
  <2>2. calls' \in [Processes -> Seq(Call)]
    BY <1>0, <1>5, <2>1 DEF CreateSession
  <2> QED BY <1>5, <2>2 DEF TypeOK, CreateSession, workers
<1>6. ASSUME NEW p \in Processes, CreateFails(p) PROVE TypeOK'
  BY <1>6 DEF TypeOK, CreateFails, consul, workers
<1>7. ASSUME NEW p \in Processes, Bootstrapped(p) PROVE TypeOK'
  <2>1. WorkersOK'
    BY <1>0, <1>7, StartAllType DEF Bootstrapped, workers, WorkersOK
  <2> QED BY <1>7, <2>1 DEF TypeOK, Bootstrapped, consul, WorkersOK
<1>8. ASSUME NEW p \in Processes, Watch(p) PROVE TypeOK'
  <2>1. Append(calls[p], "sent") \in Seq(Call)
    BY <1>0
  <2>2. calls' \in [Processes -> Seq(Call)]
    BY <1>0, <1>8, <2>1 DEF Watch
  <2> QED BY <1>8, <2>2 DEF TypeOK, Watch, consul, workers
<1>9. ASSUME NEW p \in Processes, NEW i \in 1..MaxCalls, Acquire(p, i) PROVE TypeOK'
  <2>1. PICK a \in Outcomes(p), seen \in Call :
           /\ \/ holder' = session[p] /\ changed' = Watching
              \/ UNCHANGED <<holder, changed>>
           /\ calls' = [calls EXCEPT ![p][i] = seen]
    <3>1. Outcomes(p) \subseteq Call
      BY LeadershipAssumption DEF Outcomes
    <3> QED BY <1>9, <3>1 DEF Acquire
  <2>2. [calls[p] EXCEPT ![i] = seen] \in Seq(Call)
    BY <1>0, <1>9, ExceptSeq DEF Acquire
  <2>3. calls' \in [Processes -> Seq(Call)]
    BY <1>0, <2>1, <2>2
  <2> QED BY <1>9, <2>1, <2>3 DEF TypeOK, Acquire, Watching, workers
<1>10. ASSUME NEW p \in Processes, NEW i \in 1..MaxCalls, Answered(p, i) PROVE TypeOK'
  <2>1. Without(calls[p], i) \in Seq(Call)
    BY <1>0, <1>10, WithoutType DEF Answered
  <2>2. calls' \in [Processes -> Seq(Call)]
    BY <1>0, <1>10, <2>1 DEF Answered
  <2>3. WorkersOK'
    <3>1. PauseAll(p) => WorkersOK'
      BY <1>0, FirstQueue, PauseType DEF PauseAll, WorkersOK
    <3> QED BY <1>0, <1>10, <3>1, StartAllType DEF Answered, workers, WorkersOK
  <2>4. isLeader' \in [Processes -> BOOLEAN]
    BY <1>10 DEF TypeOK, Answered, LeaderAfter
  <2>5. pc' \in [Processes -> Steps] /\ changed' \in SUBSET Processes
    BY <1>10 DEF TypeOK, Answered
  <2>6. UNCHANGED <<alive, holder, delayed, session, upsets>>
    BY <1>10 DEF Answered, consul
  <2> QED BY <2>2, <2>3, <2>4, <2>5, <2>6 DEF TypeOK, WorkersOK
<1>11. ASSUME NEW p \in Processes, Shutdown(p) PROVE TypeOK'
  BY <1>11 DEF TypeOK, Shutdown, consul, workers
<1>12. ASSUME NEW p \in Processes, DestroySession(p) PROVE TypeOK'
  BY <1>12 DEF TypeOK, DestroySession, Invalidate, Watching, consul, workers
<1>13. ASSUME NEW p \in Processes, Closed(p) \/ Crash(p) PROVE TypeOK'
  BY <1>13, GoneType DEF TypeOK, Closed, Crash
<1>14. ASSUME NEW p \in Processes, NEW r \in pausing[p], PauseNext(p, r) PROVE TypeOK'
  <2>1. r \in PauseRun /\ pausing[p] \ {r} \in SUBSET PauseRun
    BY <1>0 DEF WorkersOK
  <2>2. WorkersOK'
    <3>1. r.at # NumWorkers => r.at + 1 \in Queues
      BY <2>1, LeadershipAssumption DEF PauseRun, Queues
    <3>2. CASE r.at = NumWorkers
      BY <1>0, <1>14, <3>2 DEF PauseNext, WorkersOK
    <3>3. CASE r.at # NumWorkers
      BY <1>0, <1>14, <2>1, <3>1, <3>3, PauseType DEF PauseNext
    <3> QED BY <3>2, <3>3
  <2> QED BY <1>14, <2>2 DEF TypeOK, PauseNext, consul, WorkersOK
<1>15. ASSUME NEW p \in Processes, NEW q \in Queues, TakeJob(p, q) PROVE TypeOK'
  BY <1>15 DEF TypeOK, TakeJob, consul
<1>16. ASSUME NEW p \in Processes, NEW q \in Queues, FinishJob(p, q) PROVE TypeOK'
  <2>1. \A r \in PauseRun : [r EXCEPT !.waits = FALSE] \in PauseRun
    BY DEF PauseRun
  <2>2. pausing' \in [Processes -> SUBSET PauseRun]
    BY <1>16, <2>1 DEF TypeOK, FinishJob
  <2> QED BY <1>16, <2>2 DEF TypeOK, FinishJob, consul
<1>17. CASE UNCHANGED vars
  BY <1>17 DEF TypeOK, vars, consul, workers
<1> QED
  BY <1>1, <1>2, <1>3, <1>4, <1>5, <1>6, <1>7, <1>8, <1>9, <1>10, <1>11, <1>12, <1>13,
     <1>14, <1>15, <1>16, <1>17
  DEF Next, Bootstrap, Election, Ending, Working

(* TypeOK holds in every reachable state.                                  *)
THEOREM TypeCorrect == Spec => []TypeOK
<1>1. Init => TypeOK
  <2> SUFFICES ASSUME Init PROVE TypeOK
    OBVIOUS
  <2>1. <<>> \in Seq(Call)
    OBVIOUS
  <2>2. calls \in [Processes -> Seq(Call)]
    BY <2>1 DEF Init
  <2>3. WorkersOK
    BY DEF Init, WorkersOK
  <2> QED BY <2>2, <2>3 DEF Init, TypeOK, WorkersOK
<1> QED BY <1>1, TypeStep, PTL DEF Spec

-----------------------------------------------------------------------------
(* The lease.  OneLiveLeader is not inductive: isLeader is set from an     *)
(* answer that was given earlier, so an answer that waits must keep what   *)
(* it says as long as its session lives; a process without a session       *)
(* neither leads nor waits; and no two processes share a session.          *)

AnswersHold ==
    \A p \in Processes : \A i \in DOMAIN calls[p] :
        calls[p][i] = "won" /\ session[p] \in alive => holder = session[p]

OwnSession ==
    \A p, o \in Processes : session[p] = session[o] /\ session[p] # NoSession => p = o

StartsAfresh ==
    \A p \in Processes : pc[p] \in {"down", "session"} => ~isLeader[p] /\ calls[p] = <<>>

Lease == OneLiveLeader /\ AnswersHold /\ OwnSession /\ StartsAfresh

(* What keeps the lease: whoever holds on to its session, its answers and  *)
(* its belief keeps them true while the key stays where it is.             *)
LEMMA LeaseKept ==
    ASSUME TypeOK, TypeOK', Lease, UNCHANGED <<session, isLeader, calls>>,
           alive' \subseteq alive,
           \A p \in Processes : pc'[p] \in {"down", "session"} => pc[p] \in {"down", "session"},
           \A s \in alive' : holder = s => holder' = s
    PROVE  Lease'
BY DEF TypeOK, Lease, OneLiveLeader, AnswersHold, OwnSession, StartsAfresh

(* An invalidated session takes only its own key with it.                  *)
LEMMA InvalidateKeeps ==
    ASSUME TypeOK, NEW s \in Sessions, Invalidate(s)
    PROVE  alive' \subseteq alive /\ \A t \in alive' : holder = t => holder' = t
BY DEF Invalidate

(* A process that ended has no session left to hold anything.              *)
LEMMA LeaseGone ==
    ASSUME TypeOK, Lease, NEW p \in Processes, Gone(p)
    PROVE  Lease'
<1>1. /\ session' = [session EXCEPT ![p] = NoSession]
      /\ isLeader' = [isLeader EXCEPT ![p] = FALSE]
      /\ calls' = [calls EXCEPT ![p] = <<>>]
      /\ pc' = [pc EXCEPT ![p] = "down"]
      /\ UNCHANGED <<alive, holder>>
  BY DEF Gone, consul
<1>2. OneLiveLeader'
  BY <1>1 DEF TypeOK, Lease, OneLiveLeader
<1>3. AnswersHold'
  BY <1>1 DEF TypeOK, Lease, AnswersHold
<1>4. OwnSession'
  BY <1>1 DEF TypeOK, Lease, OwnSession
<1>5. StartsAfresh'
  BY <1>1 DEF TypeOK, Lease, StartsAfresh
<1> QED BY <1>2, <1>3, <1>4, <1>5 DEF Lease

LEMMA LeaseStep == TypeOK /\ TypeOK' /\ Lease /\ [Next]_vars => Lease'
<1> SUFFICES ASSUME TypeOK, TypeOK', Lease, [Next]_vars PROVE Lease'
  OBVIOUS
<1>0. calls \in [Processes -> Seq(Call)] /\ NoSession \notin alive
  BY LeadershipAssumption DEF TypeOK
<1>1. CASE LockDelayOver
  BY <1>1, LeaseKept DEF LockDelayOver
<1>2. CASE \E s \in Sessions : Expire(s)
  BY <1>2, LeaseKept, InvalidateKeeps DEF Expire
<1>3. ASSUME NEW p \in Processes,
             OtherKeyWritten(p) \/ CreateFails(p) \/ Shutdown(p)
      PROVE  Lease'
  BY <1>3, LeaseKept DEF TypeOK, OtherKeyWritten, CreateFails, Shutdown, consul
<1>4. ASSUME NEW p \in Processes, Start(p) PROVE Lease'
  BY <1>4, LeaseKept DEF TypeOK, Start, consul
<1>5. ASSUME NEW p \in Processes, CreateSession(p) PROVE Lease'
  <2>1. PICK s \in Sessions \ (alive \cup {session[o] : o \in Processes}) :
           alive' = alive \cup {s} /\ session' = [session EXCEPT ![p] = s]
    BY <1>5 DEF CreateSession
  <2>2. /\ UNCHANGED <<holder, isLeader>>
        /\ pc[p] = "session" /\ pc' = [pc EXCEPT ![p] = "election"]
        /\ calls' = [calls EXCEPT ![p] = <<"sent">>]
    BY <1>5 DEF CreateSession
  <2>3. ~isLeader[p] /\ \A o \in Processes : session[o] # s
    BY <2>1, <2>2 DEF Lease, StartsAfresh
  <2>4. OneLiveLeader'
    BY <2>1, <2>2, <2>3 DEF TypeOK, Lease, OneLiveLeader
  <2>5. AnswersHold'
    BY <2>1, <2>2, <2>3 DEF TypeOK, Lease, AnswersHold
  <2>6. OwnSession'
    BY <2>1, <2>3 DEF TypeOK, Lease, OwnSession
  <2>7. StartsAfresh'
    BY <2>2 DEF TypeOK, Lease, StartsAfresh
  <2> QED BY <2>4, <2>5, <2>6, <2>7 DEF Lease
<1>6. ASSUME NEW p \in Processes, Bootstrapped(p) PROVE Lease'
  BY <1>6, LeaseKept DEF TypeOK, Bootstrapped, consul
<1>7. ASSUME NEW p \in Processes, Watch(p) PROVE Lease'
  <2>1. /\ UNCHANGED <<alive, holder, pc, session, isLeader>>
        /\ calls' = [calls EXCEPT ![p] = Append(@, "sent")]
        /\ pc[p] \in {"boot", "up"}
    BY <1>7 DEF Watch, Watching, consul
  <2>2. AnswersHold'
    <3> SUFFICES ASSUME NEW o \in Processes, NEW i \in DOMAIN calls'[o],
                        calls'[o][i] = "won", session[o] \in alive
                 PROVE  holder = session[o]
      BY <2>1 DEF AnswersHold
    <3>1. i \in DOMAIN calls[o] /\ calls[o][i] = "won"
      BY <1>0, <2>1
    <3> QED BY <3>1 DEF Lease, AnswersHold
  <2> QED BY <2>1, <2>2 DEF TypeOK, Lease, OneLiveLeader, OwnSession, StartsAfresh
<1>8. ASSUME NEW p \in Processes, NEW i \in 1..MaxCalls, Acquire(p, i) PROVE Lease'
  <2>a. PICK a \in Outcomes(p) :
           /\ IF a = "won" /\ holder # session[p]
              THEN holder' = session[p] ELSE UNCHANGED holder
           /\ \E seen \in {a, "error"} : calls' = [calls EXCEPT ![p][i] = seen]
    BY <1>8 DEF Acquire
  <2>b. PICK seen \in {a, "error"} : calls' = [calls EXCEPT ![p][i] = seen]
    BY <2>a
  <2>1. /\ IF a = "won" /\ holder # session[p]
           THEN holder' = session[p] ELSE UNCHANGED holder
        /\ calls' = [calls EXCEPT ![p][i] = seen]
    BY <2>a, <2>b
  <2>2. /\ UNCHANGED <<alive, pc, session, isLeader>>
        /\ i \in DOMAIN calls[p] /\ calls[p][i] = "sent"
    BY <1>8 DEF Acquire
  <2>3. a = "won" => /\ session[p] \in alive
                     /\ holder \in {NoSession, session[p]}
    BY LeadershipAssumption DEF Outcomes
  <2>4. \A s \in alive : holder = s => holder' = s
    BY <1>0, <2>1, <2>3
  <2>5. a = "won" => holder' = session[p]
    BY <2>1
  <2>6. OneLiveLeader'
    BY <2>2, <2>4 DEF Lease, OneLiveLeader
  <2>7. AnswersHold'
    <3> SUFFICES ASSUME NEW o \in Processes, NEW j \in DOMAIN calls'[o],
                        calls'[o][j] = "won", session[o] \in alive
                 PROVE  holder' = session[o]
      BY <2>2 DEF AnswersHold
    <3>1. CASE o = p /\ j = i
      BY <1>0, <2>1, <2>2, <2>5, <3>1
    <3>2. CASE ~(o = p /\ j = i)
      <4>1. j \in DOMAIN calls[o] /\ calls[o][j] = "won"
        BY <1>0, <2>1, <2>2, <3>2
      <4> QED BY <2>4, <4>1 DEF Lease, AnswersHold
    <3> QED BY <3>1, <3>2
  <2>8. OwnSession'
    BY <2>2 DEF Lease, OwnSession
  <2>9. StartsAfresh'
    <3>1. calls[p] # <<>>
      BY <1>0, <2>2
    <3> QED BY <1>0, <2>1, <2>2, <3>1 DEF Lease, StartsAfresh
  <2> QED BY <2>6, <2>7, <2>8, <2>9 DEF Lease
<1>9. ASSUME NEW p \in Processes, NEW i \in 1..MaxCalls, Answered(p, i) PROVE Lease'
  <2>1. /\ UNCHANGED <<alive, holder, session>>
        /\ i \in DOMAIN calls[p]
        /\ isLeader' = [isLeader EXCEPT ![p] = LeaderAfter(p, calls[p][i])]
        /\ calls' = [calls EXCEPT ![p] = Without(@, i)]
        /\ pc' = pc \/ (pc[p] = "election" /\ pc' = [pc EXCEPT ![p] = "boot"])
    BY <1>9 DEF Answered, consul
  <2>2. \A j \in DOMAIN Without(calls[p], i) :
           \E k \in DOMAIN calls[p] : Without(calls[p], i)[j] = calls[p][k]
    BY <1>0, <2>1, WithoutType
  <2>3. OneLiveLeader'
    <3>1. isLeader'[p] /\ session[p] \in alive => holder = session[p]
      BY <2>1 DEF TypeOK, Lease, OneLiveLeader, AnswersHold, LeaderAfter
    <3> QED BY <2>1, <3>1 DEF TypeOK, Lease, OneLiveLeader
  <2>4. AnswersHold'
    <3> SUFFICES ASSUME NEW o \in Processes, NEW j \in DOMAIN calls'[o],
                        calls'[o][j] = "won", session[o] \in alive
                 PROVE  holder = session[o]
      BY <2>1 DEF AnswersHold
    <3>1. \E k \in DOMAIN calls[o] : calls[o][k] = "won"
      BY <1>0, <2>1, <2>2
    <3> QED BY <3>1 DEF Lease, AnswersHold
  <2>5. OwnSession'
    BY <2>1 DEF Lease, OwnSession
  <2>6. StartsAfresh'
    <3>1. pc[p] \notin {"down", "session"}
      BY <1>0, <2>1 DEF Lease, StartsAfresh
    <3> QED BY <2>1, <3>1 DEF TypeOK, Lease, StartsAfresh
  <2> QED BY <2>3, <2>4, <2>5, <2>6 DEF Lease
<1>10. ASSUME NEW p \in Processes, DestroySession(p) PROVE Lease'
  <2>1. alive' \subseteq alive /\ \A s \in alive' : holder = s => holder' = s
    BY <1>10, InvalidateKeeps DEF TypeOK, DestroySession, consul
  <2> QED BY <1>10, <2>1, LeaseKept DEF TypeOK, DestroySession
<1>11. ASSUME NEW p \in Processes, Closed(p) \/ Crash(p) PROVE Lease'
  BY <1>11, LeaseGone DEF Closed, Crash
<1>12. ASSUME NEW p \in Processes, Working(p) PROVE Lease'
  <2>1. UNCHANGED <<consul, pc, session, isLeader, calls>>
    BY <1>12 DEF Working, PauseNext, TakeJob, FinishJob
  <2> QED BY <2>1, LeaseKept DEF consul
<1>13. CASE UNCHANGED vars
  BY <1>13, LeaseKept DEF vars, consul
<1> QED
  BY <1>1, <1>2, <1>3, <1>4, <1>5, <1>6, <1>7, <1>8, <1>9, <1>10, <1>11, <1>12, <1>13
  DEF Next, Bootstrap, Election, Ending

(* Of the processes whose session exists, only the one that holds the key  *)
(* believes that it leads, however calls, answers and restarts interleave. *)
THEOREM LeaderIsLive == Spec => []OneLiveLeader
<1>1. Init => Lease
  BY DEF Init, Lease, OneLiveLeader, AnswersHold, OwnSession, StartsAfresh
<1>2. Lease => OneLiveLeader
  BY DEF Lease
<1> QED BY <1>1, <1>2, LeaseStep, TypeCorrect, PTL DEF Spec

-----------------------------------------------------------------------------
(* The standby.  StandbyRests needs to know, besides, that no worker runs  *)
(* before the process is up, and that a process that answers is no fresh   *)
(* one (StartsAfresh).                                                     *)

StoppedAtFirst ==
    \A p \in Processes :
        pc[p] \in {"down", "session", "election", "boot"}
            => \A q \in Queues : worker[p][q] # "active"

Rests == StandbyRests /\ StoppedAtFirst

(* What a process does to its workers leaves those of the others alone.    *)
LEMMA RestsByOne ==
    ASSUME Rests, NEW p \in Processes,
           \A o \in Processes \ {p} : /\ pc'[o] = pc[o] /\ isLeader'[o] = isLeader[o]
                                      /\ worker'[o] = worker[o] /\ pausing'[o] = pausing[o],
           pc'[p] = "up" /\ ~isLeader'[p]
               => \A q \in Queues : worker'[p][q] = "active" => \E r \in pausing'[p] : r.at < q,
           pc'[p] \in {"down", "session", "election", "boot"}
               => \A q \in Queues : worker'[p][q] # "active"
    PROVE  Rests'
BY DEF Rests, StandbyRests, StoppedAtFirst

(* A round of pauseAll moves its run past one more worker and pauses that. *)
LEMMA PauseRests ==
    ASSUME TypeOK, NEW p \in Processes, NEW n \in Queues, NEW runs, Pause(p, n, runs),
           \A q \in Queues : worker[p][q] = "active" => q >= n \/ \E r \in runs : r.at < q
    PROVE  \A q \in Queues : worker'[p][q] = "active" => \E r \in pausing'[p] : r.at < q
<1> DEFINE run == [at |-> n, waits |-> worker[p][n] = "active" /\ n \in busy[p]]
<1>1. pausing'[p] = runs \cup {run} /\ run.at = n
  BY DEF TypeOK, Pause
<1>2. \A q \in Queues : worker'[p][q] = "active" => worker[p][q] = "active" /\ q # n
  BY DEF TypeOK, Pause
<1>3. \A q \in Queues : q >= n /\ q # n => n < q
  BY LeadershipAssumption DEF Queues
<1> QED BY <1>1, <1>2, <1>3

LEMMA RestsStep == TypeOK /\ TypeOK' /\ Lease /\ Rests /\ [Next]_vars => Rests'
<1> SUFFICES ASSUME TypeOK, TypeOK', Lease, Rests, [Next]_vars PROVE Rests'
  OBVIOUS
<1>1. CASE LockDelayOver
  BY <1>1 DEF LockDelayOver, Rests, StandbyRests, StoppedAtFirst, workers
<1>2. CASE \E s \in Sessions : Expire(s)
  BY <1>2 DEF Expire, Rests, StandbyRests, StoppedAtFirst, workers
<1>3. ASSUME NEW p \in Processes,
             \/ OtherKeyWritten(p) \/ Watch(p)
             \/ \E i \in 1..MaxCalls : Acquire(p, i)
      PROVE  Rests'
  BY <1>3 DEF OtherKeyWritten, Watch, Acquire, Rests, StandbyRests, StoppedAtFirst, workers
<1>4. ASSUME NEW p \in Processes,
             \/ Start(p) \/ CreateSession(p) \/ CreateFails(p)
             \/ Shutdown(p) \/ DestroySession(p)
      PROVE  Rests'
  <2>1. pc'[p] # "up" /\ UNCHANGED <<isLeader, workers>> /\ pc' = [pc EXCEPT ![p] = pc'[p]]
    BY <1>4 DEF TypeOK, Start, CreateSession, CreateFails, Shutdown, DestroySession
  <2>2. pc'[p] \in {"down", "session", "election", "boot"}
            => pc[p] \in {"down", "session", "election", "boot"}
    BY <1>4 DEF TypeOK, Start, CreateSession, CreateFails, Shutdown, DestroySession
  <2> QED BY <2>1, <2>2, RestsByOne DEF TypeOK, Rests, StoppedAtFirst, workers
<1>5. ASSUME NEW p \in Processes, Bootstrapped(p) PROVE Rests'
  <2>1. /\ pc[p] = "boot" /\ pc' = [pc EXCEPT ![p] = "up"] /\ UNCHANGED isLeader
        /\ isLeader[p] \/ UNCHANGED workers
        /\ \A o \in Processes \ {p} : worker'[o] = worker[o] /\ pausing'[o] = pausing[o]
    BY <1>5 DEF TypeOK, Bootstrapped, StartAll, workers
  <2>2. ~isLeader[p] => \A q \in Queues : worker'[p][q] # "active"
    BY <2>1 DEF Rests, StoppedAtFirst, workers
  <2> QED BY <2>1, <2>2, RestsByOne DEF TypeOK
<1>6. ASSUME NEW p \in Processes, NEW i \in 1..MaxCalls, Answered(p, i) PROVE Rests'
  <2> DEFINE leader == LeaderAfter(p, calls[p][i])
  <2>1. /\ isLeader' = [isLeader EXCEPT ![p] = leader]
        /\ IF pc[p] \in {"election", "boot"} \/ leader = isLeader[p]
           THEN UNCHANGED workers
           ELSE IF leader THEN StartAll(p) ELSE PauseAll(p)
        /\ pc' = pc \/ (pc[p] = "election" /\ pc' = [pc EXCEPT ![p] = "boot"])
        /\ calls[p] # <<>>
    BY <1>6 DEF TypeOK, Answered
  <2>2. pc[p] \notin {"down", "session"}
    BY <2>1 DEF Lease, StartsAfresh
  <2>3. leader \in BOOLEAN /\ isLeader'[p] = leader
    BY <2>1 DEF TypeOK, LeaderAfter
  <2>4. \A o \in Processes \ {p} : worker'[o] = worker[o] /\ pausing'[o] = pausing[o]
    BY <2>1 DEF TypeOK, StartAll, PauseAll, Pause, workers
  <2>5. CASE UNCHANGED workers /\ (pc[p] \in {"election", "boot"} \/ leader = isLeader[p])
    <3>1. pc'[p] = "up" => pc[p] = "up"
      BY <2>1 DEF TypeOK
    <3>2. pc'[p] \in {"down", "session", "election", "boot"} => pc[p] \in {"election", "boot"}
      BY <2>1, <2>2 DEF TypeOK
    <3> QED BY <2>1, <2>3, <2>4, <2>5, <3>1, <3>2, RestsByOne
            DEF TypeOK, Rests, StandbyRests, StoppedAtFirst, workers
  <2>6. CASE pc[p] \notin {"election", "boot"} /\ leader
    <3>1. pc'[p] \notin {"down", "session", "election", "boot"}
      BY <2>1, <2>2, <2>6 DEF TypeOK
    <3> QED BY <2>1, <2>3, <2>4, <2>6, <3>1, RestsByOne DEF TypeOK
  <2>7. CASE pc[p] \notin {"election", "boot"} /\ ~leader /\ PauseAll(p)
    <3>1. pc'[p] \notin {"down", "session", "election", "boot"}
      BY <2>1, <2>2, <2>7 DEF TypeOK
    <3>2. \A q \in Queues : q >= 1
      BY LeadershipAssumption DEF Queues
    <3>3. \A q \in Queues : worker'[p][q] = "active" => \E r \in pausing'[p] : r.at < q
      BY <2>7, <3>2, FirstQueue, PauseRests DEF PauseAll
    <3> QED BY <2>1, <2>3, <2>4, <3>1, <3>3, RestsByOne DEF TypeOK
  <2> QED BY <2>1, <2>3, <2>5, <2>6, <2>7
<1>7. ASSUME NEW p \in Processes, Closed(p) \/ Crash(p) PROVE Rests'
  <2>1. /\ pc' = [pc EXCEPT ![p] = "down"]
        /\ isLeader' = [isLeader EXCEPT ![p] = FALSE]
        /\ worker' = [worker EXCEPT ![p] = [q \in Queues |-> "stopped"]]
        /\ pausing' = [pausing EXCEPT ![p] = {}]
    BY <1>7 DEF Closed, Crash, Gone
  <2>2. pc'[p] = "down" /\ \A q \in Queues : worker'[p][q] # "active"
    BY <2>1 DEF TypeOK
  <2>3. \A o \in Processes \ {p} : /\ pc'[o] = pc[o] /\ isLeader'[o] = isLeader[o]
                                  /\ worker'[o] = worker[o] /\ pausing'[o] = pausing[o]
    BY <2>1 DEF TypeOK
  <2> QED BY <2>2, <2>3, RestsByOne
<1>8. ASSUME NEW p \in Processes, NEW r \in pausing[p], PauseNext(p, r) PROVE Rests'
  <2>1. UNCHANGED <<pc, isLeader>> /\ r \in PauseRun
    BY <1>8 DEF TypeOK, PauseNext
  <2>2. \A o \in Processes \ {p} : worker'[o] = worker[o] /\ pausing'[o] = pausing[o]
    BY <1>8 DEF TypeOK, PauseNext, Pause
  <2>3. \A q \in Queues : worker'[p][q] = "active" => worker[p][q] = "active"
    BY <1>8 DEF TypeOK, PauseNext, Pause
  <2>4. ASSUME pc[p] = "up", ~isLeader[p]
        PROVE  \A q \in Queues : worker'[p][q] = "active" => \E t \in pausing'[p] : t.at < q
    <3>1. \A q \in Queues : worker[p][q] = "active" => \E t \in pausing[p] : t.at < q
      BY <2>4 DEF Rests, StandbyRests
    <3>2. CASE r.at = NumWorkers
      <4>1. pausing'[p] = pausing[p] \ {r} /\ worker' = worker
        BY <1>8, <3>2 DEF TypeOK, PauseNext
      <4>2. \A q \in Queues : ~(r.at < q)
        BY <3>2, LeadershipAssumption DEF Queues
      <4> QED BY <3>1, <4>1, <4>2
    <3>3. CASE r.at # NumWorkers
      <4>1. r.at + 1 \in Queues /\ Pause(p, r.at + 1, pausing[p] \ {r})
        BY <1>8, <2>1, <3>3, LeadershipAssumption DEF PauseNext, PauseRun, Queues
      <4>2. \A q \in Queues : r.at < q => q >= r.at + 1
        BY <2>1, LeadershipAssumption DEF PauseRun, Queues
      <4>3. \A q \in Queues : worker[p][q] = "active"
               => q >= r.at + 1 \/ \E t \in pausing[p] \ {r} : t.at < q
        BY <3>1, <4>2
      <4> QED BY <4>1, <4>3, PauseRests
    <3> QED BY <3>2, <3>3
  <2> QED BY <2>1, <2>2, <2>3, <2>4, RestsByOne DEF Rests, StoppedAtFirst
<1>9. ASSUME NEW p \in Processes, NEW q \in Queues, TakeJob(p, q) PROVE Rests'
  BY <1>9 DEF TakeJob, Rests, StandbyRests, StoppedAtFirst
<1>10. ASSUME NEW p \in Processes, NEW q \in Queues, FinishJob(p, q) PROVE Rests'
  <2>1. UNCHANGED <<pc, isLeader, worker>>
    BY <1>10 DEF FinishJob
  <2>2. \A o \in Processes \ {p} : pausing'[o] = pausing[o]
    BY <1>10 DEF TypeOK, FinishJob
  <2>3. \A r \in pausing[p] : \E t \in pausing'[p] : t.at = r.at
    <3> SUFFICES ASSUME NEW r \in pausing[p] PROVE \E t \in pausing'[p] : t.at = r.at
      OBVIOUS
    <3>1. r \in PauseRun
      BY DEF TypeOK
    <3> DEFINE over(x) == IF x.at = q THEN [x EXCEPT !.waits = FALSE] ELSE x
    <3>a. pausing'[p] = {over(x) : x \in pausing[p]}
      BY <1>10 DEF TypeOK, FinishJob
    <3>2. over(r) \in pausing'[p]
      <4> HIDE DEF over
      <4> QED BY <3>a
    <3>3. over(r).at = r.at
      BY <3>1 DEF PauseRun
    <3> QED BY <3>2, <3>3
  <2> QED BY <2>1, <2>2, <2>3, RestsByOne DEF Rests, StandbyRests, StoppedAtFirst
<1>11. CASE UNCHANGED vars
  BY <1>11 DEF vars, workers, Rests, StandbyRests, StoppedAtFirst
<1> QED
  BY <1>1, <1>2, <1>3, <1>4, <1>5, <1>6, <1>7, <1>8, <1>9, <1>10, <1>11
  DEF Next, Bootstrap, Election, Ending, Working

(* On a process that lost the election every worker that still runs has a  *)
(* run of pauseAll on its way to it, whatever was won and lost before, in  *)
(* whatever order the answers came.                                        *)
THEOREM StandbyIsPaused == Spec => []StandbyRests
<1>1. Init => Lease /\ Rests
  BY DEF Init, Lease, OneLiveLeader, AnswersHold, OwnSession, StartsAfresh,
         Rests, StandbyRests, StoppedAtFirst
<1>2. Rests => StandbyRests
  BY DEF Rests
<1> QED BY <1>1, <1>2, LeaseStep, RestsStep, TypeCorrect, PTL DEF Spec

-----------------------------------------------------------------------------
(* A worker that was paused in its job, which start() does not resume, is  *)
(* awaited by a run of pauseAll.                                           *)

Awaited ==
    \A p \in Processes : \A q \in Queues :
        worker[p][q] = "paused" /\ q \in busy[p] => [at |-> q, waits |-> TRUE] \in pausing[p]

LEMMA AwaitedByOne ==
    ASSUME Awaited, NEW p \in Processes,
           \A o \in Processes \ {p} : /\ worker'[o] = worker[o] /\ busy'[o] = busy[o]
                                      /\ pausing'[o] = pausing[o],
           \A q \in Queues : worker'[p][q] = "paused" /\ q \in busy'[p]
                               => [at |-> q, waits |-> TRUE] \in pausing'[p]
    PROVE  Awaited'
BY DEF Awaited

(* startAll leaves a worker paused only where it was.                      *)
LEMMA StartAllAwaited ==
    ASSUME TypeOK, Awaited, NEW p \in Processes, StartAll(p)
    PROVE  Awaited'
BY AwaitedByOne DEF TypeOK, Awaited, StartAll

(* A round of pauseAll waits for the worker it pauses; the run it is part  *)
(* of waited for none.                                                     *)
LEMMA PauseAwaited ==
    ASSUME TypeOK, Awaited, NEW p \in Processes, NEW n \in Queues, NEW runs, Pause(p, n, runs),
           \A r \in pausing[p] : r.waits => r \in runs
    PROVE  Awaited'
<1> DEFINE run == [at |-> n, waits |-> worker[p][n] = "active" /\ n \in busy[p]]
<1>1. pausing'[p] = runs \cup {run} /\ busy' = busy
  BY DEF TypeOK, Pause
<1>2. \A q \in Queues : worker'[p][q] = "paused"
         => worker[p][q] = "paused" \/ (q = n /\ worker[p][n] = "active")
  BY DEF TypeOK, Pause
<1>3. \A o \in Processes \ {p} : worker'[o] = worker[o] /\ pausing'[o] = pausing[o]
  BY DEF TypeOK, Pause
<1>4. ASSUME NEW q \in Queues, worker'[p][q] = "paused", q \in busy[p]
      PROVE  [at |-> q, waits |-> TRUE] \in pausing'[p]
  <2>1. CASE worker[p][q] = "paused"
    <3>1. [at |-> q, waits |-> TRUE] \in pausing[p]
      BY <1>4, <2>1 DEF Awaited
    <3> QED BY <1>1, <3>1
  <2>2. CASE q = n /\ worker[p][n] = "active"
    BY <1>1, <1>4, <2>2
  <2> QED BY <1>2, <1>4, <2>1, <2>2
<1> QED BY <1>1, <1>3, <1>4, AwaitedByOne

LEMMA AwaitedStep == TypeOK /\ TypeOK' /\ Awaited /\ [Next]_vars => Awaited'
<1> SUFFICES ASSUME TypeOK, TypeOK', Awaited, [Next]_vars PROVE Awaited'
  OBVIOUS
<1>0. UNCHANGED workers => Awaited'
  BY DEF workers, Awaited
<1>1. CASE LockDelayOver \/ \E s \in Sessions : Expire(s)
  BY <1>0, <1>1 DEF LockDelayOver, Expire
<1>2. ASSUME NEW p \in Processes,
             \/ OtherKeyWritten(p) \/ Watch(p) \/ Start(p) \/ CreateSession(p) \/ CreateFails(p)
             \/ Shutdown(p) \/ DestroySession(p) \/ \E i \in 1..MaxCalls : Acquire(p, i)
      PROVE  Awaited'
  BY <1>0, <1>2 DEF OtherKeyWritten, Watch, Start, CreateSession, CreateFails, Shutdown,
     DestroySession, Acquire
<1>3. ASSUME NEW p \in Processes, Bootstrapped(p) PROVE Awaited'
  BY <1>0, <1>3, StartAllAwaited DEF Bootstrapped
<1>4. ASSUME NEW p \in Processes, NEW i \in 1..MaxCalls, Answered(p, i) PROVE Awaited'
  <2>1. PauseAll(p) => Awaited'
    BY FirstQueue, PauseAwaited DEF PauseAll
  <2> QED BY <1>0, <1>4, <2>1, StartAllAwaited DEF Answered
<1>5. ASSUME NEW p \in Processes, Closed(p) \/ Crash(p) PROVE Awaited'
  BY <1>5, AwaitedByOne DEF TypeOK, Closed, Crash, Gone
<1>6. ASSUME NEW p \in Processes, NEW r \in pausing[p], PauseNext(p, r) PROVE Awaited'
  <2>1. ~r.waits /\ r \in PauseRun
    BY <1>6 DEF TypeOK, PauseNext
  <2>2. CASE r.at = NumWorkers
    <3>1. UNCHANGED <<worker, busy>> /\ pausing' = [pausing EXCEPT ![p] = @ \ {r}]
      BY <1>6, <2>2 DEF PauseNext
    <3>2. \A q \in Queues : [at |-> q, waits |-> TRUE] # r
      BY <2>1
    <3> QED BY <3>1, <3>2 DEF TypeOK, Awaited
  <2>3. CASE r.at # NumWorkers
    <3>1. r.at + 1 \in Queues
      BY <2>1, <2>3, LeadershipAssumption DEF PauseRun, Queues
    <3>2. Pause(p, r.at + 1, pausing[p] \ {r})
      BY <1>6, <2>3 DEF PauseNext
    <3>3. \A t \in pausing[p] : t.waits => t \in pausing[p] \ {r}
      BY <2>1
    <3> QED BY <3>1, <3>2, <3>3, PauseAwaited
  <2> QED BY <2>2, <2>3
<1>7. ASSUME NEW p \in Processes, NEW q \in Queues, TakeJob(p, q) PROVE Awaited'
  BY <1>7 DEF TypeOK, TakeJob, Awaited
<1>8. ASSUME NEW p \in Processes, NEW q \in Queues, FinishJob(p, q) PROVE Awaited'
  <2> DEFINE over(x) == IF x.at = q THEN [x EXCEPT !.waits = FALSE] ELSE x
  <2>1. /\ UNCHANGED worker /\ busy' = [busy EXCEPT ![p] = @ \ {q}]
        /\ pausing'[p] = {over(x) : x \in pausing[p]}
        /\ \A o \in Processes \ {p} : pausing'[o] = pausing[o]
    BY <1>8 DEF TypeOK, FinishJob
  <2>2. ASSUME NEW n \in Queues, worker[p][n] = "paused", n \in busy[p], n # q
        PROVE  [at |-> n, waits |-> TRUE] \in pausing'[p]
    <3>1. [at |-> n, waits |-> TRUE] \in pausing[p]
      BY <2>2 DEF Awaited
    <3>2. over([at |-> n, waits |-> TRUE]) = [at |-> n, waits |-> TRUE]
      BY <2>2
    <3> QED BY <2>1, <3>1, <3>2
  <2>3. \A n \in Queues : n \in busy'[p] => n \in busy[p] /\ n # q
    BY <2>1 DEF TypeOK
  <2>4. \A o \in Processes \ {p} : worker'[o] = worker[o] /\ busy'[o] = busy[o]
    BY <2>1 DEF TypeOK
  <2> HIDE DEF over
  <2> QED BY <2>1, <2>2, <2>3, <2>4, AwaitedByOne
<1>9. CASE UNCHANGED vars
  BY <1>0, <1>9 DEF vars
<1> QED
  BY <1>1, <1>2, <1>3, <1>4, <1>5, <1>6, <1>7, <1>8, <1>9
  DEF Next, Bootstrap, Election, Ending, Working

-----------------------------------------------------------------------------
(* A leader works, when answers come in the order of the calls.  A process *)
(* that is refused after it won has lost its session, and with it every    *)
(* later election: no run of pauseAll can meet a startAll.                 *)

(* Calls are answered one after the other.                                 *)
Sorted(p) ==
    \A i, j \in DOMAIN calls[p] : i < j /\ calls[p][i] = "sent" => calls[p][j] = "sent"

(* Whoever won before it is refused is refused for good.                   *)
RefusedForGood(p) ==
    \A i \in DOMAIN calls[p] :
        /\ calls[p][i] = "refused"
        /\ isLeader[p] \/ \E h \in DOMAIN calls[p] : h < i /\ calls[p][h] = "won"
        => /\ session[p] \notin alive
           /\ \A j \in DOMAIN calls[p] : i < j => calls[p][j] # "won"

PausedForGood(p) ==
    pausing[p] # {} =>
        /\ session[p] \notin alive /\ ~isLeader[p]
        /\ \A i \in DOMAIN calls[p] : calls[p][i] # "won"

AtWork(p) == pc[p] = "up" /\ isLeader[p] => \A q \in Queues : worker[p][q] = "active"

NotPaused(p) == pc[p] \in {"down", "session"} => pausing[p] = {}

InTurn(p) ==
    Sorted(p) /\ RefusedForGood(p) /\ PausedForGood(p) /\ AtWork(p) /\ NotPaused(p)

(* A session that is gone does not come back to the process that had it.   *)
LEMMA InTurnKept ==
    ASSUME NEW p \in Processes, InTurn(p),
           session'[p] = session[p], session[p] \in alive' => session[p] \in alive,
           calls'[p] = calls[p], isLeader'[p] = isLeader[p],
           worker'[p] = worker[p], pausing'[p] = {} \/ pausing[p] # {},
           pc'[p] = "up" => pc[p] = "up",
           pc'[p] \in {"down", "session"} => pc[p] \in {"down", "session"} /\ pausing'[p] = pausing[p]
    PROVE  InTurn(p)'
BY DEF InTurn, Sorted, RefusedForGood, PausedForGood, AtWork, NotPaused

(* The first call leaves: the others move up.                              *)
LEMMA FirstLeaves ==
    ASSUME TypeOK, NEW p \in Processes, calls[p] # <<>>
    PROVE  /\ DOMAIN Without(calls[p], 1) = 1..(Len(calls[p]) - 1)
           /\ \A j \in DOMAIN Without(calls[p], 1) :
                 j + 1 \in DOMAIN calls[p] /\ Without(calls[p], 1)[j] = calls[p][j + 1]
<1>1. calls[p] \in Seq(Call)
  BY DEF TypeOK
<1>2. Without(calls[p], 1) =
        [j \in 1..(Len(calls[p]) - 1) |-> IF j < 1 THEN calls[p][j] ELSE calls[p][j + 1]]
  BY DEF Without
<1>3. Len(calls[p]) \in Nat /\ DOMAIN calls[p] = 1..Len(calls[p])
  BY <1>1
<1> QED BY <1>2, <1>3

LEMMA AcquireInTurn ==
    ASSUME "reorder" \notin Faults, TypeOK, Lease, NEW p \in Processes, InTurn(p),
           NEW i \in 1..MaxCalls, Acquire(p, i)
    PROVE  InTurn(p)'
<1>1. /\ UNCHANGED <<alive, pc, session, isLeader, workers>>
      /\ i \in DOMAIN calls[p] /\ calls[p][i] = "sent"
      /\ \A j \in 1..(i - 1) : calls[p][j] # "sent"
  BY DEF Acquire
<1>2. PICK seen \in Outcomes(p) \cup {"error"} : calls' = [calls EXCEPT ![p][i] = seen]
  BY DEF Acquire
<1>3. calls \in [Processes -> Seq(Call)]
  BY DEF TypeOK
<1>4. /\ DOMAIN calls'[p] = DOMAIN calls[p] /\ DOMAIN calls[p] \subseteq Nat \ {0}
      /\ \A j \in DOMAIN calls[p] : calls'[p][j] = IF j = i THEN seen ELSE calls[p][j]
  BY <1>1, <1>2, <1>3
<1>5. seen \in {"won", "refused", "error"}
  BY LeadershipAssumption DEF Outcomes
<1>6. \A j \in DOMAIN calls[p] : i <= j => calls[p][j] = "sent"
  BY <1>1, <1>4 DEF InTurn, Sorted
<1>7. Sorted(p)'
  <2> SUFFICES ASSUME NEW j \in DOMAIN calls[p], NEW k \in DOMAIN calls[p], j < k,
                      calls'[p][j] = "sent"
               PROVE  calls'[p][k] = "sent"
    BY <1>4 DEF Sorted
  <2>1. j # i /\ calls[p][j] = "sent"
    BY <1>4, <1>5
  <2>2. i <= j
    BY <1>1, <1>4, <2>1
  <2> QED BY <1>4, <1>6, <2>1, <2>2
(* An answer of true is given to a live session, one of false to a leader  *)
(* only after its session is gone.                                         *)
<1>8. seen = "won" => session[p] \in alive
  BY LeadershipAssumption DEF Outcomes
<1>9. seen = "refused" /\ session[p] \in alive => holder # session[p]
  BY DEF Outcomes
<1>10. seen = "refused" /\ (isLeader[p] \/ \E h \in DOMAIN calls[p] : calls[p][h] = "won")
          => session[p] \notin alive
  BY <1>9 DEF Lease, OneLiveLeader, AnswersHold
<1>11. RefusedForGood(p)'
  <2> SUFFICES ASSUME NEW j \in DOMAIN calls[p], calls'[p][j] = "refused",
                      isLeader[p] \/ \E h \in DOMAIN calls[p] : h < j /\ calls'[p][h] = "won"
               PROVE  /\ session[p] \notin alive
                      /\ \A k \in DOMAIN calls[p] : j < k => calls'[p][k] # "won"
    BY <1>1, <1>4 DEF RefusedForGood
  <2>1. CASE j = i
    <3>1. isLeader[p] \/ \E h \in DOMAIN calls[p] : calls[p][h] = "won"
      BY <1>4, <2>1
    <3>2. seen = "refused"
      BY <1>4, <2>1
    <3> QED BY <1>4, <1>6, <1>10, <2>1, <3>1, <3>2
  <2>2. CASE j # i
    <3>1. calls[p][j] = "refused" /\ j < i
      BY <1>4, <1>6, <2>2
    <3>2. \A h \in DOMAIN calls[p] : h < j => calls'[p][h] = calls[p][h]
      BY <1>4, <3>1
    <3>3. session[p] \notin alive /\ \A k \in DOMAIN calls[p] : j < k => calls[p][k] # "won"
      BY <3>1, <3>2 DEF InTurn, RefusedForGood
    <3> QED BY <1>4, <1>8, <3>3
  <2> QED BY <2>1, <2>2
<1>12. PausedForGood(p)'
  BY <1>1, <1>4, <1>8 DEF InTurn, PausedForGood, workers
<1> QED BY <1>1, <1>7, <1>11, <1>12 DEF InTurn, AtWork, NotPaused, workers

(* While no run of pauseAll goes on, startAll starts every worker.         *)
LEMMA StartsAll ==
    ASSUME TypeOK, Awaited, NEW p \in Processes, pausing[p] = {}, StartAll(p)
    PROVE  \A q \in Queues : worker'[p][q] = "active"
BY DEF TypeOK, Awaited, StartAll

LEMMA AnsweredInTurn ==
    ASSUME "reorder" \notin Faults, TypeOK, Lease, Awaited, NEW p \in Processes, InTurn(p),
           NEW i \in 1..MaxCalls, Answered(p, i)
    PROVE  InTurn(p)'
<1> DEFINE leader == LeaderAfter(p, calls[p][1])
<1>1. /\ i = 1 /\ 1 \in DOMAIN calls[p] /\ calls[p][1] # "sent" /\ calls[p] # <<>>
      /\ UNCHANGED <<alive, holder, session>>
  BY DEF Answered, consul
<1>2. /\ isLeader'[p] = leader
      /\ calls'[p] = Without(calls[p], 1)
      /\ IF pc[p] \in {"election", "boot"} \/ leader = isLeader[p]
         THEN UNCHANGED workers
         ELSE IF leader THEN StartAll(p) ELSE PauseAll(p)
      /\ pc' = pc \/ (pc[p] = "election" /\ pc' = [pc EXCEPT ![p] = "boot"])
  BY <1>1 DEF Answered, TypeOK
<1>3. /\ \A j \in DOMAIN calls'[p] : j + 1 \in DOMAIN calls[p] /\ calls'[p][j] = calls[p][j + 1]
      /\ DOMAIN calls'[p] \subseteq Nat \ {0}
  BY <1>1, <1>2, FirstLeaves
<1>4. calls[p][1] \in {"won", "refused", "error"} /\ isLeader[p] \in BOOLEAN
  BY <1>1 DEF TypeOK
<1>5. pc[p] \notin {"down", "session"}
  BY <1>1 DEF Lease, StartsAfresh
<1>6. Sorted(p)'
  BY <1>3 DEF InTurn, Sorted
<1>7. RefusedForGood(p)'
  <2> SUFFICES ASSUME NEW j \in DOMAIN calls'[p], calls'[p][j] = "refused",
                      leader \/ \E h \in DOMAIN calls'[p] : h < j /\ calls'[p][h] = "won"
               PROVE  /\ session[p] \notin alive
                      /\ \A k \in DOMAIN calls'[p] : j < k => calls'[p][k] # "won"
    BY <1>1, <1>2 DEF RefusedForGood
  <2>1. j + 1 \in DOMAIN calls[p] /\ calls[p][j + 1] = "refused" /\ 1 < j + 1
    BY <1>3
  <2>2. isLeader[p] \/ \E h \in DOMAIN calls[p] : h < j + 1 /\ calls[p][h] = "won"
    <3>1. leader => isLeader[p] \/ calls[p][1] = "won"
      BY DEF LeaderAfter
    <3>2. ASSUME NEW h \in DOMAIN calls'[p], h < j, calls'[p][h] = "won"
          PROVE  h + 1 \in DOMAIN calls[p] /\ h + 1 < j + 1 /\ calls[p][h + 1] = "won"
      BY <1>3, <3>2
    <3> QED BY <1>1, <2>1, <3>1, <3>2
  <2>3. /\ session[p] \notin alive
        /\ \A k \in DOMAIN calls[p] : j + 1 < k => calls[p][k] # "won"
    BY <2>1, <2>2 DEF InTurn, RefusedForGood
  <2> QED BY <1>3, <2>3
<1>8. CASE UNCHANGED workers /\ (pc[p] \in {"election", "boot"} \/ leader = isLeader[p])
  <2>1. PausedForGood(p)'
    BY <1>1, <1>2, <1>3, <1>8 DEF InTurn, PausedForGood, LeaderAfter, workers
  <2>2. AtWork(p)'
    BY <1>2, <1>8 DEF TypeOK, InTurn, AtWork, workers
  <2>3. NotPaused(p)'
    BY <1>2, <1>5, <1>8 DEF TypeOK, NotPaused
  <2> QED BY <1>6, <1>7, <2>1, <2>2, <2>3 DEF InTurn
<1>9. CASE leader /\ StartAll(p)
  <2>1. PausedForGood(p)'
    BY <1>1, <1>2, <1>3, <1>9 DEF InTurn, PausedForGood, LeaderAfter, StartAll
  <2>2. AtWork(p)'
    <3>1. pausing[p] = {}
      BY <1>1, <1>9 DEF InTurn, PausedForGood, LeaderAfter
    <3> QED BY <1>9, <3>1, StartsAll DEF AtWork
  <2>3. NotPaused(p)'
    BY <1>2, <1>5 DEF TypeOK, NotPaused
  <2> QED BY <1>6, <1>7, <2>1, <2>2, <2>3 DEF InTurn
<1>10. CASE ~leader /\ isLeader[p] /\ pc[p] \notin {"election", "boot"}
  <2>1. calls[p][1] = "refused"
    BY <1>4, <1>10 DEF LeaderAfter
  <2>2. session[p] \notin alive /\ \A k \in DOMAIN calls[p] : 1 < k => calls[p][k] # "won"
    BY <1>1, <1>10, <2>1 DEF InTurn, RefusedForGood
  <2>3. PausedForGood(p)'
    BY <1>1, <1>2, <1>3, <1>10, <2>2 DEF PausedForGood
  <2>4. AtWork(p)' /\ NotPaused(p)'
    BY <1>2, <1>5, <1>10 DEF TypeOK, AtWork, NotPaused
  <2> QED BY <1>6, <1>7, <2>3, <2>4 DEF InTurn
<1> QED BY <1>2, <1>4, <1>8, <1>9, <1>10 DEF LeaderAfter

LEMMA InTurnStep ==
    ASSUME "reorder" \notin Faults, TypeOK, TypeOK', Lease, Awaited, NEW p \in Processes,
           InTurn(p), [Next]_vars
    PROVE  InTurn(p)'
<1>1. CASE LockDelayOver \/ \E s \in Sessions : Expire(s)
  BY <1>1, InTurnKept DEF LockDelayOver, Expire, Invalidate, workers
<1>2. ASSUME NEW o \in Processes, OtherKeyWritten(o) PROVE InTurn(p)'
  BY <1>2, InTurnKept DEF OtherKeyWritten, consul, workers
<1>3. ASSUME NEW o \in Processes, Start(o) \/ CreateFails(o) \/ Shutdown(o) PROVE InTurn(p)'
  BY <1>3, InTurnKept DEF TypeOK, Start, CreateFails, Shutdown, consul, workers
<1>4. ASSUME NEW o \in Processes, CreateSession(o) PROVE InTurn(p)'
  <2>1. PICK s \in Sessions : s \notin {session[q] : q \in Processes} /\ alive' = alive \cup {s}
                              /\ session' = [session EXCEPT ![o] = s]
    BY <1>4 DEF CreateSession
  <2>2. /\ pc[o] = "session" /\ pc' = [pc EXCEPT ![o] = "election"]
        /\ calls' = [calls EXCEPT ![o] = <<"sent">>]
        /\ UNCHANGED <<isLeader, workers>>
    BY <1>4 DEF CreateSession
  <2>3. CASE o # p
    BY <2>1, <2>2, <2>3, InTurnKept DEF TypeOK, workers
  <2>4. CASE o = p
    <3>1. pausing'[p] = {} /\ pc'[p] = "election" /\ calls'[p] = <<"sent">>
      BY <2>2, <2>4 DEF TypeOK, InTurn, NotPaused, workers
    <3>2. \A i \in DOMAIN calls'[p] : calls'[p][i] = "sent"
      BY <3>1
    <3> QED BY <3>1, <3>2
            DEF InTurn, Sorted, RefusedForGood, PausedForGood, AtWork, NotPaused
  <2> QED BY <2>3, <2>4
<1>5. ASSUME NEW o \in Processes, Bootstrapped(o) PROVE InTurn(p)'
  <2>1. CASE o # p
    BY <1>5, <2>1, InTurnKept DEF TypeOK, Bootstrapped, StartAll, consul, workers
  <2>2. CASE o = p
    <3>1. isLeader[p] => pausing[p] = {}
      BY DEF InTurn, PausedForGood
    <3>2. AtWork(p)'
      BY <1>5, <2>2, <3>1, StartsAll DEF Bootstrapped, AtWork
    <3>3. /\ UNCHANGED <<alive, session, calls, isLeader>> /\ pc'[p] = "up"
          /\ pausing' = pausing
      BY <1>5, <2>2 DEF TypeOK, Bootstrapped, StartAll, consul, workers
    <3> QED BY <3>2, <3>3
            DEF InTurn, Sorted, RefusedForGood, PausedForGood, NotPaused
  <2> QED BY <2>1, <2>2
<1>6. ASSUME NEW o \in Processes, Watch(o) PROVE InTurn(p)'
  <2>1. /\ UNCHANGED <<alive, pc, session, isLeader, workers>>
        /\ calls' = [calls EXCEPT ![o] = Append(@, "sent")]
    BY <1>6 DEF Watch, consul
  <2>2. CASE o # p
    BY <2>1, <2>2, InTurnKept DEF TypeOK, workers
  <2>3. CASE o = p
    <3>1. calls[p] \in Seq(Call)
      BY DEF TypeOK
    <3>2. /\ DOMAIN calls'[p] \subseteq Nat /\ DOMAIN calls[p] \subseteq DOMAIN calls'[p]
          /\ \A i \in DOMAIN calls'[p] :
                \/ i \in DOMAIN calls[p] /\ calls'[p][i] = calls[p][i]
                \/ calls'[p][i] = "sent" /\ \A j \in DOMAIN calls'[p] : j <= i
      <4>1. calls'[p] = Append(calls[p], "sent")
        BY <2>1, <2>3 DEF TypeOK
      <4>2. \A i \in 1..Len(calls[p]) : Append(calls[p], "sent")[i] = calls[p][i]
        BY <3>1
      <4>3. Append(calls[p], "sent")[Len(calls[p]) + 1] = "sent"
        BY <3>1
      <4>4. /\ Len(calls[p]) \in Nat /\ DOMAIN calls[p] = 1..Len(calls[p])
            /\ DOMAIN Append(calls[p], "sent") = 1..(Len(calls[p]) + 1)
        BY <3>1
      <4> QED BY <4>1, <4>2, <4>3, <4>4
    <3>3. Sorted(p)'
      BY <3>2 DEF InTurn, Sorted
    <3>4. RefusedForGood(p)' /\ PausedForGood(p)'
      BY <2>1, <3>2 DEF InTurn, RefusedForGood, PausedForGood, workers
    <3> QED BY <2>1, <3>3, <3>4 DEF InTurn, AtWork, NotPaused, workers
  <2> QED BY <2>2, <2>3
<1>7. ASSUME NEW o \in Processes, NEW i \in 1..MaxCalls, Acquire(o, i) PROVE InTurn(p)'
  <2>1. CASE o = p
    BY <1>7, <2>1, AcquireInTurn
  <2>2. CASE o # p
    BY <1>7, <2>2, InTurnKept DEF TypeOK, Acquire, workers
  <2> QED BY <2>1, <2>2
<1>8. ASSUME NEW o \in Processes, NEW i \in 1..MaxCalls, Answered(o, i) PROVE InTurn(p)'
  <2>1. CASE o = p
    BY <1>8, <2>1, AnsweredInTurn
  <2>2. CASE o # p
    <3>1. UNCHANGED <<alive, session>>
      BY <1>8 DEF Answered, consul
    <3>2. /\ calls'[p] = calls[p] /\ isLeader'[p] = isLeader[p] /\ pc'[p] = pc[p]
      BY <1>8, <2>2 DEF TypeOK, Answered
    <3>3. worker'[p] = worker[p] /\ pausing'[p] = pausing[p]
      BY <1>8, <2>2 DEF TypeOK, Answered, StartAll, PauseAll, Pause, workers
    <3> QED BY <3>1, <3>2, <3>3, InTurnKept
  <2> QED BY <2>1, <2>2
<1>9. ASSUME NEW o \in Processes, DestroySession(o) PROVE InTurn(p)'
  BY <1>9, InTurnKept DEF TypeOK, DestroySession, Invalidate, consul, workers
<1>10. ASSUME NEW o \in Processes, Closed(o) \/ Crash(o) PROVE InTurn(p)'
  <2>1. CASE o = p
    <3>1. pausing'[p] = {} /\ ~isLeader'[p] /\ calls'[p] = <<>>
      BY <1>10, <2>1 DEF TypeOK, Closed, Crash, Gone
    <3> QED BY <3>1 DEF InTurn, Sorted, RefusedForGood, PausedForGood, AtWork, NotPaused
  <2>2. CASE o # p
    <3>1. /\ calls'[p] = calls[p] /\ isLeader'[p] = isLeader[p] /\ pc'[p] = pc[p]
          /\ session'[p] = session[p] /\ worker'[p] = worker[p] /\ pausing'[p] = pausing[p]
          /\ alive' = alive
      BY <1>10, <2>2 DEF TypeOK, Closed, Crash, Gone, consul
    <3> QED BY <3>1, InTurnKept
  <2> QED BY <2>1, <2>2
<1>11. ASSUME NEW o \in Processes, Working(o) PROVE InTurn(p)'
  <2>1. UNCHANGED <<alive, pc, session, isLeader, calls>>
    BY <1>11 DEF Working, PauseNext, TakeJob, FinishJob, consul
  <2>2. worker'[p] = worker[p] \/ pausing[p] # {}
    BY <1>11 DEF TypeOK, Working, PauseNext, TakeJob, FinishJob, Pause
  <2>3. pausing'[p] = {} \/ pausing[p] # {}
    <3>1. ASSUME NEW r \in pausing[o], PauseNext(o, r) PROVE pausing'[p] = {} \/ pausing[p] # {}
      BY <3>1 DEF TypeOK, PauseNext, Pause
    <3>2. ASSUME NEW q \in Queues, FinishJob(o, q) PROVE pausing'[p] = {} \/ pausing[p] # {}
      BY <3>2 DEF TypeOK, FinishJob
    <3>3. ASSUME NEW q \in Queues, TakeJob(o, q) PROVE pausing'[p] = {} \/ pausing[p] # {}
      BY <3>3 DEF TakeJob
    <3> QED BY <1>11, <3>1, <3>2, <3>3 DEF Working
  <2> QED BY <2>1, <2>2, <2>3
          DEF InTurn, Sorted, RefusedForGood, PausedForGood, AtWork, NotPaused
<1>12. CASE UNCHANGED vars
  BY <1>12, InTurnKept DEF vars, consul, workers
<1> QED
  BY <1>1, <1>2, <1>3, <1>4, <1>5, <1>6, <1>7, <1>8, <1>9, <1>10, <1>11, <1>12
  DEF Next, Bootstrap, Election, Ending

(* With answers in order, a process that leads and has no run of pauseAll  *)
(* going on has all its workers active, whatever it lost and won before.   *)
THEOREM LeaderIsAtWork ==
    ASSUME "reorder" \notin Faults
    PROVE  Spec => []LeaderWorks
<1> DEFINE Inv == Lease /\ Awaited /\ \A p \in Processes : InTurn(p)
<1>1. Init => Inv
  BY DEF Init, Lease, OneLiveLeader, AnswersHold, OwnSession, StartsAfresh, Awaited,
         InTurn, Sorted, RefusedForGood, PausedForGood, AtWork, NotPaused
<1>2. TypeOK /\ TypeOK' /\ Inv /\ [Next]_vars => Inv'
  BY LeaseStep, AwaitedStep, InTurnStep
<1>3. Inv => LeaderWorks
  BY DEF InTurn, AtWork, LeaderWorks
<1> QED BY <1>1, <1>2, <1>3, TypeCorrect, PTL DEF Spec

=============================================================================
