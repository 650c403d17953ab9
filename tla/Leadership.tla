---------------------------- MODULE Leadership ----------------------------
(***************************************************************************)
(* Who runs the leader-only workers: ClusterService, which competes for a  *)
(* key in Consul with a session, and LeaderOnlyWorkersService, which       *)
(* starts the workers of the two Hodler queues on the leader and pauses    *)
(* them elsewhere.  Consul and BullMQ are external.                        *)
(***************************************************************************)
EXTENDS Integers, Sequences, FiniteSets

CONSTANTS
    Processes,        \* the local leaders, one per allocation
    Sessions,         \* ids Consul gives to sessions
    NoSession,        \* no session
    NumWorkers,       \* leader-only workers, in the order they are found
    Faults,           \* what may go wrong: a subset of FaultKinds
    InvalidAnswers,   \* Consul's answers to an acquire without its session
    MaxCalls,         \* bound: acquire calls of a process in flight
    MaxUpsets         \* bound: crashes and shutdowns

(* A live session expires; creating a session fails; the connection fails; *)
(* answers overtake each other.                                            *)
FaultKinds == {"expiry", "create", "net", "reorder"}
Queues     == 1..NumWorkers

ASSUME LeadershipAssumption ==
    /\ NoSession \notin Sessions
    /\ NumWorkers \in Nat \ {0}
    /\ Faults \subseteq FaultKinds
    /\ InvalidAnswers \subseteq {"refused", "error"}
    /\ MaxCalls \in Nat \ {0}
    /\ MaxUpsets \in Nat

VARIABLES
    alive,            \* Consul: sessions that exist
    holder,           \* the session that holds the leader key
    delayed,          \* the lock-delay that follows the loss of a session runs
    changed,          \* processes whose watch has a change to tell
    pc,               \* where each process is
    session,          \* its sessionId
    isLeader,         \* its isLeader
    calls,            \* its acquireLock calls in flight, in the order of sending
    worker,           \* state of its workers
    busy,             \* those with a job in flight
    pausing,          \* where its runs of pauseAll are
    upsets            \* crashes and shutdowns so far

consul  == <<alive, holder, delayed>>
workers == <<worker, busy, pausing>>
vars    == <<consul, changed, pc, session, isLeader, calls, workers, upsets>>

Steps   == {"down", "session", "election", "boot", "up", "ending", "closing"}
Answers == {"won", "refused", "error"}

(* A run of pauseAll waits for the worker it paused, if that had a job.    *)
PauseRun == [at : Queues, waits : BOOLEAN]

TypeOK ==
    /\ alive \subseteq Sessions
    /\ holder \in Sessions \cup {NoSession}
    /\ delayed \in BOOLEAN
    /\ changed \subseteq Processes
    /\ pc \in [Processes -> Steps]
    /\ session \in [Processes -> Sessions \cup {NoSession}]
    /\ isLeader \in [Processes -> BOOLEAN]
    /\ calls \in [Processes -> Seq(Answers \cup {"sent"})]
    /\ worker \in [Processes -> [Queues -> {"stopped", "active", "paused"}]]
    /\ busy \in [Processes -> SUBSET Queues]
    /\ pausing \in [Processes -> SUBSET PauseRun]
    /\ upsets \in Nat

Init ==
    /\ alive = {} /\ holder = NoSession /\ delayed = FALSE
    /\ changed = {}
    /\ pc = [p \in Processes |-> "down"]
    /\ session = [p \in Processes |-> NoSession]
    /\ isLeader = [p \in Processes |-> FALSE]
    /\ calls = [p \in Processes |-> <<>>]
    /\ worker = [p \in Processes |-> [q \in Queues |-> "stopped"]]
    /\ busy = [p \in Processes |-> {}]
    /\ pausing = [p \in Processes |-> {}]
    /\ upsets = 0

Watching == {p \in Processes : pc[p] \in {"boot", "up"} /\ session[p] # NoSession}

-----------------------------------------------------------------------------
(* Consul (external).  The key goes with the session that holds it, and is *)
(* then refused to everyone for a while.                                   *)

Invalidate(s) ==
    /\ alive' = alive \ {s}
    /\ IF holder = s
       THEN holder' = NoSession /\ delayed' = TRUE /\ changed' = Watching
       ELSE UNCHANGED <<holder, delayed, changed>>

Renewed(s) == \E p \in Processes : session[p] = s /\ pc[p] \notin {"down", "ending", "closing"}

Expire(s) ==
    /\ s \in alive
    /\ Renewed(s) => "expiry" \in Faults
    /\ Invalidate(s)
    /\ UNCHANGED <<pc, session, isLeader, calls, workers, upsets>>

LockDelayOver ==
    /\ delayed
    /\ delayed' = FALSE
    /\ UNCHANGED <<alive, holder, changed, pc, session, isLeader, calls, workers, upsets>>

(* While the key does not exist its index is that of all keys, so a write  *)
(* to another key looks like a change.                                     *)
OtherKeyWritten(p) ==
    /\ holder = NoSession
    /\ p \in Watching \ changed
    /\ changed' = changed \cup {p}
    /\ UNCHANGED <<consul, pc, session, isLeader, calls, workers, upsets>>

(* The acquire of a call reaches Consul; its answer may be lost.           *)
Outcomes(p) ==
    IF session[p] \notin alive THEN InvalidAnswers
    ELSE IF holder = session[p] THEN {"won"}
    ELSE IF holder = NoSession /\ ~delayed THEN {"won"}
    ELSE {"refused"}

Acquire(p, i) ==
    /\ i \in DOMAIN calls[p] /\ calls[p][i] = "sent"
    /\ "reorder" \notin Faults => \A j \in 1..(i - 1) : calls[p][j] # "sent"
    /\ \E a \in Outcomes(p) :
          /\ IF a = "won" /\ holder # session[p]
             THEN holder' = session[p] /\ changed' = Watching
             ELSE UNCHANGED <<holder, changed>>
          /\ \E seen \in {a} \cup {e \in {"error"} : "net" \in Faults} :
                calls' = [calls EXCEPT ![p][i] = seen]
    /\ UNCHANGED <<alive, delayed, pc, session, isLeader, workers, upsets>>

-----------------------------------------------------------------------------
(* LeaderOnlyWorkersService and LeaderOnlyWorker.                          *)

(* start() runs or resumes a worker; BullMQ resumes none whose loop still  *)
(* runs the job it was paused in.                                          *)
StartAll(p) ==
    /\ worker' = [worker EXCEPT ![p] =
           [q \in Queues |-> IF @[q] = "paused" /\ q \in busy[p] THEN "paused" ELSE "active"]]
    /\ UNCHANGED <<busy, pausing>>

(* One round of pauseAll: an active worker is paused; the run goes on when *)
(* the job in flight is over.                                              *)
Pause(p, q, runs) ==
    /\ worker' = [worker EXCEPT ![p][q] = IF @ = "active" THEN "paused" ELSE @]
    /\ pausing' = [pausing EXCEPT ![p] =
           runs \cup {[at |-> q, waits |-> worker[p][q] = "active" /\ q \in busy[p]]}]
    /\ UNCHANGED busy

PauseAll(p) == Pause(p, 1, pausing[p])

(* Mutants: pauseAll ends after its first worker; it ends one too late.    *)
PauseFirst(p, r) ==
    /\ r \in pausing[p] /\ ~r.waits
    /\ pausing' = [pausing EXCEPT ![p] = @ \ {r}]
    /\ UNCHANGED <<consul, changed, pc, session, isLeader, calls, worker, busy, upsets>>

PausePast(p, r) ==
    /\ r \in pausing[p] /\ ~r.waits
    /\ IF r.at > NumWorkers
       THEN pausing' = [pausing EXCEPT ![p] = @ \ {r}]
       ELSE pausing' = [pausing EXCEPT ![p] = (@ \ {r}) \cup {[r EXCEPT !.at = @ + 1]}]
    /\ UNCHANGED <<consul, changed, pc, session, isLeader, calls, worker, busy, upsets>>

PauseNext(p, r) ==
    /\ r \in pausing[p] /\ ~r.waits
    /\ IF r.at = NumWorkers
       THEN pausing' = [pausing EXCEPT ![p] = @ \ {r}] /\ UNCHANGED <<worker, busy>>
       ELSE Pause(p, r.at + 1, pausing[p] \ {r})
    /\ UNCHANGED <<consul, changed, pc, session, isLeader, calls, upsets>>

(* BullMQ (external): an active worker takes one job at a time.            *)
TakeJob(p, q) ==
    /\ worker[p][q] = "active" /\ q \notin busy[p]
    /\ busy' = [busy EXCEPT ![p] = @ \cup {q}]
    /\ UNCHANGED <<consul, changed, pc, session, isLeader, calls, worker, pausing, upsets>>

FinishJob(p, q) ==
    /\ q \in busy[p]
    /\ busy' = [busy EXCEPT ![p] = @ \ {q}]
    /\ pausing' = [pausing EXCEPT ![p] =
           {IF r.at = q THEN [r EXCEPT !.waits = FALSE] ELSE r : r \in pausing[p]}]
    /\ UNCHANGED <<consul, changed, pc, session, isLeader, calls, worker, upsets>>

-----------------------------------------------------------------------------
(* ClusterService.                                                         *)

Start(p) ==
    /\ pc[p] = "down"
    /\ pc' = [pc EXCEPT ![p] = "session"]
    /\ UNCHANGED <<consul, changed, session, isLeader, calls, workers, upsets>>

CreateSession(p) ==
    /\ pc[p] = "session"
    /\ \E s \in Sessions \ (alive \cup {session[o] : o \in Processes}) :
          /\ alive' = alive \cup {s}
          /\ session' = [session EXCEPT ![p] = s]
    /\ pc' = [pc EXCEPT ![p] = "election"]
    /\ calls' = [calls EXCEPT ![p] = <<"sent">>]
    /\ UNCHANGED <<holder, delayed, changed, isLeader, workers, upsets>>

(* The error is logged, and the process never takes part in an election.   *)
CreateFails(p) ==
    /\ pc[p] = "session"
    /\ "create" \in Faults
    /\ pc' = [pc EXCEPT ![p] = "boot"]
    /\ UNCHANGED <<consul, changed, session, isLeader, calls, workers, upsets>>

(* The watch tells a change, which starts another acquireLock.             *)
(* Mutant: not when the key is gone.                                       *)
WatchPresent(p) ==
    /\ p \in changed \cap Watching
    /\ Len(calls[p]) < MaxCalls
    /\ changed' = changed \ {p}
    /\ calls' = IF holder = NoSession THEN calls ELSE [calls EXCEPT ![p] = Append(@, "sent")]
    /\ UNCHANGED <<consul, pc, session, isLeader, workers, upsets>>

(* The watch has no listener for 'error': a blocking query that fails ends *)
(* the process, for which Crash stands.                                    *)
Watch(p) ==
    /\ p \in changed \cap Watching
    /\ Len(calls[p]) < MaxCalls
    /\ changed' = changed \ {p}
    /\ calls' = [calls EXCEPT ![p] = Append(@, "sent")]
    /\ UNCHANGED <<consul, pc, session, isLeader, workers, upsets>>

(* isLeader after an answer: the client answers a refusal with undefined.  *)
(* Mutants: every answer is taken for true; only the first election counts. *)
NotFalse(p, a) == a # "error" \/ isLeader[p]

ElectedOnce(p, a) == a = "won" /\ (isLeader[p] \/ pc[p] = "election")

LeaderAfter(p, a) == IF a = "error" THEN isLeader[p] ELSE a = "won"

Without(s, i) == [j \in 1..(Len(s) - 1) |-> IF j < i THEN s[j] ELSE s[j + 1]]

(* acquireLock goes on with its answer.  Only a process that is up listens *)
(* to the change of leadership.  The first answer ends startLeaderElection *)
(* and starts the watch, which first tells the key as it is.               *)
Answered(p, i) ==
    /\ i \in DOMAIN calls[p] /\ calls[p][i] # "sent"
    /\ "reorder" \notin Faults => i = 1
    /\ LET leader == LeaderAfter(p, calls[p][i])
       IN  /\ isLeader' = [isLeader EXCEPT ![p] = leader]
           /\ IF pc[p] \in {"election", "boot"} \/ leader = isLeader[p]
              THEN UNCHANGED workers
              ELSE IF leader THEN StartAll(p) ELSE PauseAll(p)
    /\ calls' = [calls EXCEPT ![p] = Without(@, i)]
    /\ IF pc[p] = "election"
       THEN pc' = [pc EXCEPT ![p] = "boot"] /\ changed' = changed \cup {p}
       ELSE UNCHANGED <<pc, changed>>
    /\ UNCHANGED <<consul, session, upsets>>

(* The root module bootstraps last: LeaderOnlyWorkersService subscribes    *)
(* and reads the initial state, of which no change is told.                *)
(* Mutant: it only subscribes.                                             *)
Subscribed(p) ==
    /\ pc[p] = "boot"
    /\ pc' = [pc EXCEPT ![p] = "up"]
    /\ UNCHANGED <<consul, changed, session, isLeader, calls, workers, upsets>>

Bootstrapped(p) ==
    /\ pc[p] = "boot"
    /\ pc' = [pc EXCEPT ![p] = "up"]
    /\ IF isLeader[p] THEN StartAll(p) ELSE UNCHANGED workers
    /\ UNCHANGED <<consul, changed, session, isLeader, calls, upsets>>

(* beforeApplicationShutdown: no more elections, the session is destroyed, *)
(* and a leader waits.  Its workers go on until the application closes.    *)
Shutdown(p) ==
    /\ upsets < MaxUpsets
    /\ upsets' = upsets + 1
    /\ pc[p] = "up"
    /\ pc' = [pc EXCEPT ![p] = "ending"]
    /\ changed' = changed \ {p}
    /\ UNCHANGED <<consul, session, isLeader, calls, workers>>

DestroySession(p) ==
    /\ pc[p] = "ending"
    /\ pc' = [pc EXCEPT ![p] = "closing"]
    /\ \/ session[p] \in alive /\ Invalidate(session[p])
       \/ /\ session[p] \notin alive \/ "net" \in Faults
          /\ UNCHANGED <<consul, changed>>
    /\ UNCHANGED <<session, isLeader, calls, workers, upsets>>

Gone(p) ==
    /\ pc' = [pc EXCEPT ![p] = "down"]
    /\ session' = [session EXCEPT ![p] = NoSession]
    /\ isLeader' = [isLeader EXCEPT ![p] = FALSE]
    /\ calls' = [calls EXCEPT ![p] = <<>>]
    /\ worker' = [worker EXCEPT ![p] = [q \in Queues |-> "stopped"]]
    /\ busy' = [busy EXCEPT ![p] = {}]
    /\ pausing' = [pausing EXCEPT ![p] = {}]
    /\ changed' = changed \ {p}
    /\ UNCHANGED consul

Closed(p) ==
    /\ pc[p] = "closing" /\ busy[p] = {}
    /\ Gone(p)
    /\ UNCHANGED upsets

Crash(p) ==
    /\ upsets < MaxUpsets
    /\ upsets' = upsets + 1
    /\ pc[p] # "down"
    /\ Gone(p)

-----------------------------------------------------------------------------
Bootstrap(p) ==
    \/ Start(p) \/ CreateSession(p) \/ CreateFails(p) \/ Bootstrapped(p)

Election(p) ==
    \/ Watch(p)
    \/ \E i \in 1..MaxCalls : Acquire(p, i) \/ Answered(p, i)

Ending(p) == Shutdown(p) \/ DestroySession(p) \/ Closed(p) \/ Crash(p)

Working(p) ==
    \/ \E r \in pausing[p] : PauseNext(p, r)
    \/ \E q \in Queues : TakeJob(p, q) \/ FinishJob(p, q)

Next ==
    \/ LockDelayOver
    \/ \E s \in Sessions : Expire(s)
    \/ \E p \in Processes :
          \/ OtherKeyWritten(p)
          \/ Bootstrap(p) \/ Election(p) \/ Ending(p) \/ Working(p)

Spec == Init /\ [][Next]_vars

(* Calls are answered, jobs end, Nomad starts what has ended, sessions     *)
(* nobody renews expire, and other keys of Consul are written.             *)
Fairness ==
    /\ WF_vars(LockDelayOver)
    /\ \A s \in Sessions : WF_vars(~Renewed(s) /\ Expire(s))
    /\ \A p \in Processes :
          /\ WF_vars(OtherKeyWritten(p))
          /\ WF_vars(Start(p)) /\ WF_vars(CreateSession(p)) /\ WF_vars(Bootstrapped(p))
          /\ WF_vars(Watch(p))
          /\ WF_vars(\E i \in 1..MaxCalls : Acquire(p, i))
          /\ WF_vars(\E i \in 1..MaxCalls : Answered(p, i))
          /\ WF_vars(DestroySession(p)) /\ WF_vars(Closed(p))
          /\ WF_vars(\E r \in pausing[p] : PauseNext(p, r))
          /\ \A q \in Queues : WF_vars(FinishJob(p, q))

FairSpec == Spec /\ Fairness

-----------------------------------------------------------------------------
(* Correctness.                                                            *)

(* Mutual exclusion, as far as a lease goes: of the processes whose        *)
(* session still exists, one at most believes that it leads, and it holds  *)
(* the key, however calls, answers, expiries and restarts interleave.      *)
OneLiveLeader ==
    \A p \in Processes : isLeader[p] /\ session[p] \in alive => holder = session[p]

(* A process that lost the election runs a leader-only worker only while a *)
(* run of pauseAll is still on its way there, whatever it won in between   *)
(* and however many runs are waiting for a job to end.                     *)
StandbyRests ==
    \A p \in Processes :
        pc[p] = "up" /\ ~isLeader[p]
            => \A q \in Queues : worker[p][q] = "active" => \E r \in pausing[p] : r.at < q

(* Every leader-only worker is started on the leader: none is left paused  *)
(* by a run of pauseAll from before it led.                                *)
LeaderWorks ==
    \A p \in Processes :
        pc[p] = "up" /\ isLeader[p] /\ pausing[p] = {}
            => \A q \in Queues : worker[p][q] = "active"

(* While some process stays up, some process with the key works in the     *)
(* end, whoever crashed, shut down or was refused before.                  *)
Leads(p) ==
    /\ pc[p] = "up" /\ isLeader[p] /\ holder = session[p]
    /\ \A q \in Queues : worker[p][q] = "active"

StandbyTakesOver ==
    (\E p \in Processes : <>[](pc[p] = "up")) => []<>(\E p \in Processes : Leads(p))

(* The process that holds the key learns so.                               *)
HolderLeads ==
    \A p \in Processes :
        (pc[p] = "up" /\ holder = session[p]) ~> (isLeader[p] \/ pc[p] # "up" \/ holder # session[p])

(* A leader that lost its session to another leader stops working.         *)
ReplacedLeaderStops ==
    \A p, o \in Processes :
        (p # o /\ isLeader[p] /\ pc[p] = "up" /\ isLeader[o] /\ holder = session[o])
            ~> (~isLeader[p] \/ pc[p] # "up" \/ holder # session[o])

(* One active worker and a standby: no two processes work on jobs of the   *)
(* same queue at once.                                                     *)
OneActiveWorker ==
    \A p, o \in Processes : busy[p] \cap busy[o] # {} => p = o

============================================================================
