--------------------------- MODULE EvmProviders ---------------------------
(***************************************************************************)
(* The sockets the live events come through: EvmProviderService, its two   *)
(* ResilientWebsocketProviders, and how EventsService subscribes to the    *)
(* contracts.  A resilient provider reconnects by itself: it opens another *)
(* socket, builds another WebSocketProvider over it and subscribes what    *)
(* was subscribed before.  The service holds the first WebSocketProvider   *)
(* of each, and swaps when one of them runs out of attempts.  The network  *)
(* and the provider companies are external.                                *)
(***************************************************************************)
EXTENDS Integers, FiniteSets

CONSTANTS
    Sockets,          \* bound: sockets a provider has at a time; 2 at most, see Poll
    NoSocket,         \* no socket
    NoProvider,       \* undefined
    MaxListeners,     \* bound: the subscriptions a process made that still listen
    Events,           \* the contracts listened to: USE_HODLER, USE_FACILITY
    MaxAttempts,      \* MAX_RECONNECTION_ATTEMPTS
    Faults,           \* what may go wrong beside a socket that closes
    Flaky,            \* providers that limit the rate or refuse a subscription
    MaxUpsets         \* bound: sockets closed, peers gone silent, restarts

Names      == {"primary", "secondary"}
EventKinds == {"UpdateRewards", "RequestingUpdate"}
FaultKinds == {"credits", "silent", "shutdown"}

ASSUME ProviderAssumption ==
    /\ NoSocket \notin Sockets
    /\ NoProvider \notin Names
    /\ Events \subseteq EventKinds
    /\ MaxListeners \in Nat
    /\ MaxAttempts \in Nat \ {0}
    /\ MaxUpsets \in Nat
    /\ Faults \subseteq FaultKinds
    /\ Flaky \subseteq Names

VARIABLES
    phase,            \* of each socket of each provider
    attached,         \* the listeners on the WebSocketProvider over each socket
    ws,               \* this.ws
    timers,           \* setTimeouts of startConnection that have not fired
    attempts,         \* this.reconnectionAttempts
    terminate,        \* providers with this.terminate
    saved,            \* this.subscriptions
    held,             \* the socket of the WebSocketProvider the service was given
    given,            \* providers the service was given one of
    boot,             \* how far the bootstrap is
    currentName,      \* currentWebSocketName
    current,          \* the provider currentWebSocketProvider belongs to
    upsets            \* closed sockets, silent peers and restarts so far

sockets   == <<phase, attached, ws, held>>
resilient == <<timers, attempts, terminate>>
service   == <<given, boot, currentName, current>>
vars      == <<sockets, resilient, saved, service, upsets>>

Listeners == 1 .. MaxListeners
Handlers  == Events \X Listeners

(* Down is a process that ended and which Nomad has not restarted yet.     *)
Check      == [primary |-> "checkPrimary",   secondary |-> "checkSecondary"]
Connecting == [primary |-> "connectPrimary", secondary |-> "connectSecondary"]
After      == [primary |-> "checkSecondary", secondary |-> "choose"]
Boots      == {Check[n] : n \in Names} \cup {Connecting[n] : n \in Names}
                  \cup {"choose", "subscribe", "up", "down"}

Phases == {"none", "connecting", "polling", "open", "silent"}

TypeOK ==
    /\ phase \in [Names -> [Sockets -> Phases]]
    /\ attached \in [Names -> [Sockets -> SUBSET Handlers]]
    /\ ws \in [Names -> Sockets \cup {NoSocket}]
    /\ held \in [Names -> Sockets \cup {NoSocket}]
    /\ timers \in [Names -> Nat]
    /\ attempts \in [Names -> Nat]
    /\ terminate \subseteq Names
    /\ saved \in [Names -> SUBSET Handlers]
    /\ given \subseteq Names
    /\ boot \in Boots
    /\ currentName \in Names
    /\ current \in Names \cup {NoProvider}
    /\ upsets \in Nat

Init ==
    /\ phase = [n \in Names |-> [s \in Sockets |-> "none"]]
    /\ attached = [n \in Names |-> [s \in Sockets |-> {}]]
    /\ ws = [n \in Names |-> NoSocket]
    /\ held = [n \in Names |-> NoSocket]
    /\ timers = [n \in Names |-> 0]
    /\ attempts = [n \in Names |-> 0]
    /\ terminate = {}
    /\ saved = [n \in Names |-> {}]
    /\ given = {}
    /\ boot = "down"
    /\ currentName = "primary"
    /\ current = NoProvider
    /\ upsets = 0

(* The process ends: what it held in memory is gone, its sockets close.    *)
Ends ==
    /\ phase' = [n \in Names |-> [s \in Sockets |-> "none"]]
    /\ attached' = [n \in Names |-> [s \in Sockets |-> {}]]
    /\ ws' = [n \in Names |-> NoSocket]
    /\ held' = [n \in Names |-> NoSocket]
    /\ timers' = [n \in Names |-> 0]
    /\ attempts' = [n \in Names |-> 0]
    /\ terminate' = {}
    /\ saved' = [n \in Names |-> {}]
    /\ given' = {}
    /\ boot' = "down"
    /\ currentName' = "primary"
    /\ current' = NoProvider

Upset == upsets < MaxUpsets /\ upsets' = upsets + 1

-----------------------------------------------------------------------------
(* ResilientWebsocketProvider.                                             *)

Live(n) == {s \in Sockets : phase[n][s] # "none"}

(* new WebSocket(url)                                                      *)
Connects(n) ==
    \E s \in Sockets :
        /\ phase[n][s] = "none"
        /\ phase' = [phase EXCEPT ![n][s] = "connecting"]
        /\ ws' = [ws EXCEPT ![n] = s]
        /\ UNCHANGED <<attached, held>>

(* Mutant: the last attempt schedules no startConnection, which would swap.*)
CloseGivesUp(n, k, shutdown) ==
    /\ terminate' = IF shutdown THEN terminate \cup {n} ELSE terminate
    /\ IF n \in terminate'
       THEN UNCHANGED <<timers, attempts>>
       ELSE /\ timers' = [timers EXCEPT ![n] =
                              IF attempts[n] + k < MaxAttempts THEN @ + k ELSE @]
            /\ attempts' = [attempts EXCEPT ![n] = @ + k]

(* closeConnection, called k times; a shutdown code ends the reconnecting. *)
(* Its cleanupConnection only concerns timers of the keep-alive: it would  *)
(* stop those of a newer socket, which a provider that has one socket at a *)
(* time (OneSocketEach) does not have.                                     *)
CloseConnection(n, k, shutdown) ==
    /\ terminate' = IF shutdown THEN terminate \cup {n} ELSE terminate
    /\ IF n \in terminate'
       THEN UNCHANGED <<timers, attempts>>
       ELSE /\ timers' = [timers EXCEPT ![n] = @ + k]
            /\ attempts' = [attempts EXCEPT ![n] = @ + k]

(* The socket is gone, and with it the WebSocketProvider over it.          *)
Gone(n, s) ==
    /\ phase' = [phase EXCEPT ![n][s] = "none"]
    /\ attached' = [attached EXCEPT ![n][s] = {}]
    /\ held' = [held EXCEPT ![n] = IF @ = s THEN NoSocket ELSE @]
    /\ UNCHANGED ws

(* connect() has settled when n was the one the bootstrap waits for.       *)
Settles(n, providers) ==
    IF boot = Connecting[n]
    THEN given' = given \cup providers /\ boot' = After[n]
    ELSE UNCHANGED <<given, boot>>

(* Mutant: what was subscribed before is not subscribed again.             *)
OpenAnew(n, s) ==
    /\ phase[n][s] = "connecting"
    /\ phase' = [phase EXCEPT ![n][s] = "open"]
    /\ held' = [held EXCEPT ![n] = IF boot = Connecting[n] THEN s ELSE @]
    /\ Settles(n, {n})
    /\ attempts' = [attempts EXCEPT ![n] = 0]
    /\ UNCHANGED <<attached, ws, timers, terminate, saved, currentName, current, upsets>>

(* The open handler builds a WebSocketProvider over this.ws, subscribes    *)
(* what is saved and resolves connect().  When another socket was started  *)
(* meanwhile, this.ws is that one and may not be open yet.                 *)
Open(n, s) ==
    /\ phase[n][s] = "connecting"
    /\ IF ws[n] = s
       THEN /\ phase' = [phase EXCEPT ![n][s] = "open"]
            /\ attached' = [attached EXCEPT ![n][s] = saved[n]]
            /\ held' = [held EXCEPT ![n] = IF boot = Connecting[n] THEN s ELSE @]
            /\ Settles(n, {n})
       ELSE /\ phase' = [phase EXCEPT ![n][s] = "polling"]
            /\ UNCHANGED <<attached, held, given, boot>>
    /\ attempts' = [attempts EXCEPT ![n] = 0]
    /\ UNCHANGED <<ws, timers, terminate, saved, currentName, current, upsets>>

(* Its wait for this.ws ends.  What it built over this.ws hears nothing:   *)
(* the open handler of that socket has built another one since.  (With     *)
(* three sockets at a time it might be one that has not.)                  *)
Poll(n, s) ==
    /\ phase[n][s] = "polling"
    /\ ws[n] \in Sockets /\ phase[n][ws[n]] \in {"open", "silent"}
    /\ phase' = [phase EXCEPT ![n][s] = "open"]
    /\ UNCHANGED <<attached, ws, held, resilient, saved, service, upsets>>

(* resubscribe throws: another connection is started, this one stays.      *)
(* (Bound: not while another socket is left.)                              *)
ResubscribeFails(n, s) ==
    /\ n \in Flaky
    /\ Live(n) = {s} /\ phase[n][s] = "connecting" /\ ws[n] = s
    /\ Upset
    /\ phase' = [phase EXCEPT ![n][s] = "open"]
    /\ \E some \in SUBSET saved[n] :
          some # saved[n] /\ attached' = [attached EXCEPT ![n][s] = some]
    /\ attempts' = [attempts EXCEPT ![n] = 1]
    /\ timers' = [timers EXCEPT ![n] = @ + 1]
    /\ UNCHANGED <<ws, held, terminate, saved, service>>

(* Mutant: a connection that closes is started again twice.                *)
CloseTwice(n, s) ==
    /\ phase[n][s] \in {"connecting", "polling", "open"}
    /\ Upset
    /\ Gone(n, s)
    /\ CloseConnection(n, 2, FALSE)
    /\ UNCHANGED <<saved, service>>

(* The close event: of a connection that failed or broke off, or, with a   *)
(* shutdown code, of one the server closed in order.                       *)
Close(n, s) ==
    /\ phase[n][s] \in {"connecting", "polling", "open"}
    /\ Upset
    /\ Gone(n, s)
    /\ \/ CloseConnection(n, 1, FALSE)
       \/ /\ "shutdown" \in Faults /\ phase[n][s] = "open"
          /\ CloseConnection(n, 1, TRUE)
    /\ UNCHANGED <<saved, service>>

(* Status 429: the error event closes the connection and rejects a pending *)
(* connect(), and the close event that follows it closes it once more.     *)
RateLimited(n, s) ==
    /\ n \in Flaky
    /\ phase[n][s] = "connecting"
    /\ Upset
    /\ Gone(n, s)
    /\ CloseConnection(n, 2, FALSE)
    /\ Settles(n, {})
    /\ UNCHANGED <<saved, currentName, current>>

(* The peer is gone and TCP does not tell.  The keep-alive pings this.ws   *)
(* and misses the pong of a provider that must answer: the primary one.    *)
Silence(n, s) ==
    /\ "silent" \in Faults
    /\ phase[n][s] = "open"
    /\ Upset
    /\ phase' = [phase EXCEPT ![n][s] = "silent"]
    /\ UNCHANGED <<attached, ws, held, resilient, saved, service>>

RequirePong(n) == n = "primary"

PongMissing(n) ==
    /\ RequirePong(n)
    /\ ws[n] \in Sockets /\ phase[n][ws[n]] = "silent"
    /\ Gone(n, ws[n])
    /\ CloseConnection(n, 1, FALSE)
    /\ UNCHANGED <<saved, service, upsets>>

-----------------------------------------------------------------------------
(* EventsService: subscribeToHodler and subscribeToFacilitator on the      *)
(* provider the service gave it.  The first subscribes a new contract and  *)
(* takes nothing off the old one; the second does.                         *)

Listening(h) == h[1] = "UpdateRewards"

Unused(l) ==
    \A n \in Names : \A e \in Events :
        <<e, l>> \notin saved[n] \cup UNION {attached[n][s] : s \in Sockets}

Subscribes(m) ==
    \E l \in Listeners :
        LET new     == Events \X {l}
            kept(S) == {h \in S : Listening(h)}
        IN  /\ Unused(l) /\ \A k \in 1 .. (l - 1) : ~Unused(k)
            /\ saved' = [n \in Names |-> kept(saved[n]) \cup (IF n = m THEN new ELSE {})]
            /\ attached' = [n \in Names |-> [s \in Sockets |->
                   IF s # held[n] THEN attached[n][s]
                   ELSE kept(attached[n][s]) \cup (IF n = m THEN new ELSE {})]]

(* swapProviders, then the callback of EventsService.                      *)
Other(n) == IF n = "primary" THEN "secondary" ELSE "primary"

SwapProviders ==
    LET next     == Other(currentName)
        provider == IF next \in given THEN next ELSE NoProvider
    IN  /\ currentName' = next
        /\ current' = provider
        /\ IF boot = "up" THEN Subscribes(provider) ELSE UNCHANGED <<saved, attached>>

(* The callback's subscription to no provider rejects and ends the process.*)
SwapRejects == boot = "up" /\ Other(currentName) \notin given

(* Mutant: the provider that ran out is not marked as terminated.          *)
GivesUpUnmarked(n) ==
    IF SwapRejects
    THEN Ends
    ELSE /\ SwapProviders
         /\ Settles(n, {})
         /\ timers' = [timers EXCEPT ![n] = @ - 1]
         /\ UNCHANGED <<phase, ws, held, attempts, terminate>>

(* Mutant: after the swap the provider is tried again.                     *)
GivesUpAndRetries(n) ==
    IF SwapRejects
    THEN Ends
    ELSE /\ SwapProviders
         /\ Settles(n, {})
         /\ terminate' = terminate \cup {n}
         /\ UNCHANGED <<phase, ws, held, timers, attempts>>

(* startConnection of a provider that ran out of attempts.                 *)
GivesUp(n) ==
    IF SwapRejects
    THEN Ends
    ELSE /\ SwapProviders
         /\ Settles(n, {})
         /\ timers' = [timers EXCEPT ![n] = @ - 1]
         /\ terminate' = terminate \cup {n}
         /\ UNCHANGED <<phase, ws, held, attempts>>

(* Mutant: a connection is started that no timer asked for.                *)
StartUnasked(n) ==
    /\ IF attempts[n] >= MaxAttempts
       THEN GivesUp(n)
       ELSE /\ Connects(n)
            /\ timers' = [timers EXCEPT ![n] = @ - 1]
            /\ UNCHANGED <<attempts, terminate, saved, service>>
    /\ UNCHANGED upsets

(* startConnection, when its timeout fires.                                *)
StartConnection(n) ==
    /\ timers[n] > 0
    /\ IF attempts[n] >= MaxAttempts
       THEN GivesUp(n)
       ELSE /\ Connects(n)
            /\ timers' = [timers EXCEPT ![n] = @ - 1]
            /\ UNCHANGED <<attempts, terminate, saved, service>>
    /\ UNCHANGED upsets

-----------------------------------------------------------------------------
(* EvmProviderService: the bootstrap.                                      *)

Restart ==
    /\ boot = "down"
    /\ boot' = "checkPrimary"
    /\ UNCHANGED <<sockets, resilient, saved, given, currentName, current, upsets>>

(* checkProviderCredits, then connect().                                   *)
CheckProviderCredits(n) ==
    /\ boot = Check[n]
    /\ \/ boot' = Connecting[n] /\ Connects(n)
       \/ "credits" \in Faults /\ boot' = After[n] /\ UNCHANGED sockets
    /\ UNCHANGED <<resilient, saved, given, currentName, current, upsets>>

Choose ==
    /\ boot = "choose"
    /\ IF given = {}
       THEN Ends
       ELSE /\ current' = IF "primary" \in given THEN "primary" ELSE "secondary"
            /\ boot' = "subscribe"
            /\ UNCHANGED <<sockets, resilient, saved, given, currentName>>
    /\ UNCHANGED upsets

(* getCurrentWebSocketProvider waits until there is one, registers the     *)
(* callback and returns it.                                                *)
GetCurrentWebSocketProvider ==
    /\ boot = "subscribe"
    /\ current # NoProvider
    /\ Subscribes(current)
    /\ boot' = "up"
    /\ UNCHANGED <<phase, ws, held, resilient, given, currentName, current, upsets>>

(* onApplicationShutdown destroys the providers; Nomad restarts.           *)
Shutdown ==
    /\ boot = "up"
    /\ Upset
    /\ Ends

-----------------------------------------------------------------------------
Socket(n, s) ==
    \/ Open(n, s) \/ Poll(n, s) \/ ResubscribeFails(n, s)
    \/ Close(n, s) \/ RateLimited(n, s) \/ Silence(n, s)

Bootstrap ==
    \/ Restart \/ Choose \/ GetCurrentWebSocketProvider
    \/ \E n \in Names : CheckProviderCredits(n)

Next ==
    \/ \E n \in Names, s \in Sockets : Socket(n, s)
    \/ \E n \in Names : StartConnection(n) \/ PongMissing(n)
    \/ Bootstrap
    \/ Shutdown

Spec == Init /\ [][Next]_vars

(* Timers fire, a connection that is tried is made in the end unless it    *)
(* fails, the bootstrap goes on, and Nomad restarts what ended.  No        *)
(* handshakeTimeout is set: that a handshake ends is left to TCP.          *)
FairSpec ==
    /\ Spec
    /\ WF_vars(Bootstrap)
    /\ \A n \in Names :
          /\ WF_vars(StartConnection(n)) /\ WF_vars(PongMissing(n))
          /\ \A s \in Sockets : WF_vars(Open(n, s)) /\ WF_vars(Poll(n, s))

-----------------------------------------------------------------------------
(* Correctness.                                                            *)

Sound   == Names \ Flaky

(* A provider that is not rate-limited has one socket, or waits to start   *)
(* one: reconnecting, the keep-alive and a server's shutdown never leave   *)
(* two connections, which would deliver every event twice.                 *)
OneSocket(n) ==
    /\ timers[n] <= 1
    /\ timers[n] = 1 => Live(n) = {}
    /\ \A s, t \in Live(n) : s = t

OneSocketEach == \A n \in Sound : OneSocket(n)

(* A provider that was tried either gave up or has a socket or a timer     *)
(* left: no order of errors, closings and failed subscriptions ends its    *)
(* reconnecting before it ran out of attempts.                             *)
Started(n) == n \in given \/ boot = Connecting[n]
KeepsTrying ==
    \A n \in Names :
        Started(n) => n \in terminate \/ timers[n] > 0 \/ Live(n) # {}

(* Each provider that ran out of attempts has swapped the service once:    *)
(* its name is the second one after one of them, and the first again after *)
(* both.                                                                   *)
RanOut == {n \in terminate : attempts[n] >= MaxAttempts}
SwappedOncePerProvider ==
    terminate \subseteq Sound =>
        (currentName = "secondary" <=> \E n \in Names : RanOut = {n})

(* A provider that gave up stays quiet: no timer is left behind that would *)
(* connect or swap once more.                                              *)
GivenUpIsFinal ==
    \A n \in terminate \cap Sound : timers[n] = 0 /\ Live(n) = {}

Connected(n) == \E s \in Sockets : phase[n][s] = "open"
Hears(n, h)  == \E s \in Sockets : phase[n][s] = "open" /\ h \in attached[n][s]
Deaf(n)      == ~RequirePong(n) /\ \E s \in Sockets : phase[n][s] = "silent"

(* A listener survives reconnects: what was subscribed on a provider that  *)
(* lost its connection is heard again, unless the provider gives up, the   *)
(* listener was taken off, or the peer of a provider that needs no pong    *)
(* fell silent.                                                            *)
ListenerReturns ==
    \A n \in Names : \A h \in Handlers :
        (h \in saved[n] /\ ~Connected(n))
            ~> (Hears(n, h) \/ h \notin saved[n] \/ n \in terminate \/ Deaf(n))

-----------------------------------------------------------------------------
(* What one would expect and the code does otherwise.                      *)

(* README.md:81-82, automatic failover: once the primary provider ran out  *)
(* of attempts, the service listens on the secondary one, unless that gave *)
(* up as well.                                                             *)
FailoverListens ==
    (boot = "up" /\ "primary" \in RanOut) ~>
        \/ \E h \in Handlers : Hears("secondary", h)
        \/ "secondary" \in terminate \/ Deaf("secondary")
        \/ boot # "up"

(* A swap leaves a provider that ran out for one that did not.             *)
SwapLeavesFailed ==
    boot = "up" /\ current \in RanOut => RanOut = Names

(* Status 429 slows a provider down and does not double its connections.   *)
LimitedOneSocket == \A n \in Names : OneSocket(n)

(* A provider stops reconnecting only when it ran out of attempts and told *)
(* the service so.                                                         *)
StopsOnlyAfterAttempts == terminate \subseteq RanOut

=============================================================================
