------------------------ MODULE EvmProvidersProofs ------------------------
(***************************************************************************)
(* Theorems about EvmProviders, for any number of sockets, listeners,      *)
(* attempts and upsets, and any set of faults.                             *)
(***************************************************************************)
EXTENDS EvmProviders, TLAPS

USE DEF Names, EventKinds, Phases

(* The steps of the bootstrap, one by one.                                 *)
LEMMA BootSteps ==
    /\ Boots = {"checkPrimary", "checkSecondary", "connectPrimary", "connectSecondary",
                "choose", "subscribe", "up", "down"}
    /\ Check["primary"] = "checkPrimary" /\ Check["secondary"] = "checkSecondary"
    /\ Connecting["primary"] = "connectPrimary" /\ Connecting["secondary"] = "connectSecondary"
    /\ After["primary"] = "checkSecondary" /\ After["secondary"] = "choose"
<1>1. /\ Check["primary"] = "checkPrimary" /\ Check["secondary"] = "checkSecondary"
      /\ Connecting["primary"] = "connectPrimary" /\ Connecting["secondary"] = "connectSecondary"
      /\ After["primary"] = "checkSecondary" /\ After["secondary"] = "choose"
  BY DEF Check, Connecting, After
<1>2. /\ {Check[n] : n \in Names} = {"checkPrimary", "checkSecondary"}
      /\ {Connecting[n] : n \in Names} = {"connectPrimary", "connectSecondary"}
  BY <1>1
<1> QED BY <1>1, <1>2 DEF Boots

-----------------------------------------------------------------------------
(* Type correctness.                                                       *)

LEMMA KeptType ==
    ASSUME NEW S \in SUBSET Handlers, NEW n \in Names, NEW m \in Names \cup {NoProvider},
           NEW l \in Listeners
    PROVE  {h \in S : Listening(h)} \cup (IF n = m THEN Events \X {l} ELSE {}) \in SUBSET Handlers
BY DEF Handlers

(* Listeners come and go on a provider, and stay handlers.                 *)
LEMMA SubscribesType ==
    ASSUME TypeOK, NEW m \in Names \cup {NoProvider}, Subscribes(m)
    PROVE  /\ saved' \in [Names -> SUBSET Handlers]
           /\ attached' \in [Names -> [Sockets -> SUBSET Handlers]]
<1> DEFINE kept(S) == {h \in S : Listening(h)}
           of(n, l) == IF n = m THEN Events \X {l} ELSE {}
<1>1. PICK l \in Listeners :
         /\ saved' = [n \in Names |-> kept(saved[n]) \cup of(n, l)]
         /\ attached' = [n \in Names |-> [s \in Sockets |->
                IF s # held[n] THEN attached[n][s] ELSE kept(attached[n][s]) \cup of(n, l)]]
  BY DEF Subscribes
<1>2. \A n \in Names : \A S \in SUBSET Handlers : kept(S) \cup of(n, l) \in SUBSET Handlers
  BY KeptType
<1> HIDE DEF kept, of
<1>3. saved \in [Names -> SUBSET Handlers] /\ attached \in [Names -> [Sockets -> SUBSET Handlers]]
  BY DEF TypeOK
<1> QED BY <1>1, <1>2, <1>3

LEMMA EndsType == ASSUME Ends, upsets' \in Nat PROVE TypeOK'
BY BootSteps DEF Ends, TypeOK

LEMMA GivesUpType ==
    ASSUME TypeOK, NEW n \in Names, timers[n] > 0, GivesUp(n), upsets' \in Nat
    PROVE  TypeOK'
<1>1. CASE SwapRejects
  BY <1>1, EndsType DEF GivesUp
<1>2. CASE ~SwapRejects
  <2>1. timers[n] - 1 \in Nat
    BY DEF TypeOK
  <2>2. saved' \in [Names -> SUBSET Handlers] /\ attached' \in [Names -> [Sockets -> SUBSET Handlers]]
    BY <1>2, SubscribesType DEF GivesUp, SwapProviders, TypeOK
  <2>3. currentName' \in Names /\ current' \in Names \cup {NoProvider}
    BY <1>2 DEF GivesUp, SwapProviders, Other, TypeOK
  <2>4. given' \subseteq Names /\ boot' \in Boots
    BY <1>2, BootSteps DEF GivesUp, Settles, TypeOK
  <2>5. timers' \in [Names -> Nat] /\ terminate' \subseteq Names
    BY <1>2, <2>1 DEF GivesUp, TypeOK
  <2> QED BY <1>2, <2>2, <2>3, <2>4, <2>5 DEF GivesUp, TypeOK
<1> QED BY <1>1, <1>2

LEMMA CloseType ==
    ASSUME TypeOK, NEW n \in Names, NEW s \in Sockets, NEW k \in Nat, NEW b \in BOOLEAN,
           Gone(n, s), CloseConnection(n, k, b)
    PROVE  /\ phase' \in [Names -> [Sockets -> Phases]]
           /\ attached' \in [Names -> [Sockets -> SUBSET Handlers]]
           /\ ws' \in [Names -> Sockets \cup {NoSocket}]
           /\ held' \in [Names -> Sockets \cup {NoSocket}]
           /\ timers' \in [Names -> Nat]
           /\ attempts' \in [Names -> Nat]
           /\ terminate' \subseteq Names
BY DEF TypeOK, Gone, CloseConnection

(* Every state variable keeps its type.                                    *)
LEMMA TypeStep == TypeOK /\ [Next]_vars => TypeOK'
<1> SUFFICES ASSUME TypeOK, [Next]_vars PROVE TypeOK'
  OBVIOUS
<1> USE ProviderAssumption, BootSteps
<1>1. ASSUME NEW n \in Names, NEW s \in Sockets, Open(n, s) PROVE TypeOK'
  <2>1. phase' \in [Names -> [Sockets -> Phases]]
    BY <1>1 DEF TypeOK, Open
  <2>2. attached' \in [Names -> [Sockets -> SUBSET Handlers]]
    <3>1. saved[n] \in SUBSET Handlers
      BY DEF TypeOK
    <3> QED BY <1>1, <3>1 DEF TypeOK, Open
  <2>3. held' \in [Names -> Sockets \cup {NoSocket}] /\ attempts' \in [Names -> Nat]
    BY <1>1 DEF TypeOK, Open
  <2>4. given' \subseteq Names /\ boot' \in Boots
    <3>1. Settles(n, {n}) \/ UNCHANGED <<given, boot>>
      BY <1>1 DEF Open
    <3>2. Settles(n, {n}) => given' \subseteq Names /\ boot' \in Boots
      BY DEF TypeOK, Settles
    <3> QED BY <3>1, <3>2 DEF TypeOK
  <2> QED BY <1>1, <2>1, <2>2, <2>3, <2>4 DEF TypeOK, Open
<1>2. ASSUME NEW n \in Names, NEW s \in Sockets, Poll(n, s) PROVE TypeOK'
  BY <1>2 DEF TypeOK, Poll, resilient, service
<1>3. ASSUME NEW n \in Names, NEW s \in Sockets, ResubscribeFails(n, s) PROVE TypeOK'
  BY <1>3 DEF TypeOK, ResubscribeFails, Upset, service
<1>4. ASSUME NEW n \in Names, NEW s \in Sockets, Close(n, s) PROVE TypeOK'
  <2>1. PICK b \in BOOLEAN : CloseConnection(n, 1, b)
    BY <1>4 DEF Close
  <2>2. Gone(n, s) /\ 1 \in Nat
    BY <1>4 DEF Close
  <2> HIDE DEF Phases
  <2> QED BY <1>4, <2>1, <2>2, CloseType DEF TypeOK, Close, Upset, service
<1>5. ASSUME NEW n \in Names, NEW s \in Sockets, RateLimited(n, s) PROVE TypeOK'
  <2>1. Gone(n, s) /\ CloseConnection(n, 2, FALSE) /\ 2 \in Nat /\ FALSE \in BOOLEAN
    BY <1>5 DEF RateLimited
  <2>2. given' \subseteq Names /\ boot' \in Boots
    BY <1>5 DEF TypeOK, RateLimited, Settles
  <2>3. UNCHANGED <<saved, currentName, current>> /\ upsets' \in Nat
    BY <1>5 DEF TypeOK, RateLimited, Upset
  <2> HIDE DEF Phases
  <2>4. /\ phase' \in [Names -> [Sockets -> Phases]]
        /\ attached' \in [Names -> [Sockets -> SUBSET Handlers]]
        /\ ws' \in [Names -> Sockets \cup {NoSocket}]
        /\ held' \in [Names -> Sockets \cup {NoSocket}]
        /\ timers' \in [Names -> Nat] /\ attempts' \in [Names -> Nat] /\ terminate' \subseteq Names
    BY <2>1, CloseType
  <2> QED BY <2>2, <2>3, <2>4 DEF TypeOK
<1>6. ASSUME NEW n \in Names, NEW s \in Sockets, Silence(n, s) PROVE TypeOK'
  BY <1>6 DEF TypeOK, Silence, Upset, resilient, service
<1>7. ASSUME NEW n \in Names, StartConnection(n) PROVE TypeOK'
  <2>1. CASE attempts[n] >= MaxAttempts
    BY <1>7, <2>1, GivesUpType DEF StartConnection, TypeOK
  <2>2. CASE ~(attempts[n] >= MaxAttempts)
    <3>1. phase' \in [Names -> [Sockets -> Phases]] /\ ws' \in [Names -> Sockets \cup {NoSocket}]
      BY <1>7, <2>2 DEF TypeOK, StartConnection, Connects
    <3>2. timers' \in [Names -> Nat]
      BY <1>7, <2>2 DEF TypeOK, StartConnection
    <3>3. UNCHANGED <<attached, held, attempts, terminate, saved, given, boot, currentName,
                      current, upsets>>
      BY <1>7, <2>2 DEF StartConnection, Connects, service
    <3> HIDE DEF Phases
    <3> QED BY <3>1, <3>2, <3>3 DEF TypeOK
  <2> QED BY <2>1, <2>2
<1>8. ASSUME NEW n \in Names, PongMissing(n) PROVE TypeOK'
  BY <1>8, CloseType DEF TypeOK, PongMissing, service
<1>9. CASE Restart
  BY <1>9 DEF TypeOK, Restart, sockets, resilient
<1>10. CASE Choose
  BY <1>10, EndsType DEF TypeOK, Choose, sockets, resilient
<1>11. CASE GetCurrentWebSocketProvider
  BY <1>11, SubscribesType DEF TypeOK, GetCurrentWebSocketProvider, resilient
<1>12. ASSUME NEW n \in Names, CheckProviderCredits(n) PROVE TypeOK'
  BY <1>12 DEF TypeOK, CheckProviderCredits, Connects, sockets, resilient
<1>13. CASE Shutdown
  BY <1>13, EndsType DEF Shutdown, Upset, TypeOK
<1>14. CASE UNCHANGED vars
  BY <1>14 DEF TypeOK, vars, sockets, resilient, service
<1> QED
  BY <1>1, <1>2, <1>3, <1>4, <1>5, <1>6, <1>7, <1>8, <1>9, <1>10, <1>11, <1>12, <1>13, <1>14
     DEF Next, Socket, Bootstrap

(* For any number of sockets, listeners and upsets.                        *)
THEOREM TypeCorrect == Spec => []TypeOK
<1>1. Init => TypeOK
  BY BootSteps DEF Init, TypeOK
<1> QED BY <1>1, TypeStep, PTL DEF Spec

-----------------------------------------------------------------------------
(* Reconnecting.                                                           *)

(* The bootstrap has not come to a provider.                               *)
NotYet(n) ==
    \/ boot \in {"down", "checkPrimary"}
    \/ n = "secondary" /\ boot \in {"connectPrimary", "checkSecondary"}

(* Nothing was started for it, then.                                       *)
FreshBefore ==
    \A n \in Names :
        NotYet(n) => Live(n) = {} /\ timers[n] = 0 /\ n \notin terminate /\ n \notin given

(* A connection that was made starts to count anew.                        *)
OpenResets ==
    \A n \in Sound : \A s \in Sockets :
        phase[n][s] \in {"polling", "open", "silent"} => attempts[n] = 0

ReconnectInv ==
    FreshBefore /\ OpenResets /\ OneSocketEach /\ KeepsTrying /\ GivenUpIsFinal

LEMMA EndsReconnect == ASSUME Ends PROVE ReconnectInv'
BY BootSteps DEF Ends, ReconnectInv, FreshBefore, OpenResets, OneSocketEach, OneSocket,
   KeepsTrying, GivenUpIsFinal, Live, Started, Sound

LEMMA ReconnectStep == TypeOK /\ ReconnectInv /\ [Next]_vars => ReconnectInv'
<1> SUFFICES ASSUME TypeOK, ReconnectInv, [Next]_vars PROVE ReconnectInv'
  OBVIOUS
<1> USE ProviderAssumption, BootSteps
<1>1. ASSUME NEW n \in Names, NEW s \in Sockets, Open(n, s) PROVE ReconnectInv'
  <2>1. FreshBefore'
    BY <1>1 DEF TypeOK, ReconnectInv, Open, Settles, FreshBefore, NotYet, Live
  <2>2. OpenResets'
    BY <1>1 DEF TypeOK, ReconnectInv, Open, OpenResets, Sound
  <2>3. OneSocketEach'
    BY <1>1 DEF TypeOK, ReconnectInv, Open, OneSocketEach, OneSocket, Sound, Live
  <2>4. KeepsTrying'
    BY <1>1 DEF TypeOK, ReconnectInv, Open, Settles, KeepsTrying, Started, Live
  <2>5. GivenUpIsFinal'
    BY <1>1 DEF TypeOK, ReconnectInv, Open, GivenUpIsFinal, Live
  <2> QED BY <2>1, <2>2, <2>3, <2>4, <2>5 DEF ReconnectInv
<1>2. ASSUME NEW n \in Names, NEW s \in Sockets, Poll(n, s) PROVE ReconnectInv'
  <2>1. FreshBefore'
    BY <1>2 DEF ReconnectInv, Poll, resilient, service, FreshBefore, NotYet, Live
  <2>2. OpenResets'
    BY <1>2 DEF ReconnectInv, Poll, resilient, OpenResets
  <2>3. OneSocketEach'
    BY <1>2 DEF ReconnectInv, Poll, resilient, OneSocketEach, OneSocket, Live
  <2>4. KeepsTrying'
    BY <1>2 DEF ReconnectInv, Poll, resilient, service, KeepsTrying, Started, Live
  <2>5. GivenUpIsFinal'
    BY <1>2 DEF ReconnectInv, Poll, resilient, GivenUpIsFinal, Live
  <2> QED BY <2>1, <2>2, <2>3, <2>4, <2>5 DEF ReconnectInv
<1>3. ASSUME NEW n \in Names, NEW s \in Sockets, ResubscribeFails(n, s) PROVE ReconnectInv'
  <2>1. FreshBefore'
    BY <1>3 DEF ReconnectInv, ResubscribeFails, service, FreshBefore, NotYet, Live
  <2>2. OpenResets'
    BY <1>3 DEF ReconnectInv, ResubscribeFails, OpenResets, Sound
  <2>3. OneSocketEach'
    BY <1>3 DEF ReconnectInv, ResubscribeFails, OneSocketEach, OneSocket, Sound, Live
  <2>4. KeepsTrying'
    BY <1>3 DEF ReconnectInv, ResubscribeFails, service, KeepsTrying, Started, Live
  <2>5. GivenUpIsFinal'
    BY <1>3 DEF ReconnectInv, ResubscribeFails, GivenUpIsFinal, Live
  <2> QED BY <2>1, <2>2, <2>3, <2>4, <2>5 DEF ReconnectInv
<1>4. ASSUME NEW n \in Names, NEW s \in Sockets, Close(n, s) PROVE ReconnectInv'
  <2>1. FreshBefore'
    BY <1>4 DEF TypeOK, ReconnectInv, Close, Gone, CloseConnection, service,
       FreshBefore, NotYet, Live
  <2>2. OpenResets'
    BY <1>4 DEF TypeOK, ReconnectInv, Close, Gone, CloseConnection, OpenResets, Sound,
       OneSocketEach, OneSocket, Live
  <2>3. OneSocketEach'
    BY <1>4 DEF TypeOK, ReconnectInv, Close, Gone, CloseConnection, service,
       OneSocketEach, OneSocket, Sound, Live
  <2>4. KeepsTrying'
    BY <1>4 DEF TypeOK, ReconnectInv, Close, Gone, CloseConnection, service,
       KeepsTrying, Started, Live
  <2>5. GivenUpIsFinal'
    BY <1>4 DEF TypeOK, ReconnectInv, Close, Gone, CloseConnection, GivenUpIsFinal,
       OneSocketEach, OneSocket, Sound, Live
  <2> QED BY <2>1, <2>2, <2>3, <2>4, <2>5 DEF ReconnectInv
<1>5. ASSUME NEW n \in Names, NEW s \in Sockets, RateLimited(n, s) PROVE ReconnectInv'
  <2>1. FreshBefore'
    BY <1>5 DEF TypeOK, ReconnectInv, RateLimited, Gone, CloseConnection, Settles,
       FreshBefore, NotYet, Live
  <2>2. OpenResets'
    BY <1>5 DEF TypeOK, ReconnectInv, RateLimited, Gone, CloseConnection, OpenResets,
       Sound
  <2>3. OneSocketEach'
    BY <1>5 DEF TypeOK, ReconnectInv, RateLimited, Gone, CloseConnection, OneSocketEach,
       OneSocket, Sound, Live
  <2>4. KeepsTrying'
    BY <1>5 DEF TypeOK, ReconnectInv, RateLimited, Gone, CloseConnection, Settles,
       KeepsTrying, Started, Live
  <2>5. GivenUpIsFinal'
    BY <1>5 DEF TypeOK, ReconnectInv, RateLimited, Gone, CloseConnection,
       GivenUpIsFinal, Live
  <2> QED BY <2>1, <2>2, <2>3, <2>4, <2>5 DEF ReconnectInv
<1>6. ASSUME NEW n \in Names, NEW s \in Sockets, Silence(n, s) PROVE ReconnectInv'
  <2>1. FreshBefore'
    BY <1>6 DEF ReconnectInv, Silence, resilient, service, FreshBefore, NotYet, Live
  <2>2. OpenResets'
    BY <1>6 DEF ReconnectInv, Silence, resilient, OpenResets
  <2>3. OneSocketEach'
    BY <1>6 DEF ReconnectInv, Silence, resilient, OneSocketEach, OneSocket, Live
  <2>4. KeepsTrying'
    BY <1>6 DEF ReconnectInv, Silence, resilient, service, KeepsTrying, Started, Live
  <2>5. GivenUpIsFinal'
    BY <1>6 DEF ReconnectInv, Silence, resilient, GivenUpIsFinal, Live
  <2> QED BY <2>1, <2>2, <2>3, <2>4, <2>5 DEF ReconnectInv
<1>7. ASSUME NEW n \in Names, StartConnection(n) PROVE ReconnectInv'
  <2>1. FreshBefore'
    BY <1>7, EndsReconnect DEF TypeOK, ReconnectInv, StartConnection, Connects, service,
       GivesUp, Settles, FreshBefore, NotYet, Live
  <2>2. OpenResets'
    BY <1>7, EndsReconnect DEF TypeOK, ReconnectInv, StartConnection, Connects, GivesUp,
       OpenResets, Sound
  <2>3. OneSocketEach'
    BY <1>7, EndsReconnect DEF TypeOK, ReconnectInv, StartConnection, Connects, GivesUp,
       OneSocketEach, OneSocket, Sound, Live
  <2>4. KeepsTrying'
    BY <1>7, EndsReconnect DEF TypeOK, ReconnectInv, StartConnection, Connects, service,
       GivesUp, Settles, KeepsTrying, Started, Live
  <2>5. GivenUpIsFinal'
    BY <1>7, EndsReconnect DEF TypeOK, ReconnectInv, StartConnection, Connects, GivesUp,
       GivenUpIsFinal, OneSocketEach, OneSocket, Sound, Live
  <2> QED BY <2>1, <2>2, <2>3, <2>4, <2>5 DEF ReconnectInv
<1>8. ASSUME NEW n \in Names, PongMissing(n) PROVE ReconnectInv'
  <2>1. FreshBefore'
    BY <1>8 DEF TypeOK, ReconnectInv, PongMissing, Gone, CloseConnection, service,
       FreshBefore, NotYet, Live
  <2>2. OpenResets'
    BY <1>8 DEF TypeOK, ReconnectInv, PongMissing, Gone, CloseConnection, OpenResets,
       Sound, OneSocketEach, OneSocket, Live
  <2>3. OneSocketEach'
    BY <1>8 DEF TypeOK, ReconnectInv, PongMissing, Gone, CloseConnection, OneSocketEach,
       OneSocket, Sound, Live
  <2>4. KeepsTrying'
    BY <1>8 DEF TypeOK, ReconnectInv, PongMissing, Gone, CloseConnection, service,
       KeepsTrying, Started, Live
  <2>5. GivenUpIsFinal'
    BY <1>8 DEF TypeOK, ReconnectInv, PongMissing, Gone, CloseConnection,
       GivenUpIsFinal, Live
  <2> QED BY <2>1, <2>2, <2>3, <2>4, <2>5 DEF ReconnectInv
<1>9. CASE Restart
  <2>1. FreshBefore'
    BY <1>9 DEF ReconnectInv, Restart, sockets, resilient, FreshBefore, NotYet, Live
  <2>2. OpenResets'
    BY <1>9 DEF ReconnectInv, Restart, sockets, OpenResets, Sound, Live, FreshBefore,
       NotYet
  <2>3. OneSocketEach'
    BY <1>9 DEF ReconnectInv, Restart, sockets, resilient, OneSocketEach, OneSocket,
       Live
  <2>4. KeepsTrying'
    BY <1>9 DEF ReconnectInv, Restart, sockets, resilient, KeepsTrying, Started, Live
  <2>5. GivenUpIsFinal'
    BY <1>9 DEF ReconnectInv, Restart, resilient, GivenUpIsFinal, Sound, FreshBefore,
       NotYet
  <2> QED BY <2>1, <2>2, <2>3, <2>4, <2>5 DEF ReconnectInv
<1>10. CASE Choose
  <2>1. FreshBefore'
    BY <1>10, EndsReconnect DEF ReconnectInv, Choose, FreshBefore, NotYet
  <2>2. OpenResets'
    BY <1>10, EndsReconnect DEF ReconnectInv, Choose, sockets, resilient, OpenResets
  <2>3. OneSocketEach'
    BY <1>10, EndsReconnect DEF ReconnectInv, Choose, sockets, resilient, OneSocketEach,
       OneSocket, Live
  <2>4. KeepsTrying'
    BY <1>10, EndsReconnect DEF ReconnectInv, Choose, sockets, resilient, KeepsTrying,
       Started, Live
  <2>5. GivenUpIsFinal'
    BY <1>10, EndsReconnect DEF ReconnectInv, Choose, sockets, resilient,
       GivenUpIsFinal, Live
  <2> QED BY <2>1, <2>2, <2>3, <2>4, <2>5 DEF ReconnectInv
<1>11. CASE GetCurrentWebSocketProvider
  <2>1. FreshBefore'
    BY <1>11 DEF GetCurrentWebSocketProvider, FreshBefore, NotYet
  <2>2. OpenResets'
    BY <1>11 DEF ReconnectInv, GetCurrentWebSocketProvider, resilient, OpenResets
  <2>3. OneSocketEach'
    BY <1>11 DEF ReconnectInv, GetCurrentWebSocketProvider, resilient, OneSocketEach,
       OneSocket, Live
  <2>4. KeepsTrying'
    BY <1>11 DEF ReconnectInv, GetCurrentWebSocketProvider, resilient, KeepsTrying,
       Started, Live
  <2>5. GivenUpIsFinal'
    BY <1>11 DEF ReconnectInv, GetCurrentWebSocketProvider, resilient, GivenUpIsFinal,
       Live
  <2> QED BY <2>1, <2>2, <2>3, <2>4, <2>5 DEF ReconnectInv
<1>12. ASSUME NEW n \in Names, CheckProviderCredits(n) PROVE ReconnectInv'
  <2>1. FreshBefore'
    BY <1>12 DEF TypeOK, ReconnectInv, CheckProviderCredits, Connects, sockets,
       resilient, FreshBefore, NotYet, Live
  <2>2. OpenResets'
    BY <1>12 DEF TypeOK, ReconnectInv, CheckProviderCredits, Connects, sockets,
       resilient, OpenResets, Sound
  <2>3. OneSocketEach'
    BY <1>12 DEF TypeOK, ReconnectInv, CheckProviderCredits, Connects, sockets,
       resilient, FreshBefore, NotYet, OneSocketEach, OneSocket, Sound, Live
  <2>4. KeepsTrying'
    BY <1>12 DEF TypeOK, ReconnectInv, CheckProviderCredits, Connects, sockets,
       resilient, KeepsTrying, Started, Live
  <2>5. GivenUpIsFinal'
    BY <1>12 DEF TypeOK, ReconnectInv, CheckProviderCredits, Connects, sockets,
       resilient, GivenUpIsFinal, Live, FreshBefore, NotYet
  <2> QED BY <2>1, <2>2, <2>3, <2>4, <2>5 DEF ReconnectInv
<1>13. CASE Shutdown
  BY <1>13, EndsReconnect DEF Shutdown
<1>14. CASE UNCHANGED vars
  BY <1>14 DEF ReconnectInv, FreshBefore, OpenResets, OneSocketEach, OneSocket,
     KeepsTrying, GivenUpIsFinal, NotYet, Live, Started, vars, sockets, resilient, service
<1> QED
  BY <1>1, <1>2, <1>3, <1>4, <1>5, <1>6, <1>7, <1>8, <1>9, <1>10, <1>11, <1>12, <1>13,
     <1>14 DEF Next, Socket, Bootstrap

-----------------------------------------------------------------------------
(* Swapping: of the two providers one ran out of attempts.                 *)

HasRunOut(n) == n \in terminate /\ attempts[n] >= MaxAttempts

OneRanOut ==
    terminate \subseteq Sound =>
        (currentName = "secondary" <=> ~(HasRunOut("primary") <=> HasRunOut("secondary")))

LEMMA SameCount == ASSUME TypeOK, OneRanOut PROVE SwappedOncePerProvider
<1>1. RanOut \subseteq {"primary", "secondary"}
  BY DEF RanOut, TypeOK
<1>2. \A n \in Names : n \in RanOut <=> HasRunOut(n)
  BY DEF RanOut, HasRunOut, TypeOK
<1>3. (\E n \in Names : RanOut = {n})
        <=> ~("primary" \in RanOut <=> "secondary" \in RanOut)
  BY <1>1
<1> QED BY <1>2, <1>3 DEF OneRanOut, SwappedOncePerProvider

LEMMA SwapStep ==
    TypeOK /\ ReconnectInv /\ OneRanOut /\ [Next]_vars => OneRanOut'
<1> SUFFICES ASSUME TypeOK, ReconnectInv, OneRanOut, [Next]_vars, terminate' \subseteq Sound
             PROVE  currentName' = "secondary"
                        <=> ~(HasRunOut("primary")' <=> HasRunOut("secondary")')
  BY DEF OneRanOut
<1> DEFINE Goal == currentName' = "secondary"
                        <=> ~(HasRunOut("primary")' <=> HasRunOut("secondary")')
<1> USE ProviderAssumption, BootSteps
<1>a. CASE Ends
  BY <1>a DEF Ends, HasRunOut
<1>1. ASSUME NEW n \in Names, NEW s \in Sockets, Open(n, s) PROVE Goal
  BY <1>1 DEF OneRanOut, HasRunOut, Open, ReconnectInv, GivenUpIsFinal, Live
<1>2. ASSUME NEW n \in Names, NEW s \in Sockets, Poll(n, s) PROVE Goal
  BY <1>2 DEF OneRanOut, HasRunOut, Poll, resilient, service
<1>3. ASSUME NEW n \in Names, NEW s \in Sockets, ResubscribeFails(n, s) PROVE Goal
  BY <1>3 DEF OneRanOut, HasRunOut, ResubscribeFails, service, ReconnectInv,
     GivenUpIsFinal
<1>4. ASSUME NEW n \in Names, NEW s \in Sockets, Close(n, s) PROVE Goal
  BY <1>4 DEF TypeOK, OneRanOut, HasRunOut, Close, CloseConnection, service, ReconnectInv,
     OpenResets
<1>5. ASSUME NEW n \in Names, NEW s \in Sockets, RateLimited(n, s) PROVE Goal
  BY <1>5 DEF TypeOK, OneRanOut, HasRunOut, RateLimited, CloseConnection
<1>6. ASSUME NEW n \in Names, NEW s \in Sockets, Silence(n, s) PROVE Goal
  BY <1>6 DEF OneRanOut, HasRunOut, Silence, resilient, service
<1>7. ASSUME NEW n \in Names, StartConnection(n) PROVE Goal
  BY <1>7, <1>a DEF TypeOK, OneRanOut, HasRunOut, StartConnection, service, GivesUp,
     SwapProviders, Other, ReconnectInv, GivenUpIsFinal
<1>8. ASSUME NEW n \in Names, PongMissing(n) PROVE Goal
  BY <1>8 DEF TypeOK, OneRanOut, HasRunOut, PongMissing, CloseConnection, service
<1>9. CASE Restart
  BY <1>9 DEF OneRanOut, HasRunOut, Restart, resilient
<1>10. CASE Choose
  BY <1>10, <1>a DEF OneRanOut, HasRunOut, Choose, resilient
<1>11. CASE GetCurrentWebSocketProvider
  BY <1>11 DEF OneRanOut, HasRunOut, GetCurrentWebSocketProvider, resilient
<1>12. ASSUME NEW n \in Names, CheckProviderCredits(n) PROVE Goal
  BY <1>12 DEF OneRanOut, HasRunOut, CheckProviderCredits, resilient
<1>13. CASE Shutdown
  BY <1>13, <1>a DEF Shutdown
<1>14. CASE UNCHANGED vars
  BY <1>14 DEF OneRanOut, HasRunOut, vars, resilient, service
<1> QED
  BY <1>1, <1>2, <1>3, <1>4, <1>5, <1>6, <1>7, <1>8, <1>9, <1>10, <1>11, <1>12, <1>13,
     <1>14 DEF Next, Socket, Bootstrap

-----------------------------------------------------------------------------
ProvidersInv == TypeOK /\ ReconnectInv /\ OneRanOut

LEMMA ProvidersInvariant == Spec => []ProvidersInv
<1>1. Init => ProvidersInv
  BY BootSteps DEF Init, ProvidersInv, TypeOK, ReconnectInv, FreshBefore, OpenResets, OneSocketEach,
     OneSocket, KeepsTrying, GivenUpIsFinal, NotYet, Live, Started, Sound, OneRanOut, HasRunOut
<1>2. ProvidersInv /\ [Next]_vars => ProvidersInv'
  BY TypeStep, ReconnectStep, SwapStep DEF ProvidersInv
<1> QED BY <1>1, <1>2, PTL DEF Spec

(* A provider that is not limited never has two connections, nor one with  *)
(* another on its way.                                                     *)
THEOREM NeverTwoSockets == Spec => []OneSocketEach
<1>1. ProvidersInv => OneSocketEach
  BY DEF ProvidersInv, ReconnectInv
<1> QED BY <1>1, ProvidersInvariant, PTL

(* Reconnecting does not stop before the attempts ran out, whatever fails. *)
THEOREM NeverAbandoned == Spec => []KeepsTrying
<1>1. ProvidersInv => KeepsTrying
  BY DEF ProvidersInv, ReconnectInv
<1> QED BY <1>1, ProvidersInvariant, PTL

(* Nothing is left of a provider that gave up.                             *)
THEOREM NeverRevived == Spec => []GivenUpIsFinal
<1>1. ProvidersInv => GivenUpIsFinal
  BY DEF ProvidersInv, ReconnectInv
<1> QED BY <1>1, ProvidersInvariant, PTL

(* Each provider that ran out has swapped the service once.                *)
THEOREM OneSwapEach == Spec => []SwappedOncePerProvider
<1>1. ProvidersInv => SwappedOncePerProvider
  BY SameCount DEF ProvidersInv
<1> QED BY <1>1, ProvidersInvariant, PTL

============================================================================
