---------------------------- MODULE DaemonProofs ----------------------------
(***************************************************************************)
(* Two tables of the daemon: the streams with their receivers and          *)
(* subscriptions, and the cache of resolved endpoints.                     *)
(***************************************************************************)
EXTENDS StreamTable, Resolution, FiniteSetTheorems, TLAPS

----------------------------------------------------------------------------
(***************************************************************************)
(* The stream table, for any streams, any clients and any capacity of the  *)
(* broadcast channel.                                                      *)
(***************************************************************************)

\* The receive channel of an inbound stream is untaken or has one taker.
ClaimsInv ==
    /\ claims \in [Inbounds -> SUBSET Clients]
    /\ \A s \in Inbounds : claims[s] = {} \/ \E c \in Clients : claims[s] = {c}

\* What an agent is due is in its subscription, unless that has overflowed.
BusInv ==
    /\ inbox \in [Clients -> Seq(Inbounds)]
    /\ due \in [Clients -> SUBSET Inbounds]
    /\ \A c \in Clients : c \in lagged \/ due[c] \subseteq Range(inbox[c])

\* The notices in a subscription after one more.
LEMMA RangeAppend ==
    ASSUME NEW S, NEW q \in Seq(S), NEW e \in S
    PROVE  Append(q, e) \in Seq(S) /\ Range(Append(q, e)) = Range(q) \union {e}
<1>1. Append(q, e) \in Seq(S) /\ Len(Append(q, e)) = Len(q) + 1
      OBVIOUS
<1>2. DOMAIN Append(q, e) = 1 .. Len(q) + 1 /\ DOMAIN q = 1 .. Len(q) /\ Len(q) \in Nat
      OBVIOUS
<1>3. \A i \in 1 .. Len(q) + 1 : Append(q, e)[i] = IF i <= Len(q) THEN q[i] ELSE e
      OBVIOUS
<1>4. ASSUME NEW x \in Range(Append(q, e)) PROVE x \in Range(q) \union {e}
  <2>1. PICK i \in 1 .. Len(q) + 1 : x = Append(q, e)[i]
        BY <1>2 DEF Range
  <2> QED BY <2>1, <1>2, <1>3 DEF Range
<1>5. ASSUME NEW x \in Range(q) PROVE x \in Range(Append(q, e))
  <2>1. PICK i \in 1 .. Len(q) : x = q[i]
        BY <1>2 DEF Range
  <2>2. i \in 1 .. Len(q) + 1 /\ Append(q, e)[i] = x
        BY <2>1, <1>2, <1>3
  <2> QED BY <2>2, <1>2 DEF Range
<1>6. e \in Range(Append(q, e))
  <2>1. Len(q) + 1 \in 1 .. Len(q) + 1 /\ Append(q, e)[Len(q) + 1] = e
        BY <1>2, <1>3
  <2> QED BY <2>1, <1>2 DEF Range
<1> QED BY <1>1, <1>4, <1>5, <1>6

\* The notices in a subscription after one is taken.
LEMMA RangeTail ==
    ASSUME NEW S, NEW q \in Seq(S), q # << >>
    PROVE  Tail(q) \in Seq(S) /\ Head(q) \in S /\ Range(q) \subseteq Range(Tail(q)) \union {Head(q)}
<1>1. /\ Tail(q) \in Seq(S) /\ Head(q) = q[1] /\ Head(q) \in S
      /\ Len(q) \in Nat \ {0} /\ Len(Tail(q)) = Len(q) - 1
      OBVIOUS
<1>2. DOMAIN Tail(q) = 1 .. Len(q) - 1 /\ DOMAIN q = 1 .. Len(q)
      BY <1>1
<1>3. \A i \in 1 .. Len(q) - 1 : Tail(q)[i] = q[i + 1]
      BY <1>1
<1>4. ASSUME NEW x \in Range(q), x # Head(q) PROVE x \in Range(Tail(q))
  <2>1. PICK i \in 1 .. Len(q) : x = q[i]
        BY <1>2 DEF Range
  <2>2. i - 1 \in 1 .. Len(q) - 1 /\ (i - 1) + 1 = i
        BY <2>1, <1>1, <1>4
  <2>3. Tail(q)[i - 1] = x
        BY <2>1, <2>2, <1>3
  <2> QED BY <2>2, <2>3, <1>2, Zenon DEF Range
<1> QED BY <1>1, <1>4

\* Every step of the manager and of the agents preserves both.
LEMMA TableInvNext ==
    ClaimsInv /\ BusInv /\ [TableNext]_tableVars => ClaimsInv' /\ BusInv'
<1> SUFFICES ASSUME ClaimsInv, BusInv, [TableNext]_tableVars PROVE ClaimsInv' /\ BusInv'
    OBVIOUS
<1>1. ASSUME UNCHANGED busVars PROVE ClaimsInv' /\ BusInv'
      BY <1>1 DEF busVars, ClaimsInv, BusInv
<1>2. ASSUME NEW s \in Inbounds, Broadcast(s) PROVE ClaimsInv' /\ BusInv'
  <2>1. ClaimsInv'
        BY <1>2 DEF Broadcast, ClaimsInv
  <2>2. ASSUME NEW c \in Clients
        PROVE  /\ inbox'[c] \in Seq(Inbounds) /\ due'[c] \in SUBSET Inbounds
               /\ c \in lagged' \/ due'[c] \subseteq Range(inbox'[c])
    <3>1. inbox[c] \in Seq(Inbounds) /\ due[c] \subseteq Inbounds
          BY DEF BusInv
    <3>2. due'[c] = due[c] \union (IF listen[c] = "listening" THEN {s} ELSE {})
          BY <1>2 DEF Broadcast
    <3>3. CASE ~Subscribed(c)
      <4>1. inbox'[c] = inbox[c]
            BY <1>2, <3>3 DEF Broadcast
      <4>2. due'[c] = due[c]
            BY <3>2, <3>3 DEF Subscribed
      <4> QED BY <4>1, <4>2, <3>1, <1>2 DEF BusInv, Broadcast
    <3>4. CASE Subscribed(c) /\ Len(inbox[c]) = BusCap
      <4>1. inbox'[c] = Append(Tail(inbox[c]), s) /\ c \in lagged'
            BY <1>2, <3>4 DEF Broadcast
      <4>2. inbox[c] # << >>
            BY <3>4, TableAssumption
      <4>3. Append(Tail(inbox[c]), s) \in Seq(Inbounds)
            BY <3>1, <4>2
      <4> QED BY <4>1, <4>3, <3>1, <3>2
    <3>5. CASE Subscribed(c) /\ Len(inbox[c]) # BusCap
      <4>1. inbox'[c] = Append(inbox[c], s) /\ lagged \subseteq lagged'
            BY <1>2, <3>5 DEF Broadcast
      <4>2. c \in lagged \/ due[c] \subseteq Range(inbox[c])
            BY DEF BusInv
      <4> QED BY <4>1, <4>2, <3>1, <3>2, RangeAppend
    <3> QED BY <3>3, <3>4, <3>5
  <2>3. inbox' = [c \in Clients |-> inbox'[c]] /\ due' = [c \in Clients |-> due'[c]]
        BY <1>2 DEF Broadcast
  <2> QED BY <2>1, <2>2, <2>3 DEF BusInv
<1>3. ASSUME NEW c \in Clients, Notified(c) PROVE ClaimsInv' /\ BusInv'
  <2>1. ClaimsInv'
    <3>1. claims' = claims \/ \E t \in Inbounds : claims' = [claims EXCEPT ![t] = {c}]
          BY <1>3, Zenon DEF Notified, Claimed
    <3> QED BY <3>1 DEF ClaimsInv
  <2>2. /\ inbox' = [inbox EXCEPT ![c] = Tail(inbox[c])]
        /\ due' = [due EXCEPT ![c] = due[c] \ {Head(inbox[c])}]
        /\ lagged' = lagged /\ inbox[c] # << >>
        BY <1>3 DEF Notified, BusInv
  <2>3. inbox[c] \in Seq(Inbounds) /\ due[c] \subseteq Inbounds
        BY DEF BusInv
  <2>4. Tail(inbox[c]) \in Seq(Inbounds)
        /\ Range(inbox[c]) \subseteq Range(Tail(inbox[c])) \union {Head(inbox[c])}
        BY <2>2, <2>3, RangeTail, SMTT(30)
  <2> QED BY <2>1, <2>2, <2>3, <2>4 DEF BusInv
<1>4. ASSUME NEW d \in Dials,
             \/ PoolHit(d) \/ PoolMiss(d) \/ Connect(d) \/ OpenStream(d) \/ OpenFails(d)
             \/ TakeId(d) \/ ConnectDirect(d) \/ ConnectFails(d) \/ DialInsert(d)
      PROVE  UNCHANGED busVars
      BY <1>4 DEF PoolHit, PoolMiss, Connect, OpenStream, OpenFails, TakeId, ConnectDirect,
                  ConnectFails, DialInsert
<1>5. ASSUME NEW s \in Streams, \/ \E i \in InIds : Accept(s, i)
                                \/ AgentClose(s) \/ BridgeEnds(s) \/ Orphaned(s)
      PROVE  UNCHANGED busVars
      BY <1>5 DEF Accept, AgentClose, BridgeEnds, Orphaned
<1>6. ASSUME NEW c \in Clients,
             \/ ListenAgain(c) \/ ListenFirst(c) \/ Bind(c) \/ BindFails(c)
             \/ Subscribe(c) \/ TellListening(c)
      PROVE  UNCHANGED busVars
      BY <1>6 DEF ListenAgain, ListenFirst, Bind, BindFails, Subscribe, TellListening
<1>7. ASSUME NEW a \in Addrs, Break(a) \/ WriterEnds(a) \/ Vanish(a)
      PROVE  UNCHANGED busVars
      BY <1>7 DEF Break, WriterEnds, Vanish
<1>8. CASE UNCHANGED tableVars
      BY <1>8, <1>1 DEF tableVars
<1> QED BY <1>1, <1>2, <1>3, <1>4, <1>5, <1>6, <1>7, <1>8 DEF TableNext, Streams

\* They hold in an empty daemon.
LEMMA TableInvInit == TableInit => ClaimsInv /\ BusInv
BY DEF TableInit, ClaimsInv, BusInv

\* take_recv gives the receive channel of an inbound stream to at most one of the
\* agents that listen, for any number of agents and streams.
THEOREM StreamsHaveOneReceiver == TableSpec => []OneReceiver
<1>1. ClaimsInv => OneReceiver
  <2> SUFFICES ASSUME ClaimsInv, NEW s \in Inbounds PROVE Cardinality(claims[s]) <= 1
      BY DEF OneReceiver
  <2>1. CASE claims[s] = {}
        BY <2>1, FS_EmptySet
  <2>2. ASSUME NEW c, claims[s] = {c} PROVE Cardinality(claims[s]) <= 1
        BY <2>2, FS_Singleton
  <2> QED BY <2>1, <2>2, Zenon DEF ClaimsInv
<1> QED BY <1>1, TableInvInit, TableInvNext, PTL DEF TableSpec

\* An agent that listens is sent every inbound stream, unless its subscription to
\* the broadcast has overflowed, for any capacity of the broadcast.
THEOREM ListenersAreTold == TableSpec => []ListenerIsTold
<1>1. BusInv => ListenerIsTold
      BY DEF BusInv, ListenerIsTold
<1> QED BY <1>1, TableInvInit, TableInvNext, PTL DEF TableSpec

----------------------------------------------------------------------------
(***************************************************************************)
(* The resolution cache, for any time limits and any number of callers.  A *)
(* cached endpoint is no older than Timeout + PosTTL, because the request  *)
(* that filled the entry had a deadline Timeout after it was asked: the    *)
(* invariant follows the deadline through the phases of a call.            *)
(***************************************************************************)

\* Cache entries, and what a call may be doing.
Entries == [value : Answers, expires : Nat, asof : 0..MaxTime]
Phases == {"idle", "asked", "answered", "body", "dial"}

\* The types of what the calls share and of the calls.
ResolveTypeOK ==
    /\ now \in 0..MaxTime
    /\ registry \in Answers
    /\ cache \in Entries
    /\ pc \in [Callers -> Phases]
    /\ answer \in [Callers -> Answers]
    /\ asof \in [Callers -> 0..MaxTime]
    /\ deadline \in [Callers -> 0..(MaxTime + Timeout)]

\* A request ends within Timeout of when it was asked, hence of its answer.
CallOK(c) ==
    /\ pc[c] = "asked" => deadline[c] <= now + Timeout
    /\ pc[c] \in {"answered", "body"} => deadline[c] <= asof[c] + Timeout

\* A cached endpoint expires PosTTL after it was stored, which is within Timeout of
\* the registry's answer.
CacheOK ==
    cache.value \in Endpoints => cache.expires <= cache.asof + Timeout + PosTTL

\* The inductive invariant.
ResolveInv == ResolveTypeOK /\ CacheOK /\ \A c \in Callers : CallOK(c)

\* A cached absence and an empty cache are not endpoints.
LEMMA AnswerTypes ==
    NotFound \in Answers /\ Empty \in Answers /\ NotFound \notin Endpoints /\ Empty \notin Endpoints
BY EndpointAssumption DEF Answers

\* It holds with an empty cache and no call.
LEMMA ResolveInvInit == Init => ResolveInv
<1> SUFFICES ASSUME Init PROVE ResolveInv
    OBVIOUS
<1>1. NoEntry \in Entries /\ CacheOK
      BY AnswerTypes, ResolutionAssumption DEF Init, NoEntry, Entry, Entries, CacheOK
<1>2. ResolveTypeOK
      BY <1>1, AnswerTypes, ResolutionAssumption DEF Init, ResolveTypeOK, Phases
<1>3. \A c \in Callers : CallOK(c)
      BY SMTT(30) DEF Init, CallOK
<1> QED BY <1>1, <1>2, <1>3 DEF ResolveInv

\* A call that goes on to dial, or returns, keeps its types, and the others' windows.
LEMMA ResolvedKeeps ==
    ASSUME ResolveInv, NEW c \in Callers, NEW a \in Answers, NEW t \in 0..MaxTime,
           Resolved(c, a, t) \/ Return(c)
    PROVE  /\ pc' \in [Callers -> Phases] /\ answer' \in [Callers -> Answers]
           /\ asof' \in [Callers -> 0..MaxTime]
           /\ deadline' \in [Callers -> 0..(MaxTime + Timeout)]
           /\ pc'[c] \in {"idle", "dial"}
           /\ pc'[c] = "dial" => a \in Endpoints /\ asof'[c] = t
           /\ \A d \in Callers \ {c} : /\ pc'[d] = pc[d] /\ asof'[d] = asof[d]
                                       /\ deadline'[d] = deadline[d]
<1> USE AnswerTypes, ResolutionAssumption
        DEF ResolveInv, ResolveTypeOK, Goto, Answered, Phases
<1>1. CASE Return(c)
      BY <1>1 DEF Return
<1>2. CASE Resolved(c, a, t) /\ a \in Endpoints
      BY <1>2 DEF Resolved
<1> QED BY <1>1, <1>2 DEF Resolved

\* Every step of a call, of a heartbeat and of the clock preserves it.
LEMMA ResolveInvNext == ResolveInv /\ [Next]_vars => ResolveInv'
<1> SUFFICES ASSUME ResolveInv, [Next]_vars PROVE ResolveInv'
    OBVIOUS
<1>1. /\ ResolveTypeOK /\ CacheOK /\ \A c \in Callers : CallOK(c)
      BY SMTT(30) DEF ResolveInv
\* What the end of a call does, once its entry of the cache is right.
<1>2. ASSUME NEW c \in Callers, NEW a \in Answers, NEW t \in 0..MaxTime,
             Resolved(c, a, t) \/ Return(c), UNCHANGED <<now, registry>>,
             cache' \in Entries, CacheOK'
      PROVE  ResolveInv'
  <2>1. /\ pc' \in [Callers -> Phases] /\ answer' \in [Callers -> Answers]
        /\ asof' \in [Callers -> 0..MaxTime]
        /\ deadline' \in [Callers -> 0..(MaxTime + Timeout)]
        /\ pc'[c] \in {"idle", "dial"}
        /\ \A d \in Callers \ {c} : /\ pc'[d] = pc[d] /\ asof'[d] = asof[d]
                                    /\ deadline'[d] = deadline[d]
        BY <1>2, ResolvedKeeps, SMTT(30)
  <2>2. ASSUME NEW d \in Callers PROVE CallOK(d)'
        BY <1>1, <1>2, <2>1 DEF CallOK
  <2> QED BY <1>1, <1>2, <2>1, <2>2 DEF ResolveInv, ResolveTypeOK
<1>3. ASSUME NEW c \in Callers, LookupHit(c) PROVE ResolveInv'
  <2>1. cache.value \in Answers /\ cache.asof \in 0..MaxTime
        BY <1>1 DEF ResolveTypeOK, Entries
  <2>2. cache' \in Entries /\ CacheOK'
        BY <1>1, <1>3 DEF LookupHit, CacheOK, ResolveTypeOK
  <2> QED BY <1>2, <1>3, <2>1, <2>2 DEF LookupHit
<1>4. ASSUME NEW c \in Callers, LookupMiss(c) PROVE ResolveInv'
  <2>1. ResolveTypeOK'
        BY <1>1, <1>4, ResolutionAssumption DEF LookupMiss, Goto, ResolveTypeOK, Phases
  <2>2. ASSUME NEW d \in Callers PROVE CallOK(d)'
        BY <1>1, <1>4, ResolutionAssumption DEF LookupMiss, Goto, ResolveTypeOK, CallOK
  <2> QED BY <1>1, <1>4, <2>1, <2>2 DEF LookupMiss, CacheOK, ResolveInv
<1>5. ASSUME NEW c \in Callers, Serve(c) PROVE ResolveInv'
  <2>1. ResolveTypeOK'
        BY <1>1, <1>5 DEF Serve, Goto, Answered, ResolveTypeOK, Phases
  <2>2. ASSUME NEW d \in Callers PROVE CallOK(d)'
        BY <1>1, <1>5 DEF Serve, Goto, Answered, ResolveTypeOK, CallOK
  <2> QED BY <1>1, <1>5, <2>1, <2>2 DEF Serve, CacheOK, ResolveInv
<1>6. ASSUME NEW c \in Callers, RequestFails(c) \/ BodyFails(c) \/ Dial(c) PROVE ResolveInv'
  <2>1. Return(c) /\ UNCHANGED <<now, registry, cache>>
        BY <1>6 DEF RequestFails, BodyFails, Dial
  <2>2. cache' \in Entries /\ CacheOK'
        BY <1>1, <2>1 DEF CacheOK, ResolveTypeOK
  <2>3. now \in 0..MaxTime
        BY <1>1 DEF ResolveTypeOK
  <2> QED BY <1>2, <2>1, <2>2, <2>3, AnswerTypes
<1>7. ASSUME NEW c \in Callers, TakeNotFound(c) PROVE ResolveInv'
  <2>1. /\ cache' = Entry(NotFound, now + NegTTL, asof[c]) /\ Return(c)
        /\ UNCHANGED <<now, registry>> /\ now \in 0..MaxTime /\ asof[c] \in 0..MaxTime
        BY <1>1, <1>7 DEF TakeNotFound, ResolveTypeOK
  <2>2. cache' \in Entries /\ CacheOK'
        BY <2>1, AnswerTypes, ResolutionAssumption, SMTT(30) DEF Entry, Entries, CacheOK
  <2> QED BY <1>2, <2>1, <2>2, AnswerTypes
<1>8. ASSUME NEW c \in Callers, TakeSuccess(c) PROVE ResolveInv'
  <2>1. ResolveTypeOK'
        BY <1>1, <1>8 DEF TakeSuccess, Goto, ResolveTypeOK, Phases
  <2>2. ASSUME NEW d \in Callers PROVE CallOK(d)'
        BY <1>1, <1>8 DEF TakeSuccess, Goto, ResolveTypeOK, CallOK
  <2> QED BY <1>1, <1>8, <2>1, <2>2 DEF TakeSuccess, CacheOK, ResolveInv
<1>9. ASSUME NEW c \in Callers, ReadBody(c) PROVE ResolveInv'
  <2>1. /\ now \in 0..MaxTime /\ asof[c] \in 0..MaxTime /\ answer[c] \in Answers
        /\ deadline[c] \in Nat /\ now <= deadline[c] /\ deadline[c] <= asof[c] + Timeout
        BY <1>1, <1>9, ResolutionAssumption DEF ReadBody, ResolveTypeOK, CallOK
  <2>2. cache' = IF answer[c] \in Endpoints
                 THEN Entry(answer[c], now + PosTTL, asof[c])
                 ELSE Entry(Empty, now + NegTTL, asof[c])
        BY <1>9, ZenonT(30) DEF ReadBody
  <2>3. cache' \in Entries
        BY <2>1, <2>2, AnswerTypes, ResolutionAssumption, SMTT(30) DEF Entry, Entries
  <2>4. CacheOK'
        BY <2>1, <2>2, AnswerTypes, ResolutionAssumption, SMTT(30) DEF Entry, CacheOK
  <2> QED BY <1>2, <1>9, <2>1, <2>3, <2>4, Zenon DEF ReadBody
<1>10. ASSUME Register \/ \E ep \in Endpoints : Listen(ep) \/ Beat(ep) PROVE ResolveInv'
  <2>1. registry' \in Answers
        BY <1>1, <1>10, AnswerTypes DEF Register, Listen, Beat, ResolveTypeOK, Answers
  <2>2. UNCHANGED <<now, cache, callVars>>
        BY <1>10, SMTT(30) DEF Register, Listen, Beat
  <2> QED BY <1>1, <2>1, <2>2 DEF callVars, ResolveInv, ResolveTypeOK, CacheOK, CallOK
<1>11. CASE Tick
  <2>1. ResolveTypeOK'
        BY <1>1, <1>11, ResolutionAssumption DEF Tick, callVars, ResolveTypeOK
  <2>2. ASSUME NEW d \in Callers PROVE CallOK(d)'
        BY <1>1, <1>11, ResolutionAssumption, SMTT(30) DEF Tick, callVars, ResolveTypeOK, CallOK
  <2> QED BY <1>1, <1>11, <2>1, <2>2 DEF Tick, CacheOK, ResolveInv
<1>12. CASE Stop \/ UNCHANGED vars
      BY <1>1, <1>12 DEF Stop, vars, callVars, ResolveInv, ResolveTypeOK, CacheOK, CallOK
<1> QED BY <1>3, <1>4, <1>5, <1>6, <1>7, <1>8, <1>9, <1>10, <1>11, <1>12 DEF Next, CallStep

\* The invariant holds of every state, for any number of concurrent resolves.
THEOREM ResolveInvariant == Spec => []ResolveInv
BY ResolveInvInit, ResolveInvNext, PTL DEF Spec

\* Whatever the calls do to each other's entries, resolve hands out no endpoint that
\* the registry gave PosTTL + Timeout ago or earlier.
THEOREM ResolvedIsNotStale == Spec => StalenessIsBounded
<1> DEFINE Handed == \A c \in Callers :
        pc[c] # "dial" /\ pc'[c] = "dial" => now - asof'[c] < PosTTL + Timeout
<1>1. ResolveInv /\ [Next]_vars => [Handed]_vars
  <2> SUFFICES ASSUME ResolveInv, Next, NEW c \in Callers, pc[c] # "dial", pc'[c] = "dial"
               PROVE  now - asof'[c] < PosTTL + Timeout
      BY DEF vars
  <2>1. /\ ResolveTypeOK /\ CacheOK /\ CallOK(c)
        BY DEF ResolveInv
  <2>2. /\ now \in 0..MaxTime /\ asof[c] \in 0..MaxTime /\ deadline[c] \in Nat
        /\ answer[c] \in Answers /\ cache \in Entries
        BY <2>1, ResolutionAssumption DEF ResolveTypeOK
  <2>3. LookupHit(c) \/ ReadBody(c)
    <3>1. ASSUME NEW d \in Callers, d # c, CallStep(d) PROVE pc'[c] = pc[c]
          BY <3>1, <2>1, SMTT(30) DEF CallStep, LookupHit, LookupMiss, Serve, RequestFails, TakeNotFound,
                TakeSuccess, ReadBody, BodyFails, Dial, Resolved, Return, Goto, ResolveTypeOK
    <3>2. ASSUME CallStep(c) PROVE LookupHit(c) \/ ReadBody(c)
          BY <3>2, <2>1 DEF CallStep, LookupMiss, Serve, RequestFails, TakeNotFound, TakeSuccess,
                BodyFails, Dial, Return, Goto, ResolveTypeOK
    <3>3. ASSUME Register \/ (\E ep \in Endpoints : Listen(ep) \/ Beat(ep)) \/ Stop \/ Tick
          PROVE  pc' = pc
          BY <3>3, Zenon DEF Register, Listen, Beat, Stop, Tick, callVars
    <3> QED BY <3>1, <3>2, <3>3, SMTT(30) DEF Next
  <2>4. CASE LookupHit(c)
    <3>1. cache.value \in Answers /\ cache.asof \in 0..MaxTime /\ cache.expires \in Nat
          BY <2>2, SMTT(30) DEF Entries
    <3>2. cache.value \in Endpoints /\ asof'[c] = cache.asof /\ cache.expires > now
          BY <2>4, <3>1, ResolvedKeeps DEF LookupHit, Fresh
    <3>3. cache.expires <= cache.asof + Timeout + PosTTL
          BY <2>1, <3>2, ZenonT(30) DEF CacheOK
    <3> DEFINE x == cache.expires
               a == cache.asof
    <3>4. x \in Nat /\ a \in Nat /\ now \in Nat /\ x > now /\ x <= a + Timeout + PosTTL
          BY <2>2, <3>1, <3>2, <3>3
    <3> HIDE DEF x, a
    <3>5. now - a < PosTTL + Timeout
          BY <3>4, ResolutionAssumption
    <3> QED BY <3>2, <3>5, SMTT(30) DEF a
  <2>5. CASE ReadBody(c)
    <3>1. asof'[c] = asof[c] /\ now <= deadline[c] /\ deadline[c] <= asof[c] + Timeout
          BY <2>1, <2>2, <2>5, ResolvedKeeps, Zenon DEF ReadBody, CallOK
    <3> QED BY <2>2, <3>1, ResolutionAssumption
  <2> QED BY <2>3, <2>4, <2>5, SMTT(30)
<1> QED BY <1>1, ResolveInvariant, PTL DEF Spec, StalenessIsBounded
=============================================================================
