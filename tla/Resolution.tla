----------------------------- MODULE Resolution -----------------------------
(***************************************************************************)
(* How one agent_id becomes a host:port: the cache of a dialing daemon's   *)
(* Resolver, the registry, and the heartbeat loops of the daemon the agent *)
(* is behind (roboat-resolver, with the manager's dial and listen).        *)
(*                                                                         *)
(* A resolve looks into the cache, asks the registry with the cache        *)
(* unlocked, and locks it again for the answer; while it reads the body of *)
(* a good answer it keeps the lock.  Calls are concurrent and each one's   *)
(* answer is as old as the moment the registry gave it.                    *)
(*                                                                         *)
(* The registry is not in the repository: it keeps an endpoint per agent   *)
(* and a heartbeat replaces it.                                            *)
(***************************************************************************)
EXTENDS Integers, FiniteSets

CONSTANTS
    Callers,    \* concurrent dials of the agent
    Endpoints,  \* host:port values
    PosTTL,     \* how long an endpoint is cached; 60 s in the code
    NegTTL,     \* how long an absence is cached; 5 s in the code
    Timeout,    \* of a request to the registry; 5 s in the code
    MaxTime,    \* bound on the clock
    MaxListens  \* bound on the listens of the agent

ASSUME ResolutionAssumption ==
    /\ PosTTL \in Nat \ {0}
    /\ NegTTL \in Nat \ {0}
    /\ Timeout \in Nat \ {0}
    /\ MaxTime \in Nat
    /\ MaxListens \in Nat

VARIABLES
    now,        \* the clock
    registry,   \* what the registry has for the agent
    live,       \* where the agent can be reached
    loops,      \* the endpoints of the heartbeat loops that run
    listens,    \* how many listens there were
    cache,      \* the cache's entry for the agent
    lock,       \* the call that holds the cache's lock, or NoCall
    pc,         \* the phase of each dial
    answer,     \* what a dial was answered
    asof,       \* when the registry gave that answer
    deadline    \* when the request of a dial times out

callVars == <<pc, answer, asof, deadline>>
vars == <<now, registry, live, loops, listens, cache, lock, callVars>>

NotFound == "not found"         \* 404
Empty == "empty"                \* registered, without an endpoint
NoCall == "no call"
Nowhere == "nowhere"

ASSUME EndpointAssumption == Endpoints \intersect {NotFound, Empty, Nowhere} = {}

Answers == Endpoints \union {NotFound, Empty}

\* An entry: an endpoint, or an absence.  asof is what the properties need to
\* know of it, the time of the registry's answer.
Entry(value, expires, t) ==
    [value |-> value, expires |-> expires, asof |-> t]

\* No entry is like one that has expired.
NoEntry == Entry(NotFound, 0, 0)

Init ==
    /\ now = 0
    /\ registry = NotFound
    /\ live = Nowhere
    /\ loops = {}
    /\ listens = 0
    /\ cache = NoEntry
    /\ lock = NoCall
    /\ pc = [c \in Callers |-> "idle"]
    /\ answer = [c \in Callers |-> NotFound]
    /\ asof = [c \in Callers |-> 0]
    /\ deadline = [c \in Callers |-> 0]

----------------------------------------------------------------------------
(* Resolver::resolve *)

Goto(c, p) == pc' = [pc EXCEPT ![c] = p]
Answered(c, a, t) ==
    /\ answer' = [answer EXCEPT ![c] = a]
    /\ asof' = [asof EXCEPT ![c] = t]

\* The call ends: an error, or the end of the dial.
Return(c) ==
    /\ Goto(c, "idle")
    /\ Answered(c, NotFound, 0)
    /\ deadline' = [deadline EXCEPT ![c] = 0]

\* The endpoint that was found is dialed, or there is none.
Resolved(c, a, t) ==
    IF a \in Endpoints
    THEN /\ Goto(c, "dial")
         /\ Answered(c, a, t)
         /\ deadline' = [deadline EXCEPT ![c] = 0]
    ELSE Return(c)

\* entry.expires > Instant::now()
Fresh == cache.expires > now

\* The cache has an answer: an endpoint to dial, or NegativeCached.
LookupHit(c) ==
    /\ pc[c] = "idle"
    /\ lock = NoCall
    /\ Fresh
    /\ Resolved(c, cache.value, cache.asof)
    /\ UNCHANGED <<now, registry, live, loops, listens, cache, lock>>

\* It has none: the registry is asked.
LookupMiss(c) ==
    /\ pc[c] = "idle"
    /\ lock = NoCall
    /\ ~Fresh
    /\ Goto(c, "asked")
    /\ deadline' = [deadline EXCEPT ![c] = now + Timeout]
    /\ UNCHANGED <<now, registry, live, loops, listens, cache, lock, answer, asof>>

\* The registry answers.
Serve(c) ==
    /\ pc[c] = "asked"
    /\ Answered(c, registry, now)
    /\ Goto(c, "answered")
    /\ UNCHANGED <<now, registry, live, loops, listens, cache, lock, deadline>>

\* No answer in time, or a status that is neither success nor 404.
RequestFails(c) ==
    /\ pc[c] \in {"asked", "answered"}
    /\ pc[c] = "answered" => lock = NoCall
    /\ Return(c)
    /\ UNCHANGED <<now, registry, live, loops, listens, cache, lock>>

\* A 404 is cached, for a time that begins now.
TakeNotFound(c) ==
    /\ pc[c] = "answered"
    /\ lock = NoCall
    /\ answer[c] = NotFound
    /\ cache' = Entry(NotFound, now + NegTTL, asof[c])
    /\ Return(c)
    /\ UNCHANGED <<now, registry, live, loops, listens, lock>>

\* A success: its body is read with the lock held.
TakeSuccess(c) ==
    /\ pc[c] = "answered"
    /\ lock = NoCall
    /\ answer[c] # NotFound
    /\ lock' = c
    /\ Goto(c, "body")
    /\ UNCHANGED <<now, registry, live, loops, listens, cache, answer, asof, deadline>>

\* Mutation: an endpoint's time begins anew whenever it is the one cached.
ReadBody_Extends(c) ==
    /\ pc[c] = "body"
    /\ now <= deadline[c]
    /\ LET base == IF cache.value = answer[c]
                   THEN cache.expires ELSE now IN
       cache' = IF answer[c] \in Endpoints
                THEN Entry(answer[c], base + PosTTL, asof[c])
                ELSE Entry(Empty, now + NegTTL, asof[c])
    /\ lock' = NoCall
    /\ Resolved(c, answer[c], asof[c])
    /\ UNCHANGED <<now, registry, live, loops, listens>>

\* The body is there in time: an endpoint, or NoEndpoint.
ReadBody(c) ==
    /\ pc[c] = "body"
    /\ now <= deadline[c]
    /\ cache' = IF answer[c] \in Endpoints
                THEN Entry(answer[c], now + PosTTL, asof[c])
                ELSE Entry(Empty, now + NegTTL, asof[c])
    /\ lock' = NoCall
    /\ Resolved(c, answer[c], asof[c])
    /\ UNCHANGED <<now, registry, live, loops, listens>>

\* The body does not arrive in time or does not parse.
BodyFails(c) ==
    /\ pc[c] = "body"
    /\ lock' = NoCall
    /\ Return(c)
    /\ UNCHANGED <<now, registry, live, loops, listens, cache>>

\* The rest of DaemonManager::dial: connecting works where the agent is.  An
\* error goes to the agent and the cache stays as it is: nobody calls
\* Resolver::invalidate.
Dial(c) ==
    /\ pc[c] = "dial"
    /\ Return(c)
    /\ UNCHANGED <<now, registry, live, loops, listens, cache, lock>>

----------------------------------------------------------------------------
(* The agent, its daemon and the registry *)

\* The agent is entered in the registry.
Register ==
    /\ registry = NotFound
    /\ registry' = Empty
    /\ UNCHANGED <<now, live, loops, listens, cache, lock, callVars>>

\* A listen with a registry token: one more heartbeat loop, which never ends.
Listen(ep) ==
    /\ listens < MaxListens
    /\ listens' = listens + 1
    /\ live' = ep
    /\ loops' = loops \union {ep}
    /\ UNCHANGED <<now, registry, cache, lock, callVars>>

\* Mutation: a loop reports only while the registry has no endpoint.
Beat_OnlyFirst(ep) ==
    /\ ep \in loops
    /\ registry = Empty
    /\ registry' = ep
    /\ UNCHANGED <<now, live, loops, listens, cache, lock, callVars>>

\* A heartbeat of a loop arrives.  One that does not is retried an interval
\* later; one for an agent that is not registered is rejected.
Beat(ep) ==
    /\ ep \in loops
    /\ registry # NotFound
    /\ registry' = ep
    /\ UNCHANGED <<now, live, loops, listens, cache, lock, callVars>>

\* The agent's daemon stops, and its loops with it.
Stop ==
    /\ live # Nowhere
    /\ live' = Nowhere
    /\ loops' = {}
    /\ UNCHANGED <<now, registry, listens, cache, lock, callVars>>

\* The clock.  No request waits for its answer beyond its deadline.
Tick ==
    /\ now < MaxTime
    /\ \A c \in Callers : pc[c] = "asked" => now < deadline[c]
    /\ now' = now + 1
    /\ UNCHANGED <<registry, live, loops, listens, cache, lock, callVars>>

----------------------------------------------------------------------------

CallStep(c) ==
    \/ LookupHit(c) \/ LookupMiss(c)
    \/ Serve(c) \/ RequestFails(c)
    \/ TakeNotFound(c) \/ TakeSuccess(c) \/ ReadBody(c) \/ BodyFails(c)
    \/ Dial(c)

Next ==
    \/ \E c \in Callers : CallStep(c)
    \/ Register
    \/ \E ep \in Endpoints : Listen(ep) \/ Beat(ep)
    \/ Stop
    \/ Tick

Spec == Init /\ [][Next]_vars

\* A loop's heartbeats get through again and again.
FairSpec == Spec /\ \A ep \in Endpoints : WF_vars(Beat(ep))

----------------------------------------------------------------------------
(* Properties *)

\* The variables have their types.
TypeOK ==
    /\ now \in 0..MaxTime
    /\ registry \in Answers
    /\ live \in Endpoints \union {Nowhere}
    /\ loops \subseteq Endpoints
    /\ listens \in 0..MaxListens
    /\ cache \in [value : Answers, expires : Nat, asof : 0..MaxTime]
    /\ lock \in Callers \union {NoCall}
    /\ pc \in [Callers -> {"idle", "asked", "answered", "body", "dial"}]
    /\ answer \in [Callers -> Answers]
    /\ asof \in [Callers -> 0..MaxTime]
    /\ deadline \in [Callers -> 0..(MaxTime + Timeout)]

\* Whatever the calls do to each other's entries, an endpoint that resolve hands
\* out was the registry's less than PosTTL + Timeout ago.
StalenessIsBounded ==
    [][\A c \in Callers :
          pc[c] # "dial" /\ pc'[c] = "dial" => now - asof'[c] < PosTTL + Timeout]_vars

\* When in the end one loop runs for a registered agent, the registry settles on
\* its endpoint.
SoleLoopSettles ==
    \A ep \in Endpoints :
        <>[](loops = {ep} /\ registry # NotFound) => <>[](registry = ep)

----------------------------------------------------------------------------
(* What the repository says and the code does not do *)

\* After a dial failure the next attempt asks the registry: "Call after a dial
\* failure so the next attempt re-fetches from registry" (lib.rs:126).
FailureRefetches ==
    [][\A c \in Callers :
          pc[c] = "dial" /\ pc'[c] = "idle" /\ answer[c] # live =>
              ~(cache'.value = answer[c] /\ cache'.expires > now)]_vars

\* The loops "keep `tunnel_endpoint` current in the registry" (manager.rs:196):
\* for an agent that stays, the registry settles on where it is.
RegistryStaysCurrent ==
    \A ep \in Endpoints :
        <>[](live = ep /\ registry # NotFound) => <>[](registry = ep)
=============================================================================
