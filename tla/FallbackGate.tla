---------------------------- MODULE FallbackGate ----------------------------
(***************************************************************************)
(* The trigger of a WebRTC bootstrap or teardown (TriggerBootstrap in      *)
(* go/relay/server.go) and the gate that backs off its TCP fallback        *)
(* (go/relay/fallback_gate.go).                                            *)
(*                                                                         *)
(* A call reads the clock once, when it begins, and uses that time for     *)
(* everything it tells the gate, however long the dial takes meanwhile:    *)
(* the gate sees times that are late and out of order.  Each method of the *)
(* gate holds its mutex and is one step, pruning included.                 *)
(*                                                                         *)
(* A key is a robot with one of the two kinds of trigger.  Time is a       *)
(* natural number and 0 is Go's zero time.  What the trigger asks of the   *)
(* agent, and the active session a teardown clears, are in Signaling.      *)
(***************************************************************************)
EXTENDS Naturals

CONSTANTS
    Keys,          \* gateKey of robots and kinds
    TeardownKeys,  \* the keys of teardowns
    Calls,         \* calls of TriggerBootstrap, each made once
    NoKey,
    BackoffMin,    \* of bootstraps and of teardowns: records with the fields
    BackoffMax,    \*   bootstrap and teardown
    Retention,     \* fallbackGateRetention
    MaxCall,       \* bound on how long a call takes
    GateMaxTime    \* bound on the clock

Kind == {"bootstrap", "teardown"}

ASSUME KeyAssumption == TeardownKeys \subseteq Keys /\ NoKey \notin Keys
ASSUME BackoffAssumption ==
    /\ BackoffMin \in [Kind -> Nat \ {0}]
    /\ BackoffMax \in [Kind -> Nat]
    /\ \A k \in Kind : BackoffMin[k] <= BackoffMax[k]
\* The retention outlives every backoff by more than a call takes: 20 minutes
\* against 12 seconds in the code.
ASSUME RetentionAssumption ==
    /\ MaxCall \in Nat /\ GateMaxTime \in Nat \ {0} /\ Retention \in Nat
    /\ \A k \in Kind : Retention >= BackoffMax[k] + MaxCall

VARIABLES
    gateClock,
    states,  \* the gate's map; seen = 0 is "no entry"
    call,    \* where each call is
    keyOf,   \* the key it is about
    now      \* the time it read when it began

gateVars == <<gateClock, states, call, keyOf, now>>

NoState == [next |-> 0, failures |-> 0, seen |-> 0]

Phase == {"idle", "sending", "sent", "asking", "dialing", "failed", "succeeded",
          "suppressed", "returned"}

GateTypeOK ==
    /\ gateClock \in 1..GateMaxTime
    /\ states \in [Keys -> [next: Nat, failures: Nat, seen: 0..GateMaxTime]]
    /\ call \in [Calls -> Phase]
    /\ keyOf \in [Calls -> Keys \cup {NoKey}]
    /\ now \in [Calls -> 0..GateMaxTime]

kindOf(k) == IF k \in TeardownKeys THEN "teardown" ELSE "bootstrap"

\* The loop that doubles the backoff at most eight times, up to the ceiling.
fallbackBackoff(failures, base, max) ==
    LET doubled[i \in 0..8] ==
            IF i = 0 THEN base
            ELSE IF 2 * doubled[i - 1] >= max THEN max ELSE 2 * doubled[i - 1]
        steps == IF failures = 0 THEN 0
                 ELSE IF failures - 1 > 8 THEN 8 ELSE failures - 1
    IN  IF doubled[steps] > max THEN max ELSE doubled[steps]

backoffOf(k, failures) ==
    fallbackBackoff(failures, BackoffMin[kindOf(k)], BackoffMax[kindOf(k)])

-----------------------------------------------------------------------------
GateInit ==
    /\ gateClock = 1
    /\ states = [k \in Keys |-> NoState]
    /\ call = [c \in Calls |-> "idle"]
    /\ keyOf = [c \in Calls |-> NoKey]
    /\ now = [c \in Calls |-> 0]

CallTo(c, phase) == call' = [call EXCEPT ![c] = phase]

Begin(c, k) ==
    /\ call[c] = "idle"
    /\ CallTo(c, "sending")
    /\ keyOf' = [keyOf EXCEPT ![c] = k]
    /\ now' = [now EXCEPT ![c] = gateClock]
    /\ UNCHANGED <<gateClock, states>>

\* The control channel takes the message, or there is none or its queue is full.
Send(c) ==
    /\ call[c] = "sending"
    /\ CallTo(c, "sent") \/ CallTo(c, "asking")
    /\ UNCHANGED <<gateClock, states, keyOf, now>>

\* Mutation: the retention is compared the wrong way round.
pruned_Young(t) ==
    [k \in Keys |-> IF states[k].seen + Retention > t THEN NoState ELSE states[k]]

\* pruneLocked: entries not seen within the retention are forgotten, as judged
\* by the caller's time.
pruned(t) ==
    [k \in Keys |-> IF t > states[k].seen + Retention THEN NoState ELSE states[k]]

\* Whether the gate lets a call through at its own time t.
allow(k, t) == pruned(t)[k].next <= t

\* A call asks the gate for leave to dial.
Ask(c) ==
    /\ call[c] = "asking"
    /\ LET k == keyOf[c]
           t == now[c]
       IN  /\ states' = [pruned(t) EXCEPT ![k].seen = t]
           /\ CallTo(c, IF allow(k, t) THEN "dialing" ELSE "suppressed")
    /\ UNCHANGED <<gateClock, keyOf, now>>

\* The robot's address is unknown, the dial fails, or it succeeds.
Dial(c) ==
    /\ call[c] = "dialing"
    /\ CallTo(c, "returned") \/ CallTo(c, "failed") \/ CallTo(c, "succeeded")
    /\ UNCHANGED <<gateClock, states, keyOf, now>>

\* Mutation: each failure starts from the end of the last backoff.
afterFailure_Accumulates(s, k, t) ==
    [next |-> s.next + t + backoffOf(k, s.failures + 1),
     failures |-> s.failures + 1, seen |-> t]

\* What a failure leaves of the entry s of key k.
afterFailure(s, k, t) ==
    [next |-> t + backoffOf(k, s.failures + 1),
     failures |-> s.failures + 1, seen |-> t]

recordFailure(c) ==
    /\ call[c] = "failed"
    /\ CallTo(c, "returned")
    /\ LET k == keyOf[c]
           t == now[c]
       IN  states' = [pruned(t) EXCEPT ![k] = afterFailure(@, k, t)]
    /\ UNCHANGED <<gateClock, keyOf, now>>

recordSuccess(c) ==
    /\ call[c] \in {"sent", "succeeded"}
    /\ CallTo(c, "returned")
    /\ states' = [pruned(now[c]) EXCEPT
                     ![keyOf[c]] = [next |-> 0, failures |-> 0, seen |-> now[c]]]
    /\ UNCHANGED <<gateClock, keyOf, now>>

Underway(c) == call[c] \notin {"idle", "suppressed", "returned"}

\* Time passes, but no call takes longer than its timeouts allow.
GateTick ==
    /\ gateClock < GateMaxTime
    /\ \A c \in Calls : Underway(c) => gateClock < now[c] + MaxCall
    /\ gateClock' = gateClock + 1
    /\ UNCHANGED <<states, call, keyOf, now>>

GateNext ==
    \/ \E c \in Calls : \/ \E k \in Keys : Begin(c, k)
                        \/ Send(c) \/ Ask(c) \/ Dial(c)
                        \/ recordFailure(c) \/ recordSuccess(c)
    \/ GateTick

GateSpec == GateInit /\ [][GateNext]_gateVars

-----------------------------------------------------------------------------
\* The gate never closes for longer than the longest backoff, whatever the order
\* in which calls report and however many fail: next is never further ahead of
\* the clock than the ceiling (recordFailure with late times).
GateReopens ==
    \A k \in Keys : states[k].next <= gateClock + BackoffMax[kindOf(k)]

\* Forgetting an entry never opens a gate early: a step that is not a report
\* about the key changes when it opens only after that time has come, although
\* a late call may set the entry's last use back (pruneLocked in allow and in
\* the reports about other keys).
PruneOpensNothing ==
    [][\A k \in Keys :
          \/ states'[k].next = states[k].next
          \/ states[k].next <= gateClock
          \/ \E c \in Calls : /\ keyOf[c] = k
                              /\ call[c] \in {"sent", "failed", "succeeded"}
                              /\ call'[c] = "returned"]_gateVars
=============================================================================
