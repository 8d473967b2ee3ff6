---------------------------- MODULE RelayProofs -----------------------------
(***************************************************************************)
(* Two parts of the relay server: the gate of its bootstrap triggers, and  *)
(* the streams it relays.                                                  *)
(***************************************************************************)
EXTENDS FallbackGate, RelayStream, TLAPS

----------------------------------------------------------------------------
(***************************************************************************)
(* The gate, for any keys, any number of concurrent calls and any back-off.*)
(* EntryOK bounds the next attempt twice: by the clock, so that the gate   *)
(* opens again, and by the last use of the entry, so that an entry that is *)
(* old enough to be forgotten was open.                                    *)
(***************************************************************************)

\* A call that is underway is about a key, and read the clock no longer ago than a
\* call takes.
CallOK(c) ==
    Underway(c) => /\ keyOf[c] \in Keys
                   /\ now[c] <= gateClock
                   /\ gateClock <= now[c] + MaxCall

\* The gate of key k opens again: soon by the clock, and soon after the entry was
\* last seen, so that an entry that is forgotten was open.
EntryOK(k) ==
    /\ states[k].next <= gateClock + BackoffMax[kindOf(k)]
    /\ states[k].next <= states[k].seen + MaxCall + BackoffMax[kindOf(k)]

\* The inductive invariant.
GateInv ==
    /\ GateTypeOK
    /\ \A c \in Calls : CallOK(c)
    /\ \A k \in Keys : EntryOK(k)

\* The doubling of fallbackBackoff stops at the ceiling, however many failures.
LEMMA BackoffBounded ==
    ASSUME NEW failures \in Nat, NEW base \in Nat, NEW max \in Nat
    PROVE  fallbackBackoff(failures, base, max) \in 0 .. max
<1> DEFINE Up(x) == IF 2 * x >= max THEN max ELSE 2 * x
           Doubled(g) == g = [i \in 0 .. 8 |-> IF i = 0 THEN base
                                              ELSE IF 2 * g[i - 1] >= max THEN max
                                                   ELSE 2 * g[i - 1]]
           d == CHOOSE g : Doubled(g)
           steps == IF failures = 0 THEN 0 ELSE IF failures - 1 > 8 THEN 8 ELSE failures - 1
<1>1. fallbackBackoff(failures, base, max) = IF d[steps] > max THEN max ELSE d[steps]
      BY DEF fallbackBackoff
<1>2. \E g : Doubled(g)
  <2> DEFINE x1 == Up(base) x2 == Up(x1) x3 == Up(x2) x4 == Up(x3)
             x5 == Up(x4) x6 == Up(x5) x7 == Up(x6) x8 == Up(x7)
             w == [i \in 0 .. 8 |-> CASE i = 0 -> base [] i = 1 -> x1 [] i = 2 -> x2
                                      [] i = 3 -> x3 [] i = 4 -> x4 [] i = 5 -> x5
                                      [] i = 6 -> x6 [] i = 7 -> x7 [] i = 8 -> x8]
  <2>1. \A x : Up(x) = IF 2 * x >= max THEN max ELSE 2 * x
        OBVIOUS
  <2>2. /\ w[0] = base /\ w[1] = Up(w[0]) /\ w[2] = Up(w[1]) /\ w[3] = Up(w[2])
        /\ w[4] = Up(w[3]) /\ w[5] = Up(w[4]) /\ w[6] = Up(w[5]) /\ w[7] = Up(w[6])
        /\ w[8] = Up(w[7])
    <3> HIDE DEF Up
    <3> QED BY SMTT(30)
  <2> HIDE DEF Up
  <2>3. w = [i \in 0 .. 8 |-> w[i]]
        OBVIOUS
  <2> HIDE DEF w
  <2>4. \A i \in 1 .. 8 : w[i] = Up(w[i - 1])
    <3> SUFFICES ASSUME NEW i \in 1 .. 8 PROVE w[i] = Up(w[i - 1])
        OBVIOUS
    <3>1. i = 1 \/ i = 2 \/ i = 3 \/ i = 4 \/ i = 5 \/ i = 6 \/ i = 7 \/ i = 8
          OBVIOUS
    <3> QED BY <3>1, <2>2
  <2>5. \A i \in 0 .. 8 : w[i] = IF i = 0 THEN base
                                 ELSE IF 2 * w[i - 1] >= max THEN max ELSE 2 * w[i - 1]
        BY <2>1, <2>2, <2>4
  <2>6. Doubled(w)
        BY <2>3, <2>5
  <2> QED BY <2>6
<1>3. Doubled(d)
      BY <1>2, Zenon
<1> HIDE DEF d
<1>4. d[0] \in Nat
      BY <1>3
<1>5. \A i \in 1 .. 8 : d[i - 1] \in Nat => d[i] \in Nat
      BY <1>3
<1>6. \A i \in 0 .. 8 : d[i] \in Nat
  <2>1. d[1] \in Nat BY <1>4, <1>5
  <2>2. d[2] \in Nat BY <2>1, <1>5
  <2>3. d[3] \in Nat BY <2>2, <1>5
  <2>4. d[4] \in Nat BY <2>3, <1>5
  <2>5. d[5] \in Nat BY <2>4, <1>5
  <2>6. d[6] \in Nat BY <2>5, <1>5
  <2>7. d[7] \in Nat BY <2>6, <1>5
  <2>8. d[8] \in Nat BY <2>7, <1>5
  <2> QED BY <1>4, <2>1, <2>2, <2>3, <2>4, <2>5, <2>6, <2>7, <2>8
<1>7. steps \in 0 .. 8
      OBVIOUS
<1> HIDE DEF steps
<1> QED BY <1>1, <1>6, <1>7

\* The back-off of a key is within the ceiling of its kind, and an entry is kept
\* for longer than it can hold its gate shut.
LEMMA BackoffOf ==
    ASSUME NEW k \in Keys, NEW failures \in Nat
    PROVE  /\ BackoffMax[kindOf(k)] \in Nat
           /\ backoffOf(k, failures) \in 0 .. BackoffMax[kindOf(k)]
           /\ Retention >= BackoffMax[kindOf(k)] + MaxCall
<1>1. kindOf(k) \in Kind
      BY DEF kindOf, Kind
<1>2. BackoffMin[kindOf(k)] \in Nat /\ BackoffMax[kindOf(k)] \in Nat
      BY <1>1, BackoffAssumption
<1> QED BY <1>1, <1>2, BackoffBounded, RetentionAssumption, Zenon DEF backoffOf

\* The entries of the gate's map.
Entries == [next: Nat, failures: Nat, seen: 0..GateMaxTime]

\* What a failure leaves in the map opens again after the longest back-off.
LEMMA FailureEntry ==
    ASSUME NEW s \in Entries, NEW k \in Keys, NEW t \in 0..GateMaxTime
    PROVE  LET e == afterFailure(s, k, t)
           IN  e \in Entries /\ e.seen = t /\ e.next <= t + BackoffMax[kindOf(k)]
<1> DEFINE n == s.failures + 1
           b == backoffOf(k, n)
<1>1. n \in Nat
      BY DEF Entries
<1>2. b \in Nat /\ BackoffMax[kindOf(k)] \in Nat /\ b <= BackoffMax[kindOf(k)]
      BY <1>1, BackoffOf
<1>3. afterFailure(s, k, t) = [next |-> t + b, failures |-> n, seen |-> t]
      BY DEF afterFailure
<1> HIDE DEF n, b
<1> QED BY <1>1, <1>2, <1>3, RetentionAssumption DEF Entries

\* Pruning keeps an entry or forgets it.
LEMMA PrunedEntry ==
    ASSUME GateTypeOK, NEW t \in Nat, NEW k \in Keys
    PROVE  /\ pruned(t) \in [Keys -> [next: Nat, failures: Nat, seen: 0..GateMaxTime]]
           /\ \/ pruned(t)[k] = states[k]
              \/ pruned(t)[k] = NoState /\ t > states[k].seen + Retention
BY RetentionAssumption DEF GateTypeOK, pruned, NoState

\* A step of call c on the gate writes only the entry of its key, after pruning.
LEMMA ReportKeepsInv ==
    ASSUME GateInv, NEW c \in Calls, Underway(c), NEW phase \in Phase, CallTo(c, phase),
           NEW e \in [next: Nat, failures: Nat, seen: 0..GateMaxTime],
           states' = [pruned(now[c]) EXCEPT ![keyOf[c]] = e],
           e.next <= gateClock + BackoffMax[kindOf(keyOf[c])],
           e.next <= e.seen + MaxCall + BackoffMax[kindOf(keyOf[c])],
           UNCHANGED <<gateClock, keyOf, now>>
    PROVE  GateInv'
<1> DEFINE p == pruned(now[c])
<1>1. now[c] \in Nat /\ keyOf[c] \in Keys
      BY DEF GateInv, GateTypeOK, CallOK
<1>2. p \in [Keys -> [next: Nat, failures: Nat, seen: 0..GateMaxTime]]
      BY <1>1, PrunedEntry, Zenon DEF GateInv
<1>3. \A k \in Keys : p[k] = states[k] \/ p[k] = NoState
      BY <1>1, PrunedEntry, Zenon DEF GateInv
<1> HIDE DEF p
<1>4. states' = [p EXCEPT ![keyOf[c]] = e]
      BY DEF p
<1>5. GateTypeOK'
  <2>1. states' \in [Keys -> [next: Nat, failures: Nat, seen: 0..GateMaxTime]]
        BY <1>1, <1>2, <1>4, Zenon
  <2>2. call' \in [Calls -> Phase]
        BY DEF GateInv, GateTypeOK, CallTo
  <2> QED BY <2>1, <2>2 DEF GateInv, GateTypeOK
<1>6. ASSUME NEW d \in Calls PROVE CallOK(d)'
      BY DEF GateInv, GateTypeOK, CallOK, CallTo, Underway
<1>7. ASSUME NEW k \in Keys PROVE EntryOK(k)'
  <2>1. CASE k = keyOf[c]
        BY <2>1, <1>1, <1>2, <1>4 DEF EntryOK
  <2>2. CASE k # keyOf[c]
    <3>1. states'[k] = p[k]
          BY <2>2, <1>1, <1>2, <1>4
    <3>2. CASE p[k] = states[k]
          BY <3>1, <3>2 DEF GateInv, EntryOK
    <3>3. CASE p[k] = NoState
          BY <3>1, <3>3, BackoffOf, RetentionAssumption DEF GateInv, GateTypeOK, EntryOK, NoState
    <3> QED BY <1>3, <3>2, <3>3
  <2> QED BY <2>1, <2>2
<1> QED BY <1>5, <1>6, <1>7 DEF GateInv

\* An empty gate is open for every key.
LEMMA GateInvInit == GateInit => GateInv
<1> SUFFICES ASSUME GateInit PROVE GateInv
    OBVIOUS
<1>1. GateTypeOK
      BY RetentionAssumption DEF GateInit, GateTypeOK, NoState, Phase
<1>2. ASSUME NEW c \in Calls PROVE CallOK(c)
      BY DEF GateInit, CallOK, Underway
<1>3. ASSUME NEW k \in Keys PROVE EntryOK(k)
      BY BackoffOf, RetentionAssumption DEF GateInit, EntryOK, NoState
<1> QED BY <1>1, <1>2, <1>3 DEF GateInv

\* Every call, every outcome and every pruning preserves it.
LEMMA GateInvNext == GateInv /\ [GateNext]_gateVars => GateInv'
<1> SUFFICES ASSUME GateInv, [GateNext]_gateVars PROVE GateInv'
    OBVIOUS
<1>1. ASSUME NEW c \in Calls, NEW k \in Keys, Begin(c, k) PROVE GateInv'
  <2>1. GateTypeOK'
        BY <1>1 DEF GateInv, GateTypeOK, Begin, CallTo, Phase
  <2>2. ASSUME NEW d \in Calls PROVE CallOK(d)'
        BY <1>1, RetentionAssumption DEF GateInv, GateTypeOK, CallOK, Begin, CallTo, Underway
  <2>3. ASSUME NEW d \in Keys PROVE EntryOK(d)'
        BY <1>1 DEF GateInv, EntryOK, Begin
  <2> QED BY <2>1, <2>2, <2>3 DEF GateInv
<1>2. ASSUME NEW c \in Calls, Send(c) \/ Dial(c) PROVE GateInv'
  <2>1. GateTypeOK'
        BY <1>2 DEF GateInv, GateTypeOK, Send, Dial, CallTo, Phase
  <2>2. ASSUME NEW d \in Calls PROVE CallOK(d)'
        BY <1>2 DEF GateInv, GateTypeOK, CallOK, Send, Dial, CallTo, Underway
  <2>3. ASSUME NEW d \in Keys PROVE EntryOK(d)'
        BY <1>2 DEF GateInv, EntryOK, Send, Dial
  <2> QED BY <2>1, <2>2, <2>3 DEF GateInv
<1>3. ASSUME NEW c \in Calls, Underway(c)
      PROVE  /\ keyOf[c] \in Keys /\ now[c] \in 0..GateMaxTime
             /\ now[c] <= gateClock /\ gateClock <= now[c] + MaxCall
             /\ gateClock \in Nat
             /\ pruned(now[c])[keyOf[c]] \in [next: Nat, failures: Nat, seen: 0..GateMaxTime]
             /\ pruned(now[c])[keyOf[c]].next <= gateClock + BackoffMax[kindOf(keyOf[c])]
  <2>1. keyOf[c] \in Keys /\ now[c] \in 0..GateMaxTime /\ now[c] <= gateClock
        /\ gateClock <= now[c] + MaxCall /\ gateClock \in Nat
        BY <1>3 DEF GateInv, GateTypeOK, CallOK
  <2>2. /\ pruned(now[c])[keyOf[c]] \in [next: Nat, failures: Nat, seen: 0..GateMaxTime]
        /\ pruned(now[c])[keyOf[c]] = states[keyOf[c]] \/ pruned(now[c])[keyOf[c]] = NoState
        BY <2>1, PrunedEntry DEF GateInv
  <2>3. NoState.next = 0
        BY DEF NoState
  <2>4. pruned(now[c])[keyOf[c]].next <= gateClock + BackoffMax[kindOf(keyOf[c])]
        BY <2>1, <2>2, <2>3, BackoffOf DEF GateInv, EntryOK
  <2> QED BY <2>1, <2>2, <2>4
<1>4. ASSUME NEW c \in Calls, Ask(c) PROVE GateInv'
  <2> DEFINE k == keyOf[c]
             p == pruned(now[c])
             e == [p[k] EXCEPT !.seen = now[c]]
             phase == IF allow(k, now[c]) THEN "dialing" ELSE "suppressed"
  <2>1. Underway(c)
        BY <1>4 DEF Ask, Underway
  <2>2. e \in [next: Nat, failures: Nat, seen: 0..GateMaxTime] /\ e.next = p[k].next
        /\ e.seen = now[c]
        BY <1>3, <2>1
  <2>3. states' = [p EXCEPT ![k] = e] /\ CallTo(c, phase) /\ UNCHANGED <<gateClock, keyOf, now>>
    <3>1. states' = [p EXCEPT ![k].seen = now[c]]
          BY <1>4 DEF Ask
    <3> QED BY <1>4, <3>1 DEF Ask
  <2>4. phase \in Phase
        BY DEF Phase
  <2>5. /\ e.next <= gateClock + BackoffMax[kindOf(k)]
        /\ e.next <= e.seen + MaxCall + BackoffMax[kindOf(k)]
        BY <1>3, <2>1, <2>2, BackoffOf, RetentionAssumption
  <2> HIDE DEF e, phase
  <2> QED BY <2>1, <2>2, <2>3, <2>4, <2>5, ReportKeepsInv
<1>5. ASSUME NEW c \in Calls, recordFailure(c) PROVE GateInv'
  <2> DEFINE k == keyOf[c]
             p == pruned(now[c])
             e == afterFailure(p[k], k, now[c])
  <2>1. Underway(c)
        BY <1>5, SMTT(30) DEF recordFailure, Underway
  <2>2. /\ k \in Keys /\ now[c] \in 0..GateMaxTime /\ p[k] \in Entries
        /\ gateClock \in Nat /\ now[c] <= gateClock
        BY <1>3, <2>1, Zenon DEF Entries
  <2>3. e \in Entries /\ e.seen = now[c] /\ e.next <= now[c] + BackoffMax[kindOf(k)]
        BY <2>2, FailureEntry, Zenon
  <2>4. states' = [p EXCEPT ![k] = e] /\ CallTo(c, "returned") /\ UNCHANGED <<gateClock, keyOf, now>>
        BY <1>5 DEF recordFailure
  <2> HIDE DEF e
  <2>5. /\ e.next <= gateClock + BackoffMax[kindOf(k)]
        /\ e.next <= e.seen + MaxCall + BackoffMax[kindOf(k)]
    <3> DEFINE m == BackoffMax[kindOf(k)]
               t == now[c]
               x == e.next
               s == e.seen
    <3>1. m \in Nat
          BY <2>2, BackoffOf, Zenon
    <3>2. t \in Nat /\ x \in Nat /\ t <= gateClock /\ gateClock \in Nat /\ s = t /\ x <= t + m
          BY <2>2, <2>3, SMTT(30) DEF Entries
    <3>3. MaxCall \in Nat
          BY RetentionAssumption
    <3> HIDE DEF m, t, x, s
    <3>4. x <= gateClock + m /\ x <= s + MaxCall + m
          BY <3>1, <3>2, <3>3
    <3> QED BY <3>4 DEF m, x, s
  <2>6. "returned" \in Phase
        BY DEF Phase
  <2> QED BY <2>1, <2>3, <2>4, <2>5, <2>6, ReportKeepsInv DEF Entries
<1>6. ASSUME NEW c \in Calls, recordSuccess(c) PROVE GateInv'
  <2> DEFINE e == [next |-> 0, failures |-> 0, seen |-> now[c]]
  <2>1. Underway(c)
        BY <1>6 DEF recordSuccess, Underway
  <2>2. e \in [next: Nat, failures: Nat, seen: 0..GateMaxTime] /\ e.next = 0 /\ e.seen = now[c]
        BY <1>3, <2>1
  <2>3. states' = [pruned(now[c]) EXCEPT ![keyOf[c]] = e] /\ CallTo(c, "returned")
        /\ UNCHANGED <<gateClock, keyOf, now>>
        BY <1>6 DEF recordSuccess
  <2>4. /\ e.next <= gateClock + BackoffMax[kindOf(keyOf[c])]
        /\ e.next <= e.seen + MaxCall + BackoffMax[kindOf(keyOf[c])]
        BY <1>3, <2>1, <2>2, BackoffOf, RetentionAssumption
  <2>5. "returned" \in Phase
        BY DEF Phase
  <2> HIDE DEF e
  <2> QED BY <2>1, <2>2, <2>3, <2>4, <2>5, ReportKeepsInv
<1>7. CASE GateTick
  <2>1. GateTypeOK'
        BY <1>7, RetentionAssumption DEF GateInv, GateTypeOK, GateTick
  <2>2. ASSUME NEW d \in Calls PROVE CallOK(d)'
    <3>1. now[d] \in Nat /\ gateClock \in Nat
          BY DEF GateInv, GateTypeOK
    <3> QED BY <1>7, <3>1, RetentionAssumption DEF GateInv, CallOK, GateTick, Underway
  <2>3. ASSUME NEW k \in Keys PROVE EntryOK(k)'
    <3>1. states[k].next \in Nat /\ states[k].seen \in Nat /\ gateClock \in Nat
          BY DEF GateInv, GateTypeOK
    <3> QED BY <1>7, <3>1, BackoffOf, RetentionAssumption DEF GateInv, EntryOK, GateTick
  <2> QED BY <2>1, <2>2, <2>3 DEF GateInv
<1>8. CASE UNCHANGED gateVars
      BY <1>8 DEF gateVars, GateInv, GateTypeOK, CallOK, EntryOK, Underway
<1> QED BY <1>1, <1>2, <1>4, <1>5, <1>6, <1>7, <1>8 DEF GateNext

\* The invariant holds of every state of the gate, whatever the order in which calls
\* report; with it the types.
THEOREM GateInvariant == GateSpec => []GateInv
BY GateInvInit, GateInvNext, PTL DEF GateSpec

\* However many dials fail, and however late they report, the gate closes for no
\* longer than the longest backoff (recordFailure in fallback_gate.go).
THEOREM GateAlwaysReopens == GateSpec => []GateReopens
<1>1. GateInv => GateReopens
      BY Zenon DEF GateInv, EntryOK, GateReopens
<1> QED BY <1>1, GateInvariant, PTL

\* Pruning forgets only entries whose gate is open (pruneLocked).
THEOREM PruningOpensNothing == GateSpec => PruneOpensNothing
<1> DEFINE Harmless ==
        \A k \in Keys :
            \/ states'[k].next = states[k].next
            \/ states[k].next <= gateClock
            \/ \E c \in Calls : /\ keyOf[c] = k
                                /\ call[c] \in {"sent", "failed", "succeeded"}
                                /\ call'[c] = "returned"
<1>1. GateInv /\ [GateNext]_gateVars => [Harmless]_gateVars
  <2> SUFFICES ASSUME GateInv, GateNext, NEW k \in Keys,
                      states'[k].next # states[k].next, ~(states[k].next <= gateClock)
               PROVE  \E c \in Calls : /\ keyOf[c] = k
                                       /\ call[c] \in {"sent", "failed", "succeeded"}
                                       /\ call'[c] = "returned"
      BY DEF gateVars
  <2>1. PICK c \in Calls : Ask(c) \/ recordFailure(c) \/ recordSuccess(c)
        BY DEF GateNext, Begin, Send, Dial, GateTick
  <2> DEFINE p == pruned(now[c])
  <2>2. /\ keyOf[c] \in Keys /\ now[c] \in Nat /\ now[c] <= gateClock /\ gateClock \in Nat
        /\ p \in [Keys -> [next: Nat, failures: Nat, seen: 0..GateMaxTime]]
        /\ p[k] = states[k] \/ (p[k] = NoState /\ now[c] > states[k].seen + Retention)
    <3>1. /\ keyOf[c] \in Keys /\ now[c] \in Nat /\ now[c] <= gateClock /\ gateClock \in Nat
          BY <2>1 DEF GateInv, GateTypeOK, CallOK, Underway, Ask, recordFailure, recordSuccess
    <3>2. GateTypeOK
          BY DEF GateInv
    <3>3. p \in [Keys -> [next: Nat, failures: Nat, seen: 0..GateMaxTime]]
          BY <3>1, <3>2, PrunedEntry, Zenon
    <3>4. p[k] = states[k] \/ (p[k] = NoState /\ now[c] > states[k].seen + Retention)
          BY <3>1, <3>2, PrunedEntry, Zenon
    <3> HIDE DEF p
    <3> QED BY <3>1, <3>3, <3>4
  <2>3. p[k].next = states[k].next
    <3>1. CASE p[k] = NoState /\ now[c] > states[k].seen + Retention
      <4>1. states[k].next \in Nat /\ states[k].seen \in Nat
            BY DEF GateInv, GateTypeOK
      <4>2. states[k].next <= states[k].seen + MaxCall + BackoffMax[kindOf(k)]
            BY DEF GateInv, EntryOK
      <4> QED BY <3>1, <4>1, <4>2, <2>2, BackoffOf, RetentionAssumption
    <3> QED BY <2>2, <3>1
  <2>4. CASE Ask(c)
    <3>1. states' = [p EXCEPT ![keyOf[c]].seen = now[c]]
          BY <2>4 DEF Ask
    <3> HIDE DEF p
    <3>2. states'[k].next = p[k].next
          BY <3>1, <2>2
    <3> QED BY <3>2, <2>3
  <2>5. CASE recordFailure(c) \/ recordSuccess(c)
    <3>1. PICK e : states' = [p EXCEPT ![keyOf[c]] = e]
          BY <2>5 DEF recordFailure, recordSuccess
    <3> HIDE DEF p
    <3>2. keyOf[c] = k
          BY <3>1, <2>2, <2>3
    <3>3. call[c] \in {"sent", "failed", "succeeded"} /\ call'[c] = "returned"
          BY <2>5 DEF recordFailure, recordSuccess, CallTo, GateInv, GateTypeOK
    <3> QED BY <3>2, <3>3
  <2> QED BY <2>1, <2>4, <2>5
<1> QED BY <1>1, GateInvariant, PTL DEF GateSpec, PruneOpensNothing

----------------------------------------------------------------------------
(***************************************************************************)
(* A relayed stream, for any number of messages and any capacity of the    *)
(* channels.                                                               *)
(*                                                                         *)
(* ClientSeesOrder is a property of one step of the client; why it holds is*)
(* OrderInv: everything between the client and the agent (set aside, in    *)
(* relayCh, in the pump, on the wire, not sent yet) comes in the order the *)
(* agent sent it.  QueueInv bounds the queues it is about, and PhaseInv says*)
(* when the client has a reader and when nothing is set aside any more.    *)
(***************************************************************************)

\* Messages of the agent are numbered in the order it sent them: m may come before k.
Before(m, k) == m.type = "data" /\ k.type = "data" => m.n <= k.n
Sorted(s) == \A i, j \in 1 .. Len(s) : i <= j => Before(s[i], s[j])
AllBefore(s, t) == \A i \in 1 .. Len(s) : \A j \in 1 .. Len(t) : Before(s[i], t[j])

\* The message deliverRelay holds.
inPump == IF pump.at = "reading" THEN << >> ELSE <<pump.msg>>
last == <<Data(clientLast)>>
next == <<Data(nextData)>>

\* From the client back to the agent: what the client got last, the messages set
\* aside, the channel, the message in the pump, the wire and the next data.
OrderInv ==
    /\ Sorted(pending) /\ Sorted(relayCh) /\ Sorted(fromAgent)
    /\ AllBefore(last, pending) /\ AllBefore(last, relayCh) /\ AllBefore(last, inPump)
    /\ AllBefore(last, fromAgent) /\ AllBefore(last, next)
    /\ AllBefore(pending, relayCh) /\ AllBefore(pending, inPump)
    /\ AllBefore(pending, fromAgent) /\ AllBefore(pending, next)
    /\ AllBefore(relayCh, inPump) /\ AllBefore(relayCh, fromAgent) /\ AllBefore(relayCh, next)
    /\ AllBefore(inPump, fromAgent) /\ AllBefore(inPump, next)
    /\ AllBefore(fromAgent, next)

\* What deliverRelay does: it waits for a message or holds one.
Pumps == [at: {"reading"}] \cup [at: {"enqueue", "drop", "enqueue2"}, msg: Message]

\* The queues hold messages, and no more than fit.
QueueInv ==
    /\ pending \in Seq(Message) /\ Len(pending) <= MaxPending
    /\ relayCh \in Seq(Message) /\ Len(relayCh) <= ChCap
    /\ fromAgent \in Seq(Message) /\ Len(fromAgent) <= WireCap
    /\ toAgent \in Seq({"open", "data", "close"}) /\ Len(toAgent) <= SendCap
    /\ pump \in Pumps
    /\ nextData \in 1 .. MaxData
    /\ clientLast \in 0 .. MaxData

\* Before the acknowledgement there is no client reader; when the stream runs nothing
\* is set aside.
PhaseInv ==
    /\ handler \in {"start", "registered", "opening", "draining", "streaming",
                    "closing", "leaving", "hangup", "done"}
    /\ reader \in {"off", "reading", "sending", "ending", "ended"}
    /\ handler \in {"start", "registered", "opening"} => reader = "off"
    /\ handler = "streaming" => pending = << >>
    /\ EndIsAnnounced

-----------------------------------------------------------------------------
\* The head and the tail of a queue are of its elements.
LEMMA HeadTail ==
    ASSUME NEW s \in Seq(Message), s # << >>
    PROVE  /\ Tail(s) \in Seq(Message) /\ Len(Tail(s)) = Len(s) - 1
           /\ Head(s) \in Message /\ Head(s) = s[1]
           /\ 1 \in 1 .. Len(s)
           /\ \A i \in 1 .. Len(Tail(s)) : i + 1 \in 1 .. Len(s) /\ Tail(s)[i] = s[i + 1]
OBVIOUS

\* Sequences of one message.
LEMMA One ==
    ASSUME NEW m
    PROVE  Len(<<m>>) = 1 /\ \A i \in 1 .. Len(<<m>>) : <<m>>[i] = m
OBVIOUS

\* Taking the head of a queue keeps it sorted, and the head is before the rest.
LEMMA SortedTail ==
    ASSUME NEW s \in Seq(Message), s # << >>, Sorted(s)
    PROVE  Sorted(Tail(s)) /\ AllBefore(<<Head(s)>>, Tail(s))
<1>1. Sorted(Tail(s))
      BY HeadTail DEF Sorted
<1>2. AllBefore(<<Head(s)>>, Tail(s))
      BY HeadTail, One DEF Sorted, AllBefore
<1> QED BY <1>1, <1>2

\* What comes before a queue comes before what is left of it.
LEMMA BeforeTail ==
    ASSUME NEW s \in Seq(Message), s # << >>, NEW t
    PROVE  /\ AllBefore(s, t) => AllBefore(Tail(s), t) /\ AllBefore(<<Head(s)>>, t)
           /\ AllBefore(t, s) => AllBefore(t, Tail(s)) /\ AllBefore(t, <<Head(s)>>)
<1>1. AllBefore(s, t) => AllBefore(Tail(s), t)
      BY HeadTail DEF AllBefore
<1>2. AllBefore(s, t) => AllBefore(<<Head(s)>>, t)
      BY HeadTail, One DEF AllBefore
<1>3. AllBefore(t, s) => AllBefore(t, Tail(s))
      BY HeadTail DEF AllBefore
<1>4. AllBefore(t, s) => AllBefore(t, <<Head(s)>>)
      BY HeadTail, One DEF AllBefore
<1> QED BY <1>1, <1>2, <1>3, <1>4

\* The elements of a queue after an append.
LEMMA AppendLast ==
    ASSUME NEW s \in Seq(Message), NEW m \in Message
    PROVE  /\ Append(s, m) \in Seq(Message) /\ Len(Append(s, m)) = Len(s) + 1
           /\ Len(s) \in Nat
           /\ Append(s, m)[Len(s) + 1] = m
           /\ \A i \in 1 .. Len(s) + 1 : i \in 1 .. Len(s) \/ i = Len(s) + 1
           /\ \A i \in 1 .. Len(s) : Append(s, m)[i] = s[i]
OBVIOUS

\* A message that comes after a sorted queue keeps it sorted.
LEMMA SortedAppend ==
    ASSUME NEW s \in Seq(Message), NEW m \in Message, Sorted(s), AllBefore(s, <<m>>)
    PROVE  Sorted(Append(s, m))
<1>1. \A i \in 1 .. Len(s) : Before(s[i], m)
      BY One DEF AllBefore
<1>2. Before(m, m)
      BY DEF Before, Message
<1> SUFFICES ASSUME NEW i \in 1 .. Len(s) + 1, NEW j \in 1 .. Len(s) + 1, i <= j
             PROVE  Before(Append(s, m)[i], Append(s, m)[j])
    BY AppendLast DEF Sorted
<1>3. CASE j \in 1 .. Len(s)
      BY <1>3, AppendLast DEF Sorted
<1>4. CASE j = Len(s) + 1 /\ i \in 1 .. Len(s)
      BY <1>4, <1>1, AppendLast
<1>5. CASE j = Len(s) + 1 /\ i = Len(s) + 1
      BY <1>5, <1>2, AppendLast
<1> QED BY <1>3, <1>4, <1>5, AppendLast

\* Appending a message that comes before, or after, t as the rest of the queue does.
LEMMA BeforeAppend ==
    ASSUME NEW s \in Seq(Message), NEW m \in Message, NEW t
    PROVE  /\ AllBefore(s, t) /\ AllBefore(<<m>>, t) => AllBefore(Append(s, m), t)
           /\ AllBefore(t, s) /\ AllBefore(t, <<m>>) => AllBefore(t, Append(s, m))
<1>1. AllBefore(<<m>>, t) => \A j \in 1 .. Len(t) : Before(m, t[j])
      BY One DEF AllBefore
<1>2. AllBefore(t, <<m>>) => \A j \in 1 .. Len(t) : Before(t[j], m)
      BY One DEF AllBefore
<1>3. AllBefore(s, t) /\ AllBefore(<<m>>, t) => AllBefore(Append(s, m), t)
      BY <1>1, AppendLast DEF AllBefore
<1>4. AllBefore(t, s) /\ AllBefore(t, <<m>>) => AllBefore(t, Append(s, m))
      BY <1>2, AppendLast DEF AllBefore
<1> QED BY <1>3, <1>4

\* The order says nothing of an empty queue or of a message that is not data.
LEMMA NoOrder ==
    ASSUME NEW t
    PROVE  /\ AllBefore(<< >>, t) /\ AllBefore(t, << >>) /\ Sorted(<< >>)
           /\ \A y \in {"ack", "nak", "close"} :
                 AllBefore(<<Msg(y)>>, t) /\ AllBefore(t, <<Msg(y)>>)
<1>1. AllBefore(<< >>, t) /\ AllBefore(t, << >>) /\ Sorted(<< >>)
      BY DEF AllBefore, Sorted
<1>2. ASSUME NEW y \in {"ack", "nak", "close"}
      PROVE  AllBefore(<<Msg(y)>>, t) /\ AllBefore(t, <<Msg(y)>>)
      BY One DEF AllBefore, Before, Msg
<1> QED BY <1>1, <1>2

\* What comes before a message of the agent comes before its next one.
LEMMA BeforeMore ==
    ASSUME NEW s \in Seq(Message), NEW n \in Nat, AllBefore(s, <<Data(n)>>)
    PROVE  AllBefore(s, <<Data(n + 1)>>)
<1>1. \A i \in 1 .. Len(s) : s[i] \in Message /\ Before(s[i], Data(n))
      BY One DEF AllBefore
<1>2. \A i \in 1 .. Len(s) : Before(s[i], Data(n + 1))
      BY <1>1 DEF Before, Data, Message
<1> QED BY <1>2, One DEF AllBefore

-----------------------------------------------------------------------------
\* SendRelay keeps the send queue within its capacity.
LEMMA SendKeepsQueue ==
    ASSUME QueueInv, NEW m \in {"open", "data", "close"},
           SendRelay(m) \/ UNCHANGED toAgent
    PROVE  toAgent' \in Seq({"open", "data", "close"}) /\ Len(toAgent') <= SendCap
<1>1. toAgent \in Seq({"open", "data", "close"}) /\ Len(toAgent) <= SendCap
      BY DEF QueueInv
<1>2. /\ Append(toAgent, m) \in Seq({"open", "data", "close"})
      /\ Len(Append(toAgent, m)) = Len(toAgent) + 1 /\ Len(toAgent) \in Nat
      BY <1>1
<1> QED BY <1>1, <1>2, BoundAssumption DEF SendRelay, relaySent

streamQueues == <<pending, relayCh, fromAgent, pump, nextData, clientLast>>

\* Every step keeps the queues typed and within their capacities.
LEMMA QueueNext == QueueInv /\ [Next]_vars => QueueInv'
<1> SUFFICES ASSUME QueueInv, [Next]_vars PROVE QueueInv'
    OBVIOUS
<1>1. ASSUME UNCHANGED <<streamQueues, toAgent>> PROVE QueueInv'
      BY <1>1 DEF streamQueues, QueueInv
<1>2. ASSUME UNCHANGED streamQueues, NEW m \in {"open", "data", "close"},
             SendRelay(m) \/ UNCHANGED toAgent
      PROVE  QueueInv'
      BY <1>2, SendKeepsQueue, SMTT(30) DEF streamQueues, QueueInv
<1>3. CASE RegisterRelay \/ OpenTimeout \/ StartStreaming \/ StreamDone \/ PingFails
           \/ UnregisterRelay \/ HangUp \/ ReaderReads \/ ReadFails \/ CooldownExpires
           \/ PreemptBegin \/ ConnBack
      BY <1>3, <1>1 DEF RegisterRelay, OpenTimeout, StartStreaming, StreamDone, PingFails,
            UnregisterRelay, HangUp, ReaderReads, ReadFails, CooldownExpires, PreemptBegin,
            ConnBack, streamQueues, handlerVars, agentVars
<1>4. CASE SendOpen \/ HandlerCloses \/ ReaderSends \/ ReaderCloses
      BY <1>4, <1>2 DEF SendOpen, HandlerCloses, ReaderSends, ReaderCloses, closeRelay,
            streamQueues, handlerVars, agentVars
<1>5. CASE OpenReceive
  <2>1. Tail(relayCh) \in Seq(Message) /\ Len(Tail(relayCh)) <= ChCap /\ Head(relayCh) \in Message
        BY <1>5, HeadTail, BoundAssumption DEF QueueInv, OpenReceive
  <2>2. pending' = pending \/ (pending' = Append(pending, Head(relayCh)) /\ Len(pending) < MaxPending)
        BY <1>5 DEF OpenReceive
  <2>3. pending' \in Seq(Message) /\ Len(pending') <= MaxPending
    <3>1. pending \in Seq(Message) /\ Len(pending) <= MaxPending
          BY DEF QueueInv
    <3>2. /\ Append(pending, Head(relayCh)) \in Seq(Message) /\ Len(pending) \in Nat
          /\ Len(Append(pending, Head(relayCh))) = Len(pending) + 1
          BY <2>1, <3>1, AppendLast
    <3> QED BY <2>2, <3>1, <3>2, BoundAssumption
  <2> QED BY <1>5, <2>1, <2>3 DEF QueueInv, OpenReceive, agentVars
<1>6. ASSUME NEW m \in Message, sendToClient(m) PROVE clientLast' \in 0 .. MaxData
      BY <1>6 DEF sendToClient, Message, QueueInv
<1>7. CASE DrainPending
  <2>1. Tail(pending) \in Seq(Message) /\ Len(Tail(pending)) <= MaxPending /\ Head(pending) \in Message
        BY <1>7, HeadTail, BoundAssumption DEF QueueInv, DrainPending
  <2> QED BY <1>6, <1>7, <2>1 DEF QueueInv, DrainPending, agentVars
<1>8. CASE StreamReceive
  <2>1. Tail(relayCh) \in Seq(Message) /\ Len(Tail(relayCh)) <= ChCap /\ Head(relayCh) \in Message
        BY <1>8, HeadTail, BoundAssumption DEF QueueInv, StreamReceive
  <2> QED BY <1>6, <1>8, <2>1 DEF QueueInv, StreamReceive, agentVars
<1>9. ASSUME NEW m \in Message, relayCh' = IF room THEN Append(relayCh, m) ELSE relayCh
      PROVE  relayCh' \in Seq(Message) /\ Len(relayCh') <= ChCap
      BY <1>9, AppendLast, BoundAssumption DEF QueueInv, room
<1>10. ASSUME relayCh' = IF relayCh = << >> THEN relayCh ELSE Tail(relayCh)
      PROVE  relayCh' \in Seq(Message) /\ Len(relayCh') <= ChCap
      BY <1>10, HeadTail, BoundAssumption DEF QueueInv
<1>11. CASE PumpReads
  <2>1. /\ Tail(fromAgent) \in Seq(Message) /\ Len(Tail(fromAgent)) <= WireCap
        /\ Head(fromAgent) \in Message
        BY <1>11, HeadTail, BoundAssumption, SMTT(30) DEF QueueInv, PumpReads
  <2>2. pump' \in Pumps
        BY <1>11, <2>1 DEF PumpReads, Pumps, QueueInv
  <2>3. SendRelay("close") \/ UNCHANGED toAgent
        BY <1>11 DEF PumpReads
  <2> QED BY <1>11, <2>1, <2>2, <2>3, SendKeepsQueue
          DEF QueueInv, PumpReads, agentVars, handlerVars
<1>12. CASE PumpEnqueue \/ PumpDrop \/ PumpEnqueue2
  <2>1. pump.msg \in Message /\ pump.at # "reading"
        BY <1>12 DEF QueueInv, Pumps, PumpEnqueue, PumpDrop, PumpEnqueue2
  <2>2. pump' \in Pumps
    <3>1. pump' = [at |-> "reading"] \/ \E y \in {"drop", "enqueue2"} : pump' = [pump EXCEPT !.at = y]
          BY <1>12, Zenon DEF PumpEnqueue, PumpDrop, PumpEnqueue2
    <3> QED BY <3>1, <2>1 DEF QueueInv, Pumps
  <2>3. relayCh' \in Seq(Message) /\ Len(relayCh') <= ChCap
        BY <1>12, <2>1, <1>9, <1>10 DEF PumpEnqueue, PumpDrop, PumpEnqueue2, enqueue
  <2> QED BY <1>12, <2>2, <2>3
          DEF QueueInv, PumpEnqueue, PumpDrop, PumpEnqueue2, agentVars, handlerVars
<1>13. CASE PreemptStep
  <2>1. Msg("close") \in Message
        BY DEF Msg, Message
  <2>2. relayCh' \in Seq(Message) /\ Len(relayCh') <= ChCap
        BY <1>13, <2>1, <1>9, <1>10
        DEF PreemptStep, PreemptEnqueue, PreemptDrop, PreemptEnqueue2, enqueue
  <2> QED BY <1>13, <2>2 DEF QueueInv, PreemptStep, PreemptEnqueue, PreemptDrop,
            PreemptEnqueue2, agentVars, handlerVars
<1>14. CASE AgentReceives
  <2>1. Tail(toAgent) \in Seq({"open", "data", "close"}) /\ Len(Tail(toAgent)) <= SendCap
        BY <1>14, BoundAssumption DEF QueueInv, AgentReceives
  <2> QED BY <1>14, <2>1 DEF QueueInv, AgentReceives, handlerVars
<1>15. CASE AgentAnswers \/ AgentSendsData \/ AgentCloses
  <2>1. Msg("ack") \in Message /\ Msg("nak") \in Message /\ Msg("close") \in Message
        BY DEF Msg, Message
  <2>2. Data(nextData) \in Message
        BY DEF QueueInv, Data, Message
  <2>3. PICK m \in Message : fromAgent' = Append(fromAgent, m) /\ Len(fromAgent) < WireCap
        BY <1>15, <2>1, <2>2, Zenon DEF AgentAnswers, AgentSendsData, AgentCloses
  <2>4. fromAgent' \in Seq(Message) /\ Len(fromAgent') <= WireCap
        BY <2>3, AppendLast, BoundAssumption DEF QueueInv
  <2>5. nextData' \in 1 .. MaxData
    <3>1. nextData' = nextData \/ (nextData < MaxData /\ nextData' = nextData + 1)
          BY <1>15, Zenon DEF AgentAnswers, AgentSendsData, AgentCloses
    <3> QED BY <3>1, BoundAssumption DEF QueueInv
  <2> QED BY <1>15, <2>4, <2>5
          DEF QueueInv, AgentAnswers, AgentSendsData, AgentCloses, handlerVars
<1>16. CASE ConnLost
  <2>1. << >> \in Seq(Message) /\ << >> \in Seq({"open", "data", "close"}) /\ Len(<< >>) = 0
        OBVIOUS
  <2> QED BY <1>16, <2>1, BoundAssumption DEF QueueInv, ConnLost, handlerVars
<1>17. CASE UNCHANGED vars
      BY <1>17, <1>1, SMTT(30) DEF vars, streamQueues
<1> QED BY <1>3, <1>4, <1>5, <1>7, <1>8, <1>11, <1>12, <1>13, <1>14, <1>15, <1>16, <1>17
        DEF Next, HandlerGoesOn, ReaderGoesOn, PumpStep

\* Every action that touches the handler, the reader or closeOnce.
LEMMA PhaseNext == QueueInv /\ PhaseInv /\ [Next]_vars => PhaseInv'
<1> SUFFICES ASSUME QueueInv, PhaseInv, [Next]_vars PROVE PhaseInv'
    OBVIOUS
<1> USE DEF PhaseInv, EndIsAnnounced
<1>1. ASSUME UNCHANGED <<handler, reader, pending, closeDone>> PROVE PhaseInv'
      BY <1>1
<1>2. CASE RegisterRelay \/ SendOpen \/ OpenTimeout \/ StartStreaming \/ StreamDone
           \/ PingFails \/ UnregisterRelay \/ HangUp
      BY <1>2 DEF RegisterRelay, SendOpen, OpenTimeout, StartStreaming, StreamDone, PingFails,
                  UnregisterRelay, HangUp
<1>3. CASE OpenReceive
      BY <1>3 DEF OpenReceive
<1>4. CASE HandlerCloses
      BY <1>4, SMTT(30) DEF HandlerCloses, closeRelay
<1>5. CASE DrainPending \/ StreamReceive
      BY <1>5, SMTT(30) DEF DrainPending, StreamReceive, sendToClient
<1>6. CASE ReaderReads \/ ReadFails \/ ReaderSends \/ ReaderCloses
      BY <1>6 DEF ReaderReads, ReadFails, ReaderSends, ReaderCloses, closeRelay, handlerVars
<1>7. CASE PumpStep \/ CooldownExpires \/ PreemptBegin \/ PreemptStep
      BY <1>7, <1>1, SMTT(30) DEF PumpStep, PumpReads, PumpEnqueue, PumpDrop, PumpEnqueue2,
            CooldownExpires, PreemptBegin, PreemptStep, PreemptEnqueue, PreemptDrop,
            PreemptEnqueue2, handlerVars
<1>8. CASE AgentReceives \/ AgentAnswers \/ AgentSendsData \/ AgentCloses \/ ConnLost \/ ConnBack
      BY <1>8, <1>1 DEF AgentReceives, AgentAnswers, AgentSendsData, AgentCloses, ConnLost,
            ConnBack, handlerVars
<1>9. CASE UNCHANGED vars
      BY <1>9, <1>1 DEF vars
<1> QED BY <1>2, <1>3, <1>4, <1>5, <1>6, <1>7, <1>8, <1>9
        DEF Next, HandlerGoesOn, ReaderGoesOn

-----------------------------------------------------------------------------
\* Every step keeps the order of what the agent sent.
LEMMA OrderNext == QueueInv /\ PhaseInv /\ OrderInv /\ [Next]_vars => OrderInv'
<1> SUFFICES ASSUME QueueInv, PhaseInv, OrderInv, [Next]_vars PROVE OrderInv'
    BY SMTT(30)
<1>1. ASSUME UNCHANGED streamQueues PROVE OrderInv'
      BY <1>1 DEF streamQueues, OrderInv, inPump, last, next
<1>2. /\ pending \in Seq(Message) /\ relayCh \in Seq(Message) /\ fromAgent \in Seq(Message)
      /\ clientLast \in Nat /\ nextData \in Nat /\ pump \in Pumps
      BY DEF QueueInv
<1>3. pump.at # "reading" => pump.msg \in Message /\ inPump = <<pump.msg>>
      BY <1>2 DEF Pumps, inPump
<1>a. inPump \in Seq(Message)
      BY <1>3 DEF inPump
<1>b. last \in Seq(Message)
      BY <1>2, SMTT(30) DEF last, QueueInv, Data, Message
<1>4. CASE OpenReceive
  <2>1. inPump' = inPump /\ last' = last /\ next' = next /\ fromAgent' = fromAgent
        BY <1>4 DEF OpenReceive, inPump, last, next, agentVars
  <2>2. /\ relayCh # << >> /\ relayCh' = Tail(relayCh)
        /\ pending' = pending \/ pending' = Append(pending, Head(relayCh))
        BY <1>4 DEF OpenReceive
  <2>3. Head(relayCh) \in Message
        BY <1>2, <2>2, HeadTail
  <2>4. Sorted(pending') /\ Sorted(relayCh') /\ AllBefore(pending', relayCh')
        BY <1>2, <2>2, <2>3, SortedTail, BeforeTail, BeforeAppend, SortedAppend, Zenon DEF OrderInv
  <2>5. /\ AllBefore(last, pending') /\ AllBefore(pending', inPump)
        /\ AllBefore(pending', fromAgent) /\ AllBefore(pending', next)
        BY <1>2, <2>2, <2>3, BeforeTail, BeforeAppend, Zenon DEF OrderInv
  <2>6. /\ AllBefore(last, relayCh') /\ AllBefore(relayCh', inPump)
        /\ AllBefore(relayCh', fromAgent) /\ AllBefore(relayCh', next)
        BY <1>2, <2>2, BeforeTail, Zenon DEF OrderInv
  <2> QED BY <2>1, <2>4, <2>5, <2>6 DEF OrderInv
<1>5. ASSUME NEW m \in Message, sendToClient(m) PROVE last' = last \/ last' = <<m>>
      BY <1>5, SMTT(30) DEF sendToClient, last, Data, Message
<1>6. CASE DrainPending
  <2>1. inPump' = inPump /\ next' = next /\ fromAgent' = fromAgent /\ relayCh' = relayCh
        BY <1>6 DEF DrainPending, inPump, next, agentVars
  <2>2. pending # << >> /\ pending' = Tail(pending) /\ sendToClient(Head(pending))
        BY <1>6 DEF DrainPending
  <2>3. last' = last \/ last' = <<Head(pending)>>
        BY <1>2, <1>5, <2>2, HeadTail
  <2>4. Sorted(pending') /\ AllBefore(last', pending')
        BY <1>2, <2>2, <2>3, SortedTail, BeforeTail, ZenonT(30) DEF OrderInv
  <2>5. /\ AllBefore(last', relayCh) /\ AllBefore(last', inPump)
        /\ AllBefore(last', fromAgent) /\ AllBefore(last', next)
        BY <1>2, <2>2, <2>3, BeforeTail DEF OrderInv
  <2>6. /\ AllBefore(pending', relayCh) /\ AllBefore(pending', inPump)
        /\ AllBefore(pending', fromAgent) /\ AllBefore(pending', next)
        BY <1>2, <2>2, BeforeTail, ZenonT(30) DEF OrderInv
  <2> QED BY <2>1, <2>4, <2>5, <2>6 DEF OrderInv
<1>7. CASE StreamReceive
  <2>1. inPump' = inPump /\ next' = next /\ fromAgent' = fromAgent
        BY <1>7 DEF StreamReceive, inPump, next, agentVars
  <2>2. /\ relayCh # << >> /\ relayCh' = Tail(relayCh) /\ sendToClient(Head(relayCh))
        /\ pending' = << >>
        BY <1>7 DEF StreamReceive, PhaseInv
  <2>3. last' = last \/ last' = <<Head(relayCh)>>
        BY <1>2, <1>5, <2>2, HeadTail
  <2>4. Sorted(relayCh') /\ AllBefore(last', relayCh')
        BY <1>2, <2>2, <2>3, SortedTail, BeforeTail, ZenonT(30) DEF OrderInv
  <2>5. /\ AllBefore(last', inPump) /\ AllBefore(last', fromAgent) /\ AllBefore(last', next)
        BY <1>2, <2>2, <2>3, BeforeTail DEF OrderInv
  <2>6. /\ AllBefore(relayCh', inPump) /\ AllBefore(relayCh', fromAgent)
        /\ AllBefore(relayCh', next)
        BY <1>2, <2>2, BeforeTail, ZenonT(30) DEF OrderInv
  <2> QED BY <2>1, <2>2, <2>4, <2>5, <2>6, NoOrder DEF OrderInv
<1>8. CASE PumpReads
  <2>1. /\ relayCh' = relayCh /\ last' = last /\ next' = next /\ pending' = pending
        BY <1>8 DEF PumpReads, last, next, agentVars, handlerVars
  <2>2. /\ fromAgent # << >> /\ fromAgent' = Tail(fromAgent)
        /\ inPump = << >> /\ (inPump' = << >> \/ inPump' = <<Head(fromAgent)>>)
        BY <1>8 DEF PumpReads, inPump
  <2>3. Sorted(fromAgent') /\ AllBefore(inPump', fromAgent')
        BY <1>2, <2>2, SortedTail, NoOrder, Zenon DEF OrderInv
  <2>4. /\ AllBefore(last, fromAgent') /\ AllBefore(pending, fromAgent')
        /\ AllBefore(relayCh, fromAgent') /\ AllBefore(fromAgent', next)
        BY <1>2, <2>2, BeforeTail, ZenonT(30) DEF OrderInv
  <2>5. /\ AllBefore(last, inPump') /\ AllBefore(pending, inPump')
        /\ AllBefore(relayCh, inPump') /\ AllBefore(inPump', next)
        BY <1>2, <2>2, BeforeTail, NoOrder, SMTT(30) DEF OrderInv
  <2> QED BY <2>1, <2>3, <2>4, <2>5 DEF OrderInv
\* relayCh loses its oldest message, with the pump keeping its own or giving it up.
<1>9. ASSUME UNCHANGED <<pending, fromAgent, last, next>>,
             relayCh' = IF relayCh = << >> THEN relayCh ELSE Tail(relayCh),
             inPump' = inPump \/ inPump' = << >>
      PROVE  OrderInv'
  <2>1. /\ Sorted(relayCh') /\ AllBefore(last, relayCh') /\ AllBefore(pending, relayCh')
        /\ AllBefore(relayCh', inPump) /\ AllBefore(relayCh', fromAgent)
        /\ AllBefore(relayCh', next)
        BY <1>2, <1>9, SortedTail, BeforeTail, ZenonT(30) DEF OrderInv
  <2> QED BY <1>9, <2>1, NoOrder DEF OrderInv
\* relayCh gets a message that fits between it and the wire.
<1>10. ASSUME UNCHANGED <<pending, fromAgent, last, next>>, NEW m \in Message,
              relayCh' = Append(relayCh, m), AllBefore(relayCh, <<m>>),
              AllBefore(last, <<m>>), AllBefore(pending, <<m>>), AllBefore(<<m>>, inPump'),
              AllBefore(<<m>>, fromAgent), AllBefore(<<m>>, next),
              inPump' = inPump \/ inPump' = << >>
       PROVE  OrderInv'
  <2>1. Sorted(relayCh')
        BY <1>2, <1>10, SortedAppend, SMTT(30) DEF OrderInv
  <2>2. /\ AllBefore(last, relayCh') /\ AllBefore(pending, relayCh')
        /\ AllBefore(relayCh', fromAgent) /\ AllBefore(relayCh', next)
        BY <1>2, <1>10, BeforeAppend, SMTT(30) DEF OrderInv
  <2>3. AllBefore(relayCh', inPump')
        BY <1>2, <1>10, BeforeAppend, NoOrder, SMTT(30) DEF OrderInv
  <2> QED BY <1>10, <2>1, <2>2, <2>3, NoOrder DEF OrderInv
<1>11. ASSUME UNCHANGED <<pending, relayCh, fromAgent, last, next>>,
              inPump' = inPump \/ inPump' = << >>
       PROVE  OrderInv'
      BY <1>11, NoOrder DEF OrderInv
<1>12. CASE PumpEnqueue \/ PumpDrop \/ PumpEnqueue2
  <2>1. /\ UNCHANGED <<pending, fromAgent, last, next>> /\ pump.at # "reading"
        BY <1>12 DEF PumpEnqueue, PumpDrop, PumpEnqueue2, last, next, handlerVars, agentVars
  <2>2. inPump' = inPump \/ inPump' = << >>
        BY <1>12, <1>2 DEF PumpEnqueue, PumpDrop, PumpEnqueue2, inPump, Pumps
  <2>3. CASE UNCHANGED relayCh
        BY <2>1, <2>2, <2>3, <1>11
  <2>4. CASE PumpDrop
        BY <2>1, <2>2, <2>4, <1>9, SMTT(30) DEF PumpDrop
  <2>5. CASE relayCh' = Append(relayCh, pump.msg) /\ pump' = [at |-> "reading"]
    <3>1. inPump' = << >>
          BY <2>5 DEF inPump
    <3>2. pump.msg \in Message /\ inPump = <<pump.msg>>
          BY <2>1, <1>3
    <3>3. /\ AllBefore(relayCh, <<pump.msg>>) /\ AllBefore(last, <<pump.msg>>)
          /\ AllBefore(pending, <<pump.msg>>) /\ AllBefore(<<pump.msg>>, fromAgent)
          /\ AllBefore(<<pump.msg>>, next)
          BY <3>2 DEF OrderInv
    <3> QED BY <2>1, <2>5, <3>1, <3>2, <3>3, <1>10, NoOrder
  <2> QED BY <1>12, <2>3, <2>4, <2>5 DEF PumpEnqueue, PumpEnqueue2, enqueue
<1>13. CASE PreemptStep
  <2>1. UNCHANGED <<pending, fromAgent, last, next>> /\ inPump' = inPump
        BY <1>13 DEF PreemptStep, PreemptEnqueue, PreemptDrop, PreemptEnqueue2, last, next,
              inPump, handlerVars, agentVars
  <2>2. CASE UNCHANGED relayCh
        BY <2>1, <2>2, <1>11
  <2>3. CASE PreemptDrop
        BY <2>1, <2>3, <1>9, SMTT(30) DEF PreemptDrop
  <2>4. CASE relayCh' = Append(relayCh, Msg("close"))
    <3>1. Msg("close") \in Message
          BY SMTT(30) DEF Msg, Message
    <3> QED BY <2>1, <2>4, <3>1, <1>10, NoOrder
  <2> QED BY <1>13, <2>2, <2>3, <2>4, SMTT(30) DEF PreemptStep, PreemptEnqueue, PreemptEnqueue2, enqueue
\* The agent sends a message that is not before the data it has sent.
<1>14. ASSUME UNCHANGED <<pending, relayCh, inPump, last>>, NEW m \in Message,
              fromAgent' = Append(fromAgent, m),
              AllBefore(last, <<m>>), AllBefore(pending, <<m>>), AllBefore(relayCh, <<m>>),
              AllBefore(inPump, <<m>>), AllBefore(fromAgent, <<m>>), AllBefore(<<m>>, next'),
              next' = next \/ next' = <<Data(nextData + 1)>>
       PROVE  OrderInv'
  <2>1. /\ AllBefore(last, next') /\ AllBefore(pending, next') /\ AllBefore(relayCh, next')
        /\ AllBefore(inPump, next') /\ AllBefore(fromAgent, next')
        BY <1>2, <1>a, <1>b, <1>14, BeforeMore, ZenonT(30) DEF OrderInv, next
  <2>2. Sorted(fromAgent')
        BY <1>2, <1>14, SortedAppend, SMTT(30) DEF OrderInv
  <2>3. /\ AllBefore(last, fromAgent') /\ AllBefore(pending, fromAgent')
        /\ AllBefore(relayCh, fromAgent') /\ AllBefore(inPump, fromAgent')
        /\ AllBefore(fromAgent', next')
        BY <1>2, <1>14, <2>1, BeforeAppend, SMTT(30) DEF OrderInv
  <2> QED BY <1>14, <2>1, <2>2, <2>3 DEF OrderInv
<1>15. CASE AgentAnswers \/ AgentCloses
  <2>1. PICK y \in {"ack", "nak", "close"} : fromAgent' = Append(fromAgent, Msg(y))
        BY <1>15, SMTT(30) DEF AgentAnswers, AgentCloses
  <2>2. UNCHANGED <<pending, relayCh, inPump, last, next>>
        BY <1>15 DEF AgentAnswers, AgentCloses, inPump, last, next, handlerVars
  <2>3. Msg(y) \in Message
        BY SMTT(30) DEF Msg, Message
  <2> QED BY <2>1, <2>2, <2>3, <1>14, NoOrder
<1>16. CASE AgentSendsData
  <2>1. UNCHANGED <<pending, relayCh, inPump, last>> /\ fromAgent' = Append(fromAgent, Data(nextData))
        BY <1>16 DEF AgentSendsData, inPump, last, handlerVars
  <2>2. next' = next \/ next' = <<Data(nextData + 1)>>
        BY <1>16 DEF AgentSendsData, next
  <2>3. Data(nextData) \in Message /\ next = <<Data(nextData)>>
        BY DEF QueueInv, Data, Message, next
  <2>4. AllBefore(next, next')
        BY <1>2, <2>2, <2>3, One, SMTT(30) DEF AllBefore, Before, Data
  <2>5. /\ AllBefore(last, next) /\ AllBefore(pending, next) /\ AllBefore(relayCh, next)
        /\ AllBefore(inPump, next) /\ AllBefore(fromAgent, next)
        BY ZenonT(30) DEF OrderInv
  <2> QED BY <2>1, <2>2, <2>3, <2>4, <2>5, <1>14, ZenonT(30)
<1>17. CASE ConnLost
  <2>1. UNCHANGED <<pending, relayCh, inPump, last, next>> /\ fromAgent' = << >>
        BY <1>17, SMTT(30) DEF ConnLost, inPump, last, next, handlerVars
  <2> QED BY <2>1, NoOrder DEF OrderInv
<1>18. CASE RegisterRelay \/ SendOpen \/ OpenTimeout \/ StartStreaming \/ StreamDone \/ PingFails
           \/ HandlerCloses \/ UnregisterRelay \/ HangUp \/ ReaderReads \/ ReadFails
           \/ ReaderSends \/ ReaderCloses \/ CooldownExpires \/ PreemptBegin
           \/ AgentReceives \/ ConnBack
      BY <1>18, <1>1, Zenon DEF RegisterRelay, SendOpen, OpenTimeout, StartStreaming, StreamDone,
            PingFails, HandlerCloses, UnregisterRelay, HangUp, ReaderReads, ReadFails,
            ReaderSends, ReaderCloses, CooldownExpires, PreemptBegin, AgentReceives, ConnBack,
            streamQueues, handlerVars, agentVars
<1>19. CASE UNCHANGED vars
      BY <1>19, <1>1 DEF vars, streamQueues
<1> QED BY <1>4, <1>6, <1>7, <1>8, <1>12, <1>13, <1>15, <1>16, <1>17, <1>18, <1>19
        DEF Next, HandlerGoesOn, ReaderGoesOn, PumpStep

-----------------------------------------------------------------------------
\* The inductive invariant.
RelayInv == QueueInv /\ PhaseInv /\ OrderInv

\* It holds before the relay is registered.
LEMMA RelayInvInit == Init => RelayInv
<1> SUFFICES ASSUME Init PROVE RelayInv
    OBVIOUS
<1>1. QueueInv
  <2>1. << >> \in Seq(Message) /\ << >> \in Seq({"open", "data", "close"}) /\ Len(<< >>) = 0
        OBVIOUS
  <2>2. [at |-> "reading"] \in Pumps
        BY Zenon DEF Pumps
  <2> QED BY <2>1, <2>2, BoundAssumption DEF Init, QueueInv
<1>2. PhaseInv
      BY SMTT(30) DEF Init, PhaseInv, EndIsAnnounced
<1>3. OrderInv
  <2>1. inPump = << >> /\ pending = << >> /\ relayCh = << >> /\ fromAgent = << >>
        BY SMTT(30) DEF Init, inPump
  <2>2. AllBefore(last, next)
        BY One DEF Init, AllBefore, Before, last, next, Data
  <2> QED BY <2>1, <2>2, NoOrder DEF OrderInv
<1> QED BY <1>1, <1>2, <1>3, SMTT(30) DEF RelayInv

\* The invariant holds of every state of a relayed stream.
THEOREM RelayInvariant == Spec => []RelayInv
<1>1. RelayInv /\ [Next]_vars => RelayInv'
      BY QueueNext, PhaseNext, OrderNext, SMTT(30) DEF RelayInv
<1> QED BY <1>1, RelayInvInit, PTL DEF Spec

\* The flags and counters keep their types.
FlagTypeOK ==
    /\ registered \in BOOLEAN /\ closeDone \in BOOLEAN /\ up \in BOOLEAN /\ recent \in BOOLEAN
    /\ preempter \in {"off", "enqueue", "drop", "enqueue2", "sent", "lost"}
    /\ agent \in {"none", "opening", "open", "closed"}

\* The types of the counters.
CountTypeOK == streak \in 0 .. Budget /\ losses \in 0 .. MaxLosses

\* Every step keeps the types of the flags.
LEMMA FlagNext == FlagTypeOK /\ [Next]_vars => FlagTypeOK'
<1> SUFFICES ASSUME FlagTypeOK, [Next]_vars PROVE FlagTypeOK'
    OBVIOUS
<1> USE DEF FlagTypeOK, handlerVars, agentVars
<1>1. CASE HandlerGoesOn
  <2>1. CASE SendOpen \/ OpenReceive \/ StartStreaming \/ UnregisterRelay \/ HangUp
        BY <2>1, ZenonT(30) DEF SendOpen, OpenReceive, StartStreaming, UnregisterRelay, HangUp
  <2>2. CASE DrainPending \/ StreamReceive
        BY <2>2, ZenonT(30) DEF DrainPending, StreamReceive
  <2>3. CASE HandlerCloses
        BY <2>3 DEF HandlerCloses, closeRelay
  <2> QED BY <1>1, <2>1, <2>2, <2>3 DEF HandlerGoesOn
<1>2. CASE RegisterRelay \/ OpenTimeout \/ StreamDone \/ PingFails \/ ReaderReads \/ ReadFails
      BY <1>2, ZenonT(30) DEF RegisterRelay, OpenTimeout, StreamDone, PingFails, ReaderReads, ReadFails
<1>3. CASE ReaderGoesOn
      BY <1>3, Zenon DEF ReaderGoesOn, ReaderSends, ReaderCloses, closeRelay
<1>4. CASE PumpStep \/ CooldownExpires
      BY <1>4, ZenonT(30) DEF PumpStep, PumpReads, PumpEnqueue, PumpDrop, PumpEnqueue2, CooldownExpires
<1>5. CASE PreemptBegin \/ PreemptStep
      BY <1>5 DEF PreemptBegin, PreemptStep, PreemptEnqueue, PreemptDrop, PreemptEnqueue2
<1>6. CASE AgentReceives \/ AgentAnswers \/ AgentSendsData \/ AgentCloses \/ ConnLost \/ ConnBack
      BY <1>6, ZenonT(30) DEF AgentReceives, AgentAnswers, AgentSendsData, AgentCloses, ConnLost, ConnBack
<1>7. CASE UNCHANGED vars
      BY <1>7 DEF vars
<1> QED BY <1>1, <1>2, <1>3, <1>4, <1>5, <1>6, <1>7 DEF Next

\* Every step keeps the types of the counters.
LEMMA CountNext == CountTypeOK /\ [Next]_vars => CountTypeOK'
<1> SUFFICES ASSUME CountTypeOK, [Next]_vars PROVE CountTypeOK'
    OBVIOUS
<1> USE BoundAssumption DEF CountTypeOK, handlerVars, agentVars
<1>1. CASE DrainPending \/ StreamReceive
  <2>1. losses' = losses /\ \E m : sendToClient(m)
        BY <1>1, Zenon DEF DrainPending, StreamReceive
  <2>2. streak' = 0 \/ streak' = streak \/ (streak < Budget /\ streak' = streak + 1)
    <3>1. PICK m : sendToClient(m)
          BY <2>1
    <3> QED BY <3>1 DEF sendToClient
  <2> QED BY <2>1, <2>2
<1>2. CASE ConnLost
      BY <1>2 DEF ConnLost
<1>3. CASE HandlerGoesOn /\ ~DrainPending /\ ~StreamReceive
      BY <1>3, Zenon DEF HandlerGoesOn, SendOpen, OpenReceive, StartStreaming, HandlerCloses,
            UnregisterRelay, HangUp
<1>4. CASE RegisterRelay \/ OpenTimeout \/ StreamDone \/ PingFails \/ ReaderReads \/ ReadFails
      BY <1>4, Zenon DEF RegisterRelay, OpenTimeout, StreamDone, PingFails, ReaderReads, ReadFails
<1>5. CASE ReaderGoesOn \/ PumpStep \/ CooldownExpires
      BY <1>5, Zenon DEF ReaderGoesOn, ReaderSends, ReaderCloses, PumpStep, PumpReads,
            PumpEnqueue, PumpDrop, PumpEnqueue2, CooldownExpires
<1>6. CASE PreemptBegin \/ PreemptStep
      BY <1>6, Zenon DEF PreemptBegin, PreemptStep, PreemptEnqueue, PreemptDrop, PreemptEnqueue2
<1>7. CASE AgentReceives \/ AgentAnswers \/ AgentSendsData \/ AgentCloses \/ ConnBack
      BY <1>7, Zenon DEF AgentReceives, AgentAnswers, AgentSendsData, AgentCloses, ConnBack
<1>8. CASE UNCHANGED vars
      BY <1>8, Zenon DEF vars
<1> QED BY <1>1, <1>2, <1>3, <1>4, <1>5, <1>6, <1>7, <1>8, Zenon DEF Next

\* Types, the capacities of the queues among them.
THEOREM RelayTypeCorrect == Spec => []TypeOK
<1>1. Init => FlagTypeOK
      BY Zenon DEF Init, FlagTypeOK
<1>2. Init => CountTypeOK
      BY BoundAssumption DEF Init, CountTypeOK
<1>3. RelayInv /\ FlagTypeOK /\ CountTypeOK => TypeOK
  <2> SUFFICES ASSUME RelayInv, FlagTypeOK, CountTypeOK PROVE TypeOK
      OBVIOUS
  <2>1. /\ Len(relayCh) <= ChCap /\ \A i \in 1..Len(relayCh) : relayCh[i] \in Message
        /\ Len(pending) <= MaxPending /\ \A i \in 1..Len(pending) : pending[i] \in Message
        /\ Len(fromAgent) <= WireCap /\ \A i \in 1..Len(fromAgent) : fromAgent[i] \in Message
        /\ Len(toAgent) <= SendCap
        /\ \A i \in 1..Len(toAgent) : toAgent[i] \in {"open", "data", "close"}
        BY DEF RelayInv, QueueInv
  <2>2. /\ pump \in [at: {"reading"}] \cup [at: {"enqueue", "drop", "enqueue2"}, msg: Message]
        /\ nextData \in 1 .. MaxData /\ clientLast \in 0 .. MaxData
        BY DEF RelayInv, QueueInv, Pumps
  <2> QED BY <2>1, <2>2, Zenon DEF RelayInv, PhaseInv, FlagTypeOK, CountTypeOK, TypeOK
<1> QED BY <1>1, <1>2, <1>3, RelayInvariant, FlagNext, CountNext, PTL DEF Spec

\* Whoever ends an established stream first, the agent is told before the end: the
\* deferred closeRelay of the handler and of the reader (relay.go, closeOnce).
THEOREM StreamEndIsAnnounced == Spec => []EndIsAnnounced
<1>1. RelayInv => EndIsAnnounced
      BY DEF RelayInv, PhaseInv
<1> QED BY <1>1, RelayInvariant, PTL

\* Neither the drops in relayCh nor the messages set aside before the acknowledgement
\* reorder the agent's data (deliverRelay, preemptRelaysForSession, sendToClient).
THEOREM ClientSeesAgentOrder == Spec => ClientSeesOrder
<1>1. RelayInv /\ [Next]_vars => [clientLast' # clientLast => clientLast' > clientLast]_vars
  <2> SUFFICES ASSUME RelayInv, Next, clientLast' # clientLast PROVE clientLast' > clientLast
      BY DEF vars
  <2>1. ASSUME NEW m \in Message, sendToClient(m), AllBefore(last, <<m>>)
        PROVE  clientLast' > clientLast
    <3>1. m.type = "data" /\ clientLast' = m.n
          BY <2>1 DEF sendToClient
    <3>2. Before(Data(clientLast), m)
          BY <2>1, One DEF AllBefore, last
    <3>3. clientLast \in Nat /\ m.n \in Nat
          BY <3>1 DEF RelayInv, QueueInv, Message
    <3> QED BY <3>1, <3>2, <3>3 DEF Before, Data
  <2>2. CASE DrainPending
    <3>1. pending \in Seq(Message) /\ pending # << >> /\ sendToClient(Head(pending))
          BY <2>2, SMTT(30) DEF DrainPending, RelayInv, QueueInv
    <3>2. Head(pending) \in Message /\ AllBefore(last, <<Head(pending)>>)
          BY <3>1, HeadTail, BeforeTail DEF RelayInv, OrderInv
    <3> QED BY <3>1, <3>2, <2>1
  <2>3. CASE StreamReceive
    <3>1. relayCh \in Seq(Message) /\ relayCh # << >> /\ sendToClient(Head(relayCh))
          BY <2>3, SMTT(30) DEF StreamReceive, RelayInv, QueueInv
    <3>2. Head(relayCh) \in Message /\ AllBefore(last, <<Head(relayCh)>>)
          BY <3>1, HeadTail, BeforeTail, SMTT(30) DEF RelayInv, OrderInv
    <3> QED BY <3>1, <3>2, <2>1
  <2>4. DrainPending \/ StreamReceive
    <3>1. CASE HandlerGoesOn \/ RegisterRelay \/ OpenTimeout \/ StreamDone \/ PingFails
          BY <3>1, Zenon DEF HandlerGoesOn, SendOpen, OpenReceive, StartStreaming, HandlerCloses,
              UnregisterRelay, HangUp, RegisterRelay, OpenTimeout, StreamDone, PingFails
    <3>2. CASE ReaderReads \/ ReadFails \/ ReaderGoesOn \/ PumpStep \/ CooldownExpires
          BY <3>2, Zenon DEF ReaderReads, ReadFails, ReaderGoesOn, ReaderSends, ReaderCloses,
              PumpStep, PumpReads, PumpEnqueue, PumpDrop, PumpEnqueue2, CooldownExpires,
              handlerVars
    <3>3. CASE PreemptBegin \/ PreemptStep
          BY <3>3, Zenon DEF PreemptBegin, PreemptStep, PreemptEnqueue, PreemptDrop,
              PreemptEnqueue2, handlerVars
    <3>4. CASE AgentReceives \/ AgentAnswers \/ AgentSendsData \/ AgentCloses \/ ConnLost \/ ConnBack
          BY <3>4, Zenon DEF AgentReceives, AgentAnswers, AgentSendsData, AgentCloses, ConnLost,
              ConnBack, handlerVars
    <3> QED BY <3>1, <3>2, <3>3, <3>4, Zenon DEF Next
  <2> QED BY <2>2, <2>3, <2>4
<1> QED BY <1>1, RelayInvariant, PTL DEF Spec, ClientSeesOrder
=============================================================================
