----------------------- MODULE CommandExchangeProofs -----------------------
(***************************************************************************)
(* The safety of the command exchange for any number of requests and       *)
(* connections and every queue capacity.                                   *)
(*                                                                         *)
(* The invariants the runs check are not inductive.  What ties them        *)
(* together is how far a request can have travelled: before it is queued   *)
(* nobody knows it (Unsent), and an id is in the table, or carried by one  *)
(* read pump, or in its channel, never in two of these (Answering).        *)
(***************************************************************************)
EXTENDS CommandExchange, TLAPS

\* A request that was not queued is nowhere, and its entry awaits the response.
Unsent ==
    \A q \in Requests :
        /\ caller[q] \in {"idle", "looking", "enqueueing", "failing", "no channel"}
              => q \notin received /\ \A c \in Conns : ~Contains(queue[c], q)
        /\ caller[q] \in {"looking", "enqueueing"} => q \in pending
        /\ caller[q] = "enqueueing" => target[q] \in Conns

\* Responses exist only for received requests, and one that is being delivered
\* or was delivered is no longer in the table.
Answering ==
    /\ \A c \in Conns : replies[c] \subseteq received
    /\ \A c \in Conns : delivering[c] # NoRequest =>
          delivering[c] \in received /\ delivering[c] \notin pending
    /\ \A q \in Requests : response[q] => q \in received /\ q \notin pending

\* The inductive invariant.
IInv ==
    /\ TypeOK
    /\ NoPendingLeak
    /\ WaiterIsReachable
    /\ DeliveredOnce
    /\ AnswerMeansReceived
    /\ Unsent
    /\ Answering

\* The members of a queue after a message was appended.
LEMMA AppendContains ==
    ASSUME NEW S, NEW s \in Seq(S), NEW e \in S, NEW x,
           Contains(Append(s, e), x)
    PROVE  Contains(s, x) \/ x = e
BY DEF Contains

\* The write pump takes members of the queue only.
LEMMA TailContains ==
    ASSUME NEW S, NEW s \in Seq(S), s # <<>>, NEW x,
           Contains(Tail(s), x) \/ x = Head(s)
    PROVE  Contains(s, x)
BY DEF Contains

\* The invariant holds before the first connection and the first call.
LEMMA InitIInv == Init => IInv
BY NoConnAssumption, NoRequestAssumption, SMTT(30)
DEF Init, ChannelInit, IInv, TypeOK, ChannelTypeOK, Link, CallerPhase, Outcome,
    NoPendingLeak, WaiterIsReachable, DeliveredOnce, AnswerMeansReceived,
    Unsent, Answering, Contains

\* Every step keeps the types.
LEMMA NextTypeOK == TypeOK /\ Unsent /\ [Next]_vars => TypeOK'
<1> SUFFICES ASSUME TypeOK, Unsent, [Next]_vars PROVE TypeOK'
    OBVIOUS
<1> USE DEF TypeOK, ChannelTypeOK, Link, agentVars
<1>1. ASSUME NEW q \in Requests, Begin(q) PROVE TypeOK'
    BY <1>1, Zenon DEF Begin, CallerPhase, Outcome
<1>2. ASSUME NEW q \in Requests, Lookup(q) PROVE TypeOK'
    BY <1>2, Zenon DEF Lookup, CallerPhase, Outcome
<1>3. ASSUME NEW q \in Requests, Enqueue(q) PROVE TypeOK'
  <2>1. target[q] \in Conns
    BY <1>3, Zenon DEF Enqueue, Unsent
  <2>2. Append(queue[target[q]], q) \in Seq(Requests)
    BY <2>1
  <2>3. queue' \in [Conns -> Seq(Requests)]
    BY <1>3, <2>2, Zenon DEF Enqueue
  <2>4. caller' \in [Requests -> CallerPhase]
    <3>1. \/ caller' = [caller EXCEPT ![q] = "waiting"]
          \/ caller' = [caller EXCEPT ![q] = "failing"]
      BY <1>3 DEF Enqueue
    <3>2. {"waiting", "failing"} \subseteq CallerPhase
      BY DEF CallerPhase
    <3>3. caller \in [Requests -> CallerPhase]
      OBVIOUS
    <3> QED
      BY <3>1, <3>2, <3>3, ZenonT(30)
  <2> QED
    BY <1>3, <2>3, <2>4, SMTT(30) DEF Enqueue
<1>4. ASSUME NEW q \in Requests, Fail(q) PROVE TypeOK'
    BY <1>4, Zenon DEF Fail, CallerPhase, Outcome
<1>5. ASSUME NEW q \in Requests, TakeResponse(q) PROVE TypeOK'
    BY <1>5, Zenon DEF TakeResponse, CallerPhase, Outcome
<1>6. ASSUME NEW q \in Requests, TimerFires(q) PROVE TypeOK'
    BY <1>6, Zenon DEF TimerFires, CallerPhase, Outcome
<1>7. ASSUME NEW q \in Requests, Withdraw(q) PROVE TypeOK'
    BY <1>7, Zenon DEF Withdraw, CallerPhase, Outcome
<1>8. ASSUME NEW c \in Conns, Write(c) PROVE TypeOK'
  <2>1. Tail(queue[c]) \in Seq(Requests) /\ Head(queue[c]) \in Requests
    BY <1>8 DEF Write
  <2>2. queue' \in [Conns -> Seq(Requests)]
    BY <1>8, <2>1, SMTT(30) DEF Write
  <2>3. received' \subseteq Requests /\ link' \in [Conns -> Link]
    BY <1>8, <2>1, Zenon DEF Write
  <2> QED
    BY <1>8, <2>2, <2>3, SMTT(30) DEF Write
<1>9. ASSUME NEW c \in Conns, NEW q \in Requests, AgentReplies(c, q)
      PROVE  TypeOK'
    BY <1>9 DEF AgentReplies
<1>10. ASSUME NEW c \in Conns, NEW q \in Requests, ReadResponse(c, q) PROVE TypeOK'
    BY <1>10 DEF ReadResponse
<1>11. ASSUME NEW c \in Conns, PutResponse(c) PROVE TypeOK'
    BY <1>11 DEF PutResponse
<1>12. CASE ChannelStep
    BY <1>12, Zenon DEF ChannelStep, Attach, Refuse, Break, Detach
<1>13. CASE UNCHANGED vars
    BY <1>13 DEF vars
<1> QED
    BY <1>1, <1>2, <1>3, <1>4, <1>5, <1>6, <1>7, <1>8, <1>9, <1>10, <1>11,
       <1>12, <1>13, ZenonT(30)
    DEF Next, CallerStep

\* Every step of the callers, the pumps, the agent and the connections keeps the
\* invariant.  The conjuncts that a step cannot disturb are left to its QED.
LEMMA NextIInv == IInv /\ [Next]_vars => IInv'
<1> SUFFICES ASSUME IInv, [Next]_vars PROVE IInv'
    OBVIOUS
<1>0. TypeOK'
    BY NextTypeOK DEF IInv
<1> USE NoRequestAssumption DEF IInv
<1>1. ASSUME NEW q \in Requests, Begin(q) PROVE IInv'
  <2>1. NoPendingLeak'
    <3> SUFFICES ASSUME NEW r \in pending'
                 PROVE  ~Returned(r)' /\ caller'[r] # "idle"
      BY DEF NoPendingLeak
    <3>1. CASE r = q
      BY <1>1, <3>1, SMTT(30) DEF Begin, TypeOK, Returned, Outcome
    <3>2. CASE r # q
      <4>1. r \in pending /\ caller'[r] = caller[r]
        BY <1>1, <3>2, SMTT(30) DEF Begin, TypeOK
      <4> QED
        BY <4>1 DEF NoPendingLeak, Returned
    <3> QED
      BY <3>1, <3>2
  <2>2. WaiterIsReachable'
    BY <1>1 DEF Begin, agentVars, TypeOK, WaiterIsReachable
  <2>3. DeliveredOnce'
    BY <1>1, Zenon DEF Begin, agentVars, TypeOK, DeliveredOnce, Unsent, Answering
  <2>4. AnswerMeansReceived'
    BY <1>1 DEF Begin, agentVars, TypeOK, AnswerMeansReceived
  <2>5. Unsent'
    BY <1>1, Zenon DEF Begin, agentVars, TypeOK, Unsent
  <2>6. Answering'
    BY <1>1, Zenon DEF Begin, agentVars, TypeOK, Answering, Unsent
  <2> QED
    BY <1>0, <1>1, <2>1, <2>2, <2>3, <2>4, <2>5, <2>6, SMTT(30)
<1>2. ASSUME NEW q \in Requests, Lookup(q) PROVE IInv'
  <2>1. NoPendingLeak'
    BY <1>2, Zenon DEF Lookup, agentVars, TypeOK, NoPendingLeak, Returned, Outcome
  <2>2. WaiterIsReachable'
    BY <1>2 DEF Lookup, agentVars, TypeOK, WaiterIsReachable
  <2>3. DeliveredOnce'
    BY <1>2 DEF Lookup, agentVars, TypeOK, DeliveredOnce
  <2>4. AnswerMeansReceived'
    BY <1>2 DEF Lookup, agentVars, TypeOK, AnswerMeansReceived
  <2>5. Unsent'
    BY <1>2, Zenon DEF Lookup, agentVars, TypeOK, ChannelTypeOK, Unsent
  <2> QED
    BY <1>0, <1>2, <2>1, <2>2, <2>3, <2>4, <2>5, SMTT(30)
    DEF Lookup, agentVars, Answering
<1>3. ASSUME NEW q \in Requests, Enqueue(q) PROVE IInv'
  <2>1. \A c \in Conns, x \in Requests :
           Contains(queue'[c], x) =>
               Contains(queue[c], x) \/ (x = q /\ caller'[q] = "waiting")
    <3>1. target[q] \in Conns /\ queue[target[q]] \in Seq(Requests)
      BY <1>3, Zenon DEF Enqueue, TypeOK, Unsent
    <3>2. \A x : Contains(Append(queue[target[q]], q), x) =>
                    Contains(queue[target[q]], x) \/ x = q
      BY <3>1, AppendContains
    <3>3. CASE Len(queue[target[q]]) < QueueCap
      <4>1. /\ queue' = [queue EXCEPT ![target[q]] = Append(@, q)]
            /\ caller'[q] = "waiting"
        BY <1>3, <3>3, SMTT(30) DEF Enqueue, TypeOK
      <4>2. \A c \in Conns :
               queue'[c] = IF c = target[q] THEN Append(queue[target[q]], q)
                           ELSE queue[c]
        BY <3>1, <4>1 DEF TypeOK
      <4> QED
        BY <3>2, <4>1, <4>2, SMTT(30)
    <3>4. CASE ~(Len(queue[target[q]]) < QueueCap)
      <4>1. queue' = queue
        BY <1>3, <3>4, SMTT(30) DEF Enqueue
      <4>2. ASSUME NEW c \in Conns, NEW x \in Requests, Contains(queue'[c], x)
            PROVE  Contains(queue[c], x)
        BY <4>1, <4>2, SMTT(30)
      <4> QED
        BY <4>2
    <3> QED
      BY <3>3, <3>4
  <2>2. NoPendingLeak'
    BY <1>3, ZenonT(30) DEF Enqueue, agentVars, TypeOK, NoPendingLeak, Returned, Outcome
  <2>3. WaiterIsReachable'
    BY <1>3, Zenon DEF Enqueue, agentVars, TypeOK, WaiterIsReachable, Unsent
  <2>4. DeliveredOnce'
    BY <1>3 DEF Enqueue, agentVars, TypeOK, DeliveredOnce
  <2>5. AnswerMeansReceived'
    BY <1>3 DEF Enqueue, agentVars, TypeOK, AnswerMeansReceived
  <2>6. Unsent'
    <3>1. /\ caller' = [caller EXCEPT ![q] = caller'[q]]
          /\ caller'[q] \in {"waiting", "failing"}
          /\ UNCHANGED <<received, pending, target>>
      BY <1>3 DEF Enqueue, agentVars, TypeOK
    <3> QED
      BY <1>3, <2>1, <3>1, ZenonT(30) DEF Enqueue, TypeOK, Unsent
  <2> QED
    BY <1>0, <1>3, <2>2, <2>3, <2>4, <2>5, <2>6, SMTT(30)
    DEF Enqueue, agentVars, Answering
<1>4. ASSUME NEW q \in Requests, Fail(q) PROVE IInv'
  <2>1. NoPendingLeak'
    BY <1>4, Zenon DEF Fail, agentVars, TypeOK, NoPendingLeak, Returned, Outcome
  <2>2. WaiterIsReachable'
    BY <1>4, Zenon DEF Fail, agentVars, TypeOK, WaiterIsReachable
  <2>3. DeliveredOnce'
    BY <1>4, Zenon DEF Fail, agentVars, TypeOK, DeliveredOnce
  <2>4. AnswerMeansReceived'
    BY <1>4, Zenon DEF Fail, agentVars, TypeOK, AnswerMeansReceived
  <2>5. Unsent'
    BY <1>4, Zenon DEF Fail, agentVars, TypeOK, Unsent
  <2>6. Answering'
    BY <1>4, Zenon DEF Fail, agentVars, TypeOK, Answering
  <2> QED
    BY <1>0, <1>4, <2>1, <2>2, <2>3, <2>4, <2>5, <2>6, SMTT(30)
<1>5. ASSUME NEW q \in Requests, TakeResponse(q) PROVE IInv'
  <2>1. NoPendingLeak'
    BY <1>5, Zenon DEF TakeResponse, agentVars, TypeOK, NoPendingLeak, Returned, Outcome, Answering
  <2>2. WaiterIsReachable'
    BY <1>5 DEF TakeResponse, agentVars, TypeOK, WaiterIsReachable
  <2>3. DeliveredOnce'
    BY <1>5 DEF TakeResponse, agentVars, TypeOK, DeliveredOnce
  <2>4. AnswerMeansReceived'
    BY <1>5 DEF TakeResponse, agentVars, TypeOK, AnswerMeansReceived, Answering
  <2>5. Unsent'
    BY <1>5, Zenon DEF TakeResponse, agentVars, TypeOK, Unsent
  <2>6. Answering'
    BY <1>5 DEF TakeResponse, agentVars, TypeOK, Answering
  <2> QED
    BY <1>0, <1>5, <2>1, <2>2, <2>3, <2>4, <2>5, <2>6, SMTT(30)
<1>6. ASSUME NEW q \in Requests, TimerFires(q) PROVE IInv'
  <2>1. NoPendingLeak'
    BY <1>6, Zenon DEF TimerFires, agentVars, TypeOK, NoPendingLeak, Returned, Outcome
  <2>2. WaiterIsReachable'
    BY <1>6 DEF TimerFires, agentVars, TypeOK, WaiterIsReachable
  <2>3. DeliveredOnce'
    BY <1>6 DEF TimerFires, agentVars, TypeOK, DeliveredOnce
  <2>4. AnswerMeansReceived'
    BY <1>6 DEF TimerFires, agentVars, TypeOK, AnswerMeansReceived
  <2>5. Unsent'
    BY <1>6, Zenon DEF TimerFires, agentVars, TypeOK, Unsent
  <2> QED
    BY <1>0, <1>6, <2>1, <2>2, <2>3, <2>4, <2>5, SMTT(30)
    DEF TimerFires, agentVars, Answering
<1>7. ASSUME NEW q \in Requests, Withdraw(q) PROVE IInv'
  <2>1. NoPendingLeak'
    BY <1>7, Zenon DEF Withdraw, agentVars, TypeOK, NoPendingLeak, Returned, Outcome
  <2>2. WaiterIsReachable'
    BY <1>7 DEF Withdraw, agentVars, TypeOK, WaiterIsReachable
  <2>3. DeliveredOnce'
    BY <1>7 DEF Withdraw, agentVars, TypeOK, DeliveredOnce
  <2>4. AnswerMeansReceived'
    BY <1>7 DEF Withdraw, agentVars, TypeOK, AnswerMeansReceived
  <2>5. Unsent'
    BY <1>7, Zenon DEF Withdraw, agentVars, TypeOK, Unsent
  <2>6. Answering'
    BY <1>7 DEF Withdraw, agentVars, TypeOK, Answering
  <2> QED
    BY <1>0, <1>7, <2>1, <2>2, <2>3, <2>4, <2>5, <2>6, SMTT(30)
<1>8. ASSUME NEW c \in Conns, Write(c) PROVE IInv'
  <2>1. Head(queue[c]) \in Requests /\ Contains(queue[c], Head(queue[c]))
    BY <1>8, TailContains DEF Write, TypeOK
  <2>2. \A d \in Conns, x \in Requests :
           Contains(queue'[d], x) => Contains(queue[d], x)
    BY <1>8, TailContains, SMTT(30) DEF Write, TypeOK
  <2>3. AnswerMeansReceived'
    BY <1>8 DEF Write, agentVars, TypeOK, AnswerMeansReceived
  <2>4. Unsent'
    BY <1>8, <2>1, <2>2, Zenon DEF Write, agentVars, TypeOK, Unsent
  <2>5. Answering'
    BY <1>8 DEF Write, agentVars, TypeOK, Answering
  <2> QED
    BY <1>0, <1>8, <2>3, <2>4, <2>5, ZenonT(30)
    DEF Write, agentVars, NoPendingLeak, Returned, Outcome, WaiterIsReachable, DeliveredOnce
<1>9. ASSUME NEW c \in Conns, NEW q \in Requests, AgentReplies(c, q) PROVE IInv'
  <2>1. Answering'
    BY <1>9 DEF AgentReplies, agentVars, TypeOK, Answering
  <2> QED
    BY <1>0, <1>9, <2>1, Zenon
    DEF AgentReplies, agentVars, NoPendingLeak, Returned, Outcome, WaiterIsReachable, DeliveredOnce, AnswerMeansReceived, Unsent
<1>10. ASSUME NEW c \in Conns, NEW q \in Requests, ReadResponse(c, q) PROVE IInv'
  <2>1. NoPendingLeak'
    BY <1>10, Zenon DEF ReadResponse, agentVars, TypeOK, NoPendingLeak, Returned, Outcome
  <2>2. WaiterIsReachable'
    BY <1>10 DEF ReadResponse, agentVars, TypeOK, WaiterIsReachable
  <2>3. DeliveredOnce'
    <3>1. UNCHANGED <<response, caller>>
      BY <1>10 DEF ReadResponse
    <3>2. CASE q \notin pending
      <4>1. delivering' = delivering
        BY <1>10, <3>2, SMTT(30) DEF ReadResponse, TypeOK
      <4> QED
        BY <3>1, <4>1, SMTT(30) DEF DeliveredOnce
    <3>3. CASE q \in pending
      <4>1. delivering'[c] = q /\ \A d \in Conns \ {c} : delivering'[d] = delivering[d]
        BY <1>10, <3>3, SMTT(30) DEF ReadResponse, TypeOK
      <4>2. ~response[q] /\ \A d \in Conns : delivering[d] # q
        BY <3>3 DEF Answering, TypeOK
      <4>3. caller[q] # "answered"
        BY <3>3, Zenon DEF NoPendingLeak, Returned, Outcome
      <4> QED
        BY <3>1, <4>1, <4>2, <4>3, SMTT(30) DEF DeliveredOnce
    <3> QED
      BY <3>2, <3>3
  <2>4. Unsent'
    BY <1>10, Zenon DEF ReadResponse, agentVars, TypeOK, Unsent, Answering
  <2>5. Answering'
    BY <1>10 DEF ReadResponse, agentVars, TypeOK, Answering
  <2> QED
    BY <1>0, <1>10, <2>1, <2>2, <2>3, <2>4, <2>5, SMTT(30)
    DEF ReadResponse, agentVars, AnswerMeansReceived
<1>11. ASSUME NEW c \in Conns, PutResponse(c) PROVE IInv'
  <2>1. WaiterIsReachable'
    BY <1>11 DEF PutResponse, agentVars, TypeOK, WaiterIsReachable
  <2>2. DeliveredOnce'
    BY <1>11 DEF PutResponse, agentVars, TypeOK, DeliveredOnce
  <2>3. Answering'
    BY <1>11 DEF PutResponse, agentVars, TypeOK, Answering
  <2> QED
    BY <1>0, <1>11, <2>1, <2>2, <2>3, ZenonT(30)
    DEF PutResponse, agentVars, NoPendingLeak, Returned, Outcome, AnswerMeansReceived, Unsent
<1>12. CASE ChannelStep
  <2> QED
    BY <1>0, <1>12, Zenon
    DEF ChannelStep, agentVars, NoPendingLeak, Returned, Outcome, WaiterIsReachable, DeliveredOnce, AnswerMeansReceived, Unsent, Answering
<1>13. CASE UNCHANGED vars
    BY <1>13, Zenon DEF vars, TypeOK, ChannelTypeOK, NoPendingLeak, Returned,
       WaiterIsReachable, DeliveredOnce, AnswerMeansReceived, Unsent, Answering
<1> QED
    BY <1>1, <1>2, <1>3, <1>4, <1>5, <1>6, <1>7, <1>8, <1>9, <1>10, <1>11,
       <1>12, <1>13, ZenonT(30)
    DEF Next, CallerStep

\* The inductive invariant holds in every reachable state.
LEMMA Invariance == Spec => []IInv
BY InitIInv, NextIInv, PTL DEF Spec

\* For every number of requests and connections, and every queue capacity, the
\* pending table only holds calls that have not returned.
THEOREM NoLeakCorrect == Spec => [](TypeOK /\ NoPendingLeak)
<1>1. IInv => TypeOK /\ NoPendingLeak
    BY DEF IInv
<1> QED
    BY <1>1, Invariance, PTL

\* A waiting call stays reachable for its response, and no response is put in a
\* channel twice, however often and on however many connections the agent
\* answers.
THEOREM DeliveryCorrect == Spec => [](WaiterIsReachable /\ DeliveredOnce)
<1>1. IInv => WaiterIsReachable /\ DeliveredOnce
    BY DEF IInv
<1> QED
    BY <1>1, Invariance, PTL

\* What a caller is told is true: after "no active control channel" the request
\* never left, and a response means that the agent had the request.
THEOREM OutcomeCorrect == Spec => [](FailureMeansNotSent /\ AnswerMeansReceived)
<1>1. IInv => FailureMeansNotSent /\ AnswerMeansReceived
    BY Zenon DEF IInv, Unsent, FailureMeansNotSent
<1> QED
    BY <1>1, Invariance, PTL
=============================================================================
