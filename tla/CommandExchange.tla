--------------------------- MODULE CommandExchange ---------------------------
(***************************************************************************)
(* Commands and status queries to one robot (SendCommand, SendStatusQuery, *)
(* Send and deliverResponse in go/relay/relay.go), over the connections    *)
(* that ControlChannel describes.                                          *)
(*                                                                         *)
(* A request is one call of SendCommand or SendStatusQuery with its fresh  *)
(* request id; the two differ only in the message they build, so one set   *)
(* of actions models both.  caller[q] says where the calling goroutine is; *)
(* every locked section, channel operation and timer is a step.            *)
(*                                                                         *)
(* The agent is external: it may answer a request it received never, once  *)
(* or again and again, on whichever of its connections is open.  Other     *)
(* users of Send compete for the slots of a connection's queue; a smaller  *)
(* QueueCap stands for them.                                               *)
(***************************************************************************)
EXTENDS ControlChannel, Naturals, Sequences, SequencesExt

CONSTANTS
    Requests,  \* request ids
    NoRequest, \* no response is being delivered
    QueueCap   \* capacity of conn.send, 256 in the code

ASSUME NoRequestAssumption == NoRequest \notin Requests
ASSUME QueueCapAssumption == QueueCap \in Nat \ {0}

VARIABLES
    caller,     \* where the call is
    target,     \* the connection Send read from the hub
    pending,    \* the request ids in h.pending
    response,   \* respCh of the request holds a response
    queue,      \* conn.send of every connection
    received,   \* requests the agent has received
    replies,    \* responses on their way to the read pump of a connection
    delivering  \* the response a read pump took out of pending and has yet to
                \* put in its channel

vars == <<hub, link, caller, target, pending, response, queue, received,
          replies, delivering>>

agentVars == <<received, replies>>

Outcome == {"answered", "no channel", "timeout"}

CallerPhase == {"idle", "looking", "enqueueing", "failing", "waiting",
                "expired"} \cup Outcome

TypeOK ==
    /\ ChannelTypeOK
    /\ caller \in [Requests -> CallerPhase]
    /\ target \in [Requests -> Conns \cup {NoConn}]
    /\ pending \subseteq Requests
    /\ response \in [Requests -> BOOLEAN]
    /\ queue \in [Conns -> Seq(Requests)]
    /\ received \subseteq Requests
    /\ replies \in [Conns -> SUBSET Requests]
    /\ delivering \in [Conns -> Requests \cup {NoRequest}]

Init ==
    /\ ChannelInit
    /\ caller = [q \in Requests |-> "idle"]
    /\ target = [q \in Requests |-> NoConn]
    /\ pending = {}
    /\ response = [q \in Requests |-> FALSE]
    /\ queue = [c \in Conns |-> <<>>]
    /\ received = {}
    /\ replies = [c \in Conns |-> {}]
    /\ delivering = [c \in Conns |-> NoRequest]

-----------------------------------------------------------------------------
\* The call makes its response channel and enters it under its request id.
Begin(q) ==
    /\ caller[q] = "idle"
    /\ caller' = [caller EXCEPT ![q] = "looking"]
    /\ pending' = pending \cup {q}
    /\ UNCHANGED <<hub, link, target, response, queue, agentVars, delivering>>

\* Send reads the connection under h.mu.
Lookup(q) ==
    /\ caller[q] = "looking"
    /\ target' = [target EXCEPT ![q] = hub]
    /\ caller' = [caller EXCEPT ![q] = IF hub = NoConn THEN "failing"
                                       ELSE "enqueueing"]
    /\ UNCHANGED <<hub, link, pending, response, queue, agentVars, delivering>>

\* Mutation: the message is queued before the queue is found to be full.
Enqueue_FailsAfterSending(q) ==
    /\ caller[q] = "enqueueing"
    /\ caller' = [caller EXCEPT ![q] =
                     IF Len(queue[target[q]]) < QueueCap THEN "waiting"
                     ELSE "failing"]
    /\ queue' = [queue EXCEPT ![target[q]] = Append(@, q)]
    /\ UNCHANGED <<hub, link, target, pending, response, agentVars, delivering>>

\* Send queues the message, after the mutex was released, unless the queue is
\* full; the connection may have been replaced or closed meanwhile.
Enqueue(q) ==
    /\ caller[q] = "enqueueing"
    /\ IF Len(queue[target[q]]) < QueueCap
       THEN /\ caller' = [caller EXCEPT ![q] = "waiting"]
            /\ queue' = [queue EXCEPT ![target[q]] = Append(@, q)]
       ELSE /\ caller' = [caller EXCEPT ![q] = "failing"]
            /\ UNCHANGED queue
    /\ UNCHANGED <<hub, link, target, pending, response, agentVars, delivering>>

\* Send reported false: the entry is withdrawn and the call fails.
Fail(q) ==
    /\ caller[q] = "failing"
    /\ caller' = [caller EXCEPT ![q] = "no channel"]
    /\ pending' = pending \ {q}
    /\ UNCHANGED <<hub, link, target, response, queue, agentVars, delivering>>

\* The select takes the response.
TakeResponse(q) ==
    /\ caller[q] = "waiting"
    /\ response[q]
    /\ caller' = [caller EXCEPT ![q] = "answered"]
    /\ response' = [response EXCEPT ![q] = FALSE]
    /\ UNCHANGED <<hub, link, target, pending, queue, agentVars, delivering>>

\* Mutation: the call waits as long as its connection is open.
TimerFires_OnlyWhenDown(q) ==
    /\ caller[q] = "waiting"
    /\ link[target[q]] # "up"
    /\ caller' = [caller EXCEPT ![q] = "expired"]
    /\ UNCHANGED <<hub, link, target, pending, response, queue, agentVars,
                   delivering>>

\* The select takes the timer; a response may be there as well.
TimerFires(q) ==
    /\ caller[q] = "waiting"
    /\ caller' = [caller EXCEPT ![q] = "expired"]
    /\ UNCHANGED <<hub, link, target, pending, response, queue, agentVars,
                   delivering>>

\* Mutation: the timed-out request stays in the table.
Withdraw_LeavesPending(q) ==
    /\ caller[q] = "expired"
    /\ caller' = [caller EXCEPT ![q] = "timeout"]
    /\ UNCHANGED <<hub, link, target, pending, response, queue, agentVars,
                   delivering>>

\* The timed-out call withdraws its entry, if a response has not done so.
Withdraw(q) ==
    /\ caller[q] = "expired"
    /\ caller' = [caller EXCEPT ![q] = "timeout"]
    /\ pending' = pending \ {q}
    /\ UNCHANGED <<hub, link, target, response, queue, agentVars, delivering>>

-----------------------------------------------------------------------------
\* The write pump of an open connection sends the oldest message; it reaches
\* the agent, or the connection breaks first and it is lost.
Write(c) ==
    /\ link[c] = "up"
    /\ queue[c] # <<>>
    /\ queue' = [queue EXCEPT ![c] = Tail(@)]
    /\ \/ received' = received \cup {Head(queue[c])} /\ UNCHANGED link
       \/ link' = [link EXCEPT ![c] = "down"] /\ UNCHANGED received
    /\ UNCHANGED <<hub, caller, target, pending, response, replies, delivering>>

\* The agent answers a request it received, on an open connection.
AgentReplies(c, q) ==
    /\ link[c] = "up"
    /\ q \in received
    /\ replies' = [replies EXCEPT ![c] = @ \cup {q}]
    /\ UNCHANGED <<hub, link, caller, target, pending, response, queue, received,
                   delivering>>

\* Mutation: the entry is looked up but not deleted.
ReadResponse_KeepsEntry(c, q) ==
    /\ link[c] \in {"up", "down"}
    /\ delivering[c] = NoRequest
    /\ q \in replies[c]
    /\ replies' = [replies EXCEPT ![c] = @ \ {q}]
    /\ delivering' = [delivering EXCEPT ![c] = IF q \in pending THEN q ELSE @]
    /\ UNCHANGED <<hub, link, caller, target, pending, response, queue, received>>

\* The read pump gets a response.  deliverResponse takes the entry out of the
\* table under pendingMu; without an entry the response is dropped.
ReadResponse(c, q) ==
    /\ link[c] \in {"up", "down"}
    /\ delivering[c] = NoRequest
    /\ q \in replies[c]
    /\ replies' = [replies EXCEPT ![c] = @ \ {q}]
    /\ pending' = pending \ {q}
    /\ delivering' = [delivering EXCEPT ![c] = IF q \in pending THEN q ELSE @]
    /\ UNCHANGED <<hub, link, caller, target, response, queue, received>>

\* ... and puts the response in the channel, unless that is full already.
PutResponse(c) ==
    /\ delivering[c] # NoRequest
    /\ response' = [response EXCEPT ![delivering[c]] = TRUE]
    /\ delivering' = [delivering EXCEPT ![c] = NoRequest]
    /\ UNCHANGED <<hub, link, caller, target, pending, queue, agentVars>>

\* The life of the connections.  A read pump that is delivering has not
\* returned, so its connection is not unregistered yet.
ChannelStep ==
    /\ \E c \in Conns :
          \/ Attach(c) \/ Refuse(c) \/ Break(c)
          \/ Detach(c) /\ delivering[c] = NoRequest
    /\ UNCHANGED <<caller, target, pending, response, queue, agentVars,
                   delivering>>

CallerStep(q) ==
    \/ Lookup(q) \/ Enqueue(q) \/ Fail(q)
    \/ TakeResponse(q) \/ TimerFires(q) \/ Withdraw(q)

Next ==
    \/ \E q \in Requests : Begin(q) \/ CallerStep(q)
    \/ \E c \in Conns : \/ Write(c) \/ PutResponse(c)
                        \/ \E q \in Requests : AgentReplies(c, q)
                                               \/ ReadResponse(c, q)
    \/ ChannelStep

\* A call that was begun goes on: its locked sections are short and its timer
\* fires.  Nothing is asked of the agent, the pumps or the network.
Fairness == \A q \in Requests : WF_vars(CallerStep(q))

Spec == Init /\ [][Next]_vars /\ Fairness

-----------------------------------------------------------------------------
Returned(q) == caller[q] \in Outcome

\* A call that has returned, by whichever of its three ways, has left nothing
\* in the pending table, and neither has one that was not made: the table does
\* not grow with timeouts or failures (the three deletes of h.pending).
NoPendingLeak ==
    \A q \in pending : ~Returned(q) /\ caller[q] # "idle"

\* A waiting call can still be answered: its id is in the table, or a read pump
\* has taken it and carries the response, or the response is in its channel.
\* No response is lost between the delete under pendingMu and the send.
WaiterIsReachable ==
    \A q \in Requests :
        caller[q] = "waiting" =>
            \/ q \in pending
            \/ response[q]
            \/ \E c \in Conns : delivering[c] = q

\* A response is put in a channel at most once, although the agent may answer
\* twice and on two connections: the channel of capacity one is empty when a
\* read pump comes to it, so the default branch of deliverResponse's second
\* select is never taken.
DeliveredOnce ==
    \A c \in Conns :
        LET q == delivering[c]
        IN  q # NoRequest =>
                /\ ~response[q]
                /\ caller[q] # "answered"
                /\ \A d \in Conns \ {c} : delivering[d] # q

\* A caller that is told there is no control channel may safely try again: its
\* request is in no queue and the agent never received it, however the
\* connection changed between the lookup and the enqueue.
FailureMeansNotSent ==
    \A q \in Requests :
        caller[q] \in {"failing", "no channel"} =>
            /\ q \notin received
            /\ \A c \in Conns : ~Contains(queue[c], q)

\* An answer handed to the caller answers its own request: the agent received
\* that request before.
AnswerMeansReceived ==
    \A q \in Requests : caller[q] = "answered" => q \in received

\* Every call returns, whatever the agent and the network do: after Send there
\* is always a response or a timer to wait for.
CallReturns == \A q \in Requests : caller[q] = "looking" ~> Returned(q)
=============================================================================
