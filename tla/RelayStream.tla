---------------------------- MODULE RelayStream ----------------------------
(***************************************************************************)
(* One relayed byte stream between a client and a port on the robot        *)
(* (go/relay/relay.go): the goroutines of handleRelayWS, the read pump of  *)
(* the agent's relay connection with deliverRelay, and the preemption by a *)
(* newer attach session, which all meet in the bounded channel relayCh.    *)
(*                                                                         *)
(* handler is the goroutine of handleRelayWS from RegisterRelay on, reader *)
(* the one it starts for the client's data.  Every operation on a channel, *)
(* a socket or a locked table is a step, so the pump and the preemption    *)
(* may come between each other's failed enqueue, drop and second enqueue.  *)
(*                                                                         *)
(* The agent is external: it accepts or refuses a relay_open, sends data   *)
(* while its stream is open and ends the stream on relay_close.  Its data  *)
(* is numbered, up to MaxData and then always MaxData, so that order can   *)
(* be stated.  The enqueue timestamps and counters serve statistics only   *)
(* and are left out.                                                       *)
(***************************************************************************)
EXTENDS Naturals, Sequences

CONSTANTS
    ChCap,     \* capacity of relayCh, 512 in the code
    SendCap,   \* capacity of the relay connection's send queue, 2048
    WireCap,   \* bound on the messages on their way from the agent
    Budget,    \* relayClientSoftTimeoutBudget
    MaxData,   \* bound on the numbers of data messages
    MaxPending, \* bound on the messages before the acknowledgement
    MaxLosses  \* bound on how often the relay connection is lost

ASSUME BoundAssumption ==
    /\ ChCap \in Nat \ {0}
    /\ SendCap \in Nat \ {0}
    /\ WireCap \in Nat \ {0}
    /\ Budget \in Nat
    /\ MaxData \in Nat \ {0}
    /\ MaxPending \in Nat \ {0}
    /\ MaxLosses \in Nat

VARIABLES
    handler,     \* where handleRelayWS is
    reader,      \* where the client reader goroutine is
    registered,  \* the relay id is in h.relays
    relayCh,     \* the messages queued for the handler
    pending,     \* messages the handler received before the acknowledgement
    streak,      \* consecutiveWriterTimeoutStreak
    closeDone,   \* closeOnce has run: relay_close was sent, done is closed
    up,          \* the agent's relay connection is in the hub
    losses,      \* how often it was lost
    toAgent,     \* its send queue
    fromAgent,   \* messages the agent sent and the pump has not read
    pump,        \* where deliverRelay is, with its message
    preempter,   \* where preemptRelaysForSession is
    recent,      \* relayCloseSentAt is younger than the cooldown
    agent,       \* the agent's end of the stream
    nextData,    \* the number of the agent's next data message
    clientLast   \* the number of the last data the client was sent

handlerVars == <<handler, registered, pending, streak, clientLast>>
agentVars == <<agent, nextData, up, losses>>
vars == <<handler, reader, registered, relayCh, pending, streak, closeDone, up,
          losses, toAgent, fromAgent, pump, preempter, recent, agent, nextData,
          clientLast>>

Message == [type: {"ack", "nak", "close"}, n: {0}]
              \cup [type: {"data"}, n: 0..MaxData]
Msg(t) == [type |-> t, n |-> 0]
Data(n) == [type |-> "data", n |-> n]

TypeOK ==
    /\ handler \in {"start", "registered", "opening", "draining", "streaming",
                    "closing", "leaving", "hangup", "done"}
    /\ reader \in {"off", "reading", "sending", "ending", "ended"}
    /\ registered \in BOOLEAN
    /\ Len(relayCh) <= ChCap /\ \A i \in 1..Len(relayCh) : relayCh[i] \in Message
    /\ Len(pending) <= MaxPending
    /\ \A i \in 1..Len(pending) : pending[i] \in Message
    /\ streak \in 0..Budget
    /\ closeDone \in BOOLEAN
    /\ up \in BOOLEAN
    /\ losses \in 0..MaxLosses
    /\ Len(toAgent) <= SendCap
    /\ \A i \in 1..Len(toAgent) : toAgent[i] \in {"open", "data", "close"}
    /\ Len(fromAgent) <= WireCap
    /\ \A i \in 1..Len(fromAgent) : fromAgent[i] \in Message
    /\ pump \in [at: {"reading"}] \cup
                [at: {"enqueue", "drop", "enqueue2"}, msg: Message]
    /\ preempter \in {"off", "enqueue", "drop", "enqueue2", "sent", "lost"}
    /\ recent \in BOOLEAN
    /\ agent \in {"none", "opening", "open", "closed"}
    /\ nextData \in 1..MaxData
    /\ clientLast \in 0..MaxData

Init ==
    /\ handler = "start"
    /\ reader = "off"
    /\ registered = FALSE
    /\ relayCh = <<>>
    /\ pending = <<>>
    /\ streak = 0
    /\ closeDone = FALSE
    /\ up = TRUE
    /\ losses = 0
    /\ toAgent = <<>>
    /\ fromAgent = <<>>
    /\ pump = [at |-> "reading"]
    /\ preempter = "off"
    /\ recent = FALSE
    /\ agent = "none"
    /\ nextData = 1
    /\ clientLast = 0

-----------------------------------------------------------------------------
\* SendRelay: the message is queued for the agent's relay connection if there
\* is one and its queue has room; relaySent says whether it will be.
relaySent == up /\ Len(toAgent) < SendCap

SendRelay(m) == toAgent' = IF relaySent THEN Append(toAgent, m) ELSE toAgent

RegisterRelay ==
    /\ handler = "start"
    /\ handler' = "registered"
    /\ registered' = TRUE
    /\ UNCHANGED <<reader, relayCh, pending, streak, closeDone, toAgent,
                   fromAgent, pump, preempter, recent, agentVars, clientLast>>

\* relay_open is sent, or the handler gives up.
SendOpen ==
    /\ handler = "registered"
    /\ SendRelay("open")
    /\ handler' = IF relaySent THEN "opening" ELSE "leaving"
    /\ UNCHANGED <<reader, registered, relayCh, pending, streak, closeDone,
                   fromAgent, pump, preempter, recent, agentVars, clientLast>>

\* The open loop takes a message: an acknowledgement ends it, with the reader
\* started or the handler leaving; anything else is kept for later.
OpenReceive ==
    /\ handler = "opening"
    /\ relayCh # <<>>
    /\ relayCh' = Tail(relayCh)
    /\ LET m == Head(relayCh)
       IN  \/ /\ m.type = "ack"
              /\ handler' = "draining"
              /\ reader' = "reading"
              /\ UNCHANGED pending
           \/ /\ m.type = "nak"
              /\ handler' = "leaving"
              /\ UNCHANGED <<reader, pending>>
           \/ /\ m.type \notin {"ack", "nak"}
              /\ Len(pending) < MaxPending
              /\ pending' = Append(pending, m)
              /\ UNCHANGED <<handler, reader>>
    /\ UNCHANGED <<registered, streak, closeDone, toAgent, fromAgent, pump,
                   preempter, recent, agentVars, clientLast>>

OpenTimeout ==
    /\ handler = "opening"
    /\ handler' = "leaving"
    /\ UNCHANGED <<reader, registered, relayCh, pending, streak, closeDone,
                   toAgent, fromAgent, pump, preempter, recent, agentVars,
                   clientLast>>

\* sendToClient: data is written, or dropped within the budget of consecutive
\* timeouts; data that cannot be decoded, a write that fails otherwise and
\* relay_close make the handler return; anything else, empty data included, is
\* ignored.
sendToClient(m) ==
    \/ /\ m.type = "data"
       /\ clientLast' = m.n
       /\ streak' = 0
       /\ UNCHANGED handler
    \/ /\ m.type = "data"
       /\ streak < Budget
       /\ streak' = streak + 1
       /\ UNCHANGED <<handler, clientLast>>
    \/ /\ m.type \in {"data", "close"}
       /\ handler' = "closing"
       /\ UNCHANGED <<streak, clientLast>>
    \/ /\ m.type \in {"ack", "nak", "data"}
       /\ UNCHANGED <<handler, streak, clientLast>>

\* Mutation: the messages set aside are passed on from the newest.
DrainPending_NewestFirst ==
    /\ handler = "draining"
    /\ pending # <<>>
    /\ pending' = SubSeq(pending, 1, Len(pending) - 1)
    /\ sendToClient(pending[Len(pending)])
    /\ UNCHANGED <<reader, registered, relayCh, closeDone, toAgent, fromAgent,
                   pump, preempter, recent, agentVars>>

\* What came before the acknowledgement is passed on first.
DrainPending ==
    /\ handler = "draining"
    /\ pending # <<>>
    /\ pending' = Tail(pending)
    /\ sendToClient(Head(pending))
    /\ UNCHANGED <<reader, registered, relayCh, closeDone, toAgent, fromAgent,
                   pump, preempter, recent, agentVars>>

StartStreaming ==
    /\ handler = "draining"
    /\ pending = <<>>
    /\ handler' = "streaming"
    /\ UNCHANGED <<reader, registered, relayCh, pending, streak, closeDone,
                   toAgent, fromAgent, pump, preempter, recent, agentVars,
                   clientLast>>

StreamReceive ==
    /\ handler = "streaming"
    /\ relayCh # <<>>
    /\ relayCh' = Tail(relayCh)
    /\ sendToClient(Head(relayCh))
    /\ UNCHANGED <<reader, registered, pending, closeDone, toAgent, fromAgent,
                   pump, preempter, recent, agentVars>>

\* The main select ends because done was closed, or a ping to the client fails.
StreamDone ==
    /\ handler = "streaming"
    /\ closeDone
    /\ handler' = "closing"
    /\ UNCHANGED <<reader, registered, relayCh, pending, streak, closeDone,
                   toAgent, fromAgent, pump, preempter, recent, agentVars,
                   clientLast>>

PingFails ==
    /\ handler = "streaming"
    /\ handler' = "closing"
    /\ UNCHANGED <<reader, registered, relayCh, pending, streak, closeDone,
                   toAgent, fromAgent, pump, preempter, recent, agentVars,
                   clientLast>>

\* Mutation: relay_close is sent but done is not closed.
closeRelay_DoneLeftOpen ==
    /\ IF closeDone THEN UNCHANGED toAgent ELSE SendRelay("close")
    /\ UNCHANGED closeDone

\* closeRelay: once, whoever comes first, tell the agent and close done.
closeRelay ==
    /\ IF closeDone THEN UNCHANGED toAgent ELSE SendRelay("close")
    /\ closeDone' = TRUE

\* Mutation: the deferred closeRelay is missing.
HandlerCloses_Silently ==
    /\ handler = "closing"
    /\ handler' = "leaving"
    /\ UNCHANGED <<reader, registered, relayCh, pending, streak, closeDone,
                   toAgent, fromAgent, pump, preempter, recent, agentVars,
                   clientLast>>

\* The deferred calls of an established stream, then of every handler: close
\* the relay, leave the table, close the client's socket.
HandlerCloses ==
    /\ handler = "closing"
    /\ handler' = "leaving"
    /\ closeRelay
    /\ UNCHANGED <<reader, registered, relayCh, pending, streak, fromAgent, pump,
                   preempter, recent, agentVars, clientLast>>

UnregisterRelay ==
    /\ handler = "leaving"
    /\ handler' = "hangup"
    /\ registered' = FALSE
    /\ UNCHANGED <<reader, relayCh, pending, streak, closeDone, toAgent,
                   fromAgent, pump, preempter, recent, agentVars, clientLast>>

HangUp ==
    /\ handler = "hangup"
    /\ handler' = "done"
    /\ UNCHANGED <<reader, registered, relayCh, pending, streak, closeDone,
                   toAgent, fromAgent, pump, preempter, recent, agentVars,
                   clientLast>>

-----------------------------------------------------------------------------
\* The client reader: data from the client goes to the agent; a read error, or
\* a message that cannot be queued, ends it, and its deferred closeRelay runs.
ReaderReads ==
    /\ reader = "reading"
    /\ handler # "done"
    /\ reader' = "sending"
    /\ UNCHANGED <<handlerVars, relayCh, closeDone, toAgent, fromAgent, pump,
                   preempter, recent, agentVars>>

ReadFails ==
    /\ reader = "reading"
    /\ reader' = "ending"
    /\ UNCHANGED <<handlerVars, relayCh, closeDone, toAgent, fromAgent, pump,
                   preempter, recent, agentVars>>

ReaderSends ==
    /\ reader = "sending"
    /\ SendRelay("data")
    /\ reader' = IF relaySent THEN "reading" ELSE "ending"
    /\ UNCHANGED <<handlerVars, relayCh, closeDone, fromAgent, pump, preempter,
                   recent, agentVars>>

ReaderCloses ==
    /\ reader = "ending"
    /\ reader' = "ended"
    /\ closeRelay
    /\ UNCHANGED <<handlerVars, relayCh, fromAgent, pump, preempter, recent,
                   agentVars>>

-----------------------------------------------------------------------------
enqueue(m) == relayCh' = Append(relayCh, m)
room == Len(relayCh) < ChCap

\* Mutation: the cooldown is a mark that never expires.
CooldownExpires_Never ==
    /\ FALSE
    /\ recent' = recent
    /\ UNCHANGED <<handlerVars, reader, relayCh, closeDone, toAgent, fromAgent,
                   pump, preempter, agentVars>>

\* Two seconds after the last relay_close for an unknown relay.
CooldownExpires ==
    /\ recent
    /\ recent' = FALSE
    /\ UNCHANGED <<handlerVars, reader, relayCh, closeDone, toAgent, fromAgent,
                   pump, preempter, agentVars>>

\* The read pump gets a message and looks the relay up.  For an unknown relay it
\* answers with relay_close, at most once per cooldown.
PumpReads ==
    /\ pump.at = "reading"
    /\ fromAgent # <<>>
    /\ fromAgent' = Tail(fromAgent)
    /\ IF registered
       THEN /\ pump' = [at |-> "enqueue", msg |-> Head(fromAgent)]
            /\ UNCHANGED <<toAgent, recent>>
       ELSE /\ IF recent THEN UNCHANGED toAgent ELSE SendRelay("close")
            /\ recent' = TRUE
            /\ UNCHANGED pump
    /\ UNCHANGED <<handlerVars, reader, relayCh, closeDone, preempter, agentVars>>

\* deliverRelay's first attempt.  Only data makes room for itself; anything else
\* is discarded when the channel is full.
PumpEnqueue ==
    /\ pump.at = "enqueue"
    /\ IF room
       THEN enqueue(pump.msg) /\ pump' = [at |-> "reading"]
       ELSE /\ pump' = IF pump.msg.type = "data" THEN [pump EXCEPT !.at = "drop"]
                       ELSE [at |-> "reading"]
            /\ UNCHANGED relayCh
    /\ UNCHANGED <<handlerVars, reader, closeDone, toAgent, fromAgent, preempter,
                   recent, agentVars>>

PumpDrop ==
    /\ pump.at = "drop"
    /\ pump' = [pump EXCEPT !.at = "enqueue2"]
    /\ relayCh' = IF relayCh = <<>> THEN relayCh ELSE Tail(relayCh)
    /\ UNCHANGED <<handlerVars, reader, closeDone, toAgent, fromAgent, preempter,
                   recent, agentVars>>

PumpEnqueue2 ==
    /\ pump.at = "enqueue2"
    /\ pump' = [at |-> "reading"]
    /\ IF room THEN enqueue(pump.msg) ELSE UNCHANGED relayCh
    /\ UNCHANGED <<handlerVars, reader, closeDone, toAgent, fromAgent, preempter,
                   recent, agentVars>>

-----------------------------------------------------------------------------
\* A newer session becomes active: preemptRelaysForSession finds the relay in
\* the table and queues a relay_close for it, making room if it must.
PreemptBegin ==
    /\ preempter = "off"
    /\ registered
    /\ preempter' = "enqueue"
    /\ UNCHANGED <<handlerVars, reader, relayCh, closeDone, toAgent, fromAgent,
                   pump, recent, agentVars>>

PreemptEnqueue ==
    /\ preempter = "enqueue"
    /\ IF room THEN enqueue(Msg("close")) /\ preempter' = "sent"
               ELSE preempter' = "drop" /\ UNCHANGED relayCh
    /\ UNCHANGED <<handlerVars, reader, closeDone, toAgent, fromAgent, pump,
                   recent, agentVars>>

PreemptDrop ==
    /\ preempter = "drop"
    /\ IF relayCh = <<>> THEN preempter' = "lost" /\ UNCHANGED relayCh
       ELSE preempter' = "enqueue2" /\ relayCh' = Tail(relayCh)
    /\ UNCHANGED <<handlerVars, reader, closeDone, toAgent, fromAgent, pump,
                   recent, agentVars>>

PreemptEnqueue2 ==
    /\ preempter = "enqueue2"
    /\ IF room THEN enqueue(Msg("close")) /\ preempter' = "sent"
               ELSE preempter' = "lost" /\ UNCHANGED relayCh
    /\ UNCHANGED <<handlerVars, reader, closeDone, toAgent, fromAgent, pump,
                   recent, agentVars>>

-----------------------------------------------------------------------------
agentActive == agent \in {"opening", "open"}

\* The agent takes the next message off the relay connection.
AgentReceives ==
    /\ toAgent # <<>>
    /\ toAgent' = Tail(toAgent)
    /\ \/ /\ Head(toAgent) = "open"
          /\ agent' = "opening"
       \/ Head(toAgent) = "data" /\ UNCHANGED agent
       \/ Head(toAgent) = "close" /\ agent' = "closed"
    /\ UNCHANGED <<handlerVars, reader, relayCh, closeDone, fromAgent, pump,
                   preempter, recent, nextData, up, losses>>

\* It acknowledges the stream, or refuses it.
AgentAnswers ==
    /\ agent = "opening" /\ up
    /\ Len(fromAgent) < WireCap
    /\ \/ agent' = "open" /\ fromAgent' = Append(fromAgent, Msg("ack"))
       \/ agent' = "closed" /\ fromAgent' = Append(fromAgent, Msg("nak"))
    /\ UNCHANGED <<handlerVars, reader, relayCh, closeDone, toAgent, pump,
                   preempter, recent, nextData, up, losses>>

\* Data may arrive before the acknowledgement: the pumps of the agent's control
\* and relay connections both deliver, in no order.
AgentSendsData ==
    /\ agentActive /\ up
    /\ Len(fromAgent) < WireCap
    /\ fromAgent' = Append(fromAgent, Data(nextData))
    /\ nextData' = IF nextData < MaxData THEN nextData + 1 ELSE nextData
    /\ UNCHANGED <<handlerVars, reader, relayCh, closeDone, toAgent, pump,
                   preempter, recent, agent, up, losses>>

AgentCloses ==
    /\ agent = "open" /\ up
    /\ Len(fromAgent) < WireCap
    /\ fromAgent' = Append(fromAgent, Msg("close"))
    /\ agent' = "closed"
    /\ UNCHANGED <<handlerVars, reader, relayCh, closeDone, toAgent, pump,
                   preempter, recent, nextData, up, losses>>

\* The relay connection is lost with what was under way; the agent may keep its
\* stream or drop it.
ConnLost ==
    /\ up
    /\ losses < MaxLosses
    /\ up' = FALSE
    /\ losses' = losses + 1
    /\ toAgent' = <<>>
    /\ fromAgent' = <<>>
    /\ agent' \in {agent, IF agentActive THEN "closed" ELSE agent}
    /\ UNCHANGED <<handlerVars, reader, relayCh, closeDone, pump, preempter,
                   recent, nextData>>

\* ... and another one registers, whose pump has no cooldown yet.
ConnBack ==
    /\ ~up
    /\ up' = TRUE
    /\ recent' = FALSE
    /\ UNCHANGED <<handlerVars, reader, relayCh, closeDone, toAgent, fromAgent,
                   pump, preempter, agent, nextData, losses>>

HandlerGoesOn ==
    \/ SendOpen \/ OpenReceive \/ DrainPending \/ StartStreaming \/ StreamReceive
    \/ HandlerCloses \/ UnregisterRelay \/ HangUp

ReaderGoesOn == ReaderSends \/ ReaderCloses

PumpStep == PumpReads \/ PumpEnqueue \/ PumpDrop \/ PumpEnqueue2

PreemptStep == PreemptEnqueue \/ PreemptDrop \/ PreemptEnqueue2

Next ==
    \/ RegisterRelay \/ HandlerGoesOn \/ OpenTimeout \/ StreamDone \/ PingFails
    \/ ReaderReads \/ ReadFails \/ ReaderGoesOn
    \/ PumpStep \/ CooldownExpires
    \/ PreemptBegin \/ PreemptStep
    \/ AgentReceives \/ AgentAnswers \/ AgentSendsData \/ AgentCloses \/ ConnLost \/ ConnBack

\* Goroutines that can go on do; timers fire; a closed socket fails the read; a
\* select does not pass over a channel that stays ready for ever.  The agent
\* takes what it is sent and, while it thinks its stream open, goes on sending.
Fairness ==
    /\ WF_vars(HandlerGoesOn)
    /\ WF_vars(OpenTimeout)
    /\ WF_vars(StreamDone)
    /\ WF_vars(ReaderGoesOn)
    /\ WF_vars(handler = "done" /\ ReadFails)
    /\ WF_vars(PumpStep)
    /\ WF_vars(CooldownExpires)
    /\ WF_vars(PreemptStep)
    /\ WF_vars(AgentReceives)
    /\ WF_vars(AgentSendsData)

Spec == Init /\ [][Next]_vars /\ Fairness

-----------------------------------------------------------------------------
\* The client gets the agent's data in the order it was sent, with gaps at most:
\* neither the drops of the pump and of a preemption that interleaves with it,
\* nor the messages set aside before the acknowledgement, reorder the stream.
ClientSeesOrder ==
    [][clientLast' # clientLast => clientLast' > clientLast]_vars

\* An established stream never ends without the agent being told: once the
\* handler is past its deferred closeRelay, or the reader past its own,
\* closeOnce has run.
EndIsAnnounced ==
    \/ reader = "ended"
    \/ reader # "off" /\ handler \in {"leaving", "hangup", "done"}
    => closeDone

\* Neither goroutine outlives the other: when the client reader ends so does the
\* handler, through done, and when the handler ends the closed socket ends the
\* reader.
BothGoroutinesEnd ==
    /\ reader = "ended" ~> handler = "done"
    /\ handler = "done" ~> reader \in {"off", "ended"}

\* When the handler is gone the agent's end of the stream is closed as well, in
\* the end, even though an open timeout sends no relay_close and one that is
\* sent may find the queue full: the agent's next data is answered by
\* relay_close (unless the relay connection is lost).
AgentStreamReclaimed ==
    handler = "done" /\ agentActive ~> ~agentActive \/ ~up

\* "Channel pressure is handled by dropping stale relay_data in deliverRelay()"
\* (go/relay/relay.go:1120): what is dropped from the channel to make room is
\* relay_data, never an acknowledgement or a relay_close.
OnlyDataIsDropped ==
    [][PumpDrop /\ relayCh # <<>> => Head(relayCh).type = "data"]_vars
=============================================================================
