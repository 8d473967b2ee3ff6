------------------------------- MODULE MuxConn -------------------------------
(***************************************************************************)
(* One multiplexed connection between two daemons, mux.rs, with the parts  *)
(* of the manager and of the IPC server that feed it and drain it.         *)
(*                                                                         *)
(* The initiator "i" dials; the responder "r" accepts.  At each end run    *)
(* the write task, the read task and, for every stream, a bridge from the  *)
(* agent's sends to the write queues and a forwarder from the stream's     *)
(* receive channel to the agent.  The read task keeps the lock of the      *)
(* stream table while it waits for room in a receive channel.              *)
(*                                                                         *)
(* Data: the n-th message an agent sends on a stream is the number n.      *)
(* Meta streams use the queue of control streams and are not told apart.   *)
(* Unbounded channels are sequences; the bounded ones have capacity Cap.   *)
(***************************************************************************)
EXTENDS Integers, Sequences, SequencesExt

CONSTANTS
    Streams,    \* the number of dials over the connection
    MaxSend,    \* how many messages the agent of an end sends on a stream
    Cap,        \* capacity of a bounded channel; 64 in the code
    MaxFaults   \* bound on the closes, agents that leave and lost connections

Ends == {"i", "r"}
Peer(e) == IF e = "i" THEN "r" ELSE "i"

\* The initiator counts 1, 3, 5 ...
Ids == {2 * k - 1 : k \in 1..Streams}
Classes == {"control", "bulk"}

ASSUME MuxAssumption ==
    /\ Streams \in Nat \ {0}
    /\ MaxSend \in [Ends -> [Ids -> Nat]]
    /\ Cap \in Nat \ {0}
    /\ MaxFaults \in Nat

VARIABLES
    next,       \* next_stream_id of the initiator
    class,      \* the class each stream was dialed with, "none" before
    stage,      \* how far each end has come in setting a stream up
    table,      \* ids in MuxConn.streams: their recv_tx is alive
    entry,      \* ids in DaemonManager.streams: their data_tx is alive
    data,       \* the data channel of a stream: the agent's sends
    bridge,     \* the bridge task of a stream
    recv,       \* the receive channel of a stream
    fwd,        \* the forwarder task of a stream
    recvd,      \* what the agent was given on a stream, in order
    sent,       \* how many messages the agent's daemon accepted
    ctrlq,      \* high-priority write queue
    bulkq,      \* low-priority write queue
    writer,     \* write task: about to look at "ctrl" or "bulk", or "down"
    wire,       \* frames written by an end and not read by its peer
    reader,     \* read task
    hand,       \* the data frame a waiting read task holds
    first,      \* the stream whose StreamOpen the acceptor consumed, 0 before
    opener,     \* the task that processes that first StreamOpen
    incoming,   \* the responder's IncomingMuxStream channel
    up,         \* the TCP connection is up
    gone,       \* ends whose agent has left
    faults      \* how many closes, leaves and losses there were

dialVars == <<next, class>>
streamVars == <<stage, entry, table>>
sendVars == <<data, bridge, sent>>
recvVars == <<recv, fwd, recvd>>
writeVars == <<ctrlq, bulkq, writer>>
readVars == <<reader, hand>>
openVars == <<first, opener, incoming>>
linkVars == <<up, gone, faults>>
vars == <<dialVars, streamVars, sendVars, recvVars, writeVars, wire, readVars,
          openVars, linkVars>>

Frames == [type : {"open", "data", "close"}, id : Ids, n : Nat]
Frame(type, id, n) == [type |-> type, id |-> id, n |-> n]
NoFrame == [type |-> "none", id |-> 0, n |-> 0]

PerStream(v) == [e \in Ends |-> [id \in Ids |-> v]]

\* A dialed connection, after authentication: new_initiator has spawned its
\* tasks and the acceptor waits for the first frame.
Init ==
    /\ next = 1
    /\ class = [id \in Ids |-> "none"]
    /\ stage = PerStream("none")
    /\ table = [e \in Ends |-> {}]
    /\ entry = [e \in Ends |-> {}]
    /\ data = PerStream(<<>>)
    /\ bridge = PerStream("none")
    /\ recv = PerStream(<<>>)
    /\ fwd = PerStream("none")
    /\ recvd = PerStream(<<>>)
    /\ sent = PerStream(0)
    /\ ctrlq = [e \in Ends |-> <<>>]
    /\ bulkq = [e \in Ends |-> <<>>]
    /\ writer = [e \in Ends |-> "ctrl"]
    /\ wire = [e \in Ends |-> <<>>]
    /\ reader = [i |-> "read", r |-> "accept"]
    /\ hand = [e \in Ends |-> NoFrame]
    /\ first = 0
    /\ opener = "none"
    /\ incoming = <<>>
    /\ up = TRUE
    /\ gone = {}
    /\ faults = 0

----------------------------------------------------------------------------
(* Helpers *)

Put(f, e, id, v) == [f EXCEPT ![e][id] = v]

\* A waiting read task holds the lock of its end's stream table.
TableFree(e) == reader[e] # "wait"

\* The receivers of the write queues live as long as the write task.
WriterRuns(e) == writer[e] # "down"

\* MuxConn::enqueue: the class picks the queue.
enqueue(e, c, f) ==
    IF c = "bulk"
    THEN /\ bulkq' = [bulkq EXCEPT ![e] = Append(@, f)]
         /\ UNCHANGED <<ctrlq, writer>>
    ELSE /\ ctrlq' = [ctrlq EXCEPT ![e] = Append(@, f)]
         /\ UNCHANGED <<bulkq, writer>>

----------------------------------------------------------------------------
(* Dialing: dial_mux, MuxConn::open_stream, the Dial arm of handle_client *)

\* The id is taken and the StreamOpen queued; a stopped writer fails the dial.
\* (Ids taken by two dials may be queued in the other order; as the two
\* queues reorder them anyway, taking and queueing are one step.)
DialEnqueue(c) ==
    /\ next \in Ids
    /\ next' = next + 2
    /\ class' = [class EXCEPT ![next] = c]
    /\ IF WriterRuns("i")
       THEN /\ enqueue("i", c, Frame("open", next, 0))
            /\ stage' = Put(stage, "i", next, "enqueued")
       ELSE /\ stage' = Put(stage, "i", next, "failed")
            /\ UNCHANGED writeVars
    /\ UNCHANGED <<table, entry, sendVars, recvVars, wire, readVars, openVars,
                   linkVars>>

\* The stream enters the table when its lock is free.
DialInsert(id) ==
    /\ stage["i"][id] = "enqueued"
    /\ TableFree("i")
    /\ table' = [table EXCEPT !["i"] = @ \union {id}]
    /\ stage' = Put(stage, "i", id, "inserted")
    /\ UNCHANGED <<dialVars, entry, sendVars, recvVars, writeVars, wire,
                   readVars, openVars, linkVars>>

\* The rest of dial_mux, and the forwarder its caller starts.
DialRegister(id) ==
    /\ stage["i"][id] = "inserted"
    /\ stage' = Put(stage, "i", id, "running")
    /\ entry' = [entry EXCEPT !["i"] = @ \union {id}]
    /\ bridge' = Put(bridge, "i", id, "run")
    /\ fwd' = Put(fwd, "i", id, "run")
    /\ UNCHANGED <<dialVars, table, data, sent, recv, recvd, writeVars, wire,
                   readVars, openVars, linkVars>>

\* The agent is sent Connected, or Incoming: it knows the stream.
Announce(e, id) ==
    /\ stage[e][id] = "running"
    /\ stage' = Put(stage, e, id, "announced")
    /\ UNCHANGED <<dialVars, table, entry, sendVars, recvVars, writeVars, wire,
                   readVars, openVars, linkVars>>

----------------------------------------------------------------------------
(* Write task *)

\* What becomes of a frame the write task has taken: it is on the wire, or the
\* connection is broken and the frame lost; the task may then notice.
write_frame(e, f) ==
    \/ /\ up
       /\ wire' = [wire EXCEPT ![e] = Append(@, f)]
       /\ writer' = [writer EXCEPT ![e] = "ctrl"]
    \/ /\ ~up
       /\ \E w \in {"ctrl", "down"} : writer' = [writer EXCEPT ![e] = w]
       /\ UNCHANGED wire

WriteCtrl(e) ==
    /\ writer[e] = "ctrl"
    /\ ctrlq[e] # <<>>
    /\ ctrlq' = [ctrlq EXCEPT ![e] = Tail(@)]
    /\ write_frame(e, Head(ctrlq[e]))
    /\ UNCHANGED <<dialVars, streamVars, sendVars, recvVars, bulkq, readVars,
                   openVars, linkVars>>

\* The biased select has found the high-priority queue empty.
PollBulk(e) ==
    /\ writer[e] = "ctrl"
    /\ ctrlq[e] = <<>>
    /\ bulkq[e] # <<>>
    /\ writer' = [writer EXCEPT ![e] = "bulk"]
    /\ UNCHANGED <<dialVars, streamVars, sendVars, recvVars, ctrlq, bulkq,
                   wire, readVars, openVars, linkVars>>

WriteBulk(e) ==
    /\ writer[e] = "bulk"
    /\ bulkq' = [bulkq EXCEPT ![e] = Tail(@)]
    /\ write_frame(e, Head(bulkq[e]))
    /\ UNCHANGED <<dialVars, streamVars, sendVars, recvVars, ctrlq, readVars,
                   openVars, linkVars>>

\* At the responder the last handle of the connection may go: the tasks that
\* hold one have ended and the manager has no stream of it; or there never was
\* one, as no first frame came.  (The initiator's pool keeps its handle.)
WriterReleased ==
    /\ writer["r"] = "ctrl"
    /\ ctrlq["r"] = <<>>
    /\ reader["r"] = "down"
    /\ opener \in {"none", "done"}
    /\ incoming = <<>>
    /\ entry["r"] = {}
    /\ \A id \in Ids : bridge["r"][id] \in {"none", "done"}
    /\ writer' = [writer EXCEPT !["r"] = "down"]
    /\ UNCHANGED <<dialVars, streamVars, sendVars, recvVars, ctrlq, bulkq,
                   wire, readVars, openVars, linkVars>>

----------------------------------------------------------------------------
(* Read task *)

Inbound(e) == wire[Peer(e)]
Consumed(e) == [wire EXCEPT ![Peer(e)] = Tail(@)]

NextFrame(e, type) ==
    /\ reader[e] = "read"
    /\ Inbound(e) # <<>>
    /\ Head(Inbound(e)).type = type

\* handle_inbound reads the first frame and starts the responder: the tasks of
\* new_inner, and one more that processes this StreamOpen.
Accept ==
    /\ reader["r"] = "accept"
    /\ Inbound("r") # <<>>
    /\ Head(Inbound("r")).type = "open"
    /\ wire' = Consumed("r")
    /\ first' = Head(Inbound("r")).id
    /\ opener' = "spawned"
    /\ reader' = [reader EXCEPT !["r"] = "read"]
    /\ UNCHANGED <<dialVars, streamVars, sendVars, recvVars, writeVars, hand,
                   incoming, linkVars>>

\* The stream enters the responder's table ...
InsertIncoming(id) ==
    /\ table' = [table EXCEPT !["r"] = @ \union {id}]
    /\ stage' = Put(stage, "r", id, "inserted")
    /\ UNCHANGED entry

\* ... and the manager is notified.
NotifyIncoming(id) ==
    /\ Len(incoming) < Cap
    /\ incoming' = Append(incoming, id)
    /\ stage' = Put(stage, "r", id, "queued")
    /\ UNCHANGED <<table, entry>>

\* process_stream_open in its own task, for the first stream.
OpenerInserts ==
    /\ opener = "spawned"
    /\ TableFree("r")
    /\ InsertIncoming(first)
    /\ opener' = "notify"
    /\ UNCHANGED <<dialVars, sendVars, recvVars, writeVars, wire, readVars,
                   first, incoming, linkVars>>

OpenerNotifies ==
    /\ opener = "notify"
    /\ NotifyIncoming(first)
    /\ opener' = "done"
    /\ UNCHANGED <<dialVars, sendVars, recvVars, writeVars, wire, readVars,
                   first, linkVars>>

\* process_stream_open in the read task, for the others.
ReadOpen ==
    /\ NextFrame("r", "open")
    /\ wire' = Consumed("r")
    /\ InsertIncoming(Head(Inbound("r")).id)
    /\ reader' = [reader EXCEPT !["r"] = "notify"]
    /\ hand' = [hand EXCEPT !["r"] = Head(Inbound("r"))]
    /\ UNCHANGED <<dialVars, sendVars, recvVars, writeVars, openVars, linkVars>>

\* Mutation: the notification is dropped when the stream is a bulk stream.
ReadNotifies_NotBulk ==
    /\ reader["r"] = "notify"
    /\ IF class[hand["r"].id] = "bulk"
       THEN UNCHANGED <<streamVars, incoming>>
       ELSE NotifyIncoming(hand["r"].id)
    /\ reader' = [reader EXCEPT !["r"] = "read"]
    /\ hand' = [hand EXCEPT !["r"] = NoFrame]
    /\ UNCHANGED <<dialVars, sendVars, recvVars, writeVars, wire, first,
                   opener, linkVars>>

ReadNotifies ==
    /\ reader["r"] = "notify"
    /\ NotifyIncoming(hand["r"].id)
    /\ reader' = [reader EXCEPT !["r"] = "read"]
    /\ hand' = [hand EXCEPT !["r"] = NoFrame]
    /\ UNCHANGED <<dialVars, sendVars, recvVars, writeVars, wire, first,
                   opener, linkVars>>

\* A receive channel takes a message; without a receiver it is discarded.
deliver(e, f) ==
    recv' = IF fwd[e][f.id] = "gone" THEN recv
            ELSE Put(recv, e, f.id, Append(recv[e][f.id], f.n))

Full(e, id) == fwd[e][id] # "gone" /\ Len(recv[e][id]) = Cap

\* A StreamData frame: no entry, no delivery; no room, and the task waits.
ReadData(e) ==
    /\ NextFrame(e, "data")
    /\ wire' = Consumed(e)
    /\ LET f == Head(Inbound(e)) IN
       \/ /\ f.id \notin table[e]
          /\ UNCHANGED <<recv, readVars>>
       \/ /\ f.id \in table[e]
          /\ ~Full(e, f.id)
          /\ deliver(e, f)
          /\ UNCHANGED readVars
       \/ /\ f.id \in table[e]
          /\ Full(e, f.id)
          /\ reader' = [reader EXCEPT ![e] = "wait"]
          /\ hand' = [hand EXCEPT ![e] = f]
          /\ UNCHANGED recv
    /\ UNCHANGED <<dialVars, streamVars, sendVars, fwd, recvd, writeVars,
                   openVars, linkVars>>

\* Mutation: the message stays in hand.
ReadResumes_KeepsFrame(e) ==
    /\ reader[e] = "wait"
    /\ ~Full(e, hand[e].id)
    /\ deliver(e, hand[e])
    /\ UNCHANGED <<dialVars, streamVars, sendVars, fwd, recvd, writeVars, wire,
                   readVars, openVars, linkVars>>

\* The wait ends: there is room, or no receiver any more.
ReadResumes(e) ==
    /\ reader[e] = "wait"
    /\ ~Full(e, hand[e].id)
    /\ deliver(e, hand[e])
    /\ reader' = [reader EXCEPT ![e] = "read"]
    /\ hand' = [hand EXCEPT ![e] = NoFrame]
    /\ UNCHANGED <<dialVars, streamVars, sendVars, fwd, recvd, writeVars, wire,
                   openVars, linkVars>>

\* A StreamClose frame drops the entry, and with it the channel's sender.
ReadClose(e) ==
    /\ NextFrame(e, "close")
    /\ wire' = Consumed(e)
    /\ table' = [table EXCEPT ![e] = @ \ {Head(Inbound(e)).id}]
    /\ UNCHANGED <<dialVars, stage, entry, sendVars, recvVars, writeVars,
                   readVars, openVars, linkVars>>

\* The read fails and the task ends; the table stays as it is.
ReadFails(e) ==
    /\ ~up
    /\ reader[e] \in {"accept", "read"}
    /\ reader' = [reader EXCEPT ![e] = "down"]
    /\ UNCHANGED <<dialVars, streamVars, sendVars, recvVars, writeVars, wire,
                   hand, openVars, linkVars>>

----------------------------------------------------------------------------
(* Accepted streams: register_mux_incoming, the Listen arm of handle_client *)

\* The stream enters the manager's table and its listener is notified.
RegisterIncoming ==
    /\ incoming # <<>>
    /\ incoming' = Tail(incoming)
    /\ LET id == Head(incoming) IN
       /\ stage' = Put(stage, "r", id, "registered")
       /\ entry' = [entry EXCEPT !["r"] = @ \union {id}]
       /\ bridge' = Put(bridge, "r", id, "run")
    /\ UNCHANGED <<dialVars, table, data, sent, recvVars, writeVars, wire,
                   readVars, first, opener, linkVars>>

\* The listener claims the receive channel and starts the forwarder before it
\* writes the notification to the agent.
ClaimRecv(id) ==
    /\ stage["r"][id] = "registered"
    /\ stage' = Put(stage, "r", id, "running")
    /\ fwd' = Put(fwd, "r", id, "run")
    /\ UNCHANGED <<dialVars, table, entry, sendVars, recv, recvd, writeVars,
                   wire, readVars, openVars, linkVars>>

----------------------------------------------------------------------------
(* The agents and the per-stream tasks *)

\* DaemonManager::send.  It waits for room with the manager's lock held; the
\* bridge always makes room, as the write queues are unbounded.
AgentSend(e, id) ==
    /\ e \notin gone
    /\ stage[e][id] = "announced"
    /\ sent[e][id] < MaxSend[e][id]
    /\ id \in entry[e]
    /\ bridge[e][id] = "run"
    /\ Len(data[e][id]) < Cap
    /\ sent' = Put(sent, e, id, sent[e][id] + 1)
    /\ data' = Put(data, e, id, Append(data[e][id], sent[e][id] + 1))
    /\ UNCHANGED <<dialVars, streamVars, bridge, recvVars, writeVars, wire,
                   readVars, openVars, linkVars>>

Fault ==
    /\ faults < MaxFaults
    /\ faults' = faults + 1

\* DaemonManager::close_stream: the entry goes, and with it data_tx.
AgentClose(e, id) ==
    /\ Fault
    /\ e \notin gone
    /\ stage[e][id] = "announced"
    /\ id \in entry[e]
    /\ entry' = [entry EXCEPT ![e] = @ \ {id}]
    /\ UNCHANGED <<dialVars, stage, table, sendVars, recvVars, writeVars, wire,
                   readVars, openVars, up, gone>>

\* The agent's IPC connection ends; handle_client returns and closes nothing.
AgentLeaves(e) ==
    /\ Fault
    /\ e \notin gone
    /\ gone' = gone \union {e}
    /\ UNCHANGED <<dialVars, streamVars, sendVars, recvVars, writeVars, wire,
                   readVars, openVars, up>>

\* The bridge moves a message to the write queue.
BridgeSend(e, id) ==
    /\ bridge[e][id] = "run"
    /\ data[e][id] # <<>>
    /\ WriterRuns(e)
    /\ data' = Put(data, e, id, Tail(data[e][id]))
    /\ enqueue(e, class[id], Frame("data", id, Head(data[e][id])))
    /\ UNCHANGED <<dialVars, streamVars, bridge, sent, recvVars, wire, readVars,
                   openVars, linkVars>>

\* Mutation: the bridge ends when the entry goes, whatever it has to send.
BridgeEnds_AtOnce(e, id) ==
    /\ bridge[e][id] = "run"
    /\ id \notin entry[e]
    /\ bridge' = Put(bridge, e, id, "closing")
    /\ data' = Put(data, e, id, <<>>)
    /\ IF WriterRuns(e) THEN enqueue(e, class[id], Frame("close", id, 0))
       ELSE UNCHANGED writeVars
    /\ UNCHANGED <<dialVars, streamVars, sent, recvVars, wire, readVars,
                   openVars, linkVars>>

\* It ends when it has sent all of a closed stream, or cannot send; it then
\* queues a StreamClose, if it can.
BridgeEnds(e, id) ==
    /\ bridge[e][id] = "run"
    /\ \/ data[e][id] = <<>> /\ id \notin entry[e]
       \/ data[e][id] # <<>> /\ ~WriterRuns(e)
    /\ bridge' = Put(bridge, e, id, "closing")
    /\ data' = Put(data, e, id, <<>>)
    /\ IF WriterRuns(e) THEN enqueue(e, class[id], Frame("close", id, 0))
       ELSE UNCHANGED writeVars
    /\ UNCHANGED <<dialVars, streamVars, sent, recvVars, wire, readVars,
                   openVars, linkVars>>

\* MuxConn::close_stream removes the entry when the table's lock is free.
BridgeRemoves(e, id) ==
    /\ bridge[e][id] = "closing"
    /\ TableFree(e)
    /\ table' = [table EXCEPT ![e] = @ \ {id}]
    /\ bridge' = Put(bridge, e, id, "done")
    /\ UNCHANGED <<dialVars, stage, entry, data, sent, recvVars, writeVars,
                   wire, readVars, openVars, linkVars>>

\* The forwarder writes a message to the agent, or finds that it has left and
\* drops the channel.
Forward(e, id) ==
    /\ fwd[e][id] = "run"
    /\ recv[e][id] # <<>>
    /\ IF e \in gone
       THEN /\ fwd' = Put(fwd, e, id, "gone")
            /\ recv' = Put(recv, e, id, <<>>)
            /\ UNCHANGED recvd
       ELSE /\ recv' = Put(recv, e, id, Tail(recv[e][id]))
            /\ recvd' = Put(recvd, e, id, Append(recvd[e][id], Head(recv[e][id])))
            /\ UNCHANGED fwd
    /\ UNCHANGED <<dialVars, streamVars, sendVars, writeVars, wire, readVars,
                   openVars, linkVars>>

\* The channel has no sender and is empty: the agent is sent Closed.
ForwardClosed(e, id) ==
    /\ fwd[e][id] = "run"
    /\ recv[e][id] = <<>>
    /\ id \notin table[e]
    /\ fwd' = Put(fwd, e, id, "closed")
    /\ UNCHANGED <<dialVars, streamVars, sendVars, recv, recvd, writeVars, wire,
                   readVars, openVars, linkVars>>

\* The TCP connection breaks.
Drop ==
    /\ Fault
    /\ up
    /\ up' = FALSE
    /\ UNCHANGED <<dialVars, streamVars, sendVars, recvVars, writeVars, wire,
                   readVars, openVars, gone>>

----------------------------------------------------------------------------

WriteStep(e) == WriteCtrl(e) \/ PollBulk(e) \/ WriteBulk(e)

ReadStep(e) ==
    \/ ReadData(e)
    \/ ReadResumes(e)
    \/ ReadClose(e)
    \/ ReadFails(e)
    \/ e = "r" /\ (Accept \/ ReadOpen \/ ReadNotifies)

OpenerStep == OpenerInserts \/ OpenerNotifies

SetUpStep(e, id) ==
    \/ Announce(e, id)
    \/ e = "i" /\ (DialInsert(id) \/ DialRegister(id))
    \/ e = "r" /\ ClaimRecv(id)

BridgeStep(e, id) == BridgeSend(e, id) \/ BridgeEnds(e, id) \/ BridgeRemoves(e, id)

Next ==
    \/ \E c \in Classes : DialEnqueue(c)
    \/ \E e \in Ends :
          \/ WriteStep(e)
          \/ ReadStep(e)
          \/ AgentLeaves(e)
          \/ \E id \in Ids :
                \/ SetUpStep(e, id)
                \/ BridgeStep(e, id)
                \/ Forward(e, id)
                \/ ForwardClosed(e, id)
                \/ AgentSend(e, id)
                \/ AgentClose(e, id)
    \/ WriterReleased
    \/ OpenerStep
    \/ RegisterIncoming
    \/ Drop

Spec == Init /\ [][Next]_vars

\* The daemons' tasks are scheduled by tokio and each is run again after it
\* could; agents, dials and the network owe nothing.
TaskFairness ==
    /\ \A e \in Ends :
          /\ WF_vars(WriteStep(e))
          /\ WF_vars(ReadStep(e))
          /\ \A id \in Ids :
                /\ WF_vars(SetUpStep(e, id))
                /\ WF_vars(BridgeStep(e, id))
                /\ WF_vars(ForwardClosed(e, id))
    /\ WF_vars(OpenerStep)
    /\ WF_vars(RegisterIncoming)

\* Agents that read their IPC sockets keep the forwarders going.
FairSpec ==
    /\ Spec
    /\ TaskFairness
    /\ \A e \in Ends, id \in Ids : WF_vars(Forward(e, id))

\* The agents of bulk streams may stop reading.
StalledSpec ==
    /\ Spec
    /\ TaskFairness
    /\ \A e \in Ends, id \in Ids : WF_vars(class[id] # "bulk" /\ Forward(e, id))

----------------------------------------------------------------------------
(* Properties *)

\* The variables have their types, a wait has a frame in hand and no bounded
\* channel is over its capacity.
TypeOK ==
    /\ next \in 1..(2 * Streams + 1)
    /\ class \in [Ids -> Classes \union {"none"}]
    /\ stage \in [Ends -> [Ids -> {"none", "failed", "enqueued", "inserted",
                                   "queued", "registered", "running",
                                   "announced"}]]
    /\ table \in [Ends -> SUBSET Ids]
    /\ entry \in [Ends -> SUBSET Ids]
    /\ bridge \in [Ends -> [Ids -> {"none", "run", "closing", "done"}]]
    /\ fwd \in [Ends -> [Ids -> {"none", "run", "closed", "gone"}]]
    /\ \A e \in Ends, id \in Ids :
          /\ sent[e][id] \in 0..MaxSend[e][id]
          /\ Len(data[e][id]) <= Cap
          /\ Len(recv[e][id]) <= Cap
          /\ ToSet(data[e][id]) \subseteq 1..MaxSend[e][id]
          /\ ToSet(recv[e][id] \o recvd[e][id]) \subseteq 1..MaxSend[Peer(e)][id]
    /\ \A e \in Ends :
          /\ ToSet(ctrlq[e] \o bulkq[e] \o wire[e]) \subseteq Frames
          /\ hand[e] \in Frames <=> reader[e] \in {"wait", "notify"}
    /\ writer \in [Ends -> {"ctrl", "bulk", "down"}]
    /\ reader \in [Ends -> {"accept", "read", "wait", "notify", "down"}]
    /\ first \in Ids \union {0}
    /\ opener \in {"none", "spawned", "notify", "done"}
    /\ ToSet(incoming) \subseteq Ids /\ Len(incoming) <= Cap
    /\ up \in BOOLEAN
    /\ gone \subseteq Ends
    /\ faults \in 0..MaxFaults

\* What an agent is given on a stream is an unbroken run of what its peer sent
\* on it: nothing is repeated, reordered or left out in the middle, through
\* two queues, the wire, a full channel, a close or a lost connection.
UnbrokenRuns ==
    \A e \in Ends, id \in Ids :
        LET s == recvd[e][id] IN
        /\ \A k \in 2..Len(s) : s[k] = s[k - 1] + 1
        /\ s # <<>> => Last(s) <= sent[Peer(e)][id]

StartsAtOne(e, id) == recvd[e][id] # <<>> => Head(recvd[e][id]) = 1

\* A stream opened over a connection the responder already serves loses nothing
\* at either end: none of its first messages, for the StreamOpen that precedes
\* them was processed, and none of its last, for a responder whose peer closed it
\* is sent Closed only after everything that was sent on it, unless it closed the
\* stream itself or the connection broke.
LaterStreamsAreWhole ==
    \A id \in Ids \ {first} :
        /\ StartsAtOne("r", id)
        /\ (/\ fwd["r"][id] = "closed"
            /\ bridge["r"][id] = "run"
            /\ up) => Len(recvd["r"][id]) = sent["i"][id]

\* Something is left to do that waits for nobody but the agents' reading.
TaskStep ==
    \/ \E e \in Ends : WriteStep(e) \/ ReadStep(e)
    \/ \E e \in Ends, id \in Ids :
          \/ SetUpStep(e, id)
          \/ BridgeStep(e, id)
          \/ Forward(e, id)
          \/ ForwardClosed(e, id)
    \/ OpenerStep
    \/ RegisterIncoming

\* The responder's agent still wants what comes on a stream over a connection
\* that holds.
Wanted(id) ==
    /\ up
    /\ "r" \notin gone
    /\ stage["r"][id] = "announced" => id \in entry["r"]

\* The tasks do not come to rest with work undone: by then, what the daemon
\* accepted on a later stream has reached the other agent, even if its sender
\* closed the stream at once, and so has the Closed of a stream that was closed.
\* (No task can go on for ever: the agents send a bounded number of messages.)
NothingIsLeftUndone ==
    \A id \in Ids \ {first} :
        /\ Wanted(id)
        /\ \/ Len(recvd["r"][id]) < sent["i"][id]
           \/ bridge["i"][id] \in {"closing", "done"} /\ fwd["r"][id] # "closed"
        => ENABLED TaskStep

----------------------------------------------------------------------------
(* What the repository says and the code does not do *)

\* The first stream's messages all arrive: "so the read task can process it
\* immediately" (mux.rs:102).
FirstStreamStartsAtOne == first # 0 => StartsAtOne("r", first)

\* A dialed stream's messages all arrive: "TCP ensures delivery" (mux.rs:144).
DialedStreamsStartAtOne == \A id \in Ids : StartsAtOne("i", id)

\* A message on a control stream arrives whatever becomes of bulk streams: "a
\* saturated bulk stream cannot delay a control message" (mux.rs:8).
ControlIsNotDelayed ==
    \A id \in Ids :
        (class[id] = "control" /\ sent["i"][id] >= 1) ~>
            (1 \in ToSet(recvd["r"][id]) \/ id = first \/ ~up)

\* An agent learns that a stream has ended with its connection: "A stream is
\* closed when: ... The underlying TCP connection drops" (daemon-ipc.md:119).
DropIsTold ==
    \A e \in Ends, id \in Ids :
        (~up /\ stage[e][id] = "announced") ~> (fwd[e][id] = "closed")

\* An agent hears of a stream before it hears from it (daemon-ipc.md:112).
AnnouncedBeforeData ==
    \A e \in Ends, id \in Ids : stage[e][id] = "running" => recvd[e][id] = <<>>
=============================================================================
