---------------------------- MODULE DirectStream ----------------------------
(***************************************************************************)
(* A direct stream between two daemons, manager.rs: one TCP connection     *)
(* that carries one stream as RelayOpen, RelayOpenAck, RelayData and       *)
(* RelayClose frames, with a bridge task at each end.                      *)
(*                                                                         *)
(* A bridge does one thing at a time: it waits for the agent's data or for *)
(* a frame, writes a frame, or waits for room in its receive channel.  A   *)
(* data frame goes over the wire as a header and a body, which arrive one  *)
(* after the other; a read that has taken the header is forgotten when the *)
(* select takes the agent's data instead.                                  *)
(*                                                                         *)
(* DaemonManager::send waits for room in the data channel with the lock of *)
(* the stream table held, which a bridge needs to end.                     *)
(*                                                                         *)
(* Data: the n-th message of an agent is the number n; Garbage is whatever *)
(* a bridge makes of a body that it takes for a header.                    *)
(***************************************************************************)
EXTENDS Naturals, Sequences

CONSTANTS
    MaxSend,    \* how many messages the agent of each end sends
    Cap,        \* capacity of the data and receive channels; 64 in the code
    WireCap,    \* how many parts the TCP buffers of one direction hold
    Closers,    \* ends whose agents may close the stream
    Leavers,    \* ends whose agents may leave without a word
    MayDrop     \* whether the TCP connection may break

Ends == {"i", "r"}
Peer(e) == IF e = "i" THEN "r" ELSE "i"

ASSUME DirectAssumption ==
    /\ MaxSend \in [Ends -> Nat]
    /\ Cap \in Nat \ {0}
    /\ WireCap \in Nat \ {0}
    /\ Closers \subseteq Ends
    /\ Leavers \subseteq Ends
    /\ MayDrop \in BOOLEAN

VARIABLES
    bridge,     \* what the dial or accept and then the bridge of an end does
    out,        \* the message whose body is still to be written
    got,        \* the pending read has taken the header of a data frame
    aligned,    \* the next byte to read begins a frame
    inhand,     \* the message a bridge waits to deliver
    table,      \* the stream is in the manager's table: data_tx is alive
    waiting,    \* a send waits for room, with the table locked
    data,       \* the data channel
    recv,       \* the receive channel
    recvd,      \* what the agent was given
    fwd,        \* the forwarder
    away,       \* the ends whose agent has left
    sent,       \* how many messages the manager accepted
    closed,     \* the ends whose agent closed the stream
    wire,       \* the parts written by an end and not read
    up          \* the TCP connection is up

bridgeVars == <<bridge, out, got, aligned, inhand>>
tableVars == <<table, waiting, data, sent, closed>>
recvVars == <<recv, recvd, fwd, away>>
vars == <<bridgeVars, tableVars, recvVars, wire, up>>

Garbage == 0

\* Parts on the wire: frames without a body, headers and bodies of data.
Part(kind, n) == [kind |-> kind, n |-> n]

\* An authenticated connection, before the RelayOpen.
Init ==
    /\ bridge = [i |-> "dial", r |-> "accept"]
    /\ out = [e \in Ends |-> 0]
    /\ got = [e \in Ends |-> FALSE]
    /\ aligned = [e \in Ends |-> TRUE]
    /\ inhand = [e \in Ends |-> 0]
    /\ table = [e \in Ends |-> FALSE]
    /\ waiting = [e \in Ends |-> FALSE]
    /\ data = [e \in Ends |-> <<>>]
    /\ recv = [e \in Ends |-> <<>>]
    /\ recvd = [e \in Ends |-> <<>>]
    /\ fwd = [e \in Ends |-> "none"]
    /\ away = {}
    /\ sent = [e \in Ends |-> 0]
    /\ closed = {}
    /\ wire = [e \in Ends |-> <<>>]
    /\ up = TRUE

----------------------------------------------------------------------------
(* The socket *)

\* An end that is done has dropped both halves of its socket.
Shut(e) == bridge[e] = "done"
Broken(e) == ~up \/ Shut(Peer(e))

CanWrite(e) == ~Broken(e) /\ Len(wire[e]) < WireCap
Write(e, p) == wire' = [wire EXCEPT ![e] = Append(@, p)]

Inbound(e) == wire[Peer(e)]
Arrived(e, kind) == Inbound(e) # <<>> /\ Head(Inbound(e)).kind = kind
Consume(e) == wire' = [wire EXCEPT ![Peer(e)] = Tail(@)]

Goto(e, b) == bridge' = [bridge EXCEPT ![e] = b]

----------------------------------------------------------------------------
(* dial_direct and handle_inbound_relay *)

DialOpen ==
    /\ bridge["i"] = "dial"
    /\ CanWrite("i")
    /\ Write("i", Part("open", 0))
    /\ Goto("i", "awaiting")
    /\ UNCHANGED <<out, got, aligned, inhand, tableVars, recvVars, up>>

\* The stream enters the table and its bridge and forwarder are started.
Started(e) ==
    /\ table' = [table EXCEPT ![e] = TRUE]
    /\ fwd' = [fwd EXCEPT ![e] = "run"]
    /\ Goto(e, "select")

AcceptOpen ==
    /\ bridge["r"] = "accept"
    /\ Arrived("r", "open")
    /\ CanWrite("r")
    /\ wire' = [wire EXCEPT !["i"] = Tail(@), !["r"] = Append(@, Part("ack", 0))]
    /\ Started("r")
    /\ UNCHANGED <<out, got, aligned, inhand, waiting, data, sent, closed, recv,
                   recvd, away, up>>

DialAck ==
    /\ bridge["i"] = "awaiting"
    /\ Arrived("i", "ack")
    /\ Consume("i")
    /\ Started("i")
    /\ UNCHANGED <<out, got, aligned, inhand, waiting, data, sent, closed, recv,
                   recvd, away, up>>

\* The dial or the accept fails with its connection and enters nothing.
SetUpFails(e) ==
    /\ bridge[e] \in {"dial", "awaiting", "accept"}
    /\ Broken(e)
    /\ Goto(e, "done")
    /\ UNCHANGED <<out, got, aligned, inhand, tableVars, recvVars, wire, up>>

----------------------------------------------------------------------------
(* run_stream_bridge *)

\* The select takes the agent's data.  It drops the pending read: a header that
\* the read had taken is lost and the next byte is of a body.
TakeData(e) ==
    /\ bridge[e] = "select"
    /\ data[e] # <<>>
    /\ out' = [out EXCEPT ![e] = Head(data[e])]
    /\ data' = [data EXCEPT ![e] = Tail(@)]
    /\ Goto(e, "header")
    /\ got' = [got EXCEPT ![e] = FALSE]
    /\ aligned' = [aligned EXCEPT ![e] = @ /\ ~got[e]]
    /\ UNCHANGED <<inhand, table, waiting, sent, closed, recvVars, wire, up>>

\* write_frame of the data, header first.  It is awaited: the bridge does
\* nothing else while the buffers are full.
WriteHeader(e) ==
    /\ bridge[e] = "header"
    /\ CanWrite(e)
    /\ Write(e, Part("header", 0))
    /\ Goto(e, "body")
    /\ UNCHANGED <<out, got, aligned, inhand, tableVars, recvVars, up>>

WriteBody(e) ==
    /\ bridge[e] = "body"
    /\ CanWrite(e)
    /\ Write(e, Part("body", out[e]))
    /\ Goto(e, "select")
    /\ UNCHANGED <<out, got, aligned, inhand, tableVars, recvVars, up>>

WriteFails(e) ==
    /\ bridge[e] \in {"header", "body"}
    /\ Broken(e)
    /\ Goto(e, "ending")
    /\ UNCHANGED <<out, got, aligned, inhand, tableVars, recvVars, wire, up>>

\* data_tx is gone and the channel empty: a RelayClose is tried and the loop
\* left.
TakeClose(e) ==
    /\ bridge[e] = "select"
    /\ ~table[e]
    /\ data[e] = <<>>
    /\ Goto(e, "closing")
    /\ UNCHANGED <<out, got, aligned, inhand, tableVars, recvVars, wire, up>>

WriteClose(e) ==
    /\ bridge[e] = "closing"
    /\ \/ CanWrite(e) /\ Write(e, Part("close", 0))
       \/ Broken(e) /\ UNCHANGED wire
    /\ Goto(e, "ending")
    /\ UNCHANGED <<out, got, aligned, inhand, tableVars, recvVars, up>>

Reading(e) == bridge[e] = "select" /\ aligned[e]

\* The pending read takes a header.
ReadHeader(e) ==
    /\ Reading(e)
    /\ ~got[e]
    /\ Arrived(e, "header")
    /\ Consume(e)
    /\ got' = [got EXCEPT ![e] = TRUE]
    /\ UNCHANGED <<bridge, out, aligned, inhand, tableVars, recvVars, up>>

\* It completes with a body; the bridge then waits for room.
ReadBody(e) ==
    /\ Reading(e)
    /\ got[e]
    /\ Arrived(e, "body")
    /\ Consume(e)
    /\ got' = [got EXCEPT ![e] = FALSE]
    /\ inhand' = [inhand EXCEPT ![e] = Head(Inbound(e)).n]
    /\ Goto(e, "deliver")
    /\ UNCHANGED <<out, aligned, tableVars, recvVars, up>>

ReadClose(e) ==
    /\ Reading(e)
    /\ Arrived(e, "close")
    /\ Consume(e)
    /\ Goto(e, "ending")
    /\ UNCHANGED <<out, got, aligned, inhand, tableVars, recvVars, up>>

\* A read that begins in a body finds no frame, or one that nobody sent.
ReadMisaligned(e) ==
    /\ bridge[e] = "select"
    /\ ~aligned[e]
    /\ Inbound(e) # <<>>
    /\ Consume(e)
    /\ \/ Goto(e, "ending") /\ UNCHANGED inhand
       \/ Goto(e, "deliver") /\ inhand' = [inhand EXCEPT ![e] = Garbage]
    /\ UNCHANGED <<out, got, aligned, tableVars, recvVars, up>>

\* Mutation: the end of the connection is not an error.
ReadFails_Ignored(e) ==
    /\ bridge[e] = "select"
    /\ ~up
    /\ Goto(e, "ending")
    /\ UNCHANGED <<out, got, aligned, inhand, tableVars, recvVars, wire, up>>

\* The connection has ended and there is nothing left to read.
ReadFails(e) ==
    /\ bridge[e] = "select"
    /\ Broken(e)
    /\ ~up \/ Inbound(e) = <<>>
    /\ Goto(e, "ending")
    /\ UNCHANGED <<out, got, aligned, inhand, tableVars, recvVars, wire, up>>

\* Mutation: a message that finds no room is dropped.
Deliver_DropsWhenFull(e) ==
    /\ bridge[e] = "deliver"
    /\ fwd[e] = "run"
    /\ recv' = IF Len(recv[e]) < Cap
               THEN [recv EXCEPT ![e] = Append(@, inhand[e])] ELSE recv
    /\ Goto(e, "select")
    /\ UNCHANGED <<out, got, aligned, inhand, tableVars, recvd, fwd, away, wire, up>>

\* The message enters the receive channel when there is room.
Deliver(e) ==
    /\ bridge[e] = "deliver"
    /\ fwd[e] = "run"
    /\ Len(recv[e]) < Cap
    /\ recv' = [recv EXCEPT ![e] = Append(@, inhand[e])]
    /\ Goto(e, "select")
    /\ UNCHANGED <<out, got, aligned, inhand, tableVars, recvd, fwd, away, wire, up>>

\* The forwarder has dropped the receive channel.
DeliverFails(e) ==
    /\ bridge[e] = "deliver"
    /\ fwd[e] = "gone"
    /\ Goto(e, "ending")
    /\ UNCHANGED <<out, got, aligned, inhand, tableVars, recvVars, wire, up>>

\* Out of the loop, the bridge removes the stream when the table is free and
\* drops its channels and its socket.  Bytes it has not read may take those it
\* has written with them.
BridgeDone(e) ==
    /\ bridge[e] = "ending"
    /\ ~waiting[e]
    /\ table' = [table EXCEPT ![e] = FALSE]
    /\ data' = [data EXCEPT ![e] = <<>>]
    /\ Goto(e, "done")
    /\ \/ UNCHANGED wire
       \/ Inbound(e) # <<>> /\ wire' = [wire EXCEPT ![e] = <<>>]
    /\ UNCHANGED <<out, got, aligned, inhand, waiting, sent, closed, recvVars, up>>

----------------------------------------------------------------------------
(* The agents *)

\* DaemonManager::send with room in the channel ...
AgentSend(e) ==
    /\ e \notin away
    /\ table[e] /\ ~waiting[e]
    /\ sent[e] < MaxSend[e]
    /\ Len(data[e]) < Cap
    /\ sent' = [sent EXCEPT ![e] = @ + 1]
    /\ data' = [data EXCEPT ![e] = Append(@, sent[e] + 1)]
    /\ UNCHANGED <<bridgeVars, table, waiting, closed, recvVars, wire, up>>

\* ... or without, and then it keeps the lock.
AgentSendWaits(e) ==
    /\ e \notin away
    /\ table[e] /\ ~waiting[e]
    /\ sent[e] < MaxSend[e]
    /\ Len(data[e]) = Cap
    /\ waiting' = [waiting EXCEPT ![e] = TRUE]
    /\ UNCHANGED <<bridgeVars, table, data, sent, closed, recvVars, wire, up>>

SendResumes(e) ==
    /\ waiting[e]
    /\ Len(data[e]) < Cap
    /\ waiting' = [waiting EXCEPT ![e] = FALSE]
    /\ sent' = [sent EXCEPT ![e] = @ + 1]
    /\ data' = [data EXCEPT ![e] = Append(@, sent[e] + 1)]
    /\ UNCHANGED <<bridgeVars, table, closed, recvVars, wire, up>>

\* DaemonManager::close_stream
AgentClose(e) ==
    /\ e \notin away
    /\ e \in Closers
    /\ table[e] /\ ~waiting[e]
    /\ table' = [table EXCEPT ![e] = FALSE]
    /\ closed' = closed \union {e}
    /\ UNCHANGED <<bridgeVars, waiting, data, sent, recvVars, wire, up>>

\* forward_recv_to_ipc: a message is written to the agent ...
Forward(e) ==
    /\ fwd[e] = "run"
    /\ recv[e] # <<>>
    /\ e \notin away
    /\ recv' = [recv EXCEPT ![e] = Tail(@)]
    /\ recvd' = [recvd EXCEPT ![e] = Append(@, Head(recv[e]))]
    /\ UNCHANGED <<bridgeVars, tableVars, fwd, away, wire, up>>

\* ... or the write fails and the forwarder ends.
ForwardFails(e) ==
    /\ fwd[e] = "run"
    /\ recv[e] # <<>>
    /\ e \in away
    /\ fwd' = [fwd EXCEPT ![e] = "gone"]
    /\ recv' = [recv EXCEPT ![e] = <<>>]
    /\ UNCHANGED <<bridgeVars, tableVars, recvd, away, wire, up>>

\* The receive channel is empty and its sender gone: Closed is written.
ForwardClosed(e) ==
    /\ fwd[e] = "run"
    /\ recv[e] = <<>>
    /\ bridge[e] = "done"
    /\ fwd' = [fwd EXCEPT ![e] = "closed"]
    /\ UNCHANGED <<bridgeVars, tableVars, recv, recvd, away, wire, up>>

\* The agent's IPC connection ends: handle_client returns and nothing else
\* happens.
AgentLeaves(e) ==
    /\ e \in Leavers \ away
    /\ fwd[e] = "run"
    /\ ~waiting[e]
    /\ away' = away \union {e}
    /\ UNCHANGED <<bridgeVars, tableVars, recv, recvd, fwd, wire, up>>

Drop ==
    /\ MayDrop
    /\ up
    /\ up' = FALSE
    /\ UNCHANGED <<bridgeVars, tableVars, recvVars, wire>>

----------------------------------------------------------------------------

BridgeStep(e) ==
    \/ e = "i" /\ (DialOpen \/ DialAck)
    \/ e = "r" /\ AcceptOpen
    \/ SetUpFails(e)
    \/ TakeData(e) \/ WriteHeader(e) \/ WriteBody(e) \/ WriteFails(e)
    \/ TakeClose(e) \/ WriteClose(e)
    \/ ReadHeader(e) \/ ReadBody(e) \/ ReadClose(e) \/ ReadMisaligned(e)
    \/ ReadFails(e)
    \/ Deliver(e) \/ DeliverFails(e)
    \/ BridgeDone(e)

Next ==
    \/ \E e \in Ends :
          \/ BridgeStep(e)
          \/ AgentSend(e) \/ AgentSendWaits(e) \/ SendResumes(e)
          \/ AgentClose(e) \/ AgentLeaves(e)
          \/ Forward(e) \/ ForwardFails(e) \/ ForwardClosed(e)
    \/ Drop

Spec == Init /\ [][Next]_vars

\* tokio runs every task that can run, and an agent that is there reads what it
\* is sent.
FairSpec ==
    /\ Spec
    /\ \A e \in Ends :
          /\ WF_vars(BridgeStep(e))
          /\ WF_vars(SendResumes(e))
          /\ WF_vars(Forward(e) \/ ForwardFails(e) \/ ForwardClosed(e))

----------------------------------------------------------------------------
(* Properties *)

\* The variables have their types and no channel is over its capacity.
TypeOK ==
    /\ bridge \in [Ends -> {"dial", "awaiting", "accept", "select", "header",
                            "body", "closing", "deliver", "ending", "done"}]
    /\ got \in [Ends -> BOOLEAN]
    /\ aligned \in [Ends -> BOOLEAN]
    /\ table \in [Ends -> BOOLEAN]
    /\ waiting \in [Ends -> BOOLEAN]
    /\ fwd \in [Ends -> {"none", "run", "gone", "closed"}]
    /\ closed \subseteq Closers
    /\ away \subseteq Leavers
    /\ up \in BOOLEAN
    /\ \A e \in Ends :
          /\ out[e] \in 0..MaxSend[e]
          /\ inhand[e] \in 0..MaxSend[Peer(e)]
          /\ sent[e] \in 0..MaxSend[e]
          /\ data[e] \in Seq(1..MaxSend[e]) /\ Len(data[e]) <= Cap
          /\ recv[e] \in Seq(0..MaxSend[Peer(e)]) /\ Len(recv[e]) <= Cap
          /\ recvd[e] \in Seq(0..MaxSend[Peer(e)])
          /\ Len(wire[e]) <= WireCap

\* As long as a bridge has not lost its place in the bytes, what it has passed
\* on is exactly the first messages the other agent sent, in order.
AlignedDeliversPrefix ==
    \A e \in Ends :
        aligned[e] =>
            LET s == recvd[e] \o recv[e] IN
            /\ s = [k \in 1..Len(s) |-> k]
            /\ Len(s) <= sent[Peer(e)]

\* When one bridge is done the other leaves its loop too, wherever it is: a
\* write into full buffers fails and a read ends.
EndsTogether ==
    \A e \in Ends :
        (bridge[e] = "done") ~> (bridge[Peer(e)] \in {"ending", "done"})

----------------------------------------------------------------------------
(* What the repository says and the code does not do *)

\* A bridge leaves its loop only when an agent has closed the stream or the
\* connection is lost: "A stream is closed when" (daemon-ipc.md:117).
EndsForAReason ==
    \A e \in Ends : bridge[e] = "ending" => (closed # {} \/ away # {} \/ ~up)

\* A send on a stream that has ended fails: "send_failed | Stream closed or not
\* found" (daemon-ipc.md:97); it does not wait for ever.
SendReturns == \A e \in Ends : waiting[e] ~> ~waiting[e]

\* Data flows both ways at once: "RelayData / RelayData / ... (bidirectional)"
\* (daemon-ipc.md:134).
FlowsBothWays ==
    \A e \in Ends : \A n \in 1..MaxSend[e] :
        (sent[e] >= n) ~>
            (\/ \E k \in DOMAIN recvd[Peer(e)] : recvd[Peer(e)][k] = n
             \/ ~aligned[Peer(e)] \/ closed # {} \/ ~up)
=============================================================================
