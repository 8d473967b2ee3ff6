---------------------------- MODULE ControlPlane ----------------------------
(***************************************************************************)
(* The control channel of one robot on the platform side: the hub's entry  *)
(* for the robot, the goroutines that serve each agent connection          *)
(* (go/relay/relay.go, handleAgentControlConnect, readAgentControlPump,    *)
(* writeAgentControlPump) and the ControlConnected flag they maintain in   *)
(* connstate.                                                              *)
(*                                                                         *)
(* Each connection is served by two goroutines, the handler (which runs    *)
(* the read pump) and the write pump; handler[c] and writer[c] say where   *)
(* they are.  A step is what a goroutine does between two points where     *)
(* another may run: one locked section of the hub, one call into           *)
(* connstate, one read or write of the socket.                             *)
(*                                                                         *)
(* Hub and connstate are keyed by robot id and robots never share an       *)
(* entry, so one robot is modelled.  Of connstate only the flag            *)
(* ControlConnected is kept, whose changes do not depend on the times; the *)
(* times are the subject of ConnState.  What is sent and received is the   *)
(* subject of CommandExchange and RelayStream: here a pump step may carry  *)
(* any message or a ping.                                                  *)
(***************************************************************************)
EXTENDS Integers

CONSTANTS
    Conns,            \* the connections the agent makes, each one once
    NoConn,           \* nil
    Policies          \* texts the concurrency policy setting may have

ASSUME NoConnAssumption == NoConn \notin Conns

VARIABLES
    setting,    \* the concurrency policy setting, read from the environment
    hub,        \* h.conns[robot]
    handler,    \* where the handler goroutine of each connection is
    prev,       \* the connection the handler found in the hub
    writer,     \* where the write pump of each connection is
    closed,     \* done is closed and so is the socket
    connected   \* connstate's ControlConnected

vars == <<setting, hub, handler, prev, writer, closed, connected>>

HandlerPhase == {"idle", "rejected", "accepted", "announcing", "reading",
                 "touching", "unregistering", "marking", "closing", "gone"}

WriterPhase == {"off", "selecting", "wrote", "exited"}

\* The handler has been entered in the hub and has not yet left it.
Serving == {"accepted", "announcing", "reading", "touching", "unregistering"}

TypeOK ==
    /\ setting \in Policies
    /\ hub \in Conns \cup {NoConn}
    /\ handler \in [Conns -> HandlerPhase]
    /\ prev \in [Conns -> Conns \cup {NoConn}]
    /\ writer \in [Conns -> WriterPhase]
    /\ closed \in [Conns -> BOOLEAN]
    /\ connected \in BOOLEAN

\* Mutation: the default is swapped.
normalizePolicy_DefaultPreempts(p) ==
    IF p = "reject_new" THEN "reject_new" ELSE "preempt_existing"

\* Only the name of the other policy selects it; an empty or unknown setting
\* rejects the new connection.
normalizePolicy(p) ==
    IF p = "preempt_existing" THEN "preempt_existing" ELSE "reject_new"

Policy == normalizePolicy(setting)

-----------------------------------------------------------------------------
Init ==
    /\ setting \in Policies
    /\ hub = NoConn
    /\ handler = [c \in Conns |-> "idle"]
    /\ prev = [c \in Conns |-> NoConn]
    /\ writer = [c \in Conns |-> "off"]
    /\ closed = [c \in Conns |-> FALSE]
    /\ connected = FALSE

\* RegisterWithPolicy: under h.mu the handler is entered in the hub, or turned
\* away when the policy protects the connection that is there.
Register(c) ==
    /\ handler[c] = "idle"
    /\ prev' = [prev EXCEPT ![c] = hub]
    /\ IF hub # NoConn /\ Policy = "reject_new"
       THEN /\ handler' = [handler EXCEPT ![c] = "rejected"]
            /\ UNCHANGED hub
       ELSE /\ handler' = [handler EXCEPT ![c] = "accepted"]
            /\ hub' = c
    /\ UNCHANGED <<setting, writer, closed, connected>>

\* A rejected handler reports the contention and closes its own socket.
Reject(c) ==
    /\ handler[c] = "rejected"
    /\ handler' = [handler EXCEPT ![c] = "gone"]
    /\ closed' = [closed EXCEPT ![c] = TRUE]
    /\ UNCHANGED <<setting, hub, prev, writer, connected>>

\* Mutation: the replaced connection is left open.
ClosePrev_LeavesOpen(c) ==
    /\ handler[c] = "accepted"
    /\ handler' = [handler EXCEPT ![c] = "announcing"]
    /\ UNCHANGED <<setting, hub, prev, writer, closed, connected>>

\* An accepted handler closes the connection it replaced.
ClosePrev(c) ==
    /\ handler[c] = "accepted"
    /\ handler' = [handler EXCEPT ![c] = "announcing"]
    /\ closed' = [d \in Conns |-> closed[d] \/ d = prev[c]]
    /\ UNCHANGED <<setting, hub, prev, writer, connected>>

\* Mutation: the write pump is not started (nothing will ever ping or touch).
Announce_NoWriter(c) ==
    /\ handler[c] = "announcing"
    /\ handler' = [handler EXCEPT ![c] = "reading"]
    /\ connected' = TRUE
    /\ UNCHANGED <<setting, hub, prev, writer, closed>>

\* UpsertControlConnected, then the two pumps start.
Announce(c) ==
    /\ handler[c] = "announcing"
    /\ handler' = [handler EXCEPT ![c] = "reading"]
    /\ writer' = [writer EXCEPT ![c] = "selecting"]
    /\ connected' = TRUE
    /\ UNCHANGED <<setting, hub, prev, closed>>

\* ReadMessage returns a message, or a ping or pong handler runs.  Frames that
\* were already buffered are still returned after the socket is closed.
ReadOk(c) ==
    /\ handler[c] = "reading"
    /\ handler' = [handler EXCEPT ![c] = "touching"]
    /\ UNCHANGED <<setting, hub, prev, writer, closed, connected>>

\* TouchControlActivity by the read pump.
ReadTouch(c) ==
    /\ handler[c] = "touching"
    /\ handler' = [handler EXCEPT ![c] = "reading"]
    /\ connected' = TRUE
    /\ UNCHANGED <<setting, hub, prev, writer, closed>>

\* ReadMessage fails; the read pump closes the connection and returns.
ReadFails(c) ==
    /\ handler[c] = "reading"
    /\ handler' = [handler EXCEPT ![c] = "unregistering"]
    /\ closed' = [closed EXCEPT ![c] = TRUE]
    /\ UNCHANGED <<setting, hub, prev, writer, connected>>

\* Mutation: the entry is removed whoever owns it.
Unregister_AnyOwner(c) ==
    /\ handler[c] = "unregistering"
    /\ hub' = NoConn
    /\ handler' = [handler EXCEPT ![c] = "marking"]
    /\ UNCHANGED <<setting, prev, writer, closed, connected>>

\* Mutation: the entry of a connection that failed is left in the hub.
Unregister_Forgotten(c) ==
    /\ handler[c] = "unregistering"
    /\ handler' = [handler EXCEPT ![c] = "closing"]
    /\ UNCHANGED <<setting, hub, prev, writer, closed, connected>>

\* Unregister: the entry is removed only if it is still this connection.
Unregister(c) ==
    /\ handler[c] = "unregistering"
    /\ IF hub = c
       THEN /\ hub' = NoConn
            /\ handler' = [handler EXCEPT ![c] = "marking"]
       ELSE /\ handler' = [handler EXCEPT ![c] = "closing"]
            /\ UNCHANGED hub
    /\ UNCHANGED <<setting, prev, writer, closed, connected>>

\* SetControlDisconnected, by the handler that removed the entry.
MarkDisconnected(c) ==
    /\ handler[c] = "marking"
    /\ handler' = [handler EXCEPT ![c] = "closing"]
    /\ connected' = FALSE
    /\ UNCHANGED <<setting, hub, prev, writer, closed>>

Leave(c) ==
    /\ handler[c] = "closing"
    /\ handler' = [handler EXCEPT ![c] = "gone"]
    /\ closed' = [closed EXCEPT ![c] = TRUE]
    /\ UNCHANGED <<setting, hub, prev, writer, connected>>

\* The write pump takes a message or a tick and the write succeeds.
WriteOk(c) ==
    /\ writer[c] = "selecting"
    /\ ~closed[c]
    /\ writer' = [writer EXCEPT ![c] = "wrote"]
    /\ UNCHANGED <<setting, hub, handler, prev, closed, connected>>

\* TouchControlActivity by the write pump.
WriteTouch(c) ==
    /\ writer[c] = "wrote"
    /\ writer' = [writer EXCEPT ![c] = "selecting"]
    /\ connected' = TRUE
    /\ UNCHANGED <<setting, hub, handler, prev, closed>>

\* The write fails, or done is closed: the write pump closes the connection.
WriterExits(c) ==
    /\ writer[c] = "selecting"
    /\ writer' = [writer EXCEPT ![c] = "exited"]
    /\ closed' = [closed EXCEPT ![c] = TRUE]
    /\ UNCHANGED <<setting, hub, handler, prev, connected>>

HandlerStep(c) ==
    \/ Reject(c) \/ ClosePrev(c) \/ Announce(c) \/ ReadTouch(c)
    \/ Unregister(c) \/ MarkDisconnected(c) \/ Leave(c)

WriterStep(c) == WriteOk(c) \/ WriteTouch(c)

Next ==
    \E c \in Conns :
        \/ Register(c) \/ ReadOk(c) \/ ReadFails(c) \/ WriterExits(c)
        \/ HandlerStep(c) \/ WriterStep(c)

\* A goroutine that is not waiting for its peer goes on; the ping ticker keeps
\* the write pump going while the socket is open; a closed socket makes the
\* blocked read fail once its buffer is drained, and wakes the write pump.
Fairness ==
    \A c \in Conns :
        /\ WF_vars(HandlerStep(c))
        /\ WF_vars(WriterStep(c))
        /\ SF_vars(closed[c] /\ ReadFails(c))
        /\ WF_vars(closed[c] /\ WriterExits(c))

Spec == Init /\ [][Next]_vars /\ Fairness

-----------------------------------------------------------------------------
\* The hub never holds a connection that nobody serves: the entry belongs to a
\* handler that has still to pass its Unregister, so commands are not queued
\* for good on a dead connection and, under reject_new, the robot is not locked
\* out (RegisterWithPolicy and Unregister against every exit of the pumps).
HubEntryIsServed ==
    hub # NoConn => handler[hub] \in Serving

\* A connection that is served but is no longer the hub's has been closed, or
\* the handler that replaced it is about to close it: two control channels of
\* one robot never stay open together (prev.close() in
\* handleAgentControlConnect).
SupersededIsClosed ==
    \A c \in Conns :
        handler[c] \in Serving /\ hub # c =>
            closed[c] \/ \E d \in Conns : handler[d] = "accepted" /\ prev[d] = c

\* Under reject_new, which is also what an unknown setting means, a connection
\* is accepted only when no other one is being served, however registration
\* and teardown interleave.
RejectNewProtectsIncumbent ==
    setting # "preempt_existing" =>
        \A c, d \in Conns :
            handler[c] \in Serving /\ handler[d] \in Serving => c = d

\* The hub's entry changes only by the handler it belongs to, when that handler
\* unregisters, or by a new connection under preempt_existing: a handler that
\* was replaced never removes its successor, however late it unregisters.
OnlyOwnerLeavesHub ==
    [][hub # NoConn /\ hub' # hub =>
          \/ hub' = NoConn /\ handler[hub] = "unregistering"
                           /\ handler'[hub] # "unregistering"
          \/ hub' # NoConn /\ setting = "preempt_existing"]_vars

\* A registered robot is not left marked as disconnected: SetControlDisconnected
\* of an old connection may run after the new one announced itself, but the
\* pings of the new one restore the flag, or that connection ends too.
ConnectedFlagRecovers ==
    (hub # NoConn) ~> (connected \/ hub = NoConn)

\* Seen from the users of the hub, the goroutines below implement the plain life
\* of a connection that ControlChannel specifies: whatever the interleaving,
\* an entry goes from registered to replaced or ended and never comes back,
\* and it is only unregistered after its socket was closed.
linkOf ==
    [c \in Conns |->
        IF handler[c] \in {"idle", "rejected"} THEN "new"
        ELSE IF handler[c] \notin Serving THEN "gone"
        ELSE IF closed[c] THEN "down" ELSE "up"]

Channel == INSTANCE ControlChannel WITH link <- linkOf

ImplementsChannel == Channel!ChannelSpec

\* "expected control disconnect to make online state converge immediately"
\* (go/connstate/state_test.go:132): once every connection of the robot has left
\* the hub and all their goroutines have ended, the robot is not marked as
\* connected.
DisconnectConverges ==
    (/\ hub = NoConn
     /\ \A c \in Conns : /\ handler[c] \in {"idle", "gone"}
                         /\ writer[c] \in {"off", "exited"})
    => ~connected
=============================================================================
