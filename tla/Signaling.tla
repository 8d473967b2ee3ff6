----------------------------- MODULE Signaling -----------------------------
(***************************************************************************)
(* WebRTC signaling for one robot (go/webrtc/signaling.go and session.go): *)
(* the registry's Session object, its two sides, the goroutines that serve *)
(* each peer, and the active session they maintain in the relay hub.       *)
(*                                                                         *)
(* handler[p] is the goroutine of SignalingHandler for peer p, writer[p]   *)
(* its write pump; a locked section, a send on a queue or a socket         *)
(* operation is a step.  Session objects are numbered as they are created. *)
(* Signals are counted, not told apart, and a handler's locals prev, other *)
(* and last are forgotten when it has used them for the last time.  The    *)
(* bootstrap trigger of a new client has no effect on this state and is    *)
(* left out, its teardown is kept for the session it clears.  What         *)
(* activation does to the relays of other sessions is in RelayStream.      *)
(***************************************************************************)
EXTENDS Naturals, FiniteSets

CONSTANTS
    Agents,    \* peers with role=agent, each connects once
    Clients,   \* peers with role=client, each connects once
    NoPeer,    \* nil
    Boot,      \* the bootstrap id of every peer
    Source,    \* the address every peer connects from
    NoBoot,    \* no active session
    QueueCap   \* capacity of peer.send, 32 in the code

Peers == Agents \cup Clients
SessionIds == 1..Cardinality(Peers)

ASSUME PeerAssumption ==
    /\ IsFiniteSet(Peers)
    /\ Agents \cap Clients = {}
    /\ NoPeer \notin Peers
    /\ \A p \in Peers : Boot[p] # NoBoot
ASSUME BoundAssumption ==
    QueueCap \in Nat \ {0}

VARIABLES
    registry,     \* the Session object registered for the robot, 0 for none
    created,      \* how many Session objects there have been
    sessionOf,    \* the object a handler got from the registry
    agent,        \* Session.agent of every object
    client,       \* Session.client of every object
    handler,      \* where the handler is
    prev,         \* the peer it replaced
    other,        \* counterpart, and later notifyPeer
    last,         \* removeSession
    writer,       \* where the write pump is
    done,         \* peer.done is closed
    open,         \* the socket is open
    queue,        \* how many signals are in peer.send
    tearing,      \* clients whose teardown goroutine has yet to run
    active        \* activeSessions[robot] in the relay hub

sessionVars == <<registry, created, agent, client>>
vars == <<registry, created, sessionOf, agent, client, handler, prev, other, last, writer, done, open, queue, tearing, active>>

Phase == {"idle", "got", "placed", "activating", "announcing",
          "reading", "leaving", "bye", "removing", "gone"}

\* The handler has put its peer in a Session and has yet to take it out.
Placed == {"placed", "activating", "announcing", "reading", "leaving"}

TypeOK ==
    /\ registry \in SessionIds \cup {0}
    /\ created \in 0..Cardinality(Peers)
    /\ sessionOf \in [Peers -> SessionIds \cup {0}]
    /\ agent \in [SessionIds -> Agents \cup {NoPeer}]
    /\ client \in [SessionIds -> Clients \cup {NoPeer}]
    /\ handler \in [Peers -> Phase]
    /\ prev \in [Peers -> Peers \cup {NoPeer}]
    /\ other \in [Peers -> Peers \cup {NoPeer}]
    /\ last \in [Peers -> BOOLEAN]
    /\ writer \in [Peers -> {"off", "selecting", "exited"}]
    /\ done \in [Peers -> BOOLEAN]
    /\ open \in [Peers -> BOOLEAN]
    /\ queue \in [Peers -> 0..QueueCap]
    /\ tearing \subseteq Clients
    /\ active \in {Boot[p] : p \in Clients} \cup {NoBoot}

Init ==
    /\ registry = 0
    /\ created = 0
    /\ sessionOf = [p \in Peers |-> 0]
    /\ agent = [s \in SessionIds |-> NoPeer]
    /\ client = [s \in SessionIds |-> NoPeer]
    /\ handler = [p \in Peers |-> "idle"]
    /\ prev = [p \in Peers |-> NoPeer]
    /\ other = [p \in Peers |-> NoPeer]
    /\ last = [p \in Peers |-> FALSE]
    /\ writer = [p \in Peers |-> "off"]
    /\ done = [p \in Peers |-> FALSE]
    /\ open = [p \in Peers |-> TRUE]
    /\ queue = [p \in Peers |-> 0]
    /\ tearing = {}
    /\ active = NoBoot

-----------------------------------------------------------------------------
\* enqueueSignal: a message for a peer whose queue is full is dropped.
enqueueSignal(p) ==
    queue' = IF p # NoPeer /\ queue[p] < QueueCap
             THEN [queue EXCEPT ![p] = @ + 1]
             ELSE queue

\* A reconnect from the same address or with the same bootstrap id as the
\* incumbent counts as a duplicate if it comes soon enough.  The two times were
\* read before the lock was taken, so their difference may be anything, and
\* within is the outcome of comparing it with the window.
shouldDebounce(existing, incoming, within) ==
    /\ existing # NoPeer
    /\ within
    /\ \/ Source[existing] = Source[incoming]
       \/ Boot[existing] = Boot[incoming]

Side(p, s) == IF p \in Agents THEN agent[s] ELSE client[s]
OtherSide(p, s) == IF p \in Agents THEN client[s] ELSE agent[s]

SetSide(p, s, q) ==
    IF p \in Agents
    THEN agent' = [agent EXCEPT ![s] = q] /\ UNCHANGED client
    ELSE client' = [client EXCEPT ![s] = q] /\ UNCHANGED agent

Goto(p, phase) == handler' = [handler EXCEPT ![p] = phase]

\* The peer is upgraded and its handler calls Registry.GetOrCreate.
GetOrCreate(p) ==
    /\ handler[p] = "idle"
    /\ Goto(p, "got")
    /\ IF registry # 0
       THEN /\ sessionOf' = [sessionOf EXCEPT ![p] = registry]
            /\ UNCHANGED <<registry, created>>
       ELSE /\ created' = created + 1
            /\ registry' = created + 1
            /\ sessionOf' = [sessionOf EXCEPT ![p] = created + 1]
    /\ UNCHANGED <<agent, client, prev, other, last, writer, done, open, queue,
                   tearing, active>>

\* Under session.mu the peer takes its side of the Session, or is turned away
\* as a duplicate and hung up on.
Place(p) ==
    /\ handler[p] = "got"
    /\ \E within \in BOOLEAN :
       LET s == sessionOf[p]
       IN  IF shouldDebounce(Side(p, s), p, within)
           THEN /\ Goto(p, "gone")
                /\ open' = [open EXCEPT ![p] = FALSE]
                /\ UNCHANGED <<agent, client, prev, other>>
           ELSE /\ Goto(p, "placed")
                /\ prev' = [prev EXCEPT ![p] = Side(p, s)]
                /\ other' = [other EXCEPT ![p] = OtherSide(p, s)]
                /\ SetSide(p, s, p)
                /\ UNCHANGED open
    /\ UNCHANGED <<registry, created, sessionOf, last, writer, done, queue,
                   tearing, active>>

\* A replaced client is told; a replaced peer of either role is closed.  The
\* handler of an agent then starts its pumps.
ClosePrev(p) ==
    /\ handler[p] = "placed"
    /\ Goto(p, IF p \in Clients THEN "activating" ELSE "reading")
    /\ writer' = [writer EXCEPT ![p] = IF p \in Clients THEN @ ELSE "selecting"]
    /\ IF p \in Clients THEN enqueueSignal(prev[p])
                        ELSE UNCHANGED queue
    /\ done' = [q \in Peers |-> done[q] \/ q = prev[p]]
    /\ prev' = [prev EXCEPT ![p] = NoPeer]
    /\ UNCHANGED <<sessionVars, sessionOf, other, last, open, tearing, active>>

\* activate: the client's bootstrap id becomes the hub's active session.
Activate(p) ==
    /\ handler[p] = "activating"
    /\ Goto(p, "announcing")
    /\ active' = Boot[p]
    /\ UNCHANGED <<sessionVars, sessionOf, prev, other, last, writer, done,
                   open, queue, tearing>>

\* The agent that was there when the client took its side is told, and the
\* client's pumps start.
Announce(p) ==
    /\ handler[p] = "announcing"
    /\ Goto(p, "reading")
    /\ enqueueSignal(other[p])
    /\ writer' = [writer EXCEPT ![p] = "selecting"]
    /\ other' = [other EXCEPT ![p] = NoPeer]
    /\ UNCHANGED <<sessionVars, sessionOf, prev, last, done, open, tearing,
                   active>>

\* Session.relay: a message goes to whoever is on the other side now.
Relay(p) ==
    /\ handler[p] = "reading"
    /\ enqueueSignal(OtherSide(p, sessionOf[p]))
    /\ UNCHANGED <<sessionVars, sessionOf, handler, prev, other, last, writer,
                   done, open, tearing, active>>

\* ReadJSON fails; the read pump closes done and the socket.
ReadFails(p) ==
    /\ handler[p] = "reading"
    /\ Goto(p, "leaving")
    /\ done' = [done EXCEPT ![p] = TRUE]
    /\ open' = [open EXCEPT ![p] = FALSE]
    /\ UNCHANGED <<sessionVars, sessionOf, prev, other, last, writer, queue,
                   tearing, active>>

\* Mutation: the side is cleared whoever holds it.
Leave_AnyOwner(p) ==
    /\ handler[p] = "leaving"
    /\ LET s == sessionOf[p]
       IN  /\ SetSide(p, s, NoPeer)
           /\ other' = [other EXCEPT ![p] = OtherSide(p, s)]
           /\ last' = [last EXCEPT ![p] = OtherSide(p, s) = NoPeer]
           /\ Goto(p, "bye")
    /\ UNCHANGED <<registry, created, sessionOf, prev, writer, done, open,
                   queue, tearing, active>>

\* Under session.mu the peer gives up its side if it still has it, and finds out
\* whether the Session is empty now.
Leave(p) ==
    /\ handler[p] = "leaving"
    /\ LET s == sessionOf[p]
           current == Side(p, s) = p
           empty == OtherSide(p, s) = NoPeer /\ Side(p, s) \in {p, NoPeer}
       IN  IF current
           THEN /\ SetSide(p, s, NoPeer)
                /\ other' = [other EXCEPT ![p] = OtherSide(p, s)]
                /\ last' = [last EXCEPT ![p] = empty]
                /\ Goto(p, "bye")
           ELSE /\ Goto(p, IF empty THEN "removing" ELSE "gone")
                /\ UNCHANGED <<agent, client, other, last>>
    /\ UNCHANGED <<registry, created, sessionOf, prev, writer, done, open,
                   queue, tearing, active>>

\* A peer that was current says goodbye to the other side; a client also starts
\* the teardown of its session.
Bye(p) ==
    /\ handler[p] = "bye"
    /\ Goto(p, IF last[p] THEN "removing" ELSE "gone")
    /\ enqueueSignal(other[p])
    /\ tearing' = IF p \in Clients THEN tearing \cup {p} ELSE tearing
    /\ other' = [other EXCEPT ![p] = NoPeer]
    /\ last' = [last EXCEPT ![p] = FALSE]
    /\ UNCHANGED <<sessionVars, sessionOf, prev, writer, done, open, active>>

\* Registry.Remove, by robot id, whatever Session is registered by now.
Remove(p) ==
    /\ handler[p] = "removing"
    /\ Goto(p, "gone")
    /\ registry' = 0
    /\ UNCHANGED <<created, agent, client, sessionOf, prev, other, last, writer,
                   done, open, queue, tearing, active>>

-----------------------------------------------------------------------------
\* The write pump sends the oldest message.
WriterSends(p) ==
    /\ writer[p] = "selecting"
    /\ open[p]
    /\ queue[p] > 0
    /\ queue' = [queue EXCEPT ![p] = @ - 1]
    /\ UNCHANGED <<sessionVars, sessionOf, handler, prev, other, last, writer,
                   done, open, tearing, active>>

\* Mutation: the write pump returns and leaves the socket open.
WriterExits_LeavesOpen(p) ==
    /\ writer[p] = "selecting"
    /\ writer' = [writer EXCEPT ![p] = "exited"]
    /\ UNCHANGED <<sessionVars, sessionOf, handler, prev, other, last, done,
                   open, queue, tearing, active>>

\* A write or a ping fails, or done is closed: the write pump closes the socket.
WriterExits(p) ==
    /\ writer[p] = "selecting"
    /\ writer' = [writer EXCEPT ![p] = "exited"]
    /\ open' = [open EXCEPT ![p] = FALSE]
    /\ UNCHANGED <<sessionVars, sessionOf, handler, prev, other, last, done,
                   queue, tearing, active>>

\* Mutation: the active session is cleared whichever it is.
Teardown_AnySession(p) ==
    /\ p \in tearing
    /\ tearing' = tearing \ {p}
    /\ active' \in {active, NoBoot}
    /\ UNCHANGED <<sessionVars, sessionOf, handler, prev, other, last, writer,
                   done, open, queue>>

\* The teardown goroutine: if the agent could be reached, the active session is
\* cleared, provided it is the one that is torn down.
Teardown(p) ==
    /\ p \in tearing
    /\ tearing' = tearing \ {p}
    /\ active' \in {active, IF active = Boot[p] THEN NoBoot ELSE active}
    /\ UNCHANGED <<sessionVars, sessionOf, handler, prev, other, last, writer,
                   done, open, queue>>

HandlerStep(p) ==
    \/ Place(p) \/ ClosePrev(p) \/ Activate(p) \/ Announce(p) \/ Leave(p)
    \/ Bye(p) \/ Remove(p)

Next ==
    \E p \in Peers : \/ GetOrCreate(p) \/ HandlerStep(p) \/ Relay(p) \/ ReadFails(p)
                     \/ WriterSends(p) \/ WriterExits(p) \/ Teardown(p)

\* A handler that waits for no peer goes on; a closed done wakes the write pump;
\* a closed socket fails the read.
Fairness ==
    \A p \in Peers : /\ WF_vars(HandlerStep(p))
                     /\ WF_vars(done[p] /\ WriterExits(p))
                     /\ WF_vars(~open[p] /\ ReadFails(p))
                     /\ WF_vars(Teardown(p))

Spec == Init /\ [][Next]_vars /\ Fairness

-----------------------------------------------------------------------------
\* A peer that was closed, even before its pumps started, is given up by its
\* handler and its write pump: neither goroutine leaks.
ClosedPeerEnds ==
    \A p \in Peers : done[p] ~> handler[p] = "gone" /\ writer[p] = "exited"

\* The teardown of a client that left does not end the session of another one:
\* the active session is only cleared on behalf of its own bootstrap id
\* (ClearActiveSessionIfMatch), however late the teardown goroutine runs.
TeardownSparesOthers ==
    [][active # NoBoot /\ active' = NoBoot =>
          \E p \in tearing : Boot[p] = active /\ p \notin tearing']_vars

\* Either side of a Session object goes through the plain life of a connection
\* that ControlChannel specifies: taken, replaced or lost, given up by its
\* owner only after the socket was closed, and never taken again.
linkIn(s, peers) ==
    [p \in peers |->
        IF sessionOf[p] # s \/ handler[p] \in {"idle", "got"} THEN "new"
        ELSE IF handler[p] \notin Placed THEN "gone"
        ELSE IF open[p] THEN "up" ELSE "down"]

ClientSide(s) == INSTANCE ControlChannel
    WITH Conns <- Clients, NoConn <- NoPeer, hub <- client[s],
         link <- linkIn(s, Clients)

AgentSide(s) == INSTANCE ControlChannel
    WITH Conns <- Agents, NoConn <- NoPeer, hub <- agent[s],
         link <- linkIn(s, Agents)

SidesImplementChannel ==
    /\ \A s \in SessionIds : /\ ClientSide(s)!ChannelInit
                             /\ AgentSide(s)!ChannelInit
    /\ [][\A s \in SessionIds :
             /\ ClientSide(s)!ChannelNext
                \/ UNCHANGED <<client[s], linkIn(s, Clients)>>
             /\ AgentSide(s)!ChannelNext
                \/ UNCHANGED <<agent[s], linkIn(s, Agents)>>]_vars

\* "SessionRegistry manages all active signaling sessions."
\* (go/webrtc/session.go:89): a Session that a peer is connected to is the
\* registered one, so that the other side will find it.
RegistryHoldsSessions ==
    \A s \in SessionIds :
        agent[s] # NoPeer \/ client[s] # NoPeer => registry = s

\* "Attach semantics are exclusive per robot_id; newest client signaling session
\* preempts the previous one." (go/webrtc/signaling.go:22): when every replaced
\* peer is gone and the handlers have come to rest, the active session is that
\* of the client that has the client side.
NewestIsActive ==
    (/\ \A p \in Peers : \/ handler[p] \in {"idle", "gone"}
                         \/ handler[p] = "reading" /\ ~done[p]
     /\ tearing = {})
    => \A s \in SessionIds :
           client[s] # NoPeer => active = Boot[client[s]]
=============================================================================
