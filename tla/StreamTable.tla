----------------------------- MODULE StreamTable -----------------------------
(***************************************************************************)
(* The daemon manager's shared state (manager.rs) and the agents that use  *)
(* it over IPC (server.rs): the stream table, which has one entry per      *)
(* stream_id whatever connection the stream belongs to, the pool of        *)
(* multiplexed connections, the listener and the subscriptions to inbound  *)
(* streams.                                                                *)
(*                                                                         *)
(* Streams are slots: Dials are made by agents of this daemon, Inbounds    *)
(* come from other daemons, which chose their ids.  What flows on a stream *)
(* is in MuxConn and DirectStream.                                         *)
(***************************************************************************)
EXTENDS Naturals, Sequences, FiniteSets, Functions

CONSTANTS
    Addrs,      \* remote host:port values
    Dials,      \* the dials that are made
    Inbounds,   \* the inbound streams
    InIds,      \* ids that other daemons choose
    Clients,    \* agents that listen
    BusCap,     \* capacity of the broadcast of inbound streams; 64 in the code
    MaxAttempts \* bound on the listens of an agent

ASSUME TableAssumption ==
    /\ InIds \subseteq Nat \ {0}
    /\ BusCap \in Nat \ {0}
    /\ MaxAttempts \in Nat

VARIABLES
    useMux,     \* DaemonConfig::use_mux
    phase,      \* the phase of each stream
    addr,       \* where a dial goes
    id,         \* the id of a stream
    table,      \* the entry of an id, or NoStream
    nextId,     \* DaemonManager::next_stream_id
    pool,       \* the pooled connection of an address
    poolLock,   \* the dial that holds the pool, or NoStream
    muxNext,    \* MuxConn::next_stream_id of a pooled connection
    reach,      \* the addresses that accept connections
    started,    \* listener_started
    bound,      \* the port is bound and accepted from
    listen,     \* what an agent's listen does
    attempts,   \* how many listens an agent has made
    inbox,      \* inbound streams announced to an agent's subscription
    lagged,     \* agents whose subscription has overflowed
    due,        \* inbound streams since an agent was told it is listening
    claims      \* the agents that have taken a stream's receive channel

streamVars == <<useMux, phase, addr, id, table, nextId>>
poolVars == <<pool, poolLock, muxNext, reach>>
listenVars == <<started, bound, listen, attempts>>
busVars == <<inbox, lagged, due, claims>>
tableVars == <<streamVars, poolVars, listenVars, busVars>>

Streams == Dials \union Inbounds
NoStream == "no stream"

\* Enough ids for every dial on one connection, and those of other daemons.
Ids == 1..(2 * Cardinality(Dials)) \union InIds

TableInit ==
    /\ useMux \in BOOLEAN
    /\ phase = [s \in Streams |-> "idle"]
    /\ addr \in [Dials -> Addrs]
    /\ id = [s \in Streams |-> 0]
    /\ table = [i \in Ids |-> NoStream]
    /\ nextId = 1
    /\ pool = [a \in Addrs |-> "none"]
    /\ poolLock = NoStream
    /\ muxNext = [a \in Addrs |-> 1]
    /\ reach = Addrs
    /\ started = FALSE
    /\ bound = FALSE
    /\ listen = [c \in Clients |-> "idle"]
    /\ attempts = [c \in Clients |-> 0]
    /\ inbox = [c \in Clients |-> <<>>]
    /\ lagged = {}
    /\ due = [c \in Clients |-> {}]
    /\ claims = [s \in Inbounds |-> {}]

StreamGoto(s, p) == phase' = [phase EXCEPT ![s] = p]

\* streams.insert: the entry that had the id is dropped.
InsertEntry(s, i) == table' = [table EXCEPT ![i] = s]
RemoveEntry(i) == table' = [table EXCEPT ![i] = NoStream]

----------------------------------------------------------------------------
(* dial_mux *)

\* The pool has a connection, whatever its state.
PoolHit(d) ==
    /\ useMux
    /\ phase[d] = "idle"
    /\ poolLock = NoStream
    /\ pool[addr[d]] # "none"
    /\ StreamGoto(d, "open")
    /\ UNCHANGED <<useMux, addr, id, table, nextId, poolVars, listenVars,
                   busVars>>

\* It has none: one is made with the pool locked.
PoolMiss(d) ==
    /\ useMux
    /\ phase[d] = "idle"
    /\ poolLock = NoStream
    /\ pool[addr[d]] = "none"
    /\ poolLock' = d
    /\ StreamGoto(d, "connect")
    /\ UNCHANGED <<useMux, addr, id, table, nextId, pool, muxNext, reach,
                   listenVars, busVars>>

\* create_mux_conn
Connect(d) ==
    /\ useMux
    /\ phase[d] = "connect"
    /\ addr[d] \in reach
    /\ pool' = [pool EXCEPT ![addr[d]] = "up"]
    /\ muxNext' = [muxNext EXCEPT ![addr[d]] = 1]
    /\ poolLock' = NoStream
    /\ StreamGoto(d, "open")
    /\ UNCHANGED <<useMux, addr, id, table, nextId, reach, listenVars, busVars>>

\* open_stream, as long as the connection's write task runs.
OpenStream(d) ==
    /\ useMux
    /\ phase[d] = "open"
    /\ pool[addr[d]] \in {"up", "broken"}
    /\ id' = [id EXCEPT ![d] = muxNext[addr[d]]]
    /\ muxNext' = [muxNext EXCEPT ![addr[d]] = @ + 2]
    /\ StreamGoto(d, "insert")
    /\ UNCHANGED <<useMux, addr, table, nextId, pool, poolLock, reach,
                   listenVars, busVars>>

OpenFails(d) ==
    /\ useMux
    /\ phase[d] = "open"
    /\ pool[addr[d]] = "dead"
    /\ StreamGoto(d, "failed")
    /\ UNCHANGED <<useMux, addr, id, table, nextId, poolVars, listenVars,
                   busVars>>

----------------------------------------------------------------------------
(* dial_direct *)

\* next_stream_id.fetch_add
TakeId(d) ==
    /\ ~useMux
    /\ phase[d] = "idle"
    /\ id' = [id EXCEPT ![d] = nextId]
    /\ nextId' = nextId + 1
    /\ StreamGoto(d, "connect")
    /\ UNCHANGED <<useMux, addr, table, poolVars, listenVars, busVars>>

\* Connection, handshake and RelayOpenAck.
ConnectDirect(d) ==
    /\ ~useMux
    /\ phase[d] = "connect"
    /\ addr[d] \in reach
    /\ StreamGoto(d, "insert")
    /\ UNCHANGED <<useMux, addr, id, table, nextId, poolVars, listenVars,
                   busVars>>

\* Either kind of connection cannot be made.
ConnectFails(d) ==
    /\ phase[d] = "connect"
    /\ addr[d] \notin reach
    /\ StreamGoto(d, "failed")
    /\ poolLock' = IF useMux THEN NoStream ELSE poolLock
    /\ UNCHANGED <<useMux, addr, id, table, nextId, pool, muxNext, reach,
                   listenVars, busVars>>

\* The stream is entered in the table and the agent told `connected`.
DialInsert(d) ==
    /\ phase[d] = "insert"
    /\ InsertEntry(d, id[d])
    /\ StreamGoto(d, "run")
    /\ UNCHANGED <<useMux, addr, id, nextId, poolVars, listenVars, busVars>>

----------------------------------------------------------------------------
(* Inbound streams *)

\* handle_inbound_relay, register_mux_incoming: the stream is entered under the
\* id the other daemon chose.
Accept(s, i) ==
    /\ bound
    /\ phase[s] = "idle"
    /\ id' = [id EXCEPT ![s] = i]
    /\ InsertEntry(s, i)
    /\ StreamGoto(s, "announce")
    /\ UNCHANGED <<useMux, addr, nextId, poolVars, listenVars, busVars>>

Subscribed(c) == listen[c] \in {"subscribed", "listening"}

\* Mutation: a watch in place of the broadcast, which keeps only the latest.
Broadcast_Latest(s) ==
    /\ phase[s] = "announce"
    /\ StreamGoto(s, "run")
    /\ inbox' = [c \in Clients |-> IF Subscribed(c) THEN <<s>> ELSE inbox[c]]
    /\ due' = [c \in Clients |->
                 due[c] \union (IF listen[c] = "listening" THEN {s} ELSE {})]
    /\ UNCHANGED <<useMux, addr, id, table, nextId, poolVars, listenVars,
                   lagged, claims>>

\* incoming_tx.send: to every subscription; one that is full loses its oldest.
Broadcast(s) ==
    /\ phase[s] = "announce"
    /\ StreamGoto(s, "run")
    /\ inbox' = [c \in Clients |->
                   IF ~Subscribed(c) THEN inbox[c]
                   ELSE IF Len(inbox[c]) = BusCap THEN Append(Tail(inbox[c]), s)
                   ELSE Append(inbox[c], s)]
    /\ lagged' = lagged \union {c \in Clients : Subscribed(c) /\ Len(inbox[c]) = BusCap}
    /\ due' = [c \in Clients |->
                 due[c] \union (IF listen[c] = "listening" THEN {s} ELSE {})]
    /\ UNCHANGED <<useMux, addr, id, table, nextId, poolVars, listenVars,
                   claims>>

\* take_recv_rx by id: the receive channel of the entry that has the id now, if
\* it is an inbound one that nobody has taken.
Claimed(c, i) ==
    LET t == table[i] IN
    IF t \in Inbounds /\ claims[t] = {}
    THEN [claims EXCEPT ![t] = {c}] ELSE claims

\* Mutation: the channel is not taken out of the entry.
Notified_NoTake(c) ==
    /\ inbox[c] # <<>>
    /\ LET t == table[id[Head(inbox[c])]] IN
       claims' = IF t \in Inbounds THEN [claims EXCEPT ![t] = @ \union {c}] ELSE claims
    /\ inbox' = [inbox EXCEPT ![c] = Tail(@)]
    /\ due' = [due EXCEPT ![c] = @ \ {Head(inbox[c])}]
    /\ UNCHANGED <<streamVars, poolVars, listenVars, lagged>>

\* The subscription's task: the channel is claimed and `incoming` written.
Notified(c) ==
    /\ inbox[c] # <<>>
    /\ claims' = Claimed(c, id[Head(inbox[c])])
    /\ inbox' = [inbox EXCEPT ![c] = Tail(@)]
    /\ due' = [due EXCEPT ![c] = @ \ {Head(inbox[c])}]
    /\ UNCHANGED <<streamVars, poolVars, listenVars, lagged>>

----------------------------------------------------------------------------
(* listen *)

ListenTo(c, p) == listen' = [listen EXCEPT ![c] = p]

\* start_listener finds the flag set ...
ListenAgain(c) ==
    /\ listen[c] \in {"idle", "failed"}
    /\ attempts[c] < MaxAttempts
    /\ started
    /\ attempts' = [attempts EXCEPT ![c] = @ + 1]
    /\ ListenTo(c, "started")
    /\ UNCHANGED <<streamVars, poolVars, started, bound, busVars>>

\* ... or sets it, before it binds the port.
ListenFirst(c) ==
    /\ listen[c] \in {"idle", "failed"}
    /\ attempts[c] < MaxAttempts
    /\ ~started
    /\ started' = TRUE
    /\ attempts' = [attempts EXCEPT ![c] = @ + 1]
    /\ ListenTo(c, "bind")
    /\ UNCHANGED <<streamVars, poolVars, bound, busVars>>

Bind(c) ==
    /\ listen[c] = "bind"
    /\ bound' = TRUE
    /\ ListenTo(c, "started")
    /\ UNCHANGED <<streamVars, poolVars, started, attempts, busVars>>

\* The port is taken: listen_failed.
BindFails(c) ==
    /\ listen[c] = "bind"
    /\ ListenTo(c, "failed")
    /\ UNCHANGED <<streamVars, poolVars, started, bound, attempts, busVars>>

\* subscribe_incoming
Subscribe(c) ==
    /\ listen[c] = "started"
    /\ ListenTo(c, "subscribed")
    /\ UNCHANGED <<streamVars, poolVars, started, bound, attempts, busVars>>

\* `listening` is written.
TellListening(c) ==
    /\ listen[c] = "subscribed"
    /\ ListenTo(c, "listening")
    /\ UNCHANGED <<streamVars, poolVars, started, bound, attempts, busVars>>

----------------------------------------------------------------------------
(* send, close and the end of streams *)

\* DaemonManager::send by the agent of a stream goes to the entry of its id.
SendTarget(s) == table[id[s]]

\* DaemonManager::close_stream
AgentClose(s) ==
    /\ phase[s] = "run"
    /\ RemoveEntry(id[s])
    /\ StreamGoto(s, "closed")
    /\ UNCHANGED <<useMux, addr, id, nextId, poolVars, listenVars, busVars>>

\* The other end closes a direct stream: its bridge removes the entry of its id.
BridgeEnds(s) ==
    /\ ~useMux
    /\ phase[s] = "run"
    /\ RemoveEntry(id[s])
    /\ StreamGoto(s, "ended")
    /\ UNCHANGED <<useMux, addr, id, nextId, poolVars, listenVars, busVars>>

\* A stream whose entry was dropped ends; a direct one removes its id again.
Orphaned(s) ==
    /\ phase[s] \in {"run", "closed"}
    /\ table[id[s]] # s
    /\ IF useMux THEN UNCHANGED table ELSE RemoveEntry(id[s])
    /\ StreamGoto(s, "ended")
    /\ UNCHANGED <<useMux, addr, id, nextId, poolVars, listenVars, busVars>>

----------------------------------------------------------------------------
(* The network *)

\* A pooled connection breaks; its write task ends when it next writes.
Break(a) ==
    /\ pool[a] = "up"
    /\ pool' = [pool EXCEPT ![a] = "broken"]
    /\ UNCHANGED <<streamVars, poolLock, muxNext, reach, listenVars,
                   busVars>>

WriterEnds(a) ==
    /\ pool[a] = "broken"
    /\ pool' = [pool EXCEPT ![a] = "dead"]
    /\ UNCHANGED <<streamVars, poolLock, muxNext, reach, listenVars,
                   busVars>>

\* An address stops accepting connections.
Vanish(a) ==
    /\ a \in reach
    /\ reach' = reach \ {a}
    /\ UNCHANGED <<streamVars, pool, poolLock, muxNext, listenVars,
                   busVars>>

----------------------------------------------------------------------------

TableNext ==
    \/ \E d \in Dials :
          \/ PoolHit(d) \/ PoolMiss(d) \/ Connect(d) \/ OpenStream(d) \/ OpenFails(d)
          \/ TakeId(d) \/ ConnectDirect(d) \/ ConnectFails(d) \/ DialInsert(d)
    \/ \E s \in Inbounds : (\E i \in InIds : Accept(s, i)) \/ Broadcast(s)
    \/ \E s \in Streams : AgentClose(s) \/ BridgeEnds(s) \/ Orphaned(s)
    \/ \E c \in Clients :
          \/ ListenAgain(c) \/ ListenFirst(c) \/ Bind(c) \/ BindFails(c)
          \/ Subscribe(c) \/ TellListening(c) \/ Notified(c)
    \/ \E a \in Addrs : Break(a) \/ WriterEnds(a) \/ Vanish(a)

TableSpec == TableInit /\ [][TableNext]_tableVars

----------------------------------------------------------------------------
(* Properties *)

\* The variables have their types.
TableTypeOK ==
    /\ useMux \in BOOLEAN
    /\ phase \in [Streams -> {"idle", "connect", "open", "insert", "announce", "run",
                              "closed", "ended", "failed"}]
    /\ addr \in [Dials -> Addrs]
    /\ id \in [Streams -> Ids \union {0}]
    /\ table \in [Ids -> Streams \union {NoStream}]
    /\ pool \in [Addrs -> {"none", "up", "broken", "dead"}]
    /\ poolLock \in Dials \union {NoStream}
    /\ reach \subseteq Addrs
    /\ started \in BOOLEAN
    /\ bound \in BOOLEAN
    /\ listen \in [Clients -> {"idle", "bind", "started", "subscribed", "listening",
                               "failed"}]
    /\ \A c \in Clients : inbox[c] \in Seq(Inbounds) /\ Len(inbox[c]) <= BusCap
    /\ lagged \subseteq Clients
    /\ claims \in [Inbounds -> SUBSET Clients]

\* However the announcements to several agents interleave with streams that
\* reuse an id, the data of an inbound stream goes to one agent.
OneReceiver == \A s \in Inbounds : Cardinality(claims[s]) <= 1

\* An agent that was told `listening` has every inbound stream since announced,
\* or about to be, unless its subscription has overflowed.
ListenerIsTold ==
    \A c \in Clients \ lagged : due[c] \subseteq Range(inbox[c])

----------------------------------------------------------------------------
(* What the repository says and the code does not do *)

\* A send goes to the stream it names: "Send data on an established stream"
\* (ipc.rs:82).
SendReachesItsStream ==
    \A s \in Streams : phase[s] = "run" => SendTarget(s) \in {s, NoStream}

\* "`listening` | Daemon is ready to receive inbound connections"
\* (daemon-ipc.md:83).
ListeningMeansBound == \A c \in Clients : listen[c] = "listening" => bound

\* "`dial_failed` | Could not connect to target" (daemon-ipc.md:96): the target
\* of a dial that failed did not accept connections.
FailedMeansUnreachable ==
    [][\A d \in Dials :
          phase[d] # "failed" /\ phase'[d] = "failed" => addr[d] \notin reach]_tableVars

\* "The daemon sends `incoming` notifications to this IPC client for each new
\* inbound connection" (daemon-ipc.md:54).
EveryInboundIsAnnounced == \A c \in Clients : due[c] \subseteq Range(inbox[c])
=============================================================================
