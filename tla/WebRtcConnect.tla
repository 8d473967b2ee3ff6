--------------------------- MODULE WebRtcConnect ---------------------------
(***************************************************************************)
(* The agent's WebRTC connection attempt (roboat-webrtc: client.rs): the   *)
(* TURN credentials are fetched and turned into ICE servers, an offer goes *)
(* to the CLI through the signaling WebSocket, and connect() waits first   *)
(* for ICE and then for the data channel, each within its window.          *)
(*                                                                         *)
(* Beside connect() run the task that exchanges signaling messages and the *)
(* callbacks of the peer connection.  The callbacks talk to connect()      *)
(* through two oneshot channels: the first verdict on ICE counts, and the  *)
(* opening of the data channel.                                            *)
(*                                                                         *)
(* The WebRTC stack, the platform and the CLI are modelled by what they    *)
(* may do: a remote candidate is refused before the answer is set, ICE     *)
(* gets nowhere without the answer, and with the relay policy only a       *)
(* relayed pair is selected.                                               *)
(***************************************************************************)
EXTENDS Naturals, Sequences

CONSTANTS
    Hosts,       \* TURN hosts
    MaxCands,    \* bound on the local candidates
    MaxRemote,   \* bound on the CLI's messages
    IceCap,      \* capacity of the candidate channel; 32 in the code
    Seconds      \* values of a timeout setting

VARIABLES
    phase,     \* where connect() is
    base,      \* the scheme of the platform's URL
    relay,     \* route_requires_relay
    reply,     \* the platform's reply to fetch_turn_credentials
    flags,     \* the environment's flags
    servers,   \* the URLs of the ICE servers
    nets,      \* the network types of the ICE agent
    turn,      \* turn_enabled
    cands,     \* local candidates gathered
    iceQ,      \* the channel they wait in
    uplink,    \* what was sent to the platform
    ws,        \* the signaling WebSocket is open
    cliSent,   \* how many messages the CLI has sent
    down,      \* those that wait to be received
    loop,      \* the phase of the signaling task
    remote,    \* the remote description
    missed,    \* a candidate that came after the answer was refused
    hooks,     \* the callbacks that are registered
    ice,       \* the state of ICE
    pair,      \* the selected pair
    calls,     \* callbacks due
    heard,     \* callbacks that have run
    verdict,   \* the oneshot for ICE
    opened,    \* the oneshot for the data channel
    left       \* seconds left in the current window

planVars == <<base, relay, reply, flags, servers, nets, turn>>
sigVars == <<cands, iceQ, uplink, ws, cliSent, down, loop, remote, missed>>
rtcVars == <<hooks, ice, pair, calls, heard, verdict, opened>>
attemptVars == <<phase, planVars, sigVars, rtcVars, left>>

-----------------------------------------------------------------------------
(* TURN URLs: a scheme, a host and the transport its query asks for *)

Transports == {"udp", "tcp"}
Urls == [scheme: {"turn", "turns", "http"}, host: Hosts,
         query: Transports \union {"none", "sctp"}]

turn_url_transport(u) ==
    CASE u.scheme = "turns" /\ u.query \in {"tcp", "none"} -> "tcp"
      [] u.scheme = "turn" /\ u.query \in {"udp", "none"} -> "udp"
      [] u.scheme = "turn" /\ u.query = "tcp" -> "tcp"
      [] OTHER -> "unknown"

is_supported_turn_url(u, tcp) ==
    LET t == turn_url_transport(u) IN t = "udp" \/ (t = "tcp" /\ tcp)

TurnUrl(host, transport) == [scheme |-> "turn", host |-> host, query |-> transport]

\* The URLs a TURN URL stands for, in the form the ICE stack accepts: turns:
\* becomes turn: over TCP, and no transport means every transport.
expand_turn_urls(u, tcp) ==
    LET asked == CASE u.scheme = "turns" /\ u.query # "udp" -> {"tcp"}
                   [] u.scheme = "turn" /\ u.query = "none" -> Transports
                   [] u.scheme = "turn" /\ u.query \in Transports -> {u.query}
                   [] OTHER -> {}
    IN  {TurnUrl(u.host, t) : t \in {t \in asked : t = "tcp" => tcp}}

\* With the TLS-only flag the URLs that came as turns:, if there are any.
filter_supported_turn_urls(urls, f) ==
    LET all == UNION {expand_turn_urls(u, f.tcp) : u \in urls}
        tls == UNION {expand_turn_urls(u, f.tcp) :
                        u \in {v \in urls : v.scheme = "turns"}}
    IN  IF f.tcp /\ f.tlsOnly /\ tls # {} THEN tls ELSE all

\* Mutation: TCP is never among the network types.
ice_network_types_for_servers_Udp(urls, f) ==
    {"udp4"} \union (IF f.ipv6 THEN {"udp6"} ELSE {})

ice_network_types_for_servers(urls, f) ==
    LET needs_tcp == f.tcp /\ \E u \in urls : turn_url_transport(u) = "tcp"
        four == {"udp4"} \union (IF needs_tcp THEN {"tcp4"} ELSE {})
        six == {"udp6"} \union (IF needs_tcp THEN {"tcp6"} ELSE {})
    IN  four \union (IF f.ipv6 THEN six ELSE {})

-----------------------------------------------------------------------------
(* Settings; an environment variable is a sequence of at most one value *)

Env == {<< >>} \union {<<n>> : n \in Seconds}
Flags == [tcp: BOOLEAN, tlsOnly: BOOLEAN, ipv6: BOOLEAN]

\* WebRtcConfig: one URL serves for HTTP and for the WebSocket.
Schemes == {"http", "https", "ws", "wss", "ftp"}
signaling_base_url(b) == CASE b = "https" -> "wss" [] b = "http" -> "ws" [] OTHER -> b
http_base_url(b) == CASE b = "wss" -> "https" [] b = "ws" -> "http" [] OTHER -> b

\* The route of the connect plan asks for the relay, or the environment does.
route_requires_relay(route, force) == route = "turn_relay" \/ force

Clamp(lo, n, hi) == IF n < lo THEN lo ELSE IF n > hi THEN hi ELSE n

\* The 2+2 seconds for ICE.
resolve_parallel_connect_timeout(secs, env) ==
    LET n == IF env = << >> THEN secs ELSE env[1]
    IN  Clamp(2, IF n = 0 THEN 4 ELSE n, 4)

\* The grace period of the data channel.
resolve_datachannel_open_grace(env) ==
    IF env \in {<< >>, <<0>>} THEN 8 ELSE Clamp(1, env[1], 12)

StunUrl == [scheme |-> "stun", host |-> "stun", query |-> "none"]

\* The platform's word on TURN: an error, not available, no credentials, or
\* credentials for up to two URLs.
NoReply == [kind |-> "error", urls |-> {}]
Replies ==
    [kind: {"error", "unavailable", "missing", "turn"}, urls: {{}}]
        \union [kind: {"turn"}, urls: {{u, v} : u, v \in Urls}]

-----------------------------------------------------------------------------
(* connect() and attempt_webrtc(), up to the offer *)

Fail == phase' = "failed"

\* Mutation: TURN that is not available is no reason to give up.
fetch_turn_credentials_NoBail ==
    /\ phase = "fetch"
    /\ \E r \in Replies, f \in Flags :
        /\ http_base_url(base) \in {"http", "https"} \/ r.kind = "error"
        /\ LET urls == filter_supported_turn_urls(r.urls, f) IN
           IF relay /\ urls = {} /\ r.kind # "unavailable"
           THEN Fail /\ UNCHANGED planVars
           ELSE /\ phase' = "setup"
                /\ reply' = r
                /\ flags' = f
                /\ servers' = urls \union (IF relay THEN {} ELSE {StunUrl})
                /\ turn' = (urls # {})
                /\ UNCHANGED <<base, relay, nets>>
    /\ UNCHANGED <<sigVars, rtcVars, left>>

\* The credentials become ICE servers.  Without a usable TURN URL the attempt
\* goes on with STUN, and with the relay required it ends here.
fetch_turn_credentials ==
    /\ phase = "fetch"
    /\ \E r \in Replies, f \in Flags :
        /\ http_base_url(base) \in {"http", "https"} \/ r.kind = "error"
        /\ LET urls == filter_supported_turn_urls(r.urls, f) IN
           IF relay /\ urls = {}
           THEN Fail /\ UNCHANGED planVars
           ELSE /\ phase' = "setup"
                /\ reply' = r
                /\ flags' = f
                /\ servers' = urls \union (IF relay THEN {} ELSE {StunUrl})
                /\ turn' = (urls # {})
                /\ UNCHANGED <<base, relay, nets>>
    /\ UNCHANGED <<sigVars, rtcVars, left>>

\* The peer connection and its data channel, whose opening is listened for; the
\* stack may refuse to make them.
Setup ==
    /\ phase = "setup"
    /\ phase' = "ws" \/ Fail
    /\ nets' = ice_network_types_for_servers(servers, flags)
    /\ hooks' = {"open"}
    /\ UNCHANGED <<base, relay, reply, flags, servers, turn, sigVars, ice, pair, calls,
                   heard, verdict, opened, left>>

NoFlags == [tcp |-> FALSE, tlsOnly |-> FALSE, ipv6 |-> FALSE]

\* The signaling WebSocket; what the plan was made from is not needed again.
ConnectWs ==
    /\ phase = "ws"
    /\ \/ /\ signaling_base_url(base) \in {"ws", "wss"}
          /\ phase' = "gather"
          /\ ws' = TRUE
       \/ Fail /\ UNCHANGED ws
    /\ base' = "https" /\ reply' = NoReply /\ flags' = NoFlags
    /\ servers' = {} /\ nets' = {}
    /\ UNCHANGED <<relay, turn, cands, iceQ, uplink, cliSent, down, loop, remote, missed,
                   rtcVars, left>>

\* create_offer and set_local_description: candidates are gathered from now on.
StartGathering ==
    /\ phase = "gather"
    /\ \/ phase' = "offer" /\ UNCHANGED ws
       \/ Fail /\ ws' = FALSE
    /\ UNCHANGED <<planVars, cands, iceQ, uplink, cliSent, down, loop, remote, missed,
                   rtcVars, left>>

SendOffer ==
    /\ phase = "offer"
    /\ \/ ws /\ phase' = "register" /\ uplink' = Append(uplink, "offer")
       \/ ~ws /\ Fail /\ UNCHANGED uplink
    /\ UNCHANGED <<planVars, cands, iceQ, ws, cliSent, down, loop, remote, missed,
                   rtcVars, left>>

\* The handlers that give the verdict on ICE.
Register ==
    /\ phase = "register"
    /\ phase' = "spawn"
    /\ hooks' = hooks \union {"ice", "peer"}
    /\ UNCHANGED <<planVars, sigVars, ice, pair, calls, heard, verdict, opened, left>>

Window == {resolve_parallel_connect_timeout(n, e) : n \in Seconds, e \in Env}

\* Mutation: the signaling task is started before the handlers are set.
Spawn_Early ==
    /\ loop = "none"
    /\ \/ phase = "register" /\ UNCHANGED <<phase, left>>
       \/ phase = "spawn" /\ phase' = "ice" /\ left' \in Window
    /\ loop' = "select"
    /\ UNCHANGED <<planVars, cands, iceQ, uplink, ws, cliSent, down, remote, missed, rtcVars>>

\* The signaling task is started, and the wait for ICE begins.
Spawn ==
    /\ phase = "spawn"
    /\ phase' = "ice"
    /\ left' \in Window
    /\ loop' = "select"
    /\ UNCHANGED <<planVars, cands, iceQ, uplink, ws, cliSent, down, remote, missed, rtcVars>>

-----------------------------------------------------------------------------
(* The two waits of attempt_webrtc() *)

\* The first wait ends with the verdict, or with the window.
AwaitIce ==
    /\ phase = "ice"
    /\ \/ /\ verdict = "ok"
          /\ phase' = "open"
          /\ left' \in {resolve_datachannel_open_grace(e) : e \in Env}
       \/ /\ verdict = "err" \/ (verdict = "none" /\ left = 0)
          /\ Fail
          /\ left' = 0
    /\ UNCHANGED <<planVars, sigVars, rtcVars>>

\* Mutation: the data channel is waited for without a limit.
AwaitOpen_NoLimit ==
    /\ phase = "open"
    /\ opened
    /\ phase' = "ok"
    /\ left' = 0
    /\ UNCHANGED <<planVars, sigVars, rtcVars>>

\* The second wait ends with the data channel open, or with the window.
AwaitOpen ==
    /\ phase = "open"
    /\ \/ opened /\ phase' = "ok"
       \/ ~opened /\ left = 0 /\ Fail
    /\ left' = 0
    /\ UNCHANGED <<planVars, sigVars, rtcVars>>

Tick ==
    /\ phase \in {"ice", "open"}
    /\ left > 0
    /\ left' = left - 1
    /\ UNCHANGED <<phase, planVars, sigVars, rtcVars>>

-----------------------------------------------------------------------------
(* The signaling task *)

\* The task holds the peer connection, which lives on without connect().
Alive == phase # "failed" \/ loop \in {"select", "await"}

\* on_ice_candidate: a candidate waits for room in the channel, as long as the
\* task is there to take it.
on_ice_candidate ==
    /\ phase \in {"offer", "register", "spawn", "ice", "open", "ok", "failed"}
    /\ Alive
    /\ loop # "done"
    /\ cands < MaxCands
    /\ Len(iceQ) < IceCap
    /\ cands' = cands + 1
    /\ iceQ' = Append(iceQ, cands + 1)
    /\ UNCHANGED <<phase, planVars, uplink, ws, cliSent, down, loop, remote, missed, rtcVars,
                   left>>

\* A candidate is forwarded; an error of the socket is ignored.
Forward ==
    /\ loop = "select"
    /\ iceQ # << >>
    /\ iceQ' = Tail(iceQ)
    /\ uplink' = IF ws THEN Append(uplink, "cand") ELSE uplink
    /\ UNCHANGED <<phase, planVars, cands, ws, cliSent, down, loop, remote, missed,
                   rtcVars, left>>

\* Mutation: the answer is set in a task of its own.
AfterAnswer_Spawned == "select"

\* The task awaits set_remote_description before it reads on.
AfterAnswer == "await"

\* A message of the CLI: an answer is set, a candidate is added if it can be.
\* "bye" ends the task, and with it the socket and the candidate channel.
Receive ==
    /\ loop = "select"
    /\ down # << >>
    /\ LET m == Head(down)
           sets == m = "answer" /\ remote \in {"none", "bad"}
       IN  /\ IF m = "bye"
              THEN loop' = "done" /\ ws' = FALSE /\ iceQ' = << >> /\ down' = << >>
              ELSE /\ loop' = IF sets THEN AfterAnswer ELSE loop
                   /\ down' = Tail(down)
                   /\ UNCHANGED <<ws, iceQ>>
           /\ remote' = IF sets THEN "setting" ELSE remote
           /\ missed' = (missed \/ (m = "cand" /\ remote = "setting"))
    /\ UNCHANGED <<phase, planVars, cands, uplink, cliSent, rtcVars, left>>

\* set_remote_description ends, well or with an error that is ignored.
SetRemote ==
    /\ remote = "setting"
    /\ remote' \in {"set", "bad"}
    /\ loop' = IF loop = "await" THEN "select" ELSE loop
    /\ UNCHANGED <<phase, planVars, cands, iceQ, uplink, ws, cliSent, down, missed, rtcVars,
                   left>>

-----------------------------------------------------------------------------
(* The CLI, the platform and the WebRTC stack *)

CliSends(m) ==
    /\ ws
    /\ uplink # << >>
    /\ cliSent < MaxRemote
    /\ cliSent' = cliSent + 1
    /\ down' = Append(down, m)
    /\ UNCHANGED <<phase, planVars, cands, iceQ, uplink, ws, loop, remote, missed, rtcVars,
                   left>>

WsCloses ==
    /\ ws
    /\ ws' = FALSE
    /\ UNCHANGED <<phase, planVars, cands, iceQ, uplink, cliSent, down, loop, remote, missed,
                   rtcVars, left>>

\* ICE comes up, with a pair its policy and its servers allow, or fails; a
\* connection that is up can be lost.  Each has its callbacks.
Ice(to, due) ==
    /\ Alive
    /\ ice' = to
    /\ calls' = calls \union due
    /\ UNCHANGED <<phase, planVars, sigVars, hooks, heard, verdict, opened, left>>

IceUp ==
    /\ ice = "new" /\ remote = "set"
    /\ Ice("up", {"up"})
    /\ pair' \in {p \in {"direct", "relayed"} : /\ p = "direct" => ~relay
                                                /\ p = "relayed" => turn}

IceFails ==
    /\ ice = "new" /\ remote = "set"
    /\ Ice("down", {"iceFailed", "peerFailed"})
    /\ UNCHANGED pair

IceLost ==
    /\ ice = "up"
    /\ Ice("down", {"peerLost"})
    /\ UNCHANGED pair

ChannelOpens ==
    /\ ice = "up"
    /\ "open" \notin calls \union heard
    /\ Ice("up", {"open"})
    /\ UNCHANGED pair

\* The handler a callback needs.
Hook(k) == CASE k \in {"up", "iceFailed"} -> "ice"
             [] k \in {"peerFailed", "peerLost"} -> "peer"
             [] k = "open" -> "open"

\* A callback runs.  The first verdict takes the sender of the oneshot.
Callback(k) ==
    /\ k \in calls
    /\ calls' = calls \ {k}
    /\ heard' = heard \union {k}
    /\ opened' = (opened \/ (k = "open" /\ Hook(k) \in hooks))
    /\ verdict' = IF k # "open" /\ Hook(k) \in hooks /\ verdict = "none"
                  THEN IF k = "up" THEN "ok" ELSE "err"
                  ELSE verdict
    /\ UNCHANGED <<phase, planVars, sigVars, hooks, ice, pair, left>>

-----------------------------------------------------------------------------
(* The specification *)

AttemptInit ==
    /\ phase = "fetch"
    /\ base \in Schemes
    /\ relay \in {route_requires_relay(r, f) : r \in {"turn_relay", "p2p"}, f \in BOOLEAN}
    /\ reply = NoReply /\ flags = NoFlags /\ servers = {} /\ nets = {} /\ turn = FALSE
    /\ cands = 0 /\ iceQ = << >> /\ uplink = << >>
    /\ ws = FALSE /\ cliSent = 0 /\ down = << >>
    /\ loop = "none" /\ remote = "none" /\ missed = FALSE
    /\ hooks = {} /\ ice = "new" /\ pair = "none" /\ calls = {} /\ heard = {}
    /\ verdict = "none" /\ opened = FALSE
    /\ left = 0

Offering ==
    fetch_turn_credentials \/ Setup \/ ConnectWs \/ StartGathering \/ SendOffer

Awaiting == Register \/ Spawn \/ AwaitIce \/ AwaitOpen

SignalTask == Forward \/ Receive \/ SetRemote

Environment ==
    \/ on_ice_candidate \/ WsCloses \/ IceUp \/ IceFails \/ IceLost \/ ChannelOpens
    \/ \E m \in {"answer", "cand", "bye"} : CliSends(m)
    \/ \E k \in calls : Callback(k)

AttemptNext == Offering \/ Awaiting \/ Tick \/ SignalTask \/ Environment

\* Once the offer is out connect() is scheduled and its timers run.  Nothing is
\* assumed of the platform, the CLI and the WebRTC stack, nor of what connect()
\* awaits from them without a timeout.
AttemptFairness == WF_attemptVars(Awaiting) /\ WF_attemptVars(Tick)

AttemptSpec == AttemptInit /\ [][AttemptNext]_attemptVars /\ AttemptFairness

-----------------------------------------------------------------------------
(* Properties *)

AttemptTypeOK ==
    /\ phase \in {"fetch", "setup", "ws", "gather", "offer", "register", "spawn", "ice",
                  "open", "ok", "failed"}
    /\ base \in Schemes /\ reply \in Replies /\ flags \in Flags
    /\ {relay, turn, ws, missed, opened} \subseteq BOOLEAN
    /\ nets \subseteq {"udp4", "udp6", "tcp4", "tcp6"}
    /\ cands \in 0 .. MaxCands /\ cliSent \in 0 .. MaxRemote
    /\ iceQ \in Seq(1 .. MaxCands) /\ Len(iceQ) <= IceCap
    /\ uplink \in Seq({"offer", "cand"}) /\ down \in Seq({"answer", "cand", "bye"})
    /\ loop \in {"none", "select", "await", "done"}
    /\ remote \in {"none", "setting", "set", "bad"}
    /\ hooks \subseteq {"open", "ice", "peer"}
    /\ ice \in {"new", "up", "down"} /\ pair \in {"none", "direct", "relayed"}
    /\ calls \union heard \subseteq {"up", "iceFailed", "peerFailed", "peerLost", "open"}
    /\ verdict \in {"none", "ok", "err"}
    /\ left \in 0 .. 12

Returned == phase \in {"ok", "failed"}

\* What connect() says it has used.
ConnectionType == IF turn THEN "relayed" ELSE "direct"

\* The ICE servers make sense together: a TURN URL is in the one form the
\* stack accepts, names a host of the platform's, and has a network type that
\* carries its transport; and a URL that is supported is among them unless
\* TLS-only leaves it out (expand_turn_urls, is_supported_turn_url and
\* ice_network_types_for_servers each decide on their own).
IceServersAreUsable ==
    phase = "ws" =>
        /\ \A u \in servers \ {StunUrl} :
              /\ u.scheme = "turn" /\ u.query \in Transports
              /\ \E v \in reply.urls : v.host = u.host
              /\ u.query = "tcp" => flags.tcp /\ "tcp4" \in nets
        /\ ~flags.tlsOnly =>
              \A v \in reply.urls :
                  is_supported_turn_url(v, flags.tcp) =>
                      TurnUrl(v.host, turn_url_transport(v)) \in servers

\* Where the relay is required no STUN server is configured, and an attempt that
\* goes on after the platform's reply, and all the more one that succeeds and is
\* reported as relayed, has a TURN server it can use: every way to come by none
\* ends the attempt (client.rs:69, 80-148, 163).
RelayOnlyStaysRelay ==
    relay => /\ StunUrl \notin servers
             /\ phase \notin {"fetch", "failed"} => turn

\* Candidates follow the offer, whenever they were gathered, each once; and no
\* candidate of the CLI that comes after its answer is refused because the
\* answer is still being set (the channel, and the order within the task).
CandidatesAreKept ==
    /\ \A i \in 1 .. Len(uplink) : (uplink[i] = "offer") <=> (i = 1)
    /\ ws => Len(uplink) + Len(iceQ) = cands + (IF uplink = << >> THEN 0 ELSE 1)
    /\ ~missed

\* No signal is missed: while connect() waits, a verdict on ICE or an open data
\* channel that a callback has reported is in its oneshot, even if it came
\* before the wait (client.rs:217-240, 323-373).
NoSignalMissed ==
    ~Returned =>
        /\ heard \ {"open"} # {} => verdict # "none"
        /\ "open" \in heard => opened

\* Once the offer is out connect() returns, whatever the CLI, the platform and
\* the stack do or fail to do.
OfferedReturns == phase = "register" ~> Returned

-----------------------------------------------------------------------------
(* What the repository says and the code does not do *)

\* "Returns the connection type used (STUN direct or TURN relay)" (client.rs:46);
\* it is reported from the servers that were configured.
ReportedTypeIsUsed == phase = "ok" => ConnectionType = pair
=============================================================================
