---------------------------- MODULE AgentProofs -----------------------------
(***************************************************************************)
(* Two ways to reach an agent: its WebRTC connection attempt, and the      *)
(* TunnelServer that clients connect to.                                   *)
(***************************************************************************)
EXTENDS WebRtcConnect, TunnelServer, TLAPS

----------------------------------------------------------------------------
(***************************************************************************)
(* A connection attempt, for any credentials, URLs and candidates: the ICE *)
(* servers it derives, the candidates that come before the answer, and the *)
(* verdicts of the callbacks.  SignalInv accounts for every candidate, and *)
(* HookInv says that the callbacks are set before the answer can come.     *)
(***************************************************************************)

(* The plan: the ICE servers of the credentials *)

\* Every URL the ICE agent gets was made from one of the platform's.
LEMMA ExpandedUrl ==
    ASSUME NEW urls, NEW f, NEW u \in filter_supported_turn_urls(urls, f)
    PROVE  \E v \in urls : \E t \in Transports : u = TurnUrl(v.host, t) /\ (t = "tcp" => f.tcp)
<1>1. PICK v \in urls : u \in expand_turn_urls(v, f.tcp)
      BY DEF filter_supported_turn_urls
<1>2. PICK t : u = TurnUrl(v.host, t) /\ t \in Transports /\ (t = "tcp" => f.tcp)
      BY <1>1 DEF expand_turn_urls, Transports
<1> QED BY <1>1, <1>2

\* A URL that is supported is kept, in the form the ICE agent accepts.
LEMMA SupportedIsKept ==
    ASSUME NEW urls, NEW f, ~f.tlsOnly, NEW v \in urls, is_supported_turn_url(v, f.tcp)
    PROVE  TurnUrl(v.host, turn_url_transport(v)) \in filter_supported_turn_urls(urls, f)
<1>1. TurnUrl(v.host, turn_url_transport(v)) \in expand_turn_urls(v, f.tcp)
  <2>1. CASE v.scheme = "turns" /\ v.query \in {"tcp", "none"}
        BY <2>1 DEF is_supported_turn_url, turn_url_transport, expand_turn_urls
  <2>2. CASE v.scheme = "turn" /\ v.query \in {"udp", "none"}
    <3>1. turn_url_transport(v) = "udp"
          BY <2>2 DEF turn_url_transport
    <3>2. CASE v.query = "none"
      <4>1. expand_turn_urls(v, f.tcp) =
                {TurnUrl(v.host, t) : t \in {t \in Transports : t = "tcp" => f.tcp}}
            BY <2>2, <3>2 DEF expand_turn_urls, Transports
      <4>2. "udp" \in {t \in Transports : t = "tcp" => f.tcp}
            BY DEF Transports
      <4> QED BY <3>1, <4>1, <4>2
    <3>3. CASE v.query = "udp"
          BY <2>2, <3>1, <3>3 DEF expand_turn_urls, Transports
    <3> QED BY <2>2, <3>2, <3>3
  <2>3. CASE v.scheme = "turn" /\ v.query = "tcp"
        BY <2>3 DEF is_supported_turn_url, turn_url_transport, expand_turn_urls, Transports
  <2>4. CASE /\ ~(v.scheme = "turns" /\ v.query \in {"tcp", "none"})
             /\ ~(v.scheme = "turn" /\ v.query \in {"udp", "none"})
             /\ ~(v.scheme = "turn" /\ v.query = "tcp")
    <3>1. turn_url_transport(v) = "unknown"
          BY <2>4 DEF turn_url_transport
    <3> QED BY <3>1 DEF is_supported_turn_url
  <2> QED BY <2>1, <2>2, <2>3, <2>4
<1>2. filter_supported_turn_urls(urls, f) = UNION {expand_turn_urls(u, f.tcp) : u \in urls}
      BY DEF filter_supported_turn_urls
<1> QED BY <1>1, <1>2

\* The servers are those of the credentials, with STUN unless the relay is required.
PlanInv ==
    /\ relay => StunUrl \notin servers /\ (phase \notin {"fetch", "failed"} => turn)
    /\ phase \in {"setup", "ws"} =>
          LET urls == filter_supported_turn_urls(reply.urls, flags)
          IN  servers = urls \/ servers = urls \union {StunUrl}
    /\ phase = "ws" => nets = ice_network_types_for_servers(servers, flags)

\* A step that touches neither the plan nor begins the set-up keeps it.
LEMMA PlanUnchanged ==
    ASSUME PlanInv, UNCHANGED planVars,
           \/ phase' = phase \/ phase' = "failed"
           \/ phase \notin {"fetch", "failed"} /\ phase' \notin {"setup", "ws"}
    PROVE  PlanInv'
BY DEF PlanInv, planVars

\* Every step of an attempt preserves what holds of the plan.
LEMMA PlanNext == PlanInv /\ [AttemptNext]_attemptVars => PlanInv'
<1> SUFFICES ASSUME PlanInv, [AttemptNext]_attemptVars PROVE PlanInv'
    OBVIOUS
<1>1. CASE fetch_turn_credentials
  <2>1. PICK r \in Replies, f \in Flags :
            LET urls == filter_supported_turn_urls(r.urls, f) IN
            IF relay /\ urls = {}
            THEN Fail /\ UNCHANGED planVars
            ELSE /\ phase' = "setup"
                 /\ reply' = r
                 /\ flags' = f
                 /\ servers' = urls \union (IF relay THEN {} ELSE {StunUrl})
                 /\ turn' = (urls # {})
                 /\ UNCHANGED <<base, relay, nets>>
        BY <1>1 DEF fetch_turn_credentials
  <2> DEFINE urls == filter_supported_turn_urls(r.urls, f)
  <2>2. StunUrl \notin urls
    <3>1. \A h, t : TurnUrl(h, t).scheme = "turn"
          BY DEF TurnUrl
    <3>2. StunUrl.scheme = "stun"
          BY DEF StunUrl
    <3> QED BY <3>1, <3>2, ExpandedUrl
  <2> HIDE DEF urls
  <2>3. CASE relay /\ urls = {}
        BY <2>1, <2>3, PlanUnchanged DEF Fail, urls
  <2>4. CASE ~(relay /\ urls = {})
    <3>1. /\ phase' = "setup" /\ relay' = relay /\ reply' = r /\ flags' = f
          /\ servers' = urls \union (IF relay THEN {} ELSE {StunUrl})
          /\ turn' = (urls # {})
          BY <2>1, <2>4 DEF urls
    <3>2. urls = filter_supported_turn_urls(reply'.urls, flags')
          BY <3>1 DEF urls
    <3>3. servers' = urls \/ servers' = urls \union {StunUrl}
          BY <3>1
    <3>4. relay' => StunUrl \notin servers' /\ turn'
          BY <2>2, <2>4, <3>1, Zenon
    <3> QED BY <3>1, <3>2, <3>3, <3>4 DEF PlanInv
  <2> QED BY <2>3, <2>4
<1>2. CASE Setup
      BY <1>2 DEF Setup, Fail, PlanInv
<1>3. CASE ConnectWs
      BY <1>3 DEF ConnectWs, Fail, PlanInv
<1>4. CASE StartGathering \/ SendOffer \/ Register \/ Spawn \/ AwaitIce \/ AwaitOpen \/ Tick
      BY <1>4, PlanUnchanged DEF StartGathering, SendOffer, Register, Spawn, AwaitIce, AwaitOpen,
                                 Tick, Fail
<1>5. CASE SignalTask
      BY <1>5, PlanUnchanged DEF SignalTask, Forward, Receive, SetRemote
<1>6. CASE Environment
      BY <1>6, PlanUnchanged DEF Environment, on_ice_candidate, WsCloses, IceUp, IceFails, IceLost,
            ChannelOpens, Ice, CliSends, Callback
<1>7. CASE UNCHANGED attemptVars
      BY <1>7, PlanUnchanged DEF attemptVars
<1> QED BY <1>1, <1>2, <1>3, <1>4, <1>5, <1>6, <1>7 DEF AttemptNext, Offering, Awaiting

\* It holds before the attempt.
LEMMA PlanInit == AttemptInit => PlanInv
BY DEF AttemptInit, PlanInv

\* No STUN server and, once the platform has replied, a usable TURN server wherever the
\* relay is required (connect in client.rs).
THEOREM RelayIsKept == AttemptSpec => []RelayOnlyStaysRelay
<1>1. PlanInv => RelayOnlyStaysRelay
      BY DEF PlanInv, RelayOnlyStaysRelay
<1> QED BY <1>1, PlanInit, PlanNext, PTL DEF AttemptSpec

\* The three functions that expand, filter and judge TURN URLs agree, whatever the
\* platform replies (expand_turn_urls, is_supported_turn_url and
\* ice_network_types_for_servers in client.rs).
THEOREM IceServersAgree == AttemptSpec => []IceServersAreUsable
<1>1. PlanInv => IceServersAreUsable
  <2> SUFFICES ASSUME PlanInv, phase = "ws" PROVE IceServersAreUsable
      BY DEF IceServersAreUsable
  <2> DEFINE urls == filter_supported_turn_urls(reply.urls, flags)
  <2>1. servers = urls \/ servers = urls \union {StunUrl}
        BY DEF PlanInv
  <2>2. nets = ice_network_types_for_servers(servers, flags)
        BY DEF PlanInv
  <2>3. ASSUME NEW u \in servers \ {StunUrl}
        PROVE  /\ u.scheme = "turn" /\ u.query \in Transports
               /\ \E v \in reply.urls : v.host = u.host
               /\ u.query = "tcp" => flags.tcp /\ "tcp4" \in nets
    <3>1. PICK v \in reply.urls, t \in Transports :
              u = TurnUrl(v.host, t) /\ (t = "tcp" => flags.tcp)
          BY <2>1, <2>3, ExpandedUrl
    <3>2. u.scheme = "turn" /\ u.query = t /\ u.host = v.host
          BY <3>1 DEF TurnUrl
    <3>3. ASSUME t = "tcp" PROVE "tcp4" \in nets
      <4>1. turn_url_transport(u) = "tcp"
            BY <3>2, <3>3 DEF turn_url_transport
      <4> QED BY <2>2, <2>3, <3>1, <3>3, <4>1 DEF ice_network_types_for_servers
    <3> QED BY <3>1, <3>2, <3>3
  <2>4. ASSUME ~flags.tlsOnly, NEW v \in reply.urls, is_supported_turn_url(v, flags.tcp)
        PROVE  TurnUrl(v.host, turn_url_transport(v)) \in servers
        BY <2>1, <2>4, SupportedIsKept, SMTT(30)
  <2> QED BY <2>3, <2>4 DEF IceServersAreUsable
<1> QED BY <1>1, PlanInit, PlanNext, PTL DEF AttemptSpec

-----------------------------------------------------------------------------
(* The signaling task and the callbacks *)

\* The callbacks of the peer connection.
Callbacks == {"up", "iceFailed", "peerFailed", "peerLost", "open"}

\* The handlers are set before the task starts that can bring the answer, and nothing
\* is called back before the answer; the task reads nothing while the answer is set.
HookInv ==
    /\ phase \in {"fetch", "setup", "ws", "gather", "offer", "register", "spawn"} => loop = "none"
    /\ phase \in {"ws", "gather", "offer", "register"} => "open" \in hooks
    /\ phase = "spawn" \/ loop # "none" => {"open", "ice", "peer"} \subseteq hooks
    /\ loop = "none" => remote = "none" /\ ice = "new" /\ calls = {} /\ heard = {}
    /\ remote = "setting" => loop = "await"
    /\ calls \subseteq Callbacks
    /\ heard \ {"open"} # {} => verdict # "none"
    /\ "open" \in heard => opened
    /\ ~missed

\* The offer is first, and every candidate is in the channel or was forwarded.
SignalInv ==
    /\ uplink \in Seq({"offer", "cand"}) /\ iceQ \in Seq(Nat) /\ cands \in Nat
    /\ \A i \in 1 .. Len(uplink) : (uplink[i] = "offer") <=> (i = 1)
    /\ phase \in {"fetch", "setup", "ws", "gather"} => cands = 0 /\ iceQ = << >>
    /\ phase \in {"fetch", "setup", "ws", "gather", "offer"} => uplink = << >>
    /\ phase \in {"register", "spawn"} \/ loop # "none" => uplink # << >>
    /\ ws => Len(uplink) + Len(iceQ) = cands + (IF uplink = << >> THEN 0 ELSE 1)

\* Every step preserves what holds of the callbacks.
LEMMA HookNext == HookInv /\ [AttemptNext]_attemptVars => HookInv'
<1> SUFFICES ASSUME HookInv, [AttemptNext]_attemptVars PROVE HookInv'
    OBVIOUS
<1> USE DEF HookInv, sigVars, rtcVars
<1>1. CASE fetch_turn_credentials
      BY <1>1 DEF fetch_turn_credentials, Fail
<1>2. CASE Setup
      BY <1>2 DEF Setup, Fail
<1>3. CASE ConnectWs \/ StartGathering \/ SendOffer
      BY <1>3 DEF ConnectWs, StartGathering, SendOffer, Fail
<1>4. CASE Register \/ Spawn
      BY <1>4 DEF Register, Spawn
<1>5. CASE AwaitIce \/ AwaitOpen \/ Tick
      BY <1>5 DEF AwaitIce, AwaitOpen, Tick, Fail
<1>6. CASE Forward \/ SetRemote
      BY <1>6 DEF Forward, SetRemote
<1>7. CASE Receive
      BY <1>7, Zenon DEF Receive, AfterAnswer
<1>8. CASE on_ice_candidate \/ WsCloses \/ \E m \in {"answer", "cand", "bye"} : CliSends(m)
      BY <1>8 DEF on_ice_candidate, WsCloses, CliSends
<1>9. CASE IceUp \/ IceFails \/ IceLost \/ ChannelOpens
  <2>1. loop # "none" /\ UNCHANGED <<phase, sigVars, hooks, heard, verdict, opened>>
        BY <1>9 DEF IceUp, IceFails, IceLost, ChannelOpens, Ice
  <2>2. calls' \subseteq Callbacks
        BY <1>9, Zenon DEF IceUp, IceFails, IceLost, ChannelOpens, Ice, Callbacks
  <2> QED BY <2>1, <2>2
<1>10. ASSUME NEW k \in calls, Callback(k) PROVE HookInv'
  <2>1. k \in Callbacks /\ loop # "none" /\ Hook(k) \in hooks /\ (k = "open" => Hook(k) = "open")
        BY DEF Callbacks, Hook
  <2>2. /\ calls' = calls \ {k} /\ heard' = heard \union {k}
        /\ opened' = (opened \/ (k = "open" /\ Hook(k) \in hooks))
        /\ verdict' = IF k # "open" /\ Hook(k) \in hooks /\ verdict = "none"
                      THEN IF k = "up" THEN "ok" ELSE "err"
                      ELSE verdict
        /\ UNCHANGED <<phase, loop, hooks, remote, ice, missed>>
        BY <1>10 DEF Callback
  <2> QED BY <2>1, <2>2, Zenon
<1>11. CASE UNCHANGED attemptVars
      BY <1>11 DEF attemptVars
<1> QED BY <1>1, <1>2, <1>3, <1>4, <1>5, <1>6, <1>7, <1>8, <1>9, <1>10, <1>11
        DEF AttemptNext, Offering, Awaiting, SignalTask, Environment

\* Every step preserves what holds of the signals.
LEMMA SignalNext == SignalInv /\ HookInv /\ [AttemptNext]_attemptVars => SignalInv'
<1> SUFFICES ASSUME SignalInv, HookInv, [AttemptNext]_attemptVars PROVE SignalInv'
    OBVIOUS
<1>a. /\ uplink \in Seq({"offer", "cand"}) /\ iceQ \in Seq(Nat) /\ cands \in Nat
      /\ \A i \in 1 .. Len(uplink) : (uplink[i] = "offer") <=> (i = 1)
      BY DEF SignalInv
<1>1. ASSUME UNCHANGED <<uplink, iceQ, cands>>, ws' => ws,
             phase' \in {"fetch", "setup", "ws", "gather"} => phase \in {"fetch", "setup", "ws", "gather"},
             phase' \in {"fetch", "setup", "ws", "gather", "offer"}
                => phase \in {"fetch", "setup", "ws", "gather", "offer"},
             phase' \in {"register", "spawn"} \/ loop' # "none"
                => phase \in {"register", "spawn"} \/ loop # "none"
      PROVE  SignalInv'
      BY <1>1, SMTT(30) DEF SignalInv
<1>2. CASE fetch_turn_credentials \/ Setup
      BY <1>2, <1>1 DEF fetch_turn_credentials, Setup, Fail, sigVars, HookInv
<1>3. CASE ConnectWs
  <2>1. uplink = << >> /\ iceQ = << >> /\ cands = 0 /\ Len(<< >>) = 0 /\ loop = "none"
        BY <1>3, SMTT(30) DEF ConnectWs, SignalInv, HookInv
  <2> QED BY <1>3, <2>1, <1>a DEF ConnectWs, Fail, SignalInv
<1>4. CASE StartGathering \/ Register \/ Spawn \/ AwaitIce \/ AwaitOpen \/ Tick
      BY <1>4, <1>1 DEF StartGathering, Register, Spawn, AwaitIce, AwaitOpen, Tick, Fail, sigVars,
                        HookInv
<1>5. CASE SendOffer
  <2>1. uplink = << >> /\ UNCHANGED <<iceQ, cands, ws, loop>> /\ loop = "none" /\ phase = "offer"
        BY <1>5 DEF SendOffer, SignalInv, HookInv
  <2>2. CASE ws /\ phase' = "register" /\ uplink' = Append(uplink, "offer")
    <3>1. /\ uplink' \in Seq({"offer", "cand"}) /\ Len(uplink') = 1 /\ Len(uplink) = 0 /\ uplink'[1] = "offer"
          /\ uplink' # << >>
          BY <2>1, <2>2, <1>a
    <3>2. \A i \in 1 .. Len(uplink') : (uplink'[i] = "offer") <=> (i = 1)
          BY <3>1
    <3>3. Len(uplink') + Len(iceQ) = cands + 1
          BY <2>1, <2>2, <3>1, <1>a DEF SignalInv
    <3> QED BY <1>a, <2>1, <2>2, <3>1, <3>2, <3>3 DEF SignalInv
  <2>3. CASE ~ws /\ phase' = "failed" /\ UNCHANGED uplink
        BY <1>1, <2>1, <2>3
  <2> QED BY <1>5, <2>2, <2>3 DEF SendOffer, Fail
<1>6. CASE on_ice_candidate
  <2>1. /\ UNCHANGED <<phase, uplink, ws, loop>> /\ cands' = cands + 1
        /\ iceQ' = Append(iceQ, cands + 1)
        /\ phase \notin {"fetch", "setup", "ws", "gather"}
        BY <1>6 DEF on_ice_candidate
  <2>2. iceQ' \in Seq(Nat) /\ Len(iceQ') = Len(iceQ) + 1 /\ cands' \in Nat /\ Len(iceQ) \in Nat
        BY <2>1, <1>a
  <2>3. Len(uplink) \in Nat
        BY <1>a
  <2>4. ws' => Len(uplink') + Len(iceQ') = cands' + (IF uplink' = << >> THEN 0 ELSE 1)
    <3>1. CASE uplink = << >>
          BY <1>a, <2>1, <2>2, <2>3, <3>1 DEF SignalInv
    <3>2. CASE uplink # << >>
          BY <1>a, <2>1, <2>2, <2>3, <3>2 DEF SignalInv
    <3> QED BY <3>1, <3>2
  <2> QED BY <1>a, <2>1, <2>2, <2>4 DEF SignalInv
<1>7. CASE Forward
  <2>1. /\ UNCHANGED <<phase, cands, ws, loop>> /\ loop = "select"
        /\ iceQ # << >> /\ iceQ' = Tail(iceQ)
        /\ uplink' = IF ws THEN Append(uplink, "cand") ELSE uplink
        BY <1>7 DEF Forward
  <2>2. /\ uplink # << >> /\ phase \notin {"fetch", "setup", "ws", "gather", "offer"}
        BY <2>1 DEF SignalInv, HookInv
  <2>3. iceQ' \in Seq(Nat) /\ Len(iceQ') = Len(iceQ) - 1 /\ Len(iceQ) \in Nat
        BY <2>1, <1>a
  <2>4. Len(uplink) \in Nat \ {0}
        BY <2>2, <1>a
  <2>5. CASE ws
    <3>1. /\ uplink' \in Seq({"offer", "cand"}) /\ Len(uplink') = Len(uplink) + 1 /\ uplink' # << >>
          /\ uplink'[Len(uplink) + 1] = "cand" /\ \A i \in 1 .. Len(uplink) : uplink'[i] = uplink[i]
      <4>1. uplink' = Append(uplink, "cand")
            BY <2>1, <2>5
      <4>2. "cand" \in {"offer", "cand"}
            OBVIOUS
      <4> QED BY <4>1, <4>2, <1>a
    <3>2. \A i \in 1 .. Len(uplink') : (uplink'[i] = "offer") <=> (i = 1)
          BY <3>1, <2>4, <1>a
    <3>3. Len(uplink') + Len(iceQ') = cands + 1
      <4>1. Len(uplink) + Len(iceQ) = cands + 1
            BY <2>2, <2>5 DEF SignalInv
      <4>2. Len(uplink') = Len(uplink) + 1 /\ Len(iceQ') = Len(iceQ) - 1
            BY <2>3, <3>1
      <4> QED BY <4>1, <4>2, <2>3, <2>4
    <3> QED BY <1>a, <2>1, <2>2, <2>3, <3>1, <3>2, <3>3 DEF SignalInv
  <2>6. CASE ~ws
        BY <1>a, <2>1, <2>2, <2>3, <2>6 DEF SignalInv
  <2> QED BY <2>5, <2>6
<1>8. CASE Receive
  <2>1. /\ UNCHANGED <<phase, cands, uplink>> /\ loop = "select"
        /\ \/ ws' = FALSE /\ iceQ' = << >>
           \/ UNCHANGED <<ws, iceQ>>
        BY <1>8 DEF Receive
  <2>2. /\ uplink # << >> /\ phase \notin {"fetch", "setup", "ws", "gather", "offer"}
        BY <2>1 DEF SignalInv, HookInv
  <2>3. CASE ws' = FALSE /\ iceQ' = << >>
    <3>1. << >> \in Seq(Nat)
          OBVIOUS
    <3> QED BY <1>a, <2>1, <2>2, <2>3, <3>1 DEF SignalInv
  <2>4. CASE UNCHANGED <<ws, iceQ>>
        BY <2>1, <2>2, <2>4 DEF SignalInv
  <2> QED BY <2>1, <2>3, <2>4, Zenon
<1>9. CASE SetRemote \/ WsCloses \/ \E m \in {"answer", "cand", "bye"} : CliSends(m)
      BY <1>9, <1>1, SMTT(30) DEF SetRemote, WsCloses, CliSends
<1>10. CASE IceUp \/ IceFails \/ IceLost \/ ChannelOpens \/ \E k \in calls : Callback(k)
      BY <1>10, <1>1 DEF IceUp, IceFails, IceLost, ChannelOpens, Ice, Callback, sigVars
<1>11. CASE UNCHANGED attemptVars
      BY <1>11, <1>1 DEF attemptVars, sigVars
<1> QED BY <1>2, <1>3, <1>4, <1>5, <1>6, <1>7, <1>8, <1>9, <1>10, <1>11
        DEF AttemptNext, Offering, Awaiting, SignalTask, Environment

\* Both hold before the attempt.
LEMMA SignalInit == AttemptInit => HookInv /\ SignalInv
<1> SUFFICES ASSUME AttemptInit PROVE HookInv /\ SignalInv
    OBVIOUS
<1>1. HookInv
      BY DEF AttemptInit, HookInv
<1>2. SignalInv
      BY DEF AttemptInit, SignalInv
<1> QED BY <1>1, <1>2

\* The invariants of the signaling task and of the callbacks hold of every state.
THEOREM SignalInvariant == AttemptSpec => [](HookInv /\ SignalInv)
BY SignalInit, HookNext, SignalNext, PTL DEF AttemptSpec

\* Local candidates follow the offer, none is lost between the channel and an open
\* socket, and none of the CLI's is refused while its answer is being set.
THEOREM NoCandidateIsLost == AttemptSpec => []CandidatesAreKept
<1>1. HookInv /\ SignalInv => CandidatesAreKept
      BY DEF HookInv, SignalInv, CandidatesAreKept
<1> QED BY <1>1, SignalInvariant, PTL

\* A verdict on ICE and the opening of the data channel are in their oneshots, however
\* the callbacks interleave with connect().
THEOREM NoVerdictIsMissed == AttemptSpec => []NoSignalMissed
<1>1. HookInv => NoSignalMissed
      BY DEF HookInv, NoSignalMissed
<1> QED BY <1>1, SignalInvariant, PTL

----------------------------------------------------------------------------
(***************************************************************************)
(* The connections of a TunnelServer, for any number of clients, frames and*)
(* broadcasts.  Nothing a connection does depends on another one, so the   *)
(* invariant is one of a single connection record: who holds the lock of   *)
(* the write half is between the two parts of a frame (LockOK), so the wire*)
(* holds whole frames but for a head at its end (OutOK), and a command is  *)
(* with the application only while its handler waits or writes (AppOK).    *)
(***************************************************************************)

\* A handler comes after its client, a writer after the handshake, and the abort of
\* the writer with the end of the handler.
PhaseOK(r) ==
    /\ r.cli = "none" => r.srv = "none"
    /\ r.srv \in {"none", "backlog", "new"} => r.wr = "none"
    /\ r.aborted => r.srv = "ended"

\* The lock is held by whoever is between the two parts of a frame.
LockOK(r) ==
    /\ r.lock = "handler" <=> r.srv = "body"
    /\ r.lock = "writer" <=> r.wr = "body"

\* Every second part on the wire is the body of the head before it.
Whole(s) ==
    \A i \in 1 .. Len(s) :
        s[i] = IF i % 2 = 1 THEN Part(s[i][1], "head") ELSE Part(s[i - 1][1], "body")

\* An even number of parts: no frame is half written.
Even(n) == n % 2 = 0

\* A head of frame f is the last part on the wire.
LastIsHead(s, f) == ~Even(Len(s)) /\ s[Len(s)] = Part(f, "head")

\* What was written last belongs to whoever holds the lock; half a frame is left
\* only where nobody writes any more.
OutOK(r) ==
    /\ Whole(r.out)
    /\ r.lock = "handler" => LastIsHead(r.out, r.reply)
    /\ r.lock = "writer" => LastIsHead(r.out, "packet")
    /\ r.lock = "free" => \/ Even(Len(r.out))
                          \/ r.broken
                          \/ r.srv = "ended" /\ r.wr = "done"

\* A command is with the application, or has its answer, only while the handler waits
\* for it or writes it; a write that failed may leave one behind.
AppOK(r) ==
    r.srv \notin {"waiting", "lock", "body"} => r.app = "none" \/ r.broken

\* A handler that writes has a reply to write.
ReplyOK(r) == r.srv \in {"lock", "body"} => r.reply # "none"

\* What holds of every connection.
ConnOK(r) ==
    r \in ConnRecords /\ PhaseOK(r) /\ LockOK(r) /\ OutOK(r) /\ AppOK(r) /\ ReplyOK(r)

\* The inductive invariant.
ServerInv == conn \in [Clients -> ConnRecords] /\ \A c \in Clients : ConnOK(conn[c])

\* A head may follow whole frames, and its body the head.
LEMMA WholeHead ==
    ASSUME NEW s \in Seq(Parts), Whole(s), Even(Len(s)), NEW f \in {"pong", "response", "packet"}
    PROVE  LET t == Append(s, Part(f, "head"))
           IN  t \in Seq(Parts) /\ Whole(t) /\ LastIsHead(t, f)
<1> DEFINE t == Append(s, Part(f, "head"))
<1>1. /\ t \in Seq(Parts)
      /\ Len(t) = Len(s) + 1
      /\ t[Len(s) + 1] = Part(f, "head")
      /\ \A i \in 1 .. Len(s) : t[i] = s[i]
      BY DEF Parts, Part
<1>2. ~Even(Len(t)) /\ (Len(s) + 1) % 2 = 1
      BY <1>1 DEF Even
<1>3. Part(f, "head")[1] = f
      BY SMTT(30) DEF Part
<1>4. \A i \in 1 .. Len(s) + 1 :
         t[i] = IF i % 2 = 1 THEN Part(t[i][1], "head") ELSE Part(t[i - 1][1], "body")
  <2> HIDE DEF t
  <2> TAKE i \in 1 .. Len(s) + 1
  <2>1. CASE i = Len(s) + 1
        BY <2>1, <1>1, <1>2, <1>3, SMTT(30)
  <2>2. CASE i \in 1 .. Len(s) /\ i % 2 = 1
        BY <2>2, <1>1 DEF Whole
  <2>3. CASE i \in 1 .. Len(s) /\ i % 2 # 1
    <3>1. i - 1 \in 1 .. Len(s)
          BY <2>3
    <3> QED BY <2>3, <3>1, <1>1 DEF Whole
  <2> QED BY <2>1, <2>2, <2>3
<1> QED BY <1>1, <1>2, <1>4, Zenon DEF Whole, LastIsHead

\* The body of the frame whose head is last completes it.
LEMMA WholeBody ==
    ASSUME NEW s \in Seq(Parts), Whole(s), NEW f \in {"pong", "response", "packet"},
           LastIsHead(s, f)
    PROVE  LET t == Append(s, Part(f, "body"))
           IN  t \in Seq(Parts) /\ Whole(t) /\ Even(Len(t))
<1> DEFINE t == Append(s, Part(f, "body"))
<1>1. /\ t \in Seq(Parts)
      /\ Len(t) = Len(s) + 1
      /\ t[Len(s) + 1] = Part(f, "body")
      /\ \A i \in 1 .. Len(s) : t[i] = s[i]
      BY DEF Parts, Part
<1>2. Even(Len(t)) /\ (Len(s) + 1) % 2 = 0 /\ Len(s) \in 1 .. Len(s)
      BY <1>1 DEF Even, LastIsHead
<1>3. t[Len(s)][1] = f
      BY <1>1, <1>2, SMTT(30) DEF Part, LastIsHead
<1>4. \A i \in 1 .. Len(s) + 1 :
         t[i] = IF i % 2 = 1 THEN Part(t[i][1], "head") ELSE Part(t[i - 1][1], "body")
  <2> HIDE DEF t
  <2> TAKE i \in 1 .. Len(s) + 1
  <2>1. CASE i = Len(s) + 1
        BY <2>1, <1>1, <1>2, <1>3, SMTT(30)
  <2>2. CASE i \in 1 .. Len(s) /\ i % 2 = 1
        BY <2>2, <1>1 DEF Whole
  <2>3. CASE i \in 1 .. Len(s) /\ i % 2 # 1
    <3>1. i - 1 \in 1 .. Len(s)
          BY <2>3
    <3> QED BY <2>3, <3>1, <1>1 DEF Whole
  <2> QED BY <2>1, <2>2, <2>3
<1> QED BY <1>1, <1>2, <1>4 DEF Whole

-----------------------------------------------------------------------------

\* A step of connection c preserves the invariant if its new record satisfies it,
\* and a step of all connections if all their new records do.
LEMMA ConnChanges ==
    ASSUME ServerInv, NEW c \in Clients, NEW r, ConnOK(r),
           conn' = [conn EXCEPT ![c] = r]
    PROVE  ServerInv'
BY DEF ServerInv, ConnOK

\* A step that changes all connections keeps the invariant if it keeps it for each.
LEMMA AllChange ==
    ASSUME NEW G, G = [c \in Clients |-> G[c]], \A c \in Clients : ConnOK(G[c]), conn' = G
    PROVE  ServerInv'
BY DEF ServerInv, ConnOK

\* Every step of a handler, a writer, a client and the application preserves it.
LEMMA ServerInvNext == ServerInv /\ [ServerNext]_serverVars => ServerInv'
<1> SUFFICES ASSUME ServerInv, [ServerNext]_serverVars PROVE ServerInv'
    OBVIOUS
<1>1. ASSUME NEW c \in Clients PROVE conn[c] \in ConnRecords /\ ConnOK(conn[c])
      BY DEF ServerInv
<1>2. CASE UNCHANGED conn
      BY <1>2 DEF ServerInv
<1>3. ASSUME NEW c \in Clients, Depart(c) PROVE ServerInv'
  <2> DEFINE r == [conn[c] EXCEPT !.cli = "left"]
  <2>1. r \in ConnRecords
        BY <1>1, <1>3, ZenonT(30) DEF ConnRecords
  <2>2. /\ r.cli = "left" /\ r.srv = conn[c].srv
        /\ r.wr = conn[c].wr /\ r.lock = conn[c].lock
        /\ r.aborted = conn[c].aborted /\ r.out = conn[c].out
        /\ r.reply = conn[c].reply /\ r.app = conn[c].app
        /\ r.broken = conn[c].broken
        BY <1>1, <1>3 DEF ConnRecords
  <2> HIDE DEF r
  <2>3. ConnOK(r)
        BY <1>1, <1>3, <2>1, <2>2 DEF Depart, ConnOK, PhaseOK, LockOK, OutOK, AppOK, ReplyOK
  <2> QED BY <1>1, <1>3, <2>3, ConnChanges, Zenon DEF Depart, Step, r
<1>4. ASSUME NEW c \in Clients, ReadLoop(c) PROVE ServerInv'
  <2> DEFINE r == [conn[c] EXCEPT !.srv = "select"]
  <2>1. r \in ConnRecords
        BY <1>1, <1>4, ZenonT(30) DEF ConnRecords, HandlerPhases
  <2>2. /\ r.cli = conn[c].cli /\ r.srv = "select"
        /\ r.wr = conn[c].wr /\ r.lock = conn[c].lock
        /\ r.aborted = conn[c].aborted /\ r.out = conn[c].out
        /\ r.reply = conn[c].reply /\ r.app = conn[c].app
        /\ r.broken = conn[c].broken
        BY <1>1, <1>4 DEF ConnRecords
  <2> HIDE DEF r
  <2>3. ConnOK(r)
        BY <1>1, <1>4, <2>1, <2>2 DEF ReadLoop, ConnOK, PhaseOK, LockOK, OutOK, AppOK, ReplyOK
  <2> QED BY <1>1, <1>4, <2>3, ConnChanges, Zenon DEF ReadLoop, Step, r
<1>5. ASSUME NEW c \in Clients, WriterTakes(c) PROVE ServerInv'
  <2> DEFINE r == [conn[c] EXCEPT !.wr = "lock", !.pending = @ - 1]
  <2>0. conn[c].pending - 1 \in 0 .. BroadcastCap
        BY <1>1, <1>5, ServerAssumption DEF ConnRecords, WriterTakes
  <2>1. r \in ConnRecords
        BY <1>1, <1>5, <2>0, ZenonT(30) DEF ConnRecords, WriterPhases
  <2>2. /\ r.cli = conn[c].cli /\ r.srv = conn[c].srv
        /\ r.wr = "lock" /\ r.lock = conn[c].lock
        /\ r.aborted = conn[c].aborted /\ r.out = conn[c].out
        /\ r.reply = conn[c].reply /\ r.app = conn[c].app
        /\ r.broken = conn[c].broken
        BY <1>1, <1>5, <2>0 DEF ConnRecords
  <2> HIDE DEF r
  <2>3. ConnOK(r)
        BY <1>1, <1>5, <2>0, <2>1, <2>2 DEF WriterTakes, ConnOK, PhaseOK, LockOK, OutOK, AppOK, ReplyOK
  <2> QED BY <1>1, <1>5, <2>0, <2>3, ConnChanges, Zenon DEF WriterTakes, Step, r
<1>6. ASSUME NEW c \in Clients, WriterFails(c) PROVE ServerInv'
  <2> DEFINE r == [conn[c] EXCEPT !.wr = "done", !.lock = "free", !.broken = TRUE,
                            !.pending = 0]
  <2>0. 0 \in 0 .. BroadcastCap
        BY ServerAssumption
  <2>1. r \in ConnRecords
        BY <1>1, <1>6, <2>0, ZenonT(30) DEF ConnRecords, WriterPhases, Holders
  <2>2. /\ r.cli = conn[c].cli /\ r.srv = conn[c].srv
        /\ r.wr = "done" /\ r.lock = "free"
        /\ r.aborted = conn[c].aborted /\ r.out = conn[c].out
        /\ r.reply = conn[c].reply /\ r.app = conn[c].app
        /\ r.broken = TRUE
        BY <1>1, <1>6, <2>0 DEF ConnRecords
  <2> HIDE DEF r
  <2>3. ConnOK(r)
        BY <1>1, <1>6, <2>0, <2>1, <2>2 DEF WriterFails, ConnOK, PhaseOK, LockOK, OutOK, AppOK, ReplyOK
  <2> QED BY <1>1, <1>6, <2>0, <2>3, ConnChanges, Zenon DEF WriterFails, Step, r
<1>7. ASSUME NEW c \in Clients, WriterAborts(c) PROVE ServerInv'
  <2> DEFINE r == [conn[c] EXCEPT !.wr = "done", !.pending = 0,
                            !.lock = IF conn[c].wr = "body" THEN "free" ELSE @]
  <2>0. 0 \in 0 .. BroadcastCap
        BY ServerAssumption
  <2>1. r \in ConnRecords
        BY <1>1, <1>7, <2>0, ZenonT(60) DEF ConnRecords, WriterPhases, Holders
  <2>2. /\ r.cli = conn[c].cli /\ r.srv = conn[c].srv
        /\ r.wr = "done" /\ r.lock = (IF conn[c].wr = "body" THEN "free" ELSE conn[c].lock)
        /\ r.aborted = conn[c].aborted /\ r.out = conn[c].out
        /\ r.reply = conn[c].reply /\ r.app = conn[c].app
        /\ r.broken = conn[c].broken
        BY <1>1, <1>7, <2>0 DEF ConnRecords
  <2> HIDE DEF r
  <2>3. ConnOK(r)
        BY <1>1, <1>7, <2>0, <2>1, <2>2 DEF WriterAborts, ConnOK, PhaseOK, LockOK, OutOK, AppOK, ReplyOK
  <2> QED BY <1>1, <1>7, <2>0, <2>3, ConnChanges, Zenon DEF WriterAborts, Step, r
<1>8. ASSUME NEW c \in Clients, ReplyFails(c) PROVE ServerInv'
  <2> DEFINE r == [conn[c] EXCEPT !.srv = "ended", !.lock = "free", !.broken = TRUE]
  <2>1. r \in ConnRecords
        BY <1>1, <1>8, ZenonT(60) DEF ConnRecords, HandlerPhases, Holders
  <2>2. /\ r.cli = conn[c].cli /\ r.srv = "ended"
        /\ r.wr = conn[c].wr /\ r.lock = "free"
        /\ r.aborted = conn[c].aborted /\ r.out = conn[c].out
        /\ r.reply = conn[c].reply /\ r.app = conn[c].app
        /\ r.broken = TRUE
        BY <1>1, <1>8 DEF ConnRecords
  <2> HIDE DEF r
  <2>3. ConnOK(r)
        BY <1>1, <1>8, <2>1, <2>2 DEF ReplyFails, ConnOK, PhaseOK, LockOK, OutOK, AppOK, ReplyOK
  <2> QED BY <1>1, <1>8, <2>3, ConnChanges, Zenon DEF ReplyFails, Step, r
<1>9. ASSUME NEW c \in Clients, Arrive(c) PROVE ServerInv'
  <2> DEFINE r == [conn[c] EXCEPT !.cli = "there", !.srv = "backlog"]
  <2>1. r \in ConnRecords
        BY <1>1, <1>9, ZenonT(30) DEF ConnRecords, HandlerPhases
  <2>2. /\ r.cli = "there" /\ r.srv = "backlog"
        /\ r.wr = conn[c].wr /\ r.lock = conn[c].lock
        /\ r.aborted = conn[c].aborted /\ r.out = conn[c].out
        /\ r.reply = conn[c].reply /\ r.app = conn[c].app
        /\ r.broken = conn[c].broken
        BY <1>1, <1>9 DEF ConnRecords
  <2> HIDE DEF r
  <2>3. ConnOK(r)
        BY <1>1, <1>9, <2>1, <2>2 DEF Arrive, ConnOK, PhaseOK, LockOK, OutOK, AppOK, ReplyOK
  <2> QED BY <1>1, <1>9, <2>3, ConnChanges, ZenonT(30) DEF Arrive, Step, r
<1>10. ASSUME NEW c \in Clients, Leaves(c) PROVE ServerInv'
  <2> DEFINE r == Break(conn[c])
  <2>1. r \in ConnRecords
        BY <1>1, <1>10, ZenonT(30) DEF ConnRecords, HandlerPhases, Break
  <2>2. /\ r.cli = conn[c].cli /\ r.srv = "ended"
        /\ r.wr = conn[c].wr /\ r.lock = conn[c].lock
        /\ r.aborted = TRUE /\ r.out = conn[c].out
        /\ r.reply = conn[c].reply /\ r.app = conn[c].app
        /\ r.broken = conn[c].broken
        BY <1>1, <1>10 DEF ConnRecords, Break
  <2> HIDE DEF r
  <2>3. ConnOK(r)
        BY <1>1, <1>10, <2>1, <2>2 DEF Leaves, ConnOK, PhaseOK, LockOK, OutOK, AppOK, ReplyOK
  <2> QED BY <1>1, <1>10, <2>3, ConnChanges, Zenon DEF Leaves, Step, r
<1>11. ASSUME NEW c \in Clients, ReplyHead(c) PROVE ServerInv'
  <2> DEFINE r == [conn[c] EXCEPT !.srv = "body", !.lock = "handler",
                            !.out = Append(@, Part(conn[c].reply, "head"))]
  <2>0. LET t == Append(conn[c].out, Part(conn[c].reply, "head"))
        IN  t \in Seq(Parts) /\ Whole(t) /\ LastIsHead(t, conn[c].reply)
    <3>1. conn[c].out \in Seq(Parts) /\ conn[c].reply \in {"pong", "response", "packet"}
          BY <1>1, <1>11 DEF ConnRecords, ConnOK, ReplyOK, ReplyHead, ReplyKinds
    <3>2. Whole(conn[c].out) /\ Even(Len(conn[c].out))
          BY <1>1, <1>11 DEF ConnOK, OutOK, ReplyHead, MayWrite
    <3> QED BY <3>1, <3>2, WholeHead, Zenon
  <2>1. r \in ConnRecords
        BY <1>1, <1>11, <2>0, ZenonT(30) DEF ConnRecords, HandlerPhases, Holders
  <2>2. /\ r.cli = conn[c].cli /\ r.srv = "body"
        /\ r.wr = conn[c].wr /\ r.lock = "handler"
        /\ r.aborted = conn[c].aborted /\ r.out = Append(conn[c].out, Part(conn[c].reply, "head"))
        /\ r.reply = conn[c].reply /\ r.app = conn[c].app
        /\ r.broken = conn[c].broken
        BY <1>1, <1>11, <2>0 DEF ConnRecords
  <2> HIDE DEF r
  <2>3. ConnOK(r)
        BY <1>1, <1>11, <2>0, <2>1, <2>2 DEF ReplyHead, MayWrite, ConnOK, PhaseOK, LockOK, OutOK, AppOK, ReplyOK
  <2> QED BY <1>1, <1>11, <2>0, <2>3, ConnChanges, Zenon DEF ReplyHead, MayWrite, Step, r
<1>12. ASSUME NEW c \in Clients, ReplyBody(c) PROVE ServerInv'
  <2> DEFINE r == [conn[c] EXCEPT !.srv = "busy", !.lock = "free", !.reply = "none",
                            !.app = "none",
                            !.out = Append(@, Part(conn[c].reply, "body"))]
  <2>0. LET t == Append(conn[c].out, Part(conn[c].reply, "body"))
        IN  t \in Seq(Parts) /\ Whole(t) /\ Even(Len(t))
    <3>1. conn[c].out \in Seq(Parts) /\ conn[c].reply \in {"pong", "response", "packet"}
          BY <1>1, <1>12 DEF ConnRecords, ConnOK, ReplyOK, ReplyBody, ReplyKinds
    <3>2. Whole(conn[c].out) /\ LastIsHead(conn[c].out, conn[c].reply)
          BY <1>1, <1>12 DEF ConnOK, OutOK, LockOK, ReplyBody
    <3> QED BY <3>1, <3>2, WholeBody
  <2>1. r \in ConnRecords
        BY <1>1, <1>12, <2>0, ZenonT(60) DEF ConnRecords, HandlerPhases, Holders, ReplyKinds, AppPhases
  <2>2. /\ r.cli = conn[c].cli /\ r.srv = "busy"
        /\ r.wr = conn[c].wr /\ r.lock = "free"
        /\ r.aborted = conn[c].aborted /\ r.out = Append(conn[c].out, Part(conn[c].reply, "body"))
        /\ r.reply = "none" /\ r.app = "none"
        /\ r.broken = conn[c].broken
        BY <1>1, <1>12, <2>0 DEF ConnRecords
  <2> HIDE DEF r
  <2>3. ConnOK(r)
        BY <1>1, <1>12, <2>0, <2>1, <2>2 DEF ReplyBody, MayWrite, ConnOK, PhaseOK, LockOK, OutOK, AppOK, ReplyOK
  <2> QED BY <1>1, <1>12, <2>0, <2>3, ConnChanges, Zenon DEF ReplyBody, MayWrite, Step, r
<1>13. ASSUME NEW c \in Clients, WriterHead(c) PROVE ServerInv'
  <2> DEFINE r == [conn[c] EXCEPT !.wr = "body", !.lock = "writer",
                            !.out = Append(@, Part("packet", "head"))]
  <2>0. LET t == Append(conn[c].out, Part("packet", "head"))
        IN  t \in Seq(Parts) /\ Whole(t) /\ LastIsHead(t, "packet")
    <3>1. conn[c].out \in Seq(Parts) /\ "packet" \in {"pong", "response", "packet"}
          BY <1>1, <1>13 DEF ConnRecords, ConnOK, ReplyOK, WriterHead
    <3>2. Whole(conn[c].out) /\ Even(Len(conn[c].out))
          BY <1>1, <1>13 DEF ConnOK, OutOK, WriterHead, MayWrite
    <3> QED BY <3>1, <3>2, WholeHead
  <2>1. r \in ConnRecords
        BY <1>1, <1>13, <2>0, ZenonT(30) DEF ConnRecords, WriterPhases, Holders
  <2>2. /\ r.cli = conn[c].cli /\ r.srv = conn[c].srv
        /\ r.wr = "body" /\ r.lock = "writer"
        /\ r.aborted = conn[c].aborted /\ r.out = Append(conn[c].out, Part("packet", "head"))
        /\ r.reply = conn[c].reply /\ r.app = conn[c].app
        /\ r.broken = conn[c].broken
        BY <1>1, <1>13, <2>0 DEF ConnRecords
  <2> HIDE DEF r
  <2>3. ConnOK(r)
        BY <1>1, <1>13, <2>0, <2>1, <2>2 DEF WriterHead, MayWrite, ConnOK, PhaseOK, LockOK, OutOK, AppOK, ReplyOK
  <2> QED BY <1>1, <1>13, <2>0, <2>3, ConnChanges, Zenon DEF WriterHead, MayWrite, Step, r
<1>14. ASSUME NEW c \in Clients, WriterBody(c) PROVE ServerInv'
  <2> DEFINE r == [conn[c] EXCEPT !.wr = "recv", !.lock = "free",
                            !.out = Append(@, Part("packet", "body"))]
  <2>0. LET t == Append(conn[c].out, Part("packet", "body"))
        IN  t \in Seq(Parts) /\ Whole(t) /\ Even(Len(t))
    <3>1. conn[c].out \in Seq(Parts) /\ "packet" \in {"pong", "response", "packet"}
          BY <1>1, <1>14 DEF ConnRecords, ConnOK, ReplyOK, WriterBody
    <3>2. Whole(conn[c].out) /\ LastIsHead(conn[c].out, "packet")
          BY <1>1, <1>14 DEF ConnOK, OutOK, LockOK, WriterBody
    <3> QED BY <3>1, <3>2, WholeBody
  <2>1. r \in ConnRecords
        BY <1>1, <1>14, <2>0, ZenonT(30) DEF ConnRecords, WriterPhases, Holders
  <2>2. /\ r.cli = conn[c].cli /\ r.srv = conn[c].srv
        /\ r.wr = "recv" /\ r.lock = "free"
        /\ r.aborted = conn[c].aborted /\ r.out = Append(conn[c].out, Part("packet", "body"))
        /\ r.reply = conn[c].reply /\ r.app = conn[c].app
        /\ r.broken = conn[c].broken
        BY <1>1, <1>14, <2>0 DEF ConnRecords
  <2> HIDE DEF r
  <2>3. ConnOK(r)
        BY <1>1, <1>14, <2>0, <2>1, <2>2 DEF WriterBody, MayWrite, ConnOK, PhaseOK, LockOK, OutOK, AppOK, ReplyOK
  <2> QED BY <1>1, <1>14, <2>0, <2>3, ConnChanges, Zenon DEF WriterBody, MayWrite, Step, r
<1>15. ASSUME NEW c \in Clients, Authenticate(c) PROVE ServerInv'
  <2>1. CASE Step(c, [conn[c] EXCEPT !.srv = "busy", !.wr = "recv"])
    <3> DEFINE r == [conn[c] EXCEPT !.srv = "busy", !.wr = "recv"]
    <3>1. r \in ConnRecords
          BY <1>1, <1>15, <2>1, ZenonT(30) DEF ConnRecords, HandlerPhases, WriterPhases
    <3>2. /\ r.cli = conn[c].cli /\ r.srv = "busy"
          /\ r.wr = "recv" /\ r.lock = conn[c].lock
          /\ r.aborted = conn[c].aborted /\ r.out = conn[c].out
          /\ r.reply = conn[c].reply /\ r.app = conn[c].app
          /\ r.broken = conn[c].broken
          BY <1>1, <1>15, <2>1 DEF ConnRecords
    <3> HIDE DEF r
    <3>3. ConnOK(r)
          BY <1>1, <1>15, <2>1, <3>1, <3>2 DEF Authenticate, ConnOK, PhaseOK, LockOK, OutOK, AppOK, ReplyOK
    <3> QED BY <1>1, <1>15, <2>1, <3>3, ConnChanges, Zenon DEF Authenticate, Step, r
  <2>2. CASE Step(c, [conn[c] EXCEPT !.srv = "ended", !.pending = 0])
    <3> DEFINE r == [conn[c] EXCEPT !.srv = "ended", !.pending = 0]
    <3>0. 0 \in 0 .. BroadcastCap
          BY ServerAssumption
    <3>1. r \in ConnRecords
          BY <1>1, <1>15, <2>2, <3>0, ZenonT(30) DEF ConnRecords, HandlerPhases
    <3>2. /\ r.cli = conn[c].cli /\ r.srv = "ended"
          /\ r.wr = conn[c].wr /\ r.lock = conn[c].lock
          /\ r.aborted = conn[c].aborted /\ r.out = conn[c].out
          /\ r.reply = conn[c].reply /\ r.app = conn[c].app
          /\ r.broken = conn[c].broken
          BY <1>1, <1>15, <2>2, <3>0 DEF ConnRecords
    <3> HIDE DEF r
    <3>3. ConnOK(r)
          BY <1>1, <1>15, <2>2, <3>0, <3>1, <3>2 DEF Authenticate, ConnOK, PhaseOK, LockOK, OutOK, AppOK, ReplyOK
    <3> QED BY <1>1, <1>15, <2>2, <3>0, <3>3, ConnChanges, Zenon DEF Authenticate, Step, r
  <2> QED BY Zenon, <1>15, <2>1, <2>2 DEF Authenticate
<1>16. ASSUME NEW c \in Clients, TakeResponse(c) PROVE ServerInv'
  <2>1. CASE Step(c, [conn[c] EXCEPT !.srv = "lock", !.reply = "response"])
    <3> DEFINE r == [conn[c] EXCEPT !.srv = "lock", !.reply = "response"]
    <3>1. r \in ConnRecords
          BY <1>1, <1>16, <2>1, ZenonT(30) DEF ConnRecords, HandlerPhases, ReplyKinds
    <3>2. /\ r.cli = conn[c].cli /\ r.srv = "lock"
          /\ r.wr = conn[c].wr /\ r.lock = conn[c].lock
          /\ r.aborted = conn[c].aborted /\ r.out = conn[c].out
          /\ r.reply = "response" /\ r.app = conn[c].app
          /\ r.broken = conn[c].broken
          BY <1>1, <1>16, <2>1 DEF ConnRecords
    <3> HIDE DEF r
    <3>3. ConnOK(r)
          BY <1>1, <1>16, <2>1, <3>1, <3>2 DEF TakeResponse, ConnOK, PhaseOK, LockOK, OutOK, AppOK, ReplyOK
    <3> QED BY <1>1, <1>16, <2>1, <3>3, ConnChanges, Zenon DEF TakeResponse, Step, r
  <2>2. CASE Step(c, [conn[c] EXCEPT !.srv = "busy", !.app = "none"])
    <3> DEFINE r == [conn[c] EXCEPT !.srv = "busy", !.app = "none"]
    <3>1. r \in ConnRecords
          BY <1>1, <1>16, <2>2, ZenonT(30) DEF ConnRecords, HandlerPhases, AppPhases
    <3>2. /\ r.cli = conn[c].cli /\ r.srv = "busy"
          /\ r.wr = conn[c].wr /\ r.lock = conn[c].lock
          /\ r.aborted = conn[c].aborted /\ r.out = conn[c].out
          /\ r.reply = conn[c].reply /\ r.app = "none"
          /\ r.broken = conn[c].broken
          BY <1>1, <1>16, <2>2 DEF ConnRecords
    <3> HIDE DEF r
    <3>3. ConnOK(r)
          BY <1>1, <1>16, <2>2, <3>1, <3>2 DEF TakeResponse, ConnOK, PhaseOK, LockOK, OutOK, AppOK, ReplyOK
    <3> QED BY <1>1, <1>16, <2>2, <3>3, ConnChanges, Zenon DEF TakeResponse, Step, r
  <2>3. CASE Step(c, Break([conn[c] EXCEPT !.app = "none"]))
    <3> DEFINE r == Break([conn[c] EXCEPT !.app = "none"])
    <3>1. r \in ConnRecords
          BY <1>1, <1>16, <2>3, ZenonT(60) DEF ConnRecords, HandlerPhases, AppPhases, Break
    <3>2. /\ r.cli = conn[c].cli /\ r.srv = "ended"
          /\ r.wr = conn[c].wr /\ r.lock = conn[c].lock
          /\ r.aborted = TRUE /\ r.out = conn[c].out
          /\ r.reply = conn[c].reply /\ r.app = "none"
          /\ r.broken = conn[c].broken
          BY <1>1, <1>16, <2>3 DEF ConnRecords, Break
    <3> HIDE DEF r
    <3>3. ConnOK(r)
          BY <1>1, <1>16, <2>3, <3>1, <3>2 DEF TakeResponse, ConnOK, PhaseOK, LockOK, OutOK, AppOK, ReplyOK
    <3> QED BY <1>1, <1>16, <2>3, <3>3, ConnChanges, Zenon DEF TakeResponse, Step, r
  <2> QED BY Zenon, <1>16, <2>1, <2>2, <2>3 DEF TakeResponse
<1>17. ASSUME AcceptStops PROVE ServerInv'
  <2> DEFINE G == [c \in Clients |-> IF conn[c].srv = "backlog"
                                   THEN [conn[c] EXCEPT !.srv = "ended"]
                                   ELSE conn[c]]
  <2>1. ASSUME NEW c \in Clients PROVE ConnOK(G[c])
    <3>1. CASE ~(conn[c].srv = "backlog")
          BY <1>1, <3>1
    <3>2. CASE conn[c].srv = "backlog"
      <4> DEFINE r == [conn[c] EXCEPT !.srv = "ended"]
      <4>1. r \in ConnRecords
            BY <1>1, <1>17, <3>2, ZenonT(30) DEF ConnRecords, HandlerPhases
      <4>2. /\ r.cli = conn[c].cli /\ r.srv = "ended"
            /\ r.wr = conn[c].wr /\ r.lock = conn[c].lock
            /\ r.aborted = conn[c].aborted /\ r.out = conn[c].out
            /\ r.reply = conn[c].reply /\ r.app = conn[c].app
            /\ r.broken = conn[c].broken
            BY <1>1, <1>17, <3>2 DEF ConnRecords
      <4> HIDE DEF r
      <4>3. ConnOK(r)
            BY <1>1, <1>17, <3>2, <4>1, <4>2 DEF AcceptStops, ConnOK, PhaseOK, LockOK, OutOK, AppOK, ReplyOK
      <4> QED BY <3>2, <4>3 DEF r
    <3> QED BY <3>1, <3>2
  <2>2. conn' = G /\ G = [c \in Clients |-> G[c]]
        BY <1>17 DEF AcceptStops
  <2> HIDE DEF G
  <2> QED BY <2>1, <2>2, AllChange
<1>18. ASSUME Broadcast PROVE ServerInv'
  <2> DEFINE Room(c) == /\ \/ conn[c].srv = "new"
                           \/ conn[c].wr \in {"recv", "lock", "body"}
                        /\ conn[c].pending < BroadcastCap
             G == [c \in Clients |-> IF Room(c) THEN [conn[c] EXCEPT !.pending = @ + 1]
                                               ELSE conn[c]]
  <2>1. ASSUME NEW c \in Clients PROVE ConnOK(G[c])
    <3>1. CASE ~Room(c)
          BY <1>1, <3>1
    <3>2. CASE Room(c)
      <4> DEFINE r == [conn[c] EXCEPT !.pending = @ + 1]
      <4>0. conn[c].pending + 1 \in 0 .. BroadcastCap
            BY <1>1, <3>2, ServerAssumption DEF ConnRecords
      <4>1. r \in ConnRecords
            BY <1>1, <1>18, <3>2, <4>0, ZenonT(30) DEF ConnRecords
      <4>2. /\ r.cli = conn[c].cli /\ r.srv = conn[c].srv
            /\ r.wr = conn[c].wr /\ r.lock = conn[c].lock
            /\ r.aborted = conn[c].aborted /\ r.out = conn[c].out
            /\ r.reply = conn[c].reply /\ r.app = conn[c].app
            /\ r.broken = conn[c].broken
            BY <1>1, <1>18, <3>2, <4>0 DEF ConnRecords
      <4> HIDE DEF r
      <4>3. ConnOK(r)
            BY <1>1, <1>18, <3>2, <4>0, <4>1, <4>2 DEF Broadcast, ConnOK, PhaseOK, LockOK, OutOK, AppOK, ReplyOK
      <4> QED BY <3>2, <4>3 DEF r
    <3> QED BY <3>1, <3>2
  <2>2. conn' = G /\ G = [c \in Clients |-> G[c]]
        BY <1>18 DEF Broadcast
  <2> HIDE DEF G
  <2> QED BY <2>1, <2>2, AllChange
<1>19. ASSUME AppStops PROVE ServerInv'
  <2>0. PICK how \in [Clients -> {"asked", "dropped", "refused"}] :
            conn' = [c \in Clients |-> IF conn[c].app = "asked"
                                      THEN [conn[c] EXCEPT !.app = how[c]]
                                      ELSE conn[c]]
        BY <1>19, Zenon DEF AppStops
  <2> DEFINE G == [c \in Clients |-> IF conn[c].app = "asked"
                                   THEN [conn[c] EXCEPT !.app = how[c]]
                                   ELSE conn[c]]
  <2>1. ASSUME NEW c \in Clients PROVE ConnOK(G[c])
    <3>1. CASE ~(conn[c].app = "asked")
          BY <1>1, <3>1
    <3>2. CASE conn[c].app = "asked"
      <4> DEFINE r == [conn[c] EXCEPT !.app = how[c]]
      <4>0. how[c] \in {"asked", "dropped", "refused"}
            BY <2>0
      <4>1. r \in ConnRecords
            BY <1>1, <1>19, <2>0, <3>2, <4>0, ZenonT(30) DEF ConnRecords, AppPhases
      <4>2. /\ r.cli = conn[c].cli /\ r.srv = conn[c].srv
            /\ r.wr = conn[c].wr /\ r.lock = conn[c].lock
            /\ r.aborted = conn[c].aborted /\ r.out = conn[c].out
            /\ r.reply = conn[c].reply /\ r.app = how[c]
            /\ r.broken = conn[c].broken
            BY <1>1, <1>19, <2>0, <3>2, <4>0 DEF ConnRecords
      <4> HIDE DEF r
      <4>3. ConnOK(r)
            BY <1>1, <1>19, <2>0, <3>2, <4>0, <4>1, <4>2 DEF AppStops, ConnOK, PhaseOK, LockOK, OutOK, AppOK, ReplyOK
      <4> QED BY <3>2, <4>3 DEF r
    <3> QED BY <3>1, <3>2
  <2>2. conn' = G /\ G = [c \in Clients |-> G[c]]
        BY <1>19, <2>0 DEF AppStops
  <2> HIDE DEF G
  <2> QED BY <2>1, <2>2, AllChange
<1>20. ASSUME NEW c \in Clients, NEW f \in Frames, SendFrame(c, f) PROVE ServerInv'
  <2> DEFINE r == [conn[c] EXCEPT !.in = Append(@, f), !.sent = @ + 1]
  <2>0. /\ conn[c].sent + 1 \in 0 .. MaxFrames
        /\ Append(conn[c].in, f) \in Seq(Frames)
        BY <1>1, <1>20, ServerAssumption, SMTT(30) DEF ConnRecords, SendFrame
  <2>1. r \in ConnRecords
        BY <1>1, <1>20, <2>0, ZenonT(30) DEF ConnRecords
  <2>2. /\ r.cli = conn[c].cli /\ r.srv = conn[c].srv
        /\ r.wr = conn[c].wr /\ r.lock = conn[c].lock
        /\ r.aborted = conn[c].aborted /\ r.out = conn[c].out
        /\ r.reply = conn[c].reply /\ r.app = conn[c].app
        /\ r.broken = conn[c].broken
        BY <1>1, <1>20, <2>0 DEF ConnRecords
  <2> HIDE DEF r
  <2>3. ConnOK(r)
        BY <1>1, <1>20, <2>0, <2>1, <2>2 DEF SendFrame, ConnOK, PhaseOK, LockOK, OutOK, AppOK, ReplyOK
  <2> QED BY <1>1, <1>20, <2>0, <2>3, ConnChanges, ZenonT(30) DEF SendFrame, Step, r
<1>21. ASSUME NEW c \in Clients, Respond(c) PROVE ServerInv'
  <2>a. PICK how \in {"answered", "dropped"} : Step(c, [conn[c] EXCEPT !.app = how])
        BY <1>21 DEF Respond
  <2> DEFINE r == [conn[c] EXCEPT !.app = how]
  <2>1. r \in ConnRecords
        BY <1>1, <1>21, <2>a, ZenonT(30) DEF ConnRecords, AppPhases
  <2>2. /\ r.cli = conn[c].cli /\ r.srv = conn[c].srv
        /\ r.wr = conn[c].wr /\ r.lock = conn[c].lock
        /\ r.aborted = conn[c].aborted /\ r.out = conn[c].out
        /\ r.reply = conn[c].reply /\ r.app = how
        /\ r.broken = conn[c].broken
        BY <1>1, <1>21, <2>a DEF ConnRecords
  <2> HIDE DEF r
  <2>3. ConnOK(r)
        BY <1>1, <1>21, <2>a, <2>1, <2>2 DEF Respond, ConnOK, PhaseOK, LockOK, OutOK, AppOK, ReplyOK
  <2> QED BY <1>1, <1>21, <2>a, <2>3, ConnChanges, Zenon DEF Respond, Step, r
<1>22. ASSUME NEW c \in Clients, conn[c].srv = "backlog",
             conn' = [conn EXCEPT ![c].srv = "new"] PROVE ServerInv'
  <2> DEFINE r == [conn[c] EXCEPT !.srv = "new"]
  <2>1. r \in ConnRecords
        BY <1>1, <1>22, ZenonT(60) DEF ConnRecords, HandlerPhases
  <2>2. /\ r.cli = conn[c].cli /\ r.srv = "new"
        /\ r.wr = conn[c].wr /\ r.lock = conn[c].lock
        /\ r.aborted = conn[c].aborted /\ r.out = conn[c].out
        /\ r.reply = conn[c].reply /\ r.app = conn[c].app
        /\ r.broken = conn[c].broken
        BY <1>1, <1>22 DEF ConnRecords
  <2> HIDE DEF r
  <2>3. ConnOK(r)
        BY <1>1, <1>22, <2>1, <2>2 DEF AcceptOne, ConnOK, PhaseOK, LockOK, OutOK, AppOK, ReplyOK
  <2> QED BY <1>1, <1>22, <2>3, ConnChanges, Zenon DEF AcceptOne, Step, r
<1>23. ASSUME NEW c \in Clients, ReadFrame(c) PROVE ServerInv'
  <2> DEFINE f == Head(conn[c].in)
             q == [conn[c] EXCEPT !.in = Tail(@), !.srv = "busy"]
  <2>1. Tail(conn[c].in) \in Seq(Frames) /\ conn[c].srv = "select"
        BY <1>1, <1>23 DEF ConnRecords, ReadFrame
  <2>2. q \in ConnRecords
        BY <1>1, <2>1, ZenonT(60) DEF ConnRecords, HandlerPhases
  <2>3. /\ q.cli = conn[c].cli /\ q.srv = "busy"
        /\ q.wr = conn[c].wr /\ q.lock = conn[c].lock
        /\ q.aborted = conn[c].aborted /\ q.out = conn[c].out
        /\ q.reply = conn[c].reply /\ q.app = conn[c].app
        /\ q.broken = conn[c].broken
        BY <1>1 DEF ConnRecords
  <2>9. ConnOK(q)
    <3> HIDE DEF q
    <3>1. ConnOK(conn[c])
          BY <1>1
    <3> QED BY <2>1, <2>2, <2>3, <3>1, ZenonT(30)
            DEF ConnOK, PhaseOK, LockOK, OutOK, AppOK, ReplyOK
  <2>4. conn' = [conn EXCEPT ![c] =
                    CASE f = "command" /\ appUp ->
                            [q EXCEPT !.srv = "waiting", !.app = "asked"]
                      [] f = "unreadable" \/ (f = "command" /\ ~appUp) -> Break(q)
                      [] f = "ping" -> [q EXCEPT !.srv = "lock", !.reply = "pong"]
                      [] OTHER -> q]
        BY <1>23 DEF ReadFrame
  <2> HIDE DEF f, q
  <2>5. CASE f = "command" /\ appUp
    <3> DEFINE r == [q EXCEPT !.srv = "waiting", !.app = "asked"]
    <3>1. r \in ConnRecords
          BY <2>2, Zenon DEF ConnRecords, HandlerPhases, AppPhases
    <3>2. /\ r.cli = q.cli /\ r.srv = "waiting"
          /\ r.wr = q.wr /\ r.lock = q.lock
          /\ r.aborted = q.aborted /\ r.out = q.out
          /\ r.reply = q.reply /\ r.app = "asked"
          /\ r.broken = q.broken
          BY <2>2 DEF ConnRecords
    <3>3. conn' = [conn EXCEPT ![c] = r]
          BY <2>4, <2>5
    <3> HIDE DEF r
    <3>4. ConnOK(r)
          BY <2>3, <2>9, <3>1, <3>2, ZenonT(30) DEF ConnOK, PhaseOK, LockOK, OutOK, AppOK, ReplyOK
    <3> QED BY <3>3, <3>4, ConnChanges, Zenon
  <2>6. CASE f = "unreadable" \/ (f = "command" /\ ~appUp)
    <3> DEFINE r == Break(q)
    <3>1. r \in ConnRecords
          BY <2>2, Zenon DEF ConnRecords, HandlerPhases, Break
    <3>2. /\ r.cli = q.cli /\ r.srv = "ended"
          /\ r.wr = q.wr /\ r.lock = q.lock
          /\ r.aborted = TRUE /\ r.out = q.out
          /\ r.reply = q.reply /\ r.app = q.app
          /\ r.broken = q.broken
          BY <2>2 DEF ConnRecords, Break
    <3>3. conn' = [conn EXCEPT ![c] = r]
          BY <2>4, <2>6, Zenon
    <3> HIDE DEF r
    <3>4. ConnOK(r)
          BY <2>3, <2>9, <3>1, <3>2, ZenonT(30) DEF ConnOK, PhaseOK, LockOK, OutOK, AppOK, ReplyOK
    <3> QED BY <3>3, <3>4, ConnChanges, Zenon
  <2>7. CASE f = "ping"
    <3> DEFINE r == [q EXCEPT !.srv = "lock", !.reply = "pong"]
    <3>1. r \in ConnRecords
          BY <2>2, Zenon DEF ConnRecords, HandlerPhases, ReplyKinds
    <3>2. /\ r.cli = q.cli /\ r.srv = "lock"
          /\ r.wr = q.wr /\ r.lock = q.lock
          /\ r.aborted = q.aborted /\ r.out = q.out
          /\ r.reply = "pong" /\ r.app = q.app
          /\ r.broken = q.broken
          BY <2>2 DEF ConnRecords
    <3>3. conn' = [conn EXCEPT ![c] = r]
          BY <2>4, <2>7
    <3> HIDE DEF r
    <3>4. ConnOK(r)
          BY <2>3, <2>9, <3>1, <3>2, ZenonT(30) DEF ConnOK, PhaseOK, LockOK, OutOK, AppOK, ReplyOK
    <3> QED BY <3>3, <3>4, ConnChanges, Zenon
  <2>8. CASE f \notin {"command", "unreadable", "ping"}
    <3> DEFINE r == q
    <3>1. r \in ConnRecords
          BY <2>2, Zenon DEF ConnRecords
    <3>2. /\ r.cli = q.cli /\ r.srv = q.srv
          /\ r.wr = q.wr /\ r.lock = q.lock
          /\ r.aborted = q.aborted /\ r.out = q.out
          /\ r.reply = q.reply /\ r.app = q.app
          /\ r.broken = q.broken
          BY <2>2 DEF ConnRecords
    <3>3. conn' = [conn EXCEPT ![c] = r]
          BY <2>4, <2>8, Zenon
    <3> HIDE DEF r
    <3>4. ConnOK(r)
          BY <2>3, <2>9, <3>1, <3>2, ZenonT(30) DEF ConnOK, PhaseOK, LockOK, OutOK, AppOK, ReplyOK
    <3> QED BY <3>3, <3>4, ConnChanges, Zenon
  <2> QED BY <2>5, <2>6, <2>7, <2>8
<1>24. CASE AcceptTask
  <2>1. CASE AcceptOne
        BY <2>1, <1>2, <1>22 DEF AcceptOne
  <2>2. CASE AcceptLoop
        BY <2>2, <1>2 DEF AcceptLoop
  <2> QED BY <1>24, <2>1, <2>2, <1>17 DEF AcceptTask
<1>25. ASSUME NEW c \in Clients, Handler(c) PROVE ServerInv'
      BY <1>25, <1>15, <1>10, <1>23, <1>4, <1>16, <1>11, <1>12, <1>8 DEF Handler
<1>26. ASSUME NEW c \in Clients, Writer(c) \/ WriterAborts(c) PROVE ServerInv'
      BY <1>26, <1>5, <1>13, <1>14, <1>6, <1>7 DEF Writer
<1>27. ASSUME NEW c \in Clients, Client(c) PROVE ServerInv'
      BY <1>27, <1>9, <1>3, <1>20 DEF Client
<1>28. CASE Application
  <2>1. CASE shutdown
        BY <2>1, <1>2 DEF shutdown
  <2>2. ASSUME NEW t \in Triggers, TakeTrigger(t) PROVE ServerInv'
        BY <2>2, <1>2 DEF TakeTrigger
  <2> QED BY <1>28, <2>1, <2>2, <1>18, <1>19, <1>21 DEF Application
<1>29. CASE UNCHANGED serverVars
      BY <1>29, <1>2 DEF serverVars
<1> QED BY <1>24, <1>25, <1>26, <1>27, <1>28, <1>29 DEF ServerNext

\* It holds before the first client.
LEMMA ServerInvInit == ServerInit => ServerInv
<1> SUFFICES ASSUME ServerInit PROVE ServerInv
    OBVIOUS
<1>1. NoConn \in ConnRecords
  <2>1. << >> \in Seq(Frames) /\ << >> \in Seq(Parts)
        /\ 0 \in 0 .. MaxFrames /\ 0 \in 0 .. BroadcastCap
        BY ServerAssumption
  <2> QED BY <2>1, Zenon
          DEF NoConn, ConnRecords, HandlerPhases, WriterPhases, AppPhases, Holders, ReplyKinds
<1>2. ConnOK(NoConn)
  <2>1. PhaseOK(NoConn) /\ LockOK(NoConn) /\ AppOK(NoConn) /\ ReplyOK(NoConn)
        BY ZenonT(30) DEF NoConn, PhaseOK, LockOK, AppOK, ReplyOK
  <2>2. NoConn.out = << >> /\ NoConn.lock = "free"
        BY DEF NoConn
  <2>3. Whole(<< >>) /\ Even(Len(<< >>))
        BY DEF Whole, Even
  <2>4. OutOK(NoConn)
        BY <2>2, <2>3, ZenonT(30) DEF OutOK
  <2> QED BY <1>1, <2>1, <2>4 DEF ConnOK
<1> QED BY <1>1, <1>2 DEF ServerInit, ServerInv

\* The other variables keep their types.
LoopTypeOK ==
    /\ accept \in {"select", "busy", "down"}
    /\ shut \in BOOLEAN /\ quiet \in BOOLEAN /\ appUp \in BOOLEAN
    /\ told \subseteq Clients \union {Acceptor}
    /\ triggers \subseteq Triggers
    /\ casts \in 0 .. MaxBroadcasts

\* Every step keeps the types of the accept loop and of the channels.
LEMMA LoopTypeNext == LoopTypeOK /\ [ServerNext]_serverVars => LoopTypeOK'
<1> SUFFICES ASSUME LoopTypeOK, [ServerNext]_serverVars PROVE LoopTypeOK'
    OBVIOUS
<1> USE DEF LoopTypeOK, loopVars, appVars
<1>1. ASSUME UNCHANGED <<loopVars, appVars>> PROVE LoopTypeOK'
      BY <1>1
<1>2. CASE AcceptTask
      BY <1>2, Zenon DEF AcceptTask, AcceptOne, AcceptLoop, AcceptStops
<1>3. ASSUME NEW c \in Clients, Client(c) PROVE LoopTypeOK'
      BY <1>3, <1>1, ZenonT(30) DEF Client, Arrive, Depart, SendFrame, Step
<1>4. ASSUME NEW c \in Clients, Leaves(c) \/ ReadFrame(c) PROVE LoopTypeOK'
      BY <1>4 DEF Leaves, ReadFrame
<1>5. ASSUME NEW c \in Clients, Handler(c) PROVE LoopTypeOK'
      BY <1>5, <1>1, <1>4
      DEF Handler, Authenticate, ReadLoop, TakeResponse, ReplyHead, ReplyBody, ReplyFails, Step
<1>6. ASSUME NEW c \in Clients, Writer(c) \/ WriterAborts(c) PROVE LoopTypeOK'
      BY <1>6, <1>1
      DEF Writer, WriterTakes, WriterHead, WriterBody, WriterFails, WriterAborts, Step
<1>7. CASE Broadcast
      BY <1>7, ServerAssumption, SMTT(30) DEF Broadcast
<1>8. CASE shutdown
      BY <1>8 DEF shutdown, Waiting, Idle
<1>9. CASE Application
      BY <1>9, <1>1, <1>7, <1>8, ZenonT(30) DEF Application, AppStops, TakeTrigger, Respond, Step
<1>10. CASE UNCHANGED serverVars
      BY <1>10, <1>1 DEF serverVars
<1> QED BY <1>2, <1>3, <1>5, <1>6, <1>9, <1>10 DEF ServerNext

\* The invariant holds of every state of the tunnel server.
THEOREM ServerInvariant == ServerSpec => []ServerInv
BY ServerInvInit, ServerInvNext, PTL DEF ServerSpec

\* Types; among them, that a writer is never more than the capacity of the broadcast
\* channel behind.
THEOREM ServerTypeCorrect == ServerSpec => []ServerTypeOK
<1>1. ServerInit => LoopTypeOK
  <2>1. 0 \in 0 .. MaxBroadcasts
        BY ServerAssumption
  <2> QED BY <2>1, Zenon DEF ServerInit, LoopTypeOK
<1>2. ServerInv /\ LoopTypeOK => ServerTypeOK
      BY DEF ServerInv, LoopTypeOK, ServerTypeOK
<1> QED BY <1>1, <1>2, LoopTypeNext, ServerInvariant, PTL DEF ServerSpec

\* The handler and the writer of a connection never mix the parts of their frames,
\* for any number of clients, frames and broadcasts: the lock of the write half is kept
\* from the head of a frame to its body.
THEOREM FramesAreWhole == ServerSpec => []WholeFrames
<1>1. ServerInv => WholeFrames
      BY Zenon DEF ServerInv, ConnOK, OutOK, Whole, WholeFrames
<1> QED BY <1>1, ServerInvariant, PTL

\* A command the application has taken is answered on the wire before handle_client
\* ends, for any number of clients and frames and however shutdown() falls, unless the
\* application drops it or a write has failed.
THEOREM CommandsAreAnswered == ServerSpec => []TakenIsAnswered
<1>1. ServerInv => TakenIsAnswered
      BY DEF ServerInv, ConnOK, AppOK, TakenIsAnswered
<1> QED BY <1>1, ServerInvariant, PTL
=============================================================================
