---------------------------- MODULE AgentAccess ----------------------------
(***************************************************************************)
(* Who the agent lets in (roboat-core): the allowlist it starts with       *)
(* (config.rs), the service that keeps it in step with the platform        *)
(* (authorized_keys.rs), and the handshake that reads it (auth.rs), each   *)
(* handshake a task of its own.  The heartbeat service (heartbeat.rs) has  *)
(* the key service's loop, and both are stopped by a watch channel.        *)
(***************************************************************************)
EXTENDS Naturals

CONSTANTS
    Callers,        \* connections, each made once
    PublicKeys,     \* Ed25519 public keys
    PlatformLists,  \* the key lists the platform may answer with
    MaxChanges      \* bound on the changes of the platform's list

Blank == "blank"          \* a key that is empty once trimmed
Malformed == "malformed"  \* not 64 hex digits
RawKeys == PublicKeys \union {Blank, Malformed}

ASSUME ListAssumption ==
    /\ {Blank, Malformed} \intersect PublicKeys = {}
    /\ PlatformLists \subseteq SUBSET RawKeys
    /\ MaxChanges \in Nat

Services == {"keys", "heartbeat"}

VARIABLES
    config,    \* the configured keys, and whether there may be none
    keys,      \* ServerAuthenticator::authorized_keys
    platform,  \* the keys the platform would answer with
    changes,   \* how often those have changed
    answer,    \* what the key service has fetched
    svc,       \* the phase of each service
    stop,      \* the value in the watch channel
    unseen,    \* services that have not seen it change
    shake      \* the handshakes, see NoShake

keyVars == <<config, keys, platform, changes, answer>>
svcVars == <<svc, stop, unseen>>
accessVars == <<keyVars, svcVars, shake>>

NoShake ==
    [cli |-> "none",      \* the client's side
     key |-> Blank,       \* its key
     srv |-> "none",      \* the server's side
     named |-> {},        \* the allowlists in effect since it began
     verdict |-> "none"]  \* the byte that answers its signature

\* A step of handshake c alone.
Shake(c, r) ==
    /\ shake' = [shake EXCEPT ![c] = r]
    /\ UNCHANGED <<keyVars, svcVars>>

-----------------------------------------------------------------------------
(* The allowlist: AgentConfig, ServerAuthenticator, the services *)

\* apply_env_overrides: what the environment sets replaces what the file says.
apply_env_overrides(file, env) ==
    [authorized |-> IF "keys" \in env.set THEN env.authorized ELSE file.authorized,
     insecure |-> IF "insecure" \in env.set THEN env.insecure ELSE file.insecure]

\* Keys are trimmed and lowered, and empty ones dropped.
normalize_keys(raw) == raw \ {Blank}

\* Every key is well formed, and there is one unless the configuration says
\* that any client may come in.
validate_security(c) ==
    LET ks == normalize_keys(c.authorized) IN
    /\ Malformed \notin ks
    /\ ks = {} => c.insecure

\* The configurations that a file and an environment lead to.
load_with_env ==
    LET Files == [authorized: SUBSET RawKeys, insecure: BOOLEAN]
        Envs == [set: SUBSET {"keys", "insecure"},
                 authorized: SUBSET RawKeys, insecure: BOOLEAN]
        Read == {apply_env_overrides(f, e) : f \in Files, e \in Envs}
    IN  {[c EXCEPT !.authorized = normalize_keys(@)] :
            c \in {d \in Read : validate_security(d)}}

\* An empty list admits every key.
Admits(list, k) == list = {} \/ k \in list

\* The list changes under the handshakes that have not read it yet.
replace_authorized_keys(list) ==
    /\ keys' = list
    /\ shake' = [c \in Callers |->
                    IF shake[c].srv \in {"new", "reply"}
                    THEN [shake[c] EXCEPT !.named = @ \union {list}] ELSE shake[c]]

PlatformChanges(list) ==
    /\ changes < MaxChanges
    /\ platform' = list
    /\ changes' = changes + 1
    /\ UNCHANGED <<config, keys, answer, svcVars, shake>>

\* The request is answered, with a list or with an error, which the HTTP
\* client's timeout of 10 seconds is one of.
fetch_agent_bootstrap ==
    /\ svc["keys"] = "busy"
    /\ \/ /\ svc' = [svc EXCEPT !["keys"] = "apply"]
          /\ answer' = platform
       \/ /\ svc' = [svc EXCEPT !["keys"] = "select"]
          /\ UNCHANGED answer
    /\ UNCHANGED <<config, keys, platform, changes, stop, unseen, shake>>

\* Mutation: the platform's keys take the place of the configured ones.
sync_once_PlatformOnly ==
    /\ svc["keys"] = "apply"
    /\ replace_authorized_keys(normalize_keys(answer))
    /\ svc' = [svc EXCEPT !["keys"] = "select"]
    /\ answer' = {}
    /\ UNCHANGED <<config, platform, changes, stop, unseen>>

\* The configured keys and the fetched ones become the allowlist.
sync_once ==
    /\ svc["keys"] = "apply"
    /\ replace_authorized_keys(normalize_keys(config.authorized \union answer))
    /\ svc' = [svc EXCEPT !["keys"] = "select"]
    /\ answer' = {}
    /\ UNCHANGED <<config, platform, changes, stop, unseen>>

\* Acknowledged, refused or lost, the loop goes on.
send_heartbeat ==
    /\ svc["heartbeat"] = "busy"
    /\ svc' = [svc EXCEPT !["heartbeat"] = "select"]
    /\ UNCHANGED <<keyVars, stop, unseen, shake>>

\* A service's interval ticks.
IntervalTick(s) ==
    /\ svc[s] = "select"
    /\ svc' = [svc EXCEPT ![s] = "busy"]
    /\ UNCHANGED <<keyVars, stop, unseen, shake>>

\* A service sees the watch channel change, and leaves if it says so.
ServiceStops(s) ==
    /\ svc[s] = "select"
    /\ s \in unseen
    /\ unseen' = unseen \ {s}
    /\ svc' = IF stop THEN [svc EXCEPT ![s] = "done"] ELSE svc
    /\ UNCHANGED <<keyVars, stop, shake>>

\* The owner of the services stops them.
StopServices ==
    /\ ~stop
    /\ stop' = TRUE
    /\ unseen' = Services
    /\ UNCHANGED <<keyVars, svc, shake>>

-----------------------------------------------------------------------------
(* The handshake: ServerAuthenticator and ClientAuthenticator *)

\* A client connects.
ClientConnects(c, k) ==
    /\ shake[c].cli = "none"
    /\ Shake(c, [shake[c] EXCEPT !.cli = "nonce", !.key = k, !.srv = "new",
                                 !.named = {keys}])

\* The handler sends its nonce.
SendNonce(c) ==
    /\ shake[c].srv = "new"
    /\ Shake(c, [shake[c] EXCEPT !.srv = "reply"])

\* The client signs the nonce, and sends its key and the signature.
Sign(c) ==
    /\ shake[c].cli = "nonce"
    /\ shake[c].srv = "reply"
    /\ Shake(c, [shake[c] EXCEPT !.cli = "verdict"])

\* The signature is good: the list as it is now decides.
Decide(c) ==
    /\ shake[c].srv = "reply"
    /\ shake[c].cli = "verdict"
    /\ Shake(c, [shake[c] EXCEPT !.srv = IF Admits(keys, shake[c].key)
                                          THEN "accepting" ELSE "rejecting"])

\* No verdict: the signature is bad, the client has left, or a read has
\* taken 10 seconds.
AuthFails(c) ==
    /\ \/ shake[c].srv = "reply"
       \/ shake[c].srv \in {"new", "accepting", "rejecting"} /\ shake[c].cli = "left"
    /\ Shake(c, [shake[c] EXCEPT !.srv = "ended", !.named = {}])

\* The rejection byte, and the end.
Reject(c) ==
    /\ shake[c].srv = "rejecting"
    /\ Shake(c, [shake[c] EXCEPT !.srv = "ended", !.named = {},
                                 !.verdict = "no"])

\* The acceptance byte: the client is in.
AcceptClient(c) ==
    /\ shake[c].srv = "accepting"
    /\ Shake(c, [shake[c] EXCEPT !.srv = "in", !.named = {},
                                 !.verdict = "yes"])

\* The client reads the byte.
ReadVerdict(c) ==
    /\ shake[c].cli = "verdict"
    /\ shake[c].verdict # "none"
    /\ Shake(c, [shake[c] EXCEPT !.cli = IF shake[c].verdict = "yes"
                                          THEN "ok" ELSE "left"])

\* The client gives up: one of its reads has failed or taken 10 seconds.
GiveUp(c) ==
    /\ shake[c].cli \in {"nonce", "verdict"}
    /\ Shake(c, [shake[c] EXCEPT !.cli = "left"])

-----------------------------------------------------------------------------
(* The specification *)

AccessInit ==
    /\ config \in load_with_env
    /\ keys = normalize_keys(config.authorized)
    /\ platform \in PlatformLists
    /\ changes = 0
    /\ answer = {}
    /\ svc = [s \in Services |-> IF s = "keys" THEN "busy" ELSE "select"]
    /\ stop = FALSE
    /\ unseen = {}
    /\ shake = [c \in Callers |-> NoShake]

Service(s) ==
    \/ IntervalTick(s)
    \/ ServiceStops(s)
    \/ s = "keys" /\ (fetch_agent_bootstrap \/ sync_once)
    \/ s = "heartbeat" /\ send_heartbeat

Handshake(c) ==
    \/ SendNonce(c) \/ Decide(c) \/ AuthFails(c) \/ Reject(c) \/ AcceptClient(c)
    \/ Sign(c) \/ ReadVerdict(c) \/ GiveUp(c)

AccessNext ==
    \/ \E list \in PlatformLists : PlatformChanges(list)
    \/ StopServices
    \/ \E s \in Services : Service(s)
    \/ \E c \in Callers : Handshake(c) \/ \E k \in PublicKeys : ClientConnects(c, k)

AccessSpec == AccessInit /\ [][AccessNext]_accessVars

-----------------------------------------------------------------------------
(* Properties *)

Allowlists == SUBSET (PublicKeys \union {Malformed})

ShakeRecords ==
    [cli: {"none", "nonce", "verdict", "ok", "left"}, key: RawKeys,
     srv: {"none", "new", "reply", "accepting", "rejecting", "in", "ended"},
     named: SUBSET Allowlists, verdict: {"none", "yes", "no"}]

AccessTypeOK ==
    /\ config \in [authorized: SUBSET PublicKeys, insecure: BOOLEAN]
    /\ keys \in Allowlists
    /\ platform \in PlatformLists
    /\ changes \in 0 .. MaxChanges
    /\ answer \in PlatformLists \union {{}}
    /\ svc \in [Services -> {"select", "busy", "apply", "done"}]
    /\ stop \in BOOLEAN
    /\ unseen \subseteq Services
    /\ shake \in [Callers -> ShakeRecords]

\* A client is admitted only under an allowlist that was in effect during its
\* handshake and named its key, or was empty in a configuration that allows
\* any client; and a configured key is never refused.  The platform's keys come
\* and go, and the service replaces the list, while handshakes run
\* (auth.rs:101-113, authorized_keys.rs:76-82).
AdmissionFollowsList ==
    \A c \in Callers :
        /\ shake[c].srv = "accepting" =>
              \E list \in shake[c].named :
                  shake[c].key \in list \/ (list = {} /\ config.insecure)
        /\ shake[c].srv = "rejecting" =>
              /\ shake[c].key \notin config.authorized
              /\ \E list \in shake[c].named : ~Admits(list, shake[c].key)
=============================================================================
