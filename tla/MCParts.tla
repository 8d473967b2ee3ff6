------------------------------- MODULE MCParts -------------------------------
(***************************************************************************)
(* Four parts for TLC: of the relay, the robots' state (ConnState) and the *)
(* gate of the triggers (FallbackGate); of the agent, its allowlist        *)
(* (AgentAccess) and its tunnel server (TunnelServer).  They share no      *)
(* state: a behaviour picks one of them, and leaves the others in an       *)
(* initial state.                                                          *)
(*                                                                         *)
(* One robot and one handshake are enough, for they do not interact.  The  *)
(* TTLs keep the code's order (75 s below 90 s), and the clocks run past   *)
(* every TTL, backoff and retention.                                       *)
(***************************************************************************)
EXTENDS ConnState, FallbackGate, AgentAccess, TunnelServer

VARIABLE part  \* what this behaviour is about

mcVars == <<part, robotVars, gateVars, accessVars, serverVars>>

MCBackoffMin == [bootstrap |-> 1, teardown |-> 2]
MCBackoffMax == [bootstrap |-> 2, teardown |-> 3]

\* The platform adds a key, revokes it, or answers with keys that name nobody.
MCPlatformLists == {{}, {"k2"}, {Blank, Malformed}}

MCInit ==
    /\ part \in {"robots", "gate", "allowlist", "server"}
    /\ RobotsInit /\ GateInit /\ AccessInit /\ ServerInit
    /\ part # "allowlist" => /\ config = CHOOSE c \in load_with_env : TRUE
                             /\ platform = {}

Robot(A) == part = "robots" /\ A /\ UNCHANGED <<part, gateVars, accessVars, serverVars>>
Gate(A) == part = "gate" /\ A /\ UNCHANGED <<part, robotVars, accessVars, serverVars>>
Allowlist(A) == part = "allowlist" /\ A /\ UNCHANGED <<part, robotVars, gateVars, serverVars>>
Server(A) == part = "server" /\ A /\ UNCHANGED <<part, robotVars, gateVars, accessVars>>

MCNext == Robot(RobotsNext) \/ Gate(GateNext) \/ Allowlist(AccessNext) \/ Server(ServerNext)

\* ServerFairness, for behaviours of the server.
MCFairness ==
    /\ WF_mcVars(Server(AcceptTask))
    /\ \A c \in Clients : /\ WF_mcVars(Server(Handler(c)))
                          /\ WF_mcVars(Server(Writer(c)))
                          /\ WF_mcVars(Server(WriterAborts(c)))

MCSpec == MCInit /\ [][MCNext]_mcVars /\ MCFairness
=============================================================================
