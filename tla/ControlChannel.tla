--------------------------- MODULE ControlChannel ---------------------------
(***************************************************************************)
(* What the hub promises to those who send through it (AgentControlHub in  *)
(* go/relay/relay.go): at any time it names at most one connection of the  *)
(* robot, a connection is named from its registration until it is replaced *)
(* or has ended, and never again after that.                               *)
(*                                                                         *)
(* This is the abstract specification of the control plane.  ControlPlane, *)
(* with its goroutines, policies and unordered teardown, implements it;    *)
(* CommandExchange is built on it.                                         *)
(***************************************************************************)
CONSTANTS
    Conns,   \* the connections the agent makes, each one once
    NoConn   \* nil

ASSUME NoConnAssumption == NoConn \notin Conns

VARIABLES
    hub,   \* h.conns[robot]
    link   \* new: not accepted yet; up: open; down: closed, its read pump may
           \* still be running; gone: refused, or out of the hub for good

channelVars == <<hub, link>>

Link == {"new", "up", "down", "gone"}

ChannelTypeOK ==
    /\ hub \in Conns \cup {NoConn}
    /\ link \in [Conns -> Link]

ChannelInit ==
    /\ hub = NoConn
    /\ link = [c \in Conns |-> "new"]

\* RegisterWithPolicy accepts the connection, replacing whichever was there.
Attach(c) ==
    /\ link[c] = "new"
    /\ hub' = c
    /\ link' = [link EXCEPT ![c] = "up"]

\* RegisterWithPolicy turns the connection away.
Refuse(c) ==
    /\ link[c] = "new"
    /\ link' = [link EXCEPT ![c] = "gone"]
    /\ UNCHANGED hub

\* close(): by the peer, a failed read or write, or a newer connection.
Break(c) ==
    /\ link[c] = "up"
    /\ link' = [link EXCEPT ![c] = "down"]
    /\ UNCHANGED hub

\* Unregister, after the read pump has returned.
Detach(c) ==
    /\ link[c] = "down"
    /\ link' = [link EXCEPT ![c] = "gone"]
    /\ hub' = IF hub = c THEN NoConn ELSE hub

ChannelNext ==
    \E c \in Conns : Attach(c) \/ Refuse(c) \/ Break(c) \/ Detach(c)

ChannelSpec == ChannelInit /\ [][ChannelNext]_channelVars
=============================================================================
