-------------------------- MODULE SignalingProofs --------------------------
(***************************************************************************)
(* The signaling hub, for any number of sessions and peers: the types, that*)
(* a late teardown clears no other client's session, and that either side  *)
(* of a session implements ControlChannel, the abstract channel that the   *)
(* control plane implements too.  The refinement needs SidesInv: a peer that*)
(* is not being pumped yet has an open socket, and one that leaves has not.*)
(***************************************************************************)
EXTENDS Signaling, FiniteSetTheorems, TLAPS

\* What the refinement needs: the types of what it maps, a peer whose pumps have
\* not started has an open socket and no write pump, and a handler that leaves
\* has closed its socket.
SidesInv ==
    /\ agent \in [SessionIds -> Agents \cup {NoPeer}]
    /\ client \in [SessionIds -> Clients \cup {NoPeer}]
    /\ handler \in [Peers -> Phase]
    /\ writer \in [Peers -> {"off", "selecting", "exited"}]
    /\ open \in [Peers -> BOOLEAN]
    /\ \A p \in Peers :
          /\ handler[p] \in {"idle", "got", "placed", "activating", "announcing"}
                => open[p] /\ writer[p] = "off"
          /\ handler[p] = "leaving" => ~open[p]

\* No peer has come yet.
LEMMA SidesInvInit == Init => SidesInv
BY DEF Init, SidesInv, Phase

\* Every step of every handler, write pump and teardown keeps the invariant.
LEMMA SidesInvNext == SidesInv /\ [Next]_vars => SidesInv'
<1> SUFFICES ASSUME SidesInv, [Next]_vars PROVE SidesInv'
    OBVIOUS
<1> USE PeerAssumption DEF SidesInv, Phase, Peers, Goto, sessionVars
<1>1. ASSUME NEW p \in Peers, GetOrCreate(p) PROVE SidesInv'
    BY <1>1 DEF GetOrCreate
<1>2. ASSUME NEW p \in Peers, Place(p) PROVE SidesInv'
  <2>1. handler' \in [Peers -> Phase] /\ open' \in [Peers -> BOOLEAN]
    BY <1>2, Zenon DEF Place
  <2>2. /\ agent' \in [SessionIds -> Agents \cup {NoPeer}]
        /\ client' \in [SessionIds -> Clients \cup {NoPeer}]
    BY <1>2 DEF Place, SetSide
  <2>3. /\ handler[p] = "got" /\ writer' = writer
        /\ \/ /\ handler' = [handler EXCEPT ![p] = "gone"]
              /\ open' = [open EXCEPT ![p] = FALSE]
           \/ /\ handler' = [handler EXCEPT ![p] = "placed"]
              /\ open' = open
    BY <1>2 DEF Place
  <2> QED
    BY <2>1, <2>2, <2>3
<1>3. ASSUME NEW p \in Peers, ClosePrev(p) \/ Activate(p) \/ Announce(p)
      PROVE  SidesInv'
    BY <1>3 DEF ClosePrev, Activate, Announce
<1>4. ASSUME NEW p \in Peers, Leave(p) PROVE SidesInv'
    BY <1>4 DEF Leave, SetSide
<1>5. ASSUME NEW p \in Peers, Bye(p) \/ Remove(p) \/ Relay(p) \/ ReadFails(p)
      PROVE  SidesInv'
    BY <1>5, ZenonT(30) DEF Bye, Remove, Relay, ReadFails
<1>6. ASSUME NEW p \in Peers, WriterSends(p) \/ WriterExits(p) \/ Teardown(p)
      PROVE  SidesInv'
    BY <1>6, ZenonT(30) DEF WriterSends, WriterExits, Teardown
<1>7. CASE UNCHANGED vars
    BY <1>7 DEF vars
<1> QED
    BY <1>1, <1>2, <1>3, <1>4, <1>5, <1>6, <1>7 DEF Next, HandlerStep

\* A teardown that runs late, when another client has activated its own session,
\* leaves that session alone (ClearActiveSessionIfMatch compares the id).
THEOREM LateTeardownIsHarmless == Spec => TeardownSparesOthers
<1> DEFINE A == active # NoBoot /\ active' = NoBoot =>
                   \E p \in tearing : Boot[p] = active /\ p \notin tearing'
<1>1. ASSUME Next PROVE A
  <2>1. ASSUME NEW p \in Peers, Teardown(p) PROVE A
    BY <2>1 DEF Teardown
  <2>2. ASSUME NEW p \in Peers, Activate(p) PROVE A
    BY <2>2, PeerAssumption, Zenon DEF Activate
  <2>3. ASSUME NEW p \in Peers,
               \/ GetOrCreate(p) \/ Place(p) \/ ClosePrev(p) \/ Announce(p)
               \/ Leave(p) \/ Bye(p) \/ Remove(p) \/ Relay(p) \/ ReadFails(p)
               \/ WriterSends(p) \/ WriterExits(p)
        PROVE  active' = active
    BY <2>3 DEF GetOrCreate, Place, ClosePrev, Announce, Leave, Bye, Remove,
                Relay, ReadFails, WriterSends, WriterExits
  <2> QED
    BY <1>1, <2>1, <2>2, <2>3 DEF Next, HandlerStep
<1>2. [Next]_vars => [A]_vars
    BY <1>1
<1> QED
    BY <1>2, PTL DEF Spec, TeardownSparesOthers

-----------------------------------------------------------------------------
(* Either side of a Session implements ControlChannel *)

\* The state of the peers of one side changes at p only, when it is the same
\* everywhere else.
LEMMA LinkChangesAt ==
    ASSUME NEW S, NEW s, NEW p \in S, NEW v,
           linkIn(s, S)'[p] = v,
           \A q \in S \ {p} : linkIn(s, S)'[q] = linkIn(s, S)[q]
    PROVE  linkIn(s, S)' = [linkIn(s, S) EXCEPT ![p] = v]
<1> DEFINE new == linkIn(s, S)'
           old == linkIn(s, S)
<1>1. new = [q \in S |-> new[q]]
    BY DEF linkIn
<1>2. DOMAIN old = S
    BY DEF linkIn
<1>3. new[p] = v /\ \A q \in S \ {p} : new[q] = old[q]
    OBVIOUS
<1> HIDE DEF new, old
<1>4. new = [old EXCEPT ![p] = v]
    BY <1>1, <1>2, <1>3, Zenon
<1> QED
    BY <1>4 DEF new, old

\* A step of a peer that is not of this side, or not in this Session, leaves the
\* side's links alone; so does every step that is not about the socket or about
\* taking and giving up a side.
LEMMA LinkUnchanged ==
    ASSUME SidesInv, NEW S \in SUBSET Peers, NEW s, NEW p \in Peers,
           \/ GetOrCreate(p) \/ ClosePrev(p) \/ Activate(p) \/ Announce(p)
           \/ Bye(p) \/ Remove(p) \/ Relay(p) \/ WriterSends(p) \/ Teardown(p)
           \/ (p \notin S \/ sessionOf[p] # s)
              /\ (Place(p) \/ Leave(p) \/ ReadFails(p) \/ WriterExits(p))
    PROVE  linkIn(s, S)' = linkIn(s, S)
<1> USE DEF SidesInv, Goto, Placed, sessionVars, linkIn
<1>1. CASE GetOrCreate(p)
  <2>1. /\ handler[p] = "idle" /\ handler' = [handler EXCEPT ![p] = "got"]
        /\ open' = open
        /\ \E v : sessionOf' = [sessionOf EXCEPT ![p] = v]
    BY <1>1 DEF GetOrCreate
  <2>2. ASSUME NEW q \in S
        PROVE  linkIn(s, S)'[q] = linkIn(s, S)[q]
    BY <2>1, SMTT(30)
  <2> QED
    BY <2>2
<1>2. CASE ClosePrev(p) \/ Activate(p) \/ Announce(p)
    BY <1>2, SMTT(30) DEF ClosePrev, Activate, Announce
<1>3. CASE Bye(p) \/ Remove(p) \/ Relay(p) \/ WriterSends(p) \/ Teardown(p)
    BY <1>3, SMTT(30) DEF Bye, Remove, Relay, WriterSends, Teardown
<1>4. CASE (p \notin S \/ sessionOf[p] # s) /\ (Place(p) \/ Leave(p))
    BY <1>4 DEF Place, Leave
<1>5. CASE (p \notin S \/ sessionOf[p] # s) /\ (ReadFails(p) \/ WriterExits(p))
    BY <1>5 DEF ReadFails, WriterExits
<1> QED
    BY <1>1, <1>2, <1>3, <1>4, <1>5

\* A peer that comes to its Session takes its side with an open socket, or is
\* turned away.
LEMMA LinkPlaced ==
    ASSUME SidesInv, NEW S \in SUBSET Peers, NEW p \in S, NEW s,
           sessionOf[p] = s, Place(p)
    PROVE  /\ linkIn(s, S)[p] = "new"
           /\ handler'[p] = "gone" =>
                 linkIn(s, S)' = [linkIn(s, S) EXCEPT ![p] = "gone"]
           /\ handler'[p] # "gone" =>
                 linkIn(s, S)' = [linkIn(s, S) EXCEPT ![p] = "up"]
<1>1. /\ sessionOf' = sessionOf
      /\ \/ handler' = [handler EXCEPT ![p] = "gone"]
         \/ /\ handler' = [handler EXCEPT ![p] = "placed"]
            /\ open' = open
      /\ \A q \in S \ {p} : open'[q] = open[q]
    BY DEF Place, Goto, SidesInv
<1>2. handler[p] = "got"
    BY DEF Place
<1>3. linkIn(s, S)[p] = "new"
    BY <1>2 DEF linkIn
<1>4. \A q \in S \ {p} : linkIn(s, S)'[q] = linkIn(s, S)[q]
    BY <1>1 DEF linkIn, Placed, SidesInv
<1>5. CASE handler'[p] = "gone"
  <2>1. linkIn(s, S)'[p] = "gone"
    BY <1>1, <1>5 DEF linkIn, Placed, SidesInv
  <2> QED
    BY <1>3, <1>4, <1>5, <2>1, LinkChangesAt
<1>6. CASE handler'[p] # "gone"
  <2>1. linkIn(s, S)'[p] = "up"
    BY <1>1, <1>2, <1>6 DEF linkIn, Placed, SidesInv
  <2> QED
    BY <1>3, <1>4, <1>6, <2>1, LinkChangesAt
<1> QED
    BY <1>5, <1>6

\* A socket that is closed goes from up to down, or was not up.
LEMMA LinkBroken ==
    ASSUME SidesInv, NEW S \in SUBSET Peers, NEW p \in S, NEW s,
           ReadFails(p) \/ WriterExits(p)
    PROVE  \/ linkIn(s, S)' = linkIn(s, S)
           \/ /\ linkIn(s, S)[p] = "up"
              /\ linkIn(s, S)' = [linkIn(s, S) EXCEPT ![p] = "down"]
<1>1. /\ sessionOf' = sessionOf
      /\ open' = [open EXCEPT ![p] = FALSE]
      /\ \/ handler' = handler
         \/ handler[p] = "reading" /\ handler' = [handler EXCEPT ![p] = "leaving"]
    BY DEF ReadFails, WriterExits, Goto
<1>2. \A q \in S \ {p} : linkIn(s, S)'[q] = linkIn(s, S)[q]
    BY <1>1 DEF linkIn, Placed, SidesInv
<1>3. CASE linkIn(s, S)[p] = "up"
  <2>1. linkIn(s, S)'[p] = "down"
    BY <1>1, <1>3 DEF linkIn, Placed, SidesInv
  <2> QED
    BY <1>2, <1>3, <2>1, LinkChangesAt
<1>4. CASE linkIn(s, S)[p] # "up"
  <2>1. linkIn(s, S)'[p] = linkIn(s, S)[p]
    BY <1>1, <1>4 DEF linkIn, Placed, SidesInv
  <2>2. \A q \in S : linkIn(s, S)'[q] = linkIn(s, S)[q]
    BY <1>2, <2>1
  <2> QED
    BY <2>2 DEF linkIn
<1> QED
    BY <1>3, <1>4

\* A peer gives up its side after its socket was closed.
LEMMA LinkLeft ==
    ASSUME SidesInv, NEW S \in SUBSET Peers, NEW p \in S, NEW s,
           sessionOf[p] = s, Leave(p)
    PROVE  /\ linkIn(s, S)[p] = "down"
           /\ linkIn(s, S)' = [linkIn(s, S) EXCEPT ![p] = "gone"]
<1>1. /\ sessionOf' = sessionOf
      /\ open' = open
      /\ \E b \in {"bye", "removing", "gone"} : handler' = [handler EXCEPT ![p] = b]
    BY DEF Leave, Goto
<1>2. handler[p] = "leaving" /\ ~open[p]
    BY DEF Leave, SidesInv
<1>3. linkIn(s, S)[p] = "down"
    BY <1>2 DEF linkIn, Placed
<1>4. linkIn(s, S)'[p] = "gone"
    BY <1>1, <1>2 DEF linkIn, Placed, SidesInv
<1>5. \A q \in S \ {p} : linkIn(s, S)'[q] = linkIn(s, S)[q]
    BY <1>1, SMTT(30) DEF linkIn, Placed, SidesInv
<1> QED
    BY <1>3, <1>4, <1>5, LinkChangesAt

\* A step of the handlers is a step of the client side of every Session, or leaves
\* it alone.
LEMMA ClientStep ==
    ASSUME SidesInv, Next, NEW s \in SessionIds
    PROVE  \/ ClientSide(s)!ChannelNext
           \/ UNCHANGED <<client[s], linkIn(s, Clients)>>
<1>1. PICK p \in Peers :
         \/ GetOrCreate(p) \/ HandlerStep(p) \/ Relay(p) \/ ReadFails(p)
         \/ WriterSends(p) \/ WriterExits(p) \/ Teardown(p)
    BY DEF Next
<1>2. Clients \in SUBSET Peers
    BY DEF Peers
<1>3. CASE p \in Clients /\ sessionOf[p] = s /\ Place(p)
  <2>1. CASE handler'[p] = "gone"
    <3>1. client' = client
      BY <1>3, <2>1 DEF Place, Goto, SidesInv
    <3>2. ClientSide(s)!Refuse(p)
      BY <1>2, <1>3, <2>1, <3>1, LinkPlaced, Zenon DEF ClientSide!Refuse
    <3> QED
      BY <1>3, <3>2 DEF ClientSide!ChannelNext
  <2>2. CASE handler'[p] # "gone"
    <3>1. client'[s] = p
      BY <1>3, <2>2, PeerAssumption DEF Place, Goto, SetSide, SidesInv
    <3>2. ClientSide(s)!Attach(p)
      BY <1>2, <1>3, <2>2, <3>1, LinkPlaced, Zenon DEF ClientSide!Attach
    <3> QED
      BY <1>3, <3>2 DEF ClientSide!ChannelNext
  <2> QED
    BY <2>1, <2>2
<1>4. CASE p \in Clients /\ sessionOf[p] = s /\ Leave(p)
  <2>1. client'[s] = IF client[s] = p THEN NoPeer ELSE client[s]
    BY <1>4, PeerAssumption DEF Leave, Side, SetSide, SidesInv
  <2>2. ClientSide(s)!Detach(p)
    BY <1>2, <1>4, <2>1, LinkLeft, Zenon DEF ClientSide!Detach
  <2> QED
    BY <1>4, <2>2 DEF ClientSide!ChannelNext
<1>5. CASE p \in Clients /\ (ReadFails(p) \/ WriterExits(p))
  <2>1. client' = client
    BY <1>5 DEF ReadFails, WriterExits, sessionVars
  <2>2. CASE linkIn(s, Clients)' = linkIn(s, Clients)
    BY <2>1, <2>2
  <2>3. CASE linkIn(s, Clients)' # linkIn(s, Clients)
    <3>1. ClientSide(s)!Break(p)
      BY <1>2, <1>5, <2>1, <2>3, LinkBroken DEF ClientSide!Break
    <3> QED
      BY <1>5, <3>1 DEF ClientSide!ChannelNext
  <2> QED
    BY <2>2, <2>3
<1>6. CASE (p \notin Clients \/ sessionOf[p] # s) /\ (Place(p) \/ Leave(p))
  <2>1. client'[s] = client[s]
    BY <1>6, PeerAssumption DEF Place, Leave, SetSide, SidesInv, Peers
  <2>2. linkIn(s, Clients)' = linkIn(s, Clients)
    BY <1>2, <1>6, LinkUnchanged
  <2> QED
    BY <2>1, <2>2
<1>7. CASE p \notin Clients /\ (ReadFails(p) \/ WriterExits(p))
  <2>1. client' = client
    BY <1>7 DEF ReadFails, WriterExits, sessionVars
  <2>2. linkIn(s, Clients)' = linkIn(s, Clients)
    BY <1>2, <1>7, LinkUnchanged
  <2> QED
    BY <2>1, <2>2
<1>8. CASE \/ GetOrCreate(p) \/ ClosePrev(p) \/ Activate(p) \/ Announce(p)
           \/ Bye(p) \/ Remove(p) \/ Relay(p) \/ WriterSends(p) \/ Teardown(p)
  <2>1. client' = client
    BY <1>8 DEF GetOrCreate, ClosePrev, Activate, Announce, Bye, Remove, Relay,
                WriterSends, Teardown, sessionVars
  <2>2. linkIn(s, Clients)' = linkIn(s, Clients)
    BY <1>2, <1>8, LinkUnchanged
  <2> QED
    BY <2>1, <2>2
<1> QED
    BY <1>1, <1>3, <1>4, <1>5, <1>6, <1>7, <1>8 DEF HandlerStep

\* A step of the handlers is a step of the agent side of every Session, or leaves
\* it alone.
LEMMA AgentStep ==
    ASSUME SidesInv, Next, NEW s \in SessionIds
    PROVE  \/ AgentSide(s)!ChannelNext
           \/ UNCHANGED <<agent[s], linkIn(s, Agents)>>
<1>1. PICK p \in Peers :
         \/ GetOrCreate(p) \/ HandlerStep(p) \/ Relay(p) \/ ReadFails(p)
         \/ WriterSends(p) \/ WriterExits(p) \/ Teardown(p)
    BY DEF Next
<1>2. Agents \in SUBSET Peers
    BY DEF Peers
<1>3. CASE p \in Agents /\ sessionOf[p] = s /\ Place(p)
  <2>1. CASE handler'[p] = "gone"
    <3>1. agent' = agent
      BY <1>3, <2>1 DEF Place, Goto, SidesInv
    <3>2. AgentSide(s)!Refuse(p)
      BY <1>2, <1>3, <2>1, <3>1, LinkPlaced, Zenon DEF AgentSide!Refuse
    <3> QED
      BY <1>3, <3>2 DEF AgentSide!ChannelNext
  <2>2. CASE handler'[p] # "gone"
    <3>1. agent'[s] = p
      BY <1>3, <2>2, PeerAssumption, Zenon DEF Place, Goto, SetSide, SidesInv
    <3>2. AgentSide(s)!Attach(p)
      BY <1>2, <1>3, <2>2, <3>1, LinkPlaced, Zenon DEF AgentSide!Attach
    <3> QED
      BY <1>3, <3>2 DEF AgentSide!ChannelNext
  <2> QED
    BY <2>1, <2>2
<1>4. CASE p \in Agents /\ sessionOf[p] = s /\ Leave(p)
  <2>1. agent'[s] = IF agent[s] = p THEN NoPeer ELSE agent[s]
    BY <1>4, PeerAssumption DEF Leave, Side, SetSide, SidesInv
  <2>2. AgentSide(s)!Detach(p)
    BY <1>2, <1>4, <2>1, LinkLeft, Zenon DEF AgentSide!Detach
  <2> QED
    BY <1>4, <2>2 DEF AgentSide!ChannelNext
<1>5. CASE p \in Agents /\ (ReadFails(p) \/ WriterExits(p))
  <2>1. agent' = agent
    BY <1>5, SMTT(30) DEF ReadFails, WriterExits, sessionVars
  <2>2. CASE linkIn(s, Agents)' = linkIn(s, Agents)
    BY <2>1, <2>2
  <2>3. CASE linkIn(s, Agents)' # linkIn(s, Agents)
    <3>1. AgentSide(s)!Break(p)
      BY <1>2, <1>5, <2>1, <2>3, LinkBroken DEF AgentSide!Break
    <3> QED
      BY <1>5, <3>1 DEF AgentSide!ChannelNext
  <2> QED
    BY <2>2, <2>3
<1>6. CASE (p \notin Agents \/ sessionOf[p] # s) /\ (Place(p) \/ Leave(p))
  <2>1. agent'[s] = agent[s]
    BY <1>6, PeerAssumption DEF Place, Leave, SetSide, SidesInv, Peers
  <2>2. linkIn(s, Agents)' = linkIn(s, Agents)
    BY <1>2, <1>6, LinkUnchanged
  <2> QED
    BY <2>1, <2>2
<1>7. CASE p \notin Agents /\ (ReadFails(p) \/ WriterExits(p))
  <2>1. agent' = agent
    BY <1>7 DEF ReadFails, WriterExits, sessionVars
  <2>2. linkIn(s, Agents)' = linkIn(s, Agents)
    BY <1>2, <1>7, LinkUnchanged
  <2> QED
    BY <2>1, <2>2
<1>8. CASE \/ GetOrCreate(p) \/ ClosePrev(p) \/ Activate(p) \/ Announce(p)
           \/ Bye(p) \/ Remove(p) \/ Relay(p) \/ WriterSends(p) \/ Teardown(p)
  <2>1. agent' = agent
    BY <1>8 DEF GetOrCreate, ClosePrev, Activate, Announce, Bye, Remove, Relay,
                WriterSends, Teardown, sessionVars
  <2>2. linkIn(s, Agents)' = linkIn(s, Agents)
    BY <1>2, <1>8, LinkUnchanged
  <2> QED
    BY <2>1, <2>2
<1> QED
    BY <1>1, <1>3, <1>4, <1>5, <1>6, <1>7, <1>8 DEF HandlerStep

\* The two sides of every Session object implement ControlChannel, for any number
\* of agents and clients, any bootstrap ids and addresses: however placements,
\* replacements, failing sockets and departures interleave, a side is taken at
\* most once by a peer, only its owner clears it, and only after its socket was
\* closed (SignalingHandler and its deferred clean-up, signaling.go).
THEOREM SidesAreChannels == Spec => SidesImplementChannel
<1> DEFINE A == \A s \in SessionIds :
                   /\ ClientSide(s)!ChannelNext
                      \/ UNCHANGED <<client[s], linkIn(s, Clients)>>
                   /\ AgentSide(s)!ChannelNext
                      \/ UNCHANGED <<agent[s], linkIn(s, Agents)>>
<1>1. Init => \A s \in SessionIds : /\ ClientSide(s)!ChannelInit
                                    /\ AgentSide(s)!ChannelInit
    BY DEF Init, linkIn, Peers, ClientSide!ChannelInit, AgentSide!ChannelInit
<1>2. ASSUME SidesInv, [Next]_vars PROVE [A]_vars
  <2>1. CASE Next
    BY <1>2, <2>1, ClientStep, AgentStep
  <2> QED
    BY <1>2, <2>1
<1>3. Spec => []SidesInv
    BY SidesInvInit, SidesInvNext, PTL DEF Spec
<1>4. Spec => [][A]_vars
    BY <1>2, <1>3, PTL DEF Spec
<1> QED
    BY <1>1, <1>4 DEF Spec, SidesImplementChannel

-----------------------------------------------------------------------------
(* Session objects *)

\* The peers whose handlers have begun.
Begun == {p \in Peers : handler[p] # "idle"}

\* A handler creates at most one Session object, and has one when it has begun.
CreatedInv ==
    /\ TypeOK
    /\ created <= Cardinality(Begun)
    /\ registry <= created
    /\ \A p \in Begun : /\ sessionOf[p] \in SessionIds
                        /\ handler[p] = "activating" => p \in Clients

\* A handler that begins is one more.
LEMMA OneMoreBegun ==
    ASSUME handler \in [Peers -> Phase], NEW p \in Peers, handler[p] = "idle",
           handler' = [handler EXCEPT ![p] = "got"]
    PROVE  /\ Cardinality(Begun) \in Nat
           /\ Cardinality(Begun') = Cardinality(Begun) + 1
           /\ Cardinality(Begun') <= Cardinality(Peers)
           /\ Begun' = Begun \cup {p}
<1>1. Begun' = Begun \cup {p} /\ p \notin Begun /\ Begun' \subseteq Peers
    BY DEF Begun
<1>2. IsFiniteSet(Peers) /\ IsFiniteSet(Begun)
    BY PeerAssumption, FS_Subset DEF Begun
<1>3. Cardinality(Begun \cup {p}) = Cardinality(Begun) + 1
    BY <1>1, <1>2, FS_AddElement, Zenon
<1>4. Cardinality(Begun') <= Cardinality(Peers)
    BY <1>1, <1>2, FS_Subset
<1>5. Cardinality(Begun) \in Nat
    BY <1>2, FS_CardinalityType
<1> QED
    BY <1>1, <1>3, <1>4, <1>5

\* No peer has come and no Session object exists.
LEMMA CreatedInvInit == Init => CreatedInv
<1> SUFFICES ASSUME Init PROVE CreatedInv
    OBVIOUS
<1>1. Begun = {}
    BY DEF Init, Begun
<1>2. Cardinality(Begun) = 0 /\ Cardinality(Peers) \in Nat
    BY <1>1, FS_EmptySet, FS_CardinalityType, PeerAssumption
<1>3. TypeOK
    BY <1>2, BoundAssumption DEF Init, TypeOK, Phase
<1> QED
    BY <1>1, <1>2, <1>3 DEF Init, CreatedInv

\* A step that neither begins a handler nor creates an object keeps the count.
LEMMA SameBegun ==
    ASSUME CreatedInv, TypeOK',
           UNCHANGED <<created, sessionOf>>,
           registry' \in {registry, 0},
           \A p \in Peers : /\ handler'[p] = "idle" <=> handler[p] = "idle"
                            /\ handler'[p] = "activating" =>
                                  handler[p] = "activating" \/ p \in Clients
    PROVE  CreatedInv'
<1>1. Begun' = Begun /\ Begun \subseteq Peers
    BY DEF Begun
<1>2. created \in Nat
    BY DEF CreatedInv, TypeOK
<1> QED
    BY <1>1, <1>2 DEF CreatedInv

\* enqueueSignal never puts more signals in a queue than it has room for.
LEMMA QueueBounded ==
    ASSUME TypeOK, NEW p \in Peers \cup {NoPeer}, enqueueSignal(p)
    PROVE  queue' \in [Peers -> 0..QueueCap]
BY BoundAssumption, PeerAssumption DEF TypeOK, enqueueSignal

\* Both sides of a Session object hold peers of their role.
LEMMA SideTypes ==
    ASSUME TypeOK, NEW p \in Peers, NEW s \in SessionIds
    PROVE  Side(p, s) \in Peers \cup {NoPeer} /\ OtherSide(p, s) \in Peers \cup {NoPeer}
BY DEF TypeOK, Side, OtherSide, Peers

\* Every step keeps the types and the count of Session objects.
LEMMA CreatedInvNext == CreatedInv /\ [Next]_vars => CreatedInv'
<1> SUFFICES ASSUME CreatedInv, [Next]_vars PROVE CreatedInv'
    OBVIOUS
<1>t. TypeOK
    BY DEF CreatedInv
<1>1. ASSUME NEW p \in Peers, GetOrCreate(p) PROVE CreatedInv'
  <2>1. /\ handler[p] = "idle" /\ handler' = [handler EXCEPT ![p] = "got"]
        /\ UNCHANGED <<agent, client, prev, other, last, writer, done, open, queue,
                       tearing, active>>
    BY <1>1 DEF GetOrCreate, Goto
  <2>2. /\ Cardinality(Begun') = Cardinality(Begun) + 1
        /\ Cardinality(Begun') <= Cardinality(Peers)
        /\ Begun' = Begun \cup {p} /\ Cardinality(Begun) \in Nat
    BY <1>t, <2>1, OneMoreBegun, Zenon DEF TypeOK
  <2>3. created \in Nat /\ registry \in Nat /\ Cardinality(Peers) \in Nat
    BY <1>t, PeerAssumption, FS_CardinalityType DEF TypeOK, SessionIds
  <2>4. CASE registry # 0
    <3>1. UNCHANGED <<registry, created>> /\ registry \in SessionIds
          /\ sessionOf' = [sessionOf EXCEPT ![p] = registry]
      BY <1>1, <1>t, <2>4 DEF GetOrCreate, TypeOK
    <3>2. TypeOK'
      BY <1>t, <2>1, <3>1 DEF TypeOK, Phase
    <3>4. (\A q \in Begun : /\ sessionOf[q] \in SessionIds
                            /\ handler[q] = "activating" => q \in Clients)'
      BY <1>t, <2>1, <2>2, <3>1, <3>2 DEF CreatedInv, TypeOK, Begun
    <3>5. (created <= Cardinality(Begun) /\ registry <= created)'
      BY <2>2, <2>3, <3>1, <3>2, SMTT(30) DEF CreatedInv
    <3> QED
      BY <3>2, <3>4, <3>5 DEF CreatedInv
  <2>5. CASE registry = 0
    <3>1. created' = created + 1 /\ registry' = created + 1
          /\ sessionOf' = [sessionOf EXCEPT ![p] = created + 1]
      BY <1>1, <2>5 DEF GetOrCreate
    <3>2. created + 1 \in SessionIds /\ created + 1 <= Cardinality(Begun')
      BY <2>2, <2>3 DEF CreatedInv, SessionIds
    <3>3. TypeOK'
      BY <1>t, <2>1, <2>3, <3>1, <3>2, SMTT(30) DEF TypeOK, Phase, SessionIds
    <3>4. (\A q \in Begun : /\ sessionOf[q] \in SessionIds
                            /\ handler[q] = "activating" => q \in Clients)'
      BY <1>t, <2>1, <2>2, <3>1, <3>2 DEF CreatedInv, TypeOK, Begun
    <3>5. (created <= Cardinality(Begun) /\ registry <= created)'
      BY <2>2, <2>3, <3>1, <3>2, SMTT(30) DEF CreatedInv
    <3> QED
      BY <3>2, <3>3, <3>4, <3>5 DEF CreatedInv
  <2> QED
    BY <2>4, <2>5
<1>2. ASSUME NEW p \in Peers, Place(p) PROVE CreatedInv'
  <2>1. handler[p] = "got" /\ sessionOf[p] \in SessionIds
    BY <1>2, Zenon DEF Place, CreatedInv, Begun
  <2>2. /\ Side(p, sessionOf[p]) \in Peers \cup {NoPeer}
        /\ OtherSide(p, sessionOf[p]) \in Peers \cup {NoPeer}
    BY <1>t, <2>1, SideTypes, SMTT(30)
  <2>3. TypeOK'
    <3>1. handler' \in [Peers -> Phase] /\ open' \in [Peers -> BOOLEAN]
      BY <1>2, <1>t, ZenonT(30) DEF Place, Goto, TypeOK, Phase
    <3>2. /\ agent' \in [SessionIds -> Agents \cup {NoPeer}]
          /\ client' \in [SessionIds -> Clients \cup {NoPeer}]
      BY <1>2, <1>t, <2>1, SMTT(30) DEF Place, SetSide, TypeOK, Peers
    <3>3. /\ prev' \in [Peers -> Peers \cup {NoPeer}]
          /\ other' \in [Peers -> Peers \cup {NoPeer}]
      BY <1>2, <1>t, <2>1, <2>2, SMTT(30) DEF Place, TypeOK
    <3> QED
      BY <1>2, <1>t, <3>1, <3>2, <3>3 DEF Place, TypeOK
  <2> QED
    BY <1>2, <1>t, <2>3, SameBegun DEF Place, Goto, TypeOK
<1>3. ASSUME NEW p \in Peers, ClosePrev(p) PROVE CreatedInv'
  <2>1. queue' \in [Peers -> 0..QueueCap]
    BY <1>3, <1>t, QueueBounded, SMTT(30) DEF ClosePrev, TypeOK
  <2>2. TypeOK'
    BY <1>3, <1>t, <2>1, SMTT(30) DEF ClosePrev, Goto, TypeOK, Phase, sessionVars
  <2> QED
    BY <1>3, <1>t, <2>2, SameBegun DEF ClosePrev, Goto, TypeOK, sessionVars
<1>4. ASSUME NEW p \in Peers, Activate(p) PROVE CreatedInv'
  <2>1. p \in Clients
    BY <1>4, Zenon DEF Activate, CreatedInv, Begun
  <2>2. TypeOK'
    BY <1>4, <1>t, <2>1, SMTT(30) DEF Activate, Goto, TypeOK, Phase, sessionVars
  <2> QED
    BY <1>4, <1>t, <2>2, SameBegun DEF Activate, Goto, TypeOK, sessionVars
<1>5. ASSUME NEW p \in Peers, Announce(p) PROVE CreatedInv'
  <2>1. queue' \in [Peers -> 0..QueueCap]
    BY <1>5, <1>t, QueueBounded, SMTT(30) DEF Announce, TypeOK
  <2>2. TypeOK'
    BY <1>5, <1>t, <2>1 DEF Announce, Goto, TypeOK, Phase, sessionVars
  <2> QED
    BY <1>5, <1>t, <2>2, SameBegun DEF Announce, Goto, TypeOK, sessionVars
<1>6. ASSUME NEW p \in Peers, Relay(p) PROVE CreatedInv'
  <2>1. sessionOf[p] \in SessionIds
    BY <1>6 DEF Relay, CreatedInv, Begun
  <2>2. queue' \in [Peers -> 0..QueueCap]
    BY <1>6, <1>t, <2>1, QueueBounded, SideTypes, SMTT(30) DEF Relay
  <2>3. TypeOK'
    BY <1>6, <1>t, <2>2, SMTT(30) DEF Relay, TypeOK, sessionVars
  <2> QED
    BY <1>6, <2>3, SameBegun DEF Relay, sessionVars
<1>7. ASSUME NEW p \in Peers, ReadFails(p) PROVE CreatedInv'
  <2>1. TypeOK'
    BY <1>7, <1>t DEF ReadFails, Goto, TypeOK, Phase, sessionVars
  <2> QED
    BY <1>7, <1>t, <2>1, SameBegun, SMTT(30) DEF ReadFails, Goto, TypeOK, sessionVars
<1>8. ASSUME NEW p \in Peers, Leave(p) PROVE CreatedInv'
  <2>1. handler[p] = "leaving" /\ sessionOf[p] \in SessionIds
    BY <1>8, Zenon DEF Leave, CreatedInv, Begun
  <2>2. OtherSide(p, sessionOf[p]) \in Peers \cup {NoPeer}
    BY <1>t, <2>1, SideTypes
  <2>3. TypeOK'
    <3>1. handler' \in [Peers -> Phase] /\ open' \in [Peers -> BOOLEAN]
      BY <1>8, <1>t, Zenon DEF Leave, Goto, TypeOK, Phase
    <3>2. /\ agent' \in [SessionIds -> Agents \cup {NoPeer}]
          /\ client' \in [SessionIds -> Clients \cup {NoPeer}]
      BY <1>8, <1>t, <2>1, Zenon DEF Leave, SetSide, TypeOK, Peers
    <3>3. /\ prev' \in [Peers -> Peers \cup {NoPeer}]
          /\ other' \in [Peers -> Peers \cup {NoPeer}]
      BY <1>8, <1>t, <2>1, <2>2, ZenonT(30) DEF Leave, TypeOK
    <3> QED
      BY <1>8, <1>t, <3>1, <3>2, <3>3, Zenon DEF Leave, TypeOK
  <2> QED
    BY <1>8, <1>t, <2>3, SameBegun, SMTT(30) DEF Leave, Goto, TypeOK
<1>9. ASSUME NEW p \in Peers, Bye(p) PROVE CreatedInv'
  <2>1. queue' \in [Peers -> 0..QueueCap]
    BY <1>9, <1>t, QueueBounded, SMTT(30) DEF Bye, TypeOK
  <2>2. TypeOK'
    BY <1>9, <1>t, <2>1, SMTT(30) DEF Bye, Goto, TypeOK, Phase, sessionVars
  <2> QED
    BY <1>9, <1>t, <2>2, SameBegun, SMTT(30) DEF Bye, Goto, TypeOK, sessionVars
<1>10. ASSUME NEW p \in Peers, Remove(p) PROVE CreatedInv'
  <2>1. TypeOK'
    BY <1>10, <1>t DEF Remove, Goto, TypeOK, Phase
  <2> QED
    BY <1>10, <1>t, <2>1, SameBegun, SMTT(30) DEF Remove, Goto, TypeOK
<1>11. ASSUME NEW p \in Peers, WriterSends(p) \/ WriterExits(p) PROVE CreatedInv'
  <2>1. TypeOK'
    <3>1. queue' \in [Peers -> 0..QueueCap]
      BY <1>11, <1>t, BoundAssumption DEF WriterSends, WriterExits, TypeOK
    <3>2. writer' \in [Peers -> {"off", "selecting", "exited"}]
      BY <1>11, <1>t DEF WriterSends, WriterExits, TypeOK
    <3>3. open' \in [Peers -> BOOLEAN]
      BY <1>11, <1>t, Zenon DEF WriterSends, WriterExits, TypeOK
    <3> QED
      BY <1>11, <1>t, <3>1, <3>2, <3>3
, SMTT(30) DEF WriterSends, WriterExits, TypeOK, sessionVars
  <2> QED
    BY <1>11, <2>1, SameBegun, ZenonT(30) DEF WriterSends, WriterExits, sessionVars
<1>12. ASSUME NEW p \in Peers, Teardown(p) PROVE CreatedInv'
  <2>1. TypeOK'
    BY <1>12, <1>t, SMTT(30) DEF Teardown, TypeOK, sessionVars
  <2> QED
    BY <1>12, <2>1, SameBegun, SMTT(30) DEF Teardown, sessionVars
<1>13. CASE UNCHANGED vars
    BY <1>13, <1>t, SameBegun DEF vars, TypeOK
<1> QED
    BY <1>1, <1>2, <1>3, <1>4, <1>5, <1>6, <1>7, <1>8, <1>9, <1>10, <1>11, <1>12,
       <1>13, SMTT(30) DEF Next, HandlerStep

\* Every handler creates at most one Session object, so that SidesAreChannels is
\* about all of them; queues stay within the capacity of peer.send, and the
\* hub's active session is the bootstrap id of a client.
THEOREM SignalingTypeCorrect == Spec => []TypeOK
<1>1. CreatedInv => TypeOK
    BY DEF CreatedInv
<1> QED
    BY <1>1, CreatedInvInit, CreatedInvNext, PTL DEF Spec
=============================================================================
