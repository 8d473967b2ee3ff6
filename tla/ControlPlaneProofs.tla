------------------------- MODULE ControlPlaneProofs -------------------------
(***************************************************************************)
(* Who is connected: the control channel of a robot, and the record that the*)
(* platform keeps of it.                                                   *)
(***************************************************************************)
EXTENDS ControlPlane, ConnState, TLAPS

----------------------------------------------------------------------------
(***************************************************************************)
(* The safety of the control channel for any number of connections and     *)
(* either policy.                                                          *)
(*                                                                         *)
(* RejectNewProtectsIncumbent is not inductive: it says that two served    *)
(* connections are equal, but a step that registers a third needs to know  *)
(* that an empty hub means nobody is served.  ServedIsInHub says that, and *)
(* is what the proof carries along.                                        *)
(***************************************************************************)

\* Under reject_new whoever is served is the hub's entry.
ServedIsInHub ==
    Policy = "reject_new" =>
        \A c \in Conns : handler[c] \in Serving => hub = c

\* The inductive invariant.
IInv ==
    /\ TypeOK
    /\ HubEntryIsServed
    /\ SupersededIsClosed
    /\ ServedIsInHub

\* The invariant holds before the first connection arrives.
LEMMA InitIInv == Init => IInv
BY NoConnAssumption, ZenonT(30)
DEF Init, IInv, TypeOK, HubEntryIsServed, SupersededIsClosed, ServedIsInHub,
    HandlerPhase, WriterPhase, Serving

\* Every step of every handler and write pump keeps the invariant.
LEMMA NextIInv == IInv /\ [Next]_vars => IInv'
<1> SUFFICES ASSUME IInv, [Next]_vars PROVE IInv'
    OBVIOUS
<1> USE NoConnAssumption
    DEF IInv, TypeOK, HubEntryIsServed, SupersededIsClosed, ServedIsInHub,
        HandlerPhase, WriterPhase, Serving, Policy
<1>1. ASSUME NEW c \in Conns, Register(c) PROVE IInv'
  <2>1. CASE hub # NoConn /\ Policy = "reject_new"
    BY <1>1, <2>1 DEF Register
  <2>2. CASE ~(hub # NoConn /\ Policy = "reject_new")
    BY <1>1, <2>2 DEF Register
  <2> QED
    BY <2>1, <2>2
<1>2. ASSUME NEW c \in Conns, Reject(c) PROVE IInv'
    BY <1>2 DEF Reject
<1>3. ASSUME NEW c \in Conns, ClosePrev(c) PROVE IInv'
  <2>1. TypeOK'
    BY <1>3 DEF ClosePrev
  <2>2. HubEntryIsServed' /\ ServedIsInHub'
    BY <1>3 DEF ClosePrev
  <2>3. ASSUME NEW d \in Conns, handler'[d] \in Serving, hub' # d, ~closed'[d]
        PROVE  \E e \in Conns : handler'[e] = "accepted" /\ prev'[e] = d
    <3>1. handler[d] \in Serving /\ hub # d /\ ~closed[d] /\ d # prev[c]
      BY <1>3, <2>3, Zenon DEF ClosePrev
    <3>2. PICK e \in Conns : handler[e] = "accepted" /\ prev[e] = d
      BY <3>1
    <3>3. e # c /\ handler'[e] = "accepted" /\ prev'[e] = d
      BY <1>3, <3>1, <3>2 DEF ClosePrev
    <3> QED
      BY <3>3
  <2> QED
    BY <2>1, <2>2, <2>3
<1>4. ASSUME NEW c \in Conns, Announce(c) PROVE IInv'
    BY <1>4 DEF Announce
<1>5. ASSUME NEW c \in Conns, ReadOk(c) PROVE IInv'
    BY <1>5 DEF ReadOk
<1>6. ASSUME NEW c \in Conns, ReadTouch(c) PROVE IInv'
    BY <1>6 DEF ReadTouch
<1>7. ASSUME NEW c \in Conns, ReadFails(c) PROVE IInv'
    BY <1>7 DEF ReadFails
<1>8. ASSUME NEW c \in Conns, Unregister(c) PROVE IInv'
    BY <1>8 DEF Unregister
<1>9. ASSUME NEW c \in Conns, MarkDisconnected(c) PROVE IInv'
    BY <1>9, Zenon DEF MarkDisconnected
<1>10. ASSUME NEW c \in Conns, Leave(c) PROVE IInv'
    BY <1>10 DEF Leave
<1>11. ASSUME NEW c \in Conns, WriteOk(c) PROVE IInv'
    BY <1>11 DEF WriteOk
<1>12. ASSUME NEW c \in Conns, WriteTouch(c) PROVE IInv'
    BY <1>12 DEF WriteTouch
<1>13. ASSUME NEW c \in Conns, WriterExits(c) PROVE IInv'
    BY <1>13 DEF WriterExits
<1>14. CASE UNCHANGED vars
    BY <1>14 DEF vars
<1> QED
    BY <1>1, <1>2, <1>3, <1>4, <1>5, <1>6, <1>7, <1>8, <1>9, <1>10, <1>11,
       <1>12, <1>13, <1>14
    DEF Next, HandlerStep, WriterStep

\* The inductive invariant holds in every reachable state.
LEMMA Invariance == Spec => []IInv
BY InitIInv, NextIInv, PTL DEF Spec

\* For any number of connections and either policy, the hub only ever names a
\* connection whose handler has yet to run its deferred Unregister: an entry
\* is never left behind by a handler that is gone.
THEOREM HubCorrect == Spec => [](TypeOK /\ HubEntryIsServed)
<1>1. IInv => TypeOK /\ HubEntryIsServed
    BY DEF IInv
<1> QED
    BY <1>1, Invariance, PTL

\* A connection that lost its hub entry to a newer one has been closed, or the
\* newer handler is just about to close it.
THEOREM SupersededCorrect == Spec => []SupersededIsClosed
<1>1. IInv => SupersededIsClosed
    BY DEF IInv
<1> QED
    BY <1>1, Invariance, PTL

\* Unless preempt_existing is configured, at most one control connection of
\* the robot is served at a time: RegisterWithPolicy never displaces one.
THEOREM RejectNewCorrect == Spec => []RejectNewProtectsIncumbent
<1>1. IInv => RejectNewProtectsIncumbent
    BY DEF IInv, ServedIsInHub, RejectNewProtectsIncumbent, Policy,
           normalizePolicy
<1> QED
    BY <1>1, Invariance, PTL

\* No step of one connection's goroutines takes another's entry out of the hub
\* without putting its own there.
THEOREM OwnershipCorrect == Spec => OnlyOwnerLeavesHub
<1> DEFINE Owned ==
        hub # NoConn /\ hub' # hub =>
          \/ hub' = NoConn /\ handler[hub] = "unregistering"
                           /\ handler'[hub] # "unregistering"
          \/ hub' # NoConn /\ setting = "preempt_existing"
<1>1. IInv /\ [Next]_vars => [Owned]_vars
  <2> SUFFICES ASSUME IInv, Next PROVE Owned
    BY DEF vars
  <2>1. ASSUME NEW c \in Conns, Register(c) PROVE Owned
    BY <2>1, NoConnAssumption DEF Register, Policy, normalizePolicy
  <2>2. ASSUME NEW c \in Conns, Unregister(c) PROVE Owned
    BY <2>2, NoConnAssumption DEF Unregister, IInv, TypeOK
  <2>3. ASSUME NEW c \in Conns,
               \/ Reject(c) \/ ClosePrev(c) \/ Announce(c) \/ ReadOk(c)
               \/ ReadTouch(c) \/ ReadFails(c) \/ MarkDisconnected(c)
               \/ Leave(c) \/ WriteOk(c) \/ WriteTouch(c) \/ WriterExits(c)
        PROVE  Owned
    BY <2>3 DEF Reject, ClosePrev, Announce, ReadOk, ReadTouch, ReadFails,
         MarkDisconnected, Leave, WriteOk, WriteTouch, WriterExits
  <2> QED
    BY <2>1, <2>2, <2>3 DEF Next, HandlerStep, WriterStep
<1> QED
    BY <1>1, Invariance, PTL DEF Spec, OnlyOwnerLeavesHub

\* What the refinement needs besides IInv: only accepted connections are
\* remembered as replaced, one that was not accepted is open and has no write
\* pump, and a handler unregisters a closed connection.
ChannelInv ==
    \A c \in Conns :
        /\ prev[c] # NoConn => handler[prev[c]] \notin {"idle", "rejected"}
        /\ handler[c] \in {"idle", "rejected"} => ~closed[c] /\ writer[c] = "off"
        /\ handler[c] = "unregistering" => closed[c]

\* ChannelInv holds together with IInv in every reachable state.
LEMMA ChannelInvariance == Spec => [](IInv /\ ChannelInv)
<1>1. Init => ChannelInv
    BY Zenon DEF Init, ChannelInv
<1>2. IInv /\ ChannelInv /\ [Next]_vars => ChannelInv'
  <2> SUFFICES ASSUME IInv, ChannelInv, [Next]_vars PROVE ChannelInv'
    OBVIOUS
  <2> USE NoConnAssumption DEF IInv, TypeOK, HubEntryIsServed, ChannelInv, Serving
  <2>1. ASSUME NEW c \in Conns, Register(c) PROVE ChannelInv'
    BY <2>1 DEF Register
  <2>2. ASSUME NEW c \in Conns, HandlerStep(c) PROVE ChannelInv'
    BY <2>2 DEF HandlerStep, Reject, ClosePrev, Announce, ReadTouch,
                Unregister, MarkDisconnected, Leave
  <2>3. ASSUME NEW c \in Conns, ReadOk(c) \/ ReadFails(c) PROVE ChannelInv'
    BY <2>3 DEF ReadOk, ReadFails
  <2>4. ASSUME NEW c \in Conns, WriterStep(c) \/ WriterExits(c)
        PROVE  ChannelInv'
    BY <2>4 DEF WriterStep, WriteOk, WriteTouch, WriterExits
  <2>5. CASE UNCHANGED vars
    BY <2>5 DEF vars
  <2> QED
    BY <2>1, <2>2, <2>3, <2>4, <2>5 DEF Next
<1> QED
    BY <1>1, <1>2, Invariance, PTL DEF Spec

\* The mapped link changes at c only, when it is the same everywhere else.
LEMMA LinkChangesAt ==
    ASSUME NEW c \in Conns, NEW v,
           linkOf'[c] = v,
           \A d \in Conns \ {c} : linkOf'[d] = linkOf[d]
    PROVE  linkOf' = [linkOf EXCEPT ![c] = v]
<1> DEFINE new == linkOf'
           old == linkOf
<1>1. new = [d \in Conns |-> new[d]]
    BY DEF linkOf
<1>2. DOMAIN old = Conns
    BY DEF linkOf
<1>3. new[c] = v /\ \A d \in Conns \ {c} : new[d] = old[d]
    OBVIOUS
<1> HIDE DEF new, old
<1>4. new = [old EXCEPT ![c] = v]
    BY <1>1, <1>2, <1>3, Zenon
<1> QED
    BY <1>4 DEF new, old

\* Every step of the goroutines is a step of the channel or leaves it alone.
LEMMA StepRefines ==
    IInv /\ IInv' /\ ChannelInv /\ [Next]_vars
        => [Channel!ChannelNext]_(Channel!channelVars)
<1> SUFFICES ASSUME IInv, IInv', ChannelInv, [Next]_vars
             PROVE  [Channel!ChannelNext]_(Channel!channelVars)
    OBVIOUS
<1> USE NoConnAssumption
    DEF IInv, TypeOK, HandlerPhase, Serving, Channel!channelVars, linkOf
<1>1. ASSUME NEW c \in Conns, Register(c)
      PROVE  Channel!Attach(c) \/ UNCHANGED Channel!channelVars
  <2>1. CASE handler'[c] = "rejected"
    BY <1>1, <2>1 DEF Register
  <2>2. CASE handler'[c] = "accepted"
    <3>1. linkOf[c] = "new" /\ hub' = c
      BY <1>1, <2>2 DEF Register
    <3>2. linkOf'[c] = "up"
      BY <1>1, <2>2 DEF Register, ChannelInv
    <3>3. \A d \in Conns \ {c} : linkOf'[d] = linkOf[d]
      BY <1>1 DEF Register
    <3> HIDE DEF linkOf
    <3>4. linkOf' = [linkOf EXCEPT ![c] = "up"]
      BY <3>2, <3>3, LinkChangesAt
    <3> QED
      BY <3>1, <3>4 DEF Channel!Attach
  <2> QED
    BY <1>1, <2>1, <2>2 DEF Register
<1>2. ASSUME NEW c \in Conns, Reject(c) PROVE Channel!Refuse(c)
  <2>1. linkOf[c] = "new" /\ linkOf'[c] = "gone" /\ UNCHANGED hub
    BY <1>2 DEF Reject
  <2>2. \A d \in Conns \ {c} : linkOf'[d] = linkOf[d]
    BY <1>2 DEF Reject
  <2> HIDE DEF linkOf
  <2>3. linkOf' = [linkOf EXCEPT ![c] = "gone"]
    BY <2>1, <2>2, LinkChangesAt
  <2> QED
    BY <2>1, <2>3 DEF Channel!Refuse
<1>3. ASSUME NEW c \in Conns, ClosePrev(c)
      PROVE  UNCHANGED Channel!channelVars \/ \E d \in Conns : Channel!Break(d)
  <2>1. CASE prev[c] = NoConn
    BY <1>3, <2>1 DEF ClosePrev
  <2>2. CASE prev[c] \in Conns
    <3>1. CASE closed[prev[c]] \/ handler[prev[c]] \notin Serving
      BY <1>3, <2>2, <3>1 DEF ClosePrev, ChannelInv
    <3>2. CASE ~closed[prev[c]] /\ handler[prev[c]] \in Serving
      <4>1. /\ linkOf[prev[c]] = "up" /\ linkOf'[prev[c]] = "down"
            /\ UNCHANGED hub
        BY <1>3, <2>2, <3>2, Zenon DEF ClosePrev, ChannelInv
      <4>2. \A d \in Conns \ {prev[c]} : linkOf'[d] = linkOf[d]
        BY <1>3, <2>2, <3>2 DEF ClosePrev
      <4>3. linkOf' = [linkOf EXCEPT ![prev[c]] = "down"]
        <5> HIDE DEF linkOf
        <5> QED BY <2>2, <4>1, <4>2, LinkChangesAt
      <4>4. Channel!Break(prev[c])
        <5> HIDE DEF linkOf
        <5> QED BY <4>1, <4>3 DEF Channel!Break
      <4>5. \E d \in Conns : Channel!Break(d)
        <5> HIDE DEF linkOf
        <5> WITNESS prev[c] \in Conns
        <5> QED BY <4>4
      <4> QED
        BY <4>5
    <3> QED
      BY <3>1, <3>2
  <2> QED
    BY <2>1, <2>2
<1>4. ASSUME NEW c \in Conns,
             \/ Announce(c) \/ ReadOk(c) \/ ReadTouch(c) \/ MarkDisconnected(c)
             \/ Leave(c) \/ WriteOk(c) \/ WriteTouch(c)
      PROVE  UNCHANGED Channel!channelVars
    BY <1>4, SMTT(30) DEF Announce, ReadOk, ReadTouch, MarkDisconnected, Leave, WriteOk,
         WriteTouch
<1>5. ASSUME NEW c \in Conns, ReadFails(c)
      PROVE  Channel!Break(c) \/ UNCHANGED Channel!channelVars
  <2>1. \/ linkOf[c] = "up" /\ linkOf'[c] = "down"
        \/ linkOf'[c] = linkOf[c]
    BY <1>5 DEF ReadFails
  <2>2. UNCHANGED hub /\ \A d \in Conns \ {c} : linkOf'[d] = linkOf[d]
    BY <1>5 DEF ReadFails
  <2>3. CASE linkOf'[c] = linkOf[c]
    <3>1. \A d \in Conns : linkOf'[d] = linkOf[d]
      BY <2>2, <2>3
    <3> QED
      BY <2>2, <3>1
  <2>4. CASE linkOf[c] = "up" /\ linkOf'[c] = "down"
    <3> HIDE DEF linkOf
    <3>1. linkOf' = [linkOf EXCEPT ![c] = "down"]
      BY <2>2, <2>4, LinkChangesAt
    <3> QED
      BY <2>2, <2>4, <3>1 DEF Channel!Break
  <2> QED
    BY <2>1, <2>3, <2>4
<1>6. ASSUME NEW c \in Conns, WriterExits(c)
      PROVE  Channel!Break(c) \/ UNCHANGED Channel!channelVars
  <2>1. \/ linkOf[c] = "up" /\ linkOf'[c] = "down"
        \/ linkOf'[c] = linkOf[c]
    BY <1>6 DEF WriterExits
  <2>2. UNCHANGED hub /\ \A d \in Conns \ {c} : linkOf'[d] = linkOf[d]
    BY <1>6 DEF WriterExits
  <2>3. CASE linkOf'[c] = linkOf[c]
    <3>1. \A d \in Conns : linkOf'[d] = linkOf[d]
      BY <2>2, <2>3
    <3> QED
      BY <2>2, <3>1
  <2>4. CASE linkOf[c] = "up" /\ linkOf'[c] = "down"
    <3> HIDE DEF linkOf
    <3>1. linkOf' = [linkOf EXCEPT ![c] = "down"]
      BY <2>2, <2>4, LinkChangesAt
    <3> QED
      BY <2>2, <2>4, <3>1 DEF Channel!Break
  <2> QED
    BY <2>1, <2>3, <2>4
<1>7. ASSUME NEW c \in Conns, Unregister(c) PROVE Channel!Detach(c)
  <2>1. linkOf[c] = "down" /\ linkOf'[c] = "gone"
    BY <1>7 DEF Unregister, ChannelInv
  <2>2. \A d \in Conns \ {c} : linkOf'[d] = linkOf[d]
    BY <1>7 DEF Unregister
  <2>3. hub' = IF hub = c THEN NoConn ELSE hub
    BY <1>7 DEF Unregister
  <2> HIDE DEF linkOf
  <2>4. linkOf' = [linkOf EXCEPT ![c] = "gone"]
    BY <2>1, <2>2, LinkChangesAt
  <2> QED
    BY <2>1, <2>3, <2>4 DEF Channel!Detach
<1>8. CASE UNCHANGED vars
    BY <1>8 DEF vars
<1> QED
    BY <1>1, <1>2, <1>3, <1>4, <1>5, <1>6, <1>7, <1>8
    DEF Next, HandlerStep, WriterStep, Channel!ChannelNext

\* The control plane implements ControlChannel for every number of connections
\* and either policy, so whoever sends through the hub may rely on it.
THEOREM ImplementationCorrect == Spec => ImplementsChannel
<1>1. Init => Channel!ChannelInit
    BY DEF Init, Channel!ChannelInit, linkOf
<1> QED
    BY <1>1, StepRefines, ChannelInvariance, PTL
    DEF Spec, ImplementsChannel, Channel!ChannelSpec

----------------------------------------------------------------------------
(***************************************************************************)
(* The state of the robots, for any set of robots, any TTLs and any clock  *)
(* bound.  The inductive invariant is RobotsTypeOK /\ LastSeenDominates:   *)
(* that an online robot was seen recently follows from it without looking  *)
(* at the steps, because IsOnlineAt measures the age of a time that        *)
(* LastSeenAt dominates.                                                   *)
(***************************************************************************)

\* The inductive invariant.
RobotsInv == RobotsTypeOK /\ LastSeenDominates

\* One robot's part of the inductive invariant.
Dominated(s) ==
    /\ s \in RobotRuntimeState
    /\ s.heartbeatAt <= s.lastSeenAt
    /\ s.connectedAt <= s.lastSeenAt
    /\ s.disconnectedAt <= s.lastSeenAt
    /\ s.contentionAt <= s.lastSeenAt
    /\ s.connected => s.lastSeenAt # 0 /\ s.disconnectedAt = 0

\* The invariant says the same of every robot.
LEMMA RobotsInvByRobot ==
    RobotsInv <=> /\ state \in [Robots -> RobotRuntimeState]
             /\ clock \in Times \ {0}
             /\ \A r \in Robots : Dominated(state[r])
BY SMTT(30) DEF RobotsInv, RobotsTypeOK, LastSeenDominates, Dominated

\* What one robot's record becomes: an update that keeps Dominated for the
\* robot it is about keeps the invariant, since the others are untouched.
LEMMA OneRobotUpdate ==
    ASSUME RobotsInv, NEW r \in Robots, NEW s,
           Dominated(s), state' = [state EXCEPT ![r] = s], clock' = clock
    PROVE  RobotsInv'
<1>1. state' \in [Robots -> RobotRuntimeState]
    BY RobotsInvByRobot DEF Dominated
<1>2. \A q \in Robots : Dominated(state'[q])
    BY RobotsInvByRobot
<1> QED
    BY <1>1, <1>2, RobotsInvByRobot DEF RobotsInv, RobotsTypeOK, LastSeenDominates, Dominated

\* An empty table satisfies the invariant.
LEMMA RobotsInvInit == RobotsInit => RobotsInv
BY TimeAssumption DEF RobotsInit, RobotsInv, RobotsTypeOK, LastSeenDominates, ZeroState,
                      RobotRuntimeState, Times

\* latestTime is the maximum of two times and stays within the bound.
LEMMA LatestTimeIsMax ==
    ASSUME NEW a \in Times, NEW b \in Times
    PROVE  /\ latestTime(a, b) \in Times
           /\ latestTime(a, b) >= a
           /\ latestTime(a, b) >= b
BY TimeAssumption DEF Times, latestTime

\* A heartbeat keeps the record well typed with LastSeenAt its latest time.
LEMMA AfterHeartbeatDominated ==
    ASSUME NEW s, Dominated(s), NEW at \in Times \ {0},
           NEW ip \in IPs \cup {NoIP}
    PROVE  Dominated(afterHeartbeat(s, ip, at))
<1> DEFINE t == afterHeartbeat(s, ip, at)
<1>1. s \in RobotRuntimeState /\ at \in Times /\ 0 \in Times
    BY TimeAssumption DEF Dominated, Times
<1>2. t \in RobotRuntimeState
    BY <1>1, LatestTimeIsMax, Zenon DEF afterHeartbeat, RobotRuntimeState, keepIP
<1>3. /\ t.lastSeenAt >= s.lastSeenAt
      /\ t.lastSeenAt >= at
    BY <1>1, LatestTimeIsMax DEF afterHeartbeat, RobotRuntimeState
<1> QED
    BY <1>1, <1>2, <1>3, TimeAssumption
    DEF afterHeartbeat, Dominated, RobotRuntimeState, latestTime, Times

\* A control connect keeps the record well typed with LastSeenAt its latest time.
LEMMA AfterConnectDominated ==
    ASSUME NEW s, Dominated(s), NEW at \in Times \ {0},
           NEW ip \in IPs \cup {NoIP}
    PROVE  Dominated(afterConnect(s, ip, at))
<1> DEFINE t == afterConnect(s, ip, at)
<1>1. s \in RobotRuntimeState /\ at \in Times /\ 0 \in Times
    BY TimeAssumption DEF Dominated, Times
<1>2. t \in RobotRuntimeState
    BY <1>1, LatestTimeIsMax, Zenon DEF afterConnect, RobotRuntimeState, keepIP
<1>3. /\ t.lastSeenAt >= s.lastSeenAt
      /\ t.lastSeenAt >= at
    BY <1>1, LatestTimeIsMax DEF afterConnect, RobotRuntimeState
<1> QED
    BY <1>1, <1>2, <1>3, TimeAssumption
    DEF afterConnect, Dominated, RobotRuntimeState, latestTime, Times

\* A contention keeps the record well typed with LastSeenAt its latest time.
LEMMA AfterContentionDominated ==
    ASSUME NEW s, Dominated(s), NEW at \in Times \ {0}
    PROVE  Dominated(afterContention(s, at))
<1> DEFINE t == afterContention(s, at)
<1>1. s \in RobotRuntimeState /\ at \in Times /\ 0 \in Times
    BY TimeAssumption DEF Dominated, Times
<1>2. t \in RobotRuntimeState
    BY <1>1, LatestTimeIsMax, Zenon DEF afterContention, RobotRuntimeState
<1>3. /\ t.lastSeenAt >= s.lastSeenAt
      /\ t.lastSeenAt >= at
    BY <1>1, LatestTimeIsMax DEF afterContention, RobotRuntimeState
<1> QED
    BY <1>1, <1>2, <1>3, TimeAssumption
    DEF afterContention, Dominated, RobotRuntimeState, latestTime, Times

\* A touch keeps the record well typed with LastSeenAt its latest time.
LEMMA AfterTouchDominated ==
    ASSUME NEW s, Dominated(s), NEW at \in Times \ {0}
    PROVE  Dominated(afterTouch(s, at))
<1> DEFINE t == afterTouch(s, at)
<1>1. s \in RobotRuntimeState /\ at \in Times /\ 0 \in Times
    BY TimeAssumption DEF Dominated, Times
<1>2. t \in RobotRuntimeState
    BY <1>1, LatestTimeIsMax, Zenon DEF afterTouch, RobotRuntimeState
<1>3. /\ t.lastSeenAt >= s.lastSeenAt
      /\ t.lastSeenAt >= at
    BY <1>1, LatestTimeIsMax DEF afterTouch, RobotRuntimeState
<1> QED
    BY <1>1, <1>2, <1>3, TimeAssumption
    DEF afterTouch, Dominated, RobotRuntimeState, latestTime, Times

\* A disconnect keeps the record well typed with LastSeenAt its latest time.
LEMMA AfterDisconnectDominated ==
    ASSUME NEW s, Dominated(s), NEW at \in Times \ {0}
    PROVE  Dominated(afterDisconnect(s, at))
<1> DEFINE t == afterDisconnect(s, at)
<1>1. s \in RobotRuntimeState /\ at \in Times /\ 0 \in Times
    BY TimeAssumption DEF Dominated, Times
<1>2. t \in RobotRuntimeState
    BY <1>1, LatestTimeIsMax, Zenon DEF afterDisconnect, RobotRuntimeState
<1>3. /\ t.lastSeenAt >= s.lastSeenAt
      /\ t.lastSeenAt >= at
    BY <1>1, LatestTimeIsMax DEF afterDisconnect, RobotRuntimeState
<1> QED
    BY <1>1, <1>2, <1>3, TimeAssumption
    DEF afterDisconnect, Dominated, RobotRuntimeState, latestTime, Times

\* Every writer of connstate, and the passing of time, keeps the invariant.
LEMMA RobotsInvNext == RobotsInv /\ [RobotsNext]_robotVars => RobotsInv'
<1> SUFFICES ASSUME RobotsInv, [RobotsNext]_robotVars PROVE RobotsInv'
    OBVIOUS
<1> USE RobotsInvByRobot, TimeAssumption
<1>1. ASSUME NEW r \in Robots, NEW at \in 1..clock,
             NEW ip \in IPs \cup {NoIP}, UpsertHeartbeat(r, ip, at)
      PROVE  RobotsInv'
  <2>1. at \in Times \ {0}
    BY DEF Times
  <2>2. Dominated(afterHeartbeat(state[r], ip, at))
    BY <2>1, AfterHeartbeatDominated
  <2> QED
    BY <1>1, <2>2, OneRobotUpdate, Zenon DEF UpsertHeartbeat
<1>2. ASSUME NEW r \in Robots, NEW at \in 1..clock,
             NEW ip \in IPs \cup {NoIP}, UpsertControlConnected(r, ip, at)
      PROVE  RobotsInv'
  <2>1. at \in Times \ {0}
    BY DEF Times
  <2>2. Dominated(afterConnect(state[r], ip, at))
    BY <2>1, AfterConnectDominated
  <2> QED
    BY <1>2, <2>2, OneRobotUpdate, Zenon DEF UpsertControlConnected
<1>3. ASSUME NEW r \in Robots, NEW at \in 1..clock,
             RecordControlContention(r, at)
      PROVE  RobotsInv'
  <2>1. at \in Times \ {0}
    BY DEF Times
  <2>2. Dominated(afterContention(state[r], at))
    BY <2>1, AfterContentionDominated
  <2> QED
    BY <1>3, <2>2, OneRobotUpdate, Zenon DEF RecordControlContention
<1>4. ASSUME NEW r \in Robots, NEW at \in 1..clock,
             TouchControlActivity(r, at)
      PROVE  RobotsInv'
  <2>1. at \in Times \ {0}
    BY DEF Times
  <2>2. Dominated(afterTouch(state[r], at))
    BY <2>1, AfterTouchDominated
  <2> QED
    BY <1>4, <2>2, OneRobotUpdate, Zenon DEF TouchControlActivity
<1>5. ASSUME NEW r \in Robots, NEW at \in 1..clock,
             SetControlDisconnected(r, at)
      PROVE  RobotsInv'
  <2>1. at \in Times \ {0}
    BY DEF Times
  <2>2. Dominated(afterDisconnect(state[r], at))
    BY <2>1, AfterDisconnectDominated
  <2> QED
    BY <1>5, <2>2, OneRobotUpdate, Zenon DEF SetControlDisconnected
<1>6. CASE Tick
    BY <1>6, TimeAssumption
    DEF Tick, RobotsInv, RobotsTypeOK, LastSeenDominates, Times
<1>7. CASE UNCHANGED robotVars
    BY <1>7 DEF robotVars, RobotsInv, RobotsTypeOK, LastSeenDominates
<1> QED
    BY <1>1, <1>2, <1>3, <1>4, <1>5, <1>6, <1>7 DEF RobotsNext

\* The record of every robot is well typed and LastSeenAt is its latest time,
\* in every state the package's functions can reach (state.go).
THEOREM LastSeenCorrect == RobotsSpec => [](RobotsTypeOK /\ LastSeenDominates)
<1>1. RobotsSpec => []RobotsInv
    BY RobotsInvInit, RobotsInvNext, PTL DEF RobotsSpec
<1> QED
    BY <1>1, PTL DEF RobotsInv

\* No robot that has been silent for longer than both TTLs is ever reported
\* online (IsOnlineAt, state.go:186-205), for every value of the two TTLs.
THEOREM OnlineCorrect == RobotsSpec => []OnlineImpliesRecentlySeen
<1>1. RobotsInv => OnlineImpliesRecentlySeen
    BY TTLAssumption, TimeAssumption
, SMTT(30) DEF RobotsInv, RobotsTypeOK, LastSeenDominates, OnlineImpliesRecentlySeen,
        IsOnlineAt, latestTime, RobotRuntimeState, Times
<1>2. RobotsSpec => []RobotsInv
    BY RobotsInvInit, RobotsInvNext, PTL DEF RobotsSpec
<1> QED
    BY <1>1, <1>2, PTL

\* A disconnect time is forgotten only by a step that connects the robot; the
\* other writers keep it or put a later one in its place.
LEMMA DisconnectIsKept ==
    ASSUME RobotsInv, RobotsNext, NEW r \in Robots, ~state'[r].connected
    PROVE  state'[r].disconnectedAt >= state[r].disconnectedAt
<1> USE TimeAssumption DEF RobotsInv, RobotsTypeOK, RobotRuntimeState, Times
<1>1. ASSUME NEW q \in Robots, NEW at \in 1..clock,
             NEW ip \in IPs \cup {NoIP}, UpsertHeartbeat(q, ip, at)
      PROVE  state'[r].disconnectedAt = state[r].disconnectedAt
    BY <1>1 DEF UpsertHeartbeat, afterHeartbeat
<1>2. ASSUME NEW q \in Robots, NEW at \in 1..clock,
             NEW ip \in IPs \cup {NoIP}, UpsertControlConnected(q, ip, at)
      PROVE  state'[r] = state[r]
    BY <1>2 DEF UpsertControlConnected, afterConnect
<1>3. ASSUME NEW q \in Robots, NEW at \in 1..clock,
             RecordControlContention(q, at)
      PROVE  state'[r].disconnectedAt = state[r].disconnectedAt
    BY <1>3 DEF RecordControlContention, afterContention
<1>4. ASSUME NEW q \in Robots, NEW at \in 1..clock,
             TouchControlActivity(q, at)
      PROVE  state'[r] = state[r]
    BY <1>4 DEF TouchControlActivity, afterTouch
<1>5. ASSUME NEW q \in Robots, NEW at \in 1..clock,
             SetControlDisconnected(q, at)
      PROVE  state'[r].disconnectedAt >= state[r].disconnectedAt
    BY <1>5 DEF SetControlDisconnected, afterDisconnect, latestTime
<1>6. CASE Tick
    BY <1>6 DEF Tick
<1> QED
    BY <1>1, <1>2, <1>3, <1>4, <1>5, <1>6 DEF RobotsNext

\* A robot that a control disconnect has taken offline is revived only by a new
\* control connection or by a heartbeat later than the disconnect, whatever the
\* order in which delayed heartbeats, contentions and disconnects arrive
\* (IsOnlineAt's first test and the writers that copy DisconnectedAt).
THEOREM OfflineIsFinal == RobotsSpec => OfflineUntilFreshEvidence
<1> DEFINE A == \A r \in Robots :
                   /\ ~state[r].connected /\ state[r].disconnectedAt # 0
                   /\ ~IsOnlineAt(state[r], clock)
                   /\ IsOnlineAt(state'[r], clock')
                   => \/ state'[r].connected
                      \/ state'[r].heartbeatAt > state[r].disconnectedAt
<1>1. ASSUME RobotsInv, RobotsInv', [RobotsNext]_robotVars PROVE [A]_robotVars
  <2> SUFFICES ASSUME RobotsNext, NEW r \in Robots,
                      state[r].disconnectedAt # 0, ~state'[r].connected,
                      IsOnlineAt(state'[r], clock')
               PROVE  state'[r].heartbeatAt > state[r].disconnectedAt
    BY <1>1
  <2>1. state'[r].disconnectedAt >= state[r].disconnectedAt
    BY <1>1, DisconnectIsKept
  <2>2. /\ state[r].disconnectedAt \in Nat
        /\ state'[r].disconnectedAt \in Nat
        /\ state'[r].heartbeatAt \in Nat
    BY <1>1, TimeAssumption DEF RobotsInv, RobotsTypeOK, RobotRuntimeState, Times
  <2>3. state'[r].disconnectedAt # 0
    BY <2>1, <2>2
  <2>4. state'[r].heartbeatAt > state'[r].disconnectedAt
    BY <2>3 DEF IsOnlineAt
  <2> QED
    BY <2>1, <2>2, <2>4
<1>2. RobotsSpec => []RobotsInv
    BY RobotsInvInit, RobotsInvNext, PTL DEF RobotsSpec
<1>3. RobotsSpec => [][A]_robotVars
    BY <1>1, <1>2, PTL DEF RobotsSpec
<1> QED
    BY <1>3 DEF OfflineUntilFreshEvidence
=============================================================================
