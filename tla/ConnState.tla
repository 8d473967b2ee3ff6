------------------------------ MODULE ConnState ------------------------------
(***************************************************************************)
(* The in-memory runtime state that tunnel-svc keeps for every robot       *)
(* (go/connstate/state.go): whether the control channel is connected, when *)
(* the robot was last heard of, and from these whether it is "online".     *)
(*                                                                         *)
(* Every exported function takes the package mutex, so each one is one     *)
(* atomic action here.  The time it is given was read by the caller before *)
(* the mutex was taken, so calls may arrive with times out of order: an    *)
(* action takes any time up to the present.                                *)
(*                                                                         *)
(* Time is a natural number and 0 is Go's zero time ("never").  The local  *)
(* address follows the same keep-if-empty rule as the public address and   *)
(* is left out; so are the NAT type, which nothing here depends on, and    *)
(* the texts that describe a contention.                                   *)
(***************************************************************************)
EXTENDS Integers

CONSTANTS
    Robots,              \* robot ids
    IPs,                 \* observable addresses
    NoIP,                \* the empty string
    HeartbeatOnlineTTL,  \* heartbeatOnlineTTL, 75 s in the code
    ControlFallbackTTL,  \* controlFallbackTTL, 90 s in the code
    MaxTime              \* bound on the clock

ASSUME TTLAssumption ==
    /\ HeartbeatOnlineTTL \in Nat
    /\ ControlFallbackTTL \in Nat

ASSUME TimeAssumption == MaxTime \in Nat \ {0}

VARIABLES
    state,  \* the map robotID -> RobotRuntimeState; known = FALSE is "no entry"
    clock   \* time.Now()

robotVars == <<state, clock>>

Times == 0..MaxTime

RobotRuntimeState ==
    [known: BOOLEAN, connected: BOOLEAN, publicIP: IPs \cup {NoIP},
     connectedAt: Times, disconnectedAt: Times, contentionAt: Times,
     heartbeatAt: Times, lastSeenAt: Times]

\* The zero RobotRuntimeState that indexing the map yields for an absent key.
ZeroState ==
    [known |-> FALSE, connected |-> FALSE, publicIP |-> NoIP,
     connectedAt |-> 0, disconnectedAt |-> 0, contentionAt |-> 0,
     heartbeatAt |-> 0, lastSeenAt |-> 0]

RobotsTypeOK ==
    /\ state \in [Robots -> RobotRuntimeState]
    /\ clock \in Times \ {0}

-----------------------------------------------------------------------------
\* 0 is smaller than every real time, so the two IsZero tests are the maximum.
latestTime(a, b) == IF b > a THEN b ELSE a

\* An empty address keeps the one recorded before.
keepIP(ip, prev) == IF ip = NoIP THEN prev ELSE ip

\* Mutation: control connectivity alone counts, however old it is.
IsOnlineAt_NoFallbackTTL(s, now) ==
    /\ ~s.connected /\ s.disconnectedAt # 0 => s.heartbeatAt > s.disconnectedAt
    /\ IF s.heartbeatAt # 0
       THEN now - s.heartbeatAt <= HeartbeatOnlineTTL
       ELSE s.connected

IsOnlineAt(s, now) ==
    /\ ~s.connected /\ s.disconnectedAt # 0 => s.heartbeatAt > s.disconnectedAt
    /\ IF s.heartbeatAt # 0
       THEN now - s.heartbeatAt <= HeartbeatOnlineTTL
       ELSE /\ s.connected
            /\ LET ref == latestTime(s.connectedAt, s.lastSeenAt)
               IN  ref # 0 => now - ref <= ControlFallbackTTL

-----------------------------------------------------------------------------
\* What each writer makes of the robot's record s.

\* Mutation: the heartbeat rebuilds the record and loses the disconnect time.
afterHeartbeat_DropsDisconnect(s, ip, at) ==
    [s EXCEPT !.known          = TRUE,
              !.publicIP       = keepIP(ip, @),
              !.disconnectedAt = 0,
              !.heartbeatAt    = latestTime(@, at),
              !.lastSeenAt     = latestTime(@, at)]

afterHeartbeat(s, ip, at) ==
    [s EXCEPT !.known       = TRUE,
              !.publicIP    = keepIP(ip, @),
              !.heartbeatAt = latestTime(@, at),
              !.lastSeenAt  = latestTime(@, at)]

afterConnect(s, ip, at) ==
    [s EXCEPT !.known          = TRUE,
              !.connected      = TRUE,
              !.publicIP       = keepIP(ip, @),
              !.connectedAt    = latestTime(@, at),
              !.disconnectedAt = 0,
              !.lastSeenAt     = latestTime(@, at)]

afterContention(s, at) ==
    [s EXCEPT !.known        = TRUE,
              !.contentionAt = latestTime(@, at),
              !.lastSeenAt   = latestTime(@, at)]

afterTouch(s, at) ==
    [s EXCEPT !.known          = TRUE,
              !.connected      = TRUE,
              !.connectedAt    = IF ~s.connected /\ @ = 0 THEN at ELSE @,
              !.disconnectedAt = 0,
              !.lastSeenAt     = latestTime(@, at)]

afterDisconnect(s, at) ==
    [s EXCEPT !.connected      = FALSE,
              !.disconnectedAt = latestTime(@, at),
              !.lastSeenAt     = latestTime(@, at)]

-----------------------------------------------------------------------------
RobotsInit ==
    /\ state = [r \in Robots |-> ZeroState]
    /\ clock = 1

UpsertHeartbeat(r, ip, at) ==
    /\ state' = [state EXCEPT ![r] = afterHeartbeat(@, ip, at)]
    /\ UNCHANGED clock

UpsertControlConnected(r, ip, at) ==
    /\ state' = [state EXCEPT ![r] = afterConnect(@, ip, at)]
    /\ UNCHANGED clock

RecordControlContention(r, at) ==
    /\ state' = [state EXCEPT ![r] = afterContention(@, at)]
    /\ UNCHANGED clock

TouchControlActivity(r, at) ==
    /\ state' = [state EXCEPT ![r] = afterTouch(@, at)]
    /\ UNCHANGED clock

SetControlDisconnected(r, at) ==
    /\ state[r].known
    /\ state' = [state EXCEPT ![r] = afterDisconnect(@, at)]
    /\ UNCHANGED clock

Tick ==
    /\ clock < MaxTime
    /\ clock' = clock + 1
    /\ UNCHANGED state

RobotsNext ==
    \/ \E r \in Robots, at \in 1..clock :
         \/ \E ip \in IPs \cup {NoIP} : \/ UpsertHeartbeat(r, ip, at)
                                        \/ UpsertControlConnected(r, ip, at)
         \/ RecordControlContention(r, at)
         \/ TouchControlActivity(r, at)
         \/ SetControlDisconnected(r, at)
    \/ Tick

RobotsSpec == RobotsInit /\ [][RobotsNext]_robotVars

-----------------------------------------------------------------------------
\* LastSeenAt is "the canonical liveness timestamp across heartbeat/control
\* activity" (state.go:29): whatever the order in which the updates of
\* different callers arrive, no other time recorded for a robot is later, a
\* connected robot has been seen, and only a robot that is not connected has a
\* disconnect time.
LastSeenDominates ==
    \A r \in Robots :
        LET s == state[r]
        IN  /\ s.heartbeatAt <= s.lastSeenAt
            /\ s.connectedAt <= s.lastSeenAt
            /\ s.disconnectedAt <= s.lastSeenAt
            /\ s.contentionAt <= s.lastSeenAt
            /\ s.connected => s.lastSeenAt # 0 /\ s.disconnectedAt = 0

\* A robot that IsOnline reports online was seen within the larger of the two
\* TTLs: no sequence of heartbeats, connects, touches, contentions and
\* disconnects, in any order of their times, leaves a robot online that has
\* fallen silent (IsOnlineAt, with its "ref is zero" branch that answers true
\* without looking at the clock).
OnlineImpliesRecentlySeen ==
    \A r \in Robots :
        IsOnlineAt(state[r], clock) =>
            clock - state[r].lastSeenAt
                <= latestTime(HeartbeatOnlineTTL, ControlFallbackTTL)

\* A robot that went offline by a control disconnect comes back online only by
\* a new control connection or by a heartbeat later than the disconnect: a
\* delayed heartbeat sent before the disconnect does not revive it
\* (IsOnlineAt's first test, and UpsertHeartbeat copying the disconnect time).
OfflineUntilFreshEvidence ==
    [][\A r \in Robots :
          /\ ~state[r].connected /\ state[r].disconnectedAt # 0
          /\ ~IsOnlineAt(state[r], clock)
          /\ IsOnlineAt(state'[r], clock')
          => \/ state'[r].connected
             \/ state'[r].heartbeatAt > state[r].disconnectedAt]_robotVars
=============================================================================
