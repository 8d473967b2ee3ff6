---------------------------- MODULE AttachSession ----------------------------
(***************************************************************************)
(* The attach session of one robot: which session is active, who may make  *)
(* another one active, and which relays a change preempts                  *)
(* (go/relay/relay.go), with the session snapshots that decide it          *)
(* (go/connstate/evidence.go).                                             *)
(*                                                                         *)
(* A call is a run of handleRelayWS up to the registration of its relay    *)
(* (a member of Relays), or a call of SetActiveSession by the signaling    *)
(* handler.  Each section under a lock is one step.  What a relay does     *)
(* with the relay_close it is told is in RelayStream.                      *)
(*                                                                         *)
(* Data: session keys are model values, equal only if equal up to case.    *)
(* A snapshot is its UpdatedAt, in the whole seconds of its format, and    *)
(* the users it counts for: all of them if it names none, nobody if it is  *)
(* of another robot.  UpsertSession always sets UpdatedAt, so that         *)
(* attachSessionRefTime never falls back to StartedAt.                     *)
(***************************************************************************)
EXTENDS Integers

CONSTANTS
    Keys,       \* session keys
    NoKey,      \* the empty key
    Calls,      \* calls that may change the active session
    Relays,     \* those of them that run handleRelayWS
    Users,      \* users
    UserOf,     \* the user of a call
    Retention,  \* sessionRetention, in seconds; 30 minutes in the code
    MaxTime     \* bound on the clock

ASSUME KeyAssumption == NoKey \notin Keys
ASSUME CallAssumption == Relays \subseteq Calls /\ UserOf \in [Calls -> Users]
ASSUME TimeAssumption == Retention \in Nat /\ MaxTime \in Nat

VARIABLES
    now,        \* the clock
    snaps,      \* connstate's sessions
    active,     \* activeSessions[robotID], NoKey if there is none
    phase,      \* where each call is
    key,        \* its session key
    old,        \* the active session it read
    reqAt,      \* the time of its own session's snapshot
    stale,      \* the relays it still has to tell
    told,       \* the relays that were told of their preemption
    served,     \* history: relays whose session was active when they registered
    held        \* history: calls whose session was active since they read the active one

vars == <<now, snaps, active, phase, key, old, reqAt, stale, told, served, held>>

NoSnap == [updated |-> -1, for |-> {}]
Times == 0..MaxTime

Init ==
    /\ now = 0
    /\ snaps = [k \in Keys |-> NoSnap]
    /\ active = NoKey
    /\ phase = [c \in Calls |-> "idle"]
    /\ key = [c \in Calls |-> NoKey]
    /\ old = [c \in Calls |-> NoKey]
    /\ reqAt = [c \in Calls |-> -1]
    /\ stale = [c \in Calls |-> {}]
    /\ told = {}
    /\ served = {}
    /\ held = {}

----------------------------------------------------------------------------
(* Session evidence *)

\* pruneExpiredSessionsLocked
pruned(at) ==
    [k \in Keys |-> IF snaps[k].updated < at - Retention THEN NoSnap ELSE snaps[k]]

\* UpsertSession, called from outside the repository with a time of its own.
UpsertSession(k, us, at) ==
    /\ snaps' = [pruned(at) EXCEPT ![k] = [updated |-> at, for |-> us]]
    /\ UNCHANGED <<now, active, phase, key, old, reqAt, stale, told, served, held>>

\* attachSessionSnapshot finds a snapshot of the robot and the user.
counts(k, u) == snaps[k].updated >= 0 /\ u \in snaps[k].for

----------------------------------------------------------------------------
(* The active session *)

Goto(c, p) == phase' = [phase EXCEPT ![c] = p]

\* The phases of a call between its choice of a key and its end.
Busy == {"check", "compare", "set", "scan", "tell", "upgrade"}

\* Mutation: a robot without a session has no relays to preempt.
SetActiveSession_SkipsEmpty(c) ==
    /\ phase[c] = "set"
    /\ active' = key[c]
    /\ held' = held \union {d \in Calls : key[d] = key[c]}
    /\ Goto(c, IF active \notin {key[c], NoKey} THEN "scan" ELSE "upgrade")
    /\ UNCHANGED <<now, snaps, key, old, reqAt, stale, told, served>>

\* SetActiveSession sets the key; a change is followed by a preemption.
SetActiveSession(c) ==
    /\ phase[c] = "set"
    /\ active' = key[c]
    /\ held' = held \union {d \in Calls : key[d] = key[c]}
    /\ Goto(c, IF active # key[c] THEN "scan" ELSE "upgrade")
    /\ UNCHANGED <<now, snaps, key, old, reqAt, stale, told, served>>

\* preemptRelaysForSession collects the registered relays of other sessions ...
PreemptScan(c) ==
    /\ phase[c] = "scan"
    /\ stale' = [stale EXCEPT ![c] =
                    {r \in Relays : phase[r] = "open" /\ key[r] # key[c]}]
    /\ Goto(c, "tell")
    /\ UNCHANGED <<now, snaps, active, key, old, reqAt, told, served, held>>

\* ... and enqueues a relay_close for each, in any order.
PreemptTell(c, r) ==
    /\ phase[c] = "tell"
    /\ r \in stale[c]
    /\ stale' = [stale EXCEPT ![c] = @ \ {r}]
    /\ told' = told \union {r}
    /\ UNCHANGED <<now, snaps, active, phase, key, old, reqAt, served, held>>

PreemptDone(c) ==
    /\ phase[c] = "tell"
    /\ stale[c] = {}
    /\ Goto(c, "upgrade")
    /\ UNCHANGED <<now, snaps, active, key, old, reqAt, stale, told, served, held>>

\* ClearActiveSessionIfMatch, at a teardown.  Its callers never pass the empty
\* key, which would match any session.
ClearActiveSession(k) ==
    /\ active = k
    /\ active' = NoKey
    /\ UNCHANGED <<now, snaps, phase, key, old, reqAt, stale, told, served, held>>

\* The signaling handler activates the session of a client.
Activate(c, k) ==
    /\ c \notin Relays
    /\ phase[c] = "idle"
    /\ key' = [key EXCEPT ![c] = k]
    /\ Goto(c, "set")
    /\ UNCHANGED <<now, snaps, active, old, reqAt, stale, told, served, held>>

----------------------------------------------------------------------------
(* handleRelayWS *)

\* Mutation: a key of the client's own is not compared with the active one.
Attach_AnyKey(c, asked) ==
    /\ c \in Relays
    /\ phase[c] = "idle"
    /\ key' = [key EXCEPT ![c] = IF asked = NoKey THEN active ELSE asked]
    /\ old' = [old EXCEPT ![c] = active]
    /\ held' = IF active = key'[c] THEN held \union {c} ELSE held
    /\ Goto(c, IF key'[c] = NoKey THEN "refused"
               ELSE IF active = NoKey THEN "set" ELSE "upgrade")
    /\ UNCHANGED <<now, snaps, active, reqAt, stale, told, served>>

\* The active session is read.  A client may name a session of its own; it is
\* refused if there is no session at all, adopted if no session is active,
\* and to be examined if another one is.
Attach(c, asked) ==
    /\ c \in Relays
    /\ phase[c] = "idle"
    /\ key' = [key EXCEPT ![c] = IF asked = NoKey THEN active ELSE asked]
    /\ old' = [old EXCEPT ![c] = active]
    /\ held' = IF active = key'[c] THEN held \union {c} ELSE held
    /\ Goto(c, IF key'[c] = NoKey THEN "refused"
               ELSE IF active = NoKey THEN "set"
               ELSE IF active = key'[c] THEN "upgrade" ELSE "check")
    /\ UNCHANGED <<now, snaps, active, reqAt, stale, told, served>>

\* The snapshot of the client's session must be there.  It is read twice in a
\* row; if it goes in between the call is refused, as if it had gone before.
CheckRequested(c) ==
    /\ phase[c] = "check"
    /\ IF counts(key[c], UserOf[c])
       THEN /\ reqAt' = [reqAt EXCEPT ![c] = snaps[key[c]].updated]
            /\ Goto(c, "compare")
       ELSE Goto(c, "refused") /\ UNCHANGED reqAt
    /\ UNCHANGED <<now, snaps, active, key, old, stale, told, served, held>>

\* shouldPromoteAttachSession: it must be newer than that of the session that
\* was active, if that one has a snapshot.
CompareActive(c) ==
    /\ phase[c] = "compare"
    /\ Goto(c, IF counts(old[c], UserOf[c]) /\ reqAt[c] <= snaps[old[c]].updated
               THEN "refused" ELSE "set")
    /\ UNCHANGED <<now, snaps, active, key, old, reqAt, stale, told, served, held>>

\* The socket is upgraded and the relay registered under the call's key.
RegisterRelay(c) ==
    /\ c \in Relays
    /\ phase[c] = "upgrade"
    /\ Goto(c, "open")
    /\ served' = IF active = key[c] THEN served \union {c} ELSE served
    /\ UNCHANGED <<now, snaps, active, key, old, reqAt, stale, told, held>>

\* The upgrade fails, or SetActiveSession returns to the signaling handler.
Return(c) ==
    /\ phase[c] = "upgrade"
    /\ Goto(c, "closed")
    /\ UNCHANGED <<now, snaps, active, key, old, reqAt, stale, told, served, held>>

\* The relay ends, for any reason, and is unregistered.
UnregisterRelay(c) ==
    /\ phase[c] = "open"
    /\ Goto(c, "closed")
    /\ UNCHANGED <<now, snaps, active, key, old, reqAt, stale, told, served, held>>

Tick ==
    /\ now < MaxTime
    /\ now' = now + 1
    /\ UNCHANGED <<snaps, active, phase, key, old, reqAt, stale, told, served, held>>

CallStep(c) ==
    \/ \E k \in Keys : Activate(c, k)
    \/ \E k \in Keys \union {NoKey} : Attach(c, k)
    \/ CheckRequested(c)
    \/ CompareActive(c)
    \/ SetActiveSession(c)
    \/ PreemptScan(c)
    \/ \E r \in Relays : PreemptTell(c, r)
    \/ PreemptDone(c)
    \/ RegisterRelay(c)
    \/ Return(c)
    \/ UnregisterRelay(c)

Next ==
    \/ \E c \in Calls : CallStep(c)
    \/ \E k \in Keys : ClearActiveSession(k)
    \/ \E k \in Keys, us \in SUBSET Users, at \in 0..now : UpsertSession(k, us, at)
    \/ Tick

Spec == Init /\ [][Next]_vars

----------------------------------------------------------------------------
(* Properties *)

Phases == Busy \union {"idle", "open", "closed", "refused"}

\* The variables have their types, and a call past its choice has a key.
TypeOK ==
    /\ now \in Times
    /\ snaps \in [Keys -> [updated : Times \union {-1}, for : SUBSET Users]]
    /\ active \in Keys \union {NoKey}
    /\ phase \in [Calls -> Phases]
    /\ key \in [Calls -> Keys \union {NoKey}]
    /\ old \in [Calls -> Keys \union {NoKey}]
    /\ reqAt \in [Calls -> Times \union {-1}]
    /\ stale \in [Calls -> SUBSET Relays]
    /\ told \subseteq Relays
    /\ served \subseteq Relays
    /\ held \subseteq Calls
    /\ \A c \in Calls : key[c] = NoKey => phase[c] \in {"idle", "refused"}
    /\ \A c \in Calls : phase[c] \in {"check", "compare"} => old[c] \in Keys

\* A preemption that will still tell relay r.
Underway(c, r) ==
    \/ phase[c] = "scan" /\ key[c] # key[r]
    \/ phase[c] = "tell" /\ r \in stale[c]

\* A relay that was registered while its session was the active one outlives
\* that session untold only while a preemption is on its way to it, however
\* many calls, activations and teardowns change the session in between.
PreemptedIsTold ==
    \A r \in served \ told :
        (phase[r] = "open" /\ active \notin {key[r], NoKey}) =>
            \E c \in Calls : Underway(c, r)

\* A relay is admitted only under a session that was the active one at some
\* moment after its call had read the active session.
AdmittedWasActive ==
    \A r \in Relays : phase[r] = "open" => r \in held

----------------------------------------------------------------------------
(* What the repository says and the code does not do *)

\* With no preemption under way every open relay that was not told to close
\* belongs to the active session: "Attach semantics are exclusive per
\* robot_id" (webrtc/signaling.go:22).
ExclusiveRelays ==
    (\A c \in Calls : phase[c] \notin {"scan", "tell"}) =>
        \A r \in Relays \ told : phase[r] = "open" => active \in {key[r], NoKey}

\* A session that was compared with the active one and found newer does not
\* replace one that is newer still and was activated since: relays are
\* told "attach preempted by newer attach" (relay.go:784).
PreemptedByNewer ==
    [][\A c \in Relays :
         (/\ phase[c] = "set"
          /\ phase'[c] = "scan"
          /\ old[c] # NoKey
          /\ active \notin {old[c], NoKey}
          /\ counts(active, UserOf[c])
          /\ counts(key[c], UserOf[c])) =>
            snaps[key[c]].updated >= snaps[active].updated]_vars
=============================================================================
