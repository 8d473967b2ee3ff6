---------------------------- MODULE TunnelServer ----------------------------
(***************************************************************************)
(* The agent's TCP tunnel server (roboat-core: tunnel.rs).                 *)
(*                                                                         *)
(* A client has a handler, which authenticates it (module AgentAccess) and *)
(* then reads and answers its frames, and a writer, which forwards         *)
(* broadcasts; the two share the socket's write half under a lock.  A      *)
(* frame is written in two awaited parts, its head (type and length) and   *)
(* its body.                                                               *)
(*                                                                         *)
(* shutdown() wakes whoever waits at that moment (Notify::notify_waiters), *)
(* and a select! that takes its other branch drops the wake-up.            *)
(*                                                                         *)
(* The application behind the command and trigger channels is not in the   *)
(* repository: it answers, drops or goes away as it likes.                 *)
(***************************************************************************)
EXTENDS Naturals, Sequences

CONSTANTS
    Clients,        \* connections, each made once
    MaxFrames,      \* bound on the frames of a client
    MaxBroadcasts,  \* bound on the broadcasts
    BroadcastCap    \* capacity of a broadcast subscription; 256 in the code

ASSUME ServerAssumption ==
    MaxFrames \in Nat /\ MaxBroadcasts \in Nat /\ BroadcastCap \in Nat

Triggers == {"bootstrap", "teardown"}
Frames == {"command", "ping", "other", "unreadable"} \union Triggers
Acceptor == "acceptor"

VARIABLES
    accept,    \* the phase of the accept loop
    shut,      \* shutdown() was called
    told,      \* tasks whose notified() future has been woken
    quiet,     \* shutdown() found no work, and none has come in since
    appUp,     \* the application takes commands
    triggers,  \* triggers that wait for the application
    casts,     \* broadcasts made
    conn       \* the connections, see NoConn

loopVars == <<accept, shut, told, quiet>>
appVars == <<appUp, triggers, casts>>
serverVars == <<loopVars, appVars, conn>>

NoConn ==
    [cli |-> "none",      \* the client
     in |-> << >>,        \* its frames that are not yet read
     sent |-> 0,          \* how many it has sent
     srv |-> "none",      \* the phase of its handler
     app |-> "none",      \* what the application has made of its command
     reply |-> "none",    \* the frame its handler has to write
     wr |-> "none",       \* the phase of its writer
     aborted |-> FALSE,   \* the writer's abort() was called
     pending |-> 0,       \* broadcasts its subscription holds
     lock |-> "free",     \* who holds the write half
     broken |-> FALSE,    \* a write has failed
     out |-> << >>]       \* the parts written

\* A step of connection c alone.
Step(c, r) ==
    /\ conn' = [conn EXCEPT ![c] = r]
    /\ UNCHANGED <<loopVars, appVars>>

-----------------------------------------------------------------------------
(* TunnelServer::run and shutdown *)

Ended(c) ==
    conn[c].srv \in {"none", "ended"} /\ conn[c].wr \in {"none", "done"}

\* Who waits in a select! with a notified() in it.
Waiting ==
    {c \in Clients : conn[c].srv = "select"}
        \union (IF accept = "select" THEN {Acceptor} ELSE {})

\* Nothing to do but wait.
Idle ==
    /\ accept = "select"
    /\ \A c \in Clients : \/ conn[c].srv = "select" /\ conn[c].in = << >>
                          \/ Ended(c)

\* Mutation: notify_one instead of notify_waiters.
shutdown_One ==
    /\ ~shut
    /\ shut' = TRUE
    /\ told' \in {{t} : t \in Waiting}
    /\ quiet' = Idle
    /\ UNCHANGED <<accept, appVars, conn>>

\* All who wait are woken; a later notified() is not.
shutdown ==
    /\ ~shut
    /\ shut' = TRUE
    /\ told' = Waiting
    /\ quiet' = Idle
    /\ UNCHANGED <<accept, appVars, conn>>

\* A connection is accepted, and its handler spawned with a subscription to
\* the broadcasts; or accept() fails.  Either way the wake-up is dropped.
AcceptOne ==
    /\ accept = "select"
    /\ \/ \E c \in Clients :
            /\ conn[c].srv = "backlog"
            /\ conn' = [conn EXCEPT ![c].srv = "new"]
       \/ UNCHANGED conn
    /\ accept' = "busy"
    /\ told' = told \ {Acceptor}
    /\ quiet' = FALSE
    /\ UNCHANGED <<shut, appVars>>

\* The next round of the loop, with a new notified().
AcceptLoop ==
    /\ accept = "busy"
    /\ accept' = "select"
    /\ UNCHANGED <<shut, told, quiet, appVars, conn>>

\* The loop leaves; the listener goes, and with it what was not accepted.
AcceptStops ==
    /\ accept = "select"
    /\ Acceptor \in told
    /\ accept' = "down"
    /\ told' = told \ {Acceptor}
    /\ conn' = [c \in Clients |->
                    IF conn[c].srv = "backlog"
                    THEN [conn[c] EXCEPT !.srv = "ended"]
                    ELSE conn[c]]
    /\ UNCHANGED <<shut, quiet, appVars>>

-----------------------------------------------------------------------------
(* handle_client: the reader loop *)

\* A client connects.
Arrive(c) ==
    /\ conn[c].cli = "none"
    /\ accept # "down"
    /\ conn' = [conn EXCEPT ![c].cli = "there", ![c].srv = "backlog"]
    /\ quiet' = FALSE
    /\ UNCHANGED <<accept, shut, told, appVars>>

\* It leaves: it is done, has lost its patience or its network.
Depart(c) ==
    /\ conn[c].cli = "there"
    /\ Step(c, [conn[c] EXCEPT !.cli = "left"])

\* The handshake ends: the writer is spawned and the loop entered, or not.
Authenticate(c) ==
    /\ conn[c].srv = "new"
    /\ \/ Step(c, [conn[c] EXCEPT !.srv = "busy", !.wr = "recv"])
       \/ Step(c, [conn[c] EXCEPT !.srv = "ended", !.pending = 0])

\* The client sends a frame.
SendFrame(c, f) ==
    /\ conn[c].cli = "there"
    /\ conn[c].wr # "none"
    /\ conn[c].sent < MaxFrames
    /\ conn' = [conn EXCEPT ![c].in = Append(@, f), ![c].sent = @ + 1]
    /\ quiet' = FALSE
    /\ UNCHANGED <<accept, shut, told, appVars>>

\* The loop is left: the writer is aborted.
Break(r) == [r EXCEPT !.srv = "ended", !.aborted = TRUE]

\* The handler was woken by shutdown(), or its read has failed.
Leaves(c) ==
    /\ conn[c].srv = "select"
    /\ c \in told \/ conn[c].cli = "left"
    /\ conn' = [conn EXCEPT ![c] = Break(@)]
    /\ told' = told \ {c}
    /\ UNCHANGED <<accept, shut, quiet, appVars>>

\* A frame is read, and the wake-up dropped.  A command goes to the
\* application; the loop ends if that is gone, or if the frame cannot be read.  A
\* ping is answered.  A trigger is passed on, unless there is no channel for it or
\* the channel is full.  The rest, malformed commands and triggers included, is
\* ignored.
ReadFrame(c) ==
    /\ conn[c].srv = "select"
    /\ conn[c].in # << >>
    /\ LET f == Head(conn[c].in)
           r == [conn[c] EXCEPT !.in = Tail(@), !.srv = "busy"]
       IN  /\ conn' = [conn EXCEPT ![c] =
                CASE f = "command" /\ appUp ->
                        [r EXCEPT !.srv = "waiting", !.app = "asked"]
                  [] f = "unreadable" \/ (f = "command" /\ ~appUp) -> Break(r)
                  [] f = "ping" -> [r EXCEPT !.srv = "lock", !.reply = "pong"]
                  [] OTHER -> r]
           /\ triggers' \in {triggers, triggers \union ({f} \intersect Triggers)}
    /\ told' = told \ {c}
    /\ UNCHANGED <<accept, shut, quiet, appUp, casts>>

\* The next round of the loop, with a new notified().
ReadLoop(c) ==
    /\ conn[c].srv = "busy"
    /\ Step(c, [conn[c] EXCEPT !.srv = "select"])

\* Mutation: the wait for the application can be cut short by shutdown().
TakeResponse_Cut(c) ==
    /\ conn[c].srv = "waiting"
    /\ \/ /\ conn[c].app = "answered"
          /\ Step(c, [conn[c] EXCEPT !.srv = "lock", !.reply = "response"])
       \/ /\ conn[c].app = "dropped"
          /\ Step(c, [conn[c] EXCEPT !.srv = "busy", !.app = "none"])
       \/ /\ conn[c].app = "refused"
          /\ Step(c, Break([conn[c] EXCEPT !.app = "none"]))
       \/ /\ shut
          /\ Step(c, Break(conn[c]))

\* The response has come, or will not come; a command that could not be handed
\* over ends the loop.
TakeResponse(c) ==
    /\ conn[c].srv = "waiting"
    /\ \/ /\ conn[c].app = "answered"
          /\ Step(c, [conn[c] EXCEPT !.srv = "lock", !.reply = "response"])
       \/ /\ conn[c].app = "dropped"
          /\ Step(c, [conn[c] EXCEPT !.srv = "busy", !.app = "none"])
       \/ /\ conn[c].app = "refused"
          /\ Step(c, Break([conn[c] EXCEPT !.app = "none"]))

-----------------------------------------------------------------------------
(* write_frame, by the handler and by the writer *)

Part(f, p) == <<f, p>>

\* A write may fail once the client has left, and fails ever after.
MayWrite(c) == ~conn[c].broken
MayFail(c) == conn[c].cli = "left"

\* The handler takes the lock and writes the head of its reply.
ReplyHead(c) ==
    /\ conn[c].srv = "lock"
    /\ conn[c].lock = "free"
    /\ MayWrite(c)
    /\ Step(c, [conn[c] EXCEPT !.srv = "body", !.lock = "handler",
                               !.out = Append(@, Part(conn[c].reply, "head"))])

\* It writes the body and lets the lock go.
ReplyBody(c) ==
    /\ conn[c].srv = "body"
    /\ MayWrite(c)
    /\ Step(c, [conn[c] EXCEPT !.srv = "busy", !.lock = "free", !.reply = "none",
                               !.app = "none",
                               !.out = Append(@, Part(conn[c].reply, "body"))])

\* The `?' after write_frame returns at once: the writer is not aborted.
ReplyFails(c) ==
    /\ \/ conn[c].srv = "lock" /\ conn[c].lock = "free"
       \/ conn[c].srv = "body"
    /\ MayFail(c)
    /\ Step(c, [conn[c] EXCEPT !.srv = "ended", !.lock = "free", !.broken = TRUE])

\* The writer takes a broadcast.
WriterTakes(c) ==
    /\ conn[c].wr = "recv"
    /\ conn[c].pending > 0
    /\ Step(c, [conn[c] EXCEPT !.wr = "lock", !.pending = @ - 1])

\* Mutation: the writer does not wait for the lock.
WriterHead_NoLock(c) ==
    /\ conn[c].wr = "lock"
    /\ MayWrite(c)
    /\ Step(c, [conn[c] EXCEPT !.wr = "body", !.lock = "writer",
                               !.out = Append(@, Part("packet", "head"))])

WriterHead(c) ==
    /\ conn[c].wr = "lock"
    /\ conn[c].lock = "free"
    /\ MayWrite(c)
    /\ Step(c, [conn[c] EXCEPT !.wr = "body", !.lock = "writer",
                               !.out = Append(@, Part("packet", "head"))])

WriterBody(c) ==
    /\ conn[c].wr = "body"
    /\ MayWrite(c)
    /\ Step(c, [conn[c] EXCEPT !.wr = "recv", !.lock = "free",
                               !.out = Append(@, Part("packet", "body"))])

WriterFails(c) ==
    /\ \/ conn[c].wr = "lock" /\ conn[c].lock = "free"
       \/ conn[c].wr = "body"
    /\ MayFail(c)
    /\ Step(c, [conn[c] EXCEPT !.wr = "done", !.lock = "free", !.broken = TRUE,
                               !.pending = 0])

\* An aborted task ends at one of its awaits, and its lock is released.
WriterAborts(c) ==
    /\ conn[c].aborted
    /\ conn[c].wr # "done"
    /\ Step(c, [conn[c] EXCEPT !.wr = "done", !.pending = 0,
                               !.lock = IF conn[c].wr = "body" THEN "free" ELSE @])

-----------------------------------------------------------------------------
(* The application *)

\* A subscription that is full loses its oldest broadcast.
Broadcast ==
    /\ casts < MaxBroadcasts
    /\ casts' = casts + 1
    /\ conn' = [c \in Clients |->
                    IF /\ \/ conn[c].srv = "new"
                          \/ conn[c].wr \in {"recv", "lock", "body"}
                       /\ conn[c].pending < BroadcastCap
                    THEN [conn[c] EXCEPT !.pending = @ + 1] ELSE conn[c]]
    /\ UNCHANGED <<loopVars, appUp, triggers>>

\* The application answers a command, or drops its response channel.
Respond(c) ==
    /\ conn[c].app = "asked"
    /\ \E how \in {"answered", "dropped"} :
            Step(c, [conn[c] EXCEPT !.app = how])

\* It takes a trigger.
TakeTrigger(t) ==
    /\ t \in triggers
    /\ triggers' = triggers \ {t}
    /\ UNCHANGED <<loopVars, appUp, casts, conn>>

\* It drops its receiver.  A command that was asked may have been taken before;
\* else it is dropped with the channel, or refused if it still waited for room.
AppStops ==
    /\ appUp
    /\ appUp' = FALSE
    /\ \E how \in [Clients -> {"asked", "dropped", "refused"}] :
            conn' = [c \in Clients |-> IF conn[c].app = "asked"
                                      THEN [conn[c] EXCEPT !.app = how[c]]
                                      ELSE conn[c]]
    /\ UNCHANGED <<loopVars, triggers, casts>>

-----------------------------------------------------------------------------
(* The specification *)

ServerInit ==
    /\ accept = "select"
    /\ shut = FALSE
    /\ told = {}
    /\ quiet = FALSE
    /\ appUp = TRUE
    /\ triggers = {}
    /\ casts = 0
    /\ conn = [c \in Clients |-> NoConn]

AcceptTask == AcceptOne \/ AcceptLoop \/ AcceptStops

Handler(c) ==
    \/ Authenticate(c) \/ Leaves(c) \/ ReadFrame(c) \/ ReadLoop(c)
    \/ TakeResponse(c) \/ ReplyHead(c) \/ ReplyBody(c) \/ ReplyFails(c)

Writer(c) ==
    WriterTakes(c) \/ WriterHead(c) \/ WriterBody(c) \/ WriterFails(c)

Client(c) ==
    Arrive(c) \/ Depart(c) \/ \E f \in Frames : SendFrame(c, f)

Application ==
    \/ Broadcast \/ AppStops \/ shutdown
    \/ \E t \in Triggers : TakeTrigger(t)
    \/ \E c \in Clients : Respond(c)

ServerNext ==
    \/ AcceptTask
    \/ \E c \in Clients : Client(c) \/ Handler(c) \/ Writer(c) \/ WriterAborts(c)
    \/ Application

\* Every task is scheduled, and an aborted one ends.
ServerFairness ==
    /\ WF_serverVars(AcceptTask)
    /\ \A c \in Clients : /\ WF_serverVars(Handler(c))
                          /\ WF_serverVars(Writer(c))
                          /\ WF_serverVars(WriterAborts(c))

ServerSpec == ServerInit /\ [][ServerNext]_serverVars /\ ServerFairness

-----------------------------------------------------------------------------
(* Properties *)

Parts == {"pong", "response", "packet"} \X {"head", "body"}

HandlerPhases ==
    {"none", "backlog", "new", "busy", "select", "waiting", "lock", "body", "ended"}
WriterPhases == {"none", "recv", "lock", "body", "done"}
AppPhases == {"none", "asked", "answered", "dropped", "refused"}
Holders == {"free", "handler", "writer"}
ReplyKinds == {"none", "pong", "response"}

ConnRecords ==
    [cli: {"none", "there", "left"}, in: Seq(Frames), sent: 0 .. MaxFrames,
     srv: HandlerPhases, app: AppPhases, reply: ReplyKinds, wr: WriterPhases,
     aborted: BOOLEAN, pending: 0 .. BroadcastCap, lock: Holders, broken: BOOLEAN,
     out: Seq(Parts)]

ServerTypeOK ==
    /\ accept \in {"select", "busy", "down"}
    /\ {shut, quiet, appUp} \subseteq BOOLEAN
    /\ told \subseteq Clients \union {Acceptor}
    /\ triggers \subseteq Triggers
    /\ casts \in 0 .. MaxBroadcasts
    /\ conn \in [Clients -> ConnRecords]

\* Frames never mix on the socket: whatever the handler, the writer, an abort
\* and a failed write do, a head is followed by its own body or by nothing
\* (the lock around write_frame, tunnel.rs:182 and 219).
WholeFrames ==
    \A c \in Clients : \A i \in 1 .. Len(conn[c].out) :
        conn[c].out[i] =
            IF i % 2 = 1 THEN Part(conn[c].out[i][1], "head")
            ELSE Part(conn[c].out[i - 1][1], "body")

\* A command the application has taken is answered on the wire before its
\* connection ends, shutdown() or not, unless the application drops it or a
\* write has failed (tunnel.rs:211-221 is not part of the select!).
TakenIsAnswered ==
    \A c \in Clients :
        conn[c].srv = "ended" => conn[c].app = "none" \/ conn[c].broken

\* A shutdown() that finds the accept loop and every handler waiting ends them
\* all, and their writers, unless something comes in before they have run
\* (tunnel.rs:96-98, 141, 269-276).
QuietShutdownCompletes ==
    quiet ~> (~quiet \/ (accept = "down" /\ \A c \in Clients : Ended(c)))
=============================================================================
