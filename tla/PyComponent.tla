---------------------------- MODULE PyComponent ----------------------------
(***************************************************************************)
(* AegisComponent of the Python SDK (aegis_component/client.py): run() and *)
(* the coroutines it awaits, against aegisd, with the worker tasks of      *)
(* example.py, which call send_state_update.                               *)
(*                                                                         *)
(* Everything runs on one event loop: a worker can act only while run() is *)
(* suspended (`Suspended').  drain() does not suspend for frames of this   *)
(* size, so that a send and the store that follows it are one step; aegisd *)
(* acts at any time.  A send on a connection that aegisd closed is an      *)
(* OSError.                                                                *)
(***************************************************************************)
EXTENDS ConnectionProperties, Backoff

CONSTANTS
    Reconnect,             \* config.reconnect
    ReconnectDelay,        \* config.reconnect_delay
    MaxReconnectDelay,     \* config.max_reconnect_delay
    MaxReconnectAttempts,  \* config.max_reconnect_attempts; 0 = unlimited
    MaxUpdates,            \* bound on the workers' calls of send_state_update
    MaxDials               \* bound on the calls of _connect() of a behaviour

ASSUME PyAssumption ==
    /\ Reconnect \in BOOLEAN
    /\ ReconnectDelay \in Nat
    /\ MaxReconnectDelay \in Nat
    /\ MaxReconnectAttempts \in Nat
    /\ MaxUpdates \in Nat
    /\ MaxDials \in Nat

VARIABLES
    pc,         \* where run() is
    cur,        \* the envelope being handled
    state,      \* AegisComponent.state
    attempts,   \* run()'s local `attempts'
    delay,      \* run()'s local `delay'
    dials,      \* calls of _connect()
    result,     \* how run() ended, "none" while it runs
    started,    \* started[w]: the connection on which worker w was started;
                \*   the last worker is _worker_task
    live,       \* workers whose task is not done
    updates,    \* calls of send_state_update by workers so far
    graceful,   \* history: connections that _graceful_shutdown ended
    streak      \* history: sleeps since READY was last signalled

runVars    == <<attempts, delay, dials, result>>
workerVars == <<started, live, updates>>
history    == <<graceful, streak>>
vars == <<linkVars, srvVars, pc, cur, state, runVars, workerVars, history>>

NoFrame == FromServer("CONTROL", "ACK", 0, NoId)

Sending == {"register", "announce_initializing", "announce_ready", "pong",
            "ack_configure", "announce_configured", "announce_running", "ack_shutdown"}

\* The awaits that suspend run(): receives, sleeps, open_unix_connection(), the
\* hooks of the application, and awaiting the cancelled worker.
MutSuspended == {"connect", "register", "await_registered", "await_ack", "message_loop",
                 "pong", "on_configure", "await_worker", "failed", "sleep"}
Suspended == {"connect", "await_registered", "await_ack", "message_loop", "pong",
              "on_configure", "await_worker", "failed", "sleep"}

Init ==
    /\ LinkInit
    /\ pc = "connect"
    /\ cur = NoFrame
    /\ state = "INIT"
    /\ attempts = 0
    /\ delay = ReconnectDelay
    /\ dials = 0
    /\ result = "none"
    /\ started = <<>>
    /\ live = {}
    /\ updates = 0
    /\ graceful = {}
    /\ streak = 0

-----------------------------------------------------------------------------
(* run() *)

\* An OSError leaves the session: run() closes the connection and goes on.
Disconnect ==
    /\ CloseLink
    /\ pc' = "failed"
    /\ UNCHANGED <<cur, state, runVars, workerVars, history>>

\* run() returns or raises; asyncio.run() cancels the tasks that are left.
Finish(r) ==
    /\ pc' = "done"
    /\ result' = r
    /\ live' = {}

\* A RegistrationError, or an exception that run() does not catch.
Abort(r) ==
    /\ CloseLink
    /\ Finish(r)
    /\ UNCHANGED <<cur, state, attempts, delay, dials, started, updates, history>>

Connect ==
    /\ pc = "connect"
    /\ dials < MaxDials
    /\ dials' = dials + 1
    /\ \/ OpenLink /\ pc' = "register"
       \/ UNCHANGED <<linkVars, srvVars>> /\ pc' = "failed"
    /\ UNCHANGED <<cur, state, attempts, delay, result, workerVars, history>>

AttemptsExhausted(n) == MaxReconnectAttempts > 0 /\ n >= MaxReconnectAttempts

\* The end of run()'s loop: after SHUTDOWN, NACK and errors alike.
Reconnecting ==
    /\ pc = "failed"
    /\ attempts' = IF Reconnect THEN attempts + 1 ELSE attempts
    /\ IF ~Reconnect \/ AttemptsExhausted(attempts + 1)
       THEN Finish(IF Reconnect THEN "max_reconnect_attempts" ELSE "reconnect_disabled")
       ELSE pc' = "sleep" /\ UNCHANGED <<result, live>>
    /\ UNCHANGED <<linkVars, srvVars, cur, state, delay, dials, started, updates, history>>

\* min(delay * 2, max_reconnect_delay)
NextDelay(d) == IF 2 * d < MaxReconnectDelay THEN 2 * d ELSE MaxReconnectDelay

WakeUp ==
    /\ pc = "sleep"
    /\ pc' = "connect"
    /\ delay' = NextDelay(delay)
    /\ streak' = streak + 1
    /\ UNCHANGED <<linkVars, srvVars, cur, state, attempts, dials, result,
                   workerVars, graceful>>

\* _send() by run() with the connection up.
Send(frame, next) ==
    /\ link = "up"
    /\ sent' = Append(sent, frame)
    /\ pc' = next
    /\ UNCHANGED <<link, inbox, srvVars>>

\* _send() raises OSError.  In a handler this skips _graceful_shutdown().
SendError ==
    /\ pc \in Sending
    /\ link = "eof"
    /\ Disconnect

Receive(frame) ==
    /\ inbox # <<>>
    /\ frame = Head(inbox)
    /\ frame.type # Undecodable
    /\ inbox' = Tail(inbox)
    /\ UNCHANGED <<link, sent, srvVars>>

\* json.loads() raises ValueError, which nobody catches.
RecvUndecodable ==
    /\ pc \in {"await_registered", "await_ack", "message_loop"}
    /\ inbox # <<>>
    /\ Head(inbox).type = Undecodable
    /\ Abort("exception")

-----------------------------------------------------------------------------
(* _register() and _signal_ready() *)

SendRegister ==
    /\ pc = "register"
    /\ Send(Envelope("REGISTER", 0, NoId), "await_registered")
    /\ UNCHANGED <<cur, state, runVars, workerVars, history>>

\* The receives of the handshake have no timeout.
HandshakeEof ==
    /\ pc \in {"await_registered", "await_ack"}
    /\ inbox = <<>>
    /\ link = "eof"
    /\ Disconnect

MutRegistered ==
    /\ pc = "await_registered"
    /\ inbox # <<>>
    /\ Head(inbox).command = "REGISTERED"
    /\ Head(inbox).arg # NoKey
    /\ Receive(Head(inbox))
    /\ pc' = "announce_initializing"
    /\ UNCHANGED <<cur, state, runVars, workerVars, history>>
Registered ==
    /\ pc = "await_registered"
    /\ inbox # <<>>
    /\ Head(inbox).command = "REGISTERED"
    /\ Head(inbox).arg # NoKey
    /\ Receive(Head(inbox))
    /\ state' = "REGISTERED"
    /\ pc' = "announce_initializing"
    /\ UNCHANGED <<cur, runVars, workerVars, history>>

\* A RegistrationError, or a KeyError when the payload has no component_id.
RegisterRaises ==
    /\ pc = "await_registered"
    /\ inbox # <<>>
    /\ Head(inbox).type # Undecodable
    /\ \/ Head(inbox).command # "REGISTERED" /\ Abort("registration")
       \/ Head(inbox).arg = NoKey /\ Abort("exception")

\* send_state_update(): the frame, then the state.
SendStateUpdate(new_state, next) ==
    /\ Send(Envelope("STATE_UPDATE", 0, new_state), next)
    /\ state' = new_state

AnnounceInitializing ==
    /\ pc = "announce_initializing"
    /\ SendStateUpdate("INITIALIZING", "await_ack")
    /\ UNCHANGED <<cur, runVars, workerVars, history>>

\* Whatever arrives is taken for the ACK.
RecvAck ==
    /\ pc = "await_ack"
    /\ inbox # <<>>
    /\ Receive(Head(inbox))
    /\ pc' = "announce_ready"
    /\ UNCHANGED <<cur, state, runVars, workerVars, history>>

\* READY; back in run(), the delay starts over.
MutAnnounceReady ==
    /\ pc = "announce_ready"
    /\ SendStateUpdate("READY", "message_loop")
    /\ streak' = 0
    /\ UNCHANGED <<cur, runVars, workerVars, graceful>>
AnnounceReady ==
    /\ pc = "announce_ready"
    /\ SendStateUpdate("READY", "message_loop")
    /\ delay' = ReconnectDelay
    /\ streak' = 0
    /\ UNCHANGED <<cur, attempts, dials, result, workerVars, graceful>>

-----------------------------------------------------------------------------
(* _message_loop() *)

\* 35 seconds of silence, or an end of file.
MutReadEnds ==
    /\ pc = "message_loop"
    /\ inbox = <<>>
    /\ link = "eof"
    /\ pc' = "graceful_shutdown"
    /\ UNCHANGED <<linkVars, srvVars, cur, state, runVars, workerVars, history>>
ReadEnds ==
    /\ pc = "message_loop"
    /\ inbox = <<>>
    /\ pc' = "graceful_shutdown"
    /\ UNCHANGED <<linkVars, srvVars, cur, state, runVars, workerVars, history>>

\* Requests that are answered: run() goes on to the first send, or the hook before.
Asks(frame) == frame.command \in {"PING", "CONFIGURE", "SHUTDOWN"}

HandleRequest(frame) ==
    /\ Asks(frame)
    /\ cur' = frame
    /\ pc' = CASE frame.command = "PING" -> "pong"
               [] frame.command = "CONFIGURE" -> "ack_configure"
               [] frame.command = "SHUTDOWN" -> "ack_shutdown"

\* NACK and non-recoverable errors clear _running, which ends the loop.
Stops(frame) ==
    \/ frame.type = "CONTROL" /\ frame.command = "NACK"
    \/ frame.type = "ERROR" /\ frame.arg # "recoverable"

HandleOther(frame) ==
    /\ ~Asks(frame)
    /\ pc' = IF Stops(frame) THEN "graceful_shutdown" ELSE "message_loop"
    /\ UNCHANGED cur

RecvMessage ==
    /\ pc = "message_loop"
    /\ inbox # <<>>
    /\ Receive(Head(inbox))
    /\ HandleRequest(Head(inbox)) \/ HandleOther(Head(inbox))
    /\ UNCHANGED <<state, runVars, workerVars, history>>

ReplyCorr == cur.id

Reply(at, command, arg, next) ==
    /\ pc = at
    /\ Send(Envelope(command, ReplyCorr, arg), next)
    /\ cur' = NoFrame
    /\ UNCHANGED <<state, runVars, workerVars, history>>

SendReply ==
    \/ Reply("pong", "PONG", state, "message_loop")
    \/ Reply("ack_configure", "ACK", NoId, "announce_configured")
    \/ Reply("ack_shutdown", "ACK", NoId, "graceful_shutdown")

AnnounceConfigured ==
    /\ pc = "announce_configured"
    /\ SendStateUpdate("CONFIGURED", "on_configure")
    /\ UNCHANGED <<cur, runVars, workerVars, history>>

OnConfigure ==
    /\ pc = "on_configure"
    /\ \/ /\ pc' = "announce_running"
          /\ UNCHANGED <<linkVars, srvVars, cur, state, runVars, workerVars, history>>
       \/ Disconnect
       \/ Abort("exception")

\* RUNNING; the example's on_running() replaces _worker_task by a new task.
AnnounceRunning ==
    /\ pc = "announce_running"
    /\ SendStateUpdate("RUNNING", "message_loop")
    /\ started' = Append(started, dials)
    /\ live' = live \cup {Len(started) + 1}
    /\ UNCHANGED <<cur, runVars, updates, history>>

\* _graceful_shutdown(): SHUTDOWN, unless the connection is gone; the example's
\* on_shutdown() cancels _worker_task, and awaits it if it was not done.
MutGracefulShutdown ==
    /\ pc = "graceful_shutdown"
    /\ sent' = IF link = "up" THEN Append(sent, Envelope("SHUTDOWN", 0, NoId)) ELSE sent
    /\ pc' = "leave"
    /\ UNCHANGED <<link, inbox, srvVars, cur, state, runVars, workerVars, history>>
GracefulShutdown ==
    /\ pc = "graceful_shutdown"
    /\ sent' = IF link = "up" THEN Append(sent, Envelope("SHUTDOWN", 0, NoId)) ELSE sent
    /\ pc' = IF Len(started) \in live THEN "await_worker" ELSE "leave"
    /\ live' = live \ {Len(started)}
    /\ UNCHANGED <<link, inbox, srvVars, cur, state, runVars, started, updates, history>>

\* The rest of it, and the end of the session.
Leave ==
    /\ pc \in {"await_worker", "leave"}
    /\ state' = "SHUTDOWN"
    /\ graceful' = graceful \cup {dials}
    /\ CloseLink
    /\ pc' = "failed"
    /\ UNCHANGED <<cur, runVars, workerVars, streak>>

-----------------------------------------------------------------------------
(* _data_worker() *)

\* Worker w wakes up and calls send_state_update on whatever connection there is.
WorkerSends(w) ==
    /\ link = "up"
    /\ updates < MaxUpdates
    /\ updates' = updates + 1
    /\ \E new_state \in {"WAITING", "RUNNING"} : SendStateUpdate(new_state, pc)
    /\ UNCHANGED <<cur, runVars, started, live, history>>

\* There is no writer, or the send fails: the exception ends the task.  The failed
\* send also takes what is left to read with it.
WorkerDies(w) ==
    /\ link # "up"
    /\ live' = live \ {w}
    /\ inbox' = <<>>
    /\ UNCHANGED <<link, sent, srvVars, pc, cur, state, runVars, started, updates, history>>

WorkerStep ==
    /\ pc \in Suspended
    /\ \E w \in live : WorkerSends(w) \/ WorkerDies(w)

RunStep ==
    \/ Connect \/ Reconnecting \/ WakeUp \/ SendError \/ RecvUndecodable
    \/ SendRegister \/ HandshakeEof \/ Registered \/ RegisterRaises
    \/ AnnounceInitializing \/ RecvAck \/ AnnounceReady
    \/ ReadEnds \/ RecvMessage \/ SendReply \/ AnnounceConfigured \/ OnConfigure
    \/ AnnounceRunning \/ GracefulShutdown \/ Leave

ServerStep == SrvNext /\ UNCHANGED <<pc, cur, state, runVars, workerVars, history>>

Next == RunStep \/ WorkerStep \/ ServerStep

Spec == Init /\ [][Next]_vars

\* The event loop resumes run() when it can proceed and fires its timers; the hooks
\* return.  Nothing is assumed of aegisd or of the workers.
FairSpec == Spec /\ WF_vars(RunStep)

-----------------------------------------------------------------------------
(* Properties *)

\* Every variable has its type.
TypeOK ==
    /\ LinkTypeOK
    /\ pc \in Sending \cup Suspended \cup {"graceful_shutdown", "leave", "done"}
    /\ cur \in ServerFrames
    /\ state \in ComponentStates
    /\ attempts \in Nat
    /\ delay \in Nat
    /\ dials \in 0 .. MaxDials
    /\ result \in {"none", "registration", "exception", "reconnect_disabled",
                   "max_reconnect_attempts"}
    /\ started \in Seq(1 .. MaxDials)
    /\ live \subseteq DOMAIN started
    /\ updates \in 0 .. MaxUpdates
    /\ graceful \subseteq 1 .. MaxDials
    /\ streak \in Nat

\* On a connection aegisd sees REGISTER first, replies that match its requests, and
\* PONGs that report the state it was last told, whatever workers of this session and
\* of earlier ones send between the awaits of run().
Conversation == TypeOK /\ HandshakeFirst /\ RepliesMatch /\ PongTruthful

\* example.py: a worker that outlives a session which ended gracefully was not the
\* last one started in it: another CONFIGURE of the same session had overwritten
\* _worker_task.
GracefulStopsNewest ==
    \A w \in live :
        started[w] \in graceful =>
            \E v \in w + 1 .. Len(started) : started[v] = started[w]

\* run(): a session that got as far as READY makes the delay start over, so that the
\* k-th sleep after it lasts reconnect_delay * 2^(k-1), capped from the second one on.
BackoffSinceReady ==
    pc = "sleep" => delay = DelayAfter(streak, ReconnectDelay, MaxReconnectDelay)

\* run(): without reconnection it connects once; with a limit of n attempts it connects
\* at most n times, sessions that got to READY included although they make the delay
\* start over, and gives up for that reason only after exactly n times.
AttemptsBounded ==
    /\ ~Reconnect => dials <= 1
    /\ MaxReconnectAttempts > 0 => dials <= MaxReconnectAttempts
    /\ result = "max_reconnect_attempts" => dials = MaxReconnectAttempts

\* run(): how often it connects and how long it waits in between.
ReconnectBudget == AttemptsBounded /\ BackoffSinceReady

Phase ==
    IF pc = "done" THEN "stopped"
    ELSE IF link = "down" THEN "offline"
    ELSE IF pc \in {"register", "await_registered"} THEN "registering"
    ELSE state

Contract == INSTANCE LifecycleContract WITH phase <- Phase

\* Until a worker announces a state of its own, the component implements the lifecycle
\* aegisd relies on.
ContractSpec == Contract!Init /\ [][updates' = 0 => [Contract!Next]_Phase]_vars

\* Once aegisd has fallen silent, run() ends, or hangs in one of the two receives of
\* the handshake, which have no timeout.
OnlyHandshakeHangs == <>[](pc \in {"done", "await_registered", "await_ack"})
=============================================================================
