--------------------------- MODULE RustComponent ---------------------------
(***************************************************************************)
(* Component<H> of the Rust SDK (aegis-rust/src/component.rs): run() with  *)
(* its reconnection loop, run_once(), register(), message_loop() and the   *)
(* handlers, against aegisd.                                               *)
(*                                                                         *)
(* run() is one async task.  `pc' names the await it is suspended at, so   *)
(* that aegisd can act between any two awaits.  A send on a connection     *)
(* that aegisd closed fails; `?' then carries the error out of run_once(), *)
(* which drops the socket.  The handler's hooks always return; on_configure*)
(* may fail.                                                               *)
(***************************************************************************)
EXTENDS Aegisd

CONSTANTS
    Reconnect,             \* cfg.reconnect
    ReconnectDelay,        \* cfg.reconnect_delay
    MaxReconnectDelay,     \* cfg.max_reconnect_delay
    MaxReconnectAttempts,  \* cfg.max_reconnect_attempts; 0 = unlimited
    EnvId,                 \* AEGIS_COMPONENT_ID, or NoId when it is not set
    MaxDials               \* bound on the calls of run_once() of a behaviour

ASSUME RustAssumption ==
    /\ Reconnect \in BOOLEAN
    /\ ReconnectDelay \in Nat
    /\ MaxReconnectDelay \in Nat
    /\ MaxReconnectAttempts \in Nat
    /\ EnvId \in ComponentIds \cup {NoId}
    /\ MaxDials \in Nat

VARIABLES
    pc,            \* where run() is
    cur,           \* the envelope being handled
    state,         \* Component::state
    component_id,  \* Component::component_id; session_id is stored along with it
    attempts,      \* run()'s local `attempts'
    delay,         \* run()'s local `delay'
    dials,         \* calls of run_once(); numbers connections and their tokens
    result,        \* what run() returned, "none" while it runs
    workers,       \* workers[n]: on_running tasks that hold connection n's token
    cancelled,     \* connections whose shutdown token was cancelled
    called         \* hooks called on the latest connection

rustVars == <<state, component_id, attempts, delay, dials, result,
              workers, cancelled, called>>
vars == <<linkVars, srvVars, pc, cur, rustVars>>

\* cur when no envelope is being handled.
NoFrame == FromServer("CONTROL", "ACK", 0, NoId)

Sending == {"register", "announce_initializing", "announce_ready", "pong",
            "configure_failed", "ack_configure", "announce_configured",
            "announce_running", "ack_reborn", "ack_shutdown"}

Receiving == {"await_registered", "message_loop"}

Hooks == {"on_configure", "on_running", "on_reborn", "on_ping", "on_shutdown",
          "on_error(recoverable)", "on_error(fatal)"}

Init ==
    /\ LinkInit
    /\ pc = "connect"
    /\ cur = NoFrame
    /\ state = "INIT"
    /\ component_id = NoId
    /\ attempts = 0
    /\ delay = ReconnectDelay
    /\ dials = 0
    /\ result = "none"
    /\ workers = [n \in 1 .. MaxDials |-> 0]
    /\ cancelled = {}
    /\ called = {}

-----------------------------------------------------------------------------
(* Leaving run_once() and run() *)

\* run_once() returns Err: the socket halves are dropped.
Fail ==
    /\ CloseLink
    /\ pc' = "failed"
    /\ cur' = NoFrame

\* run() returns.
Return(r) ==
    /\ pc' = "done"
    /\ result' = r
    /\ cur' = NoFrame

\* send_envelope(): the line is in the socket and run() goes on to `next'.
Send(frame, next) ==
    /\ link = "up"
    /\ sent' = Append(sent, frame)
    /\ pc' = next
    /\ UNCHANGED <<link, inbox, srvVars>>

\* send_envelope() on a connection that aegisd closed: AegisError::Io.
SendError ==
    /\ pc \in Sending
    /\ link = "eof"
    /\ Fail
    /\ UNCHANGED rustVars

\* recv_envelope() reads zero bytes: AegisError::Connection.
RecvEof ==
    /\ pc \in Receiving
    /\ inbox = <<>>
    /\ link = "eof"
    /\ Fail
    /\ UNCHANGED rustVars

\* recv_envelope() reads a line that serde_json rejects: AegisError::Json.
RecvUndecodable ==
    /\ pc \in Receiving
    /\ inbox # <<>>
    /\ Head(inbox).type = Undecodable
    /\ Fail
    /\ UNCHANGED rustVars

\* recv_envelope() yields an envelope.
Receive(frame) ==
    /\ inbox # <<>>
    /\ frame = Head(inbox)
    /\ frame.type # Undecodable
    /\ inbox' = Tail(inbox)
    /\ UNCHANGED <<link, sent, srvVars>>

\* No line for 35 seconds: AegisError::Timeout.
MutReadTimeoutNever == pc = "message_loop" /\ FALSE /\ UNCHANGED vars
ReadTimeout ==
    /\ pc = "message_loop"
    /\ inbox = <<>>
    /\ link = "up"
    /\ Fail
    /\ UNCHANGED rustVars

-----------------------------------------------------------------------------
(* run() *)

\* UnixStream::connect succeeds or is refused.
Connect ==
    /\ pc = "connect"
    /\ dials < MaxDials
    /\ dials' = dials + 1
    /\ \/ /\ OpenLink
          /\ pc' = "register"
          /\ called' = {}
       \/ /\ pc' = "failed"
          /\ UNCHANGED <<linkVars, srvVars, called>>
    /\ UNCHANGED <<cur, state, component_id, attempts, delay, result,
                   workers, cancelled>>

\* The budget test after `attempts += 1'.
MutAttemptsExhausted(n) == MaxReconnectAttempts > 0 /\ n > MaxReconnectAttempts
AttemptsExhausted(n) == MaxReconnectAttempts > 0 /\ n >= MaxReconnectAttempts

\* run() after an error: give up, or go to sleep.
Reconnecting ==
    /\ pc = "failed"
    /\ IF ~Reconnect
       THEN Return("reconnect_disabled") /\ UNCHANGED attempts
       ELSE /\ attempts' = attempts + 1
            /\ IF AttemptsExhausted(attempts + 1)
               THEN Return("max_reconnect_attempts")
               ELSE pc' = "sleep" /\ UNCHANGED <<result, cur>>
    /\ UNCHANGED <<linkVars, srvVars, state, component_id, delay, dials,
                   workers, cancelled, called>>

\* delay.mul_f32(2.0).min(max_reconnect_delay)
NextDelay(d) == IF 2 * d < MaxReconnectDelay THEN 2 * d ELSE MaxReconnectDelay

WakeUp ==
    /\ pc = "sleep"
    /\ pc' = "connect"
    /\ delay' = NextDelay(delay)
    /\ UNCHANGED <<linkVars, srvVars, cur, state, component_id, attempts, dials,
                   result, workers, cancelled, called>>

-----------------------------------------------------------------------------
(* register() *)

\* The stored id is preferred to the one in the environment.
MutRegisterId == EnvId
RegisterId == IF component_id # NoId THEN component_id ELSE EnvId

SendRegister ==
    /\ pc = "register"
    /\ Send(Envelope("REGISTER", 0, RegisterId), "await_registered")
    /\ UNCHANGED <<cur, rustVars>>

\* as_str().unwrap_or_default()
AsStr(arg) == IF arg = NotString THEN NoId ELSE arg

\* The first envelope of the connection.  Anything but REGISTERED is final;
\* indexing a payload without the key panics.
RecvRegistered ==
    /\ pc = "await_registered"
    /\ inbox # <<>>
    /\ LET frame == Head(inbox) IN
       /\ frame.type # Undecodable
       /\ \/ /\ frame.command # "REGISTERED"
             /\ CloseLink
             /\ Return("registration")
             /\ UNCHANGED <<component_id, state>>
          \/ /\ frame.command = "REGISTERED"
             /\ frame.arg = NoKey
             /\ CloseLink
             /\ Return("panic")
             /\ UNCHANGED <<component_id, state>>
          \/ /\ frame.command = "REGISTERED"
             /\ frame.arg # NoKey
             /\ Receive(frame)
             /\ component_id' = AsStr(frame.arg)
             /\ state' = "REGISTERED"
             /\ pc' = "announce_initializing"
             /\ UNCHANGED <<cur, result>>
    /\ UNCHANGED <<attempts, delay, dials, workers, cancelled, called>>

\* send_state_update(): the state is stored only once the frame was sent.
MutSendStateUpdate(new_state, next) ==
    /\ Send(Envelope("STATE_UPDATE", 0, new_state), next)
    /\ UNCHANGED <<state, cur, component_id, attempts, delay, dials, result, cancelled>>
SendStateUpdate(new_state, next) ==
    /\ Send(Envelope("STATE_UPDATE", 0, new_state), next)
    /\ state' = new_state
    /\ UNCHANGED <<cur, component_id, attempts, delay, dials, result, cancelled>>

MutAnnounceInitializing ==
    /\ pc = "announce_initializing"
    /\ SendStateUpdate("INITIALIZING", "message_loop")
    /\ UNCHANGED <<workers, called>>
AnnounceInitializing ==
    /\ pc = "announce_initializing"
    /\ SendStateUpdate("INITIALIZING", "announce_ready")
    /\ UNCHANGED <<workers, called>>

AnnounceReady ==
    /\ pc = "announce_ready"
    /\ SendStateUpdate("READY", "message_loop")
    /\ UNCHANGED <<workers, called>>

-----------------------------------------------------------------------------
(* message_loop(): what one envelope starts *)

\* handle_heartbeat: on_ping runs before the PONG is built.
HandlePing(frame) ==
    /\ frame.type = "HEARTBEAT"
    /\ frame.command = "PING"
    /\ called' = called \cup {"on_ping"}
    /\ cur' = frame
    /\ pc' = "pong"
    /\ UNCHANGED cancelled

\* handle_config up to the outcome of on_configure.
HandleConfigure(frame) ==
    /\ frame.type = "CONFIG"
    /\ frame.command = "CONFIGURE"
    /\ called' = called \cup {"on_configure"}
    /\ cur' = frame
    /\ pc' \in {"ack_configure", "configure_failed"}
    /\ UNCHANGED cancelled

\* handle_lifecycle, REBORN: the token and the state are left alone.
HandleReborn(frame) ==
    /\ frame.type = "LIFECYCLE"
    /\ frame.command = "REBORN"
    /\ called' = called \cup {"on_reborn"}
    /\ cur' = frame
    /\ pc' = "ack_reborn"
    /\ UNCHANGED cancelled

\* handle_lifecycle, SHUTDOWN: the token is cancelled before the ACK.
MutHandleShutdownKeepsToken(frame) ==
    /\ frame.type = "LIFECYCLE"
    /\ frame.command = "SHUTDOWN"
    /\ cur' = frame
    /\ pc' = "ack_shutdown"
    /\ UNCHANGED <<cancelled, called>>
MutHandleShutdownIgnored(frame) ==
    /\ frame.type = "LIFECYCLE"
    /\ frame.command = "SHUTDOWN"
    /\ UNCHANGED <<cur, pc, cancelled, called>>
HandleShutdown(frame) ==
    /\ frame.type = "LIFECYCLE"
    /\ frame.command = "SHUTDOWN"
    /\ cancelled' = cancelled \cup {dials}
    /\ cur' = frame
    /\ pc' = "ack_shutdown"
    /\ UNCHANGED called

\* handle_error_msg on a recoverable error; the fatal one ends the connection.
HandleRecoverable(frame) ==
    /\ frame.type = "ERROR"
    /\ frame.arg = "recoverable"
    /\ called' = called \cup {"on_error(recoverable)"}
    /\ UNCHANGED <<cur, pc, cancelled>>

\* Control frames, Data frames and the commands a handler does not know.
Ignored(frame) ==
    \/ frame.type \in {"CONTROL", "DATA"}
    \/ frame.type = "HEARTBEAT" /\ frame.command # "PING"
    \/ frame.type = "CONFIG" /\ frame.command # "CONFIGURE"
    \/ frame.type = "LIFECYCLE" /\ frame.command \notin {"REBORN", "SHUTDOWN"}

HandleIgnored(frame) ==
    /\ Ignored(frame)
    /\ UNCHANGED <<cur, pc, cancelled, called>>

RecvMessage ==
    /\ pc = "message_loop"
    /\ inbox # <<>>
    /\ LET frame == Head(inbox) IN
       /\ Receive(frame)
       /\ \/ HandlePing(frame)
          \/ HandleConfigure(frame)
          \/ HandleReborn(frame)
          \/ HandleShutdown(frame)
          \/ HandleRecoverable(frame)
          \/ HandleIgnored(frame)
    /\ UNCHANGED <<state, component_id, attempts, delay, dials, result, workers>>

\* A non-recoverable error: on_error, then run_once() returns Err.
RecvFatal ==
    /\ pc = "message_loop"
    /\ inbox # <<>>
    /\ Head(inbox).type = "ERROR"
    /\ Head(inbox).arg # "recoverable"
    /\ Fail
    /\ called' = called \cup {"on_error(fatal)"}
    /\ UNCHANGED <<state, component_id, attempts, delay, dials, result,
                   workers, cancelled>>

-----------------------------------------------------------------------------
(* message_loop(): the rest of each handler *)

ReplyCorr == cur.id

\* A reply ends the handling of `cur'.
Reply(command, arg, next) ==
    /\ Send(Envelope(command, ReplyCorr, arg), next)
    /\ cur' = NoFrame
    /\ UNCHANGED rustVars

SendPong ==
    /\ pc = "pong"
    /\ Reply("PONG", state, "message_loop")

AckReborn ==
    /\ pc = "ack_reborn"
    /\ Reply("ACK", NoId, "message_loop")

\* on_configure failed: CONFIGURE_FAILED, without a correlation id.
ConfigureFailed ==
    /\ pc = "configure_failed"
    /\ Send(Envelope("RUNTIME_ERROR", 0, "recoverable"), "message_loop")
    /\ cur' = NoFrame
    /\ UNCHANGED rustVars

AckConfigure ==
    /\ pc = "ack_configure"
    /\ Reply("ACK", NoId, "announce_configured")

AnnounceConfigured ==
    /\ pc = "announce_configured"
    /\ SendStateUpdate("CONFIGURED", "announce_running")
    /\ UNCHANGED <<workers, called>>

\* RUNNING is announced, then on_running is spawned with the connection's token.
MutAnnounceRunning ==
    /\ pc = "announce_running"
    /\ SendStateUpdate("RUNNING", "message_loop")
    /\ workers' = [workers EXCEPT ![dials] = 1]
    /\ called' = called \cup {"on_running"}
AnnounceRunning ==
    /\ pc = "announce_running"
    /\ SendStateUpdate("RUNNING", "message_loop")
    /\ workers' = [workers EXCEPT ![dials] = @ + 1]
    /\ called' = called \cup {"on_running"}

AckShutdown ==
    /\ pc = "ack_shutdown"
    /\ Reply("ACK", NoId, "graceful_shutdown")

\* graceful_shutdown(), then Ok(()) all the way out of run().
GracefulShutdown ==
    /\ pc = "graceful_shutdown"
    /\ called' = called \cup {"on_shutdown"}
    /\ state' = "SHUTDOWN"
    /\ CloseLink
    /\ Return("ok")
    /\ UNCHANGED <<component_id, attempts, delay, dials, workers, cancelled>>

-----------------------------------------------------------------------------
RunStep ==
    \/ Connect \/ Reconnecting \/ WakeUp
    \/ SendRegister \/ RecvRegistered \/ AnnounceInitializing \/ AnnounceReady
    \/ SendError \/ RecvEof \/ RecvUndecodable
    \/ RecvMessage \/ RecvFatal \/ ReadTimeout
    \/ SendPong \/ AckReborn
    \/ ConfigureFailed \/ AckConfigure \/ AnnounceConfigured \/ AnnounceRunning
    \/ AckShutdown \/ GracefulShutdown

ServerStep == SrvNext /\ UNCHANGED <<pc, cur, rustVars>>

Next == RunStep \/ ServerStep

Spec == Init /\ [][Next]_vars

\* The tokio runtime keeps polling a task that can make progress and fires its
\* timers; nothing is assumed of aegisd.
FairSpec == Spec /\ WF_vars(RunStep)
=============================================================================
