---------------------------- MODULE GoComponent ----------------------------
(***************************************************************************)
(* Component of the Go SDK (aegis-go/aegis/client.go): Run with its        *)
(* reconnection loop, runOnce, register, messageLoop and the handlers,     *)
(* against aegisd.                                                         *)
(*                                                                         *)
(* Three kinds of goroutine act: the one that called Run (`pc'), one that  *)
(* an OnRunning handler started and that calls SendStateUpdate from time   *)
(* to time (`upd'), and whoever cancels the context.  A send is atomic     *)
(* (sendMu), but SendStateUpdate stores the state only after it released   *)
(* the lock.                                                               *)
(***************************************************************************)
EXTENDS Aegisd

CONSTANTS
    Reconnect,             \* cfg.Reconnect
    ReconnectDelay,        \* cfg.ReconnectDelay
    MaxReconnectDelay,     \* cfg.MaxReconnectDelay
    MaxReconnectAttempts,  \* cfg.MaxReconnectAttempts; 0 = unlimited
    CfgId,                 \* cfg.ComponentID, or NoId
    Coalesce,              \* one read(2) may return more than one frame
    Cancels,               \* the context may be cancelled
    MaxUpdates,            \* bound on the SendStateUpdate calls of the handler
    MaxDials               \* bound on the calls of runOnce of a behaviour

ASSUME GoAssumption ==
    /\ Reconnect \in BOOLEAN
    /\ ReconnectDelay \in Nat
    /\ MaxReconnectDelay \in Nat
    /\ MaxReconnectAttempts \in Nat
    /\ CfgId \in ComponentIds \cup {NoId}
    /\ Coalesce \in BOOLEAN
    /\ Cancels \in BOOLEAN
    /\ MaxUpdates \in Nat
    /\ MaxDials \in Nat

VARIABLES
    pc,           \* where Run is
    cur,          \* the envelope recv returned last
    store,        \* SendStateUpdate of Run's goroutine: the state still to store
    then,         \* and where Run goes on after it
    State,        \* Component.State
    ComponentID,  \* Component.ComponentID; SessionID is stored along with it
    ctxDone,      \* ctx.Err() # nil
    attempts,     \* Run's local `attempts'
    delay,        \* Run's local `delay'
    dials,        \* calls of runOnce
    runErr,       \* what runOnce returned, or will return when pc is in Leaving
    result,       \* what Run returned, "none" while it runs
    workers,      \* goroutines started for OnRunning
    upd,          \* the handler's SendStateUpdate: the state still to store, or "none"
    updates,      \* SendStateUpdate calls of the handler so far
    called        \* handlers called on the latest connection

ctlVars == <<cur, store, then>>
goVars  == <<State, ComponentID, ctxDone, attempts, delay, dials, runErr, result,
             workers, upd, updates, called>>
vars == <<linkVars, srvVars, pc, ctlVars, goVars>>

NoFrame == FromServer("CONTROL", "ACK", 0, NoId)

\* What is left of a frame whose first bytes an earlier decoder consumed.
Torn == FromServer(Undecodable, "ACK", 0, NoId)

\* register's receives: the connection has no read deadline yet.
AwaitHandshake == {"await_registered", "await_ack_initializing", "await_ack_ready"}

\* The callbacks an application may set (Handlers).
Hooks == {"OnPing", "OnConfigure", "OnRunning", "OnShutdown", "OnError"}

\* handleConfig's receives, under the deadline that messageLoop set.
AwaitConfig == {"await_ack_configured", "await_ack_running"}

\* gracefulShutdown and the deferred closeConn: between any two of these steps other
\* goroutines run.
Leaving == {"graceful_shutdown", "send_shutdown", "store_shutdown", "close"}

Init ==
    /\ LinkInit
    /\ pc = "run"
    /\ cur = NoFrame
    /\ store = "INIT"
    /\ then = "run"
    /\ State = "INIT"
    /\ ComponentID = NoId
    /\ ctxDone = FALSE
    /\ attempts = 0
    /\ delay = ReconnectDelay
    /\ dials = 0
    /\ runErr = "none"
    /\ result = "none"
    /\ workers = 0
    /\ upd = "none"
    /\ updates = 0
    /\ called = {}

-----------------------------------------------------------------------------
(* The socket *)

\* send succeeds.
Send(frame) ==
    /\ link = "up"
    /\ sent' = Append(sent, frame)
    /\ UNCHANGED <<link, inbox, srvVars>>

\* send fails: aegisd closed the connection.
SendFails ==
    /\ link = "eof"
    /\ UNCHANGED <<linkVars, srvVars>>

\* runOnce returns err; the deferred closeConn closes the socket.
LeaveRunOnce(err) ==
    /\ CloseLink
    /\ pc' = "reconnect"
    /\ runErr' = err

\* What a decoder leaves in c.reader of the frames behind the one it returns.
\* recv makes a new json.Decoder for every envelope: whatever the decoder read
\* ahead is gone with it, whole frames or the beginning of one.
Leftovers(rest) ==
    IF ~Coalesce THEN {rest}
    ELSE {SubSeq(rest, k, Len(rest)) : k \in 1 .. Len(rest) + 1}
         \cup {<<Torn>> \o SubSeq(rest, k + 1, Len(rest)) : k \in 1 .. Len(rest)}

\* recv returns an envelope.
Recv(frame) ==
    /\ inbox # <<>>
    /\ frame = Head(inbox)
    /\ frame.type # Undecodable
    /\ inbox' \in Leftovers(Tail(inbox))
    /\ cur' = frame
    /\ UNCHANGED <<link, sent, srvVars>>

\* recv returns an error: end of file, or bytes that are not an Envelope.
\* (The decoder that failed takes the bytes it buffered with it.)
RecvFails ==
    \/ /\ inbox = <<>>
       /\ link = "eof"
       /\ UNCHANGED inbox
    \/ /\ inbox # <<>>
       /\ Head(inbox).type = Undecodable
       /\ inbox' \in Leftovers(Tail(inbox))

-----------------------------------------------------------------------------
(* Run and runOnce *)

Finish(r) ==
    /\ pc' = "done"
    /\ result' = r

\* The top of Run's loop, and net.Dial.
MutRunOnce ==
    /\ pc = "run"
    /\ ~ctxDone
    /\ dials < MaxDials
    /\ dials' = dials + 1
    /\ OpenLink
    /\ pc' = IF ComponentID = NoId THEN "register" ELSE "send_initializing"
    /\ called' = {}
    /\ UNCHANGED <<ctlVars, State, ComponentID, ctxDone, attempts, delay, runErr, result,
                   workers, upd, updates>>
RunOnce ==
    /\ pc = "run"
    /\ ~ctxDone
    /\ dials < MaxDials
    /\ dials' = dials + 1
    /\ \/ /\ OpenLink
          /\ pc' = "register"
          /\ called' = {}
          /\ UNCHANGED runErr
       \/ /\ pc' = "reconnect"
          /\ runErr' = "other"
          /\ UNCHANGED <<linkVars, srvVars, called>>
    /\ UNCHANGED <<ctlVars, State, ComponentID, ctxDone, attempts, delay, result,
                   workers, upd, updates>>

RunCancelled ==
    /\ pc \in {"run", "sleep"}
    /\ ctxDone
    /\ Finish("canceled")
    /\ UNCHANGED <<linkVars, srvVars, ctlVars, State, ComponentID, ctxDone,
                   attempts, delay, dials, runErr, workers, upd, updates, called>>

MutAttemptsExhausted(n) == MaxReconnectAttempts > 0 /\ n > MaxReconnectAttempts
AttemptsExhausted(n) == MaxReconnectAttempts > 0 /\ n >= MaxReconnectAttempts

\* The errors after which Run returns at once.
Final(err) == err \in {"canceled", "registration"}

\* Run after runOnce returned.  A nil error (SHUTDOWN) reconnects like any other.
AfterRunOnce ==
    /\ pc = "reconnect"
    /\ IF Final(runErr) \/ ~Reconnect
       THEN Finish(runErr) /\ UNCHANGED attempts
       ELSE /\ attempts' = attempts + 1
            /\ IF AttemptsExhausted(attempts + 1)
               THEN Finish("max_reconnect_attempts")
               ELSE pc' = "sleep" /\ UNCHANGED result
    /\ UNCHANGED <<linkVars, srvVars, ctlVars, State, ComponentID, ctxDone, delay,
                   dials, runErr, workers, upd, updates, called>>

\* minDuration(delay*2, MaxReconnectDelay)
NextDelay(d) == IF 2 * d < MaxReconnectDelay THEN 2 * d ELSE MaxReconnectDelay

\* time.After(delay) fires.
WakeUp ==
    /\ pc = "sleep"
    /\ pc' = "run"
    /\ delay' = NextDelay(delay)
    /\ UNCHANGED <<linkVars, srvVars, ctlVars, State, ComponentID, ctxDone,
                   attempts, dials, runErr, result, workers, upd, updates, called>>

-----------------------------------------------------------------------------
(* SendStateUpdate *)

\* The send of SendStateUpdate, on Run's goroutine.
SendUpdate(state, next) ==
    /\ Send(Envelope("STATE_UPDATE", 0, state))
    /\ store' = state
    /\ then' = next
    /\ pc' = "store"
    /\ UNCHANGED <<cur, goVars>>

\* c.State.Store(state)
MutStoreState ==
    /\ pc = "store"
    /\ pc' = then
    /\ UNCHANGED <<linkVars, srvVars, ctlVars, goVars>>
StoreState ==
    /\ pc = "store"
    /\ State' = store
    /\ pc' = then
    /\ UNCHANGED <<linkVars, srvVars, ctlVars, ComponentID, ctxDone, attempts, delay,
                   dials, runErr, result, workers, upd, updates, called>>

\* A goroutine started by OnRunning calls SendStateUpdate.  c.conn is whatever
\* connection the component has at that moment.
HandlerSends ==
    /\ workers > 0
    /\ upd = "none"
    /\ updates < MaxUpdates
    /\ updates' = updates + 1
    /\ \E state \in {"WAITING", "RUNNING"} :
        /\ Send(Envelope("STATE_UPDATE", 0, state))
        /\ upd' = state
    /\ UNCHANGED <<pc, ctlVars, State, ComponentID, ctxDone, attempts, delay, dials,
                   runErr, result, workers, called>>

HandlerStores ==
    /\ upd # "none"
    /\ State' = upd
    /\ upd' = "none"
    /\ UNCHANGED <<linkVars, srvVars, pc, ctlVars, ComponentID, ctxDone, attempts, delay,
                   dials, runErr, result, workers, updates, called>>

-----------------------------------------------------------------------------
(* register *)

\* An error of send in register ends runOnce.
RegisterSendError ==
    /\ pc \in {"register", "send_initializing", "send_ready"}
    /\ link = "eof"
    /\ LeaveRunOnce("other")
    /\ UNCHANGED <<ctlVars, State, ComponentID, ctxDone, attempts, delay, dials, result,
                   workers, upd, updates, called>>

\* So does an error of recv.
RegisterRecvError ==
    /\ pc \in AwaitHandshake
    /\ \/ inbox = <<>> /\ link = "eof"
       \/ inbox # <<>> /\ Head(inbox).type = Undecodable
    /\ LeaveRunOnce("other")
    /\ UNCHANGED <<ctlVars, State, ComponentID, ctxDone, attempts, delay, dials, result,
                   workers, upd, updates, called>>

\* REGISTER always carries the configured id, never the one assigned later.
RegisterId == CfgId

SendRegister ==
    /\ pc = "register"
    /\ Send(Envelope("REGISTER", 0, RegisterId))
    /\ pc' = "await_registered"
    /\ UNCHANGED <<ctlVars, goVars>>

\* fmt.Sprintf("%v", payload["component_id"]): a missing key becomes "<nil>".
Sprintf(arg) == IF arg = NoKey THEN "<nil>" ELSE arg

RecvRegistered ==
    /\ pc = "await_registered"
    /\ inbox # <<>>
    /\ LET frame == Head(inbox) IN
       /\ frame.type # Undecodable
       /\ \/ /\ frame.command # "REGISTERED"
             /\ LeaveRunOnce("registration")
             /\ UNCHANGED <<cur, State, ComponentID>>
          \/ /\ frame.command = "REGISTERED"
             /\ Recv(frame)
             /\ ComponentID' = Sprintf(frame.arg)
             /\ State' = "REGISTERED"
             /\ pc' = "send_initializing"
             /\ UNCHANGED runErr
    /\ UNCHANGED <<store, then, ctxDone, attempts, delay, dials, result, workers, upd,
                   updates, called>>

SendInitializing ==
    /\ pc = "send_initializing"
    /\ SendUpdate("INITIALIZING", "await_ack_initializing")

SendReady ==
    /\ pc = "send_ready"
    /\ SendUpdate("READY", "await_ack_ready")

\* The frame that arrives where an ACK is expected is not looked at.
MutRecvHandshakeAck ==
    /\ pc \in {"await_ack_initializing", "await_ack_ready"}
    /\ inbox # <<>>
    /\ Recv(Head(inbox))
    /\ pc' = "message_loop"
    /\ UNCHANGED <<store, then, goVars>>
RecvHandshakeAck ==
    /\ pc \in {"await_ack_initializing", "await_ack_ready"}
    /\ inbox # <<>>
    /\ Recv(Head(inbox))
    /\ pc' = IF pc = "await_ack_initializing" THEN "send_ready" ELSE "message_loop"
    /\ UNCHANGED <<store, then, goVars>>

-----------------------------------------------------------------------------
(* messageLoop *)

\* ctx.Err() is looked at before a read, never during one: `pc' is "read" once
\* the goroutine is inside recv.
LoopCancelled ==
    /\ pc = "message_loop"
    /\ ctxDone
    /\ pc' = "graceful_shutdown"
    /\ runErr' = "canceled"
    /\ UNCHANGED <<linkVars, srvVars, ctlVars, State, ComponentID, ctxDone, attempts,
                   delay, dials, result, workers, upd, updates, called>>

LoopReads ==
    /\ pc = "message_loop"
    /\ ~ctxDone
    /\ pc' = "read"
    /\ UNCHANGED <<linkVars, srvVars, ctlVars, goVars>>

\* recv fails, or nothing arrived for 35 seconds.
MutLoopRecvError ==
    /\ pc = "read"
    /\ \/ inbox = <<>> /\ link = "eof"
       \/ inbox # <<>> /\ Head(inbox).type = Undecodable
    /\ LeaveRunOnce("other")
    /\ UNCHANGED <<ctlVars, State, ComponentID, ctxDone, attempts, delay, dials, result,
                   workers, upd, updates, called>>
LoopRecvError ==
    /\ pc = "read"
    /\ \/ inbox = <<>>
       \/ inbox # <<>> /\ Head(inbox).type = Undecodable
    /\ LeaveRunOnce("other")
    /\ UNCHANGED <<ctlVars, State, ComponentID, ctxDone, attempts, delay, dials, result,
                   workers, upd, updates, called>>

HandlePing(frame) ==
    /\ frame.type = "HEARTBEAT"
    /\ frame.command = "PING"
    /\ called' = called \cup {"OnPing"}
    /\ pc' = "pong"

\* handleConfig up to the outcome of OnConfigure.
HandleConfigure(frame) ==
    /\ frame.type = "CONFIG"
    /\ frame.command = "CONFIGURE"
    /\ called' = called \cup {"OnConfigure"}
    /\ pc' \in {"ack_configure", "configure_failed"}

HandleShutdown(frame) ==
    /\ frame.type = "LIFECYCLE"
    /\ frame.command = "SHUTDOWN"
    /\ pc' = "ack_shutdown"
    /\ UNCHANGED called

HandleRecoverable(frame) ==
    /\ frame.type = "ERROR"
    /\ frame.arg = "recoverable"
    /\ called' = called \cup {"OnError"}
    /\ pc' = "message_loop"

\* Everything else is logged: REBORN is an unknown lifecycle command here.
HandleIgnored(frame) ==
    /\ \/ frame.type \in {"CONTROL", "DATA"}
       \/ frame.type = "HEARTBEAT" /\ frame.command # "PING"
       \/ frame.type = "CONFIG" /\ frame.command # "CONFIGURE"
       \/ frame.type = "LIFECYCLE" /\ frame.command # "SHUTDOWN"
    /\ pc' = "message_loop"
    /\ UNCHANGED called

LoopRecv ==
    /\ pc = "read"
    /\ inbox # <<>>
    /\ Recv(Head(inbox))
    /\ \/ HandlePing(Head(inbox))
       \/ HandleConfigure(Head(inbox))
       \/ HandleShutdown(Head(inbox))
       \/ HandleRecoverable(Head(inbox))
       \/ HandleIgnored(Head(inbox))
    /\ UNCHANGED <<store, then, State, ComponentID, ctxDone, attempts, delay, dials,
                   runErr, result, workers, upd, updates>>

\* A non-recoverable error: OnError, then runOnce returns an error.
LoopRecvFatal ==
    /\ pc = "read"
    /\ inbox # <<>>
    /\ Head(inbox).type = "ERROR"
    /\ Head(inbox).arg # "recoverable"
    /\ LeaveRunOnce("fatal")
    /\ called' = called \cup {"OnError"}
    /\ UNCHANGED <<ctlVars, State, ComponentID, ctxDone, attempts, delay, dials, result,
                   workers, upd, updates>>

-----------------------------------------------------------------------------
(* The rest of each handler *)

\* A send whose error is ignored or only logged; the handler goes on to `next'.
TrySend(frame, next) ==
    /\ Send(frame) \/ SendFails
    /\ pc' = next
    /\ UNCHANGED <<ctlVars, goVars>>

ReplyCorr == cur.id

SendPong ==
    /\ pc = "pong"
    /\ TrySend(Envelope("PONG", ReplyCorr, State), "message_loop")

ConfigureFailed ==
    /\ pc = "configure_failed"
    /\ TrySend(Envelope("RUNTIME_ERROR", 0, "recoverable"), "message_loop")

AckConfigure ==
    /\ pc = "ack_configure"
    /\ TrySend(Envelope("ACK", ReplyCorr, NoId), "send_configured")

\* A failed STATE_UPDATE makes handleConfig return to the loop.
ConfigSendError ==
    /\ pc \in {"send_configured", "send_running"}
    /\ SendFails
    /\ pc' = "message_loop"
    /\ UNCHANGED <<ctlVars, goVars>>

SendConfigured ==
    /\ pc = "send_configured"
    /\ SendUpdate("CONFIGURED", "await_ack_configured")

SendRunning ==
    /\ pc = "send_running"
    /\ SendUpdate("RUNNING", "await_ack_running")

RecvAckConfigured ==
    /\ pc = "await_ack_configured"
    /\ inbox # <<>>
    /\ Recv(Head(inbox))
    /\ pc' = "send_running"
    /\ UNCHANGED <<store, then, goVars>>

\* After the ACK of RUNNING the OnRunning goroutine starts.
RecvAckRunning ==
    /\ pc = "await_ack_running"
    /\ inbox # <<>>
    /\ Recv(Head(inbox))
    /\ pc' = "message_loop"
    /\ workers' = workers + 1
    /\ called' = called \cup {"OnRunning"}
    /\ UNCHANGED <<store, then, State, ComponentID, ctxDone, attempts, delay, dials,
                   runErr, result, upd, updates>>

\* recv fails in handleConfig, or the loop's deadline passes: back to the loop.
ConfigRecvError ==
    /\ pc \in AwaitConfig
    /\ \/ RecvFails
       \/ inbox = <<>> /\ UNCHANGED inbox
    /\ pc' = "message_loop"
    /\ UNCHANGED <<link, sent, srvVars, ctlVars, goVars>>

\* SHUTDOWN by aegisd: runOnce returns nil in the end.
AckShutdown ==
    /\ pc = "ack_shutdown"
    /\ Send(Envelope("ACK", ReplyCorr, NoId)) \/ SendFails
    /\ pc' = "graceful_shutdown"
    /\ runErr' = "nil"
    /\ UNCHANGED <<ctlVars, State, ComponentID, ctxDone, attempts, delay, dials, result,
                   workers, upd, updates, called>>

-----------------------------------------------------------------------------
(* gracefulShutdown, and runOnce's deferred closeConn *)

CallOnShutdown ==
    /\ pc = "graceful_shutdown"
    /\ called' = called \cup {"OnShutdown"}
    /\ pc' = "send_shutdown"
    /\ UNCHANGED <<linkVars, srvVars, ctlVars, State, ComponentID, ctxDone, attempts,
                   delay, dials, runErr, result, workers, upd, updates>>

MutSendShutdown ==
    /\ pc = "send_shutdown"
    /\ pc' = "store_shutdown"
    /\ UNCHANGED <<linkVars, srvVars, ctlVars, goVars>>
SendShutdown ==
    /\ pc = "send_shutdown"
    /\ TrySend(Envelope("SHUTDOWN", 0, NoId), "store_shutdown")

StoreShutdown ==
    /\ pc = "store_shutdown"
    /\ State' = "SHUTDOWN"
    /\ pc' = "close"
    /\ UNCHANGED <<linkVars, srvVars, ctlVars, ComponentID, ctxDone, attempts, delay,
                   dials, runErr, result, workers, upd, updates, called>>

CloseConn ==
    /\ pc = "close"
    /\ LeaveRunOnce(runErr)
    /\ UNCHANGED <<ctlVars, State, ComponentID, ctxDone, attempts, delay, dials, result,
                   workers, upd, updates, called>>

-----------------------------------------------------------------------------
\* The caller of Run cancels its context.
Cancel ==
    /\ Cancels
    /\ ~ctxDone
    /\ ctxDone' = TRUE
    /\ UNCHANGED <<linkVars, srvVars, pc, ctlVars, State, ComponentID, attempts, delay,
                   dials, runErr, result, workers, upd, updates, called>>

RunStep ==
    \/ RunOnce \/ RunCancelled \/ AfterRunOnce \/ WakeUp \/ StoreState
    \/ SendRegister \/ RecvRegistered \/ SendInitializing \/ SendReady
    \/ RecvHandshakeAck \/ RegisterSendError \/ RegisterRecvError
    \/ LoopCancelled \/ LoopReads \/ LoopRecv \/ LoopRecvFatal \/ LoopRecvError
    \/ SendPong \/ ConfigureFailed \/ AckConfigure \/ SendConfigured
    \/ RecvAckConfigured \/ SendRunning \/ RecvAckRunning
    \/ ConfigSendError \/ ConfigRecvError \/ AckShutdown
    \/ CallOnShutdown \/ SendShutdown \/ StoreShutdown \/ CloseConn

HandlerStep == HandlerSends \/ HandlerStores

ServerStep == SrvNext /\ UNCHANGED <<pc, ctlVars, goVars>>

Next == RunStep \/ HandlerStep \/ Cancel \/ ServerStep

Spec == Init /\ [][Next]_vars

\* The Go scheduler runs every goroutine that can proceed; nothing is assumed of
\* aegisd or of the caller.
FairSpec == Spec /\ WF_vars(RunStep) /\ WF_vars(HandlerStep)
=============================================================================
