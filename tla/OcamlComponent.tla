--------------------------- MODULE OcamlComponent ---------------------------
(***************************************************************************)
(* The OCaml SDK's client (aegis-ocaml/lib/client.ml): run, run_once,      *)
(* do_register, message_loop and the handlers, against aegisd, with the    *)
(* worker threads that on_running executes in and the signal handler of    *)
(* the example.                                                            *)
(*                                                                         *)
(* No receive has a timeout.  Every exception but Registration_error leads *)
(* to a reconnect; Fun.protect closes the socket.  A write to a connection *)
(* that aegisd closed raises SIGPIPE, which the OCaml runtime does not     *)
(* handle: the process dies.                                               *)
(***************************************************************************)
EXTENDS ConnectionProperties, Backoff

CONSTANTS
    Reconnect,             \* cfg.reconnect
    ReconnectDelay,        \* cfg.reconnect_delay_s
    MaxReconnectDelay,     \* cfg.max_reconnect_delay_s
    MaxReconnectAttempts,  \* cfg.max_reconnect_attempts; 0 = unlimited
    MaxDials               \* bound on the calls of run_once of a behaviour

ASSUME OcamlAssumption ==
    /\ Reconnect \in BOOLEAN
    /\ ReconnectDelay \in Nat
    /\ MaxReconnectDelay \in Nat
    /\ MaxReconnectAttempts \in Nat
    /\ MaxDials \in Nat

VARIABLES
    pc,         \* where run is
    cur,        \* the envelope being handled
    state,      \* t.state
    attempts,   \* run's local `attempts'
    delay,      \* run's local `delay'
    dials,      \* calls of run_once
    result,     \* how run ended, "none" while it runs
    stop_flag,  \* the bool ref in t.stop_flag; refs are numbered from 0
    raised,     \* the refs that are true
    holds,      \* holds[w]: the ref that worker thread w was given
    alive       \* worker threads that are in on_running

runVars    == <<attempts, delay, dials, result>>
threadVars == <<stop_flag, raised, holds, alive>>
vars == <<linkVars, srvVars, pc, cur, state, runVars, threadVars>>

NoFrame == FromServer("CONTROL", "ACK", 0, NoId)

Sending == {"register", "pong", "ack_configure", "announce_configured",
            "announce_running", "ack_shutdown", "graceful_shutdown"}

Receiving == {"await_registered", "message_loop"}

Init ==
    /\ LinkInit
    /\ pc = "connect"
    /\ cur = NoFrame
    /\ state = "INIT"
    /\ attempts = 0
    /\ delay = ReconnectDelay
    /\ dials = 0
    /\ result = "none"
    /\ stop_flag = 0
    /\ raised = {}
    /\ holds = <<>>
    /\ alive = {}

-----------------------------------------------------------------------------
(* run and the socket *)

\* An exception leaves run_once: the socket is closed.
Raise ==
    /\ CloseLink
    /\ pc' = "failed"
    /\ UNCHANGED <<cur, state, runVars, threadVars>>

Finish(r) ==
    /\ pc' = "done"
    /\ result' = r

\* Unix.connect succeeds or raises.
Connect ==
    /\ pc = "connect"
    /\ dials < MaxDials
    /\ dials' = dials + 1
    /\ \/ OpenLink /\ pc' = "register"
       \/ UNCHANGED <<linkVars, srvVars>> /\ pc' = "failed"
    /\ UNCHANGED <<cur, state, attempts, delay, result, threadVars>>

MutAttemptsExhausted(n) == MaxReconnectAttempts > 0 /\ n > MaxReconnectAttempts
AttemptsExhausted(n) == MaxReconnectAttempts > 0 /\ n >= MaxReconnectAttempts

Reconnecting ==
    /\ pc = "failed"
    /\ IF ~Reconnect
       THEN Finish("reconnect_disabled") /\ UNCHANGED attempts
       ELSE /\ attempts' = attempts + 1
            /\ IF AttemptsExhausted(attempts + 1)
               THEN Finish("max_reconnect_attempts")
               ELSE pc' = "sleep" /\ UNCHANGED result
    /\ UNCHANGED <<linkVars, srvVars, cur, state, delay, dials, threadVars>>

\* Float.min (!delay *. 2.0) t.cfg.max_reconnect_delay_s
NextDelay(d) == IF 2 * d < MaxReconnectDelay THEN 2 * d ELSE MaxReconnectDelay

WakeUp ==
    /\ pc = "sleep"
    /\ pc' = "connect"
    /\ delay' = NextDelay(delay)
    /\ UNCHANGED <<linkVars, srvVars, cur, state, attempts, dials, result, threadVars>>

\* send_line with the connection up.
Send(frame, next) ==
    /\ link = "up"
    /\ sent' = Append(sent, frame)
    /\ pc' = next
    /\ UNCHANGED <<link, inbox, srvVars>>

\* send_line on a connection that aegisd closed: SIGPIPE.
Killed ==
    /\ pc \in Sending
    /\ link = "eof"
    /\ CloseLink
    /\ Finish("killed")
    /\ alive' = {}
    /\ UNCHANGED <<cur, state, attempts, delay, dials, stop_flag, raised, holds>>

\* Lines that envelope_of_json rejects.  command has no REBORN.
Rejected(frame) == frame.type = Undecodable \/ frame.command = "REBORN"

\* recv_line raises: End_of_file, or the line does not decode.
MutRecvFails ==
    /\ pc \in Receiving
    /\ inbox # <<>>
    /\ Rejected(Head(inbox))
    /\ Raise
RecvFails ==
    /\ pc \in Receiving
    /\ \/ inbox = <<>> /\ link = "eof"
       \/ inbox # <<>> /\ Rejected(Head(inbox))
    /\ Raise

-----------------------------------------------------------------------------
(* do_register *)

SendRegister ==
    /\ pc = "register"
    /\ Send(Envelope("REGISTER", 0, NoId), "await_registered")
    /\ UNCHANGED <<cur, state, runVars, threadVars>>

\* Any other answer raises Registration_error, which ends run.
RegistrationError ==
    /\ pc = "await_registered"
    /\ inbox # <<>>
    /\ ~Rejected(Head(inbox))
    /\ Head(inbox).command # "REGISTERED"
    /\ CloseLink
    /\ Finish("registration")
    /\ UNCHANGED <<cur, state, attempts, delay, dials, threadVars>>

\* A component_id that is missing or no string raises Type_error.
TypeError ==
    /\ pc = "await_registered"
    /\ inbox # <<>>
    /\ Head(inbox).command = "REGISTERED"
    /\ Head(inbox).arg \in {NoKey, NotString}
    /\ Raise

MutRegistered ==
    /\ pc = "await_registered"
    /\ inbox # <<>>
    /\ Head(inbox).command = "REGISTERED"
    /\ Head(inbox).arg \notin {NoKey, NotString}
    /\ inbox' = Tail(inbox)
    /\ pc' = "message_loop"
    /\ UNCHANGED <<link, sent, srvVars, cur, state, runVars, threadVars>>
Registered ==
    /\ pc = "await_registered"
    /\ inbox # <<>>
    /\ Head(inbox).command = "REGISTERED"
    /\ Head(inbox).arg \notin {NoKey, NotString}
    /\ inbox' = Tail(inbox)
    /\ state' = "REGISTERED"
    /\ pc' = "message_loop"
    /\ UNCHANGED <<link, sent, srvVars, cur, runVars, threadVars>>

-----------------------------------------------------------------------------
(* message_loop *)

HandlePing(frame) ==
    /\ frame.type = "HEARTBEAT"
    /\ frame.command = "PING"
    /\ cur' = frame
    /\ pc' = "pong"

HandleConfigure(frame) ==
    /\ frame.type = "CONFIG"
    /\ frame.command = "CONFIGURE"
    /\ cur' = frame
    /\ pc' = "ack_configure"

HandleShutdown(frame) ==
    /\ frame.type = "LIFECYCLE"
    /\ frame.command = "SHUTDOWN"
    /\ cur' = frame
    /\ pc' = "ack_shutdown"

\* Everything else is logged; on_error is called for a recoverable error.
HandleIgnored(frame) ==
    /\ \/ frame.type \in {"CONTROL", "DATA"}
       \/ frame.type = "HEARTBEAT" /\ frame.command # "PING"
       \/ frame.type = "CONFIG" /\ frame.command # "CONFIGURE"
       \/ frame.type = "LIFECYCLE" /\ frame.command # "SHUTDOWN"
       \/ frame.type = "ERROR" /\ frame.arg = "recoverable"
    /\ UNCHANGED <<cur, pc>>

RecvMessage ==
    /\ pc = "message_loop"
    /\ inbox # <<>>
    /\ ~Rejected(Head(inbox))
    /\ inbox' = Tail(inbox)
    /\ \/ HandlePing(Head(inbox))
       \/ HandleConfigure(Head(inbox))
       \/ HandleShutdown(Head(inbox))
       \/ HandleIgnored(Head(inbox))
    /\ UNCHANGED <<link, sent, srvVars, state, runVars, threadVars>>

\* on_configure raises, or the error is not recoverable (failwith).
HandlerRaises ==
    /\ pc = "message_loop"
    /\ inbox # <<>>
    /\ \/ Head(inbox).command = "CONFIGURE"
       \/ Head(inbox).type = "ERROR" /\ Head(inbox).arg # "recoverable"
    /\ Raise

-----------------------------------------------------------------------------
(* The rest of each handler *)

ReplyCorr == cur.id

Reply(at, command, arg, next) ==
    /\ pc = at
    /\ Send(Envelope(command, ReplyCorr, arg), next)
    /\ cur' = NoFrame
    /\ UNCHANGED <<state, runVars, threadVars>>

SendReply ==
    \/ Reply("pong", "PONG", state, "message_loop")
    \/ Reply("ack_configure", "ACK", NoId, "announce_configured")
    \/ Reply("ack_shutdown", "ACK", NoId, "graceful_shutdown")

SendStateUpdate(at, new_state, next) ==
    /\ pc = at
    /\ Send(Envelope("STATE_UPDATE", 0, new_state), next)
    /\ state' = new_state
    /\ UNCHANGED <<cur, runVars, threadVars>>

Announce ==
    \/ SendStateUpdate("announce_configured", "CONFIGURED", "announce_running")
    \/ SendStateUpdate("announce_running", "RUNNING", "spawn")

\* A new ref replaces t.stop_flag, and a thread is created that holds it.
MutSpawn ==
    /\ pc = "spawn"
    /\ stop_flag' = stop_flag + 1
    /\ holds' = Append(holds, stop_flag)
    /\ alive' = alive \cup {Len(holds) + 1}
    /\ pc' = "message_loop"
    /\ UNCHANGED <<linkVars, srvVars, cur, state, runVars, raised>>
Spawn ==
    /\ pc = "spawn"
    /\ stop_flag' = stop_flag + 1
    /\ holds' = Append(holds, stop_flag')
    /\ alive' = alive \cup {Len(holds) + 1}
    /\ pc' = "message_loop"
    /\ UNCHANGED <<linkVars, srvVars, cur, state, runVars, raised>>

\* graceful_shutdown: the flag, on_shutdown, SHUTDOWN, the state; then run ends.
MutGracefulShutdown ==
    /\ pc = "graceful_shutdown"
    /\ link = "up"
    /\ link' = "down"
    /\ inbox' = <<>>
    /\ state' = "SHUTDOWN"
    /\ raised' = raised \cup {stop_flag}
    /\ Finish("ok")
    /\ UNCHANGED <<sent, srvVars, cur, attempts, delay, dials, stop_flag, holds, alive>>
GracefulShutdown ==
    /\ pc = "graceful_shutdown"
    /\ link = "up"
    /\ sent' = Append(sent, Envelope("SHUTDOWN", 0, NoId))
    /\ link' = "down"
    /\ inbox' = <<>>
    /\ state' = "SHUTDOWN"
    /\ raised' = raised \cup {stop_flag}
    /\ Finish("ok")
    /\ UNCHANGED <<srvVars, cur, attempts, delay, dials, stop_flag, holds, alive>>

-----------------------------------------------------------------------------
(* The other threads *)

\* on_running notices that its ref is true.
WorkerStops ==
    /\ \E w \in alive : holds[w] \in raised /\ alive' = alive \ {w}
    /\ UNCHANGED <<linkVars, srvVars, pc, cur, state, runVars, stop_flag, raised, holds>>

\* The example's handler of SIGINT and SIGTERM: the current ref, and nothing else.
Interrupt ==
    /\ pc # "done"
    /\ raised' = raised \cup {stop_flag}
    /\ UNCHANGED <<linkVars, srvVars, pc, cur, state, runVars, stop_flag, holds, alive>>

RunStep ==
    \/ Connect \/ Reconnecting \/ WakeUp \/ Killed \/ RecvFails
    \/ SendRegister \/ RegistrationError \/ TypeError \/ Registered
    \/ RecvMessage \/ HandlerRaises \/ SendReply \/ Announce \/ Spawn
    \/ GracefulShutdown

ServerStep == SrvNext /\ UNCHANGED <<pc, cur, state, runVars, threadVars>>

Next == RunStep \/ WorkerStops \/ Interrupt \/ ServerStep

Spec == Init /\ [][Next]_vars

\* The OCaml runtime runs every thread that can proceed, and an on_running whose ref
\* is true returns.  Nothing is assumed of aegisd or of the signals.
FairSpec == Spec /\ WF_vars(RunStep) /\ WF_vars(WorkerStops)

-----------------------------------------------------------------------------
(* Properties *)

\* Every variable has its type, and no ref and no worker thread has two numbers.
TypeOK ==
    /\ LinkTypeOK
    /\ pc \in Sending \cup Receiving \cup {"connect", "failed", "sleep", "spawn", "done"}
    /\ cur \in ServerFrames
    /\ state \in ComponentStates
    /\ attempts \in Nat
    /\ delay \in Nat
    /\ dials \in 0 .. MaxDials
    /\ result \in {"none", "ok", "registration", "reconnect_disabled",
                   "max_reconnect_attempts", "killed"}
    /\ stop_flag \in Nat
    /\ raised \subseteq 0 .. stop_flag
    /\ holds \in Seq(1 .. stop_flag)
    /\ alive \subseteq DOMAIN holds

\* On a connection aegisd sees replies that match its requests, and PONGs that report
\* the state of this connection, whatever state earlier ones left behind.
Conversation == TypeOK /\ RepliesMatch /\ PongConsistent

\* handle_lifecycle and graceful_shutdown: run ends cleanly only after aegisd's
\* SHUTDOWN was acknowledged and answered by SHUTDOWN, the last two frames.
CleanExit ==
    result = "ok" =>
        /\ Len(sent) > 1
        /\ sent[Len(sent)].command = "SHUTDOWN"
        /\ asked[sent[Len(sent) - 1].corr] = "SHUTDOWN"

\* run: without reconnection it connects once; with a limit of n attempts it connects
\* at most n times, and gives up for that reason only after exactly n times.  The n-th
\* sleep lasts reconnect_delay_s * 2^(n-1), capped from the second one on: no session,
\* however long it was, makes the delay start over.
ReconnectBudget ==
    /\ ~Reconnect => dials <= 1
    /\ MaxReconnectAttempts > 0 => dials <= MaxReconnectAttempts
    /\ result = "max_reconnect_attempts" => dials = MaxReconnectAttempts
    /\ pc = "sleep" => delay = DelayAfter(dials - 1, ReconnectDelay, MaxReconnectDelay)

Phase ==
    IF pc = "done" THEN "stopped"
    ELSE IF link = "down" THEN "offline"
    ELSE IF pc \in {"register", "await_registered"} THEN "registering"
    ELSE state

Contract == INSTANCE LifecycleContract WITH phase <- Phase

\* Whatever is read, raised and reconnected, the client goes through the states of the
\* short lifecycle in their order on every connection, and ends for good.
ContractSpec == Contract!ShortSpec

\* handle_config and graceful_shutdown: whatever was configured and reconnected
\* before, after a clean exit the thread started last leaves on_running.  (Threads
\* started earlier hold refs that t.stop_flag no longer points to.)
ShutdownStopsWorker == result = "ok" ~> Len(holds) \notin alive

\* recv_line: in the end run has ended, or it waits for a line on a connection that
\* aegisd holds open and says nothing on.
OnlySilenceHangs ==
    <>[](pc = "done" \/ (pc \in Receiving /\ link = "up" /\ inbox = <<>>))
=============================================================================
