---------------------------- MODULE CppComponent ----------------------------
(***************************************************************************)
(* Client of the C++ SDK (aegis-cpp/src/client.cpp): run(), run_once(),    *)
(* do_register(), message_loop() and the handlers, against aegisd.         *)
(*                                                                         *)
(* Three kinds of thread act: the one in run() (`pc'), the jthreads that   *)
(* execute on_running, and whoever calls stop().  Reading nothing          *)
(* distinguishes an end of file from the 35 seconds of SO_RCVTIMEO.  A     *)
(* write to a connection that aegisd closed raises SIGPIPE, which neither  *)
(* the SDK nor the example handles: the process dies.                      *)
(***************************************************************************)
EXTENDS ConnectionProperties, Backoff

CONSTANTS
    Reconnect,             \* cfg_.reconnect
    ReconnectDelay,        \* cfg_.reconnect_delay_s
    MaxReconnectDelay,     \* cfg_.max_reconnect_delay_s
    MaxReconnectAttempts,  \* cfg_.max_reconnect_attempts; 0 = unlimited
    MaxDials               \* bound on the calls of run_once() of a behaviour

ASSUME CppAssumption ==
    /\ Reconnect \in BOOLEAN
    /\ ReconnectDelay \in Nat
    /\ MaxReconnectDelay \in Nat
    /\ MaxReconnectAttempts \in Nat
    /\ MaxDials \in Nat

VARIABLES
    pc,         \* where run() is; "returned" and later, where its caller is
    cur,        \* the envelope being handled
    state_,     \* Client::state_
    running_,   \* Client::running_
    attempts,   \* run()'s local `attempts'
    delay,      \* run()'s local `delay'
    dials,      \* calls of run_once()
    result,     \* how run() ended, "none" while it runs
    spawned,    \* jthreads created; the last one is in worker_thread_
    alive,      \* jthreads that are in on_running
    told        \* jthreads whose own stop_token was requested to stop

loopVars   == <<state_, running_>>
runVars    == <<attempts, delay, dials, result>>
threadVars == <<spawned, alive, told>>
vars == <<linkVars, srvVars, pc, cur, loopVars, runVars, threadVars>>

NoFrame == FromServer("CONTROL", "ACK", 0, NoId)

Sending == {"register", "pong", "ack_configure", "announce_configured",
            "announce_running", "ack_shutdown", "leave"}

Init ==
    /\ LinkInit
    /\ pc = "connect"
    /\ cur = NoFrame
    /\ state_ = "INIT"
    /\ running_ = FALSE
    /\ attempts = 0
    /\ delay = ReconnectDelay
    /\ dials = 0
    /\ result = "none"
    /\ spawned = 0
    /\ alive = {}
    /\ told = {}

-----------------------------------------------------------------------------
(* run() and the socket *)

\* A runtime_error leaves run_once(): run() catches it.  fd_ stays open.
Throw ==
    /\ pc' = "failed"
    /\ UNCHANGED <<linkVars, srvVars, cur, loopVars, runVars, threadVars>>

\* run() returns, or an exception that it does not catch leaves it.
Return(r) ==
    /\ pc' = "returned"
    /\ result' = r

ThrowOther ==
    /\ Return("exception")
    /\ UNCHANGED <<linkVars, srvVars, cur, loopVars, attempts, delay, dials, threadVars>>

\* socket() and connect().  What the last connection left in fd_ is forgotten.
Connect ==
    /\ pc = "connect"
    /\ dials < MaxDials
    /\ dials' = dials + 1
    /\ \/ /\ OpenLink
          /\ pc' = "register"
       \/ /\ pc' = "failed"
          /\ UNCHANGED <<linkVars, srvVars>>
    /\ UNCHANGED <<cur, state_, running_, attempts, delay, result, threadVars>>

MutAttemptsExhausted(n) == MaxReconnectAttempts > 0 /\ n > MaxReconnectAttempts
AttemptsExhausted(n) == MaxReconnectAttempts > 0 /\ n >= MaxReconnectAttempts

Reconnecting ==
    /\ pc = "failed"
    /\ IF ~Reconnect
       THEN Return("reconnect_disabled") /\ UNCHANGED attempts
       ELSE /\ attempts' = attempts + 1
            /\ IF AttemptsExhausted(attempts + 1)
               THEN Return("max_reconnect_attempts")
               ELSE pc' = "sleep" /\ UNCHANGED result
    /\ UNCHANGED <<linkVars, srvVars, cur, loopVars, delay, dials, threadVars>>

\* std::min(delay * 2.0f, max_reconnect_delay_s)
NextDelay(d) == IF 2 * d < MaxReconnectDelay THEN 2 * d ELSE MaxReconnectDelay

WakeUp ==
    /\ pc = "sleep"
    /\ pc' = "connect"
    /\ delay' = NextDelay(delay)
    /\ UNCHANGED <<linkVars, srvVars, cur, loopVars, attempts, dials, result, threadVars>>

\* send_envelope() with the connection up.
Write(frame, next) ==
    /\ link = "up"
    /\ sent' = Append(sent, frame)
    /\ pc' = next
    /\ UNCHANGED <<link, inbox, srvVars>>

\* send_envelope() on a connection that aegisd closed: SIGPIPE.
Killed ==
    /\ pc \in Sending
    /\ link = "eof"
    /\ CloseLink
    /\ pc' = "gone"
    /\ result' = "killed"
    /\ alive' = {}
    /\ UNCHANGED <<cur, loopVars, attempts, delay, dials, spawned, told>>

\* Lines that from_json() rejects.  Command has no REBORN.
Rejected(frame) == frame.type = Undecodable \/ frame.command = "REBORN"

-----------------------------------------------------------------------------
(* do_register() *)

SendRegister ==
    /\ pc = "register"
    /\ Write(Envelope("REGISTER", 0, NoId), "await_registered")
    /\ UNCHANGED <<cur, loopVars, runVars, threadVars>>

\* End of file, or an unknown variant: a runtime_error.  There is no timeout yet.
RegisterThrows ==
    /\ pc = "await_registered"
    /\ \/ inbox = <<>> /\ link = "eof"
       \/ inbox # <<>> /\ Rejected(Head(inbox))
    /\ Throw

\* A line that is no JSON, or a component_id that is not a string: nlohmann's
\* exceptions are not runtime_errors.
RegisterThrowsOther ==
    /\ pc = "await_registered"
    /\ inbox # <<>>
    /\ \/ Head(inbox).type = Undecodable
       \/ Head(inbox).command = "REGISTERED" /\ Head(inbox).arg = NotString
    /\ ThrowOther

\* REGISTRATION_FAILED is thrown for any other answer, and passed on by run().
RegistrationFailed ==
    /\ pc = "await_registered"
    /\ inbox # <<>>
    /\ ~Rejected(Head(inbox))
    /\ Head(inbox).command # "REGISTERED"
    /\ Return("registration")
    /\ UNCHANGED <<linkVars, srvVars, cur, loopVars, attempts, delay, dials, threadVars>>

MutRegistered ==
    /\ pc = "await_registered"
    /\ inbox # <<>>
    /\ Head(inbox).command = "REGISTERED"
    /\ Head(inbox).arg # NotString
    /\ inbox' = Tail(inbox)
    /\ running_' = TRUE
    /\ pc' = "message_loop"
    /\ UNCHANGED <<link, sent, srvVars, cur, state_, runVars, threadVars>>
Registered ==
    /\ pc = "await_registered"
    /\ inbox # <<>>
    /\ Head(inbox).command = "REGISTERED"
    /\ Head(inbox).arg # NotString
    /\ inbox' = Tail(inbox)
    /\ state_' = "REGISTERED"
    /\ running_' = TRUE
    /\ pc' = "message_loop"
    /\ UNCHANGED <<link, sent, srvVars, cur, runVars, threadVars>>

-----------------------------------------------------------------------------
(* message_loop() *)

LoopHead ==
    /\ pc = "message_loop"
    /\ pc' = IF running_ THEN "read" ELSE "graceful_shutdown"
    /\ UNCHANGED <<linkVars, srvVars, cur, loopVars, runVars, threadVars>>

\* Whatever goes wrong with a read ends the loop and with it run(): end of file,
\* 35 seconds of silence, a signal, a line that does not parse.
MutReadFails ==
    /\ pc = "read"
    /\ \/ inbox = <<>> /\ link = "eof"
       \/ inbox # <<>> /\ Rejected(Head(inbox))
    /\ pc' = "graceful_shutdown"
    /\ UNCHANGED <<linkVars, srvVars, cur, loopVars, runVars, threadVars>>
ReadFails ==
    /\ pc = "read"
    /\ inbox # <<>> => Rejected(Head(inbox))
    /\ pc' = "graceful_shutdown"
    /\ UNCHANGED <<linkVars, srvVars, cur, loopVars, runVars, threadVars>>

HandlePing(frame) ==
    /\ frame.type = "HEARTBEAT"
    /\ frame.command = "PING"
    /\ cur' = frame
    /\ pc' = "pong"

\* handle_config up to on_configure, which may throw a runtime_error.
HandleConfigure(frame) ==
    /\ frame.type = "CONFIG"
    /\ frame.command = "CONFIGURE"
    /\ cur' = frame
    /\ pc' \in {"ack_configure", "failed"}

HandleShutdown(frame) ==
    /\ frame.type = "LIFECYCLE"
    /\ frame.command = "SHUTDOWN"
    /\ cur' = frame
    /\ pc' = "ack_shutdown"

\* handle_error_msg; a non-recoverable error is thrown.
HandleError(frame) ==
    /\ frame.type = "ERROR"
    /\ pc' = IF frame.arg = "recoverable" THEN "message_loop" ELSE "failed"
    /\ UNCHANGED cur

HandleIgnored(frame) ==
    /\ \/ frame.type \in {"CONTROL", "DATA"}
       \/ frame.type = "HEARTBEAT" /\ frame.command # "PING"
       \/ frame.type = "CONFIG" /\ frame.command # "CONFIGURE"
       \/ frame.type = "LIFECYCLE" /\ frame.command # "SHUTDOWN"
    /\ pc' = "message_loop"
    /\ UNCHANGED cur

ReadMessage ==
    /\ pc = "read"
    /\ inbox # <<>>
    /\ ~Rejected(Head(inbox))
    /\ inbox' = Tail(inbox)
    /\ \/ HandlePing(Head(inbox))
       \/ HandleConfigure(Head(inbox))
       \/ HandleShutdown(Head(inbox))
       \/ HandleError(Head(inbox))
       \/ HandleIgnored(Head(inbox))
    /\ UNCHANGED <<link, sent, srvVars, state_, running_, runVars, threadVars>>

\* on_configure throws anything else.
ConfigureThrowsOther ==
    /\ pc = "read"
    /\ inbox # <<>>
    /\ Head(inbox).type = "CONFIG"
    /\ Head(inbox).command = "CONFIGURE"
    /\ ThrowOther

-----------------------------------------------------------------------------
(* The rest of each handler *)

ReplyCorr == cur.id

\* A PONG or an ACK, with the correlation id of the request.
Reply(at, command, arg, next) ==
    /\ pc = at
    /\ Write(Envelope(command, ReplyCorr, arg), next)
    /\ cur' = NoFrame
    /\ UNCHANGED <<loopVars, runVars, threadVars>>

SendReply ==
    \/ Reply("pong", "PONG", state_, "message_loop")
    \/ Reply("ack_configure", "ACK", NoId, "announce_configured")
    \/ Reply("ack_shutdown", "ACK", NoId, "graceful_shutdown")

SendStateUpdate(at, new_state, next) ==
    /\ pc = at
    /\ Write(Envelope("STATE_UPDATE", 0, new_state), next)
    /\ state_' = new_state
    /\ UNCHANGED <<cur, running_, runVars, threadVars>>

Announce ==
    \/ SendStateUpdate("announce_configured", "CONFIGURED", "announce_running")
    \/ SendStateUpdate("announce_running", "RUNNING", "spawn")

\* The new jthread starts; then the unique_ptr destroys the one it held, which
\* requests it to stop and joins it.
MutSpawn ==
    /\ pc = "spawn"
    /\ spawned' = spawned + 1
    /\ alive' = alive \cup {spawned + 1}
    /\ pc' = "message_loop"
    /\ UNCHANGED <<linkVars, srvVars, cur, loopVars, runVars, told>>
Spawn ==
    /\ pc = "spawn"
    /\ spawned' = spawned + 1
    /\ alive' = alive \cup {spawned + 1}
    /\ IF spawned = 0
       THEN pc' = "message_loop" /\ UNCHANGED told
       ELSE pc' = "join_replaced" /\ told' = told \cup {spawned}
    /\ UNCHANGED <<linkVars, srvVars, cur, loopVars, runVars>>

JoinReplaced ==
    /\ pc = "join_replaced"
    /\ spawned - 1 \notin alive
    /\ pc' = "message_loop"
    /\ UNCHANGED <<linkVars, srvVars, cur, loopVars, runVars, threadVars>>

\* graceful_shutdown(): stop_source_ is requested to stop, which is not the source
\* of the jthread's token; `told' does not change.
MutGracefulShutdown ==
    /\ pc = "graceful_shutdown"
    /\ pc' = "leave"
    /\ UNCHANGED <<linkVars, srvVars, cur, loopVars, runVars, threadVars>>
GracefulShutdown ==
    /\ pc = "graceful_shutdown"
    /\ pc' = IF spawned = 0 THEN "leave" ELSE "join"
    /\ UNCHANGED <<linkVars, srvVars, cur, loopVars, runVars, threadVars>>

Join ==
    /\ pc = "join"
    /\ spawned \notin alive
    /\ pc' = "leave"
    /\ UNCHANGED <<linkVars, srvVars, cur, loopVars, runVars, threadVars>>

\* on_shutdown, SHUTDOWN, the state; run_once() closes fd_ and run() returns.
Leave ==
    /\ pc = "leave"
    /\ link = "up"
    /\ sent' = Append(sent, Envelope("SHUTDOWN", 0, NoId))
    /\ link' = "down"
    /\ inbox' = <<>>
    /\ state_' = "SHUTDOWN"
    /\ Return("ok")
    /\ UNCHANGED <<srvVars, cur, running_, attempts, delay, dials, threadVars>>

\* ~Client(): closes fd_; the jthread's destructor requests it to stop and joins.
Destroy ==
    /\ pc = "returned"
    /\ pc' = "destroying"
    /\ told' = told \cup (1 .. spawned)
    /\ running_' = FALSE
    /\ CloseLink
    /\ UNCHANGED <<cur, state_, runVars, spawned, alive>>

Destroyed ==
    /\ pc = "destroying"
    /\ alive = {}
    /\ pc' = "gone"
    /\ UNCHANGED <<linkVars, srvVars, cur, loopVars, runVars, threadVars>>

-----------------------------------------------------------------------------
(* The other threads *)

\* on_running returns: on request, as in the example, or of its own accord.
WorkerStops ==
    /\ alive \cap told # {}
    /\ \E w \in alive \cap told : alive' = alive \ {w}
    /\ UNCHANGED <<linkVars, srvVars, pc, cur, loopVars, runVars, spawned, told>>

WorkerReturns ==
    /\ \E w \in alive : alive' = alive \ {w}
    /\ UNCHANGED <<linkVars, srvVars, pc, cur, loopVars, runVars, spawned, told>>

\* stop() from a signal handler or another thread.  Before running_ is set to true
\* the request is lost.
Stop ==
    /\ pc \notin {"returned", "destroying", "gone"}
    /\ running_
    /\ running_' = FALSE
    /\ UNCHANGED <<linkVars, srvVars, pc, cur, state_, runVars, threadVars>>

RunStep ==
    \/ Connect \/ Reconnecting \/ WakeUp \/ Killed
    \/ SendRegister \/ RegisterThrows \/ RegisterThrowsOther \/ RegistrationFailed
    \/ Registered \/ LoopHead \/ ReadFails \/ ReadMessage
    \/ ConfigureThrowsOther
    \/ SendReply \/ Announce \/ Spawn \/ JoinReplaced
    \/ GracefulShutdown \/ Join \/ Leave \/ Destroy \/ Destroyed

ServerStep == SrvNext /\ UNCHANGED <<pc, cur, loopVars, runVars, threadVars>>

Next == RunStep \/ WorkerStops \/ WorkerReturns \/ Stop \/ ServerStep

Spec == Init /\ [][Next]_vars

\* The operating system runs every thread that can proceed, and an on_running that
\* was requested to stop returns, as its doc demands.  Nothing is assumed of aegisd,
\* of the caller of stop(), or of an on_running that was not requested to stop.
FairSpec == Spec /\ WF_vars(RunStep) /\ WF_vars(WorkerStops)

-----------------------------------------------------------------------------
(* Properties *)

\* Every variable has its type, and join() is never called on a null worker_thread_.
TypeOK ==
    /\ LinkTypeOK
    /\ pc \in Sending \cup {"connect", "failed", "sleep", "await_registered",
                            "message_loop", "read", "spawn", "join_replaced", "join",
                            "graceful_shutdown", "returned", "destroying", "gone"}
    /\ pc = "join" => spawned > 0
    /\ cur \in ServerFrames
    /\ state_ \in ComponentStates
    /\ running_ \in BOOLEAN
    /\ attempts \in Nat
    /\ delay \in Nat
    /\ dials \in 0 .. MaxDials
    /\ result \in {"none", "ok", "registration", "exception", "reconnect_disabled",
                   "max_reconnect_attempts", "killed"}
    /\ spawned \in Nat
    /\ alive \subseteq 1 .. spawned
    /\ told \subseteq 1 .. spawned

\* On a connection aegisd sees replies that match its requests, and PONGs that report
\* the state of this connection, whatever state earlier ones left behind.
Conversation == TypeOK /\ RepliesMatch /\ PongConsistent

\* handle_config: over all CONFIGUREs and reconnects at most one thread is in
\* on_running, except while the one that was replaced is being joined.
OneWorker == pc # "join_replaced" => alive \subseteq {spawned}

\* graceful_shutdown: run() returns without an exception only after every on_running
\* returned, and SHUTDOWN was sent as the last frame.
CleanExit ==
    result = "ok" =>
        /\ alive = {}
        /\ sent[Len(sent)].command = "SHUTDOWN"

\* run(): without reconnection it connects once; with a limit of n attempts it connects
\* at most n times, and gives up for that reason only after exactly n times.  The n-th
\* sleep lasts reconnect_delay_s * 2^(n-1), capped from the second one on: no session,
\* however long it was, makes the delay start over.
ReconnectBudget ==
    /\ ~Reconnect => dials <= 1
    /\ MaxReconnectAttempts > 0 => dials <= MaxReconnectAttempts
    /\ result = "max_reconnect_attempts" => dials = MaxReconnectAttempts
    /\ pc = "sleep" => delay = DelayAfter(dials - 1, ReconnectDelay, MaxReconnectDelay)

\* The phase as run() sees it: a connection that it gave up after an error is not
\* closed.
Phase ==
    IF pc \in {"returned", "destroying", "gone"} THEN "stopped"
    ELSE IF pc \in {"connect", "failed", "sleep"} THEN "offline"
    ELSE IF pc \in {"register", "await_registered"} THEN "registering"
    ELSE state_

Contract == INSTANCE LifecycleContract WITH phase <- Phase

\* Whatever is read, thrown and reconnected, the client goes through the states of the
\* short lifecycle in their order on every connection, and ends for good.
ContractSpec == Contract!ShortSpec

\* Once aegisd has fallen silent and nobody calls stop(), the process ends, or hangs
\* in do_register(), which has no timeout, or in the join of graceful_shutdown().
OnlyJoinHangs == <>[](pc \in {"gone", "await_registered", "join"})

\* component.hpp says that on_running should check the stop_token: graceful_shutdown
\* waits for no thread whose stop_token was not requested to stop.
JoinedWorkerWasStopped == pc = "join" /\ spawned \in alive => spawned \in told
=============================================================================
