--------------------------- MODULE RustProperties ---------------------------
(***************************************************************************)
(* What the Rust component promises aegisd and its own handler.            *)
(***************************************************************************)
EXTENDS RustComponent, ConnectionProperties, Backoff, FiniteSets

\* Every variable has its type.
TypeOK ==
    /\ LinkTypeOK
    /\ pc \in Sending \cup Receiving
                \cup {"connect", "failed", "sleep", "graceful_shutdown", "done"}
    /\ cur \in ServerFrames
    /\ state \in ComponentStates
    /\ component_id \in ComponentIds \cup {NoId}
    /\ attempts \in Nat
    /\ delay \in Nat
    /\ dials \in 0 .. MaxDials
    /\ result \in {"none", "ok", "registration", "panic", "reconnect_disabled",
                   "max_reconnect_attempts"}
    /\ workers \in [1 .. MaxDials -> Nat]
    /\ cancelled \subseteq 1 .. MaxDials
    /\ called \subseteq Hooks

-----------------------------------------------------------------------------
(* Requests and workers *)

Answered(r) ==
    \/ \E i \in DOMAIN sent : sent[i].corr = r
    \/ asked[r] = "CONFIGURE" /\ \E i \in DOMAIN sent : sent[i].command = "RUNTIME_ERROR"

\* message_loop: as long as the component holds the connection, every request
\* aegisd made on it is still in the socket, is being handled, or was answered
\* (CONFIGURE possibly by RUNTIME_ERROR, which carries no correlation id).
NothingDropped ==
    link # "down" =>
        \A r \in DOMAIN asked :
            \/ \E i \in DOMAIN inbox : inbox[i].id = r
            \/ cur.id = r
            \/ Answered(r)

\* What aegisd sees on a connection: every request is answered, once and in order, and
\* PONG reports the state it was last told.
Conversation == TypeOK /\ RepliesMatch /\ NothingDropped /\ PongTruthful

\* Where RUNNING was announced on this connection.
RunningTold == {i \in DOMAIN sent : IsUpdate(sent[i]) /\ sent[i].arg = "RUNNING"}

\* handle_config: whenever the component waits for a message, the number of
\* on_running tasks started with this connection's token is the number of times
\* RUNNING was announced on it, and that token is not cancelled.
WorkersMatchRunning ==
    pc = "message_loop" =>
        /\ dials \notin cancelled
        /\ workers[dials] = Cardinality(RunningTold)

\* handle_lifecycle and graceful_shutdown: run() returns Ok only after aegisd's
\* SHUTDOWN was acknowledged as the last frame of the connection, with the
\* connection's token cancelled and on_shutdown called.
CleanExit ==
    result = "ok" =>
        /\ sent # <<>>
        /\ sent[Len(sent)].command = "ACK"
        /\ asked[sent[Len(sent)].corr] = "SHUTDOWN"
        /\ dials \in cancelled
        /\ "on_shutdown" \in called
        /\ state = "SHUTDOWN"

\* examples/market_data.rs and the doc of on_running say that the work started by
\* on_running goes on until shutdown: when run() returns Ok, the token of every
\* on_running task is cancelled.
ShutdownCancelsWorkers ==
    result = "ok" => \A n \in 1 .. MaxDials : workers[n] > 0 => n \in cancelled

-----------------------------------------------------------------------------
(* Reconnection and identity *)

\* run(): without reconnection run_once() is called once; with a limit of n
\* attempts it is called at most n times, and run() gives up for that reason only
\* after exactly n calls.  The n-th sleep lasts reconnect_delay * 2^(n-1), capped from
\* the second one on: no session, however long it was, makes the delay start over.
ReconnectBudget ==
    /\ ~Reconnect => dials <= 1
    /\ MaxReconnectAttempts > 0 => dials <= MaxReconnectAttempts
    /\ result = "max_reconnect_attempts" => dials = MaxReconnectAttempts
    /\ pc = "sleep" => delay = DelayAfter(dials - 1, ReconnectDelay, MaxReconnectDelay)

\* register(): an id that aegisd assigned is sent again on every reconnect, so
\* that the component changes its identity only when aegisd answers REGISTER with
\* something that is no id.
OneIdentity ==
    [][component_id # NoId /\ component_id' # component_id
          => Head(inbox).arg = NotString]_vars

Phase ==
    IF pc = "done" THEN "stopped"
    ELSE IF link = "down" THEN "offline"
    ELSE IF pc \in {"register", "await_registered"} THEN "registering"
    ELSE state

Contract == INSTANCE LifecycleContract WITH phase <- Phase

\* The component implements the lifecycle aegisd relies on.
ContractSpec == Contract!Spec

-----------------------------------------------------------------------------
(* Liveness *)

\* Frames that end the connection.
EndsConnection(frame) ==
    \/ frame.type = Undecodable
    \/ frame.type = "ERROR" /\ frame.arg # "recoverable"

\* message_loop and handle_lifecycle: whatever requests are handled before it, a
\* SHUTDOWN in the socket of a registered component ends run() with Ok, unless
\* aegisd closes the connection or put a frame before it that ends the connection.
ShutdownHonoured ==
    (/\ pc \notin {"register", "await_registered"}
     /\ \E i \in DOMAIN inbox :
           /\ inbox[i].command = "SHUTDOWN"
           /\ \A j \in 1 .. i - 1 : ~EndsConnection(inbox[j]))
        ~> (result = "ok" \/ link = "eof")

\* message_loop's read timeout and run()'s limit: once aegisd has fallen silent,
\* run() returns, or hangs in register(), whose recv_envelope has no timeout.
OnlyRegistrationHangs == <>[](pc \in {"done", "await_registered"})
=============================================================================
