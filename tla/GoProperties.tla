---------------------------- MODULE GoProperties ----------------------------
(***************************************************************************)
(* What the Go component promises aegisd, its handlers and the caller of   *)
(* Run.                                                                    *)
(***************************************************************************)
EXTENDS GoComponent, ConnectionProperties, Backoff

\* Every variable has its type.  ComponentID is what fmt.Sprintf made of the
\* payload, so that it need not be an id at all.
TypeOK ==
    /\ LinkTypeOK
    /\ pc \in {"run", "sleep", "reconnect", "done", "store", "register",
               "send_initializing", "send_ready", "message_loop", "read", "pong",
               "ack_configure", "configure_failed", "send_configured",
               "send_running", "ack_shutdown"}
                 \cup AwaitHandshake \cup AwaitConfig \cup Leaving
    /\ cur \in ServerFrames
    /\ store \in ComponentStates
    /\ then \in {"run"} \cup AwaitHandshake \cup AwaitConfig
    /\ State \in ComponentStates
    /\ ComponentID \in ComponentIds \cup {NoId, NotString, "<nil>"}
    /\ ctxDone \in BOOLEAN
    /\ attempts \in Nat
    /\ delay \in Nat
    /\ dials \in 0 .. MaxDials
    /\ runErr \in {"none", "nil", "canceled", "registration", "fatal", "other"}
    /\ result \in {"none", "nil", "canceled", "registration", "fatal", "other",
                   "max_reconnect_attempts"}
    /\ workers \in Nat
    /\ upd \in {"none", "WAITING", "RUNNING"}
    /\ updates \in 0 .. MaxUpdates
    /\ called \subseteq Hooks

-----------------------------------------------------------------------------
(* The connection *)

\* What aegisd sees on a connection: REGISTER comes first but for the updates of a
\* handler's goroutine, and replies match its requests, although decoders lose and tear
\* frames.
Conversation == TypeOK /\ RegisterFirst /\ RepliesMatch

\* Between frames i and j aegisd was sent nothing but updates of a handler's goroutine.
OnlyUpdates(i, j) == \A k \in i + 1 .. j - 1 : IsUpdate(sent[k])

\* What frame j follows is, but for such updates, the ACK of aegisd's SHUTDOWN.
AckedShutdown(j) ==
    \E i \in 1 .. j - 1, r \in DOMAIN asked :
        /\ asked[r] = "SHUTDOWN"
        /\ sent[i] = Envelope("ACK", r, NoId)
        /\ OnlyUpdates(i, j)

\* gracefulShutdown: when messageLoop ended because of SHUTDOWN or of the context, then by
\* the time the connection is closed OnShutdown was called and aegisd, unless it had gone,
\* was sent SHUTDOWN; that was the last frame, and came right after the ACK of aegisd's own
\* SHUTDOWN if this was what ended the session, apart from what a handler's goroutine
\* announced in between.  Only such a goroutine can store another state than SHUTDOWN.
GracefulLeave ==
    [][pc # "reconnect" /\ pc' = "reconnect" /\ runErr' \in {"nil", "canceled"} =>
        LET goodbyes == {i \in DOMAIN sent : sent[i].command = "SHUTDOWN"} IN
        /\ "OnShutdown" \in called
        /\ updates = 0 => State = "SHUTDOWN"
        /\ link = "up" => goodbyes # {}
        /\ \A i \in goodbyes : /\ OnlyUpdates(i, Len(sent) + 1)
                               /\ runErr' = "nil" => AckedShutdown(i)]_vars

\* What aegisd was told; a session is over for it when gracefulShutdown is done.
Phase ==
    IF pc = "done" THEN "stopped"
    ELSE IF link = "down" \/ pc = "close" THEN "offline"
    ELSE IF pc \in {"register", "await_registered"} THEN "registering"
    ELSE IF pc = "store" THEN store
    ELSE State

Contract == INSTANCE LifecycleContract WITH phase <- Phase

\* Until a handler announces a state of its own, the component implements the lifecycle
\* aegisd relies on.
ContractSpec == Contract!Init /\ [][updates' = 0 => [Contract!Next]_Phase]_vars

\* register's comment "CONFIGURE follows immediately after": a CONFIGURE that
\* aegisd sent is on its way, is the frame recv returned last, or was answered.
ConfigureArrives ==
    link # "down" =>
        \A r \in DOMAIN asked : asked[r] = "CONFIGURE" =>
            \/ \E i \in DOMAIN inbox : inbox[i].id = r
            \/ cur.id = r
            \/ \E i \in DOMAIN sent : sent[i].corr = r \/ sent[i].command = "RUNTIME_ERROR"

-----------------------------------------------------------------------------
(* Run *)

\* Run: without reconnection runOnce is called once; with a limit of n attempts
\* it is called at most n times and Run gives up for that reason after exactly n
\* calls; with reconnection Run never passes on what a session ended with, and a
\* context error only when the context is done.  The n-th sleep lasts
\* ReconnectDelay * 2^(n-1), capped from the second one on.
ReconnectBudget ==
    /\ ~Reconnect => dials <= 1
    /\ MaxReconnectAttempts > 0 => dials <= MaxReconnectAttempts
    /\ result = "max_reconnect_attempts" => dials = MaxReconnectAttempts
    /\ result \in {"nil", "fatal", "other"} => ~Reconnect
    /\ result = "canceled" => ctxDone
    /\ pc = "sleep" => delay = DelayAfter(dials - 1, ReconnectDelay, MaxReconnectDelay)

-----------------------------------------------------------------------------
(* Liveness *)

\* messageLoop's read deadline and the tests of ctx: once the context is done Run
\* returns, or hangs in register, whose recv has neither a deadline nor the context.
CancelStops == <>[](ctxDone => pc \in {"done"} \cup AwaitHandshake)
=============================================================================
