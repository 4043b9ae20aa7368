----------------------------- MODULE RustStream -----------------------------
(***************************************************************************)
(* One data stream worker of the Rust example (stream_worker in            *)
(* aegis-rust/examples/market_data.rs) on top of the SDK's DataStream      *)
(* (aegis-rust/src/data_stream.rs), against the orchestrator.  The         *)
(* shutdown token is cancelled by the component at any time.               *)
(***************************************************************************)
EXTENDS StreamServer

CONSTANT MaxDials      \* bound on the connections of a behaviour

VARIABLES
    pc,          \* the await stream_worker is suspended at
    cancelled,   \* the shutdown token
    dials,       \* connections tried so far
    handled      \* frames handled on the latest connection

workerVars == <<cancelled, dials, handled>>
vars == <<streamVars, pc, workerVars>>

Init ==
    /\ StreamInit
    /\ pc = "check"
    /\ cancelled = FALSE
    /\ dials = 0
    /\ handled = <<>>

\* The `is_cancelled' tests at the heads of both loops.
MutCheck ==
    /\ pc = "check"
    /\ pc' = "connect"
    /\ UNCHANGED <<streamVars, workerVars>>
Check ==
    /\ pc = "check"
    /\ pc' = IF cancelled THEN "stopped" ELSE "connect"
    /\ UNCHANGED <<streamVars, workerVars>>

\* UnixStream::connect.  The bound MaxDials does not hold up a worker whose token
\* is cancelled.
Connect ==
    /\ pc = "connect"
    /\ cancelled \/ dials < MaxDials
    /\ dials' = IF cancelled THEN dials ELSE dials + 1
    /\ \/ OpenSock /\ pc' = "handshake" /\ handled' = <<>>
       \/ pc' = "retry" /\ UNCHANGED <<streamVars, handled>>
    /\ UNCHANGED cancelled

\* connect() returns an error: the socket is dropped.
ConnectFails ==
    /\ CloseSock
    /\ pc' = "retry"
    /\ UNCHANGED workerVars

SendHandshake ==
    /\ pc = "handshake"
    /\ \/ sock = "open" /\ shaken' = "sent" /\ pc' = "await_response"
             /\ UNCHANGED <<sock, wire, published, workerVars>>
       \/ sock = "eof" /\ ConnectFails

\* The answer, an end of file (an empty line, which is not JSON), or 10 seconds
\* without either.  The reader that read the answer goes into the DataStream.
MutRecvResponse ==
    /\ pc = "await_response"
    /\ \/ /\ wire # <<>>
          /\ Head(wire).kind = "ok"
          /\ wire' = <<>>
          /\ pc' = "reading"
          /\ UNCHANGED <<sock, shaken, published, workerVars>>
       \/ wire # <<>> /\ Head(wire).kind # "ok" /\ ConnectFails
       \/ wire = <<>> /\ ConnectFails
RecvResponse ==
    /\ pc = "await_response"
    /\ \/ /\ wire # <<>>
          /\ Head(wire).kind = "ok"
          /\ wire' = Tail(wire)
          /\ pc' = "reading"
          /\ UNCHANGED <<sock, shaken, published, workerVars>>
       \/ wire # <<>> /\ Head(wire).kind # "ok" /\ ConnectFails
       \/ wire = <<>> /\ ConnectFails

\* The two sleeps.  The stream lives until the end of the second one.
MutWakeUp ==
    /\ pc \in {"retry", "pause"}
    /\ pc' = "connect"
    /\ CloseSock
    /\ UNCHANGED workerVars
WakeUp ==
    /\ pc \in {"retry", "pause"}
    /\ pc' = "check"
    /\ CloseSock
    /\ UNCHANGED workerVars

\* next() yields a frame.
NextFrame ==
    /\ pc = "reading"
    /\ wire # <<>>
    /\ Head(wire).kind = "frame"
    /\ handled' = Append(handled, Head(wire).n)
    /\ wire' = Tail(wire)
    /\ UNCHANGED <<sock, shaken, published, pc, cancelled, dials>>

\* next() yields an error: garbage, end of file, or 60 seconds of silence.
MutNextError ==
    /\ pc = "reading"
    /\ \/ wire # <<>> /\ Head(wire).kind # "frame" /\ wire' = Tail(wire)
       \/ wire = <<>> /\ UNCHANGED wire
    /\ pc' = "stopped"
    /\ UNCHANGED <<sock, shaken, published, workerVars>>
NextError ==
    /\ pc = "reading"
    /\ \/ wire # <<>> /\ Head(wire).kind # "frame" /\ wire' = Tail(wire)
       \/ wire = <<>> /\ UNCHANGED wire
    /\ pc' = "pause"
    /\ UNCHANGED <<sock, shaken, published, workerVars>>

\* shutdown.cancelled() wins a select!.
Stop ==
    /\ pc \in {"retry", "reading", "pause"}
    /\ cancelled
    /\ CloseSock
    /\ pc' = "stopped"
    /\ UNCHANGED workerVars

WorkerStep ==
    \/ Check \/ Connect \/ SendHandshake \/ RecvResponse \/ WakeUp
    \/ NextFrame \/ NextError \/ Stop

\* The component handles SHUTDOWN.
Cancel ==
    /\ ~cancelled
    /\ cancelled' = TRUE
    /\ UNCHANGED <<streamVars, pc, dials, handled>>

ServerStep == StreamServerNext /\ UNCHANGED <<pc, workerVars>>

Next == WorkerStep \/ Cancel \/ ServerStep

Spec == Init /\ [][Next]_vars

-----------------------------------------------------------------------------
\* Every variable has its type.
TypeOK ==
    /\ StreamTypeOK
    /\ pc \in {"check", "connect", "handshake", "await_response", "retry",
               "reading", "pause", "stopped"}
    /\ cancelled \in BOOLEAN
    /\ dials \in 0 .. MaxDials
    /\ handled \in Seq(1 .. MaxFrames)

\* connect() hands its reader on to next(): while the worker reads, the frames it
\* handled and those in the socket are what was published on this connection, in
\* order, without a gap, although frames may follow the answer at once.
FramesInOrder ==
    pc = "reading" =>
        /\ \A i \in DOMAIN handled : handled[i] = i
        /\ \A i \in DOMAIN wire :
              wire[i].kind = "frame" => wire[i] = Frame(Len(handled) + i)
        /\ \A n \in Len(handled) + 1 .. published :
              \E i \in DOMAIN wire : wire[i] = Frame(n)

\* stream_worker: after cancellation no attempt to connect starts, except the one
\* it had decided on.
NoDialAfterCancel == [][cancelled /\ pc # "connect" => pc' # "connect"]_vars
=============================================================================
