------------------------------ MODULE GoStream ------------------------------
(***************************************************************************)
(* The stream worker of the Go example (streamWorker in                    *)
(* aegis-go/example/main.go) on top of OpenStream and DataStream.Next      *)
(* (aegis-go/aegis/stream.go), against the orchestrator.  The worker's     *)
(* context may be cancelled at any time.                                   *)
(***************************************************************************)
EXTENDS StreamServer

CONSTANTS
    Coalesce,      \* one read(2) may return more than one line
    MaxDials       \* bound on the connections of a behaviour

ASSUME WorkerAssumption == Coalesce \in BOOLEAN /\ MaxDials \in Nat

VARIABLES
    pc,          \* where streamWorker is
    ctxDone,     \* ctx.Err() # nil
    dials,       \* calls of OpenStream so far
    handled      \* frames handled on the connection

workerVars == <<ctxDone, dials, handled>>
vars == <<streamVars, pc, workerVars>>

Init ==
    /\ StreamInit
    /\ pc = "start"
    /\ ctxDone = FALSE
    /\ dials = 0
    /\ handled = <<>>

\* streamWorker gives up at once when no socket path was received.
Start ==
    /\ pc = "start"
    /\ pc' \in {"open", "returned"}
    /\ UNCHANGED <<streamVars, workerVars>>

-----------------------------------------------------------------------------
(* OpenStream *)

\* The ids are not known yet, net.Dial fails, or there is a connection.  The
\* context is not looked at; the bound MaxDials does not hold up a worker whose
\* context is done.
Dial ==
    /\ pc = "open"
    /\ ctxDone \/ dials < MaxDials
    /\ dials' = IF ctxDone THEN dials ELSE dials + 1
    /\ \/ OpenSock /\ pc' = "handshake"
       \/ pc' = "retry" /\ UNCHANGED streamVars
    /\ UNCHANGED <<ctxDone, handled>>

\* OpenStream closes the connection and returns an error.
MutOpenFails ==
    /\ pc' = "retry"
    /\ UNCHANGED <<streamVars, workerVars>>
OpenFails ==
    /\ CloseSock
    /\ pc' = "retry"
    /\ UNCHANGED workerVars

Encode ==
    /\ pc = "handshake"
    /\ \/ sock = "open" /\ shaken' = "sent" /\ pc' = "await_response"
             /\ UNCHANGED <<sock, wire, published, workerVars>>
       \/ sock = "eof" /\ OpenFails

\* What a reader that is dropped leaves of the lines behind the one it returned:
\* it takes along what it read ahead, whole lines or the beginning of one.
Leftovers(rest) ==
    IF ~Coalesce THEN {rest}
    ELSE {SubSeq(rest, k, Len(rest)) : k \in 1 .. Len(rest) + 1}
         \cup {<<Line("garbage")>> \o SubSeq(rest, k + 1, Len(rest)) : k \in 1 .. Len(rest)}

\* The answer is read through a bufio.Reader of its own, which is dropped: the
\* DataStream gets a new one.  There is no read deadline.
Decode ==
    /\ pc = "await_response"
    /\ \/ /\ wire # <<>>
          /\ Head(wire).kind = "ok"
          /\ wire' \in Leftovers(Tail(wire))
          /\ pc' = "next"
          /\ UNCHANGED <<sock, shaken, published, workerVars>>
       \/ wire # <<>> /\ Head(wire).kind # "ok" /\ OpenFails
       \/ wire = <<>> /\ sock = "eof" /\ OpenFails

-----------------------------------------------------------------------------
(* streamWorker's retry loop *)

\* select: the context.
RetryCancelled ==
    /\ pc = "retry"
    /\ ctxDone
    /\ pc' = "returned"
    /\ UNCHANGED <<streamVars, workerVars>>

\* select: one second, which is never over yet when the context is done already.
RetryAgain ==
    /\ pc = "retry"
    /\ ~ctxDone
    /\ pc' = "open"
    /\ UNCHANGED <<streamVars, workerVars>>

-----------------------------------------------------------------------------
(* Next, and what streamWorker does with its outcome *)

\* Leaving streamWorker runs the deferred Close.
Leave ==
    /\ CloseSock
    /\ pc' = "returned"
    /\ UNCHANGED workerVars

\* Next returns a frame.
MutNextNewReader ==
    /\ pc = "next"
    /\ wire # <<>>
    /\ Head(wire).kind = "frame"
    /\ handled' = Append(handled, Head(wire).n)
    /\ wire' \in Leftovers(Tail(wire))
    /\ UNCHANGED <<sock, shaken, published, pc, ctxDone, dials>>
NextFrame ==
    /\ pc = "next"
    /\ wire # <<>>
    /\ Head(wire).kind = "frame"
    /\ handled' = Append(handled, Head(wire).n)
    /\ wire' = Tail(wire)
    /\ UNCHANGED <<sock, shaken, published, pc, ctxDone, dials>>

\* Next returns an error: a line that is no frame, or end of file.
NextError ==
    /\ pc = "next"
    /\ \/ wire # <<>> /\ Head(wire).kind # "frame"
       \/ wire = <<>> /\ sock = "eof"
    /\ Leave

\* Next's select sees the context, whatever its reading goroutine is doing.
MutNextCancelled == pc = "next" /\ ctxDone /\ sock = "eof" /\ Leave
NextCancelled == pc = "next" /\ ctxDone /\ Leave

-----------------------------------------------------------------------------
WorkerStep ==
    \/ Start \/ Dial \/ Encode \/ Decode \/ RetryCancelled \/ RetryAgain
    \/ NextFrame \/ NextError \/ NextCancelled

\* The example's OnShutdown, or Run's caller, cancels the worker's context.
Cancel ==
    /\ ~ctxDone
    /\ ctxDone' = TRUE
    /\ UNCHANGED <<streamVars, pc, dials, handled>>

ServerStep == StreamServerNext /\ UNCHANGED <<pc, workerVars>>

Next == WorkerStep \/ Cancel \/ ServerStep

Spec == Init /\ [][Next]_vars

\* The Go scheduler runs a goroutine that can proceed.  Nothing is assumed of the
\* orchestrator.
FairSpec == Spec /\ WF_vars(WorkerStep)

-----------------------------------------------------------------------------
\* Every variable has its type.
TypeOK ==
    /\ StreamTypeOK
    /\ pc \in {"start", "open", "handshake", "await_response", "retry", "next",
               "returned"}
    /\ ctxDone \in BOOLEAN
    /\ dials \in 0 .. MaxDials
    /\ handled \in Seq(1 .. MaxFrames)

\* The frames handled on the connection, and behind them what is still in the socket.
Received == [i \in DOMAIN handled |-> Frame(handled[i])] \o wire

\* Next keeps one reader: whatever OpenStream lost, each frame handled or still in the
\* socket is followed by its successor, up to the newest one.
NoGapAfterOpen ==
    pc = "next" =>
        \A i \in DOMAIN Received : Received[i].kind = "frame" =>
            IF \E j \in DOMAIN Received : j > i /\ Received[j].kind = "frame"
            THEN Received[i + 1] = Frame(Received[i].n + 1)
            ELSE Received[i].n = published

\* OpenStream's error paths and the deferred Close: between attempts, and after
\* the worker returned, it holds no connection.
NoLeakedSocket == pc \in {"open", "retry", "returned"} => sock = "closed"

\* Next's doc, "blocks until ... the context is cancelled": once the context is
\* done the worker returns, or hangs in OpenStream, which waits for the answer
\* to its handshake with neither a deadline nor the context.
OnlyOpenStreamHangs == <>[](ctxDone => pc \in {"returned", "await_response"})
=============================================================================
