---------------------------- MODULE RustWorkers ----------------------------
(***************************************************************************)
(* The Rust example (aegis-rust/examples/market_data.rs): main(), the      *)
(* client with the example's handler, and one data stream worker.          *)
(* RustStream leaves it open who cancels the worker's token; here the      *)
(* token is the one of the connection on which on_running was spawned, and *)
(* only the component's handling of SHUTDOWN cancels it.                   *)
(***************************************************************************)
EXTENDS RustProperties

CONSTANTS
    MaxFrames,     \* bound on the frames published on one stream connection
    StreamDials    \* bound on the stream connections of a behaviour

ASSUME WorkersAssumption == MaxFrames \in Nat /\ StreamDials \in Nat

VARIABLES
    token,                           \* the worker's token, by connection; 0: no worker yet
    exited,                          \* main() returned; the process is gone
    sock, wire, shaken, published,   \* the data stream socket
    spc, sdials, handled             \* stream_worker

streamerVars == <<sock, wire, shaken, published, spc, sdials, handled>>
allVars == <<vars, token, exited, streamerVars>>

Stream == INSTANCE RustStream
    WITH pc <- spc, cancelled <- token \in cancelled, dials <- sdials,
         MaxDials <- StreamDials

WorkersInit == Init /\ token = 0 /\ exited = FALSE /\ Stream!Init

\* on_running spawns a worker.  It may be the one that is looked at, which keeps the
\* token of the connection that announced RUNNING.
MutSpawnWorker == workers' # workers /\ token' = dials
SpawnWorker == token = 0 /\ workers' # workers /\ token' = dials

ComponentStep ==
    /\ ~exited
    /\ Next
    /\ UNCHANGED token \/ SpawnWorker
    /\ UNCHANGED <<exited, streamerVars>>

\* The spawned task: on_running returned at once.
StreamStep ==
    /\ ~exited
    /\ token # 0
    /\ UNCHANGED <<vars, token, exited>>
    /\ Stream!WorkerStep

OrchestratorStep ==
    /\ ~exited
    /\ UNCHANGED <<vars, token, exited>>
    /\ Stream!ServerStep

\* main(): run() returned, or ctrl-c won the select!, which drops run() at its await.
\* With main() the runtime and its other tasks go.
MainReturns ==
    /\ ~exited
    /\ exited' = TRUE
    /\ UNCHANGED <<vars, token, streamerVars>>

WorkersNext == ComponentStep \/ StreamStep \/ OrchestratorStep \/ MainReturns

\* tokio polls its tasks as long as they can proceed, main() when run() is ready.
WorkersSpec == /\ WorkersInit /\ [][WorkersNext]_allVars
               /\ WF_allVars(ComponentStep /\ RunStep)
               /\ WF_allVars(StreamStep)
               /\ WF_allVars(MainReturns /\ pc = "done")

-----------------------------------------------------------------------------
(* Properties *)

\* The component uses the token as RustStream supposes: it is not cancelled when the
\* worker gets it, and never becomes valid again.
WorkerSpec == Stream!Spec

\* DataStream: while the worker reads, the frames it handled and those in the socket
\* are the ones published on the connection, in order, without a gap.
FramesInOrder == Stream!FramesInOrder

\* stream_worker: whatever goes wrong with the stream or with the component's own
\* connection, a worker stops only after aegisd sent SHUTDOWN on the connection on
\* which it was started; a component that still serves that connection has its
\* worker running.
OnlyShutdownStops ==
    spc = "stopped" =>
        /\ token \in cancelled
        /\ token = dials =>
              /\ pc \in {"ack_shutdown", "graceful_shutdown", "failed", "sleep",
                         "connect", "done"}
              /\ \E r \in DOMAIN asked : asked[r] = "SHUTDOWN"

\* stream_worker: after SHUTDOWN was read no attempt to connect starts, except the one
\* it had decided on.
NoDialAfterShutdown == Stream!NoDialAfterCancel

\* handle_lifecycle and stream_worker: a worker started on the connection that SHUTDOWN
\* arrived on stops or ends with the process, although the ACK may fail, so that the
\* component goes on, and although no select! surrounds connect().
ShutdownStopsWorker ==
    (pc = "ack_shutdown" /\ token = dials) ~> (spc = "stopped" \/ exited)
=============================================================================
