----------------------------- MODULE GoWorkers -----------------------------
(***************************************************************************)
(* The Go client together with the handlers of aegis-go/example/main.go.   *)
(* handleConfig starts a goroutine for OnRunning (`workers' counts them),  *)
(* whose body runs whenever it is scheduled: it derives a context from     *)
(* Run's, stores its cancel function in workerCancel and starts a stream   *)
(* worker (GoStream is one).  OnShutdown, which gracefulShutdown calls,    *)
(* calls workerCancel.  Whether a worker returned meanwhile makes no       *)
(* difference to what is cancelled, and is left out.                       *)
(***************************************************************************)
EXTENDS GoProperties

VARIABLES
    opened,    \* opened[w]: the call of runOnce, running or last, at the time when
               \*   OnRunning's body started stream worker w; the last worker is the
               \*   one that workerCancel cancels
    stopped,   \* stream workers whose own context was cancelled
    left,      \* history: calls of runOnce that called OnShutdown
    late       \* history: workers started when theirs had called OnShutdown already

exampleVars == <<opened, stopped, left, late>>
allVars == <<vars, exampleVars>>

\* The body of OnRunning.  gracefulShutdown does not wait for it: it may run when
\* OnShutdown returned and the connection is still there.
OnRunning ==
    /\ Len(opened) < workers
    /\ opened' = Append(opened, dials)
    /\ late' = IF dials \in left THEN late \cup {Len(opened) + 1} ELSE late
    /\ UNCHANGED <<vars, stopped, left>>

\* workerCancel, nil at first.
MutWorkerCancel == IF opened = <<>> THEN {} ELSE {1}
WorkerCancel == IF opened = <<>> THEN {} ELSE {Len(opened)}

\* The handlers' part in a step of the client: OnShutdown, if the step calls it.
Handlers ==
    /\ IF "OnShutdown" \in called' \ called
       THEN stopped' = stopped \cup WorkerCancel /\ left' = left \cup {dials}
       ELSE UNCHANGED <<stopped, left>>
    /\ UNCHANGED <<opened, late>>

ClientStep == Next /\ Handlers

ExampleInit == Init /\ opened = <<>> /\ stopped = {} /\ left = {} /\ late = {}

ExampleNext == ClientStep \/ OnRunning

\* As in FairSpec.  Whether and when OnRunning's goroutine runs does not matter.
ExampleSpec == /\ ExampleInit /\ [][ExampleNext]_allVars
               /\ WF_allVars(RunStep /\ Handlers)
               /\ WF_allVars(HandlerStep /\ Handlers)

\* Worker w was started before session d called OnShutdown.
Before(w, d) == \/ opened[w] < d
                \/ opened[w] = d /\ w \notin late

\* main.go's workerCancel: of the stream workers that were started before a session called
\* OnShutdown, only such run on as others of them had followed in workerCancel.  What
\* survives the end of its own session otherwise was started after OnShutdown returned; a
\* later session's OnShutdown is the first that can stop it.
OnShutdownStopsNewest ==
    \A w \in DOMAIN opened \ stopped, d \in left :
        Before(w, d) => \E v \in w + 1 .. Len(opened) : Before(v, d)
=============================================================================
