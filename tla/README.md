# Aegis SDK: TLA+ specifications and proofs

The repository holds five SDKs (Rust, Go, Python, C++, OCaml) for writing *components* of Aegis. A component
connects to the daemon `aegisd` over a Unix socket, registers, is configured, runs, and is shut down; market data
reaches it over a second Unix socket served by an orchestrator. Neither `aegisd` nor the orchestrator is in this
repository. According to `README`, the Rust and Go SDKs work and the other three are outdated; all five clients
are modelled, Rust and Go with the data streams.

## 1. Inventory

| part | state | operations | talks to |
|---|---|---|---|
| Rust `Component<H>` (`aegis-rust/src/component.rs`) | `component_id`, `session_id`, `state`; locals `attempts`, `delay`; one shutdown token per connection; spawned `on_running` tasks | `run`, `run_once`, `register`, `message_loop`, `handle_heartbeat/config/lifecycle/error_msg`, `send_state_update`, `send_error`, `send_ack`, `graceful_shutdown` | `aegisd`; the `ComponentHandler` hooks |
| Go `Component` (`aegis-go/aegis/client.go`) | `ComponentID`, `SessionID`, `State` (atomic), `conn`, `reader`, `sendMu`; locals `attempts`, `delay`; the context | `Run`, `runOnce`, `register`, `messageLoop`, handlers, `SendStateUpdate`, `SendError`, `gracefulShutdown`, `send`, `recv` | `aegisd`; `Handlers`, whose goroutines call back |
| Rust `DataStream` and example worker (`data_stream.rs`, `examples/market_data.rs`) | buffered reader; the handler's copies of socket path and ids | `connect`, `next`, `stream_worker`, `on_configure`, `on_running` | orchestrator; the component's shutdown token |
| Go `DataStream` and example worker (`stream.go`, `example/main.go`) | `conn`, `reader`; `socketPath`, `workerCancel` | `OpenStream`, `Next`, `Close`, `streamWorker` | orchestrator; a context |
| Python `AegisComponent` and example (`aegis_component/client.py`, `example.py`) | `state`, `_reader`, `_writer`, `_running`, `_send_lock`; locals `attempts`, `delay`; `_worker_task` | `run`, `_connect`, `_register`, `_signal_ready`, `_message_loop`, handlers, `send_state_update`, `_graceful_shutdown` | `aegisd`; overridden `on_*` coroutines, whose tasks call back |
| C++ `Client` (`src/client.cpp`) | `fd_`, `state_`, `running_`, `stop_source_`, `worker_thread_`; locals `attempts`, `delay` | `run`, `run_once`, `do_register`, `message_loop`, handlers, `graceful_shutdown`, `stop`, destructor | `aegisd`; the handler, whose `on_running` has a `jthread`; whoever calls `stop` |
| OCaml `Client` (`lib/client.ml`) | `state`, `stop_flag`, ids; locals `attempts`, `delay`, `continue` | `run`, `run_once`, `do_register`, `message_loop`, handlers, `graceful_shutdown` | `aegisd`; handlers, whose `on_running` has a thread; signal handlers |
| protocol (`protocol.rs`, `protocol.go`, ...) | none | envelopes, enumerations | all clients |
| config, loggers, build files | constants, output | | |

What is hard here: the client and the daemon speak asynchronously, so a request may arrive at every await;
connections fail at every point and the client starts over while parts of its state (identity, lifecycle state,
worker tasks, attempts, delay) survive; workers outlive the connection that started them; timeouts exist in some
receives and not in others; buffered readers are created more often than connections. The list with lines is
`hazards` in `PROJECT.json`.

What makes each part correct:

* clients: each request of a connection is answered once, in order, with the right correlation; no request is
  dropped; PONG reports what aegisd was last told; the announced states form a legal lifecycle; a worker runs
  per RUNNING announced and is stopped by SHUTDOWN; identity, number of attempts and backoff survive reconnects;
  SHUTDOWN and cancellation end the client.
* data streams: frames are handled in order and without a gap from the first one on; only cancellation stops a
  worker, and it always does; sockets are not leaked.

## 2. Modules

```
AegisProtocol            vocabulary: message types, commands, states, frames
  Aegisd                 external: the daemon, and the socket between it and one client
    ConnectionProperties what aegisd observes on a connection (shared by all clients)
      ConnectionProofs     lemmas about the socket and the daemon, used by all clients' proofs
    RustComponent        the Rust client         GoComponent        the Go client
      RustProperties     its properties            GoProperties     its properties
        MCRust             for TLC                   MCGo             for TLC
        RustWorkers        with the example          GoWorkers        with the example
          MCRustWorkers      for TLC                   MCGoWorkers      for TLC
          RustProofs         proofs of both            GoProofs         proofs of both
    PyComponent, CppComponent, OcamlComponent   the other clients, with their properties
      MCPy, MCCpp, MCOcaml                        for TLC
      PyProofs, CppProofs, OcamlProofs            their proofs
Backoff                  how long a client should wait before it connects again, used by all five clients
LifecycleContract        abstract specification, instantiated by all five clients
StreamServer             external: the orchestrator's end of a data stream, and the socket
  RustStream             the Rust stream client and worker, instantiated by RustWorkers
    RustStreamProofs       its proofs, instantiated by RustProofs
  GoStream               the Go stream client and worker
    MCGoStream             for TLC
    GoStreamProofs         its proofs
```

**The socket (`Aegisd`).** `inbox` is the FIFO to the client. The other direction is the log `sent` of one
connection, of which aegisd has processed the first `seen` frames, so that properties can speak of everything a
client said. `asked` is the history of aegisd's requests; a request's message id is its index. `link` is `down`,
`up` or `eof` (aegisd closed its end). aegisd is modelled from what the clients expect: it answers REGISTER
(in every way `RegReplies` names, including not at all), acknowledges STATE_UPDATE, sends CONFIGURE once READY
was announced, may push any frame in `Pushes` after REGISTERED, and may close at any moment. A frame is a record
with the fields the clients branch on; payloads are reduced to one value.

**`RustComponent`.** `run()` is one async task: `pc` names the await it is suspended at and there is one action
from one await to the next (`SendRegister`, `RecvRegistered`, `RecvMessage`, `AckConfigure`, ...). `RecvMessage`
takes an envelope and runs the handler up to its first await; the send actions run the rest. `?` on a failed send
or receive is `SendError`, `RecvEof`, `RecvUndecodable`, `ReadTimeout`. `workers[n]` counts the `on_running` tasks
that hold the token of connection `n`, `cancelled` the connections whose token was cancelled, `called` the hooks
called on the latest connection. Hooks return; `on_configure` may fail.

**`GoComponent`.** The goroutine in `Run` (`pc`), a goroutine started by OnRunning that calls `SendStateUpdate`
(`upd`), and the caller's cancellation interleave. A send is atomic (`sendMu`); the store of the state that
follows is a step of its own. `recv` creates a `json.Decoder` per call; with `Coalesce` the decoder may take
along any number of the frames behind the one it returns, the last of them possibly only in part (`Leftovers`,
`Torn`). Whether one read returns several frames is the kernel's choice, so `Coalesce = TRUE` is the real
system and `FALSE` the case in which every frame is read on its own; a property checked with `FALSE` says what
the code achieves apart from the lost read-ahead. `gracefulShutdown` and the deferred `closeConn` are four steps
(`CallOnShutdown`, `SendShutdown`, `StoreShutdown`, `CloseConn`, the places in `Leaving`), since other goroutines run
between any two of them. `SendError` from a handler goroutine is left out.

**`RustStream`, `GoStream`.** One worker against an orchestrator that numbers the frames of a connection. The
Rust worker hands one reader from the handshake to `next()`; the Go client makes a second one (`Decode`).

**`RustWorkers`.** The Rust example as a process: `main`, the component, and one stream worker. `RustStream` leaves
it open who cancels the token; here `RustStream!cancelled` is `token \in cancelled`, where `token` is the connection
whose `on_running` spawned the worker and `cancelled` is the component's. `SpawnWorker` chooses which of the spawned
workers is looked at (they do not share anything but their token), so that orphans of a failed connection are
covered. `MainReturns` is ctrl-c or the end of `run()`: the process goes with everything in it. `WorkerSpec` states
that the component uses the worker as `RustStream` supposes, which is the environment assumption of that module.

**`GoWorkers`.** The Go client and the handlers of `example/main.go`. `handleConfig` starts a goroutine for
`OnRunning` whose body may run much later: between `OnShutdown` and the close of its session, between sessions, or in
a later one. `opened[w]` is the call of `runOnce`, running or last, when the body that started worker `w` ran; `left`
are those calls that called `OnShutdown`, and `late` the workers that were started after theirs had. `Handlers` says
what a step of the client makes of these variables: the step that calls `OnShutdown` cancels the last worker. A body
takes effect when it stores `workerCancel`.
`workerCancel` and `socketPath` are shared by two goroutines without synchronisation; the model lets `OnShutdown`
read the value last stored, which is what the compiled code does with a word-sized variable.

**`PyComponent`.** Everything runs on one event loop, so that a worker task can act only while `run` is suspended:
`Suspended` lists these points, and everything between two of them that only sends is not interrupted by workers
(aegisd still acts in between). A worker calls `send_state_update` on whatever connection exists, or dies by the
exception when there is none. `graceful` and `streak` are histories used by properties only. The client waits for an
ACK after INITIALIZING and reconnects after SHUTDOWN, NACK and errors alike.

**`CppComponent`.** The thread in `run`, the `jthread`s of `on_running` (`alive`; `told` are those whose own
`stop_token` was requested to stop), and the caller of `stop`. `Spawn` is the assignment of `worker_thread_`: the new
thread starts before the old one is stopped and joined (`JoinReplaced`). After `run` the caller destroys the client
(`Destroy`, `Destroyed`). A read that yields nothing is an end of file, the 35 seconds or a signal, which the code
does not tell apart. A write to a closed connection kills the process (`Killed`).

**`OcamlComponent`.** `stop_flag` numbers the refs that `handle_config` creates; `holds[w]` is the ref that thread
`w` polls and `raised` are the refs that are true. `Interrupt` is the example's signal handler.

The C++ and OCaml clients announce neither INITIALIZING nor READY, so that the daemon of `Aegisd` never sends them
CONFIGURE of its own accord; they meet it as the push `configure`.

**`LifecycleContract`.** One variable, `phase`: what aegisd may rely on. The refinement mapping `Phase` reads the
phase off the client: `stopped` after `run` returned, `offline` without a socket, `registering` until REGISTERED
arrived, and otherwise the client's state (in Go, the state just sent but not yet stored, and `offline` once
`gracefulShutdown` stored SHUTDOWN, which is no announcement). It says that no state
is skipped or repeated on a connection, whatever requests, errors and reconnects come in between, and that a
client that returned stays away. `Spec` is the lifecycle with INITIALIZING and READY, which Rust, Go and Python
implement, the latter two until a handler or a worker first announces a state of its own: there `ContractSpec` speaks
of the steps up to that one (`updates' = 0`). `ShortSpec` leaves out these
two announcements, and is what C++ and OCaml implement. The C++ client never closes a connection that it gave up, so
its `Phase` follows `run` and not the socket.

**`Backoff`.** The reference for the delays: `DelayAfter(n, base, cap)` is `base * 2^n`, or the cap once that is
reached and `n > 0`. The clients double and cap a variable step by step, without a limit on the first delay; that the
variable has this value whenever a client sleeps is the last conjunct of `ReconnectBudget` (in Python it is
`BackoffSinceReady`, which counts from the last READY, since that makes the delay start over).

**Bounds.** `MaxPush` (unsolicited frames), `MaxDials` (connections), `MaxUpdates` (a handler's updates) and
`MaxFrames` appear in guards only. Runs with a liveness
property must not owe it to a bound. The clients' own limits of attempts (3 or 4) are below `MaxDials` (4 or 5) there,
so that `run` gives up before the bound holds it up. Each limit is chosen with the delay and the cap: 3 attempts sleep
twice (Rust 3 and 5, capped by 5; Go 3 and 6, not yet capped by 7), 4 attempts three times (1, 2 and 3, capped by 3), so
that doubling and capping both happen, and in Python starting over too. `MaxDials` and `StreamDials` do not hold up a stream worker that is
cancelled already, and it is of such workers that the liveness properties of the streams speak.

## 3. Runs

Each run takes from a few seconds to about two minutes. Deadlock is not checked: every system here stops by itself
(run returns, the bounds are used up).

| run | what it shows |
|---|---|
| `rust_requests` | `Conversation` (types, `RepliesMatch`, `NothingDropped`, `PongTruthful`), `WorkersMatchRunning`, `CleanExit`, and the refinement `ContractSpec`, with three unsolicited frames out of PING, CONFIGURE, REBORN, SHUTDOWN on two connections and REGISTERED with an id, without one, or with something else in its place. RUNTIME_ERROR names no request, so that `NothingDropped` takes one for the answer of any CONFIGURE. Two queued requests plus the CONFIGURE of the handshake are enough for every reordering of a pair; the second connection shows what survives the first. |
| `rust_sessions` | `ReconnectBudget`, `OneIdentity` over three connections (a fourth is allowed by the bound), with every answer to REGISTER, two ids that aegisd can assign, and two frames that must be ignored, cannot be decoded, report errors, or ask for SHUTDOWN. Under fairness, `ShutdownHonoured` (a SHUTDOWN that was read ends in Ok unless the connection fails) and `OnlyRegistrationHangs`. |
| `rust_workers` | The composition: `FramesInOrder`, `OnlyShutdownStops`, `WorkerSpec`, `NoDialAfterShutdown`, and under fairness `ShutdownStopsWorker`. Two connections to aegisd, so that the worker can be an orphan of the first, two stream connections of two frames, so that frames can follow the handshake's answer at once and on a retry. |
| `go_sessions` | The Go client with the example's handlers: `PongTruthful`, `ReconnectBudget`, `OnShutdownStopsNewest`, `ContractSpec`, and under fairness `CancelStops`. Cancellation at any point, one unsolicited frame, one frame per read; a second CONFIGURE comes with the push `configure`. Workers that start after their session's `OnShutdown`, and such as a later `OnShutdown` stops or does not, all occur. |
| `go_races` | `Conversation` (types, `RegisterFirst`, `RepliesMatch`) and `GracefulLeave`, with lost and torn frames, cancellation, a handler goroutine that updates the state, and every answer to REGISTER. Two connections: a goroutine of the first may update on the second, and between the steps of `gracefulShutdown`. |
| `go_stream` | `NoGapAfterOpen`, `NoLeakedSocket` with coalesced lines, three connections of three frames; under fairness `OnlyOpenStreamHangs`. |
| `py_sessions` | `Conversation`, `GracefulStopsNewest`, `ReconnectBudget`, the refinement `ContractSpec` up to the first update of a worker, and under fairness `OnlyHandshakeHangs`, over four sessions with one unsolicited frame and one update of a worker. A READY in any session makes the delay start over and leaves the attempts alone. |
| `cpp_sessions` | `Conversation`, `OneWorker`, `CleanExit`, `ReconnectBudget`, the refinement `ContractSpec`, and under fairness `OnlyJoinHangs`, over four sessions with three pushes: the client is never configured otherwise, and two CONFIGUREs and a SHUTDOWN must fit. |
| `ocaml_sessions` | `Conversation`, `CleanExit`, `ReconnectBudget`, the refinement `ContractSpec`, and under fairness `ShutdownStopsWorker` and `OnlySilenceHangs`, as for C++. |

**Disagreements between code and documentation.** Three need several steps of several actors; a run finds a
counterexample to each:

| run | property | documentation |
|---|---|---|
| `rust_orphans` | `ShutdownCancelsWorkers` | `component.rs:41`: the token is cancelled on SHUTDOWN. The token of a failed connection never is. |
| `go_lost_configure` | `ConfigureArrives` | `client.go:206`: CONFIGURE follows the ACK immediately. It is lost when it is read together with it. |
| `cpp_join` | `JoinedWorkerWasStopped` | `component.hpp:51`: on_running's threads check the stop_token. `client.cpp:243` joins them without having requested that token to stop; it stops another source. |

The others can be read off the code, and the models follow it without a run of their own:

* `component.rs:71`: on_error is for non-recoverable errors. It is called for all (line 450).
* `component.rs:66`: on_shutdown is called before the component disconnects. Not when the connection fails
  (`Fail` does not touch `called`).
* `examples/market_data.rs:26`: the SDK overwrites the handler's ids. Nothing does; without `AEGIS_COMPONENT_ID`
  the worker opens its stream with an empty id.
* `client.go:49`: Run blocks until cancellation or a non-recoverable error. After cancellation it can hang in
  `register`, which `CancelStops` names as the only place; after a non-recoverable error it reconnects
  (`AfterRunOnce`).
* `client.go:145`: the order of the handshake. A goroutine's update can come before REGISTER, and nothing else can
  (`RegisterFirst`).
* `client.go:194`: wait for the ACK before READY. Whatever arrives is taken for it (`RecvHandshakeAck`).
* `config.go:84`: OnShutdown is called just before the component disconnects, to release resources. Not when the
  connection fails; and a body of OnRunning that is still to run when it returns starts a worker afterwards
  (`OnRunning` in `GoWorkers`), which no call of OnShutdown for that session stops (`late`).
* `stream.go:87`: Next returns the next envelope. Frames read together with the handshake answer are lost with
  the reader OpenStream drops (`Leftovers` in `GoStream`).
* `client.hpp:24`: run ends on a non-recoverable error or stop. A read error ends it too, without a reconnect
  (`client.cpp:155`); and a stop before `running_` is set (`client.hpp:27`) is lost.
* A write to a connection the peer has closed kills the C++ and the OCaml process, since neither handles SIGPIPE
  (`Killed`), although both have code that reconnects after a failed send.

**Fairness.** The specifications with fairness assume that the runtime (tokio, the Go scheduler, the event loop, the
operating system) runs a task that can proceed and fires timers that are due: weak fairness of the next-state action
of each task, in the compositions of the client and of the worker separately. In C++ and OCaml an `on_running` that
was told to stop is assumed to return (`WorkerStops`), as its documentation demands; one that was not told is not. A
read timeout is part of a task's action, so a silent peer does not block a receive that has one, and blocks a
receive that has none. Where a task waits for one of several things (`select`), its action may choose any that is
ready; a cancelled stream worker stops all the same because `MaxFrames` ends the frames, where the runtime chooses
at random. `CancelStops` and the `Only...Hangs` property of each client say exactly where that is.
Nothing is assumed of aegisd, the orchestrator, signals, or the caller that cancels or stops.

**Type invariants.** `TypeOK` also says what can be stored in the identity: the Rust client turns a value that is
not a string into the empty id, the Go client prints it, and prints a missing key as `<nil>`. It is a conjunct of each
client's `Conversation`; for the streams it is proved and not checked by a run.

## 4. Proofs

The theorems hold for all values of the constants under the named assumptions (`ComponentIdsAssumption`,
`AegisdAssumption`, `RustAssumption`, `GoAssumption`, `PyAssumption`, `CppAssumption`, `OcamlAssumption`,
`StreamAssumption`, `WorkersAssumption`, `WorkerAssumption`), which give constants their types and keep
component ids apart from the malformed ones, and nothing else: any number of connections, pushes, frames and ids,
any limits and delays. `Spec` is the specification of the module
about which the proof module speaks, without fairness; `WorkersSpec` and `ExampleSpec` are the compositions.

**What all clients share (`ConnectionProofs`).** `ServerEffect` says once what a step of aegisd does to the socket: it
adds one frame to `inbox`, numbered if it is a request, or leaves the queues alone. `QueueInv` is the inductive form
of `RepliesMatch`: the ids of requests strictly increase along the replies in `sent`, then the request in hand, then
`inbox`, and each names an entry of `asked` with the command the frame carries. `RepliesMatch` alone is not
inductive, since it says nothing of requests that are still on the way. Lemmas named `Server...`, `Sent...`,
`Taken...` and `Link...` carry `QueueInv`, and what was announced (`SentTold`, `SentReported`), through the
daemon's steps, a send, a receive and a reconnect. A client's proof adds `Handling`: the request in `cur` is the one
in hand, of the command that the handler at `pc` is for.

**Delays.** `Doubled` in `Backoff` is a recursive function, of which TLA+ says that it satisfies its equation only if
some function does. `DoubledFacts` proves that: for every `n` there is a function that satisfies the equation up to `n`
(`DoublesExist`), any two agree as far as both do (`DoublesUnique`), and the diagonal satisfies it everywhere. The
inductions over `n` are applications of `NatSet` (a set of naturals with 0 and all successors is `Nat`), which is
stated with a set in place of the predicate of the library's induction theorem and proved from the minimum of a
well-founded order. `NextDelayAfter` then says that one step of the clients' doubling takes `DelayAfter(n)` to
`DelayAfter(n + 1)`, for every delay and cap, a cap below the delay included.

Rust (`RustProofs`, `RustStreamProofs`):

| theorem | argument |
|---|---|
| `TypeCorrect`: `Spec => []TypeOK` | `TypeInv` adds `Identities` (what REGISTERED assigns and REGISTER names is an id or one of the two malformed ones) and `Dialled` (outside `connect` a connection has been dialled). |
| `ImplementsContract`: `Spec => ContractSpec` | `LifecycleInv` ties `state` to `pc` on a live connection. With it each action maps to a step of the contract or a stutter. |
| `ReconnectBudgetHolds` | `BudgetInv` counts: `dials` is `attempts + 1` in a session or just after one failed and `attempts` while connecting or sleeping; until `run` returns, `attempts` is below the limit, and 0 without `Reconnect`. `delay` is `DelayAfter(Sleeps, ...)`, where `Sleeps` is the number of sleeps so far, read off `dials` and `pc`; the step is `NextDelayAfter`. |
| `OneIdentityHolds`: `Spec => OneIdentity` | `IdentityInv`: while a component that was assigned an id registers again, every REGISTER of the connection names that id and no REGISTERED on its way assigns another one. The action property is about the stored identity; what makes it true is what is on the way in both directions. |
| `RepliesMatchHolds` | `ReplyInv`, that is `QueueInv` and `Handling`. |
| `NothingDroppedHolds` | Inductive together with `ReplyInv`: a request leaves `inbox` only into the hand, and the hand only by a reply. |
| `PongTruthfulHolds` | `PongInv`: at every await at which a state was announced on the connection, the stored state is the one announced last. |
| `CleanExitHolds` | `TokenInv` says when the token of the current connection is cancelled (from the moment SHUTDOWN is handled, and nowhere in the message loop), `ExitInv` that at `graceful_shutdown` the last frame is the ACK of a SHUTDOWN. What the ACK answers comes from `ReplyInv`. |
| `WorkersMatchRunningHolds` | `CountInv`: on a live connection `workers[dials]` is the cardinality of the set of RUNNING updates in `sent`, and later connections have no workers. `TokenInv` gives the part about the token. |
| `WorkerSpecHolds`: `WorkersSpec => WorkerSpec` | Refinement mapping `cancelled <- token \in cancelled`. A worker gets a token that is not cancelled, and a cancelled one never becomes valid again, so each step of the component is `Stream!Cancel` or a stutter. |
| `OnlyShutdownStopsHolds` | `AskedShutdown`: the token of the current connection is cancelled only if aegisd sent SHUTDOWN on it. Needs `ReplyInv` (what is handled was asked for) and `ShutdownInv`. |
| `RustStreamProofs!TypeCorrect`, `FramesInOrderHolds` | `Delivery` says what is on the wire at each await. `Backlog(skip)`: behind the first `skip` lines (the answer, until it is read) the frames continue exactly where `handled` ends, with garbage at most as the last line. `FramesInOrder` alone says nothing of the wire before the answer is read, which is where a frame would be lost. |
| `RustStreamProofs!NoDialHolds` | By cases on the worker's steps. |
| `RustProofs!FramesInOrderHolds`, `NoDialAfterShutdownHolds` | The theorems of `RustStreamProofs`, instantiated (`Proved`) and carried over by `WorkerSpecHolds`: what holds of the worker against any cancellation holds of a worker of the running component. |

Go (`GoProofs`, `GoStreamProofs`):

| theorem | argument |
|---|---|
| `TypeCorrect` | `TypeInv` adds `Identities` and `Session`: `runOnce` holds a connection exactly at the places in `Connected`. |
| `RepliesMatchHolds` | `ReplyInv` as for Rust, but a decoder may drop the frames behind the one it returns and tear the last: `LeftoversTaken` shows that `inbox` becomes a suffix of itself, possibly behind an undecodable rest, which keeps the ids in order. |
| `ReconnectBudgetHolds` | `BudgetInv` as for Rust, the delay included, and that `runOnce` returns the context's error only when the context is done. |
| `RegisterFirstHolds` | `RegisterInv`: past `SendRegister` a REGISTER is in `sent`, so that whatever a goroutine of an earlier session still sends comes after it or is the one exception the property names. |
| `ImplementsContract`, while `updates = 0` | `LifecycleInv` ties `State`, or the state still to be stored, to `pc`; `PhaseFacts` reads the phase off it. |
| `PongTruthfulHolds`, while `updates = 0` | `PongInv` as for Rust; between the send and the store it is the state to be stored that was announced last. |
| `GracefulLeaveHolds`: `Spec => GracefulLeave` | `LeaveInv`: a session sends no SHUTDOWN before `SendShutdown`, and from then on, unless aegisd is gone, one is in `sent`; what precedes it, and what follows it, is the ACK of aegisd's request or an update of a handler. An update keeps that (`AsideLeave`), since it only makes `sent` longer at its end. `StoredInv`: until such an update SHUTDOWN stays stored. `LeavesRunOnce`: with these outcomes only `CloseConn` ends a session. |
| `OnShutdownStopsNewestHolds`: `ExampleSpec => ...` | `WorkerInv`: a worker is `late` only if its session is in `left`. So when a session calls `OnShutdown`, the last worker was started before that, and is the one that is cancelled; and a worker started later is before no session in `left`. |
| `GoStreamProofs!TypeCorrect`, `NoLeakedSocketHolds` | `Numbered`: whatever a dropped reader took along (`Leftovers`), a line that is a frame has a number. `SocketInv`: between attempts there is no socket. |
| `GoStreamProofs!NoGapAfterOpenHolds` | `GapInv`: from the answer on the lines end in the newest frame published; only the first line can be the torn rest of a frame and only the last one garbage. Taking any number of lines off the front keeps that (`Backlog`). |

`updates` counts the calls of `SendStateUpdate` by goroutines of handlers; the example has none, and neither has
`go_sessions`. The two statements hold up to the first such call (`Alone`), and are false after it: it stores its
state after the client has moved on. Everything else is proved with any number of them; `GracefulLeave` says where
such updates can get in, and only its conjunct about the stored state supposes that there are none.

Python, C++, OCaml:

| theorem | argument |
|---|---|
| `TypeCorrect` (each module) | `TypeInv` adds `Identities`, in Python also `Dialled`. |
| `PyProofs!ConversationHolds` | `HandshakeInv` (no connection while idle, nothing sent before `register`), `ReplyInv`, and `PongInv`, which worker tasks of any session keep because a task sends and stores its state in one step of the event loop. |
| `ReconnectBudgetHolds` (each module) | `BudgetInv` as for Rust; `RunStepPlace` says once which places of `run` a step leads to, so that only connecting, the end of a session and waking up need a look. In Python it is `AttemptsBoundedHolds` and `BackoffSinceReadyHolds`: `BackoffInv` says `delay = DelayAfter(streak, ...)` at every place and not only at the sleep; `WakeUp` is `NextDelayAfter`, READY its base case. |
| `PyProofs!ImplementsContract`, while `updates = 0` | `LifecycleInv` ties `state` to `pc` on a live connection; `UpdatesGrow` says that before the first update no worker has changed it. |
| `CppProofs!ImplementsContract`, `OcamlProofs!ImplementsContract` | The same with the short contract. In the message loop the state is REGISTERED or RUNNING, CONFIGURED only between the two announcements. |
| `PyProofs!GracefulStopsNewestHolds` | `WorkerInv`: workers are numbered in the order of their connections, none is started on a connection that ended gracefully, and while a session ends that way its last worker is cancelled already. |
| `CppProofs!ConversationHolds`, `OcamlProofs!ConversationHolds` | `ReplyInv`, and `ReportInv`: aegisd was told nothing before REGISTERED resets the state, and from then on the stored state is what the announcements lead to. |
| `CppProofs!OneWorkerHolds` | `WorkerInv`: only the last thread is alive, and with it the one before it while that is joined. |
| `CppProofs!CleanExitHolds` | `ExitInv`: SHUTDOWN is sent when `WorkerInv` and the join leave no thread, and nothing is spawned or sent after it. |
| `OcamlProofs!CleanExitHolds` | `ExitInv`: at `graceful_shutdown` the last frame acknowledged SHUTDOWN, which is `ReplyInv` when the ACK is sent; afterwards nothing is sent. |

In Python a worker's update ends what the contract says for good reason: the example's worker announces WAITING or
RUNNING whenever it likes. The other theorems about Python hold with any number of updates.

`ConversationHolds` of Rust and Go combines the theorems about its conjuncts.

Only model-checked: the liveness properties, since the prover does not handle fairness.

## 5. Not modelled

* The contents of payloads (topics, prices, capabilities, `socketPath`), message ids as UUIDs, timestamps, uptime,
  logging. `component_id` in the Python, C++ and OCaml clients, which only print what they are given (Python
  registers with the configured one each time).
* `SendError` called from a Go handler's goroutine; `send_error` in Python and OCaml, which nobody calls; in C++,
  `send_state_update` and `send_error` called from a handler's own thread.
* Which hooks are called in C++ and OCaml, apart from `on_running`.
* Data races whose outcome no property tells apart: `running_` in C++ is a plain `bool`, tested between two reads
  of the socket, so that each test loads it; `workerCancel`, `socketPath` and `ComponentID` in Go are shared without
  synchronisation, and a torn string is not modelled.
* A partial write of a line: a send succeeds or fails as a whole. Exhausted file descriptors and threads.
* A client with `reconnect = false` is not checked by a run. The theorems cover it: `ReconnectBudgetHolds` of
  each client says that it connects once.
* Delays are natural numbers. The clients compute them as durations or floats, which are exact for whole seconds up
  to the caps in use; rounding of fractions of a second is left out.
* Loggers and re-exports.

## 6. Plan

1. Done: protocol, daemon, contract; the five clients; both data streams; the compositions with the Rust and the Go
   example; the proofs above.
2. Done: every invariant, every action property and every refinement that a run checks is proved: among them all five
   refinements of the contract, and number and length of the reconnection attempts of all five clients.
3. Left: the outcome of `run` in Python (`result`) has no property beyond `ReconnectBudget`. `LifecycleContract` has
   no place for what workers announce; a contract that tells their announcements from those of `run` would also say
   something about Go and Python clients after the first of them.
