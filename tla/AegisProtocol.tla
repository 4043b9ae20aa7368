--------------------------- MODULE AegisProtocol ---------------------------
(***************************************************************************)
(* The vocabulary of the Aegis component protocol: message types, commands *)
(* and component states as the SDKs declare them, and the two kinds of     *)
(* frame that travel over a component's Unix socket.  A frame keeps the    *)
(* fields the control flow of an SDK depends on; `arg' stands for the one  *)
(* payload value that matters (a state, an identity, "recoverable").       *)
(***************************************************************************)
EXTENDS Naturals, Sequences

CONSTANT ComponentIds      \* component ids that aegisd can assign

\* An absent or empty component id.
NoId == ""

MessageTypes == {"CONTROL", "LIFECYCLE", "CONFIG", "ERROR", "HEARTBEAT", "DATA"}

Commands == {"REGISTER", "REGISTERED", "STATE_UPDATE", "SHUTDOWN", "REBORN",
             "ACK", "NACK", "CONFIGURE", "CONFIGURED", "PING", "PONG",
             "RUNTIME_ERROR", "REGISTRATION_FAILED"}

ComponentStates == {"INIT", "REGISTERED", "INITIALIZING", "READY", "CONFIGURED",
                    "RUNNING", "WAITING", "ERROR", "FINISHED", "SHUTDOWN"}

\* A line that does not decode to an Envelope (bad JSON, an unknown variant).
Undecodable == "UNDECODABLE"

\* A REGISTERED payload without the key "component_id".
NoKey == "<no key>"

\* A "component_id" whose JSON value is not a string.
NotString == "<not a string>"

Args == ComponentStates \cup ComponentIds
          \cup {NoId, NoKey, NotString, "recoverable", "fatal"}

ASSUME ComponentIdsAssumption ==
    ComponentIds \cap {NoId, NoKey, NotString} = {}

\* Frames from aegisd.  id numbers the requests of one connection; 0 marks a
\* frame that asks for no reply.
ServerFrames == [type    : MessageTypes \cup {Undecodable},
                 command : Commands,
                 id      : Nat,
                 arg     : Args]

\* Frames from the component.  corr is the correlation id, 0 when it is absent.
ComponentFrames == [command : Commands, corr : Nat, arg : Args]

FromServer(type, command, id, arg) ==
    [type |-> type, command |-> command, id |-> id, arg |-> arg]

\* Envelope::new followed, when corr # 0, by with_correlation.
Envelope(command, corr, arg) ==
    [command |-> command, corr |-> corr, arg |-> arg]

\* The commands that the component answers, and the command it answers with.
Requests == {"PING", "CONFIGURE", "REBORN", "SHUTDOWN"}

ReplyTo(command) == IF command = "PING" THEN "PONG" ELSE "ACK"
=============================================================================
