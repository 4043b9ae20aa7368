------------------------------- MODULE Aegisd -------------------------------
(***************************************************************************)
(* The daemon at the other end of the component socket, and the socket.    *)
(* aegisd is not part of this repository: it is modelled from what the     *)
(* SDKs expect of it.  It answers REGISTER, acknowledges every             *)
(* STATE_UPDATE, sends CONFIGURE once READY was announced, and may at any  *)
(* time send unsolicited frames (PING, SHUTDOWN, REBORN, ERROR, frames a   *)
(* component must ignore, lines it cannot decode), close the connection,   *)
(* or fall silent.                                                         *)
(*                                                                         *)
(* The socket is a reliable FIFO in each direction.  The direction to the  *)
(* component is the queue `inbox'.  The direction to aegisd is kept as the *)
(* whole log `sent' of one connection, of which aegisd has processed the   *)
(* first `seen' frames.                                                    *)
(***************************************************************************)
EXTENDS AegisProtocol

CONSTANTS
    Pushes,        \* the kinds of unsolicited frames aegisd sends
    RegReplies,    \* the ways aegisd reacts to REGISTER
    MaxPush        \* bound on the unsolicited frames of a behaviour

VARIABLES
    link,      \* "down", "up", or "eof": aegisd closed its end
    inbox,     \* frames on their way to the component
    sent,      \* every frame the component sent on this connection
    seen,      \* how many of them aegisd has processed
    asked,     \* commands of the requests of this connection; the id is the index
    greeted,   \* aegisd answered REGISTER with REGISTERED on this connection
    cfgDue,    \* READY was announced (or CONFIGURE failed): CONFIGURE is due
    pushed     \* unsolicited frames sent so far

linkVars == <<link, inbox, sent>>
srvVars  == <<seen, asked, greeted, cfgDue, pushed>>

\* Unsolicited frames.  The component has to react to the first six, to ignore
\* the next six, and cannot decode the last.
PushTable ==
    [ping          |-> [type |-> "HEARTBEAT", command |-> "PING",          arg |-> NoId],
     reborn        |-> [type |-> "LIFECYCLE", command |-> "REBORN",        arg |-> NoId],
     shutdown      |-> [type |-> "LIFECYCLE", command |-> "SHUTDOWN",      arg |-> NoId],
     configure     |-> [type |-> "CONFIG",    command |-> "CONFIGURE",     arg |-> NoId],
     recoverable   |-> [type |-> "ERROR",     command |-> "RUNTIME_ERROR", arg |-> "recoverable"],
     fatal         |-> [type |-> "ERROR",     command |-> "RUNTIME_ERROR", arg |-> "fatal"],
     nack          |-> [type |-> "CONTROL",   command |-> "NACK",          arg |-> NoId],
     lifecycle_ack |-> [type |-> "LIFECYCLE", command |-> "ACK",           arg |-> NoId],
     odd_lifecycle |-> [type |-> "LIFECYCLE", command |-> "STATE_UPDATE",  arg |-> NoId],
     odd_config    |-> [type |-> "CONFIG",    command |-> "CONFIGURED",    arg |-> NoId],
     odd_heartbeat |-> [type |-> "HEARTBEAT", command |-> "PONG",          arg |-> NoId],
     data          |-> [type |-> "DATA",      command |-> "ACK",           arg |-> NoId],
     undecodable   |-> [type |-> Undecodable, command |-> "ACK",           arg |-> NoId]]

PushKinds == {"ping", "reborn", "shutdown", "configure", "recoverable", "fatal",
              "nack", "lifecycle_ack", "odd_lifecycle", "odd_config",
              "odd_heartbeat", "data", "undecodable"}

RegReplyKinds == {"registered", "rejected", "no_key", "not_string",
                  "undecodable", "silent"}

ASSUME AegisdAssumption == /\ Pushes \subseteq PushKinds
                           /\ RegReplies \subseteq RegReplyKinds
                           /\ MaxPush \in Nat

LinkTypeOK ==
    /\ link \in {"down", "up", "eof"}
    /\ inbox \in Seq(ServerFrames)
    /\ sent \in Seq(ComponentFrames)
    /\ seen \in Nat
    /\ asked \in Seq(Requests)
    /\ greeted \in BOOLEAN
    /\ cfgDue \in BOOLEAN
    /\ pushed \in Nat

LinkInit ==
    /\ link = "down"
    /\ inbox = <<>>
    /\ sent = <<>>
    /\ seen = 0
    /\ asked = <<>>
    /\ greeted = FALSE
    /\ cfgDue = FALSE
    /\ pushed = 0

\* The component's connect() succeeded: a fresh connection.
OpenLink ==
    /\ link' = "up"
    /\ inbox' = <<>>
    /\ sent' = <<>>
    /\ seen' = 0
    /\ asked' = <<>>
    /\ greeted' = FALSE
    /\ cfgDue' = FALSE
    /\ UNCHANGED pushed

\* The component dropped its end.  Frames still in flight to it are lost.
CloseLink ==
    /\ link' = "down"
    /\ inbox' = <<>>
    /\ UNCHANGED <<sent, seen, asked, greeted, cfgDue, pushed>>

-----------------------------------------------------------------------------
\* aegisd puts a frame into the socket; a request gets the next id.
Push(type, command, arg) ==
    IF command \in Requests
    THEN /\ inbox' = Append(inbox, FromServer(type, command, Len(asked) + 1, arg))
         /\ asked' = Append(asked, command)
    ELSE /\ inbox' = Append(inbox, FromServer(type, command, 0, arg))
         /\ UNCHANGED asked

\* aegisd answers REGISTER.  A component that names its id keeps it.
AnswerRegister(frame) ==
    /\ frame.command = "REGISTER"
    /\ \E reply \in RegReplies :
        \/ /\ reply = "registered"
           /\ \E id \in IF frame.arg = NoId THEN ComponentIds ELSE {frame.arg} :
                Push("LIFECYCLE", "REGISTERED", id)
           /\ greeted' = TRUE
        \/ /\ reply = "rejected"
           /\ Push("ERROR", "REGISTRATION_FAILED", "fatal")
           /\ UNCHANGED greeted
        \/ /\ reply = "no_key"
           /\ Push("LIFECYCLE", "REGISTERED", NoKey)
           /\ greeted' = TRUE
        \/ /\ reply = "not_string"
           /\ Push("LIFECYCLE", "REGISTERED", NotString)
           /\ greeted' = TRUE
        \/ /\ reply = "undecodable"
           /\ Push(Undecodable, "ACK", NoId)
           /\ UNCHANGED greeted
        \/ /\ reply = "silent"
           /\ UNCHANGED <<inbox, asked, greeted>>
    /\ UNCHANGED <<cfgDue, pushed>>

\* aegisd acknowledges a STATE_UPDATE; READY also makes CONFIGURE due.
AnswerStateUpdate(frame) ==
    /\ frame.command = "STATE_UPDATE"
    /\ Push("CONTROL", "ACK", NoId)
    /\ cfgDue' = (cfgDue \/ frame.arg = "READY")
    /\ UNCHANGED <<greeted, pushed>>

\* aegisd may retry CONFIGURE after the component reported a recoverable error.
AnswerError(frame) ==
    /\ frame.command = "RUNTIME_ERROR"
    /\ \/ /\ pushed < MaxPush
          /\ pushed' = pushed + 1
          /\ cfgDue' = TRUE
       \/ UNCHANGED <<pushed, cfgDue>>
    /\ UNCHANGED <<inbox, asked, greeted>>

\* ACK, PONG and the component's own SHUTDOWN need no answer.
AnswerNothing(frame) ==
    /\ frame.command \in {"ACK", "PONG", "SHUTDOWN"}
    /\ UNCHANGED <<inbox, asked, greeted, cfgDue, pushed>>

SrvProcess ==
    /\ link = "up"
    /\ seen < Len(sent)
    /\ seen' = seen + 1
    /\ \/ AnswerRegister(sent[seen + 1])
       \/ AnswerStateUpdate(sent[seen + 1])
       \/ AnswerError(sent[seen + 1])
       \/ AnswerNothing(sent[seen + 1])
    /\ UNCHANGED <<link, sent>>

SrvConfigure ==
    /\ link = "up"
    /\ cfgDue
    /\ Push("CONFIG", "CONFIGURE", NoId)
    /\ cfgDue' = FALSE
    /\ UNCHANGED <<link, sent, seen, greeted, pushed>>

SrvPush ==
    /\ link = "up"
    /\ greeted
    /\ pushed < MaxPush
    /\ pushed' = pushed + 1
    /\ \E kind \in Pushes :
        Push(PushTable[kind].type, PushTable[kind].command, PushTable[kind].arg)
    /\ UNCHANGED <<link, sent, seen, greeted, cfgDue>>

\* aegisd closes its end, or dies.
SrvClose ==
    /\ link = "up"
    /\ link' = "eof"
    /\ UNCHANGED <<inbox, sent, seen, asked, greeted, cfgDue, pushed>>

SrvNext == SrvProcess \/ SrvConfigure \/ SrvPush \/ SrvClose
=============================================================================
