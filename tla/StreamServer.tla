---------------------------- MODULE StreamServer ----------------------------
(***************************************************************************)
(* The orchestrator's end of a data stream socket, and the socket.  It is  *)
(* not part of this repository: it is modelled from what the data stream   *)
(* clients of the SDKs expect.  It reads one handshake per connection,     *)
(* answers it, and after an "ok" publishes frames, numbered from 1 on each *)
(* connection.  It may also send a line nobody can decode, fall silent, or *)
(* close the connection at any time.                                       *)
(***************************************************************************)
EXTENDS Naturals, Sequences

CONSTANT MaxFrames     \* bound on the frames published on one connection

ASSUME StreamAssumption == MaxFrames \in Nat

VARIABLES
    sock,       \* "closed", "open", or "eof": the server closed its end
    wire,       \* lines on their way to the client
    shaken,     \* the client's handshake: "none", "sent" or "answered"
    published   \* frames published on this connection

streamVars == <<sock, wire, shaken, published>>

Answers == {"ok", "rejected", "garbage"}

\* Lines that carry a frame; the others carry a handshake answer or garbage.
Frame(n) == [kind |-> "frame", n |-> n]
Line(kind) == [kind |-> kind, n |-> 0]

Lines == [kind : Answers \cup {"frame"}, n : 0 .. MaxFrames]

StreamTypeOK ==
    /\ sock \in {"closed", "open", "eof"}
    /\ wire \in Seq(Lines)
    /\ shaken \in {"none", "sent", "answered"}
    /\ published \in 0 .. MaxFrames

StreamInit ==
    /\ sock = "closed"
    /\ wire = <<>>
    /\ shaken = "none"
    /\ published = 0

\* connect() succeeded.
OpenSock ==
    /\ sock' = "open"
    /\ wire' = <<>>
    /\ shaken' = "none"
    /\ published' = 0

\* The client dropped its end.
CloseSock ==
    /\ sock' = "closed"
    /\ wire' = <<>>
    /\ UNCHANGED <<shaken, published>>

AnswerHandshake ==
    /\ sock = "open"
    /\ shaken = "sent"
    /\ \E answer \in Answers : wire' = Append(wire, Line(answer))
    /\ shaken' = IF wire'[Len(wire')].kind = "ok" THEN "answered" ELSE "none"
    /\ UNCHANGED <<sock, published>>

Publish ==
    /\ sock = "open"
    /\ shaken = "answered"
    /\ published < MaxFrames
    /\ published' = published + 1
    /\ wire' = Append(wire, Frame(published + 1))
    /\ UNCHANGED <<sock, shaken>>

\* A line that is no frame ends what the server has to say.
PublishGarbage ==
    /\ sock = "open"
    /\ shaken = "answered"
    /\ wire' = Append(wire, Line("garbage"))
    /\ shaken' = "none"
    /\ UNCHANGED <<sock, published>>

ServerCloses ==
    /\ sock = "open"
    /\ sock' = "eof"
    /\ UNCHANGED <<wire, shaken, published>>

StreamServerNext == AnswerHandshake \/ Publish \/ PublishGarbage \/ ServerCloses
=============================================================================
