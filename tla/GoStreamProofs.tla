---------------------------- MODULE GoStreamProofs ----------------------------
(***************************************************************************)
(* Proofs about the Go data stream worker for every number of frames and   *)
(* connections, with and without coalesced lines.                          *)
(***************************************************************************)
EXTENDS GoStream, SequenceTheorems, TLAPS

\* Frames on the wire are numbered from 1, whatever a dropped reader took along.
Numbered == \A i \in DOMAIN wire : wire[i].kind = "frame" => wire[i].n # 0

StreamInv == TypeOK /\ Numbered

\* Between attempts, before the first and after the last one there is no socket.
SocketInv == pc \in {"start", "open", "retry", "returned"} => sock = "closed"

-----------------------------------------------------------------------------
(* Sequences of lines *)

GoodLine(line) == line \in Lines /\ (line.kind = "frame" => line.n # 0)
GoodWire(lines) == lines \in Seq(Lines) /\ \A i \in DOMAIN lines : GoodLine(lines[i])

\* The empty wire, and what Append, Tail and the loss of a reader leave of a wire.
LEMMA EmptyWire == GoodWire(<<>>) /\ <<>> \in Seq(1 .. MaxFrames)
  BY DEF GoodWire

LEMMA AppendWire ==
    ASSUME NEW w, GoodWire(w), NEW line, GoodLine(line)
    PROVE  GoodWire(Append(w, line))
  BY DEF GoodWire, GoodLine

LEMMA TailWire ==
    ASSUME NEW w, GoodWire(w), w # <<>>
    PROVE  GoodWire(Tail(w)) /\ GoodLine(Head(w))
  BY DEF GoodWire

\* The orchestrator's lines.
LEMMA LineTypes ==
    /\ \A kind \in Answers : GoodLine(Line(kind))
    /\ \A n \in 1 .. MaxFrames : GoodLine(Frame(n))
    /\ "garbage" \in Answers
  BY StreamAssumption DEF GoodLine, Line, Frame, Lines, Answers

\* A reader takes a prefix along, or all but the rest of a line.
LEMMA LeftoversWire ==
    ASSUME NEW w, GoodWire(w), NEW rest \in Leftovers(w)
    PROVE  GoodWire(rest)
<1>1. w \in Seq(Lines) /\ Len(w) \in Nat /\ DOMAIN w = 1 .. Len(w)
  BY DEF GoodWire
<1>2. \A k \in 1 .. Len(w) + 1 : GoodWire(SubSeq(w, k, Len(w)))
  <2> TAKE k \in 1 .. Len(w) + 1
  <2>1. SubSeq(w, k, Len(w)) \in Seq(Lines)
    BY <1>1
  <2>2. \A i \in DOMAIN SubSeq(w, k, Len(w)) :
           i + k - 1 \in 1 .. Len(w) /\ SubSeq(w, k, Len(w))[i] = w[i + k - 1]
    BY <1>1
  <2> QED
    BY <1>1, <2>1, <2>2 DEF GoodWire
<1>3. \A v : GoodWire(v) => GoodWire(<<Line("garbage")>> \o v)
  <2> SUFFICES ASSUME NEW v, GoodWire(v)
               PROVE  GoodWire(<<Line("garbage")>> \o v)
    OBVIOUS
  <2>1. GoodLine(Line("garbage")) /\ v \in Seq(Lines) /\ Len(v) \in Nat
        /\ DOMAIN v = 1 .. Len(v)
    BY LineTypes DEF GoodWire
  <2> DEFINE g == <<Line("garbage")>>
  <2>2. g \in Seq(Lines) /\ Len(g) = 1 /\ g[1] = Line("garbage")
    BY <2>1 DEF GoodLine
  <2>3. g \o v \in Seq(Lines) /\ Len(g \o v) = Len(v) + 1
    BY <2>1, <2>2
  <2>4. DOMAIN (g \o v) = 1 .. Len(v) + 1
    BY <2>3
  <2>5. \A i \in 1 .. Len(v) + 1 : (g \o v)[i] = IF i = 1 THEN g[1] ELSE v[i - 1]
    BY <2>1, <2>2
  <2> QED
    BY <2>1, <2>2, <2>3, <2>4, <2>5 DEF GoodWire
<1>4. CASE ~Coalesce
  BY <1>4 DEF Leftovers
<1>5. CASE /\ Coalesce
           /\ \E k \in 1 .. Len(w) + 1 : rest = SubSeq(w, k, Len(w))
  BY <1>2, <1>5
<1>6. CASE /\ Coalesce
           /\ \E k \in 1 .. Len(w) : rest = <<Line("garbage")>> \o SubSeq(w, k + 1, Len(w))
  <2>1. PICK k \in 1 .. Len(w) : rest = <<Line("garbage")>> \o SubSeq(w, k + 1, Len(w))
    BY <1>6
  <2>2. k + 1 \in 1 .. Len(w) + 1
    BY <1>1
  <2> QED
    BY <1>2, <1>3, <2>1, <2>2
<1> QED
  BY <1>4, <1>5, <1>6 DEF Leftovers

-----------------------------------------------------------------------------
(* Type correctness *)

\* Every step of the orchestrator keeps StreamInv.
LEMMA ServerInv ==
    ASSUME StreamInv, ServerStep
    PROVE  StreamInv'
<1>1. GoodWire(wire) /\ published \in 0 .. MaxFrames
  BY DEF StreamInv, TypeOK, StreamTypeOK, Numbered, GoodWire, GoodLine
<1>2. GoodWire(wire') /\ published' \in 0 .. MaxFrames
  <2>1. CASE AnswerHandshake
    BY <1>1, <2>1, AppendWire, LineTypes DEF AnswerHandshake
  <2>2. CASE Publish
    <3>1. published + 1 \in 1 .. MaxFrames
      BY <1>1, <2>2, StreamAssumption DEF Publish
    <3> QED
      BY <1>1, <2>2, <3>1, AppendWire, LineTypes DEF Publish
  <2>3. CASE PublishGarbage
    BY <1>1, <2>3, AppendWire, LineTypes DEF PublishGarbage
  <2>4. CASE ServerCloses
    BY <1>1, <2>4 DEF ServerCloses
  <2> QED
    BY <2>1, <2>2, <2>3, <2>4 DEF ServerStep, StreamServerNext
<1>3. sock' \in {"closed", "open", "eof"} /\ shaken' \in {"none", "sent", "answered"}
  BY DEF ServerStep, StreamServerNext, AnswerHandshake, Publish, PublishGarbage,
     ServerCloses, StreamInv, TypeOK, StreamTypeOK
<1>4. UNCHANGED <<pc, ctxDone, dials, handled>>
  BY DEF ServerStep, workerVars
<1> QED
  BY <1>2, <1>3, <1>4 DEF StreamInv, TypeOK, StreamTypeOK, Numbered, GoodWire, GoodLine

\* Every step of the worker keeps StreamInv.
LEMMA WorkerInv ==
    ASSUME StreamInv, WorkerStep
    PROVE  StreamInv'
<1>1. GoodWire(wire) /\ handled \in Seq(1 .. MaxFrames)
  BY DEF StreamInv, TypeOK, StreamTypeOK, Numbered, GoodWire, GoodLine
<1>2. GoodWire(wire')
  <2>1. ASSUME CloseSock \/ OpenSock PROVE GoodWire(wire')
    BY <2>1, EmptyWire DEF CloseSock, OpenSock
  <2>2. CASE Decode
    BY <1>1, <2>1, <2>2, TailWire, LeftoversWire DEF Decode, OpenFails
  <2>3. CASE NextFrame
    BY <1>1, <2>3, TailWire DEF NextFrame
  <2> QED
    BY <1>1, <2>1, <2>2, <2>3 DEF WorkerStep, Start, Dial, Encode, RetryCancelled,
       RetryAgain, NextError, NextCancelled, OpenFails, Leave, streamVars
<1>3. handled' \in Seq(1 .. MaxFrames)
  <2>1. CASE NextFrame
    <3>1. GoodLine(Head(wire)) /\ Head(wire).kind = "frame"
      BY <1>1, <2>1, TailWire DEF NextFrame
    <3>2. Head(wire).n \in 1 .. MaxFrames
      BY <3>1, StreamAssumption DEF GoodLine, Lines
    <3> QED
      BY <1>1, <2>1, <3>2 DEF NextFrame
  <2>2. CASE ~NextFrame
    BY <1>1, <2>2 DEF WorkerStep, Start, Dial, Encode, Decode, RetryCancelled,
       RetryAgain, NextError, NextCancelled, OpenFails, Leave, workerVars
  <2> QED
    BY <2>1, <2>2
<1>4. dials' \in 0 .. MaxDials
  BY WorkerAssumption DEF StreamInv, TypeOK, WorkerStep, Start, Dial, Encode, Decode,
     RetryCancelled, RetryAgain, NextFrame, NextError, NextCancelled, OpenFails, Leave,
     workerVars
<1>5. ctxDone' \in BOOLEAN
  <2>1. UNCHANGED ctxDone
    BY DEF WorkerStep, Start, Dial, Encode, Decode, RetryCancelled, RetryAgain,
       NextFrame, NextError, NextCancelled, OpenFails, Leave, workerVars
  <2>2. ctxDone \in BOOLEAN
    BY Zenon DEF StreamInv, TypeOK
  <2> QED
    BY <2>1, <2>2, Zenon
<1>6. /\ sock' \in {"closed", "open", "eof"}
      /\ shaken' \in {"none", "sent", "answered"}
      /\ published' \in 0 .. MaxFrames
  BY StreamAssumption DEF StreamInv, TypeOK, StreamTypeOK, WorkerStep, Start, Dial,
     Encode, Decode, RetryCancelled, RetryAgain, NextFrame, NextError, NextCancelled,
     OpenFails, OpenSock, CloseSock, Leave, streamVars
<1>7. pc' \in {"start", "open", "handshake", "await_response", "retry", "next",
               "returned"}
  BY DEF StreamInv, TypeOK, WorkerStep, Start, Dial, Encode, Decode, RetryCancelled,
     RetryAgain, NextFrame, NextError, NextCancelled, OpenFails, Leave
<1> QED
  BY <1>2, <1>3, <1>4, <1>5, <1>6, <1>7
     DEF StreamInv, TypeOK, StreamTypeOK, Numbered, GoodWire, GoodLine

\* StreamInv is an invariant.
LEMMA StreamInvariance == Spec => []StreamInv
<1>1. Init => StreamInv
  <2> SUFFICES ASSUME Init
               PROVE  StreamInv
    OBVIOUS
  <2>1. GoodWire(wire) /\ handled \in Seq(1 .. MaxFrames)
    BY EmptyWire DEF Init, StreamInit
  <2>2. published \in 0 .. MaxFrames /\ dials \in 0 .. MaxDials
    BY StreamAssumption, WorkerAssumption DEF Init, StreamInit
  <2>3. ctxDone \in BOOLEAN
    BY Zenon DEF Init
  <2> QED
    BY <2>1, <2>2, <2>3 DEF Init, StreamInit, StreamInv, TypeOK, StreamTypeOK, Numbered,
       GoodWire, GoodLine
<1>2. StreamInv /\ [Next]_vars => StreamInv'
  <2> SUFFICES ASSUME StreamInv, [Next]_vars
               PROVE  StreamInv'
    OBVIOUS
  <2>1. CASE WorkerStep
    BY <2>1, WorkerInv
  <2>2. CASE Cancel
    <3>1. ctxDone' \in BOOLEAN
      BY <2>2, Zenon DEF Cancel
    <3> QED
      BY <2>2, <3>1 DEF Cancel, StreamInv, TypeOK, StreamTypeOK, Numbered, streamVars
  <2>3. CASE ServerStep
    BY <2>3, ServerInv
  <2>4. CASE UNCHANGED vars
    <3>1. ctxDone' \in BOOLEAN
      BY <2>4, Zenon DEF vars, workerVars, StreamInv, TypeOK
    <3> QED
      BY <2>4, <3>1 DEF vars, StreamInv, TypeOK, StreamTypeOK, Numbered, streamVars,
         workerVars
  <2> QED
    BY <2>1, <2>2, <2>3, <2>4 DEF Next
<1> QED
  BY <1>1, <1>2, PTL DEF Spec

\* Every variable of the worker and of its socket keeps its type; in particular only
\* frames the orchestrator numbered are ever handled, whatever a read tore apart.
THEOREM TypeCorrect == Spec => []TypeOK
<1>1. StreamInv => TypeOK
  BY DEF StreamInv
<1> QED
  BY StreamInvariance, <1>1, PTL

-----------------------------------------------------------------------------
(* The socket *)

\* OpenStream's error paths and streamWorker's deferred Close: between attempts, and
\* after the worker returned, it holds no connection, however often it retried.
THEOREM NoLeakedSocketHolds == Spec => []NoLeakedSocket
<1>1. Init => SocketInv
  BY DEF Init, StreamInit, SocketInv
<1>2. SocketInv /\ [Next]_vars => SocketInv'
  <2> SUFFICES ASSUME SocketInv, [Next]_vars
               PROVE  SocketInv'
    OBVIOUS
  <2>1. CASE Start \/ Dial
    BY <2>1 DEF Start, Dial, SocketInv, streamVars
  <2>2. CASE Encode \/ Decode
    BY <2>2 DEF Encode, Decode, OpenFails, CloseSock, SocketInv
  <2>3. CASE RetryCancelled \/ RetryAgain
    BY <2>3 DEF RetryCancelled, RetryAgain, SocketInv, streamVars
  <2>4. CASE NextFrame \/ NextError \/ NextCancelled
    BY <2>4 DEF NextFrame, NextError, NextCancelled, Leave, CloseSock, SocketInv
  <2>5. CASE Cancel \/ UNCHANGED vars
    BY <2>5 DEF Cancel, vars, SocketInv, streamVars
  <2>6. CASE ServerStep
    BY <2>6 DEF ServerStep, StreamServerNext, AnswerHandshake, Publish, PublishGarbage,
       ServerCloses, SocketInv
  <2> QED
    BY <2>1, <2>2, <2>3, <2>4, <2>5, <2>6 DEF Next, WorkerStep
<1>3. SocketInv => NoLeakedSocket
  BY DEF SocketInv, NoLeakedSocket
<1> QED
  BY <1>1, <1>2, <1>3, PTL DEF Spec

-----------------------------------------------------------------------------
(* No gap *)

\* The lines end in the frame `newest', or in a line of garbage behind it when the
\* orchestrator fell silent.  Only the first line may be garbage as well: what a reader
\* left of a frame.
Backlog(lines, newest, silent) ==
    LET last == IF silent THEN Len(lines) - 1 ELSE Len(lines)
    IN  \A i \in DOMAIN lines :
            \/ i \in {1, last + 1} /\ lines[i].kind # "frame"
            \/ i <= last /\ lines[i] = Frame(newest + i - last)

\* What is in the socket at each await: nothing before the handshake and its answer,
\* then the answer and the backlog, then the backlog behind what was handled.
GapInv ==
    /\ pc \notin {"next", "returned"} => handled = <<>>
    /\ pc = "handshake" => wire = <<>> /\ shaken = "none"
    /\ pc = "await_response" =>
          \/ shaken = "sent" /\ wire = <<>>
          \/ shaken = "none" /\ wire # <<>> /\ Head(wire).kind # "ok"
          \/ /\ shaken # "sent" /\ wire # <<>>
             /\ Backlog(Tail(wire), published, shaken = "none")
    /\ pc = "next" => shaken # "sent" /\ Backlog(Received, published, shaken = "none")

\* A further frame extends the backlog.
LEMMA PublishBacklog ==
    ASSUME NEW w \in Seq(Lines), NEW n \in Nat, Backlog(w, n, FALSE)
    PROVE  Backlog(Append(w, Frame(n + 1)), n + 1, FALSE)
<1> DEFINE v == Append(w, Frame(n + 1))
<1>1. Len(w) \in Nat /\ DOMAIN w = 1 .. Len(w)
  OBVIOUS
<1>2. /\ Len(v) = Len(w) + 1 /\ DOMAIN v = 1 .. Len(w) + 1
      /\ v[Len(w) + 1] = Frame(n + 1)
      /\ \A i \in 1 .. Len(w) : v[i] = w[i]
  OBVIOUS
<1>3. ASSUME NEW i \in DOMAIN v
      PROVE  \/ i = 1 /\ v[i].kind # "frame"
             \/ i <= Len(v) /\ v[i] = Frame(n + 1 + i - Len(v))
  <2>1. CASE i \in 1 .. Len(w)
    <3>1. \/ i = 1 /\ w[i].kind # "frame"
          \/ w[i] = Frame(n + i - Len(w))
      BY <1>1, <2>1 DEF Backlog
    <3>2. n + i - Len(w) = n + 1 + i - Len(v)
      BY <1>1, <1>2, <2>1
    <3> HIDE DEF v
    <3> QED
      BY <1>1, <1>2, <2>1, <3>1, <3>2
  <2>2. CASE i = Len(w) + 1
    <3>1. n + 1 = n + 1 + i - Len(v)
      BY <1>1, <1>2, <2>2
    <3> HIDE DEF v
    <3> QED
      BY <1>1, <1>2, <2>2, <3>1
  <2> QED
    BY <1>1, <1>2, <2>1, <2>2
<1> QED
  BY <1>3 DEF Backlog

\* Garbage closes the backlog.
LEMMA GarbageBacklog ==
    ASSUME NEW w \in Seq(Lines), NEW n \in Nat, Backlog(w, n, FALSE)
    PROVE  Backlog(Append(w, Line("garbage")), n, TRUE)
<1> DEFINE v == Append(w, Line("garbage"))
<1>1. Len(w) \in Nat /\ DOMAIN w = 1 .. Len(w)
  OBVIOUS
<1>2. Line("garbage") \in Lines /\ Line("garbage").kind # "frame"
  BY LineTypes DEF GoodLine, Line
<1>3. /\ Len(v) = Len(w) + 1 /\ DOMAIN v = 1 .. Len(w) + 1
      /\ v[Len(w) + 1] = Line("garbage")
      /\ \A i \in 1 .. Len(w) : v[i] = w[i]
  BY <1>2
<1> HIDE DEF v
<1>4. ASSUME NEW i \in DOMAIN v
      PROVE  \/ i \in {1, Len(w) + 1} /\ v[i].kind # "frame"
             \/ i <= Len(w) /\ v[i] = Frame(n + i - Len(w))
  BY <1>1, <1>2, <1>3 DEF Backlog
<1>5. Len(v) - 1 = Len(w)
  BY <1>1, <1>3
<1> QED
  BY <1>4, <1>5 DEF Backlog, v

\* What a reader leaves of a backlog is one.
LEMMA LeftoversBacklog ==
    ASSUME NEW w, GoodWire(w), NEW n \in Nat, NEW silent \in BOOLEAN,
           Backlog(w, n, silent), NEW rest \in Leftovers(w)
    PROVE  Backlog(rest, n, silent)
<1> DEFINE cut == IF silent THEN 1 ELSE 0
<1>1. w \in Seq(Lines) /\ Len(w) \in Nat /\ DOMAIN w = 1 .. Len(w)
  BY DEF GoodWire
<1>0. cut \in {0, 1}
  OBVIOUS
<1>2. \A i \in 1 .. Len(w) :
         \/ i \in {1, Len(w) - cut + 1} /\ w[i].kind # "frame"
         \/ i <= Len(w) - cut /\ w[i] = Frame(n + i - (Len(w) - cut))
  BY <1>1 DEF Backlog
<1> HIDE DEF cut
<1>3. ASSUME NEW v \in Seq(Lines), NEW k \in Nat, Len(v) + k = Len(w),
             \A i \in 1 .. Len(v) : \/ v[i] = w[i + k]
                                    \/ i = 1 /\ v[i].kind # "frame"
      PROVE  Backlog(v, n, silent)
  <2>1. Len(v) \in Nat /\ DOMAIN v = 1 .. Len(v)
    OBVIOUS
  <2>2. ASSUME NEW i \in DOMAIN v
        PROVE  \/ i \in {1, Len(v) - cut + 1} /\ v[i].kind # "frame"
               \/ i <= Len(v) - cut /\ v[i] = Frame(n + i - (Len(v) - cut))
    <3>1. CASE v[i] = w[i + k]
      <4>1. i + k \in 1 .. Len(w) /\ (i + k = 1 => i = 1)
        BY <1>1, <1>3, <2>1
      <4>2. /\ i \in Nat /\ cut \in Nat /\ Len(v) \in Nat
            /\ Len(w) = Len(v) + k
        <5>1. i \in Nat /\ Len(v) \in Nat
          BY <2>1
        <5>2. cut \in Nat
          BY <1>0
        <5> QED
          BY <1>3, <5>1, <5>2
      <4>3. i + k = Len(w) - cut + 1 <=> i = Len(v) - cut + 1
        BY <4>2
      <4>4. i + k <= Len(w) - cut <=> i <= Len(v) - cut
        BY <4>2
      <4>5. n + (i + k) - (Len(w) - cut) = n + i - (Len(v) - cut)
        BY <4>2
      <4> QED
        BY <1>2, <3>1, <4>1, <4>3, <4>4, <4>5
    <3>2. CASE i = 1 /\ v[i].kind # "frame"
      BY <3>2
    <3> QED
      BY <1>3, <2>1, <3>1, <3>2
  <2> QED
    BY <2>2 DEF Backlog, cut
<1>4. ASSUME NEW k \in 1 .. Len(w) + 1
      PROVE  /\ SubSeq(w, k, Len(w)) \in Seq(Lines)
             /\ Len(SubSeq(w, k, Len(w))) = Len(w) - (k - 1)
             /\ \A i \in 1 .. Len(w) - (k - 1) : SubSeq(w, k, Len(w))[i] = w[i + (k - 1)]
  <2> DEFINE v == SubSeq(w, k, Len(w))
  <2>1. v \in Seq(Lines) /\ Len(v) = Len(w) - (k - 1)
    BY <1>1
  <2>2. DOMAIN v = 1 .. Len(w) - (k - 1)
    BY <2>1
  <2>3. \A i \in DOMAIN v : v[i] = w[i + k - 1] /\ i + k - 1 = i + (k - 1)
    BY <1>1
  <2> QED
    BY <2>1, <2>2, <2>3
<1>5. CASE rest = w
  BY <1>5
<1>6. CASE \E k \in 1 .. Len(w) + 1 : rest = SubSeq(w, k, Len(w))
  <2>1. PICK k \in 1 .. Len(w) + 1 : rest = SubSeq(w, k, Len(w))
    BY <1>6
  <2>2. k - 1 \in Nat /\ Len(w) - (k - 1) + (k - 1) = Len(w)
    BY <1>1
  <2> QED
    BY <1>3, <1>4, <2>1, <2>2
<1>7. CASE \E k \in 1 .. Len(w) : rest = <<Line("garbage")>> \o SubSeq(w, k + 1, Len(w))
  <2>1. PICK k \in 1 .. Len(w) : rest = <<Line("garbage")>> \o SubSeq(w, k + 1, Len(w))
    BY <1>7
  <2> DEFINE v == SubSeq(w, k + 1, Len(w))
  <2>2. k + 1 \in 1 .. Len(w) + 1 /\ (k + 1) - 1 = k
    BY <1>1
  <2>3. /\ v \in Seq(Lines) /\ Len(v) = Len(w) - k
        /\ \A i \in 1 .. Len(w) - k : v[i] = w[i + k]
    BY <1>4, <2>2
  <2>4. Line("garbage") \in Lines /\ Line("garbage").kind # "frame"
    BY LineTypes DEF GoodLine, Line
  <2> HIDE DEF v
  <2>5. /\ <<Line("garbage")>> \in Seq(Lines) /\ Len(<<Line("garbage")>>) = 1
        /\ <<Line("garbage")>>[1] = Line("garbage")
    BY <2>4
  <2>6. /\ rest \in Seq(Lines) /\ Len(rest) = Len(w) - k + 1
        /\ \A i \in 1 .. Len(w) - k + 1 :
              rest[i] = IF i = 1 THEN Line("garbage") ELSE v[i - 1]
    BY <1>1, <2>1, <2>3, <2>5 DEF v
  <2>7. k - 1 \in Nat /\ Len(rest) + (k - 1) = Len(w)
    BY <1>1, <2>6
  <2>8. ASSUME NEW i \in 1 .. Len(rest), i # 1
        PROVE  rest[i] = w[i + (k - 1)]
    <3>1. i - 1 \in 1 .. Len(w) - k /\ (i - 1) + k = i + (k - 1)
      BY <1>1, <2>6, <2>8
    <3> QED
      BY <2>3, <2>6, <2>8, <3>1
  <2>9. 1 \in 1 .. Len(rest) => rest[1].kind # "frame"
    BY <2>4, <2>6
  <2> QED
    BY <1>3, <2>6, <2>7, <2>8, <2>9
<1> QED
  BY <1>5, <1>6, <1>7 DEF Leftovers

\* The lines that the frames h and the lines w make: Received, for handled and wire.
Joined(h, w) == [i \in DOMAIN h |-> Frame(h[i])] \o w

\* They begin with the frames and end with the lines.
LEMMA JoinedFacts ==
    ASSUME NEW h \in Seq(1 .. MaxFrames), NEW w \in Seq(Lines)
    PROVE  /\ Joined(h, w) \in Seq(Lines)
           /\ Len(h) \in Nat /\ Len(w) \in Nat
           /\ Len(Joined(h, w)) = Len(h) + Len(w)
           /\ \A i \in 1 .. Len(h) : Joined(h, w)[i] = Frame(h[i])
           /\ \A i \in 1 .. Len(w) : Joined(h, w)[Len(h) + i] = w[i]
<1> DEFINE f == [i \in DOMAIN h |-> Frame(h[i])]
<1>1. Len(h) \in Nat /\ DOMAIN h = 1 .. Len(h) /\ Len(w) \in Nat
  OBVIOUS
<1>2. \A i \in DOMAIN h : Frame(h[i]) \in Lines
  <2>1. \A n \in 1 .. MaxFrames : Frame(n) \in Lines
    BY LineTypes DEF GoodLine
  <2>2. \A i \in DOMAIN h : h[i] \in 1 .. MaxFrames
    BY <1>1, ElementOfSeq
  <2> QED
    BY <2>1, <2>2
<1>3. f \in Seq(Lines) /\ Len(f) = Len(h) /\ \A i \in 1 .. Len(h) : f[i] = Frame(h[i])
  BY <1>1, <1>2
<1> HIDE DEF f
<1>4. f \o w \in Seq(Lines) /\ Len(f \o w) = Len(h) + Len(w)
  BY <1>3
<1>5. ASSUME NEW i \in 1 .. Len(h)
      PROVE  (f \o w)[i] = f[i]
  BY <1>1, <1>3
<1>6. ASSUME NEW i \in 1 .. Len(w)
      PROVE  (f \o w)[Len(h) + i] = w[i]
  BY <1>1, <1>3
<1> QED
  BY <1>1, <1>3, <1>4, <1>5, <1>6 DEF Joined, f

\* Before a frame was handled, what was received is what is in the socket.
LEMMA JoinedNone ==
    ASSUME NEW w \in Seq(Lines)
    PROVE  Joined(<<>>, w) = w
<1>1. <<>> \in Seq(1 .. MaxFrames) /\ Len(<<>>) = 0
  OBVIOUS
<1>2. Len(w) \in Nat
  OBVIOUS
<1>3. /\ Joined(<<>>, w) \in Seq(Lines) /\ Len(Joined(<<>>, w)) = 0 + Len(w)
      /\ \A i \in 1 .. Len(w) : Joined(<<>>, w)[0 + i] = w[i]
  BY ONLY <1>1, JoinedFacts, w \in Seq(Lines)
<1>4. \A i \in 1 .. Len(w) : 0 + i = i
  BY <1>2
<1> QED
  BY <1>2, <1>3, <1>4, SeqEqual

\* A line that arrives is received behind the others.
LEMMA JoinedAppend ==
    ASSUME NEW h \in Seq(1 .. MaxFrames), NEW w \in Seq(Lines), NEW line \in Lines
    PROVE  Joined(h, Append(w, line)) = Append(Joined(h, w), line)
<1> DEFINE v == Append(w, line)
           r == Joined(h, w)
           q == Append(r, line)
<1>1. /\ v \in Seq(Lines) /\ Len(v) = Len(w) + 1 /\ v[Len(w) + 1] = line
      /\ \A i \in 1 .. Len(w) : v[i] = w[i]
  OBVIOUS
<1>2. /\ r \in Seq(Lines) /\ Len(r) = Len(h) + Len(w)
      /\ Len(h) \in Nat /\ Len(w) \in Nat
      /\ \A i \in 1 .. Len(h) : r[i] = Frame(h[i])
      /\ \A i \in 1 .. Len(w) : r[Len(h) + i] = w[i]
  BY JoinedFacts
<1> HIDE DEF r
<1>3. /\ q \in Seq(Lines) /\ Len(q) = Len(r) + 1 /\ q[Len(r) + 1] = line
      /\ \A i \in 1 .. Len(r) : q[i] = r[i]
  <2>1. r \in Seq(Lines)
    BY <1>2
  <2> QED
    BY <2>1
<1> HIDE DEF v, q
<1>4. /\ Joined(h, v) \in Seq(Lines) /\ Len(Joined(h, v)) = Len(h) + Len(v)
      /\ \A i \in 1 .. Len(h) : Joined(h, v)[i] = Frame(h[i])
      /\ \A i \in 1 .. Len(v) : Joined(h, v)[Len(h) + i] = v[i]
  BY <1>1, JoinedFacts
<1>5. ASSUME NEW i \in 1 .. Len(h) + Len(w) + 1
      PROVE  Joined(h, v)[i] = q[i]
  <2>1. CASE i \in 1 .. Len(h)
    <3>1. i \in 1 .. Len(r)
      BY <1>2, <2>1
    <3> QED
      BY <1>2, <1>3, <1>4, <2>1, <3>1
  <2>2. CASE i \notin 1 .. Len(h)
    <3>1. PICK j \in 1 .. Len(w) + 1 : i = Len(h) + j
      <4>1. i - Len(h) \in 1 .. Len(w) + 1 /\ i = Len(h) + (i - Len(h))
        BY <1>2, <2>2
      <4> QED
        BY <4>1
    <3>2. Joined(h, v)[i] = v[j]
      BY <1>1, <1>4, <3>1
    <3>3. CASE j \in 1 .. Len(w)
      <4>1. i \in 1 .. Len(r)
        BY <1>2, <3>1, <3>3
      <4> QED
        BY <1>1, <1>2, <1>3, <3>1, <3>2, <3>3, <4>1
    <3>4. CASE j = Len(w) + 1
      <4>1. i = Len(r) + 1
        BY <1>2, <3>1, <3>4
      <4> QED
        BY <1>1, <1>3, <3>2, <3>4, <4>1
    <3> QED
      BY <1>2, <3>3, <3>4
  <2> QED
    BY <2>1, <2>2
<1>6. Joined(h, v) = q
  <2>1. Len(Joined(h, v)) = Len(h) + Len(w) + 1 /\ Len(q) = Len(h) + Len(w) + 1
    BY <1>1, <1>2, <1>3, <1>4
  <2> QED
    BY <1>3, <1>4, <1>5, <2>1, SeqEqual
<1> QED
  BY <1>6 DEF v, q, r

\* Handling the next frame moves it from the socket to those that were handled.
LEMMA JoinedHandle ==
    ASSUME NEW h \in Seq(1 .. MaxFrames), NEW w \in Seq(Lines), w # <<>>,
           Head(w).n \in 1 .. MaxFrames, Head(w).kind = "frame"
    PROVE  Joined(Append(h, Head(w).n), Tail(w)) = Joined(h, w)
<1> DEFINE g == Append(h, Head(w).n)
           v == Tail(w)
<1>1. /\ g \in Seq(1 .. MaxFrames) /\ Len(g) = Len(h) + 1 /\ g[Len(h) + 1] = Head(w).n
      /\ \A i \in 1 .. Len(h) : g[i] = h[i]
  OBVIOUS
<1>2. /\ v \in Seq(Lines) /\ Len(v) = Len(w) - 1 /\ Len(w) \in Nat /\ Len(w) > 0
      /\ Len(h) \in Nat /\ \A i \in 1 .. Len(v) : v[i] = w[i + 1]
  OBVIOUS
<1>3. Frame(Head(w).n) = w[1]
  <2>1. Head(w) = w[1] /\ w[1] \in Lines
    BY <1>2
  <2> QED
    BY <2>1 DEF Lines, Frame
<1> HIDE DEF g, v
<1>4. /\ Joined(h, w) \in Seq(Lines) /\ Len(Joined(h, w)) = Len(h) + Len(w)
      /\ \A i \in 1 .. Len(h) : Joined(h, w)[i] = Frame(h[i])
      /\ \A i \in 1 .. Len(w) : Joined(h, w)[Len(h) + i] = w[i]
  BY JoinedFacts
<1>5. /\ Joined(g, v) \in Seq(Lines) /\ Len(Joined(g, v)) = Len(g) + Len(v)
      /\ \A i \in 1 .. Len(g) : Joined(g, v)[i] = Frame(g[i])
      /\ \A i \in 1 .. Len(v) : Joined(g, v)[Len(g) + i] = v[i]
  BY <1>1, <1>2, JoinedFacts
<1>6. ASSUME NEW i \in 1 .. Len(h) + Len(w)
      PROVE  Joined(g, v)[i] = Joined(h, w)[i]
  <2>1. CASE i \in 1 .. Len(h)
    <3>1. i \in 1 .. Len(g)
      BY <1>1, <1>2, <2>1
    <3> QED
      BY <1>1, <1>4, <1>5, <2>1, <3>1
  <2>2. CASE i = Len(h) + 1
    <3>1. i \in 1 .. Len(g) /\ 1 \in 1 .. Len(w)
      BY <1>1, <1>2, <2>2
    <3> QED
      BY <1>1, <1>3, <1>4, <1>5, <2>2, <3>1
  <2>3. CASE i \notin 1 .. Len(h) /\ i # Len(h) + 1
    <3>1. PICK j \in 1 .. Len(v) : i = Len(g) + j
      <4>1. i - Len(g) \in 1 .. Len(v) /\ i = Len(g) + (i - Len(g))
        BY <1>1, <1>2, <2>3
      <4> QED
        BY <4>1
    <3>2. j + 1 \in 1 .. Len(w) /\ i = Len(h) + (j + 1)
      BY <1>1, <1>2, <3>1
    <3> QED
      BY <1>2, <1>4, <1>5, <3>1, <3>2
  <2> QED
    BY <2>1, <2>2, <2>3
<1>7. Joined(g, v) = Joined(h, w)
  <2>1. Len(Joined(g, v)) = Len(h) + Len(w)
    BY <1>1, <1>2, <1>5
  <2> QED
    BY <1>4, <1>5, <1>6, <2>1, SeqEqual
<1> QED
  BY <1>7 DEF g, v

\* NoGapAfterOpen follows from the backlog.
LEMMA BacklogGapless ==
    ASSUME NEW v \in Seq(Lines), NEW n \in Nat, NEW silent \in BOOLEAN,
           Backlog(v, n, silent), NEW i \in DOMAIN v, v[i].kind = "frame"
    PROVE  IF \E j \in DOMAIN v : j > i /\ v[j].kind = "frame"
           THEN v[i + 1] = Frame(v[i].n + 1)
           ELSE v[i].n = n
<1> DEFINE last == IF silent THEN Len(v) - 1 ELSE Len(v)
<1>1. Len(v) \in Nat /\ DOMAIN v = 1 .. Len(v) /\ last \in Int /\ last <= Len(v)
  OBVIOUS
<1>2. \A j \in DOMAIN v :
         \/ j \in {1, last + 1} /\ v[j].kind # "frame"
         \/ j <= last /\ v[j] = Frame(n + j - last)
  BY DEF Backlog
<1> HIDE DEF last
<1>3. \A m : Frame(m).n = m
  BY DEF Frame
<1>4. i <= last /\ v[i].n = n + i - last
  BY <1>2, <1>3
<1>5. i \in Nat /\ i >= 1
  BY <1>1
<1>6. ASSUME i + 1 <= last, i + 1 \in DOMAIN v
      PROVE  v[i + 1] = Frame(n + (i + 1) - last)
  <2>1. i + 1 # 1 /\ i + 1 # last + 1
    BY <1>1, <1>5, <1>6
  <2> QED
    BY <1>2, <1>6, <2>1
<1>7. ASSUME NEW j \in DOMAIN v, j > i, v[j].kind = "frame"
      PROVE  v[i + 1] = Frame(v[i].n + 1)
  <2>1. j <= last
    BY <1>2, <1>7
  <2>2. /\ i + 1 <= last /\ i + 1 \in DOMAIN v
        /\ n + (i + 1) - last = (n + i - last) + 1
    BY <1>1, <1>5, <1>7, <2>1
  <2> QED
    BY <1>4, <1>6, <2>2
<1>8. ASSUME ~ \E j \in DOMAIN v : j > i /\ v[j].kind = "frame"
      PROVE  v[i].n = n
  <2>1. CASE i = last
    BY <1>1, <1>4, <1>5, <2>1
  <2>2. CASE i # last
    <3>1. i + 1 <= last /\ i + 1 \in DOMAIN v /\ i + 1 > i
      BY <1>1, <1>4, <1>5, <2>2
    <3>2. v[i + 1].kind = "frame"
      BY <1>6, <3>1 DEF Frame
    <3> QED
      BY <1>8, <3>1, <3>2
  <2> QED
    BY <2>1, <2>2
<1> QED
  BY <1>7, <1>8

\* Every step of the orchestrator keeps GapInv.
LEMMA ServerGap ==
    ASSUME StreamInv, GapInv, ServerStep
    PROVE  GapInv'
<1>1. /\ GoodWire(wire) /\ wire \in Seq(Lines) /\ handled \in Seq(1 .. MaxFrames)
      /\ published \in Nat
  BY DEF StreamInv, TypeOK, StreamTypeOK, Numbered, GoodWire, GoodLine
<1>2. UNCHANGED <<pc, handled>>
  BY DEF ServerStep, workerVars
<1>3. Received = Joined(handled, wire) /\ Received' = Joined(handled', wire')
  BY DEF Received, Joined
<1>4. Joined(handled, wire) \in Seq(Lines)
  BY <1>1, JoinedFacts
<1>5. ASSUME NEW line \in Lines, wire' = Append(wire, line)
      PROVE  /\ Received' = Append(Received, line) /\ wire' # <<>>
             /\ wire = <<>> => Head(wire') = line /\ Tail(wire') = <<>>
             /\ wire # <<>> => /\ Head(wire') = Head(wire)
                               /\ Tail(wire') = Append(Tail(wire), line)
                               /\ Tail(wire) \in Seq(Lines)
  <2>1. Received' = Append(Received, line)
    BY <1>1, <1>2, <1>3, <1>5, JoinedAppend
  <2>2. /\ wire = <<>> => Head(wire') = line /\ Tail(wire') = <<>>
        /\ wire # <<>> => /\ Head(wire') = Head(wire)
                          /\ Tail(wire') = Append(Tail(wire), line)
    BY <1>1, <1>5, HeadTailAppend
  <2>3. wire' # <<>> /\ (wire # <<>> => Tail(wire) \in Seq(Lines))
    BY <1>1, <1>5
  <2> QED
    BY <2>1, <2>2, <2>3
<1>6. CASE AnswerHandshake
  <2>1. PICK answer \in Answers : wire' = Append(wire, Line(answer))
    BY <1>6 DEF AnswerHandshake
  <2>2. Line(answer) \in Lines /\ Line(answer).kind = answer
    BY LineTypes DEF GoodLine, Line
  <2>3. wire'[Len(wire')] = Line(answer)
    BY <1>1, <2>1, <2>2
  <2>4. shaken = "sent" /\ shaken' = IF answer = "ok" THEN "answered" ELSE "none"
    BY <1>6, <2>2, <2>3 DEF AnswerHandshake
  <2>5. pc # "handshake" /\ pc # "next" /\ (pc = "await_response" => wire = <<>>)
    BY <2>4 DEF GapInv
  <2>6. pc = "await_response" => Head(wire') = Line(answer) /\ Tail(wire') = <<>>
    BY <1>5, <2>1, <2>2, <2>5
  <2>7. \A n, silent : Backlog(<<>>, n, silent)
    BY DEF Backlog
  <2>8. wire' # <<>>
    BY <1>5, <2>1, <2>2
  <2> QED
    BY <1>2, <2>2, <2>4, <2>5, <2>6, <2>7, <2>8 DEF GapInv
<1>7. CASE Publish
  <2>1. /\ shaken = "answered" /\ UNCHANGED shaken
        /\ published' = published + 1 /\ wire' = Append(wire, Frame(published + 1))
    BY <1>7 DEF Publish
  <2>2. Frame(published + 1) \in Lines
    <3>1. published + 1 \in 1 .. MaxFrames
      BY <1>1, <1>7, StreamAssumption DEF Publish
    <3> QED
      BY <3>1, LineTypes DEF GoodLine
  <2>3. (shaken = "none") = FALSE /\ (shaken' = "none") = FALSE
    BY <2>1
  <2>4. pc = "await_response" => wire # <<>> /\ Backlog(Tail(wire), published, FALSE)
    BY <2>1, <2>3 DEF GapInv
  <2>5. pc = "await_response" => Backlog(Tail(wire'), published', FALSE)
    BY <1>1, <1>5, <2>1, <2>2, <2>4, PublishBacklog
  <2>6. pc = "next" => Backlog(Received', published', FALSE)
    BY <1>1, <1>3, <1>4, <1>5, <2>1, <2>2, <2>3, PublishBacklog DEF GapInv
  <2>7. pc # "handshake" /\ wire' # <<>>
    BY <1>5, <2>1, <2>2 DEF GapInv
  <2> QED
    BY <1>2, <2>1, <2>3, <2>5, <2>6, <2>7 DEF GapInv
<1>8. CASE PublishGarbage
  <2>1. /\ shaken = "answered" /\ shaken' = "none"
        /\ UNCHANGED published /\ wire' = Append(wire, Line("garbage"))
    BY <1>8 DEF PublishGarbage
  <2>2. Line("garbage") \in Lines
    BY LineTypes DEF GoodLine
  <2>3. (shaken = "none") = FALSE /\ (shaken' = "none") = TRUE
    BY <2>1
  <2>4. pc = "await_response" => wire # <<>> /\ Backlog(Tail(wire), published, FALSE)
    BY <2>1, <2>3 DEF GapInv
  <2>5. pc = "await_response" => Backlog(Tail(wire'), published', TRUE)
    BY <1>1, <1>5, <2>1, <2>2, <2>4, GarbageBacklog
  <2>6. pc = "next" => Backlog(Received', published', TRUE)
    BY <1>1, <1>3, <1>4, <1>5, <2>1, <2>2, <2>3, GarbageBacklog DEF GapInv
  <2>7. pc # "handshake" /\ wire' # <<>>
    BY <1>5, <2>1, <2>2 DEF GapInv
  <2> QED
    BY <1>2, <2>1, <2>3, <2>5, <2>6, <2>7 DEF GapInv
<1>9. CASE ServerCloses
  <2>1. UNCHANGED <<wire, shaken, published>>
    BY <1>9 DEF ServerCloses
  <2> QED
    BY <1>2, <2>1 DEF GapInv, Received
<1> QED
  BY <1>6, <1>7, <1>8, <1>9 DEF ServerStep, StreamServerNext

\* Every step of the worker keeps GapInv.
LEMMA WorkerGap ==
    ASSUME StreamInv, GapInv, WorkerStep
    PROVE  GapInv'
<1>1. /\ GoodWire(wire) /\ wire \in Seq(Lines) /\ handled \in Seq(1 .. MaxFrames)
      /\ published \in Nat /\ shaken \in {"none", "sent", "answered"}
  BY DEF StreamInv, TypeOK, StreamTypeOK, Numbered, GoodWire, GoodLine
<1>2. ASSUME pc' \in {"open", "retry"}, pc \notin {"next", "returned"}, UNCHANGED handled
      PROVE  GapInv'
  BY <1>2 DEF GapInv
<1>3. CASE Start
  BY <1>1, <1>3 DEF Start, workerVars, GapInv
<1>4. CASE Dial
  BY <1>4 DEF Dial, OpenSock, GapInv
<1>5. CASE Encode
  BY <1>2, <1>5 DEF Encode, OpenFails, workerVars, GapInv
<1>6. CASE Decode
  <2>1. CASE OpenFails
    BY <1>2, <1>6, <2>1 DEF Decode, OpenFails, workerVars
  <2>2. CASE ~OpenFails
    <3>1. /\ pc = "await_response" /\ pc' = "next" /\ wire # <<>> /\ Head(wire).kind = "ok"
          /\ wire' \in Leftovers(Tail(wire)) /\ UNCHANGED <<shaken, published, handled>>
      BY <1>6, <2>2 DEF Decode, workerVars
    <3>2. /\ shaken # "sent" /\ Backlog(Tail(wire), published, shaken = "none")
          /\ handled = <<>>
      BY <3>1 DEF GapInv
    <3>3. GoodWire(Tail(wire))
      BY <1>1, <3>1, TailWire
    <3>4. (shaken = "none") \in BOOLEAN
      OBVIOUS
    <3>5. Backlog(wire', published, shaken = "none")
      BY <1>1, <3>1, <3>2, <3>3, <3>4, LeftoversBacklog
    <3>6. GoodWire(wire') /\ wire' \in Seq(Lines)
      BY <3>1, <3>3, LeftoversWire DEF GoodWire
    <3>7. Received' = wire'
      <4>1. Received' = Joined(<<>>, wire')
        BY <3>1, <3>2 DEF Received, Joined
      <4> QED
        BY <3>6, <4>1, JoinedNone
    <3> QED
      BY <3>1, <3>2, <3>5, <3>7 DEF GapInv
  <2> QED
    BY <2>1, <2>2
<1>7. CASE RetryCancelled \/ RetryAgain
  BY <1>7 DEF RetryCancelled, RetryAgain, workerVars, GapInv
<1>8. CASE NextFrame
  <2>1. /\ pc = "next" /\ UNCHANGED <<pc, shaken, published>>
        /\ wire # <<>> /\ Head(wire).kind = "frame"
        /\ handled' = Append(handled, Head(wire).n) /\ wire' = Tail(wire)
    BY <1>8 DEF NextFrame
  <2>2. Head(wire).n \in 1 .. MaxFrames
    <3>1. GoodLine(Head(wire))
      BY <1>1, <2>1, TailWire
    <3> QED
      BY <2>1, <3>1, StreamAssumption DEF GoodLine, Lines
  <2>3. Received' = Received
    <3>1. Received = Joined(handled, wire) /\ Received' = Joined(handled', wire')
      BY DEF Received, Joined
    <3> QED
      BY <1>1, <2>1, <2>2, <3>1, JoinedHandle
  <2> QED
    BY <2>1, <2>3 DEF GapInv
<1>9. CASE NextError \/ NextCancelled
  BY <1>9 DEF NextError, NextCancelled, Leave, GapInv
<1> QED
  BY <1>3, <1>4, <1>5, <1>6, <1>7, <1>8, <1>9 DEF WorkerStep

\* Next keeps one reader: whatever the reader of OpenStream took along, the frames that
\* are handled follow each other, and those in the socket follow them, without a gap.
THEOREM NoGapAfterOpenHolds == Spec => []NoGapAfterOpen
<1>1. Init => GapInv
  BY DEF Init, GapInv
<1>2. StreamInv /\ GapInv /\ [Next]_vars => GapInv'
  <2> SUFFICES ASSUME StreamInv, GapInv, [Next]_vars
               PROVE  GapInv'
    OBVIOUS
  <2>1. CASE WorkerStep
    BY <2>1, WorkerGap
  <2>2. CASE Cancel \/ UNCHANGED vars
    <3>1. UNCHANGED <<wire, shaken, published, pc, handled>>
      BY <2>2 DEF Cancel, vars, streamVars, workerVars
    <3> QED
      BY <3>1 DEF GapInv, Received
  <2>3. CASE ServerStep
    BY <2>3, ServerGap
  <2> QED
    BY <2>1, <2>2, <2>3 DEF Next
<1>3. StreamInv /\ GapInv => NoGapAfterOpen
  <2> SUFFICES ASSUME StreamInv, GapInv, pc = "next", NEW i \in DOMAIN Received,
                      Received[i].kind = "frame"
               PROVE  IF \E j \in DOMAIN Received : j > i /\ Received[j].kind = "frame"
                      THEN Received[i + 1] = Frame(Received[i].n + 1)
                      ELSE Received[i].n = published
    BY DEF NoGapAfterOpen
  <2>1. Received \in Seq(Lines) /\ published \in Nat
    <3>1. wire \in Seq(Lines) /\ handled \in Seq(1 .. MaxFrames) /\ published \in Nat
      BY DEF StreamInv, TypeOK, StreamTypeOK
    <3>2. Received = Joined(handled, wire)
      BY DEF Received, Joined
    <3> QED
      BY <3>1, <3>2, JoinedFacts
  <2>2. Backlog(Received, published, shaken = "none") /\ (shaken = "none") \in BOOLEAN
    BY DEF GapInv
  <2> QED
    BY <2>1, <2>2, BacklogGapless
<1> QED
  BY StreamInvariance, <1>1, <1>2, <1>3, PTL DEF Spec
=============================================================================
