-------------------------- MODULE RustStreamProofs --------------------------
(***************************************************************************)
(* Proofs about the Rust data stream worker for every number of frames and *)
(* connections.                                                            *)
(***************************************************************************)
EXTENDS RustStream, TLAPS

-----------------------------------------------------------------------------
(* The inductive invariant *)

\* Behind the first `skip' lines the socket holds the frames that follow those the
\* worker handled, in order, up to the newest one; a line of garbage may come last,
\* after which the orchestrator is silent (shaken = "none").
Backlog(skip) ==
    /\ shaken # "sent"
    /\ \A i \in DOMAIN handled : handled[i] = i
    /\ Len(wire) >= skip
    /\ \A i \in skip + 1 .. Len(wire) :
          i < Len(wire) \/ shaken = "answered" => wire[i] = Frame(Len(handled) + i - skip)
    /\ shaken = "answered" => published = Len(handled) + Len(wire) - skip
    /\ shaken = "none" => /\ Len(wire) > skip
                          /\ wire[Len(wire)].kind = "garbage"
                          /\ published = Len(handled) + Len(wire) - skip - 1

\* What is on the wire at each await: nothing before the handshake and its answer,
\* then the answer and the backlog, then the backlog.
Delivery ==
    /\ pc \in {"handshake", "await_response"} => handled = <<>>
    /\ pc = "handshake" => wire = <<>> /\ shaken = "none" /\ published = 0
    /\ pc = "await_response" =>
          \/ shaken = "sent" /\ wire = <<>> /\ published = 0
          \/ shaken = "none" /\ wire # <<>> /\ wire[1].kind # "ok"
          \/ wire # <<>> /\ wire[1].kind = "ok" /\ Backlog(1)
    /\ pc = "reading" => Backlog(0)

StreamInv == TypeOK /\ Delivery

-----------------------------------------------------------------------------
(* Sequences *)

\* What Append does to a sequence.
LEMMA AppendFacts ==
    ASSUME NEW S, NEW s \in Seq(S), NEW e \in S
    PROVE  /\ Append(s, e) \in Seq(S)
           /\ Append(s, e) # <<>>
           /\ Len(s) \in Nat
           /\ Len(Append(s, e)) = Len(s) + 1
           /\ \A i \in 1 .. Len(s) : Append(s, e)[i] = s[i]
           /\ Append(s, e)[Len(s) + 1] = e
           /\ DOMAIN Append(s, e) = 1 .. Len(s) + 1
           /\ DOMAIN s = 1 .. Len(s)
  OBVIOUS

\* What Tail does to a sequence.
LEMMA TailFacts ==
    ASSUME NEW S, NEW s \in Seq(S), s # <<>>
    PROVE  /\ Tail(s) \in Seq(S)
           /\ Len(s) \in Nat
           /\ Len(s) > 0
           /\ Len(Tail(s)) = Len(s) - 1
           /\ \A i \in 1 .. Len(s) - 1 : Tail(s)[i] = s[i + 1]
           /\ Head(s) = s[1]
           /\ Head(s) \in S
           /\ DOMAIN s = 1 .. Len(s)
  OBVIOUS

\* The empty sequence.
LEMMA EmptyFacts ==
    ASSUME NEW S
    PROVE  <<>> \in Seq(S) /\ DOMAIN <<>> = {} /\ Len(<<>>) = 0
  OBVIOUS

\* The orchestrator's lines.
LEMMA LineTypes ==
    /\ \A kind \in Answers : Line(kind) \in Lines /\ Line(kind).kind = kind
    /\ \A n \in 0 .. MaxFrames : Frame(n) \in Lines /\ Frame(n).kind = "frame" /\ Frame(n).n = n
    /\ "ok" \in Answers /\ "garbage" \in Answers
  BY StreamAssumption DEF Line, Frame, Lines, Answers

-----------------------------------------------------------------------------
(* The orchestrator's steps *)

\* A further frame extends the backlog.
LEMMA PublishBacklog ==
    ASSUME StreamInv, Publish, UNCHANGED workerVars,
           NEW skip \in {0, 1}, Backlog(skip)
    PROVE  Backlog(skip)'
<1>1. wire \in Seq(Lines) /\ handled \in Seq(1 .. MaxFrames) /\ published \in Nat
  BY DEF StreamInv, TypeOK, StreamTypeOK
<1>2. Frame(published + 1) \in Lines /\ published + 1 \in 0 .. MaxFrames
  BY <1>1, LineTypes, StreamAssumption DEF Publish
<1>3. shaken = "answered" /\ UNCHANGED <<shaken, handled>>
  BY DEF Publish, workerVars
<1>4. Len(handled) \in Nat
  BY <1>1
<1>5. published = Len(handled) + Len(wire) - skip
  BY <1>3 DEF Backlog
<1>6. wire' = Append(wire, Frame(published + 1)) /\ published' = published + 1
  BY DEF Publish
<1>7. wire'[Len(wire) + 1] = Frame(published + 1) /\ Len(wire') = Len(wire) + 1
      /\ (\A i \in 1 .. Len(wire) : wire'[i] = wire[i]) /\ Len(wire) \in Nat
  BY <1>1, <1>2, <1>6, AppendFacts
<1>8. \A i \in skip + 1 .. Len(wire) : wire[i] = Frame(Len(handled) + i - skip)
  BY <1>3 DEF Backlog
<1>9. \A i \in skip + 1 .. Len(wire') : wire'[i] = Frame(Len(handled) + i - skip)
  <2> SUFFICES ASSUME NEW i \in skip + 1 .. Len(wire')
               PROVE  wire'[i] = Frame(Len(handled) + i - skip)
    OBVIOUS
  <2>1. CASE i \in 1 .. Len(wire)
    BY <2>1, <1>7, <1>8
  <2>2. CASE i = Len(wire) + 1
    <3>1. Len(handled) + i - skip = published + 1
      BY <2>2, <1>4, <1>5, <1>7
    <3> QED
      BY <2>2, <3>1, <1>7
  <2> QED
    BY <2>1, <2>2, <1>7
<1>10. published' = Len(handled) + Len(wire') - skip /\ Len(wire') >= skip
  BY <1>4, <1>5, <1>6, <1>7 DEF Backlog
<1> QED
  BY <1>3, <1>9, <1>10 DEF Backlog

\* Garbage closes the backlog.
LEMMA GarbageBacklog ==
    ASSUME StreamInv, PublishGarbage, UNCHANGED workerVars,
           NEW skip \in {0, 1}, Backlog(skip)
    PROVE  Backlog(skip)'
<1>1. wire \in Seq(Lines) /\ handled \in Seq(1 .. MaxFrames) /\ published \in Nat
  BY DEF StreamInv, TypeOK, StreamTypeOK
<1>2. Line("garbage") \in Lines /\ Line("garbage").kind = "garbage"
  BY LineTypes
<1>3. shaken = "answered" /\ shaken' = "none" /\ UNCHANGED <<handled, published>>
  BY DEF PublishGarbage, workerVars
<1>4. Len(handled) \in Nat
  BY <1>1
<1>5. published = Len(handled) + Len(wire) - skip /\ Len(wire) >= skip
  BY <1>3 DEF Backlog
<1>6. wire'[Len(wire) + 1] = Line("garbage") /\ Len(wire') = Len(wire) + 1
      /\ (\A i \in 1 .. Len(wire) : wire'[i] = wire[i]) /\ Len(wire) \in Nat
  BY <1>1, <1>2, AppendFacts DEF PublishGarbage
<1>7. \A i \in skip + 1 .. Len(wire') :
         i < Len(wire') => wire'[i] = Frame(Len(handled) + i - skip)
  BY <1>3, <1>6 DEF Backlog
<1>8. Len(wire') > skip /\ published' = Len(handled) + Len(wire') - skip - 1
  BY <1>3, <1>4, <1>5, <1>6
<1>9. wire'[Len(wire')].kind = "garbage"
  BY <1>2, <1>6
<1> QED
  BY <1>3, <1>7, <1>8, <1>9 DEF Backlog

\* Whatever the orchestrator does keeps the types.
LEMMA ServerType ==
    ASSUME TypeOK, ServerStep
    PROVE  TypeOK'
<1>1. wire \in Seq(Lines) /\ published \in 0 .. MaxFrames
  BY DEF TypeOK, StreamTypeOK
<1>2. CASE AnswerHandshake
  <2>1. PICK answer \in Answers : wire' = Append(wire, Line(answer))
    BY <1>2 DEF AnswerHandshake
  <2>2. wire' \in Seq(Lines)
    BY <2>1, <1>1, LineTypes, AppendFacts
  <2> QED
    BY <1>2, <2>2 DEF AnswerHandshake, ServerStep, TypeOK, StreamTypeOK, workerVars
<1>3. CASE Publish
  <2>1. published + 1 \in 0 .. MaxFrames
    BY <1>1, <1>3, StreamAssumption DEF Publish
  <2>2. wire' \in Seq(Lines)
    BY <1>1, <1>3, <2>1, LineTypes, AppendFacts DEF Publish
  <2> QED
    BY <1>3, <2>1, <2>2 DEF Publish, ServerStep, TypeOK, StreamTypeOK, workerVars
<1>4. CASE PublishGarbage
  <2>1. wire' \in Seq(Lines)
    BY <1>1, <1>4, LineTypes, AppendFacts DEF PublishGarbage
  <2> QED
    BY <1>4, <2>1 DEF PublishGarbage, ServerStep, TypeOK, StreamTypeOK, workerVars
<1>5. CASE ServerCloses
  BY <1>5 DEF ServerCloses, ServerStep, TypeOK, StreamTypeOK, workerVars
<1> QED
  BY <1>2, <1>3, <1>4, <1>5 DEF ServerStep, StreamServerNext

\* Whatever the orchestrator does keeps what is on the wire in order.
LEMMA ServerDelivery ==
    ASSUME StreamInv, ServerStep
    PROVE  Delivery'
<1>1. wire \in Seq(Lines) /\ handled \in Seq(1 .. MaxFrames) /\ published \in Nat
  BY DEF StreamInv, TypeOK, StreamTypeOK
<1>2. UNCHANGED <<pc, handled>> /\ UNCHANGED workerVars
  BY DEF ServerStep, workerVars
<1>3. CASE AnswerHandshake
  <2>1. PICK answer \in Answers : wire' = Append(wire, Line(answer))
    BY <1>3 DEF AnswerHandshake
  <2>2. shaken = "sent" /\ UNCHANGED published
    BY <1>3 DEF AnswerHandshake
  <2>3. pc \notin {"handshake", "reading"}
    BY <2>2 DEF StreamInv, Delivery, Backlog
  <2>4. CASE pc = "await_response"
    <3>1. wire = <<>> /\ published = 0 /\ handled = <<>>
      BY <2>2, <2>4 DEF StreamInv, Delivery, Backlog
    <3>2. wire' = <<Line(answer)>>
      BY <3>1, <2>1
    <3>3. Len(wire') = 1 /\ wire'[1].kind = answer
      BY <3>2, LineTypes
    <3>4. shaken' = IF answer = "ok" THEN "answered" ELSE "none"
      BY <1>3, <3>3 DEF AnswerHandshake
    <3>5. CASE answer = "ok"
      <4>1. Backlog(1)'
        BY <1>2, <2>2, <3>1, <3>3, <3>4, <3>5, EmptyFacts DEF Backlog
      <4> QED
        BY <4>1, <1>2, <2>4, <3>1, <3>2, <3>3, <3>5 DEF Delivery
    <3>6. CASE answer # "ok"
      BY <1>2, <2>4, <3>1, <3>2, <3>3, <3>4, <3>6 DEF Delivery
    <3> QED
      BY <3>5, <3>6
  <2> QED
    BY <2>3, <2>4, <1>2 DEF Delivery
<1>4. CASE Publish \/ PublishGarbage
  <2>1. shaken = "answered"
    BY <1>4 DEF Publish, PublishGarbage
  <2>2. pc # "handshake"
    BY <2>1 DEF StreamInv, Delivery
  <2>3. CASE pc = "await_response"
    <3>1. wire # <<>> /\ wire[1].kind = "ok" /\ Backlog(1) /\ handled = <<>>
      BY <2>1, <2>3 DEF StreamInv, Delivery
    <3>2. Backlog(1)'
      BY <3>1, <1>2, <1>4, PublishBacklog, GarbageBacklog
    <3>3. wire' # <<>> /\ wire'[1] = wire[1]
      <4>1. PICK line \in Lines : wire' = Append(wire, line)
        <5>1. CASE Publish
          <6>1. published + 1 \in 0 .. MaxFrames
            BY <1>1, <5>1, StreamAssumption DEF Publish
          <6> QED
            BY <5>1, <6>1, LineTypes DEF Publish
        <5>2. CASE PublishGarbage
          BY <5>2, LineTypes DEF PublishGarbage
        <5> QED
          BY <1>4, <5>1, <5>2
      <4>2. Len(wire) \in Nat /\ Len(wire) > 0
        BY <1>1, <3>1
      <4> QED
        BY <1>1, <4>1, <4>2, AppendFacts
    <3> QED
      BY <2>3, <1>2, <3>1, <3>2, <3>3 DEF Delivery
  <2>4. CASE pc = "reading"
    <3>1. Backlog(0)'
      BY <2>4, <1>2, <1>4, PublishBacklog, GarbageBacklog DEF StreamInv, Delivery
    <3> QED
      BY <2>4, <3>1, <1>2 DEF Delivery
  <2> QED
    BY <2>2, <2>3, <2>4, <1>2 DEF Delivery
<1>5. CASE ServerCloses
  BY <1>2, <1>5 DEF ServerCloses, StreamInv, Delivery, Backlog
<1> QED
  BY <1>3, <1>4, <1>5 DEF ServerStep, StreamServerNext

-----------------------------------------------------------------------------
(* The worker's steps *)

\* The answer is taken off the wire; the backlog stays.
LEMMA ResponseInv ==
    ASSUME StreamInv, RecvResponse
    PROVE  StreamInv'
<1>1. wire \in Seq(Lines) /\ pc = "await_response"
  BY DEF StreamInv, TypeOK, StreamTypeOK, RecvResponse
<1>2. CASE ConnectFails
  BY <1>2, EmptyFacts DEF StreamInv, TypeOK, StreamTypeOK, Delivery, ConnectFails,
       CloseSock, workerVars
<1>3. CASE /\ wire # <<>>
           /\ Head(wire).kind = "ok"
           /\ wire' = Tail(wire)
           /\ pc' = "reading"
           /\ UNCHANGED <<sock, shaken, published, workerVars>>
  <2>1. /\ wire' \in Seq(Lines)
        /\ Len(wire) \in Nat
        /\ Len(wire) > 0
        /\ Len(wire') = Len(wire) - 1
        /\ \A i \in 1 .. Len(wire) - 1 : wire'[i] = wire[i + 1]
        /\ Head(wire) = wire[1]
    BY <1>1, <1>3, TailFacts
  <2>2. Backlog(1) /\ UNCHANGED <<shaken, handled, published>> /\ handled = <<>>
    BY <1>1, <1>3, <2>1 DEF StreamInv, Delivery, workerVars
  <2>3. Len(handled) = 0 /\ published \in Nat
    BY <2>2, EmptyFacts DEF StreamInv, TypeOK, StreamTypeOK
  <2>4. \A i \in 1 .. Len(wire') :
           i < Len(wire') \/ shaken = "answered" => wire'[i] = Frame(Len(handled) + i)
    <3> SUFFICES ASSUME NEW i \in 1 .. Len(wire'), i < Len(wire') \/ shaken = "answered"
                 PROVE  wire'[i] = Frame(Len(handled) + i)
      OBVIOUS
    <3>1. i + 1 \in 1 + 1 .. Len(wire) /\ wire'[i] = wire[i + 1]
      BY <2>1
    <3>2. i + 1 < Len(wire) \/ shaken = "answered"
      BY <2>1
    <3>3. wire[i + 1] = Frame(Len(handled) + (i + 1) - 1)
      BY <2>2, <3>1, <3>2 DEF Backlog
    <3>4. Len(handled) + (i + 1) - 1 = Len(handled) + i
      BY <2>3
    <3> QED
      BY <3>1, <3>3, <3>4
  <2>5. shaken = "none" => /\ Len(wire') > 0
                           /\ wire'[Len(wire')] = wire[Len(wire)]
    BY <2>1, <2>2 DEF Backlog
  <2>6. Backlog(0)'
    BY <2>1, <2>2, <2>3, <2>4, <2>5 DEF Backlog
  <2>7. TypeOK'
    BY <1>3, <2>1 DEF StreamInv, TypeOK, StreamTypeOK, workerVars
  <2> QED
    BY <1>3, <2>6, <2>7 DEF StreamInv, Delivery
<1> QED
  BY <1>2, <1>3 DEF RecvResponse

\* A frame goes from the wire to the handled ones.
LEMMA NextFrameInv ==
    ASSUME StreamInv, NextFrame
    PROVE  StreamInv'
<1>1. wire \in Seq(Lines) /\ handled \in Seq(1 .. MaxFrames) /\ published \in 0 .. MaxFrames
  BY DEF StreamInv, TypeOK, StreamTypeOK
<1>2. Backlog(0) /\ wire # <<>> /\ Head(wire).kind = "frame"
  BY DEF NextFrame, StreamInv, Delivery
<1>3. /\ wire' \in Seq(Lines)
      /\ Len(wire) \in Nat
      /\ Len(wire) > 0
      /\ Len(wire') = Len(wire) - 1
      /\ \A i \in 1 .. Len(wire) - 1 : wire'[i] = wire[i + 1]
      /\ Head(wire) = wire[1]
  BY <1>1, <1>2, TailFacts DEF NextFrame
<1>4. Len(handled) \in Nat
  BY <1>1
<1>5. 1 < Len(wire) \/ shaken = "answered"
  BY <1>2, <1>3 DEF Backlog, StreamInv, TypeOK, StreamTypeOK
<1>6. wire[1] = Frame(Len(handled) + 1)
  <2>1. 1 \in 0 + 1 .. Len(wire)
    BY <1>3
  <2>2. wire[1] = Frame(Len(handled) + 1 - 0)
    BY <1>2, <1>5, <2>1 DEF Backlog
  <2> QED
    BY <2>2, <1>4
<1>7. Len(handled) + 1 \in 1 .. MaxFrames
  BY <1>1, <1>2, <1>3, <1>4, <1>5, StreamAssumption
     DEF Backlog, StreamInv, TypeOK, StreamTypeOK
<1>8. handled' = Append(handled, Len(handled) + 1)
  BY <1>3, <1>6 DEF NextFrame, Frame
<1>9. /\ handled' \in Seq(1 .. MaxFrames)
      /\ Len(handled') = Len(handled) + 1
      /\ \A i \in DOMAIN handled' : handled'[i] = i
  BY <1>1, <1>2, <1>4, <1>7, <1>8, AppendFacts DEF Backlog
<1>10. \A i \in 1 .. Len(wire') :
          i < Len(wire') \/ shaken = "answered" => wire'[i] = Frame(Len(handled') + i)
  <2> SUFFICES ASSUME NEW i \in 1 .. Len(wire'), i < Len(wire') \/ shaken = "answered"
               PROVE  wire'[i] = Frame(Len(handled') + i)
    OBVIOUS
  <2>1. i + 1 \in 0 + 1 .. Len(wire) /\ wire'[i] = wire[i + 1]
    BY <1>3
  <2>2. i + 1 < Len(wire) \/ shaken = "answered"
    BY <1>3
  <2>3. wire[i + 1] = Frame(Len(handled) + (i + 1) - 0)
    BY <1>2, <2>1, <2>2 DEF Backlog
  <2>4. Len(handled) + (i + 1) - 0 = Len(handled') + i
    BY <1>4, <1>9
  <2> QED
    BY <2>1, <2>3, <2>4
<1>11. UNCHANGED <<shaken, published, pc>> /\ pc = "reading"
  BY DEF NextFrame
<1>12. shaken = "none" => Len(wire') > 0 /\ wire'[Len(wire')] = wire[Len(wire)]
  BY <1>3, <1>5
<1>13. \A i \in 0 + 1 .. Len(wire') :
          i < Len(wire') \/ shaken = "answered" => wire'[i] = Frame(Len(handled') + i - 0)
  BY <1>3, <1>4, <1>9, <1>10
<1>14. /\ shaken = "answered" => published = Len(handled') + Len(wire') - 0
       /\ shaken = "none" => published = Len(handled') + Len(wire') - 0 - 1
  <2>1. /\ shaken = "answered" => published = Len(handled) + Len(wire) - 0
        /\ shaken = "none" => published = Len(handled) + Len(wire) - 0 - 1
    BY <1>2 DEF Backlog
  <2> QED
    BY <2>1, <1>3, <1>4, <1>9
<1>15. Backlog(0)'
  BY <1>2, <1>3, <1>9, <1>11, <1>12, <1>13, <1>14 DEF Backlog
<1>16. TypeOK'
  BY <1>3, <1>9 DEF NextFrame, StreamInv, TypeOK, StreamTypeOK
<1> QED
  BY <1>11, <1>15, <1>16 DEF StreamInv, Delivery

\* Every step of the worker keeps the invariant.
LEMMA WorkerInv ==
    ASSUME MaxDials \in Nat, StreamInv, WorkerStep
    PROVE  StreamInv'
<1>1. CASE Check
  BY <1>1 DEF Check, StreamInv, TypeOK, StreamTypeOK, Delivery, streamVars, workerVars
<1>2. CASE Connect
  <2>1. dials' \in 0 .. MaxDials
    BY <1>2 DEF Connect, StreamInv, TypeOK
  <2>2. CASE OpenSock /\ pc' = "handshake" /\ handled' = <<>>
    BY <1>2, <2>1, <2>2, EmptyFacts, StreamAssumption
       DEF Connect, OpenSock, StreamInv, TypeOK, StreamTypeOK, Delivery
  <2>3. CASE pc' = "retry" /\ UNCHANGED <<streamVars, handled>>
    BY <1>2, <2>1, <2>3 DEF Connect, StreamInv, TypeOK, StreamTypeOK, Delivery, streamVars
  <2> QED
    BY <1>2, <2>2, <2>3 DEF Connect
<1>3. CASE SendHandshake
  BY <1>3, EmptyFacts DEF SendHandshake, ConnectFails, CloseSock, StreamInv, TypeOK,
     StreamTypeOK, Delivery, workerVars
<1>4. CASE RecvResponse
  BY <1>4, ResponseInv
<1>5. CASE WakeUp
  BY <1>5, EmptyFacts DEF WakeUp, CloseSock, StreamInv, TypeOK, StreamTypeOK, Delivery,
     workerVars
<1>6. CASE NextFrame
  BY <1>6, NextFrameInv
<1>7. CASE NextError
  <2>1. wire' \in Seq(Lines)
    BY <1>7, TailFacts DEF NextError, StreamInv, TypeOK, StreamTypeOK
  <2> QED
    BY <1>7, <2>1 DEF NextError, StreamInv, TypeOK, StreamTypeOK, Delivery, workerVars
<1>8. CASE Stop
  BY <1>8, EmptyFacts DEF Stop, CloseSock, StreamInv, TypeOK, StreamTypeOK, Delivery,
     workerVars
<1> QED
  BY <1>1, <1>2, <1>3, <1>4, <1>5, <1>6, <1>7, <1>8 DEF WorkerStep

-----------------------------------------------------------------------------
(* The theorems *)

\* StreamInv holds initially and is kept by every step.
THEOREM StreamInvariance ==
    ASSUME MaxDials \in Nat
    PROVE  Spec => []StreamInv
<1>1. Init => StreamInv
  <2> SUFFICES ASSUME Init
               PROVE  StreamInv
    OBVIOUS
  <2>1. wire = <<>> /\ handled = <<>> /\ pc = "check"
    BY DEF Init, StreamInit
  <2>2. wire \in Seq(Lines) /\ handled \in Seq(1 .. MaxFrames)
    BY <2>1, EmptyFacts
  <2>3. TypeOK
    <3>1. StreamTypeOK
      BY <2>2, StreamAssumption DEF Init, StreamInit, StreamTypeOK
    <3>2. dials \in 0 .. MaxDials
      BY DEF Init
    <3>3. cancelled \in BOOLEAN
      BY Zenon DEF Init
    <3> QED
      BY <2>1, <2>2, <3>1, <3>2, <3>3 DEF TypeOK
  <2>4. Delivery
    BY <2>1 DEF Delivery
  <2> QED
    BY <2>3, <2>4 DEF StreamInv
<1>2. StreamInv /\ [Next]_vars => StreamInv'
  <2> SUFFICES ASSUME StreamInv, [Next]_vars
               PROVE  StreamInv'
    OBVIOUS
  <2>1. CASE WorkerStep
    BY <2>1, WorkerInv
  <2>2. CASE Cancel
    BY <2>2 DEF Cancel, StreamInv, TypeOK, StreamTypeOK, Delivery, Backlog, streamVars
  <2>3. CASE ServerStep
    BY <2>3, ServerType, ServerDelivery DEF StreamInv
  <2>4. CASE UNCHANGED vars
    BY <2>4 DEF vars, StreamInv, TypeOK, StreamTypeOK, Delivery, Backlog, streamVars,
       workerVars
  <2> QED
    BY <2>1, <2>2, <2>3, <2>4 DEF Next
<1> QED
  BY <1>1, <1>2, PTL DEF Spec

\* Every variable of the worker and of its socket keeps its type; in particular no
\* number beyond the published ones is ever handled.
THEOREM TypeCorrect ==
    ASSUME MaxDials \in Nat
    PROVE  Spec => []TypeOK
<1>1. StreamInv => TypeOK
  BY DEF StreamInv
<1> QED
  BY <1>1, StreamInvariance, PTL

\* DataStream::connect and next: no frame is lost, repeated or reordered between the
\* handshake and the handler, however many frames follow the answer at once.
THEOREM FramesInOrderHolds ==
    ASSUME MaxDials \in Nat
    PROVE  Spec => []FramesInOrder
<1>1. StreamInv => FramesInOrder
  <2> SUFFICES ASSUME StreamInv, pc = "reading"
               PROVE  FramesInOrder
    BY DEF FramesInOrder
  <2>1. Backlog(0) /\ wire \in Seq(Lines) /\ Len(handled) \in Nat /\ published \in Nat
    BY DEF StreamInv, TypeOK, StreamTypeOK, Delivery
  <2>2. DOMAIN wire = 1 .. Len(wire) /\ Len(wire) \in Nat
    BY <2>1
  <2>3. \A i \in DOMAIN wire :
           i < Len(wire) \/ shaken = "answered" => wire[i] = Frame(Len(handled) + i)
    <3> SUFFICES ASSUME NEW i \in DOMAIN wire, i < Len(wire) \/ shaken = "answered"
                 PROVE  wire[i] = Frame(Len(handled) + i)
      OBVIOUS
    <3>1. wire[i] = Frame(Len(handled) + i - 0)
      BY <2>1, <2>2 DEF Backlog
    <3> QED
      BY <3>1, <2>1, <2>2
  <2>4. \/ shaken = "answered"
        \/ shaken = "none" /\ wire[Len(wire)].kind = "garbage"
    <3>1. shaken \in {"answered", "none"}
      BY <2>1 DEF Backlog, StreamInv, TypeOK, StreamTypeOK
    <3> QED
      BY <2>1, <3>1 DEF Backlog
  <2>5. \A i \in DOMAIN wire : wire[i].kind = "frame" => wire[i] = Frame(Len(handled) + i)
    BY <2>2, <2>3, <2>4
  <2>6. ASSUME NEW n \in Len(handled) + 1 .. published
        PROVE  \E i \in DOMAIN wire : wire[i] = Frame(n)
    <3>1. n - Len(handled) \in DOMAIN wire
      BY <2>1, <2>2, <2>4 DEF Backlog
    <3>2. n - Len(handled) < Len(wire) \/ shaken = "answered"
      BY <2>1, <2>2, <2>4 DEF Backlog
    <3>3. wire[n - Len(handled)] = Frame(Len(handled) + (n - Len(handled)))
      BY <2>3, <3>1, <3>2
    <3>4. Len(handled) + (n - Len(handled)) = n
      BY <2>1
    <3> QED
      BY <3>1, <3>3, <3>4
  <2> QED
    BY <2>1, <2>5, <2>6 DEF FramesInOrder, Backlog
<1> QED
  BY <1>1, StreamInvariance, PTL

\* stream_worker: the test at the head of its loops is the only way to connect().
THEOREM NoDialHolds == Spec => NoDialAfterCancel
<1>1. [Next]_vars => [cancelled /\ pc # "connect" => pc' # "connect"]_vars
  <2> SUFFICES ASSUME Next, cancelled, pc # "connect"
               PROVE  pc' # "connect"
    OBVIOUS
  <2>1. CASE WorkerStep
    BY <2>1 DEF WorkerStep, Check, Connect, ConnectFails, SendHandshake, RecvResponse,
       WakeUp, NextFrame, NextError, Stop
  <2>2. CASE Cancel \/ ServerStep
    BY <2>2 DEF Cancel, ServerStep
  <2> QED
    BY <2>1, <2>2 DEF Next
<1> QED
  BY <1>1, PTL DEF Spec, NoDialAfterCancel
=============================================================================
