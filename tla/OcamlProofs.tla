----------------------------- MODULE OcamlProofs -----------------------------
(***************************************************************************)
(* The OCaml component, for every value of the constants: its types, what  *)
(* aegisd sees on a connection, how run ends, its attempts and delays, and *)
(* that it implements the short lifecycle contract.                        *)
(***************************************************************************)
EXTENDS OcamlComponent, ConnectionProofs

-----------------------------------------------------------------------------
(* What run does to the connection *)

\* The state that is announced there.
StateAt == IF pc = "announce_configured" THEN "CONFIGURED" ELSE "RUNNING"

\* The frame that is sent there.
FrameAt ==
    IF pc = "register" THEN Envelope("REGISTER", 0, NoId)
    ELSE IF pc = "pong" THEN Envelope("PONG", cur.id, state)
    ELSE IF pc \in {"ack_configure", "ack_shutdown"} THEN Envelope("ACK", cur.id, NoId)
    ELSE IF pc = "graceful_shutdown" THEN Envelope("SHUTDOWN", 0, NoId)
    ELSE Envelope("STATE_UPDATE", 0, StateAt)

\* The frame of this place reaches the socket, which is closed after the last one.
Sends ==
    /\ pc \in Sending
    /\ link = "up"
    /\ sent' = Append(sent, FrameAt)
    /\ \/ UNCHANGED <<link, inbox>>
       \/ pc = "graceful_shutdown" /\ link' = "down" /\ inbox' = <<>>
    /\ UNCHANGED srvVars

\* A line is read that can be decoded.
Takes ==
    /\ pc \in Receiving
    /\ inbox # <<>>
    /\ inbox' = Tail(inbox)
    /\ UNCHANGED <<link, sent, srvVars>>

TypeInv == TypeOK /\ Identities

\* The frames that run sends are component frames.
LEMMA FrameAtType ==
    ASSUME TypeOK
    PROVE  /\ FrameAt \in ComponentFrames
           /\ FrameAt.command = "REGISTER" => FrameAt.arg = NoId
           /\ pc \in Sending =>
                /\ FrameAt.command =
                     IF pc = "register" THEN "REGISTER"
                     ELSE IF pc = "pong" THEN "PONG"
                     ELSE IF pc \in {"ack_configure", "ack_shutdown"} THEN "ACK"
                     ELSE IF pc = "graceful_shutdown" THEN "SHUTDOWN"
                     ELSE "STATE_UPDATE"
                /\ FrameAt.corr =
                     IF pc \in {"pong", "ack_configure", "ack_shutdown"} THEN cur.id ELSE 0
                /\ pc = "pong" => FrameAt.arg = state
                /\ IsUpdate(FrameAt) => FrameAt.arg = StateAt
<1>1. /\ cur.id \in Nat /\ state \in Args /\ NoId \in Args /\ StateAt \in Args
  BY DEF TypeOK, ServerFrames, Args, ComponentStates, StateAt
<1>2. {"REGISTER", "PONG", "ACK", "STATE_UPDATE", "SHUTDOWN"} \subseteq Commands
  BY DEF Commands
<1>3. FrameAt \in ComponentFrames
  BY <1>1, <1>2, FrameTypes DEF FrameAt
<1> QED
  BY <1>3 DEF FrameAt, Envelope, IsUpdate

\* A step of run opens the connection, drops it, leaves it alone, takes a frame, or
\* sends the frame of its place.
LEMMA RunStepEffect ==
    ASSUME RunStep
    PROVE  \/ pc = "connect" /\ OpenLink
           \/ CloseLink
           \/ UNCHANGED <<linkVars, srvVars>>
           \/ Takes
           \/ Sends
<1>1. CASE Connect \/ Reconnecting \/ WakeUp \/ Killed \/ Spawn
  BY <1>1 DEF Connect, Reconnecting, WakeUp, Killed, Spawn
<1>2. CASE RecvFails \/ RegistrationError \/ TypeError \/ HandlerRaises
  BY <1>2 DEF RecvFails, RegistrationError, TypeError, HandlerRaises, Raise
<1>3. CASE Registered \/ RecvMessage
  BY <1>3 DEF Registered, RecvMessage, Takes, Receiving
<1>4. CASE SendRegister
  BY <1>4 DEF SendRegister, Send, Sends, Sending, FrameAt
<1>5. CASE SendReply
  BY <1>5 DEF SendReply, Reply, ReplyCorr, Send, Sends, Sending, FrameAt
<1>6. CASE Announce
  BY <1>6 DEF Announce, SendStateUpdate, Send, Sends, Sending, FrameAt, StateAt
<1>7. CASE GracefulShutdown
  BY <1>7 DEF GracefulShutdown, Sends, Sending, FrameAt
<1> QED
  BY <1>1, <1>2, <1>3, <1>4, <1>5, <1>6, <1>7 DEF RunStep

\* Where a step of run leads.
LEMMA RunStepPlace ==
    ASSUME RunStep
    PROVE  \/ pc' \in {"failed", "done", "sleep", "connect"}
           \/ pc = "connect" /\ pc' = "register" /\ OpenLink
           \/ /\ pc = "register" /\ pc' = "await_registered" /\ Sends
              /\ UNCHANGED <<state, cur>>
           \/ /\ pc = "await_registered" /\ pc' = "message_loop" /\ Takes
              /\ state' = "REGISTERED"
           \/ /\ pc = "message_loop" /\ Takes /\ UNCHANGED state
              /\ \/ pc' = "message_loop"
                 \/ /\ pc' \in {"pong", "ack_configure", "ack_shutdown"}
                    /\ cur' = Head(inbox)
                    /\ Head(inbox).command =
                         IF pc' = "pong" THEN "PING"
                         ELSE IF pc' = "ack_configure" THEN "CONFIGURE"
                         ELSE "SHUTDOWN"
           \/ /\ pc \in {"pong", "ack_configure"} /\ Sends /\ UNCHANGED state
              /\ pc' \in {"message_loop", "announce_configured"}
           \/ /\ pc = "ack_shutdown" /\ Sends /\ UNCHANGED state
              /\ pc' = "graceful_shutdown"
           \/ /\ pc \in {"announce_configured", "announce_running"} /\ Sends
              /\ pc' = IF pc = "announce_configured" THEN "announce_running" ELSE "spawn"
              /\ state' = StateAt
           \/ /\ pc = "spawn" /\ pc' = "message_loop"
              /\ UNCHANGED <<linkVars, srvVars, state>>
<1>1. CASE Connect \/ Reconnecting \/ WakeUp \/ Killed \/ Spawn
  BY <1>1 DEF Connect, Reconnecting, WakeUp, Killed, Finish, Spawn
<1>2. CASE RecvFails \/ RegistrationError \/ TypeError \/ HandlerRaises
  BY <1>2 DEF RecvFails, RegistrationError, TypeError, HandlerRaises, Raise, Finish
<1>3. CASE Registered
  BY <1>3 DEF Registered, Takes, Receiving
<1>4. CASE RecvMessage
  BY <1>4 DEF RecvMessage, Takes, Receiving, HandlePing, HandleConfigure, HandleShutdown,
     HandleIgnored
<1>5. CASE SendRegister
  BY <1>5 DEF SendRegister, Send, Sends, Sending, FrameAt
<1>6. CASE SendReply
  BY <1>6 DEF SendReply, Reply, ReplyCorr, Send, Sends, Sending, FrameAt
<1>7. CASE Announce
  BY <1>7 DEF Announce, SendStateUpdate, Send, Sends, Sending, FrameAt, StateAt
<1>8. CASE GracefulShutdown
  BY <1>8 DEF GracefulShutdown, Finish
<1> QED
  BY <1>1, <1>2, <1>3, <1>4, <1>5, <1>6, <1>7, <1>8 DEF RunStep

\* The other threads leave the connection and run alone.
LEMMA OthersEffect ==
    ASSUME WorkerStops \/ Interrupt \/ UNCHANGED vars
    PROVE  /\ UNCHANGED <<linkVars, srvVars, pc, cur, state, runVars, stop_flag, holds>>
           /\ alive' \subseteq alive
           /\ raised' \subseteq raised \cup {stop_flag}
  BY DEF WorkerStops, Interrupt, vars, threadVars

-----------------------------------------------------------------------------
(* Type correctness *)

\* What run does keeps the connection well typed.
LEMMA RunStepLinkType ==
    ASSUME TypeInv, RunStep
    PROVE  LinkTypeOK' /\ Identities'
<1>1. LinkTypeOK /\ Identities /\ link \in {"down", "up", "eof"} /\ 0 \in Nat /\ 1 \in Nat
  BY DEF TypeInv, TypeOK, LinkTypeOK
<1>2. CASE OpenLink \/ CloseLink \/ UNCHANGED <<linkVars, srvVars>>
  BY <1>1, <1>2, LinkType
<1>3. CASE Takes
  <2>1. Taken(1)
    BY <1>1, <1>3, TakenFacts DEF Takes
  <2> QED
    BY <1>1, <1>3, <2>1, ClientType DEF Takes
<1>4. CASE Sends
  <2>1. Taken(0)
    BY <1>1, <1>4, TakenFacts DEF Sends
  <2>2. /\ FrameAt \in ComponentFrames
        /\ FrameAt.command = "REGISTER" => FrameAt.arg \in ComponentIds \cup {NoId}
    BY FrameAtType DEF TypeInv
  <2>3. link' \in {"down", "up", "eof"} /\ sent' = Append(sent, FrameAt) /\ UNCHANGED srvVars
    BY <1>1, <1>4 DEF Sends
  <2> QED
    BY <1>1, <2>1, <2>2, <2>3, ClientType
<1> QED
  BY <1>2, <1>3, <1>4, RunStepEffect

\* What run does keeps TypeInv.
LEMMA RunStepType ==
    ASSUME TypeInv, RunStep
    PROVE  TypeInv'
<1>1. LinkTypeOK' /\ Identities'
  BY RunStepLinkType
<1>2. TypeOK
  BY DEF TypeInv
<1>3. inbox # <<>> => Head(inbox) \in ServerFrames
  BY TailFacts DEF TypeInv, TypeOK, LinkTypeOK
<1>4. NoFrame \in ServerFrames
  BY FrameTypes DEF NoFrame, MessageTypes, Commands, Args
<1>5. /\ dials < MaxDials => dials + 1 \in 0 .. MaxDials
      /\ attempts + 1 \in Nat /\ NextDelay(delay) \in Nat
  <2>1. dials \in 0 .. MaxDials /\ attempts \in Nat /\ delay \in Nat
    BY <1>2 DEF TypeOK
  <2>2. MaxReconnectDelay \in Nat /\ MaxDials \in Nat
    BY OcamlAssumption
  <2>3. NextDelay(delay) \in Nat
    BY <2>1, <2>2 DEF NextDelay
  <2> QED
    BY <2>1, <2>2, <2>3
<1> SUFFICES TypeOK'
  BY <1>1 DEF TypeInv
<1>6. CASE Connect
  BY <1>1, <1>2, <1>5, <1>6 DEF Connect, threadVars, TypeOK, Sending
<1>7. CASE Reconnecting
  BY <1>1, <1>2, <1>5, <1>7 DEF Reconnecting, Finish, threadVars, TypeOK
<1>8. CASE WakeUp
  BY <1>1, <1>2, <1>5, <1>8 DEF WakeUp, threadVars, TypeOK
<1>9. CASE Killed
  BY <1>1, <1>2, <1>9 DEF Killed, Finish, TypeOK
<1>10. CASE RecvFails \/ RegistrationError \/ TypeError \/ HandlerRaises
  BY <1>1, <1>2, <1>10 DEF RecvFails, RegistrationError, TypeError, HandlerRaises, Raise,
     Finish, runVars, threadVars, TypeOK
<1>11. CASE Spawn
  <2>1. stop_flag \in Nat /\ raised \subseteq 0 .. stop_flag /\ holds \in Seq(1 .. stop_flag)
        /\ alive \subseteq DOMAIN holds
    BY <1>2 DEF TypeOK
  <2>2. /\ stop_flag + 1 \in 1 .. stop_flag + 1
        /\ 1 .. stop_flag \subseteq 1 .. stop_flag + 1
        /\ 0 .. stop_flag \subseteq 0 .. stop_flag + 1
        /\ stop_flag + 1 \in Nat
    BY <2>1
  <2>3. PICK refs : refs = 1 .. stop_flag + 1
    OBVIOUS
  <2>4. holds \in Seq(refs) /\ stop_flag + 1 \in refs
    BY <2>1, <2>2, <2>3
  <2>5. /\ stop_flag' = stop_flag + 1
        /\ holds' = Append(holds, stop_flag + 1)
        /\ alive' = alive \cup {Len(holds) + 1}
        /\ UNCHANGED raised
    BY <1>11 DEF Spawn
  <2>6. /\ Len(holds) \in Nat
        /\ holds' \in Seq(refs)
        /\ DOMAIN holds' = 1 .. Len(holds) + 1
        /\ DOMAIN holds = 1 .. Len(holds)
    BY <2>4, <2>5, SeqFacts, AppendFacts
  <2>7. alive' \subseteq DOMAIN holds'
    BY <2>1, <2>5, <2>6
  <2>8. holds' \in Seq(1 .. stop_flag')
    BY <2>3, <2>5, <2>6
  <2>9. stop_flag' \in Nat /\ raised' \subseteq 0 .. stop_flag'
    BY <2>1, <2>2, <2>5
  <2>10. pc' = "message_loop" /\ UNCHANGED <<cur, state, runVars>>
    BY <1>11 DEF Spawn
  <2> QED
    BY <1>1, <1>2, <2>7, <2>8, <2>9, <2>10 DEF runVars, TypeOK, Receiving
<1>12. CASE SendRegister \/ SendReply \/ Announce
  BY <1>1, <1>2, <1>4, <1>12 DEF SendRegister, SendReply, Reply, Announce,
     SendStateUpdate, Send, runVars, threadVars, TypeOK, Sending, Receiving,
     ComponentStates
<1>13. CASE Registered
  BY <1>1, <1>2, <1>13 DEF Registered, runVars, threadVars, TypeOK, Receiving,
     ComponentStates
<1>14. CASE RecvMessage
  <2>1. /\ pc' \in {"pong", "ack_configure", "ack_shutdown", "message_loop"}
        /\ cur' \in ServerFrames
    BY <1>2, <1>3, <1>14 DEF RecvMessage, HandlePing, HandleConfigure, HandleShutdown,
       HandleIgnored, TypeOK
  <2> QED
    BY <1>1, <1>2, <1>14, <2>1 DEF RecvMessage, runVars, threadVars, TypeOK, Sending,
       Receiving
<1>15. CASE GracefulShutdown
  <2>1. raised' \subseteq 0 .. stop_flag
    BY <1>2, <1>15 DEF GracefulShutdown, TypeOK
  <2> QED
    BY <1>1, <1>2, <1>15, <2>1 DEF GracefulShutdown, Finish, TypeOK, ComponentStates
<1> QED
  BY <1>6, <1>7, <1>8, <1>9, <1>10, <1>11, <1>12, <1>13, <1>14, <1>15 DEF RunStep

\* TypeInv is inductive.
LEMMA TypeInvariance == Spec => []TypeInv
<1>1. Init => TypeInv
  <2> SUFFICES ASSUME Init
               PROVE  TypeInv
    OBVIOUS
  <2>1. LinkTypeOK /\ DOMAIN inbox = {} /\ DOMAIN sent = {}
    BY EmptyFacts DEF Init, LinkInit, LinkTypeOK
  <2>2. cur \in ServerFrames
    BY FrameTypes DEF Init, NoFrame, MessageTypes, Commands, Args
  <2>3. dials \in 0 .. MaxDials /\ delay \in Nat
    BY OcamlAssumption DEF Init
  <2>4. holds \in Seq(1 .. stop_flag)
    BY EmptyFacts DEF Init
  <2> QED
    BY <2>1, <2>2, <2>3, <2>4 DEF Init, TypeInv, TypeOK, Identities, ComponentStates
<1>2. TypeInv /\ [Next]_vars => TypeInv'
  <2> SUFFICES ASSUME TypeInv, [Next]_vars
               PROVE  TypeInv'
    OBVIOUS
  <2>1. CASE RunStep
    BY <2>1, RunStepType
  <2>2. CASE WorkerStops \/ Interrupt \/ UNCHANGED vars
    <3>1. /\ UNCHANGED <<linkVars, srvVars, pc, cur, state, runVars, stop_flag, holds>>
          /\ alive' \subseteq alive
          /\ raised' \subseteq raised \cup {stop_flag}
      BY <2>2, OthersEffect
    <3>2. raised' \subseteq 0 .. stop_flag
      BY <3>1 DEF TypeInv, TypeOK
    <3>3. LinkTypeOK' /\ Identities'
      BY <3>1, LinkType DEF TypeInv, TypeOK
    <3> QED
      BY <3>1, <3>2, <3>3 DEF runVars, TypeInv, TypeOK
  <2>3. CASE ServerStep
    <3>1. LinkTypeOK' /\ Identities'
      BY <2>3, ServerType DEF ServerStep, TypeInv, TypeOK
    <3> QED
      BY <2>3, <3>1 DEF ServerStep, runVars, threadVars, TypeInv, TypeOK
  <2> QED
    BY <2>1, <2>2, <2>3 DEF Next
<1> QED
  BY <1>1, <1>2, PTL DEF Spec

\* Every variable of the OCaml component keeps its type, in every instance.
THEOREM TypeCorrect == Spec => []TypeOK
<1>1. TypeInv => TypeOK
  BY DEF TypeInv
<1> QED
  BY <1>1, TypeInvariance, PTL

-----------------------------------------------------------------------------
(* Replies *)

\* Where run answers the request that it read last.
Replying == {"pong", "ack_configure", "ack_shutdown"}

\* The command of that request.
Wanted(at) ==
    IF at = "pong" THEN "PING"
    ELSE IF at = "ack_configure" THEN "CONFIGURE"
    ELSE "SHUTDOWN"

\* The envelope being handled is a request in hand, of the command that its handler is
\* for.
Handling ==
    pc \in Replying => InHand(cur.id) /\ asked[cur.id] = Wanted(pc)

ReplyInv == QueueInv /\ Handling

\* What run does keeps ReplyInv.
LEMMA RunStepReplies ==
    ASSUME TypeInv, ReplyInv, RunStep
    PROVE  ReplyInv'
<1>1. LinkTypeOK /\ QueueInv /\ 0 \in Nat /\ 1 \in Nat \ {0} /\ 1 \in Nat
  BY DEF TypeInv, TypeOK, ReplyInv
<1>2. QueueInv'
  <2>1. CASE OpenLink \/ CloseLink \/ UNCHANGED <<linkVars, srvVars>>
    BY <1>1, <2>1, LinkQueue
  <2>2. CASE Takes
    <3>1. Taken(1) /\ UNCHANGED <<sent, asked>>
      BY <1>1, <2>2, TakenFacts DEF Takes, srvVars
    <3> QED
      BY <1>1, <3>1, ClientQueue
  <2>3. CASE Sends
    <3>1. /\ FrameAt \in ComponentFrames
          /\ FrameAt.corr = IF pc \in Replying THEN cur.id ELSE 0
          /\ pc \in Replying => FrameAt.command = ReplyTo(Wanted(pc))
      BY <2>3, FrameAtType DEF TypeInv, Sends, Replying, Wanted, ReplyTo
    <3>2. MayAnswer(FrameAt)
      BY <3>1 DEF MayAnswer, ReplyInv, Handling
    <3>3. UNCHANGED asked /\ sent' = Append(sent, FrameAt) /\ Taken(0)
      BY <1>1, <2>3, TakenFacts DEF Sends, srvVars
    <3> QED
      BY <1>1, <3>1, <3>2, <3>3, ClientQueue
  <2> QED
    BY <2>1, <2>2, <2>3, RunStepEffect
<1>3. ASSUME pc' \in Replying
      PROVE  InHand(cur.id)' /\ asked'[cur'.id] = Wanted(pc')
  <2>1. Takes /\ cur' = Head(inbox) /\ Head(inbox).command = Wanted(pc')
    BY <1>3, RunStepPlace DEF Replying, Wanted
  <2>2. PICK head : head = Head(inbox)
    OBVIOUS
  <2>3. /\ Taken(1) /\ UNCHANGED <<sent, asked>> /\ inbox # <<>>
        /\ head.command \in Requests
    BY <1>1, <2>1, <2>2, TakenFacts DEF Takes, srvVars, Wanted, Requests
  <2>4. InHand(head.id)' /\ asked[head.id] = head.command
    BY <1>1, <2>2, <2>3, HeadInHand
  <2> QED
    BY <2>1, <2>2, <2>3, <2>4 DEF InHand
<1> QED
  BY <1>2, <1>3 DEF ReplyInv, Handling

\* ReplyInv is inductive.
LEMMA ReplyInvariance == Spec => []ReplyInv
<1>1. Init => ReplyInv
  <2> SUFFICES ASSUME Init
               PROVE  ReplyInv
    OBVIOUS
  <2>1. DOMAIN inbox = {} /\ DOMAIN sent = {} /\ pc = "connect"
    BY EmptyFacts DEF Init, LinkInit
  <2> QED
    BY <2>1 DEF ReplyInv, QueueInv, RepliesMatch, Numbered, Ahead, Handling, Replying
<1>2. TypeInv /\ ReplyInv /\ [Next]_vars => ReplyInv'
  <2> SUFFICES ASSUME TypeInv, ReplyInv, [Next]_vars
               PROVE  ReplyInv'
    OBVIOUS
  <2>1. LinkTypeOK /\ QueueInv
    BY DEF TypeInv, TypeOK, ReplyInv
  <2>2. CASE RunStep
    BY <2>2, RunStepReplies
  <2>3. CASE WorkerStops \/ Interrupt \/ UNCHANGED vars
    <3>1. UNCHANGED <<linkVars, srvVars, pc, cur>>
      BY <2>3, OthersEffect
    <3>2. QueueInv'
      BY <2>1, <3>1, LinkQueue
    <3> QED
      BY <3>1, <3>2 DEF linkVars, srvVars, ReplyInv, Handling, InHand
  <2>4. CASE ServerStep
    <3>1. /\ QueueInv' /\ UNCHANGED <<pc, cur>>
          /\ \A r : InHand(r) => InHand(r)'
          /\ \A r \in DOMAIN asked : asked'[r] = asked[r]
      BY <2>1, <2>4, ServerQueue DEF ServerStep
    <3>2. CASE pc \in Replying
      <4>1. InHand(cur.id) /\ asked[cur.id] = Wanted(pc)
        BY <3>2 DEF ReplyInv, Handling
      <4>2. InHand(cur.id)'
        BY <3>1, <4>1 DEF InHand
      <4>3. asked'[cur.id] = Wanted(pc)
        BY <3>1, <4>1 DEF InHand
      <4> QED
        BY <3>1, <4>1, <4>2, <4>3 DEF ReplyInv, Handling
    <3>3. CASE pc \notin Replying
      BY <3>1, <3>3 DEF ReplyInv, Handling
    <3> QED
      BY <3>2, <3>3
  <2> QED
    BY <2>2, <2>3, <2>4 DEF Next
<1> QED
  BY <1>1, <1>2, TypeInvariance, PTL DEF Spec

-----------------------------------------------------------------------------
(* The state that is reported *)

\* Where run is in do_register.
Registering == {"register", "await_registered"}

\* Where it is in message_loop or a handler.
InLoop == {"message_loop", "pong", "ack_configure", "announce_configured",
           "announce_running", "ack_shutdown", "spawn", "graceful_shutdown"}

\* t.state is what aegisd must take it for as soon as do_register reset it, and aegisd
\* was told nothing before.
ReportInv ==
    /\ PongConsistent
    /\ pc \in Registering => Silent
    /\ pc \in InLoop => Reported(state)

\* What run does keeps ReportInv.
LEMMA RunStepReports ==
    ASSUME TypeInv, ReportInv, RunStep
    PROVE  ReportInv'
<1>1. LinkTypeOK /\ PongConsistent
  BY DEF TypeInv, TypeOK, ReportInv
<1>2. ASSUME UNCHANGED sent
      PROVE  /\ PongConsistent'
             /\ Silent => Silent'
             /\ \A st : Reported(st) => Reported(st)'
  BY <1>1, <1>2 DEF PongConsistent, IsUpdate, Silent, Reported, LastTold
<1>3. ASSUME Sends
      PROVE  \E frame \in ComponentFrames :
                /\ sent' = Append(sent, frame)
                /\ frame.command = "PONG" => pc = "pong" /\ frame.arg = state
                /\ IsUpdate(frame) <=> pc \in {"announce_configured", "announce_running"}
                /\ IsUpdate(frame) => frame.arg = StateAt
  <2>1. /\ pc \in Sending
        /\ sent' = Append(sent, FrameAt)
        /\ FrameAt \in ComponentFrames
        /\ FrameAt.command = "PONG" => pc = "pong" /\ FrameAt.arg = state
        /\ IsUpdate(FrameAt) <=> pc \in {"announce_configured", "announce_running"}
        /\ IsUpdate(FrameAt) => FrameAt.arg = StateAt
    BY <1>3, FrameAtType DEF TypeInv, Sends, Sending, IsUpdate
  <2> QED
    BY <2>1
<1>4. PongConsistent'
  <2>1. CASE OpenLink \/ CloseLink \/ UNCHANGED <<linkVars, srvVars>> \/ Takes
    BY <1>1, <2>1, LinkReported DEF Takes, linkVars
  <2>2. CASE Sends
    <3>1. PICK frame \in ComponentFrames :
              /\ sent' = Append(sent, frame)
              /\ frame.command = "PONG" => pc = "pong" /\ frame.arg = state
      BY <1>3, <2>2
    <3>2. frame.command = "PONG" => Reported(frame.arg)
      BY <3>1 DEF ReportInv, InLoop
    <3> QED
      BY <1>1, <3>1, <3>2, SentConsistent
  <2> QED
    BY <2>1, <2>2, RunStepEffect
<1>5. ASSUME pc' \in Registering
      PROVE  Silent'
  <2>1. CASE OpenLink
    BY <2>1, LinkReported
  <2>2. CASE pc = "register" /\ Sends
    <3>1. PICK frame \in ComponentFrames : sent' = Append(sent, frame) /\ ~IsUpdate(frame)
      BY <1>3, <2>2
    <3> QED
      BY <1>1, <2>2, <3>1, SentReported DEF ReportInv, Registering
  <2> QED
    BY <1>5, <2>1, <2>2, RunStepPlace DEF Registering
<1>6. ASSUME pc' \in InLoop
      PROVE  Reported(state)'
  <2>1. PICK st : st = state'
    OBVIOUS
  <2>2. CASE pc = "await_registered" /\ Takes /\ state' = "REGISTERED"
    BY <1>2, <2>2 DEF Takes, ReportInv, Registering, Reported
  <2>3. CASE pc \in InLoop /\ UNCHANGED <<sent, state>>
    BY <2>3 DEF ReportInv, Reported, LastTold, Silent, IsUpdate
  <2>4. CASE /\ pc \in InLoop /\ Sends
             /\ state' = IF pc \in {"announce_configured", "announce_running"}
                         THEN StateAt ELSE state
    <3>1. PICK frame \in ComponentFrames :
              /\ sent' = Append(sent, frame)
              /\ IsUpdate(frame) <=> pc \in {"announce_configured", "announce_running"}
              /\ IsUpdate(frame) => frame.arg = StateAt
      BY <1>3, <2>4
    <3>2. CASE IsUpdate(frame)
      <4>1. st = frame.arg
        BY <2>1, <2>4, <3>1, <3>2
      <4>2. Reported(st)'
        BY <1>1, <3>1, <3>2, <4>1, SentReported
      <4> QED
        BY <2>1, <4>2 DEF Reported, LastTold, Silent
    <3>3. CASE ~IsUpdate(frame)
      <4>1. Reported(st)
        BY <2>1, <2>4, <3>1, <3>3 DEF ReportInv
      <4>2. Reported(st)'
        BY <1>1, <3>1, <3>3, <4>1, SentReported
      <4> QED
        BY <2>1, <4>2 DEF Reported, LastTold, Silent
    <3> QED
      BY <3>2, <3>3
  <2> QED
    BY <1>6, <2>2, <2>3, <2>4, RunStepPlace DEF InLoop, Takes, linkVars
<1> QED
  BY <1>4, <1>5, <1>6 DEF ReportInv

\* ReportInv is inductive.
LEMMA ReportInvariance == Spec => []ReportInv
<1>1. Init => ReportInv
  <2> SUFFICES ASSUME Init
               PROVE  ReportInv
    OBVIOUS
  <2>1. DOMAIN sent = {} /\ pc = "connect"
    BY EmptyFacts DEF Init, LinkInit
  <2> QED
    BY <2>1 DEF ReportInv, PongConsistent, Registering, InLoop
<1>2. TypeInv /\ ReportInv /\ [Next]_vars => ReportInv'
  <2> SUFFICES ASSUME TypeInv, ReportInv, [Next]_vars
               PROVE  ReportInv'
    OBVIOUS
  <2>1. CASE RunStep
    BY <2>1, RunStepReports
  <2>2. CASE WorkerStops \/ Interrupt \/ UNCHANGED vars \/ ServerStep
    <3>1. UNCHANGED <<sent, pc, state>>
      <4>1. CASE ServerStep
        BY <4>1, ServerEffect DEF ServerStep, TypeInv, TypeOK
      <4>2. CASE WorkerStops \/ Interrupt \/ UNCHANGED vars
        BY <4>2, OthersEffect DEF linkVars
      <4> QED
        BY <2>2, <4>1, <4>2
    <3> QED
      BY <3>1 DEF ReportInv, PongConsistent, IsUpdate, Silent, Reported, LastTold
  <2> QED
    BY <2>1, <2>2 DEF Next
<1> QED
  BY <1>1, <1>2, TypeInvariance, PTL DEF Spec

\* On every connection aegisd sees replies that match its requests, and PONGs that
\* report the state of that connection, in every instance.
THEOREM ConversationHolds == Spec => []Conversation
<1>1. TypeInv /\ ReplyInv /\ ReportInv => Conversation
  BY DEF TypeInv, ReplyInv, QueueInv, ReportInv, Conversation
<1> QED
  BY <1>1, TypeInvariance, ReplyInvariance, ReportInvariance, PTL

-----------------------------------------------------------------------------
(* How run ends *)

\* The frame number i acknowledged SHUTDOWN.
Acked(i) ==
    /\ i \in DOMAIN sent
    /\ sent[i].corr \in DOMAIN asked
    /\ asked[sent[i].corr] = "SHUTDOWN"

\* graceful_shutdown is entered right after the ACK, and nothing is sent after it.
ExitInv ==
    /\ pc = "graceful_shutdown" => Acked(Len(sent))
    /\ result = "ok" =>
          /\ pc = "done"
          /\ Len(sent) > 1
          /\ sent[Len(sent)].command = "SHUTDOWN"
          /\ Acked(Len(sent) - 1)

\* Only graceful_shutdown sets the result "ok", and a run that has ended takes no step.
LEMMA Ending ==
    ASSUME RunStep
    PROVE  /\ pc # "done"
           /\ result' = "ok" => GracefulShutdown \/ UNCHANGED result
  BY DEF RunStep, Connect, Reconnecting, WakeUp, Killed, RecvFails, RegistrationError,
     TypeError, HandlerRaises, Raise, Finish, Registered, RecvMessage, SendRegister,
     SendReply, Reply, Announce, SendStateUpdate, Send, Spawn, GracefulShutdown, Sending,
     Receiving, runVars

\* What run does keeps ExitInv.
LEMMA RunStepExit ==
    ASSUME TypeInv, ReplyInv, ExitInv, RunStep
    PROVE  ExitInv'
<1>1. LinkTypeOK /\ FrameAt \in ComponentFrames
  BY FrameAtType DEF TypeInv, TypeOK
<1>2. CASE GracefulShutdown
  <2>1. /\ pc = "graceful_shutdown" /\ pc' = "done" /\ UNCHANGED asked
        /\ sent' = Append(sent, FrameAt) /\ FrameAt.command = "SHUTDOWN"
    BY <1>2 DEF GracefulShutdown, Finish, FrameAt, Envelope, srvVars
  <2>2. /\ Len(sent) \in Nat /\ Len(sent') = Len(sent) + 1
        /\ DOMAIN sent = 1 .. Len(sent)
        /\ \A i \in DOMAIN sent : i \in DOMAIN sent' /\ sent'[i] = sent[i]
        /\ sent'[Len(sent) + 1] = FrameAt
    BY <1>1, <2>1, SentFacts
  <2>3. Acked(Len(sent))
    BY <2>1 DEF ExitInv
  <2>4. /\ Len(sent') > 1 /\ Len(sent') - 1 = Len(sent)
    BY <2>2, <2>3 DEF Acked
  <2>5. sent'[Len(sent')].command = "SHUTDOWN"
    BY <2>1, <2>2
  <2>6. Acked(Len(sent) - 1)'
    BY <2>1, <2>2, <2>3, <2>4 DEF Acked
  <2> QED
    BY <2>1, <2>4, <2>5, <2>6 DEF ExitInv
<1>3. CASE ~GracefulShutdown
  <2>1. result' # "ok"
    BY <1>3, Ending DEF ExitInv
  <2>2. ASSUME pc' = "graceful_shutdown"
        PROVE  Acked(Len(sent))'
    <3>1. pc = "ack_shutdown" /\ Sends
      BY <2>2, RunStepPlace
    <3>2. /\ sent' = Append(sent, FrameAt) /\ UNCHANGED asked
          /\ FrameAt.corr = cur.id
          /\ cur.id \in DOMAIN asked /\ asked[cur.id] = "SHUTDOWN"
      BY <3>1, FrameAtType DEF Sends, srvVars, TypeInv, ReplyInv, Handling, Replying,
         Wanted, InHand
    <3>3. Len(sent') \in DOMAIN sent' /\ sent'[Len(sent')] = FrameAt
      BY <1>1, <3>2, SentFacts
    <3> QED
      BY <3>2, <3>3 DEF Acked
  <2> QED
    BY <2>1, <2>2 DEF ExitInv
<1> QED
  BY <1>2, <1>3

\* ExitInv is inductive.
LEMMA ExitInvariance == Spec => []ExitInv
<1>1. Init => ExitInv
  BY DEF Init, ExitInv
<1>2. TypeInv /\ ReplyInv /\ ExitInv /\ [Next]_vars => ExitInv'
  <2> SUFFICES ASSUME TypeInv, ReplyInv, ExitInv, [Next]_vars
               PROVE  ExitInv'
    OBVIOUS
  <2>1. CASE RunStep
    BY <2>1, RunStepExit
  <2>2. CASE WorkerStops \/ Interrupt \/ UNCHANGED vars
    BY <2>2, OthersEffect DEF linkVars, srvVars, runVars, ExitInv, Acked
  <2>3. CASE ServerStep
    <3>1. /\ UNCHANGED <<sent, pc, result>>
          /\ \A r \in DOMAIN asked : r \in DOMAIN asked' /\ asked'[r] = asked[r]
      BY <2>3, ServerEffect, ServerAsked DEF ServerStep, runVars, TypeInv, TypeOK
    <3> QED
      BY <3>1 DEF ExitInv, Acked
  <2> QED
    BY <2>1, <2>2, <2>3 DEF Next
<1> QED
  BY <1>1, <1>2, TypeInvariance, ReplyInvariance, PTL DEF Spec

\* run ends without an exception only when the last two frames were the ACK of aegisd's
\* SHUTDOWN and the component's own, in every instance.
THEOREM CleanExitHolds == Spec => []CleanExit
<1>1. ExitInv => CleanExit
  BY DEF ExitInv, CleanExit, Acked
<1> QED
  BY <1>1, ExitInvariance, PTL

-----------------------------------------------------------------------------
(* The reconnection budget *)

\* How often run slept: it does between two calls of run_once.
Sleeps == IF pc = "connect" THEN dials ELSE dials - 1

\* While run runs, `attempts' counts the calls of run_once that failed, the budget is
\* not used up, and `delay' is the one for that many sleeps.
BudgetInv ==
    /\ ReconnectBudget
    /\ pc # "done" =>
          /\ delay = DelayAfter(Sleeps, ReconnectDelay, MaxReconnectDelay)
          /\ dials = IF pc \in {"connect", "sleep"} THEN attempts ELSE attempts + 1
          /\ result = "none"
          /\ MaxReconnectAttempts > 0 => attempts < MaxReconnectAttempts
          /\ ~Reconnect => attempts = 0
    /\ pc = "sleep" => dials # 0

\* Between the dial and the end of run_once nothing changes the budget.
LEMMA BudgetQuiet ==
    ASSUME RunStep, ~Connect, ~Reconnecting, ~WakeUp
    PROVE  /\ pc \notin {"connect", "sleep"} /\ pc' \notin {"connect", "sleep"}
           /\ UNCHANGED <<attempts, delay, dials>>
           /\ \/ pc # "done" /\ pc' # "done" /\ UNCHANGED result
              \/ pc' = "done" /\ result' \in {result, "ok", "registration", "killed"}
<1>1. CASE Killed \/ RecvFails \/ RegistrationError \/ TypeError \/ HandlerRaises
  BY <1>1 DEF Killed, RecvFails, RegistrationError, TypeError, HandlerRaises, Raise, Finish,
     runVars, Sending, Receiving
<1>2. CASE SendRegister \/ SendReply \/ Announce \/ Spawn \/ GracefulShutdown
  BY <1>2 DEF SendRegister, SendReply, Reply, Announce, SendStateUpdate, Spawn,
     GracefulShutdown, Finish, Send, runVars
<1>3. CASE Registered \/ RecvMessage
  BY <1>3 DEF Registered, RecvMessage, HandlePing, HandleConfigure, HandleShutdown,
     HandleIgnored, runVars
<1> QED
  BY <1>1, <1>2, <1>3 DEF RunStep

\* What run does keeps the budget.
LEMMA BudgetStep ==
    ASSUME TypeInv, BudgetInv, RunStep
    PROVE  BudgetInv'
<1>1. attempts \in Nat /\ MaxReconnectAttempts \in Nat
  BY OcamlAssumption DEF TypeInv, TypeOK
<1>2. CASE Connect
  <2>1. /\ pc = "connect" /\ pc' \in {"register", "failed"}
        /\ dials' = dials + 1 /\ UNCHANGED <<attempts, delay, result>>
    BY <1>2 DEF Connect
  <2>2. /\ dials = attempts /\ result = "none"
        /\ delay = DelayAfter(Sleeps, ReconnectDelay, MaxReconnectDelay)
        /\ MaxReconnectAttempts > 0 => attempts < MaxReconnectAttempts
        /\ ~Reconnect => attempts = 0
    BY <2>1 DEF BudgetInv
  <2>3. ReconnectBudget'
    BY <1>1, <2>1, <2>2 DEF ReconnectBudget
  <2>4. Sleeps' = Sleeps
    BY <1>1, <2>1, <2>2 DEF Sleeps
  <2> QED
    BY <2>1, <2>2, <2>3, <2>4 DEF BudgetInv
<1>3. CASE Reconnecting
  <2>1. pc = "failed" /\ UNCHANGED <<dials, delay>>
    BY <1>3 DEF Reconnecting
  <2>2. /\ dials = attempts + 1 /\ result = "none" /\ ReconnectBudget
        /\ delay = DelayAfter(dials - 1, ReconnectDelay, MaxReconnectDelay)
        /\ MaxReconnectAttempts > 0 => attempts < MaxReconnectAttempts
        /\ ~Reconnect => attempts = 0
    BY <2>1 DEF BudgetInv, Sleeps
  <2>3. CASE ~Reconnect /\ Finish("reconnect_disabled")
    BY <2>1, <2>2, <2>3 DEF Finish, BudgetInv, ReconnectBudget
  <2>4. CASE /\ Reconnect /\ AttemptsExhausted(attempts + 1)
             /\ Finish("max_reconnect_attempts")
    <3>1. dials = MaxReconnectAttempts
      BY <1>1, <2>2, <2>4 DEF AttemptsExhausted
    <3> QED
      BY <2>1, <2>2, <2>4, <3>1 DEF Finish, BudgetInv, ReconnectBudget
  <2>5. CASE /\ Reconnect /\ ~AttemptsExhausted(attempts + 1)
             /\ attempts' = attempts + 1
             /\ pc' = "sleep" /\ UNCHANGED result
    <3>1. /\ dials' = attempts' /\ dials' # 0
          /\ MaxReconnectAttempts > 0 => attempts' < MaxReconnectAttempts
      BY <1>1, <2>1, <2>2, <2>5 DEF AttemptsExhausted
    <3> QED
      BY <2>1, <2>2, <2>5, <3>1 DEF BudgetInv, ReconnectBudget, Sleeps
  <2> QED
    BY <1>3, <2>3, <2>4, <2>5 DEF Reconnecting
<1>4. CASE WakeUp
  <2>1. /\ pc = "sleep" /\ pc' = "connect" /\ delay' = NextDelay(delay)
        /\ UNCHANGED <<attempts, dials, result>>
    BY <1>4 DEF WakeUp
  <2>2. /\ dials = attempts /\ dials # 0
        /\ delay = DelayAfter(dials - 1, ReconnectDelay, MaxReconnectDelay)
    BY <2>1 DEF BudgetInv, Sleeps
  <2>3. dials - 1 \in Nat /\ (dials - 1) + 1 = dials
    BY <1>1, <2>2
  <2>4. \A n \in Nat : DelayAfter(n + 1, ReconnectDelay, MaxReconnectDelay) =
          NextDelay(DelayAfter(n, ReconnectDelay, MaxReconnectDelay))
    BY NextDelayAfter, OcamlAssumption DEF NextDelay
  <2>5. delay' = DelayAfter(dials, ReconnectDelay, MaxReconnectDelay)
    BY <2>1, <2>2, <2>3, <2>4
  <2> QED
    BY <2>1, <2>2, <2>5 DEF BudgetInv, ReconnectBudget, Sleeps
<1>5. CASE ~Connect /\ ~Reconnecting /\ ~WakeUp
  <2>1. /\ pc \notin {"connect", "sleep"} /\ pc' \notin {"connect", "sleep"}
        /\ UNCHANGED <<attempts, delay, dials>>
        /\ \/ pc # "done" /\ pc' # "done" /\ UNCHANGED result
           \/ pc' = "done" /\ result' \in {result, "ok", "registration", "killed"}
    BY <1>5, BudgetQuiet
  <2>2. ReconnectBudget' /\ Sleeps' = Sleeps
    BY <2>1 DEF BudgetInv, ReconnectBudget, Sleeps
  <2> QED
    BY <2>1, <2>2 DEF BudgetInv
<1> QED
  BY <1>2, <1>3, <1>4, <1>5

\* run connects as often as the configuration allows, gives up for lack of attempts only
\* after it used all of them, and its n-th sleep lasts reconnect_delay_s * 2^(n-1), capped
\* from the second one on.
THEOREM ReconnectBudgetHolds == Spec => []ReconnectBudget
<1>1. Init => BudgetInv
  BY NextDelayAfter, OcamlAssumption DEF Init, BudgetInv, ReconnectBudget, Sleeps
<1>2. TypeInv /\ BudgetInv /\ [Next]_vars => BudgetInv'
  <2> SUFFICES ASSUME TypeInv, BudgetInv, [Next]_vars
               PROVE  BudgetInv'
    OBVIOUS
  <2>1. CASE RunStep
    BY <2>1, BudgetStep
  <2>2. CASE WorkerStops \/ Interrupt \/ ServerStep \/ UNCHANGED vars
    <3>1. UNCHANGED <<pc, attempts, delay, dials, result>>
      BY <2>2, OthersEffect DEF ServerStep, runVars
    <3> QED
      BY <3>1 DEF BudgetInv, ReconnectBudget, Sleeps
  <2> QED
    BY <2>1, <2>2 DEF Next
<1>3. BudgetInv => ReconnectBudget
  BY DEF BudgetInv
<1> QED
  BY <1>1, <1>2, <1>3, TypeInvariance, PTL DEF Spec

-----------------------------------------------------------------------------
(* The lifecycle contract *)

\* Where there is no connection.
Idle == {"connect", "failed", "sleep", "done"}

\* The states in which the client can be at each place of the message loop.
StatesAt(at) ==
    IF at = "announce_running" THEN {"CONFIGURED"}
    ELSE IF at = "spawn" THEN {"RUNNING"}
    ELSE {"REGISTERED", "RUNNING"}

LifecycleInv ==
    /\ pc \in Idle <=> link = "down"
    /\ pc \in InLoop => state \in StatesAt(pc)

\* Every place is one of these.
LEMMA Places ==
    ASSUME TypeOK
    PROVE  pc \in Idle \cup Registering \cup InLoop
  BY DEF TypeOK, Sending, Receiving, Idle, Registering, InLoop

\* run dials, and every way out of run_once closes the socket.
LEMMA LinkPlace ==
    ASSUME RunStep, pc \in Idle <=> link = "down"
    PROVE  /\ pc' \in Idle <=> link' = "down"
           /\ pc # "done"
<1> USE DEF Idle
<1>1. CASE Connect \/ Reconnecting \/ WakeUp
  BY <1>1 DEF Connect, OpenLink, Reconnecting, Finish, WakeUp, linkVars
<1>2. CASE Killed \/ RecvFails \/ RegistrationError \/ TypeError \/ HandlerRaises
  BY <1>2 DEF Killed, RecvFails, RegistrationError, TypeError, HandlerRaises, Raise, Finish,
     CloseLink, Sending, Receiving
<1>3. CASE SendRegister \/ SendReply \/ Announce \/ Spawn \/ GracefulShutdown
  BY <1>3 DEF SendRegister, SendReply, Reply, Announce, SendStateUpdate, Spawn,
     GracefulShutdown, Finish, Send, linkVars
<1>4. CASE Registered \/ RecvMessage
  BY <1>4 DEF Registered, RecvMessage, HandlePing, HandleConfigure, HandleShutdown,
     HandleIgnored
<1> QED
  BY <1>1, <1>2, <1>3, <1>4 DEF RunStep

\* A step of run keeps LifecycleInv and is a step of the contract, or none.
LEMMA LifecycleStep ==
    ASSUME TypeOK, LifecycleInv, RunStep
    PROVE  LifecycleInv' /\ [Contract!ShortNext]_Phase
<1>1. pc' \in Idle <=> link' = "down"
  BY LinkPlace DEF LifecycleInv
<1>2. /\ pc = "done" => Phase = "stopped"
      /\ pc \in Idle \ {"done"} => Phase = "offline"
      /\ pc \in Registering => Phase = "registering"
      /\ pc \in InLoop => Phase = state
  BY DEF LifecycleInv, Phase, Idle, Registering, InLoop
<1>3. /\ pc' = "done" => Phase' = "stopped"
      /\ pc' \in Idle \ {"done"} => Phase' = "offline"
      /\ pc' \in Registering => Phase' = "registering"
      /\ pc' \in InLoop => Phase' = state'
  BY <1>1 DEF Phase, Idle, Registering, InLoop
<1> USE DEF Contract!ShortNext, Contract!ShortAdvance, Contract!ShortAdvances
<1>4. CASE pc' \in Idle
  <2>1. LifecycleInv'
    BY <1>1, <1>4 DEF LifecycleInv, Idle, InLoop
  <2>2. Phase # "stopped" /\ Phase' \in {"offline", "stopped"}
    BY <1>2, <1>3, <1>4, LinkPlace, Places DEF LifecycleInv, StatesAt
  <2> QED
    BY <2>1, <2>2 DEF Contract!Stop, Contract!Drop
<1>5. CASE \/ pc = "connect" /\ pc' = "register"
           \/ pc = "register" /\ pc' = "await_registered"
  BY <1>1, <1>2, <1>3, <1>5 DEF LifecycleInv, Idle, Registering, InLoop
<1>6. CASE pc = "await_registered" /\ pc' = "message_loop" /\ state' = "REGISTERED"
  BY <1>1, <1>2, <1>3, <1>6 DEF LifecycleInv, StatesAt, Idle, Registering, InLoop
<1>7. CASE /\ pc \in {"announce_configured", "announce_running"} /\ state' = StateAt
           /\ pc' = IF pc = "announce_configured" THEN "announce_running" ELSE "spawn"
  BY <1>1, <1>2, <1>3, <1>7 DEF LifecycleInv, StateAt, StatesAt, Idle, InLoop
<1>8. CASE /\ pc \in InLoop \ {"announce_configured", "announce_running"}
           /\ pc' \in InLoop \ {"announce_running", "spawn"}
           /\ UNCHANGED state
  <2>1. LifecycleInv'
    BY <1>1, <1>8 DEF LifecycleInv, StatesAt, Idle, InLoop
  <2> QED
    BY <1>2, <1>3, <1>8, <2>1
<1> QED
  BY <1>4, <1>5, <1>6, <1>7, <1>8, RunStepPlace DEF Idle, InLoop

\* The OCaml client implements the short lifecycle contract: on every connection it goes
\* through its states in their order, and ends for good.
THEOREM ImplementsContract == Spec => ContractSpec
<1>1. Init => LifecycleInv /\ Contract!Init
  BY DEF Init, LinkInit, LifecycleInv, Idle, InLoop, Phase, Contract!Init
<1>2. TypeInv /\ LifecycleInv /\ [Next]_vars => LifecycleInv' /\ [Contract!ShortNext]_Phase
  <2> SUFFICES ASSUME TypeInv, LifecycleInv, [Next]_vars
               PROVE  LifecycleInv' /\ [Contract!ShortNext]_Phase
    OBVIOUS
  <2>1. CASE RunStep
    BY <2>1, LifecycleStep DEF TypeInv
  <2>2. CASE WorkerStops \/ Interrupt \/ UNCHANGED vars
    <3>1. UNCHANGED <<pc, link, state>>
      BY <2>2, OthersEffect DEF linkVars
    <3> QED
      BY <3>1 DEF LifecycleInv, Phase
  <2>3. CASE ServerStep
    <3>1. UNCHANGED <<pc, state>> /\ link # "down" /\ link' # "down"
      BY <2>3, ServerEffect DEF ServerStep, TypeInv, TypeOK
    <3> QED
      BY <3>1 DEF LifecycleInv, Phase
  <2> QED
    BY <2>1, <2>2, <2>3 DEF Next
<1> QED
  BY <1>1, <1>2, TypeInvariance, PTL DEF Spec, ContractSpec, Contract!ShortSpec
=============================================================================
