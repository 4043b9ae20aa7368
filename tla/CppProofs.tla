------------------------------ MODULE CppProofs ------------------------------
(***************************************************************************)
(* The C++ component, for every value of the constants: its types, what    *)
(* aegisd sees on a connection, its threads, how run() ends, its attempts  *)
(* and delays, and that it implements the short lifecycle contract.        *)
(***************************************************************************)
EXTENDS CppComponent, ConnectionProofs

-----------------------------------------------------------------------------
(* What run() does to the connection *)

\* The state that is announced there.
StateAt == IF pc = "announce_configured" THEN "CONFIGURED" ELSE "RUNNING"

\* The frame that is sent there.
FrameAt ==
    IF pc = "register" THEN Envelope("REGISTER", 0, NoId)
    ELSE IF pc = "pong" THEN Envelope("PONG", cur.id, state_)
    ELSE IF pc \in {"ack_configure", "ack_shutdown"} THEN Envelope("ACK", cur.id, NoId)
    ELSE IF pc = "leave" THEN Envelope("SHUTDOWN", 0, NoId)
    ELSE Envelope("STATE_UPDATE", 0, StateAt)

\* The frame of this place reaches the socket; after the last one fd_ is closed.
Sends ==
    /\ pc \in Sending
    /\ link = "up"
    /\ sent' = Append(sent, FrameAt)
    /\ \/ UNCHANGED <<link, inbox>>
       \/ pc = "leave" /\ link' = "down" /\ inbox' = <<>>
    /\ UNCHANGED srvVars

\* A line is read that can be decoded.
Takes ==
    /\ pc \in {"await_registered", "read"}
    /\ inbox # <<>>
    /\ inbox' = Tail(inbox)
    /\ UNCHANGED <<link, sent, srvVars>>

TypeInv == TypeOK /\ Identities

\* The frames that run() sends are component frames.
LEMMA FrameAtType ==
    ASSUME TypeOK
    PROVE  /\ FrameAt \in ComponentFrames
           /\ FrameAt.command = "REGISTER" => FrameAt.arg = NoId
           /\ pc \in Sending =>
                /\ FrameAt.command =
                     IF pc = "register" THEN "REGISTER"
                     ELSE IF pc = "pong" THEN "PONG"
                     ELSE IF pc \in {"ack_configure", "ack_shutdown"} THEN "ACK"
                     ELSE IF pc = "leave" THEN "SHUTDOWN"
                     ELSE "STATE_UPDATE"
                /\ FrameAt.corr =
                     IF pc \in {"pong", "ack_configure", "ack_shutdown"} THEN cur.id ELSE 0
                /\ pc = "pong" => FrameAt.arg = state_
                /\ IsUpdate(FrameAt) => FrameAt.arg = StateAt
<1>1. /\ cur.id \in Nat /\ state_ \in Args /\ NoId \in Args /\ StateAt \in Args
  BY DEF TypeOK, ServerFrames, Args, ComponentStates, StateAt
<1>2. {"REGISTER", "PONG", "ACK", "STATE_UPDATE", "SHUTDOWN"} \subseteq Commands
  BY DEF Commands
<1>3. FrameAt \in ComponentFrames
  BY <1>1, <1>2, FrameTypes DEF FrameAt
<1> QED
  BY <1>3 DEF FrameAt, Envelope, IsUpdate

\* A step of run() opens the connection, drops it, leaves it alone, takes a frame, or
\* sends the frame of its place.
LEMMA RunStepEffect ==
    ASSUME RunStep
    PROVE  \/ pc = "connect" /\ OpenLink
           \/ CloseLink
           \/ UNCHANGED <<linkVars, srvVars>>
           \/ Takes
           \/ Sends
<1>1. CASE Connect \/ Reconnecting \/ WakeUp \/ Killed
  BY <1>1 DEF Connect, Reconnecting, WakeUp, Killed
<1>2. CASE RegisterThrows \/ RegisterThrowsOther \/ RegistrationFailed \/ ConfigureThrowsOther
  BY <1>2 DEF RegisterThrows, RegisterThrowsOther, RegistrationFailed,
     ConfigureThrowsOther, Throw, ThrowOther
<1>3. CASE LoopHead \/ ReadFails \/ Spawn \/ JoinReplaced \/ GracefulShutdown \/ Join
             \/ Destroy \/ Destroyed
  BY <1>3 DEF LoopHead, ReadFails, Spawn, JoinReplaced, GracefulShutdown, Join, Destroy,
     Destroyed
<1>4. CASE Registered \/ ReadMessage
  BY <1>4 DEF Registered, ReadMessage, Takes
<1>5. CASE SendRegister
  BY <1>5 DEF SendRegister, Write, Sends, Sending, FrameAt
<1>6. CASE SendReply
  BY <1>6 DEF SendReply, Reply, ReplyCorr, Write, Sends, Sending, FrameAt
<1>7. CASE Announce
  BY <1>7 DEF Announce, SendStateUpdate, Write, Sends, Sending, FrameAt, StateAt
<1>8. CASE Leave
  BY <1>8 DEF Leave, Sends, Sending, FrameAt
<1> QED
  BY <1>1, <1>2, <1>3, <1>4, <1>5, <1>6, <1>7, <1>8 DEF RunStep

\* The other threads leave the connection and run() alone.
LEMMA OthersEffect ==
    ASSUME WorkerStops \/ WorkerReturns \/ Stop \/ UNCHANGED vars
    PROVE  /\ UNCHANGED <<linkVars, srvVars, pc, cur, state_, runVars, spawned, told>>
           /\ alive' \subseteq alive
  BY DEF WorkerStops, WorkerReturns, Stop, vars, loopVars, threadVars

-----------------------------------------------------------------------------
(* Type correctness *)

\* What run() does keeps the connection well typed.
LEMMA RunStepLinkType ==
    ASSUME TypeInv, RunStep
    PROVE  LinkTypeOK' /\ Identities'
<1>1. LinkTypeOK /\ Identities /\ link \in {"down", "up", "eof"} /\ 0 \in Nat /\ 1 \in Nat
  BY DEF TypeInv, TypeOK, LinkTypeOK
<1>2. CASE OpenLink \/ CloseLink \/ UNCHANGED <<linkVars, srvVars>>
  BY <1>1, <1>2, LinkType
<1>3. CASE Takes
  <2>1. Taken(1)
    BY <1>1, <1>3, TakenFacts DEF Takes
  <2> QED
    BY <1>1, <1>3, <2>1, ClientType DEF Takes
<1>4. CASE Sends
  <2>1. Taken(0)
    BY <1>1, <1>4, TakenFacts DEF Sends
  <2>2. /\ FrameAt \in ComponentFrames
        /\ FrameAt.command = "REGISTER" => FrameAt.arg \in ComponentIds \cup {NoId}
    BY FrameAtType DEF TypeInv
  <2>3. link' \in {"down", "up", "eof"} /\ sent' = Append(sent, FrameAt) /\ UNCHANGED srvVars
    BY <1>1, <1>4 DEF Sends
  <2> QED
    BY <1>1, <2>1, <2>2, <2>3, ClientType
<1> QED
  BY <1>2, <1>3, <1>4, RunStepEffect

\* What run() does keeps TypeInv.
LEMMA RunStepType ==
    ASSUME TypeInv, RunStep
    PROVE  TypeInv'
<1>1. LinkTypeOK' /\ Identities'
  BY RunStepLinkType
<1>2. TypeOK
  BY DEF TypeInv
<1>3. inbox # <<>> => Head(inbox) \in ServerFrames
  BY TailFacts DEF TypeInv, TypeOK, LinkTypeOK
<1>4. NoFrame \in ServerFrames
  BY FrameTypes DEF NoFrame, MessageTypes, Commands, Args
<1>5. /\ dials < MaxDials => dials + 1 \in 0 .. MaxDials
      /\ attempts + 1 \in Nat /\ spawned + 1 \in Nat /\ NextDelay(delay) \in Nat
  <2>1. dials \in 0 .. MaxDials /\ attempts \in Nat /\ delay \in Nat /\ spawned \in Nat
    BY <1>2 DEF TypeOK
  <2>2. MaxReconnectDelay \in Nat /\ MaxDials \in Nat
    BY CppAssumption
  <2>3. NextDelay(delay) \in Nat
    BY <2>1, <2>2 DEF NextDelay
  <2> QED
    BY <2>1, <2>2, <2>3
<1> SUFFICES TypeOK'
  BY <1>1 DEF TypeInv
<1>6. CASE Connect
  BY <1>1, <1>2, <1>5, <1>6 DEF Connect, threadVars, TypeOK, Sending
<1>7. CASE Reconnecting
  BY <1>1, <1>2, <1>5, <1>7 DEF Reconnecting, Return, loopVars, threadVars, TypeOK
<1>8. CASE WakeUp
  BY <1>1, <1>2, <1>5, <1>8 DEF WakeUp, loopVars, threadVars, TypeOK
<1>9. CASE Killed
  BY <1>1, <1>2, <1>9 DEF Killed, loopVars, TypeOK
<1>10. CASE RegisterThrows \/ RegisterThrowsOther \/ RegistrationFailed \/ ConfigureThrowsOther
  BY <1>1, <1>2, <1>10 DEF RegisterThrows, RegisterThrowsOther, RegistrationFailed,
     ConfigureThrowsOther, Throw, ThrowOther, Return, loopVars, runVars, threadVars, TypeOK
<1>11. CASE LoopHead \/ ReadFails \/ JoinReplaced \/ Join \/ Destroyed
  BY <1>1, <1>2, <1>11 DEF LoopHead, ReadFails, JoinReplaced, Join, Destroyed, loopVars,
     runVars, threadVars, TypeOK, Sending
<1>12. CASE GracefulShutdown
  <2>1. spawned # 0 => spawned > 0
    BY <1>2 DEF TypeOK
  <2> QED
    BY <1>1, <1>2, <1>12, <2>1 DEF GracefulShutdown, loopVars, runVars, threadVars, TypeOK,
       Sending
<1>13. CASE Spawn
  <2>1. /\ spawned + 1 \in 1 .. spawned + 1
        /\ 1 .. spawned \subseteq 1 .. spawned + 1
        /\ spawned # 0 => spawned \in 1 .. spawned + 1
    BY <1>2 DEF TypeOK
  <2>2. spawned' = spawned + 1 /\ alive' \subseteq 1 .. spawned + 1 /\ told' \subseteq 1 .. spawned + 1
    BY <1>2, <1>13, <2>1 DEF Spawn, TypeOK
  <2>3. /\ pc' \in {"message_loop", "join_replaced"}
        /\ UNCHANGED <<cur, loopVars, runVars>>
    BY <1>13 DEF Spawn
  <2> QED
    BY <1>1, <1>2, <1>5, <2>2, <2>3 DEF loopVars, runVars, TypeOK
<1>14. CASE SendRegister \/ SendReply \/ Announce
  BY <1>1, <1>2, <1>4, <1>14 DEF SendRegister, SendReply, Reply, Announce,
     SendStateUpdate, Write, loopVars, runVars, threadVars, TypeOK, Sending,
     ComponentStates
<1>15. CASE Registered
  BY <1>1, <1>2, <1>15 DEF Registered, runVars, threadVars, TypeOK, ComponentStates
<1>16. CASE ReadMessage
  <2>1. /\ pc' \in {"pong", "ack_configure", "failed", "ack_shutdown", "message_loop"}
        /\ cur' \in ServerFrames
    BY <1>2, <1>3, <1>16 DEF ReadMessage, HandlePing, HandleConfigure, HandleShutdown,
       HandleError, HandleIgnored, TypeOK
  <2> QED
    BY <1>1, <1>2, <1>16, <2>1 DEF ReadMessage, runVars, threadVars, TypeOK, Sending
<1>17. CASE Leave
  BY <1>1, <1>2, <1>17 DEF Leave, Return, threadVars, TypeOK, ComponentStates
<1>18. CASE Destroy
  BY <1>1, <1>2, <1>18 DEF Destroy, runVars, TypeOK
<1> QED
  BY <1>1, <1>6, <1>7, <1>8, <1>9, <1>10, <1>11, <1>12, <1>13, <1>14, <1>15, <1>16, <1>17,
     <1>18 DEF RunStep

\* TypeInv is inductive.
LEMMA TypeInvariance == Spec => []TypeInv
<1>1. Init => TypeInv
  <2> SUFFICES ASSUME Init
               PROVE  TypeInv
    OBVIOUS
  <2>1. LinkTypeOK /\ DOMAIN inbox = {} /\ DOMAIN sent = {}
    BY EmptyFacts DEF Init, LinkInit, LinkTypeOK
  <2>2. cur \in ServerFrames
    BY FrameTypes DEF Init, NoFrame, MessageTypes, Commands, Args
  <2>3. dials \in 0 .. MaxDials /\ delay \in Nat
    BY CppAssumption DEF Init
  <2> QED
    BY <2>1, <2>2, <2>3 DEF Init, TypeInv, TypeOK, Identities, ComponentStates
<1>2. TypeInv /\ [Next]_vars => TypeInv'
  <2> SUFFICES ASSUME TypeInv, [Next]_vars
               PROVE  TypeInv'
    OBVIOUS
  <2>1. CASE RunStep
    BY <2>1, RunStepType
  <2>2. CASE WorkerStops \/ WorkerReturns \/ Stop \/ UNCHANGED vars
    <3>1. /\ UNCHANGED <<linkVars, srvVars, pc, cur, state_, runVars, spawned, told>>
          /\ alive' \subseteq alive
      BY <2>2, OthersEffect
    <3>2. running_' \in BOOLEAN
      BY <2>2 DEF WorkerStops, WorkerReturns, Stop, vars, loopVars, TypeInv, TypeOK
    <3>3. LinkTypeOK' /\ Identities'
      BY <3>1, LinkType DEF TypeInv, TypeOK
    <3> QED
      BY <3>1, <3>2, <3>3 DEF runVars, TypeInv, TypeOK
  <2>3. CASE ServerStep
    <3>1. LinkTypeOK' /\ Identities'
      BY <2>3, ServerType DEF ServerStep, TypeInv, TypeOK
    <3> QED
      BY <2>3, <3>1 DEF ServerStep, loopVars, runVars, threadVars, TypeInv, TypeOK
  <2> QED
    BY <2>1, <2>2, <2>3 DEF Next
<1> QED
  BY <1>1, <1>2, PTL DEF Spec

\* Every variable of the C++ component keeps its type, in every instance.
THEOREM TypeCorrect == Spec => []TypeOK
<1>1. TypeInv => TypeOK
  BY DEF TypeInv
<1> QED
  BY <1>1, TypeInvariance, PTL

-----------------------------------------------------------------------------
(* Replies *)

\* Where run() answers the request that it read last.
Replying == {"pong", "ack_configure", "ack_shutdown"}

\* The command of that request.
Wanted(at) ==
    IF at = "pong" THEN "PING"
    ELSE IF at = "ack_configure" THEN "CONFIGURE"
    ELSE "SHUTDOWN"

\* The envelope being handled is a request in hand, of the command that its handler is
\* for.
Handling ==
    pc \in Replying => InHand(cur.id) /\ asked[cur.id] = Wanted(pc)

ReplyInv == QueueInv /\ Handling

\* message_loop() comes to a reply only with the request that it just read.
LEMMA Dispatch ==
    ASSUME RunStep, pc' \in Replying
    PROVE  /\ Takes
           /\ cur' = Head(inbox)
           /\ Head(inbox).command = Wanted(pc')
<1>1. CASE Connect \/ Reconnecting \/ WakeUp \/ Killed
  BY <1>1 DEF Connect, Reconnecting, WakeUp, Killed, Return, Replying
<1>2. CASE RegisterThrows \/ RegisterThrowsOther \/ RegistrationFailed \/ ConfigureThrowsOther
  BY <1>2 DEF RegisterThrows, RegisterThrowsOther, RegistrationFailed,
     ConfigureThrowsOther, Throw, ThrowOther, Return, Replying
<1>3. CASE LoopHead \/ ReadFails \/ Spawn \/ JoinReplaced \/ GracefulShutdown \/ Join
             \/ Destroy \/ Destroyed
  BY <1>3 DEF LoopHead, ReadFails, Spawn, JoinReplaced, GracefulShutdown, Join, Destroy,
     Destroyed, Replying
<1>4. CASE SendRegister \/ SendReply \/ Announce \/ Leave
  BY <1>4 DEF SendRegister, SendReply, Reply, Announce, SendStateUpdate, Leave, Return,
     Write, Replying
<1>5. CASE Registered
  BY <1>5 DEF Registered, Replying
<1>6. CASE ReadMessage
  BY <1>6 DEF ReadMessage, Takes, HandlePing, HandleConfigure, HandleShutdown,
     HandleError, HandleIgnored, Replying, Wanted
<1> QED
  BY <1>1, <1>2, <1>3, <1>4, <1>5, <1>6 DEF RunStep

\* What run() does keeps ReplyInv.
LEMMA RunStepReplies ==
    ASSUME TypeInv, ReplyInv, RunStep
    PROVE  ReplyInv'
<1>1. LinkTypeOK /\ QueueInv /\ 0 \in Nat /\ 1 \in Nat \ {0} /\ 1 \in Nat
  BY DEF TypeInv, TypeOK, ReplyInv
<1>2. QueueInv'
  <2>1. CASE OpenLink \/ CloseLink \/ UNCHANGED <<linkVars, srvVars>>
    BY <1>1, <2>1, LinkQueue
  <2>2. CASE Takes
    <3>1. Taken(1) /\ UNCHANGED <<sent, asked>>
      BY <1>1, <2>2, TakenFacts DEF Takes, srvVars
    <3> QED
      BY <1>1, <3>1, ClientQueue
  <2>3. CASE Sends
    <3>1. /\ FrameAt \in ComponentFrames
          /\ FrameAt.corr = IF pc \in Replying THEN cur.id ELSE 0
          /\ pc \in Replying => FrameAt.command = ReplyTo(Wanted(pc))
      BY <2>3, FrameAtType DEF TypeInv, Sends, Replying, Wanted, ReplyTo
    <3>2. MayAnswer(FrameAt)
      BY <3>1 DEF MayAnswer, ReplyInv, Handling
    <3>3. UNCHANGED asked /\ sent' = Append(sent, FrameAt) /\ Taken(0)
      BY <1>1, <2>3, TakenFacts DEF Sends, srvVars
    <3> QED
      BY <1>1, <3>1, <3>2, <3>3, ClientQueue
  <2> QED
    BY <2>1, <2>2, <2>3, RunStepEffect
<1>3. ASSUME pc' \in Replying
      PROVE  InHand(cur.id)' /\ asked'[cur'.id] = Wanted(pc')
  <2>1. Takes /\ cur' = Head(inbox) /\ Head(inbox).command = Wanted(pc')
    BY <1>3, Dispatch
  <2>2. PICK head : head = Head(inbox)
    OBVIOUS
  <2>3. /\ Taken(1) /\ UNCHANGED <<sent, asked>> /\ inbox # <<>>
        /\ head.command \in Requests
    BY <1>1, <2>1, <2>2, TakenFacts DEF Takes, srvVars, Wanted, Requests
  <2>4. InHand(head.id)' /\ asked[head.id] = head.command
    BY <1>1, <2>2, <2>3, HeadInHand
  <2> QED
    BY <2>1, <2>2, <2>3, <2>4 DEF InHand
<1> QED
  BY <1>2, <1>3 DEF ReplyInv, Handling

\* ReplyInv is inductive.
LEMMA ReplyInvariance == Spec => []ReplyInv
<1>1. Init => ReplyInv
  <2> SUFFICES ASSUME Init
               PROVE  ReplyInv
    OBVIOUS
  <2>1. DOMAIN inbox = {} /\ DOMAIN sent = {} /\ pc = "connect"
    BY EmptyFacts DEF Init, LinkInit
  <2> QED
    BY <2>1 DEF ReplyInv, QueueInv, RepliesMatch, Numbered, Ahead, Handling, Replying
<1>2. TypeInv /\ ReplyInv /\ [Next]_vars => ReplyInv'
  <2> SUFFICES ASSUME TypeInv, ReplyInv, [Next]_vars
               PROVE  ReplyInv'
    OBVIOUS
  <2>1. LinkTypeOK /\ QueueInv
    BY DEF TypeInv, TypeOK, ReplyInv
  <2>2. CASE RunStep
    BY <2>2, RunStepReplies
  <2>3. CASE WorkerStops \/ WorkerReturns \/ Stop \/ UNCHANGED vars
    <3>1. UNCHANGED <<linkVars, srvVars, pc, cur>>
      BY <2>3, OthersEffect
    <3>2. QueueInv'
      BY <2>1, <3>1, LinkQueue
    <3> QED
      BY <3>1, <3>2 DEF linkVars, srvVars, ReplyInv, Handling, InHand
  <2>4. CASE ServerStep
    <3>1. /\ QueueInv' /\ UNCHANGED <<pc, cur>>
          /\ \A r : InHand(r) => InHand(r)'
          /\ \A r \in DOMAIN asked : asked'[r] = asked[r]
      BY <2>1, <2>4, ServerQueue DEF ServerStep
    <3>2. CASE pc \in Replying
      <4>1. InHand(cur.id) /\ asked[cur.id] = Wanted(pc)
        BY <3>2 DEF ReplyInv, Handling
      <4>2. InHand(cur.id)'
        BY <3>1, <4>1 DEF InHand
      <4>3. asked'[cur.id] = Wanted(pc)
        BY <3>1, <4>1 DEF InHand
      <4> QED
        BY <3>1, <4>1, <4>2, <4>3 DEF ReplyInv, Handling
    <3>3. CASE pc \notin Replying
      BY <3>1, <3>3 DEF ReplyInv, Handling
    <3> QED
      BY <3>2, <3>3
  <2> QED
    BY <2>2, <2>3, <2>4 DEF Next
<1> QED
  BY <1>1, <1>2, TypeInvariance, PTL DEF Spec

-----------------------------------------------------------------------------
(* The state that is reported *)

\* Where run() is in do_register().
Registering == {"register", "await_registered"}

\* Where it is in message_loop() or a handler.
InLoop == {"message_loop", "read", "pong", "ack_configure", "announce_configured",
           "announce_running", "ack_shutdown", "spawn", "join_replaced",
           "graceful_shutdown", "join", "leave"}

\* state_ is what aegisd must take it for as soon as do_register() reset it, and aegisd
\* was told nothing before.
ReportInv ==
    /\ PongConsistent
    /\ pc \in Registering => Silent
    /\ pc \in InLoop => Reported(state_)

\* A step of run() that neither opens the connection nor sends.
LEMMA QuietStep ==
    ASSUME RunStep, ~Sends, ~(pc = "connect" /\ OpenLink)
    PROVE  /\ pc' \in Registering => pc \in Registering
           /\ pc' \in InLoop => \/ pc \in InLoop /\ UNCHANGED state_
                                \/ pc \in Registering /\ state_' = "REGISTERED"
<1>1. CASE Connect \/ Reconnecting \/ WakeUp \/ Killed
  BY <1>1 DEF Connect, Reconnecting, WakeUp, Killed, Return, Registering, InLoop
<1>2. CASE RegisterThrows \/ RegisterThrowsOther \/ RegistrationFailed \/ ConfigureThrowsOther
  BY <1>2 DEF RegisterThrows, RegisterThrowsOther, RegistrationFailed,
     ConfigureThrowsOther, Throw, ThrowOther, Return, Registering, InLoop
<1>3. CASE LoopHead \/ ReadFails \/ Spawn \/ JoinReplaced \/ GracefulShutdown \/ Join
             \/ Destroy \/ Destroyed
  BY <1>3 DEF LoopHead, ReadFails, Spawn, JoinReplaced, GracefulShutdown, Join, Destroy,
     Destroyed, Registering, InLoop, loopVars
<1>4. CASE SendRegister \/ SendReply \/ Announce \/ Leave
  <2>1. Sends
    BY <1>4 DEF SendRegister, SendReply, Reply, ReplyCorr, Announce, SendStateUpdate,
       Leave, Write, Sends, Sending, FrameAt, StateAt
  <2> QED
    BY <2>1
<1>5. CASE Registered
  BY <1>5 DEF Registered, Registering, InLoop
<1>6. CASE ReadMessage
  BY <1>6 DEF ReadMessage, HandlePing, HandleConfigure, HandleShutdown, HandleError,
     HandleIgnored, Registering, InLoop
<1> QED
  BY <1>1, <1>2, <1>3, <1>4, <1>5, <1>6 DEF RunStep

\* A step of run() that sends.
LEMMA SendingStep ==
    ASSUME RunStep, Sends
    PROVE  /\ pc' \in Registering => pc = "register"
           /\ pc' \in InLoop => pc \in InLoop
           /\ state_' = IF pc \in {"announce_configured", "announce_running"} THEN StateAt
                        ELSE IF pc = "leave" THEN "SHUTDOWN"
                        ELSE state_
           /\ pc' \in InLoop => pc # "leave"
<1>1. /\ pc \in Sending /\ link = "up" /\ sent' = Append(sent, FrameAt)
  BY DEF Sends
<1> QED
  BY <1>1 DEF RunStep, Connect, Reconnecting, WakeUp, Killed, RegisterThrows,
     RegisterThrowsOther, RegistrationFailed, ConfigureThrowsOther, LoopHead, ReadFails,
     Spawn, JoinReplaced, GracefulShutdown, Join, Destroy, Destroyed, Registered,
     ReadMessage, SendRegister, SendReply, Reply, Announce, SendStateUpdate, Leave,
     Return, Write, Sending, Registering, InLoop, StateAt, loopVars

\* What run() does keeps ReportInv.
LEMMA RunStepReports ==
    ASSUME TypeInv, ReportInv, RunStep
    PROVE  ReportInv'
<1>1. LinkTypeOK /\ PongConsistent
  BY DEF TypeInv, TypeOK, ReportInv
<1>2. CASE pc = "connect" /\ OpenLink
  <2>1. PongConsistent' /\ Silent'
    BY <1>1, <1>2, LinkReported
  <2>2. pc' \notin InLoop
    BY <1>2 DEF RunStep, Connect, Reconnecting, WakeUp, Killed, RegisterThrows,
       RegisterThrowsOther, RegistrationFailed, ConfigureThrowsOther, LoopHead, ReadFails,
       Spawn, JoinReplaced, GracefulShutdown, Join, Destroy, Destroyed, Registered,
       ReadMessage, SendRegister, SendReply, Reply, Announce, SendStateUpdate, Leave,
       Sending, InLoop
  <2> QED
    BY <2>1, <2>2 DEF ReportInv
<1>3. CASE Sends
  <2>1. /\ pc \in Sending
        /\ sent' = Append(sent, FrameAt)
        /\ FrameAt \in ComponentFrames
        /\ FrameAt.command = "PONG" => pc = "pong" /\ FrameAt.arg = state_
        /\ IsUpdate(FrameAt) <=> pc \in {"announce_configured", "announce_running"}
        /\ IsUpdate(FrameAt) => FrameAt.arg = StateAt
    BY <1>3, FrameAtType DEF TypeInv, Sends, Sending, IsUpdate
  <2>2. PICK frame \in ComponentFrames : frame = FrameAt
    BY <2>1
  <2>3. PongConsistent'
    <3>1. frame.command = "PONG" => Reported(frame.arg)
      BY <2>1, <2>2 DEF ReportInv, InLoop
    <3> QED
      BY <1>1, <2>1, <2>2, <3>1, SentConsistent
  <2>4. ASSUME pc' \in Registering
        PROVE  Silent'
    <3>1. pc = "register" /\ ~IsUpdate(frame)
      BY <1>3, <2>1, <2>2, <2>4, SendingStep
    <3> QED
      BY <1>1, <2>1, <2>2, <3>1, SentReported DEF ReportInv, Registering
  <2>5. ASSUME pc' \in InLoop
        PROVE  Reported(state_)'
    <3>1. pc \in InLoop /\ pc # "leave"
      BY <1>3, <2>5, SendingStep
    <3>2. PICK state : state = state_'
      OBVIOUS
    <3>3. Reported(state)'
      <4>1. CASE IsUpdate(frame)
        <5>1. state = frame.arg
          BY <1>3, <2>1, <2>2, <3>2, <4>1, SendingStep
        <5> QED
          BY <1>1, <2>1, <2>2, <4>1, <5>1, SentReported
      <4>2. CASE ~IsUpdate(frame)
        <5>1. state = state_
          BY <1>3, <2>1, <2>2, <3>1, <3>2, <4>2, SendingStep
        <5>2. Reported(state)
          BY <3>1, <5>1 DEF ReportInv
        <5> QED
          BY <1>1, <2>1, <2>2, <4>2, <5>2, SentReported
      <4> QED
        BY <4>1, <4>2
    <3> QED
      BY <3>2, <3>3 DEF Reported, LastTold, Silent
  <2> QED
    BY <2>3, <2>4, <2>5 DEF ReportInv
<1>4. CASE ~Sends /\ ~(pc = "connect" /\ OpenLink)
  <2>1. UNCHANGED sent
    BY <1>4, RunStepEffect DEF CloseLink, Takes, linkVars
  <2>2. /\ PongConsistent'
        /\ Silent => Silent'
        /\ \A state : Reported(state) => Reported(state)'
    BY <1>1, <2>1 DEF PongConsistent, IsUpdate, Silent, Reported, LastTold
  <2>3. pc' \in Registering => Silent'
    BY <1>4, <2>2, QuietStep DEF ReportInv
  <2>4. ASSUME pc' \in InLoop
        PROVE  Reported(state_)'
    <3>1. CASE pc \in InLoop /\ UNCHANGED state_
      BY <2>1, <3>1 DEF ReportInv, Reported, LastTold, Silent, IsUpdate
    <3>2. CASE pc \in Registering /\ state_' = "REGISTERED"
      BY <2>2, <3>2 DEF ReportInv, Reported
    <3> QED
      BY <1>4, <2>4, <3>1, <3>2, QuietStep
  <2> QED
    BY <2>2, <2>3, <2>4 DEF ReportInv
<1> QED
  BY <1>2, <1>3, <1>4

\* ReportInv is inductive.
LEMMA ReportInvariance == Spec => []ReportInv
<1>1. Init => ReportInv
  <2> SUFFICES ASSUME Init
               PROVE  ReportInv
    OBVIOUS
  <2>1. DOMAIN sent = {} /\ pc = "connect"
    BY EmptyFacts DEF Init, LinkInit
  <2> QED
    BY <2>1 DEF ReportInv, PongConsistent, Registering, InLoop
<1>2. TypeInv /\ ReportInv /\ [Next]_vars => ReportInv'
  <2> SUFFICES ASSUME TypeInv, ReportInv, [Next]_vars
               PROVE  ReportInv'
    OBVIOUS
  <2>1. CASE RunStep
    BY <2>1, RunStepReports
  <2>2. CASE WorkerStops \/ WorkerReturns \/ Stop \/ UNCHANGED vars \/ ServerStep
    <3>1. UNCHANGED <<sent, pc, state_>>
      <4>1. CASE ServerStep
        BY <4>1, ServerEffect DEF ServerStep, loopVars, TypeInv, TypeOK
      <4>2. CASE WorkerStops \/ WorkerReturns \/ Stop \/ UNCHANGED vars
        BY <4>2, OthersEffect DEF linkVars
      <4> QED
        BY <2>2, <4>1, <4>2
    <3> QED
      BY <3>1 DEF ReportInv, PongConsistent, IsUpdate, Silent, Reported, LastTold
  <2> QED
    BY <2>1, <2>2 DEF Next
<1> QED
  BY <1>1, <1>2, TypeInvariance, PTL DEF Spec

\* On every connection aegisd sees replies that match its requests, and PONGs that
\* report the state of that connection, in every instance.
THEOREM ConversationHolds == Spec => []Conversation
<1>1. TypeInv /\ ReplyInv /\ ReportInv => Conversation
  BY DEF TypeInv, ReplyInv, QueueInv, ReportInv, Conversation
<1> QED
  BY <1>1, TypeInvariance, ReplyInvariance, ReportInvariance, PTL

-----------------------------------------------------------------------------
(* The threads, and how run() ends *)

\* Only the last jthread, and the one that it replaces while that is joined, can be in
\* on_running.
WorkerInv ==
    alive \subseteq IF pc = "join_replaced" THEN {spawned - 1, spawned} ELSE {spawned}

\* on_running has returned when graceful_shutdown() sends SHUTDOWN, and run() returns
\* then; nothing is spawned and nothing sent afterwards.
ExitInv ==
    /\ pc = "leave" => alive = {}
    /\ result = "ok" =>
          /\ pc \in {"returned", "destroying", "gone"}
          /\ alive = {}
          /\ sent # <<>>
          /\ sent[Len(sent)].command = "SHUTDOWN"

\* A step of run() but Spawn, JoinReplaced and the end of the process leaves the threads
\* alone, and run() outside the join of a replaced one.
LEMMA ThreadsIdle ==
    ASSUME RunStep, ~Spawn, ~JoinReplaced, ~Killed
    PROVE  UNCHANGED <<spawned, alive>> /\ pc # "join_replaced" /\ pc' # "join_replaced"
  BY DEF RunStep, Connect, Reconnecting, WakeUp, RegisterThrows, Throw, ThrowOther,
     RegisterThrowsOther, RegistrationFailed, ConfigureThrowsOther, LoopHead, ReadFails,
     GracefulShutdown, Join, Destroy, Destroyed, Registered, ReadMessage, HandlePing,
     HandleConfigure, HandleShutdown, HandleError, HandleIgnored, SendRegister, SendReply,
     Reply, Announce, SendStateUpdate, Leave, Return, Write, threadVars

\* WorkerInv is inductive.
LEMMA WorkerInvariance == Spec => []WorkerInv
<1>1. Init => WorkerInv
  BY DEF Init, WorkerInv
<1>2. TypeInv /\ WorkerInv /\ [Next]_vars => WorkerInv'
  <2> SUFFICES ASSUME TypeInv, WorkerInv, [Next]_vars
               PROVE  WorkerInv'
    OBVIOUS
  <2>1. spawned \in Nat /\ alive \subseteq 1 .. spawned
    BY DEF TypeInv, TypeOK
  <2>2. CASE Spawn
    <3>1. alive \subseteq {spawned} /\ alive' = alive \cup {spawned + 1}
          /\ spawned' = spawned + 1
      BY <2>2 DEF Spawn, WorkerInv
    <3>2. CASE spawned = 0
      <4>1. alive = {} /\ pc' = "message_loop"
        BY <2>1, <2>2, <3>2 DEF Spawn
      <4> QED
        BY <3>1, <4>1 DEF WorkerInv
    <3>3. CASE spawned # 0
      <4>1. pc' = "join_replaced" /\ spawned = spawned' - 1
        BY <2>1, <2>2, <3>1, <3>3 DEF Spawn
      <4> QED
        BY <3>1, <4>1 DEF WorkerInv
    <3> QED
      BY <3>2, <3>3
  <2>3. CASE JoinReplaced
    BY <2>3 DEF JoinReplaced, threadVars, WorkerInv
  <2>4. CASE Killed
    BY <2>4 DEF Killed, WorkerInv
  <2>5. CASE RunStep /\ ~Spawn /\ ~JoinReplaced /\ ~Killed
    BY <2>5, ThreadsIdle DEF WorkerInv
  <2>6. CASE WorkerStops \/ WorkerReturns \/ Stop \/ UNCHANGED vars
    BY <2>6, OthersEffect DEF WorkerInv
  <2>7. CASE ServerStep
    BY <2>7 DEF ServerStep, threadVars, WorkerInv
  <2> QED
    BY <2>2, <2>3, <2>4, <2>5, <2>6, <2>7 DEF Next
<1> QED
  BY <1>1, <1>2, TypeInvariance, PTL DEF Spec

\* However often aegisd configures the component, and over all reconnects, at most one
\* thread is in on_running but for the one that is being replaced, in every instance.
THEOREM OneWorkerHolds == Spec => []OneWorker
<1>1. WorkerInv => OneWorker
  BY DEF WorkerInv, OneWorker
<1> QED
  BY <1>1, WorkerInvariance, PTL

\* What run() does keeps ExitInv.
LEMMA RunStepExit ==
    ASSUME TypeInv, WorkerInv, ExitInv, RunStep
    PROVE  ExitInv'
<1>1. CASE Leave
  <2>1. /\ sent' = Append(sent, FrameAt) /\ FrameAt.command = "SHUTDOWN"
        /\ FrameAt \in ComponentFrames
        /\ pc = "leave" /\ pc' = "returned" /\ UNCHANGED alive
    BY <1>1, FrameAtType DEF Leave, Return, threadVars, FrameAt, Envelope, TypeInv, Sending
  <2>2. /\ Len(sent') = Len(sent) + 1 /\ sent'[Len(sent) + 1] = FrameAt
        /\ DOMAIN sent' # {}
    BY <2>1, SentFacts DEF TypeInv, TypeOK
  <2>3. sent' # <<>>
    BY <2>2, EmptyFacts
  <2> QED
    BY <2>1, <2>2, <2>3 DEF ExitInv
<1>2. CASE GracefulShutdown
  <2>1. spawned = 0 => alive = {}
    BY DEF TypeInv, TypeOK
  <2> QED
    BY <1>2, <2>1 DEF GracefulShutdown, threadVars, runVars, ExitInv
<1>3. CASE Join
  BY <1>3 DEF Join, threadVars, runVars, WorkerInv, ExitInv
<1>4. CASE Destroy \/ Destroyed
  BY <1>4 DEF Destroy, Destroyed, CloseLink, threadVars, runVars, linkVars, ExitInv
<1>5. CASE RunStep /\ ~(Leave \/ GracefulShutdown \/ Join \/ Destroy \/ Destroyed)
  <2>1. pc' # "leave" /\ result' # "ok"
    BY <1>5 DEF RunStep, Connect, Reconnecting, WakeUp, Killed, RegisterThrows, Throw,
       ThrowOther, RegisterThrowsOther, RegistrationFailed, ConfigureThrowsOther, LoopHead,
       ReadFails, Spawn, JoinReplaced, Registered, ReadMessage, HandlePing,
       HandleConfigure, HandleShutdown, HandleError, HandleIgnored, SendRegister,
       SendReply, Reply, Announce, SendStateUpdate, Return, Write, Sending, runVars,
       ExitInv
  <2> QED
    BY <2>1 DEF ExitInv
<1> QED
  BY <1>1, <1>2, <1>3, <1>4, <1>5

\* ExitInv is inductive.
LEMMA ExitInvariance == Spec => []ExitInv
<1>1. Init => ExitInv
  BY DEF Init, ExitInv
<1>2. TypeInv /\ WorkerInv /\ ExitInv /\ [Next]_vars => ExitInv'
  <2> SUFFICES ASSUME TypeInv, WorkerInv, ExitInv, [Next]_vars
               PROVE  ExitInv'
    OBVIOUS
  <2>1. CASE RunStep
    BY <2>1, RunStepExit
  <2>2. CASE WorkerStops \/ WorkerReturns \/ Stop \/ UNCHANGED vars
    BY <2>2, OthersEffect DEF linkVars, runVars, ExitInv
  <2>3. CASE ServerStep
    <3>1. UNCHANGED <<sent, pc, alive, result>>
      BY <2>3, ServerEffect DEF ServerStep, threadVars, runVars, TypeInv, TypeOK
    <3> QED
      BY <3>1 DEF ExitInv
  <2> QED
    BY <2>1, <2>2, <2>3 DEF Next
<1> QED
  BY <1>1, <1>2, TypeInvariance, WorkerInvariance, PTL DEF Spec

\* run() returns without an exception only when no thread is in on_running any more and
\* SHUTDOWN was the last frame, in every instance.
THEOREM CleanExitHolds == Spec => []CleanExit
<1>1. ExitInv => CleanExit
  BY DEF ExitInv, CleanExit
<1> QED
  BY <1>1, ExitInvariance, PTL
-----------------------------------------------------------------------------
(* Places *)

Offline == {"connect", "failed", "sleep"}
Ended == {"returned", "destroying", "gone"}

\* Where the client waits for requests, answers them, or leaves.
Serving == InLoop \ {"announce_configured", "announce_running", "spawn", "join_replaced"}

\* Every place is one of these.
LEMMA Places ==
    ASSUME TypeOK
    PROVE  pc \in Offline \cup Ended \cup Registering \cup InLoop
  BY DEF TypeOK, Sending, Offline, Ended, Registering, InLoop

\* Where a step of run() and of its caller leads.
LEMMA RunStepPlace ==
    ASSUME RunStep
    PROVE  \/ pc' \in Ended
           \/ pc' \in Offline /\ pc \notin Ended
           \/ pc = "connect" /\ pc' = "register"
           \/ pc = "register" /\ pc' = "await_registered"
           \/ pc = "await_registered" /\ pc' = "message_loop" /\ state_' = "REGISTERED"
           \/ pc = "announce_configured" /\ pc' = "announce_running"
                 /\ state_' = "CONFIGURED"
           \/ pc = "announce_running" /\ pc' = "spawn" /\ state_' = "RUNNING"
           \/ pc \in {"spawn", "join_replaced"} /\ pc' \in {"join_replaced", "message_loop"}
                 /\ UNCHANGED state_
           \/ pc \in Serving /\ pc' \in Serving \cup {"announce_configured"}
                 /\ UNCHANGED state_
<1> USE DEF Offline, Ended, Serving, InLoop
<1>1. CASE Connect \/ Reconnecting \/ WakeUp \/ Killed
  BY <1>1 DEF Connect, Reconnecting, WakeUp, Killed, Return
<1>2. CASE RegisterThrows \/ RegisterThrowsOther \/ RegistrationFailed \/ ConfigureThrowsOther
  BY <1>2 DEF RegisterThrows, RegisterThrowsOther, RegistrationFailed,
     ConfigureThrowsOther, Throw, ThrowOther, Return
<1>3. CASE LoopHead \/ ReadFails \/ Spawn \/ JoinReplaced \/ GracefulShutdown \/ Join
             \/ Destroy \/ Destroyed
  BY <1>3 DEF LoopHead, ReadFails, Spawn, JoinReplaced, GracefulShutdown, Join, Destroy,
     Destroyed, loopVars
<1>4. CASE SendRegister \/ SendReply \/ Announce \/ Leave \/ Registered
  BY <1>4 DEF SendRegister, SendReply, Reply, Announce, SendStateUpdate, Leave, Return,
     Registered, Write, loopVars
<1>5. CASE ReadMessage
  BY <1>5 DEF ReadMessage, HandlePing, HandleConfigure, HandleShutdown, HandleError,
     HandleIgnored
<1> QED
  BY <1>1, <1>2, <1>3, <1>4, <1>5 DEF RunStep

-----------------------------------------------------------------------------
(* The reconnection budget *)

\* How often run() slept: it does between two calls of run_once().
Sleeps == IF pc = "connect" THEN dials ELSE dials - 1

\* While run() runs, `attempts' counts the calls of run_once() that failed, the budget is
\* not used up, and `delay' is the one for that many sleeps.
BudgetInv ==
    /\ ReconnectBudget
    /\ pc \notin Ended =>
          /\ delay = DelayAfter(Sleeps, ReconnectDelay, MaxReconnectDelay)
          /\ dials = IF pc \in {"connect", "sleep"} THEN attempts ELSE attempts + 1
          /\ result = "none"
          /\ MaxReconnectAttempts > 0 => attempts < MaxReconnectAttempts
          /\ ~Reconnect => attempts = 0
    /\ pc = "sleep" => dials # 0

\* Between the dial and the end of run_once() nothing changes the budget.
LEMMA BudgetQuiet ==
    ASSUME RunStep, ~Connect, ~Reconnecting, ~WakeUp
    PROVE  /\ pc \notin {"connect", "sleep"} /\ pc' \notin {"connect", "sleep"}
           /\ UNCHANGED <<attempts, delay, dials>>
           /\ \/ pc \notin Ended /\ pc' \notin Ended /\ UNCHANGED result
              \/ pc' \in Ended
                    /\ result' \in {result, "ok", "registration", "exception", "killed"}
<1> USE DEF Ended
<1>1. CASE Killed \/ RegisterThrows \/ RegisterThrowsOther \/ RegistrationFailed
           \/ ConfigureThrowsOther
  BY <1>1 DEF Killed, RegisterThrows, RegisterThrowsOther, RegistrationFailed,
     ConfigureThrowsOther, Throw, ThrowOther, Return, runVars, Sending
<1>2. CASE LoopHead \/ ReadFails \/ Spawn \/ JoinReplaced \/ GracefulShutdown \/ Join
             \/ Destroy \/ Destroyed
  BY <1>2 DEF LoopHead, ReadFails, Spawn, JoinReplaced, GracefulShutdown, Join, Destroy,
     Destroyed, runVars
<1>3. CASE SendRegister \/ SendReply \/ Announce \/ Leave \/ Registered
  BY <1>3 DEF SendRegister, SendReply, Reply, Announce, SendStateUpdate, Leave, Return,
     Registered, Write, runVars
<1>4. CASE ReadMessage
  BY <1>4 DEF ReadMessage, HandlePing, HandleConfigure, HandleShutdown, HandleError,
     HandleIgnored, runVars
<1> QED
  BY <1>1, <1>2, <1>3, <1>4 DEF RunStep

\* What run() does keeps the budget.
LEMMA BudgetStep ==
    ASSUME TypeInv, BudgetInv, RunStep
    PROVE  BudgetInv'
<1>1. attempts \in Nat /\ MaxReconnectAttempts \in Nat
  BY CppAssumption DEF TypeInv, TypeOK
<1>2. CASE Connect
  <2>1. /\ pc = "connect" /\ pc' \in {"register", "failed"}
        /\ dials' = dials + 1 /\ UNCHANGED <<attempts, delay, result>>
    BY <1>2 DEF Connect
  <2>2. /\ dials = attempts /\ result = "none"
        /\ delay = DelayAfter(Sleeps, ReconnectDelay, MaxReconnectDelay)
        /\ MaxReconnectAttempts > 0 => attempts < MaxReconnectAttempts
        /\ ~Reconnect => attempts = 0
    BY <2>1 DEF BudgetInv, Ended
  <2>3. ReconnectBudget'
    BY <1>1, <2>1, <2>2 DEF ReconnectBudget
  <2>4. Sleeps' = Sleeps
    BY <1>1, <2>1, <2>2 DEF Sleeps
  <2> QED
    BY <2>1, <2>2, <2>3, <2>4 DEF BudgetInv
<1>3. CASE Reconnecting
  <2>1. pc = "failed" /\ UNCHANGED <<dials, delay>>
    BY <1>3 DEF Reconnecting
  <2>2. /\ dials = attempts + 1 /\ result = "none" /\ ReconnectBudget
        /\ delay = DelayAfter(dials - 1, ReconnectDelay, MaxReconnectDelay)
        /\ MaxReconnectAttempts > 0 => attempts < MaxReconnectAttempts
        /\ ~Reconnect => attempts = 0
    BY <2>1 DEF BudgetInv, Sleeps, Ended
  <2>3. CASE ~Reconnect /\ Return("reconnect_disabled")
    BY <2>1, <2>2, <2>3 DEF Return, BudgetInv, ReconnectBudget, Ended
  <2>4. CASE /\ Reconnect /\ AttemptsExhausted(attempts + 1)
             /\ Return("max_reconnect_attempts")
    <3>1. dials = MaxReconnectAttempts
      BY <1>1, <2>2, <2>4 DEF AttemptsExhausted
    <3> QED
      BY <2>1, <2>2, <2>4, <3>1 DEF Return, BudgetInv, ReconnectBudget, Ended
  <2>5. CASE /\ Reconnect /\ ~AttemptsExhausted(attempts + 1)
             /\ attempts' = attempts + 1
             /\ pc' = "sleep" /\ UNCHANGED result
    <3>1. /\ dials' = attempts' /\ dials' # 0
          /\ MaxReconnectAttempts > 0 => attempts' < MaxReconnectAttempts
      BY <1>1, <2>1, <2>2, <2>5 DEF AttemptsExhausted
    <3> QED
      BY <2>1, <2>2, <2>5, <3>1 DEF BudgetInv, ReconnectBudget, Sleeps
  <2> QED
    BY <1>3, <2>3, <2>4, <2>5 DEF Reconnecting
<1>4. CASE WakeUp
  <2>1. /\ pc = "sleep" /\ pc' = "connect" /\ delay' = NextDelay(delay)
        /\ UNCHANGED <<attempts, dials, result>>
    BY <1>4 DEF WakeUp
  <2>2. /\ dials = attempts /\ dials # 0
        /\ delay = DelayAfter(dials - 1, ReconnectDelay, MaxReconnectDelay)
    BY <2>1 DEF BudgetInv, Sleeps, Ended
  <2>3. dials - 1 \in Nat /\ (dials - 1) + 1 = dials
    BY <1>1, <2>2
  <2>4. \A n \in Nat : DelayAfter(n + 1, ReconnectDelay, MaxReconnectDelay) =
          NextDelay(DelayAfter(n, ReconnectDelay, MaxReconnectDelay))
    BY NextDelayAfter, CppAssumption DEF NextDelay
  <2>5. delay' = DelayAfter(dials, ReconnectDelay, MaxReconnectDelay)
    BY <2>1, <2>2, <2>3, <2>4
  <2> QED
    BY <2>1, <2>2, <2>5 DEF BudgetInv, ReconnectBudget, Sleeps, Ended
<1>5. CASE ~Connect /\ ~Reconnecting /\ ~WakeUp
  <2>1. /\ pc \notin {"connect", "sleep"} /\ pc' \notin {"connect", "sleep"}
        /\ UNCHANGED <<attempts, delay, dials>>
        /\ \/ pc \notin Ended /\ pc' \notin Ended /\ UNCHANGED result
           \/ pc' \in Ended
                 /\ result' \in {result, "ok", "registration", "exception", "killed"}
    BY <1>5, BudgetQuiet
  <2>2. ReconnectBudget' /\ Sleeps' = Sleeps
    BY <2>1 DEF BudgetInv, ReconnectBudget, Sleeps
  <2> QED
    BY <2>1, <2>2 DEF BudgetInv
<1> QED
  BY <1>2, <1>3, <1>4, <1>5

\* run() connects as often as the configuration allows, gives up for lack of attempts only
\* after it used all of them, and its n-th sleep lasts reconnect_delay_s * 2^(n-1), capped
\* from the second one on.
THEOREM ReconnectBudgetHolds == Spec => []ReconnectBudget
<1>1. Init => BudgetInv
  BY NextDelayAfter, CppAssumption DEF Init, BudgetInv, ReconnectBudget, Sleeps, Ended
<1>2. TypeInv /\ BudgetInv /\ [Next]_vars => BudgetInv'
  <2> SUFFICES ASSUME TypeInv, BudgetInv, [Next]_vars
               PROVE  BudgetInv'
    OBVIOUS
  <2>1. CASE RunStep
    BY <2>1, BudgetStep
  <2>2. CASE WorkerStops \/ WorkerReturns \/ Stop \/ ServerStep \/ UNCHANGED vars
    <3>1. UNCHANGED <<pc, attempts, delay, dials, result>>
      BY <2>2, OthersEffect DEF ServerStep, runVars
    <3> QED
      BY <3>1 DEF BudgetInv, ReconnectBudget, Sleeps
  <2> QED
    BY <2>1, <2>2 DEF Next
<1>3. BudgetInv => ReconnectBudget
  BY DEF BudgetInv
<1> QED
  BY <1>1, <1>2, <1>3, TypeInvariance, PTL DEF Spec

-----------------------------------------------------------------------------
(* The lifecycle contract *)

\* The states in which the client can be at each place of the message loop.
StatesAt(at) ==
    IF at = "announce_running" THEN {"CONFIGURED"}
    ELSE IF at \in {"spawn", "join_replaced"} THEN {"RUNNING"}
    ELSE {"REGISTERED", "RUNNING"}

LifecycleInv == pc \in InLoop => state_ \in StatesAt(pc)

\* A step of run() keeps LifecycleInv and is a step of the contract, or none.
LEMMA LifecycleStep ==
    ASSUME TypeOK, LifecycleInv, RunStep
    PROVE  LifecycleInv' /\ [Contract!ShortNext]_Phase
<1>1. /\ pc \in Ended => Phase = "stopped"
      /\ pc \in Offline => Phase = "offline"
      /\ pc \in Registering => Phase = "registering"
      /\ pc \in InLoop => Phase = state_
  BY DEF Phase, Ended, Offline, Registering, InLoop
<1>2. /\ pc' \in Ended => Phase' = "stopped"
      /\ pc' \in Offline => Phase' = "offline"
      /\ pc' \in Registering => Phase' = "registering"
      /\ pc' \in InLoop => Phase' = state_'
  BY DEF Phase, Ended, Offline, Registering, InLoop
<1>3. pc \notin Ended => Phase # "stopped"
  BY <1>1, Places DEF LifecycleInv, StatesAt
<1> USE DEF Contract!ShortNext, Contract!ShortAdvance, Contract!ShortAdvances
<1>4. CASE pc' \in Ended
  <2>1. LifecycleInv'
    BY <1>4 DEF LifecycleInv, Ended, InLoop
  <2> QED
    BY <1>1, <1>2, <1>3, <1>4, <2>1 DEF Contract!Stop
<1>5. CASE pc' \in Offline /\ pc \notin Ended
  <2>1. LifecycleInv'
    BY <1>5 DEF LifecycleInv, Offline, InLoop
  <2> QED
    BY <1>2, <1>3, <1>5, <2>1 DEF Contract!Drop
<1>6. CASE \/ pc = "connect" /\ pc' = "register"
           \/ pc = "register" /\ pc' = "await_registered"
  BY <1>1, <1>2, <1>6 DEF LifecycleInv, Offline, Registering, InLoop
<1>7. CASE pc = "await_registered" /\ pc' = "message_loop" /\ state_' = "REGISTERED"
  BY <1>1, <1>2, <1>7 DEF LifecycleInv, StatesAt, Registering, InLoop
<1>8. CASE \/ pc = "announce_configured" /\ pc' = "announce_running"
                 /\ state_' = "CONFIGURED"
           \/ pc = "announce_running" /\ pc' = "spawn" /\ state_' = "RUNNING"
  BY <1>1, <1>2, <1>8 DEF LifecycleInv, StatesAt, InLoop
<1>9. CASE \/ pc \in {"spawn", "join_replaced"} /\ pc' \in {"join_replaced", "message_loop"}
                 /\ UNCHANGED state_
           \/ pc \in Serving /\ pc' \in Serving \cup {"announce_configured"}
                 /\ UNCHANGED state_
  <2>1. pc \in InLoop /\ pc' \in InLoop /\ LifecycleInv'
    BY <1>9 DEF LifecycleInv, StatesAt, Serving, InLoop
  <2> QED
    BY <1>1, <1>2, <1>9, <2>1
<1> QED
  BY <1>4, <1>5, <1>6, <1>7, <1>8, <1>9, RunStepPlace

\* The C++ client implements the short lifecycle contract: on every connection it goes
\* through its states in their order, and ends for good.
THEOREM ImplementsContract == Spec => ContractSpec
<1>1. Init => LifecycleInv /\ Contract!Init
  BY DEF Init, LifecycleInv, InLoop, Phase, Contract!Init
<1>2. TypeInv /\ LifecycleInv /\ [Next]_vars => LifecycleInv' /\ [Contract!ShortNext]_Phase
  <2> SUFFICES ASSUME TypeInv, LifecycleInv, [Next]_vars
               PROVE  LifecycleInv' /\ [Contract!ShortNext]_Phase
    OBVIOUS
  <2>1. CASE RunStep
    BY <2>1, LifecycleStep DEF TypeInv
  <2>2. CASE WorkerStops \/ WorkerReturns \/ Stop \/ ServerStep \/ UNCHANGED vars
    <3>1. UNCHANGED <<pc, state_>>
      BY <2>2, OthersEffect DEF ServerStep, loopVars
    <3> QED
      BY <3>1 DEF LifecycleInv, Phase
  <2> QED
    BY <2>1, <2>2 DEF Next
<1> QED
  BY <1>1, <1>2, TypeInvariance, PTL DEF Spec, ContractSpec, Contract!ShortSpec
=============================================================================
