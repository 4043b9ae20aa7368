------------------------------ MODULE PyProofs ------------------------------
(***************************************************************************)
(* The Python component, for every value of the constants: its types, what *)
(* aegisd sees on a connection, which workers outlive a session, its       *)
(* attempts and delays, and that it implements the lifecycle contract.     *)
(***************************************************************************)
EXTENDS PyComponent, ConnectionProofs

-----------------------------------------------------------------------------
(* What run() does to the connection *)

\* Where there is no connection.
Idle == {"connect", "failed", "sleep", "done"}

\* Where run() answers the request that it received last.
Replying == {"pong", "ack_configure", "ack_shutdown"}

\* The command of that request.
Wanted(at) ==
    IF at = "pong" THEN "PING"
    ELSE IF at = "ack_configure" THEN "CONFIGURE"
    ELSE "SHUTDOWN"

\* Where run() announces a state, and which.
Announcing == {"announce_initializing", "announce_ready", "announce_configured",
               "announce_running"}
StateAt ==
    IF pc = "announce_initializing" THEN "INITIALIZING"
    ELSE IF pc = "announce_ready" THEN "READY"
    ELSE IF pc = "announce_configured" THEN "CONFIGURED"
    ELSE "RUNNING"

\* The frame that is sent there.
FrameAt ==
    IF pc = "register" THEN Envelope("REGISTER", 0, NoId)
    ELSE IF pc = "pong" THEN Envelope("PONG", cur.id, state)
    ELSE IF pc \in {"ack_configure", "ack_shutdown"} THEN Envelope("ACK", cur.id, NoId)
    ELSE IF pc = "graceful_shutdown" THEN Envelope("SHUTDOWN", 0, NoId)
    ELSE Envelope("STATE_UPDATE", 0, StateAt)

\* The frame of this place reaches the socket.
Sends ==
    /\ pc \in Sending \cup {"graceful_shutdown"}
    /\ sent' = Append(sent, FrameAt)
    /\ UNCHANGED <<link, inbox, srvVars>>

\* A frame is received that can be decoded.
Takes ==
    /\ inbox # <<>>
    /\ inbox' = Tail(inbox)
    /\ UNCHANGED <<link, sent, srvVars>>

\* The frames that run() sends are component frames.
LEMMA FrameAtType ==
    ASSUME TypeOK
    PROVE  /\ FrameAt \in ComponentFrames
           /\ FrameAt.command = "REGISTER" => FrameAt.arg = NoId
           /\ pc \in Sending \cup {"graceful_shutdown"} =>
                /\ FrameAt.command =
                     IF pc = "register" THEN "REGISTER"
                     ELSE IF pc = "pong" THEN "PONG"
                     ELSE IF pc \in {"ack_configure", "ack_shutdown"} THEN "ACK"
                     ELSE IF pc = "graceful_shutdown" THEN "SHUTDOWN"
                     ELSE "STATE_UPDATE"
                /\ FrameAt.corr = IF pc \in Replying THEN cur.id ELSE 0
                /\ pc = "pong" => FrameAt.arg = state
                /\ IsUpdate(FrameAt) => FrameAt.arg = StateAt
<1>1. /\ cur.id \in Nat /\ state \in Args /\ NoId \in Args /\ StateAt \in Args
  BY DEF TypeOK, ServerFrames, Args, ComponentStates, StateAt
<1>2. {"REGISTER", "PONG", "ACK", "STATE_UPDATE", "SHUTDOWN"} \subseteq Commands
  BY DEF Commands
<1>3. FrameAt \in ComponentFrames
  BY <1>1, <1>2, FrameTypes DEF FrameAt
<1> QED
  BY <1>3 DEF FrameAt, Envelope, IsUpdate, Replying

\* Where a step of run() leads, and what it does on the way.
LEMMA RunStepPlace ==
    ASSUME RunStep
    PROVE  \/ /\ pc' \in Idle
              /\ \/ CloseLink
                 \/ pc \in Idle /\ UNCHANGED <<linkVars, srvVars>>
           \/ pc = "connect" /\ pc' = "register" /\ OpenLink
           \/ pc = "register" /\ pc' = "await_registered" /\ Sends
           \/ pc = "await_registered" /\ pc' = "announce_initializing" /\ Takes
           \/ pc = "await_ack" /\ pc' = "announce_ready" /\ Takes /\ UNCHANGED state
           \/ /\ pc \in Announcing /\ Sends /\ state' = StateAt
              /\ pc' = IF pc = "announce_initializing" THEN "await_ack"
                       ELSE IF pc = "announce_configured" THEN "on_configure"
                       ELSE "message_loop"
           \/ /\ pc = "message_loop" /\ Takes /\ UNCHANGED state
              /\ \/ pc' \in {"message_loop", "graceful_shutdown"}
                 \/ /\ pc' \in Replying
                    /\ cur' = Head(inbox)
                    /\ Head(inbox).command = Wanted(pc')
           \/ /\ \/ pc = "message_loop" /\ pc' = "graceful_shutdown"
                 \/ pc = "on_configure" /\ pc' = "announce_running"
              /\ UNCHANGED <<linkVars, srvVars, state>>
           \/ /\ pc \in Replying /\ Sends /\ UNCHANGED state
              /\ pc' \in {"message_loop", "announce_configured", "graceful_shutdown"}
           \/ /\ pc = "graceful_shutdown" /\ pc' \in {"await_worker", "leave"}
              /\ Sends \/ UNCHANGED <<linkVars, srvVars>>
              /\ UNCHANGED state
<1>1. CASE Connect \/ Reconnecting \/ WakeUp
  BY <1>1 DEF Connect, Reconnecting, Finish, WakeUp, Idle
<1>2. CASE SendError \/ RecvUndecodable \/ HandshakeEof \/ RegisterRaises \/ Leave
  BY <1>2 DEF SendError, RecvUndecodable, HandshakeEof, RegisterRaises, Leave, Disconnect,
     Abort, Finish, Idle
<1>3. CASE OnConfigure
  BY <1>3 DEF OnConfigure, Disconnect, Abort, Finish, Idle
<1>4. CASE Registered \/ RecvAck
  BY <1>4 DEF Registered, RecvAck, Receive, Takes
<1>5. CASE RecvMessage
  BY <1>5 DEF RecvMessage, Receive, Takes, HandleRequest, HandleOther, Asks, Replying,
     Wanted
<1>6. CASE SendRegister
  BY <1>6 DEF SendRegister, Send, Sends, Sending, FrameAt
<1>7. CASE AnnounceInitializing \/ AnnounceReady \/ AnnounceConfigured \/ AnnounceRunning
  BY <1>7 DEF AnnounceInitializing, AnnounceReady, AnnounceConfigured, AnnounceRunning,
     SendStateUpdate, Send, Sends, Sending, FrameAt, StateAt, Announcing
<1>8. CASE SendReply
  BY <1>8 DEF SendReply, Reply, ReplyCorr, Send, Sends, Sending, FrameAt, Replying
<1>9. CASE ReadEnds
  BY <1>9 DEF ReadEnds
<1>10. CASE GracefulShutdown
  <2>1. CASE link = "up"
    BY <1>10, <2>1 DEF GracefulShutdown, Sends, FrameAt
  <2>2. CASE link # "up"
    BY <1>10, <2>2 DEF GracefulShutdown, linkVars
  <2> QED
    BY <2>1, <2>2
<1> QED
  BY <1>1, <1>2, <1>3, <1>4, <1>5, <1>6, <1>7, <1>8, <1>9, <1>10 DEF RunStep

\* A step of run() opens the connection, drops it, leaves it alone, takes a frame, or
\* sends the frame of its place.
LEMMA RunStepEffect ==
    ASSUME RunStep
    PROVE  \/ OpenLink \/ CloseLink \/ UNCHANGED <<linkVars, srvVars>>
           \/ Takes
           \/ Sends
  BY RunStepPlace

\* A worker announces a state, or takes the rest of a dead connection with it.
LEMMA WorkerEffect ==
    ASSUME WorkerStep
    PROVE  /\ pc \in Suspended
           /\ UNCHANGED <<pc, cur, link, srvVars, started, graceful, dials>>
           /\ live' \subseteq live
           /\ \/ /\ link = "up" /\ UNCHANGED inbox
                 /\ \E new_state \in {"WAITING", "RUNNING"} :
                       /\ sent' = Append(sent, Envelope("STATE_UPDATE", 0, new_state))
                       /\ state' = new_state
              \/ link # "up" /\ inbox' = <<>> /\ UNCHANGED <<sent, state>>
<1>1. PICK w \in live : WorkerSends(w) \/ WorkerDies(w)
  BY DEF WorkerStep
<1> QED
  BY <1>1 DEF WorkerStep, WorkerSends, WorkerDies, SendStateUpdate, Send, runVars, history

-----------------------------------------------------------------------------
(* Type correctness *)

\* A connection that was dialled has a number.
Dialled == pc # "connect" => dials >= 1

TypeInv == TypeOK /\ Identities /\ Dialled

\* What run() does keeps the connection well typed.
LEMMA RunStepLinkType ==
    ASSUME TypeInv, RunStep
    PROVE  LinkTypeOK' /\ Identities'
<1>1. LinkTypeOK /\ Identities /\ link \in {"down", "up", "eof"} /\ 0 \in Nat /\ 1 \in Nat
  BY DEF TypeInv, TypeOK, LinkTypeOK
<1>2. CASE OpenLink \/ CloseLink \/ UNCHANGED <<linkVars, srvVars>>
  BY <1>1, <1>2, LinkType
<1>3. CASE Takes
  <2>1. Taken(1)
    BY <1>1, <1>3, TakenFacts DEF Takes
  <2> QED
    BY <1>1, <1>3, <2>1, ClientType DEF Takes
<1>4. CASE Sends
  <2>1. Taken(0)
    BY <1>1, <1>4, TakenFacts DEF Sends
  <2>2. /\ FrameAt \in ComponentFrames
        /\ FrameAt.command = "REGISTER" => FrameAt.arg \in ComponentIds \cup {NoId}
    BY FrameAtType DEF TypeInv
  <2> QED
    BY <1>1, <1>4, <2>1, <2>2, ClientType DEF Sends
<1> QED
  BY <1>2, <1>3, <1>4, RunStepEffect

\* So does what a worker does.
LEMMA WorkerLinkType ==
    ASSUME TypeInv, WorkerStep
    PROVE  LinkTypeOK' /\ Identities' /\ state' \in ComponentStates
<1>1. /\ LinkTypeOK /\ Identities /\ 0 \in Nat /\ UNCHANGED srvVars
      /\ link' \in {"down", "up", "eof"} /\ state \in ComponentStates
  BY WorkerEffect DEF TypeInv, TypeOK, LinkTypeOK
<1>2. Taken(0)
  BY <1>1, WorkerEffect, TakenFacts
<1>3. CASE UNCHANGED <<sent, state>>
  BY <1>1, <1>2, <1>3, ClientType
<1>4. ASSUME NEW new_state \in {"WAITING", "RUNNING"}, state' = new_state,
             sent' = Append(sent, Envelope("STATE_UPDATE", 0, new_state))
      PROVE  LinkTypeOK' /\ Identities' /\ state' \in ComponentStates
  <2>1. PICK frame : frame = Envelope("STATE_UPDATE", 0, new_state)
    OBVIOUS
  <2>2. frame \in ComponentFrames /\ frame.command # "REGISTER"
    BY <2>1, FrameTypes DEF Commands, Args, ComponentStates
  <2> QED
    BY <1>1, <1>2, <1>4, <2>1, <2>2, ClientType DEF ComponentStates
<1> QED
  BY <1>3, <1>4, WorkerEffect

\* What run() does keeps TypeInv.
LEMMA RunStepType ==
    ASSUME TypeInv, RunStep
    PROVE  TypeInv'
<1>1. LinkTypeOK' /\ Identities'
  BY RunStepLinkType
<1>2. TypeOK /\ Dialled
  BY DEF TypeInv
<1>3. inbox # <<>> => Head(inbox) \in ServerFrames
  BY TailFacts DEF TypeInv, TypeOK, LinkTypeOK
<1>4. NoFrame \in ServerFrames
  BY FrameTypes DEF NoFrame, MessageTypes, Commands, Args
<1>5. /\ dials < MaxDials => dials + 1 \in 0 .. MaxDials
      /\ dials + 1 >= 1
      /\ dials >= 1 => dials \in 1 .. MaxDials
      /\ attempts + 1 \in Nat /\ streak + 1 \in Nat /\ NextDelay(delay) \in Nat
      /\ ReconnectDelay \in Nat
  <2>1. dials \in 0 .. MaxDials /\ attempts \in Nat /\ delay \in Nat /\ streak \in Nat
    BY <1>2 DEF TypeOK
  <2>2. MaxReconnectDelay \in Nat /\ MaxDials \in Nat /\ ReconnectDelay \in Nat
    BY PyAssumption
  <2>3. NextDelay(delay) \in Nat
    BY <2>1, <2>2 DEF NextDelay
  <2> QED
    BY <2>1, <2>2, <2>3
<1> SUFFICES TypeOK' /\ Dialled'
  BY <1>1 DEF TypeInv
<1>6. CASE Connect
  BY <1>1, <1>2, <1>5, <1>6 DEF Connect, workerVars, history, TypeOK, Dialled, Sending,
     Suspended
<1>7. CASE Reconnecting
  <2>1. attempts' \in Nat /\ live' \subseteq live /\ pc' \in {"done", "sleep"}
        /\ result' \in {result, "max_reconnect_attempts", "reconnect_disabled"}
    BY <1>2, <1>5, <1>7 DEF Reconnecting, Finish, TypeOK
  <2> QED
    BY <1>1, <1>2, <1>7, <2>1 DEF Reconnecting, history, TypeOK, Dialled, Suspended
<1>8. CASE WakeUp
  BY <1>1, <1>2, <1>5, <1>8 DEF WakeUp, workerVars, TypeOK, Dialled, Suspended
<1>9. CASE SendError \/ HandshakeEof
  BY <1>1, <1>2, <1>9 DEF SendError, HandshakeEof, Disconnect, runVars, workerVars,
     history, TypeOK, Dialled, Sending, Suspended
<1>10. CASE RecvUndecodable \/ RegisterRaises
  BY <1>1, <1>2, <1>10 DEF RecvUndecodable, RegisterRaises, Abort, Finish, history,
     TypeOK, Dialled
<1>11. CASE OnConfigure
  BY <1>1, <1>2, <1>11 DEF OnConfigure, Disconnect, Abort, Finish, runVars, workerVars,
     history, TypeOK, Dialled, Sending, Suspended
<1>12. CASE SendRegister \/ SendReply \/ AnnounceInitializing \/ AnnounceConfigured
  BY <1>1, <1>2, <1>4, <1>12 DEF SendRegister, SendReply, Reply, AnnounceInitializing,
     AnnounceConfigured, SendStateUpdate, Send, runVars, workerVars, history, TypeOK,
     Dialled, Sending, Suspended, ComponentStates
<1>13. CASE AnnounceReady
  BY <1>1, <1>2, <1>5, <1>13 DEF AnnounceReady, SendStateUpdate, Send, workerVars, TypeOK,
     Dialled, Suspended, ComponentStates
<1>14. CASE Registered \/ RecvAck
  BY <1>1, <1>2, <1>14 DEF Registered, RecvAck, runVars, workerVars, history, TypeOK,
     Dialled, Sending, ComponentStates
<1>15. CASE ReadEnds
  BY <1>1, <1>2, <1>15 DEF ReadEnds, runVars, workerVars, history, TypeOK, Dialled
<1>16. CASE RecvMessage
  <2>1. /\ pc' \in {"pong", "ack_configure", "ack_shutdown", "graceful_shutdown",
                    "message_loop"}
        /\ cur' \in ServerFrames
    BY <1>2, <1>3, <1>16 DEF RecvMessage, HandleRequest, HandleOther, Asks, TypeOK
  <2>2. pc # "connect"
    BY <1>16 DEF RecvMessage
  <2> QED
    BY <1>1, <1>2, <1>16, <2>1, <2>2 DEF RecvMessage, runVars, workerVars, history, TypeOK,
       Dialled, Sending, Suspended
<1>17. CASE AnnounceRunning
  <2>1. dials \in 1 .. MaxDials /\ started \in Seq(1 .. MaxDials)
    BY <1>2, <1>5, <1>17 DEF AnnounceRunning, Dialled, TypeOK
  <2>2. started' = Append(started, dials) /\ live' = live \cup {Len(started) + 1}
    BY <1>17 DEF AnnounceRunning
  <2>3. /\ Len(started) \in Nat
        /\ started' \in Seq(1 .. MaxDials)
        /\ DOMAIN started' = 1 .. Len(started) + 1
        /\ DOMAIN started = 1 .. Len(started)
    BY <2>1, <2>2, SeqFacts, AppendFacts
  <2>4. live' \subseteq DOMAIN started'
    BY <1>2, <2>2, <2>3 DEF TypeOK
  <2> QED
    BY <1>1, <1>2, <1>17, <2>3, <2>4 DEF AnnounceRunning, SendStateUpdate, Send, runVars,
       history, TypeOK, Dialled, Suspended, ComponentStates
<1>18. CASE GracefulShutdown
  BY <1>1, <1>2, <1>18 DEF GracefulShutdown, runVars, history, TypeOK, Dialled, Suspended
<1>19. CASE Leave
  <2>1. dials \in 1 .. MaxDials
    BY <1>2, <1>5, <1>19 DEF Leave, Dialled
  <2>2. graceful' \subseteq 1 .. MaxDials
    BY <1>2, <1>19, <2>1 DEF Leave, TypeOK
  <2> QED
    BY <1>1, <1>2, <1>19, <2>2 DEF Leave, runVars, workerVars, TypeOK, Dialled, Suspended,
       ComponentStates
<1> QED
  BY <1>6, <1>7, <1>8, <1>9, <1>10, <1>11, <1>12, <1>13, <1>14, <1>15, <1>16, <1>17, <1>18,
     <1>19 DEF RunStep

\* TypeInv is inductive.
LEMMA TypeInvariance == Spec => []TypeInv
<1>1. Init => TypeInv
  <2> SUFFICES ASSUME Init
               PROVE  TypeInv
    OBVIOUS
  <2>1. LinkTypeOK /\ DOMAIN inbox = {} /\ DOMAIN sent = {}
    BY EmptyFacts DEF Init, LinkInit, LinkTypeOK
  <2>2. cur \in ServerFrames
    BY FrameTypes DEF Init, NoFrame, MessageTypes, Commands, Args
  <2>3. dials \in 0 .. MaxDials /\ updates \in 0 .. MaxUpdates /\ delay \in Nat
    BY PyAssumption DEF Init
  <2>4. started \in Seq(1 .. MaxDials)
    BY EmptyFacts DEF Init
  <2> QED
    BY <2>1, <2>2, <2>3, <2>4 DEF Init, TypeInv, TypeOK, Identities, Dialled, Suspended,
       ComponentStates
<1>2. TypeInv /\ [Next]_vars => TypeInv'
  <2> SUFFICES ASSUME TypeInv, [Next]_vars
               PROVE  TypeInv'
    OBVIOUS
  <2>1. CASE RunStep
    BY <2>1, RunStepType
  <2>2. CASE WorkerStep
    <3>1. LinkTypeOK' /\ Identities' /\ state' \in ComponentStates
      BY <2>2, WorkerLinkType
    <3>2. updates' \in 0 .. MaxUpdates
      <4>1. updates \in 0 .. MaxUpdates /\ MaxUpdates \in Nat
        BY PyAssumption DEF TypeInv, TypeOK
      <4>2. \/ UNCHANGED updates
            \/ updates < MaxUpdates /\ updates' = updates + 1
        BY <2>2 DEF WorkerStep, WorkerSends, WorkerDies
      <4> QED
        BY <4>1, <4>2
    <3>3. /\ UNCHANGED <<pc, cur, started, graceful, dials>> /\ live' \subseteq live
      BY <2>2, WorkerEffect
    <3>4. UNCHANGED <<runVars, streak>>
      BY <2>2 DEF WorkerStep, WorkerSends, WorkerDies, history
    <3> QED
      BY <3>1, <3>2, <3>3, <3>4 DEF runVars, TypeInv, TypeOK, Dialled
  <2>3. CASE ServerStep
    <3>1. LinkTypeOK' /\ Identities'
      BY <2>3, ServerType DEF ServerStep, TypeInv, TypeOK
    <3> QED
      BY <2>3, <3>1 DEF ServerStep, runVars, workerVars, history, TypeInv, TypeOK, Dialled
  <2>4. CASE UNCHANGED vars
    <3>1. LinkTypeOK' /\ Identities'
      BY <2>4, LinkType DEF vars, TypeInv, TypeOK
    <3> QED
      BY <2>4, <3>1 DEF vars, runVars, workerVars, history, TypeInv, TypeOK, Dialled
  <2> QED
    BY <2>1, <2>2, <2>3, <2>4 DEF Next
<1> QED
  BY <1>1, <1>2, PTL DEF Spec

\* Every variable of the Python component keeps its type, in every instance.
THEOREM TypeCorrect == Spec => []TypeOK
<1>1. TypeInv => TypeOK
  BY DEF TypeInv
<1> QED
  BY <1>1, TypeInvariance, PTL

-----------------------------------------------------------------------------
(* The handshake *)

\* REGISTER is sent on a fresh connection before run() is suspended, and the workers
\* have no connection while run() has none.
HandshakeInv ==
    /\ HandshakeFirst
    /\ pc \in Idle => link = "down"
    /\ pc = "register" => sent = <<>>
    /\ pc \notin Idle \cup {"register"} => sent # <<>>

\* A frame that is sent behind another one keeps the first one.
LEMMA SentHandshake ==
    ASSUME LinkTypeOK, HandshakeFirst, NEW frame \in ComponentFrames,
           sent' = Append(sent, frame), sent = <<>> => frame.command = "REGISTER"
    PROVE  HandshakeFirst' /\ sent' # <<>>
<1>1. /\ Len(sent) \in Nat /\ DOMAIN sent = 1 .. Len(sent)
      /\ DOMAIN sent' = 1 .. Len(sent) + 1
      /\ \A i \in DOMAIN sent : sent'[i] = sent[i]
      /\ sent'[Len(sent) + 1] = frame
  BY SentFacts
<1>2. sent' # <<>>
  BY <1>1, EmptyFacts
<1>3. CASE sent = <<>>
  BY <1>1, <1>2, <1>3, EmptyFacts DEF HandshakeFirst
<1>4. CASE sent # <<>>
  <2>1. Len(sent) # 0
    BY <1>4 DEF LinkTypeOK
  <2>2. 1 \in DOMAIN sent
    BY <1>1, <2>1
  <2> QED
    BY <1>1, <1>2, <1>4, <2>2 DEF HandshakeFirst
<1> QED
  BY <1>3, <1>4

\* HandshakeInv is inductive.
LEMMA HandshakeInvariance == Spec => []HandshakeInv
<1>1. Init => HandshakeInv
  BY DEF Init, LinkInit, HandshakeInv, HandshakeFirst, Idle
<1>2. TypeInv /\ HandshakeInv /\ [Next]_vars => HandshakeInv'
  <2> SUFFICES ASSUME TypeInv, HandshakeInv, [Next]_vars
               PROVE  HandshakeInv'
    OBVIOUS
  <2>1. LinkTypeOK
    BY DEF TypeInv, TypeOK
  <2>2. CASE RunStep
    <3>1. CASE pc' \in Idle
      BY <2>2, <3>1, RunStepPlace DEF CloseLink, linkVars, HandshakeInv, HandshakeFirst,
         Idle, Announcing, Replying
    <3>2. CASE pc = "connect" /\ pc' = "register" /\ OpenLink
      BY <3>2 DEF OpenLink, HandshakeInv, HandshakeFirst, Idle
    <3>3. CASE Sends /\ pc' \notin Idle \cup {"register"}
      <4>1. /\ FrameAt \in ComponentFrames /\ sent' = Append(sent, FrameAt)
            /\ pc = "register" => FrameAt.command = "REGISTER"
            /\ pc \notin Idle
        BY <3>3, FrameAtType DEF Sends, Sending, Idle, TypeInv
      <4>2. sent = <<>> => FrameAt.command = "REGISTER"
        BY <4>1 DEF HandshakeInv
      <4>3. HandshakeFirst' /\ sent' # <<>>
        BY <2>1, <4>1, <4>2, SentHandshake DEF HandshakeInv
      <4> QED
        BY <3>3, <4>3 DEF HandshakeInv
    <3>4. CASE /\ UNCHANGED sent
               /\ pc \notin Idle \cup {"register"} /\ pc' \notin Idle \cup {"register"}
      BY <3>4 DEF HandshakeInv, HandshakeFirst
    <3> QED
      BY <2>2, <3>1, <3>2, <3>3, <3>4, RunStepPlace DEF Takes, linkVars, Idle, Announcing,
         Replying
  <2>3. CASE WorkerStep
    <3>1. UNCHANGED <<pc, link>> /\ pc \in Suspended
      BY <2>3, WorkerEffect
    <3>2. CASE UNCHANGED sent
      BY <3>1, <3>2 DEF HandshakeInv, HandshakeFirst
    <3>3. ASSUME link = "up", NEW new_state \in {"WAITING", "RUNNING"},
                 sent' = Append(sent, Envelope("STATE_UPDATE", 0, new_state))
          PROVE  HandshakeInv'
      <4>1. PICK frame : frame = Envelope("STATE_UPDATE", 0, new_state)
        OBVIOUS
      <4>2. frame \in ComponentFrames
        BY <4>1, FrameTypes DEF Commands, Args, ComponentStates
      <4>3. sent # <<>>
        BY <3>1, <3>3 DEF HandshakeInv, Suspended
      <4>4. HandshakeFirst' /\ sent' # <<>>
        BY <2>1, <3>3, <4>1, <4>2, <4>3, SentHandshake DEF HandshakeInv
      <4> QED
        BY <3>1, <3>3, <4>3, <4>4 DEF HandshakeInv
    <3> QED
      BY <2>3, <3>2, <3>3, WorkerEffect
  <2>4. CASE ServerStep
    BY <2>1, <2>4, ServerEffect DEF ServerStep, HandshakeInv, HandshakeFirst
  <2>5. CASE UNCHANGED vars
    BY <2>5 DEF vars, linkVars, HandshakeInv, HandshakeFirst
  <2> QED
    BY <2>2, <2>3, <2>4, <2>5 DEF Next
<1> QED
  BY <1>1, <1>2, TypeInvariance, PTL DEF Spec

-----------------------------------------------------------------------------
(* Replies *)

\* The envelope being handled is a request in hand, of the command that its handler is
\* for.
Handling ==
    pc \in Replying => InHand(cur.id) /\ asked[cur.id] = Wanted(pc)

ReplyInv == QueueInv /\ Handling

\* What run() does keeps ReplyInv.
LEMMA RunStepReplies ==
    ASSUME TypeInv, ReplyInv, RunStep
    PROVE  ReplyInv'
<1>1. LinkTypeOK /\ QueueInv /\ 0 \in Nat /\ 1 \in Nat \ {0} /\ 1 \in Nat
  BY DEF TypeInv, TypeOK, ReplyInv
<1>2. QueueInv'
  <2>1. CASE OpenLink \/ CloseLink \/ UNCHANGED <<linkVars, srvVars>>
    BY <1>1, <2>1, LinkQueue
  <2>2. CASE Takes
    <3>1. Taken(1) /\ UNCHANGED <<sent, asked>>
      BY <1>1, <2>2, TakenFacts DEF Takes, srvVars
    <3> QED
      BY <1>1, <3>1, ClientQueue
  <2>3. CASE Sends
    <3>1. /\ FrameAt \in ComponentFrames
          /\ FrameAt.corr = IF pc \in Replying THEN cur.id ELSE 0
          /\ pc \in Replying => FrameAt.command = ReplyTo(Wanted(pc))
      BY <2>3, FrameAtType DEF TypeInv, Sends, Replying, Wanted, ReplyTo
    <3>2. MayAnswer(FrameAt)
      BY <3>1 DEF MayAnswer, ReplyInv, Handling
    <3>3. UNCHANGED asked /\ sent' = Append(sent, FrameAt) /\ Taken(0)
      BY <1>1, <2>3, TakenFacts DEF Sends, srvVars
    <3> QED
      BY <1>1, <3>1, <3>2, <3>3, ClientQueue
  <2> QED
    BY <2>1, <2>2, <2>3, RunStepEffect
<1>3. ASSUME pc' \in Replying
      PROVE  InHand(cur.id)' /\ asked'[cur'.id] = Wanted(pc')
  <2>1. Takes /\ cur' = Head(inbox) /\ Head(inbox).command = Wanted(pc')
    BY <1>3, RunStepPlace DEF Replying, Idle
  <2>2. PICK head : head = Head(inbox)
    OBVIOUS
  <2>3. /\ Taken(1) /\ UNCHANGED <<sent, asked>> /\ inbox # <<>>
        /\ head.command \in Requests
    BY <1>1, <2>1, <2>2, TakenFacts DEF Takes, srvVars, Wanted, Requests
  <2>4. InHand(head.id)' /\ asked[head.id] = head.command
    BY <1>1, <2>2, <2>3, HeadInHand
  <2> QED
    BY <2>1, <2>2, <2>3, <2>4 DEF InHand
<1> QED
  BY <1>2, <1>3 DEF ReplyInv, Handling

\* ReplyInv is inductive.
LEMMA ReplyInvariance == Spec => []ReplyInv
<1>1. Init => ReplyInv
  <2> SUFFICES ASSUME Init
               PROVE  ReplyInv
    OBVIOUS
  <2>1. DOMAIN inbox = {} /\ DOMAIN sent = {} /\ pc = "connect"
    BY EmptyFacts DEF Init, LinkInit
  <2> QED
    BY <2>1 DEF ReplyInv, QueueInv, RepliesMatch, Numbered, Ahead, Handling, Replying
<1>2. TypeInv /\ ReplyInv /\ [Next]_vars => ReplyInv'
  <2> SUFFICES ASSUME TypeInv, ReplyInv, [Next]_vars
               PROVE  ReplyInv'
    OBVIOUS
  <2>1. LinkTypeOK /\ QueueInv /\ 0 \in Nat
    BY DEF TypeInv, TypeOK, ReplyInv
  <2>2. CASE RunStep
    BY <2>2, RunStepReplies
  <2>3. ASSUME QueueInv', UNCHANGED <<pc, cur>>,
               \A r : InHand(r) => InHand(r)',
               \A r \in DOMAIN asked : asked'[r] = asked[r]
        PROVE  ReplyInv'
    <3>1. CASE pc \in Replying
      <4>1. InHand(cur.id) /\ asked[cur.id] = Wanted(pc)
        BY <3>1 DEF ReplyInv, Handling
      <4>2. InHand(cur.id)'
        BY <2>3, <4>1 DEF InHand
      <4>3. asked'[cur.id] = Wanted(pc)
        BY <2>3, <4>1 DEF InHand
      <4> QED
        BY <2>3, <4>1, <4>2, <4>3 DEF ReplyInv, Handling
    <3>2. CASE pc \notin Replying
      BY <2>3, <3>2 DEF ReplyInv, Handling
    <3> QED
      BY <3>1, <3>2
  <2>4. CASE WorkerStep
    <3>1. UNCHANGED <<pc, cur, asked>>
      BY <2>4, WorkerEffect DEF srvVars
    <3>2. Taken(0)
      BY <2>1, <2>4, WorkerEffect, TakenFacts
    <3>3. CASE UNCHANGED sent
      <4>1. QueueInv'
        BY <2>1, <3>1, <3>2, <3>3, ClientQueue
      <4>2. \A r : InHand(r) => InHand(r)'
        BY <2>1, <3>1, <3>2, <3>3, StillInHand
      <4> QED
        BY <2>3, <3>1, <4>1, <4>2
    <3>4. ASSUME NEW new_state \in {"WAITING", "RUNNING"},
                 sent' = Append(sent, Envelope("STATE_UPDATE", 0, new_state))
          PROVE  ReplyInv'
      <4>1. PICK frame : frame = Envelope("STATE_UPDATE", 0, new_state)
        OBVIOUS
      <4>2. frame \in ComponentFrames /\ frame.corr = 0 /\ sent' = Append(sent, frame)
        BY <3>4, <4>1, FrameTypes DEF Commands, Args, ComponentStates
      <4>3. MayAnswer(frame)
        BY <4>2 DEF MayAnswer
      <4>4. QueueInv'
        BY <2>1, <3>1, <3>2, <4>2, <4>3, ClientQueue
      <4>5. \A r : InHand(r) => InHand(r)'
        BY <2>1, <3>1, <3>2, <4>2, StillInHand
      <4> QED
        BY <2>3, <3>1, <4>4, <4>5
    <3> QED
      BY <2>4, <3>3, <3>4, WorkerEffect
  <2>5. CASE ServerStep
    <3>1. /\ QueueInv' /\ UNCHANGED <<pc, cur>>
          /\ \A r : InHand(r) => InHand(r)'
          /\ \A r \in DOMAIN asked : asked'[r] = asked[r]
      BY <2>1, <2>5, ServerQueue DEF ServerStep
    <3> QED
      BY <2>3, <3>1
  <2>6. CASE UNCHANGED vars
    <3>1. QueueInv'
      BY <2>1, <2>6, LinkQueue DEF vars
    <3> QED
      BY <2>6, <3>1 DEF vars, linkVars, srvVars, ReplyInv, Handling, InHand
  <2> QED
    BY <2>2, <2>4, <2>5, <2>6 DEF Next
<1> QED
  BY <1>1, <1>2, TypeInvariance, PTL DEF Spec

-----------------------------------------------------------------------------
(* The state that is reported *)

\* Where the state was announced on the connection that run() holds.
Announced == {"await_ack", "announce_ready", "message_loop", "pong", "ack_configure",
              "announce_configured", "on_configure", "announce_running", "ack_shutdown",
              "graceful_shutdown", "await_worker", "leave"}

\* There it is the one that was announced last, by whomever.
PongInv ==
    /\ PongTruthful
    /\ pc \in Announced => LastTold(state)

\* A frame that is an announcement of the new state, or leaves the state alone, keeps
\* PongInv.
LEMMA SentPongs ==
    ASSUME LinkTypeOK, PongInv, NEW frame \in ComponentFrames, sent' = Append(sent, frame),
           frame.command = "PONG" => pc \in Announced /\ frame.arg = state,
           \/ IsUpdate(frame) /\ state' = frame.arg
           \/ ~IsUpdate(frame) /\ (pc' \in Announced => pc \in Announced /\ UNCHANGED state)
    PROVE  PongInv'
<1>1. PongTruthful'
  BY SentPong DEF PongInv
<1>2. PICK st : st = state'
  OBVIOUS
<1>3. ASSUME pc' \in Announced
      PROVE  LastTold(st)'
  <2>1. CASE IsUpdate(frame)
    <3>1. st = frame.arg
      BY <1>2, <2>1
    <3> QED
      BY <2>1, <3>1, SentTold
  <2>2. CASE ~IsUpdate(frame)
    <3>1. LastTold(st)
      BY <1>2, <1>3, <2>2 DEF PongInv
    <3> QED
      BY <2>2, <3>1, SentTold
  <2> QED
    BY <2>1, <2>2
<1> QED
  BY <1>1, <1>2, <1>3 DEF PongInv, LastTold

\* What run() does keeps PongInv.
LEMMA RunStepPongs ==
    ASSUME TypeInv, PongInv, RunStep
    PROVE  PongInv'
<1>1. LinkTypeOK
  BY DEF TypeInv, TypeOK
<1>2. CASE UNCHANGED sent /\ (pc' \in Announced => pc \in Announced /\ UNCHANGED state)
  BY <1>2 DEF PongInv, PongTruthful, LastTold, IsUpdate
<1>3. CASE OpenLink /\ pc' \notin Announced
  <2>1. DOMAIN sent' = {}
    BY <1>3, EmptyFacts DEF OpenLink
  <2> QED
    BY <1>3, <2>1 DEF PongInv, PongTruthful
<1>4. CASE Sends
  <2>1. PICK frame \in ComponentFrames :
            /\ sent' = Append(sent, frame)
            /\ frame.command = "PONG" => pc = "pong" /\ frame.arg = state
            /\ IsUpdate(frame) <=> pc \in Announcing
            /\ IsUpdate(frame) => frame.arg = StateAt
    <3>1. /\ pc \in Sending \cup {"graceful_shutdown"}
          /\ sent' = Append(sent, FrameAt)
          /\ FrameAt \in ComponentFrames
      BY <1>4, FrameAtType DEF TypeInv, Sends
    <3>2. /\ FrameAt.command = "PONG" => pc = "pong" /\ FrameAt.arg = state
          /\ IsUpdate(FrameAt) <=> pc \in Announcing
          /\ IsUpdate(FrameAt) => FrameAt.arg = StateAt
      BY <3>1, FrameAtType DEF TypeInv, Sending, IsUpdate, Announcing
    <3> QED
      BY <3>1, <3>2
  <2>2. CASE pc \in Announcing /\ state' = StateAt
    BY <1>1, <2>1, <2>2, SentPongs DEF Announced
  <2>3. CASE pc \notin Announcing /\ (pc' \in Announced => pc \in Announced /\ UNCHANGED state)
    BY <1>1, <2>1, <2>3, SentPongs DEF Announced
  <2>4. pc # "connect" /\ pc \notin Idle
    BY <1>4 DEF Sends, Sending, Idle
  <2>5. CASE pc' \notin Announced
    <3>1. pc \notin Announcing \/ state' = StateAt \/ CloseLink
      BY <2>4, RunStepPlace DEF Idle, Announcing, Replying
    <3>2. ~CloseLink
      <4>1. Len(sent') # Len(sent)
        BY <1>1, <2>1, SentFacts
      <4> QED
        BY <4>1 DEF CloseLink
    <3> QED
      BY <2>2, <2>3, <2>5, <3>1, <3>2
  <2>6. CASE pc' \in Announced
    BY <2>2, <2>3, <2>4, <2>6, RunStepPlace DEF Idle, Announcing, Replying, Announced,
       Takes, linkVars
  <2> QED
    BY <2>5, <2>6
<1> QED
  BY <1>2, <1>3, <1>4, RunStepPlace DEF Idle, Announcing, Replying, Announced, Takes,
     CloseLink, linkVars

\* PongInv is inductive.
LEMMA PongInvariance == Spec => []PongInv
<1>1. Init => PongInv
  <2> SUFFICES ASSUME Init
               PROVE  PongInv
    OBVIOUS
  <2>1. DOMAIN sent = {} /\ pc = "connect"
    BY EmptyFacts DEF Init, LinkInit
  <2> QED
    BY <2>1 DEF PongInv, PongTruthful, Announced
<1>2. TypeInv /\ PongInv /\ [Next]_vars => PongInv'
  <2> SUFFICES ASSUME TypeInv, PongInv, [Next]_vars
               PROVE  PongInv'
    OBVIOUS
  <2>1. CASE RunStep
    BY <2>1, RunStepPongs
  <2>2. CASE UNCHANGED <<sent, pc, state>>
    BY <2>2 DEF PongInv, PongTruthful, LastTold, IsUpdate
  <2>3. CASE WorkerStep
    <3>1. UNCHANGED pc
      BY <2>3, WorkerEffect
    <3>2. ASSUME NEW new_state \in {"WAITING", "RUNNING"}, state' = new_state,
                 sent' = Append(sent, Envelope("STATE_UPDATE", 0, new_state))
          PROVE  PongInv'
      <4>1. PICK frame : frame = Envelope("STATE_UPDATE", 0, new_state)
        OBVIOUS
      <4>2. /\ frame \in ComponentFrames /\ IsUpdate(frame) /\ state' = frame.arg
            /\ frame.command # "PONG" /\ sent' = Append(sent, frame)
        BY <3>2, <4>1, FrameTypes DEF Commands, Args, ComponentStates, IsUpdate
      <4> QED
        BY <4>2, SentPongs DEF TypeInv, TypeOK
    <3> QED
      BY <2>2, <2>3, <3>1, <3>2, WorkerEffect
  <2>4. CASE ServerStep
    BY <2>2, <2>4, ServerEffect DEF ServerStep, TypeInv, TypeOK
  <2>5. CASE UNCHANGED vars
    BY <2>2, <2>5 DEF vars, linkVars
  <2> QED
    BY <2>1, <2>3, <2>4, <2>5 DEF Next
<1> QED
  BY <1>1, <1>2, TypeInvariance, PTL DEF Spec

\* On every connection aegisd sees REGISTER first, replies that match its requests, and
\* PONGs that report the state it was last told, in every instance.
THEOREM ConversationHolds == Spec => []Conversation
<1>1. TypeInv /\ HandshakeInv /\ ReplyInv /\ PongInv => Conversation
  BY DEF TypeInv, HandshakeInv, ReplyInv, QueueInv, PongInv, Conversation
<1> QED
  BY <1>1, TypeInvariance, HandshakeInvariance, ReplyInvariance, PongInvariance, PTL

-----------------------------------------------------------------------------
(* The workers of a session *)

\* Workers are numbered in the order of their connections, no worker is started on a
\* connection that ended gracefully, and while one ends that way its last worker is
\* cancelled already.
WorkerInv ==
    /\ \A v, w \in DOMAIN started : v < w => started[v] <= started[w]
    /\ \A w \in DOMAIN started : started[w] <= dials
    /\ \A n \in graceful : n <= dials
    /\ dials \in graceful => pc \in Idle
    /\ pc \in {"await_worker", "leave"} => Len(started) \notin live
    /\ GracefulStopsNewest

\* A step of run() that is none of these four starts no worker and ends no session
\* gracefully.
LEMMA QuietStep ==
    ASSUME RunStep, ~Connect, ~AnnounceRunning, ~GracefulShutdown, ~Leave
    PROVE  /\ UNCHANGED <<started, graceful, dials>>
           /\ live' \subseteq live
           /\ pc \in Idle => pc' \in Idle
           /\ pc' \notin {"await_worker", "leave"}
  BY DEF RunStep, Reconnecting, Finish, WakeUp, SendError, Disconnect, RecvUndecodable,
     Abort, SendRegister, HandshakeEof, Registered, RegisterRaises, AnnounceInitializing,
     RecvAck, AnnounceReady, ReadEnds, RecvMessage, HandleRequest, HandleOther, Asks,
     SendReply, Reply, AnnounceConfigured, OnConfigure, SendStateUpdate, Send, runVars,
     workerVars, history, Idle, Sending

\* WorkerInv survives a step that starts no worker and ends no session gracefully.
LEMMA QuietWorkers ==
    ASSUME WorkerInv, UNCHANGED <<started, graceful, dials>>, live' \subseteq live,
           pc \in Idle => pc' \in Idle,
           pc' \in {"await_worker", "leave"} => Len(started) \notin live'
    PROVE  WorkerInv'
  BY DEF WorkerInv, GracefulStopsNewest

\* What run() does keeps WorkerInv.
LEMMA RunStepWorkers ==
    ASSUME TypeInv, WorkerInv, RunStep
    PROVE  WorkerInv'
<1>1. /\ dials \in Nat /\ started \in Seq(1 .. MaxDials) /\ live \subseteq DOMAIN started
      /\ graceful \subseteq 1 .. MaxDials /\ Len(started) \in Nat
      /\ DOMAIN started = 1 .. Len(started)
      /\ \A w \in DOMAIN started : started[w] \in Nat
  <2>1. /\ dials \in 0 .. MaxDials /\ started \in Seq(1 .. MaxDials)
        /\ live \subseteq DOMAIN started /\ graceful \subseteq 1 .. MaxDials
    BY DEF TypeInv, TypeOK
  <2>2. /\ Len(started) \in Nat /\ DOMAIN started = 1 .. Len(started)
        /\ \A w \in DOMAIN started : started[w] \in 1 .. MaxDials
    BY <2>1, SeqFacts
  <2> QED
    BY <2>1, <2>2
<1>2. CASE Connect
  <2>1. /\ dials' = dials + 1 /\ UNCHANGED <<started, live, graceful>>
        /\ pc' \in {"register", "failed"}
    BY <1>2 DEF Connect, workerVars, history
  <2>2. \A w \in DOMAIN started : started[w] <= dials + 1
    BY <1>1 DEF WorkerInv
  <2>3. \A n \in graceful : n <= dials + 1 /\ n # dials + 1
    BY <1>1 DEF WorkerInv
  <2> QED
    BY <2>1, <2>2, <2>3 DEF WorkerInv, GracefulStopsNewest
<1>3. CASE AnnounceRunning
  <2>1. /\ started' = Append(started, dials) /\ live' = live \cup {Len(started) + 1}
        /\ pc = "announce_running" /\ pc' = "message_loop" /\ UNCHANGED <<dials, graceful>>
    BY <1>3 DEF AnnounceRunning, SendStateUpdate, Send, runVars, history
  <2>2. dials \in 1 .. MaxDials /\ dials \notin graceful
    <3>1. dials >= 1 /\ dials \in 0 .. MaxDials
      BY <2>1 DEF TypeInv, TypeOK, Dialled
    <3>2. MaxDials \in Nat
      BY PyAssumption
    <3> QED
      BY <2>1, <3>1, <3>2 DEF WorkerInv, Idle
  <2>3. /\ Len(started') = Len(started) + 1
        /\ DOMAIN started' = 1 .. Len(started) + 1
        /\ \A w \in DOMAIN started : started'[w] = started[w]
        /\ started'[Len(started) + 1] = dials
    BY <1>1, <2>1, <2>2, AppendFacts
  <2>4. \A w \in DOMAIN started' : \/ w \in DOMAIN started /\ started'[w] = started[w]
                                   \/ w = Len(started) + 1 /\ started'[w] = dials
    BY <1>1, <2>3
  <2>5. \A w \in DOMAIN started' : started'[w] <= dials
    BY <1>1, <2>4 DEF WorkerInv
  <2>6. ASSUME NEW v \in DOMAIN started', NEW w \in DOMAIN started', v < w
        PROVE  started'[v] <= started'[w]
    <3>1. v \in DOMAIN started /\ started'[v] = started[v]
      BY <1>1, <2>3, <2>4, <2>6
    <3> QED
      BY <2>4, <2>5, <2>6, <3>1 DEF WorkerInv
  <2>7. ASSUME NEW w \in live', started'[w] \in graceful
        PROVE  \E v \in w + 1 .. Len(started') : started'[v] = started'[w]
    <3>1. w \in live /\ w \in DOMAIN started /\ started'[w] = started[w]
      BY <1>1, <2>1, <2>2, <2>3, <2>7
    <3>2. PICK v \in w + 1 .. Len(started) : started[v] = started[w]
      BY <2>7, <3>1 DEF WorkerInv, GracefulStopsNewest
    <3>3. v \in DOMAIN started /\ v \in w + 1 .. Len(started')
      BY <1>1, <2>3, <3>1, <3>2
    <3> QED
      BY <2>3, <3>1, <3>2, <3>3
  <2>8. GracefulStopsNewest'
    BY <2>1, <2>7 DEF GracefulStopsNewest
  <2> QED
    BY <2>1, <2>2, <2>5, <2>6, <2>8 DEF WorkerInv
<1>4. CASE GracefulShutdown
  <2>1. /\ UNCHANGED <<started, graceful, dials>> /\ live' = live \ {Len(started)}
        /\ pc = "graceful_shutdown"
    BY <1>4 DEF GracefulShutdown, runVars, history
  <2> QED
    BY <2>1, QuietWorkers DEF Idle
<1>5. CASE Leave
  <2>1. /\ graceful' = graceful \cup {dials} /\ UNCHANGED <<started, live, dials>>
        /\ pc \in {"await_worker", "leave"} /\ pc' = "failed"
    BY <1>5 DEF Leave, runVars, workerVars
  <2>2. ASSUME NEW w \in live, started[w] = dials
        PROVE  \E v \in w + 1 .. Len(started) : started[v] = started[w]
    <3>1. w \in 1 .. Len(started) /\ w # Len(started)
      BY <1>1, <2>1 DEF WorkerInv
    <3>2. /\ Len(started) \in DOMAIN started /\ w \in DOMAIN started /\ w < Len(started)
          /\ Len(started) \in w + 1 .. Len(started)
      BY <1>1, <3>1
    <3>3. started[w] <= started[Len(started)] /\ started[Len(started)] <= dials
      BY <3>2 DEF WorkerInv
    <3>4. started[Len(started)] = dials
      BY <1>1, <2>2, <3>2, <3>3
    <3> QED
      BY <2>2, <3>2, <3>4
  <2>3. GracefulStopsNewest'
    BY <2>1, <2>2 DEF WorkerInv, GracefulStopsNewest
  <2>4. \A n \in graceful' : n <= dials
    BY <1>1, <2>1 DEF WorkerInv
  <2> QED
    BY <2>1, <2>3, <2>4 DEF WorkerInv, Idle
<1>6. CASE ~Connect /\ ~AnnounceRunning /\ ~GracefulShutdown /\ ~Leave
  BY <1>6, QuietStep, QuietWorkers
<1> QED
  BY <1>2, <1>3, <1>4, <1>5, <1>6

\* WorkerInv is inductive.
LEMMA WorkerInvariance == Spec => []WorkerInv
<1>1. Init => WorkerInv
  BY EmptyFacts DEF Init, WorkerInv, GracefulStopsNewest
<1>2. TypeInv /\ WorkerInv /\ [Next]_vars => WorkerInv'
  <2> SUFFICES ASSUME TypeInv, WorkerInv, [Next]_vars
               PROVE  WorkerInv'
    OBVIOUS
  <2>1. CASE RunStep
    BY <2>1, RunStepWorkers
  <2>2. CASE WorkerStep
    <3>1. /\ UNCHANGED <<pc, started, graceful, dials>> /\ live' \subseteq live
      BY <2>2, WorkerEffect
    <3>2. pc' \in {"await_worker", "leave"} => Len(started) \notin live'
      BY <3>1 DEF WorkerInv
    <3> QED
      BY <3>1, <3>2, QuietWorkers
  <2>3. CASE ServerStep
    BY <2>3, QuietWorkers DEF ServerStep, runVars, workerVars, history, WorkerInv
  <2>4. CASE UNCHANGED vars
    BY <2>4, QuietWorkers DEF vars, runVars, workerVars, history, WorkerInv
  <2> QED
    BY <2>1, <2>2, <2>3, <2>4 DEF Next
<1> QED
  BY <1>1, <1>2, TypeInvariance, PTL DEF Spec

\* A worker that outlives a session that ended gracefully was not the last one started in
\* it, in every instance.
THEOREM GracefulStopsNewestHolds == Spec => []GracefulStopsNewest
<1>1. WorkerInv => GracefulStopsNewest
  BY DEF WorkerInv
<1> QED
  BY <1>1, WorkerInvariance, PTL
-----------------------------------------------------------------------------
(* Reconnection *)

\* `delay' is at any time the one for the sleeps since READY was last signalled.
BackoffInv == delay = DelayAfter(streak, ReconnectDelay, MaxReconnectDelay)

\* Only the sleeps and READY change either of them.
LEMMA BackoffQuiet ==
    ASSUME [Next]_vars, ~WakeUp, ~AnnounceReady
    PROVE  UNCHANGED <<delay, streak>>
<1>1. CASE RunStep
  BY <1>1 DEF RunStep, Connect, Reconnecting, SendError, Disconnect, RecvUndecodable, Abort,
     SendRegister, HandshakeEof, Registered, RegisterRaises, AnnounceInitializing, RecvAck,
     ReadEnds, RecvMessage, SendReply, Reply, AnnounceConfigured, OnConfigure,
     AnnounceRunning, GracefulShutdown, Leave, runVars, history
<1>2. CASE WorkerStep \/ ServerStep \/ UNCHANGED vars
  BY <1>2 DEF WorkerStep, WorkerSends, WorkerDies, ServerStep, vars, runVars, history
<1> QED
  BY <1>1, <1>2 DEF Next

\* A session that got as far as READY makes the delay start over: the k-th sleep after it
\* lasts reconnect_delay * 2^(k-1), capped from the second one on, however many of them.
THEOREM BackoffSinceReadyHolds == Spec => []BackoffSinceReady
<1>1. DelayAfter(0, ReconnectDelay, MaxReconnectDelay) = ReconnectDelay
  BY NextDelayAfter, PyAssumption
<1>2. \A n \in Nat : DelayAfter(n + 1, ReconnectDelay, MaxReconnectDelay) =
        NextDelay(DelayAfter(n, ReconnectDelay, MaxReconnectDelay))
  BY NextDelayAfter, PyAssumption DEF NextDelay
<1>3. Init => BackoffInv
  BY <1>1 DEF Init, BackoffInv
<1>4. TypeInv /\ BackoffInv /\ [Next]_vars => BackoffInv'
  <2> SUFFICES ASSUME TypeInv, BackoffInv, [Next]_vars
               PROVE  BackoffInv'
    OBVIOUS
  <2>1. CASE WakeUp
    <3>1. delay' = NextDelay(delay) /\ streak' = streak + 1 /\ streak \in Nat
      BY <2>1 DEF WakeUp, TypeInv, TypeOK
    <3> QED
      BY <1>2, <3>1 DEF BackoffInv
  <2>2. CASE AnnounceReady
    BY <1>1, <2>2 DEF AnnounceReady, BackoffInv
  <2>3. CASE ~WakeUp /\ ~AnnounceReady
    BY <2>3, BackoffQuiet DEF BackoffInv
  <2> QED
    BY <2>1, <2>2, <2>3
<1>5. BackoffInv => BackoffSinceReady
  BY DEF BackoffInv, BackoffSinceReady
<1> QED
  BY <1>3, <1>4, <1>5, TypeInvariance, PTL DEF Spec

\* Between two connections, or after the last one.
Between == {"connect", "sleep", "done"}

\* While run() runs, `attempts' counts the sessions that ended, and the budget is not
\* used up.
BudgetInv ==
    /\ AttemptsBounded
    /\ pc \in {"connect", "sleep"} => dials = attempts
    /\ pc \notin Between => dials = attempts + 1
    /\ pc # "done" => /\ result = "none"
                      /\ MaxReconnectAttempts > 0 => attempts < MaxReconnectAttempts
                      /\ ~Reconnect => attempts = 0

\* A session goes on, ends, or makes run() raise.
LEMMA BudgetQuiet ==
    ASSUME RunStep, ~Connect, ~Reconnecting, ~WakeUp
    PROVE  /\ pc \notin Between
           /\ UNCHANGED <<attempts, dials>>
           /\ \/ pc' \notin Between /\ UNCHANGED result
              \/ pc' = "done" /\ result' \in {"registration", "exception"}
<1> USE DEF Between
<1>1. CASE SendError \/ RecvUndecodable \/ HandshakeEof \/ RegisterRaises \/ OnConfigure
  BY <1>1 DEF SendError, RecvUndecodable, HandshakeEof, RegisterRaises, OnConfigure,
     Disconnect, Abort, Finish, runVars, Sending
<1>2. CASE SendRegister \/ SendReply \/ AnnounceInitializing \/ AnnounceReady
           \/ AnnounceConfigured \/ AnnounceRunning
  BY <1>2 DEF SendRegister, SendReply, Reply, AnnounceInitializing, AnnounceReady,
     AnnounceConfigured, AnnounceRunning, SendStateUpdate, Send, runVars
<1>3. CASE Registered \/ RecvAck \/ ReadEnds \/ RecvMessage \/ GracefulShutdown \/ Leave
  BY <1>3 DEF Registered, RecvAck, ReadEnds, RecvMessage, HandleRequest, HandleOther, Asks,
     GracefulShutdown, Leave, runVars
<1> QED
  BY <1>1, <1>2, <1>3 DEF RunStep

\* What run() does keeps the budget.
LEMMA BudgetStep ==
    ASSUME TypeInv, BudgetInv, RunStep
    PROVE  BudgetInv'
<1>1. attempts \in Nat /\ MaxReconnectAttempts \in Nat /\ Reconnect \in BOOLEAN
  BY PyAssumption DEF TypeInv, TypeOK
<1>2. CASE Connect
  <2>1. /\ pc = "connect" /\ pc' \notin Between
        /\ dials' = dials + 1 /\ UNCHANGED <<attempts, result>>
    BY <1>2 DEF Connect, Between
  <2>2. /\ dials = attempts /\ result = "none"
        /\ MaxReconnectAttempts > 0 => attempts < MaxReconnectAttempts
        /\ ~Reconnect => attempts = 0
    BY <2>1 DEF BudgetInv
  <2>3. AttemptsBounded'
    BY <1>1, <2>1, <2>2 DEF AttemptsBounded
  <2> QED
    BY <2>1, <2>2, <2>3 DEF BudgetInv, Between
<1>3. CASE Reconnecting
  <2>1. /\ pc = "failed" /\ UNCHANGED dials
        /\ attempts' = IF Reconnect THEN attempts + 1 ELSE attempts
    BY <1>3 DEF Reconnecting
  <2>2. /\ dials = attempts + 1 /\ result = "none" /\ AttemptsBounded
        /\ MaxReconnectAttempts > 0 => attempts < MaxReconnectAttempts
        /\ ~Reconnect => attempts = 0
    BY <2>1 DEF BudgetInv, Between
  <2>3. CASE ~Reconnect /\ Finish("reconnect_disabled")
    BY <2>1, <2>2, <2>3 DEF Finish, BudgetInv, AttemptsBounded, Between
  <2>4. CASE /\ Reconnect /\ AttemptsExhausted(attempts + 1)
             /\ Finish("max_reconnect_attempts")
    <3>1. dials = MaxReconnectAttempts
      BY <1>1, <2>2, <2>4 DEF AttemptsExhausted
    <3> QED
      BY <2>1, <2>2, <2>4, <3>1 DEF Finish, BudgetInv, AttemptsBounded, Between
  <2>5. CASE /\ Reconnect /\ ~AttemptsExhausted(attempts + 1)
             /\ pc' = "sleep" /\ UNCHANGED result
    <3>1. /\ dials' = attempts' /\ attempts' = attempts + 1
          /\ MaxReconnectAttempts > 0 => attempts + 1 < MaxReconnectAttempts
      BY <1>1, <2>1, <2>2, <2>5 DEF AttemptsExhausted
    <3> QED
      BY <2>1, <2>2, <2>5, <3>1 DEF BudgetInv, AttemptsBounded, Between
  <2> QED
    BY <1>3, <2>3, <2>4, <2>5 DEF Reconnecting
<1>4. CASE WakeUp
  BY <1>4 DEF WakeUp, BudgetInv, AttemptsBounded, Between
<1>5. CASE ~Connect /\ ~Reconnecting /\ ~WakeUp
  <2>1. CASE pc' \notin Between /\ UNCHANGED result
    BY <1>5, <2>1, BudgetQuiet DEF BudgetInv, AttemptsBounded, Between
  <2>2. CASE pc' = "done" /\ result' \in {"registration", "exception"}
    BY <1>5, <2>2, BudgetQuiet DEF BudgetInv, AttemptsBounded, Between
  <2> QED
    BY <1>5, <2>1, <2>2, BudgetQuiet
<1> QED
  BY <1>2, <1>3, <1>4, <1>5

\* run() connects as often as the configuration allows, sessions that got to READY
\* included, and gives up for lack of attempts only after it used all of them.
THEOREM AttemptsBoundedHolds == Spec => []AttemptsBounded
<1>1. Init => BudgetInv
  BY PyAssumption DEF Init, BudgetInv, AttemptsBounded, Between
<1>2. TypeInv /\ BudgetInv /\ [Next]_vars => BudgetInv'
  <2> SUFFICES ASSUME TypeInv, BudgetInv, [Next]_vars
               PROVE  BudgetInv'
    OBVIOUS
  <2>1. CASE RunStep
    BY <2>1, BudgetStep
  <2>2. CASE WorkerStep \/ ServerStep \/ UNCHANGED vars
    BY <2>2 DEF WorkerStep, WorkerSends, WorkerDies, SendStateUpdate, Send, ServerStep, vars,
       runVars, BudgetInv, AttemptsBounded
  <2> QED
    BY <2>1, <2>2 DEF Next
<1>3. BudgetInv => AttemptsBounded
  BY DEF BudgetInv
<1> QED
  BY <1>1, <1>2, <1>3, TypeInvariance, PTL DEF Spec

\* run() connects neither more often nor sooner than the configuration says.
THEOREM ReconnectBudgetHolds == Spec => []ReconnectBudget
  BY AttemptsBoundedHolds, BackoffSinceReadyHolds, PTL DEF ReconnectBudget

-----------------------------------------------------------------------------
(* The lifecycle contract *)

Registering == {"register", "await_registered"}

\* The places of a session that is registered, and the states in which the component can
\* be there if no worker announces one.
Settled == Announced \cup {"announce_initializing"}
StatesAt(at) ==
    IF at = "announce_initializing" THEN {"REGISTERED"}
    ELSE IF at \in {"await_ack", "announce_ready"} THEN {"INITIALIZING"}
    ELSE IF at \in {"on_configure", "announce_running"} THEN {"CONFIGURED"}
    ELSE {"READY", "RUNNING"}

LifecycleInv ==
    /\ pc \in Idle <=> link = "down"
    /\ pc \in Settled => state \in StatesAt(pc)

\* What the contract sees of each place.
PhaseFacts ==
    /\ pc = "done" => Phase = "stopped"
    /\ pc \in Idle \ {"done"} => Phase = "offline"
    /\ pc \in Registering => Phase = "registering"
    /\ pc \in Settled => Phase = state

LEMMA PhaseAt == LifecycleInv => PhaseFacts
  BY DEF LifecycleInv, PhaseFacts, Phase, Registering, Settled, Announced, Idle

\* Every place is one of these.
LEMMA Places ==
    ASSUME TypeOK
    PROVE  pc \in Idle \cup Registering \cup Settled
  BY DEF TypeOK, Sending, Suspended, Idle, Registering, Settled, Announced

\* A step of run() keeps LifecycleInv.
LEMMA LifecycleRun ==
    ASSUME LifecycleInv, RunStep
    PROVE  LifecycleInv'
<1> USE DEF LifecycleInv, Settled, Announced, StatesAt, Idle, Announcing, Replying
<1>1. link' = "down" <=> pc' \in Idle
  BY RunStepPlace DEF Takes, Sends, OpenLink, CloseLink, linkVars
<1>2. pc' \in Settled => state' \in StatesAt(pc')
  <2>1. pc = "await_registered" /\ pc' = "announce_initializing" => state' = "REGISTERED"
    BY DEF RunStep, Connect, Reconnecting, Finish, WakeUp, SendError, Disconnect,
       RecvUndecodable, Abort, SendRegister, HandshakeEof, Registered, RegisterRaises,
       AnnounceInitializing, RecvAck, AnnounceReady, ReadEnds, RecvMessage, SendReply,
       Reply, AnnounceConfigured, OnConfigure, AnnounceRunning, GracefulShutdown, Leave
  <2> QED
    BY <2>1, RunStepPlace DEF StateAt
<1> QED
  BY <1>1, <1>2

\* A step of run() is a step of the contract, or none.
LEMMA LifecycleStep ==
    ASSUME TypeOK, TypeOK', LifecycleInv, LifecycleInv', RunStep
    PROVE  [Contract!Next]_Phase
<1>1. PhaseFacts /\ PhaseFacts'
  BY PhaseAt DEF LifecycleInv, PhaseFacts, Phase, Registering, Settled, Announced, Idle
<1>2. /\ pc = "done" => Phase = "stopped"
      /\ pc \in Idle \ {"done"} => Phase = "offline"
      /\ pc \in Registering => Phase = "registering"
      /\ pc \in Settled => Phase = state /\ state \in StatesAt(pc)
  BY <1>1 DEF PhaseFacts, LifecycleInv
<1>3. /\ pc' = "done" => Phase' = "stopped"
      /\ pc' \in Idle \ {"done"} => Phase' = "offline"
      /\ pc' \in Registering => Phase' = "registering"
      /\ pc' \in Settled => Phase' = state'
  BY <1>1 DEF PhaseFacts
<1>4. CASE pc' \in Idle
  <2>1. pc # "done"
    BY DEF RunStep, Connect, Reconnecting, WakeUp, SendError, RecvUndecodable, SendRegister,
       HandshakeEof, Registered, RegisterRaises, AnnounceInitializing, RecvAck,
       AnnounceReady, ReadEnds, RecvMessage, SendReply, Reply, AnnounceConfigured,
       OnConfigure, AnnounceRunning, GracefulShutdown, Leave, Sending
  <2>2. Phase \notin {"stopped"} /\ Phase' \in {"offline", "stopped"}
    BY <1>2, <1>3, <1>4, <2>1, Places DEF StatesAt
  <2> QED
    BY <2>2 DEF Contract!Next, Contract!Drop, Contract!Stop
<1>5. CASE pc' \notin Idle
  <2> USE DEF Contract!Next, Contract!Advance, Contract!Advances
  <2>1. CASE pc = "connect" /\ pc' = "register"
    BY <1>2, <1>3, <2>1 DEF Idle, Registering
  <2>2. CASE pc = "register" /\ pc' = "await_registered"
    BY <1>2, <1>3, <2>2 DEF Registering
  <2>3. CASE pc = "await_registered" /\ pc' = "announce_initializing"
    <3>1. state' = "REGISTERED"
      BY <2>3 DEF LifecycleInv, Settled, StatesAt
    <3> QED
      BY <1>2, <1>3, <2>3, <3>1 DEF Registering, Settled
  <2>4. CASE pc \in Announcing /\ state' = StateAt
    <3>1. pc \in Settled /\ pc' \in Settled
      BY <1>5, <2>4, RunStepPlace DEF Announcing, Settled, Announced, Idle, Replying
    <3> QED
      BY <1>2, <1>3, <2>4, <3>1 DEF StateAt, StatesAt, Announcing
  <2>5. CASE pc \in Settled /\ pc' \in Settled /\ UNCHANGED state
    BY <1>2, <1>3, <2>5
  <2> QED
    BY <1>5, <2>1, <2>2, <2>3, <2>4, <2>5, RunStepPlace DEF Idle, Announcing, Replying,
       Settled, Announced
<1> QED
  BY <1>4, <1>5

\* Only workers count `updates', and only upwards.
LEMMA UpdatesGrow ==
    ASSUME updates \in Nat, [Next]_vars, updates' = 0
    PROVE  updates = 0
<1>1. CASE RunStep
  BY <1>1 DEF RunStep, Connect, Reconnecting, WakeUp, SendError, Disconnect,
     RecvUndecodable, Abort, SendRegister, HandshakeEof, Registered, RegisterRaises,
     AnnounceInitializing, RecvAck, AnnounceReady, ReadEnds, RecvMessage, SendReply, Reply,
     AnnounceConfigured, OnConfigure, AnnounceRunning, GracefulShutdown, Leave, workerVars
<1>2. CASE WorkerStep \/ ServerStep \/ UNCHANGED vars
  BY <1>2 DEF WorkerStep, WorkerSends, WorkerDies, ServerStep, vars, workerVars
<1> QED
  BY <1>1, <1>2 DEF Next

\* Until a worker announces something, the Python component implements the lifecycle
\* contract: on every connection it goes through its states in order, and once run()
\* ended it never comes back.
THEOREM ImplementsContract == Spec => ContractSpec
<1> DEFINE Inv == updates = 0 => LifecycleInv
           Step == updates' = 0 => [Contract!Next]_Phase
<1>1. Init => Inv /\ Contract!Init
  BY DEF Init, LinkInit, LifecycleInv, Settled, Announced, Idle, Phase, Contract!Init
<1>2. TypeInv /\ TypeInv' /\ Inv /\ [Next]_vars => Inv' /\ Step
  <2> SUFFICES ASSUME TypeInv, TypeInv', Inv, [Next]_vars, updates' = 0
               PROVE  LifecycleInv' /\ [Contract!Next]_Phase
    OBVIOUS
  <2>1. updates \in Nat /\ updates = 0 /\ LifecycleInv
    <3>1. updates \in Nat
      BY PyAssumption DEF TypeInv, TypeOK
    <3> QED
      BY <3>1, UpdatesGrow
  <2>2. CASE RunStep
    BY <2>1, <2>2, LifecycleRun, LifecycleStep DEF TypeInv
  <2>3. CASE WorkerStep
    <3>1. UNCHANGED <<pc, link, state>>
      BY <2>1, <2>3 DEF WorkerStep, WorkerSends, WorkerDies
    <3> QED
      BY <2>1, <3>1 DEF LifecycleInv, Phase
  <2>4. CASE ServerStep
    <3>1. UNCHANGED <<pc, state>> /\ link # "down" /\ link' # "down"
      BY <2>4, ServerEffect DEF ServerStep, TypeInv, TypeOK
    <3> QED
      BY <2>1, <3>1 DEF LifecycleInv, Phase
  <2>5. CASE UNCHANGED vars
    BY <2>1, <2>5 DEF vars, linkVars, LifecycleInv, Phase
  <2> QED
    BY <2>2, <2>3, <2>4, <2>5 DEF Next
<1> QED
  BY <1>1, <1>2, TypeInvariance, PTL DEF Spec, ContractSpec
=============================================================================
