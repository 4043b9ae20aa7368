----------------------------- MODULE RustProofs -----------------------------
(***************************************************************************)
(* The Rust component and its example, for every value of the constants.   *)
(*                                                                         *)
(* The component: its types, the lifecycle that it keeps to, its           *)
(* reconnection budget and its identity; what becomes of aegisd's requests *)
(* (each reply answers the right request, at most once and in order, no    *)
(* request is lost, a PONG reports the state that was announced last); and *)
(* that run() returns Ok only after it acknowledged SHUTDOWN.              *)
(*                                                                         *)
(* The workers: the component starts one for each RUNNING that it          *)
(* announces, and composed with one of them it uses it as RustStream       *)
(* supposes.                                                               *)
(***************************************************************************)
EXTENDS RustWorkers, ConnectionProofs, FiniteSetTheorems

-----------------------------------------------------------------------------
(* Type correctness *)

\* A connection that was dialled has a number.
Dialled == pc # "connect" => dials >= 1

TypeInv == TypeOK /\ Identities /\ Dialled

\* The frame that stands for no envelope.
LEMMA NoFrameType == NoFrame \in ServerFrames /\ NoFrame.id = 0
  BY FrameTypes DEF NoFrame, MessageTypes, Commands, Args

\* A frame that is sent keeps the connection well typed.
LEMMA SendType ==
    ASSUME LinkTypeOK, Identities, NEW frame \in ComponentFrames, NEW next,
           frame.command = "REGISTER" => frame.arg \in ComponentIds \cup {NoId},
           Send(frame, next)
    PROVE  LinkTypeOK' /\ Identities' /\ pc' = next
<1>1. UNCHANGED <<link, inbox, srvVars>> /\ pc' = next /\ sent' = Append(sent, frame)
  BY DEF Send
<1>2. Taken(0) /\ 0 \in Nat /\ link' \in {"down", "up", "eof"}
  BY <1>1, TakenFacts DEF LinkTypeOK
<1> QED
  BY <1>1, <1>2, ClientType

\* So does a frame that is received.
LEMMA ReceiveType ==
    ASSUME LinkTypeOK, Identities, NEW frame, Receive(frame)
    PROVE  /\ LinkTypeOK' /\ Identities'
           /\ frame \in ServerFrames
           /\ frame.command = "REGISTERED" =>
                frame.arg \in ComponentIds \cup {NoKey, NotString}
<1>1. UNCHANGED <<link, sent, srvVars>> /\ inbox # <<>> /\ inbox' = Tail(inbox)
  BY DEF Receive
<1>2. Taken(1) /\ 1 \in Nat /\ link' \in {"down", "up", "eof"}
  BY <1>1, TakenFacts DEF LinkTypeOK
<1>3. LinkTypeOK' /\ Identities'
  BY <1>1, <1>2, ClientType
<1>4. frame \in ServerFrames /\ 1 \in DOMAIN inbox /\ frame = inbox[1]
  BY <1>1, TailFacts DEF Receive, LinkTypeOK
<1> QED
  BY <1>3, <1>4 DEF Identities

\* send_state_update keeps TypeInv, whatever the caller does besides.
LEMMA UpdateType ==
    ASSUME TypeInv, pc # "connect", NEW new_state \in ComponentStates,
           NEW next \in Sending \cup Receiving, SendStateUpdate(new_state, next),
           workers' \in [1 .. MaxDials -> Nat], called' \subseteq Hooks
    PROVE  TypeInv'
<1> DEFINE frame == Envelope("STATE_UPDATE", 0, new_state)
<1>1. frame \in ComponentFrames
  BY FrameTypes DEF Commands, Args
<1>2. frame.command # "REGISTER"
  BY DEF Envelope
<1>3. Send(frame, next)
  BY DEF SendStateUpdate
<1> HIDE DEF frame
<1>4. LinkTypeOK' /\ Identities' /\ pc' = next
  BY <1>1, <1>2, <1>3, SendType DEF TypeInv, TypeOK
<1> QED
  BY <1>4 DEF SendStateUpdate, TypeInv, TypeOK, Dialled

\* So does a reply, and the error report of a failed on_configure.
LEMMA ReplyType ==
    ASSUME TypeInv, pc # "connect", NEW command \in Commands \ {"REGISTER"},
           NEW corr \in Nat, NEW arg \in Args,
           NEW next \in Sending \cup Receiving \cup {"graceful_shutdown"},
           Send(Envelope(command, corr, arg), next),
           cur' = NoFrame, UNCHANGED rustVars
    PROVE  TypeInv'
<1> DEFINE frame == Envelope(command, corr, arg)
<1>1. frame \in ComponentFrames
  BY FrameTypes
<1>2. frame.command # "REGISTER"
  BY DEF Envelope
<1> HIDE DEF frame
<1>3. LinkTypeOK' /\ Identities' /\ pc' = next
  BY <1>1, <1>2, SendType DEF TypeInv, TypeOK, frame
<1> QED
  BY <1>3, NoFrameType DEF rustVars, TypeInv, TypeOK, Dialled

\* So does run_once() when it fails.
LEMMA FailType ==
    ASSUME TypeInv, pc # "connect", Fail, called' \subseteq Hooks,
           UNCHANGED <<state, component_id, attempts, delay, dials, result,
                       workers, cancelled>>
    PROVE  TypeInv'
<1>1. LinkTypeOK' /\ Identities'
  BY LinkType DEF Fail, TypeInv, TypeOK
<1> QED
  BY <1>1, NoFrameType DEF Fail, TypeInv, TypeOK, Dialled

\* RunStep preserves TypeInv, one step of run() at a time.
LEMMA RunStepType ==
    ASSUME TypeInv, RunStep
    PROVE  TypeInv'
<1>17. LinkTypeOK /\ Identities
  BY DEF TypeInv, TypeOK
<1>18. /\ MaxDials \in Nat /\ MaxReconnectDelay \in Nat
       /\ EnvId \in ComponentIds \cup {NoId}
  BY RustAssumption
<1>19. dials \in 0 .. MaxDials /\ attempts \in Nat /\ delay \in Nat
  BY DEF TypeInv, TypeOK
<1>1. CASE Connect
  <2>1. LinkTypeOK' /\ Identities'
    BY <1>17, <1>1, LinkType DEF Connect
  <2>2. dials' \in 1 .. MaxDials
    BY <1>1, <1>18, <1>19 DEF Connect
  <2>3. pc' \in {"register", "failed"} /\ called' \subseteq Hooks
    BY <1>1 DEF Connect, TypeInv, TypeOK
  <2> QED
    <3>1. dials' \in 0 .. MaxDials
      BY <1>18, <2>2
    <3>2. pc' \in Sending \cup {"failed"}
      BY <2>3 DEF Sending
    <3>3. TypeOK'
      BY <1>1, <2>1, <2>3, <3>1, <3>2 DEF Connect, TypeInv, TypeOK
    <3>4. Dialled'
      BY <2>2 DEF Dialled
    <3> QED
      BY <2>1, <3>3, <3>4 DEF TypeInv
<1>2. CASE Reconnecting
  <2>1. LinkTypeOK' /\ Identities'
    BY <1>17, <1>2, LinkType DEF Reconnecting
  <2>2. cur' \in ServerFrames
    BY <1>2, NoFrameType DEF Reconnecting, Return, TypeInv, TypeOK
  <2>3. attempts' \in Nat
    <3>1. attempts' = attempts \/ attempts' = attempts + 1
      BY <1>2 DEF Reconnecting
    <3> QED
      BY <1>19, <3>1
  <2>4. /\ pc' \in {"done", "sleep"}
        /\ result' \in {"none", "ok", "registration", "panic", "reconnect_disabled",
                       "max_reconnect_attempts"}
    BY <1>2 DEF Reconnecting, Return, TypeInv, TypeOK
  <2>5. pc # "connect" /\ UNCHANGED dials
    BY <1>2 DEF Reconnecting
  <2> QED
    BY <1>2, <2>1, <2>2, <2>3, <2>4, <2>5 DEF Reconnecting, TypeInv, TypeOK, Dialled
<1>3. CASE WakeUp
  <2>1. LinkTypeOK' /\ Identities'
    BY <1>17, <1>3, LinkType DEF WakeUp
  <2>2. delay' \in Nat
    BY <1>3, <1>18, <1>19 DEF WakeUp, NextDelay
  <2> QED
    BY <1>3, <2>1, <2>2 DEF WakeUp, TypeInv, TypeOK, Dialled
<1>4. CASE SendRegister
  <2> DEFINE frame == Envelope("REGISTER", 0, RegisterId)
  <2>1. RegisterId \in ComponentIds \cup {NoId}
    BY <1>18 DEF RegisterId, TypeInv, TypeOK
  <2>2. frame \in ComponentFrames
    BY <2>1, FrameTypes DEF Commands, Args
  <2>3. frame.command = "REGISTER" => frame.arg \in ComponentIds \cup {NoId}
    BY <2>1 DEF Envelope
  <2>4. Send(frame, "await_registered") /\ UNCHANGED <<cur, rustVars>>
    BY <1>4 DEF SendRegister
  <2> HIDE DEF frame
  <2>5. LinkTypeOK' /\ Identities' /\ pc' = "await_registered"
    BY <1>17, <2>2, <2>3, <2>4, SendType
  <2> QED
    BY <1>4, <2>4, <2>5 DEF SendRegister, TypeInv, TypeOK, Dialled, Receiving, rustVars
<1>5. CASE RecvRegistered
  <2> DEFINE frame == Head(inbox)
  <2>1. CASE /\ CloseLink
             /\ Return("registration") \/ Return("panic")
             /\ UNCHANGED <<component_id, state>>
    <3>1. LinkTypeOK' /\ Identities'
      BY <1>17, <2>1, LinkType
    <3> QED
      BY <1>5, <2>1, <3>1, NoFrameType
      DEF RecvRegistered, Return, TypeInv, TypeOK, Dialled
  <2>2. CASE /\ frame.command = "REGISTERED"
             /\ frame.arg # NoKey
             /\ Receive(frame)
             /\ component_id' = AsStr(frame.arg)
             /\ state' = "REGISTERED"
             /\ pc' = "announce_initializing"
             /\ UNCHANGED <<cur, result>>
    <3>1. /\ LinkTypeOK' /\ Identities'
          /\ frame.arg \in ComponentIds \cup {NoKey, NotString}
      BY <1>17, <2>2, ReceiveType
    <3>2. component_id' \in ComponentIds \cup {NoId}
      BY <2>2, <3>1 DEF AsStr
    <3> QED
      BY <1>5, <2>2, <3>1, <3>2
      DEF RecvRegistered, TypeInv, TypeOK, Dialled, Sending, ComponentStates
  <2> QED
    BY <1>5, <2>1, <2>2 DEF RecvRegistered
<1>6. CASE AnnounceInitializing
  BY <1>6, UpdateType
  DEF AnnounceInitializing, TypeInv, TypeOK, Sending, ComponentStates
<1>7. CASE AnnounceReady
  BY <1>7, UpdateType
  DEF AnnounceReady, TypeInv, TypeOK, Receiving, ComponentStates
<1>8. CASE SendError \/ RecvEof \/ RecvUndecodable \/ ReadTimeout
  BY <1>8, FailType DEF SendError, RecvEof, RecvUndecodable, ReadTimeout, rustVars,
     Sending, Receiving, TypeInv, TypeOK
<1>9. CASE RecvMessage
  <2> DEFINE frame == Head(inbox)
  <2>1. Receive(frame)
    BY <1>9 DEF RecvMessage
  <2>2. LinkTypeOK' /\ Identities' /\ frame \in ServerFrames
    BY <1>17, <2>1, ReceiveType
  <2>3. /\ pc = "message_loop"
        /\ UNCHANGED <<state, component_id, attempts, delay, dials, result, workers>>
    BY <1>9 DEF RecvMessage
  <2>4. dials \in 1 .. MaxDials
    BY <1>18, <1>19, <2>3 DEF TypeInv, Dialled
  <2>5. \/ HandlePing(frame) \/ HandleConfigure(frame) \/ HandleReborn(frame)
        \/ HandleShutdown(frame) \/ HandleRecoverable(frame) \/ HandleIgnored(frame)
    BY <1>9 DEF RecvMessage
  <2> HIDE DEF frame
  <2>6. /\ pc' \in Sending \cup {"message_loop"}
        /\ cur' \in ServerFrames
        /\ cancelled' \subseteq 1 .. MaxDials
        /\ called' \subseteq Hooks
    <3>1. CASE HandlePing(frame) \/ HandleReborn(frame)
      BY <2>2, <3>1 DEF HandlePing, HandleReborn, TypeInv, TypeOK, Sending, Hooks
    <3>2. CASE HandleConfigure(frame)
      BY <2>2, <3>2 DEF HandleConfigure, TypeInv, TypeOK, Sending, Hooks
    <3>3. CASE HandleShutdown(frame)
      BY <2>2, <2>4, <3>3 DEF HandleShutdown, TypeInv, TypeOK, Sending
    <3>4. CASE HandleRecoverable(frame) \/ HandleIgnored(frame)
      BY <2>3, <3>4 DEF HandleRecoverable, HandleIgnored, TypeInv, TypeOK, Hooks
    <3> QED
      BY <2>5, <3>1, <3>2, <3>3, <3>4
  <2> QED
    BY <2>2, <2>3, <2>4, <2>6 DEF TypeInv, TypeOK, Dialled, Receiving
<1>10. CASE RecvFatal
  <2>1. called' \subseteq Hooks
    BY <1>10 DEF RecvFatal, TypeInv, TypeOK, Hooks
  <2> QED
    BY <1>10, <2>1, FailType DEF RecvFatal
<1>11. CASE SendPong
  BY <1>11, ReplyType DEF SendPong, Reply, ReplyCorr, TypeInv, TypeOK, Receiving,
     ServerFrames, Commands, Args
<1>12. CASE AckReborn \/ AckConfigure \/ AckShutdown
  BY <1>12, ReplyType DEF AckReborn, AckConfigure, AckShutdown, Reply, ReplyCorr,
     TypeInv, TypeOK, Sending, Receiving, ServerFrames, Commands, Args
<1>13. CASE ConfigureFailed
  BY <1>13, ReplyType DEF ConfigureFailed, Receiving, Commands, Args
<1>14. CASE AnnounceConfigured
  BY <1>14, UpdateType
  DEF AnnounceConfigured, TypeInv, TypeOK, Sending, ComponentStates
<1>15. CASE AnnounceRunning
  <2>1. workers' \in [1 .. MaxDials -> Nat]
    <3>1. workers \in [1 .. MaxDials -> Nat]
      BY DEF TypeInv, TypeOK
    <3>2. workers' = [workers EXCEPT ![dials] = @ + 1]
      BY <1>15 DEF AnnounceRunning
    <3>3. \A n \in 1 .. MaxDials : workers[n] \in Nat /\ workers[n] + 1 \in Nat
      BY <3>1
    <3> QED
      BY <3>1, <3>2, <3>3
  <2>2. called' \subseteq Hooks
    BY <1>15 DEF AnnounceRunning, TypeInv, TypeOK, Hooks
  <2> QED
    BY <1>15, <2>1, <2>2, UpdateType DEF AnnounceRunning, Receiving, ComponentStates
<1>16. CASE GracefulShutdown
  <2>1. LinkTypeOK' /\ Identities'
    BY <1>17, <1>16, LinkType DEF GracefulShutdown
  <2> QED
    BY <1>16, <2>1, NoFrameType
    DEF GracefulShutdown, Return, TypeInv, TypeOK, Dialled, Hooks, ComponentStates
<1> QED
  BY <1>1, <1>2, <1>3, <1>4, <1>5, <1>6, <1>7, <1>8, <1>9, <1>10, <1>11, <1>12,
     <1>13, <1>14, <1>15, <1>16 DEF RunStep

\* TypeInv is inductive.
LEMMA TypeInvariance == Spec => []TypeInv
<1>1. Init => TypeInv
  <2> SUFFICES ASSUME Init
               PROVE  TypeInv
    OBVIOUS
  <2>1. LinkTypeOK
    BY EmptyFacts DEF Init, LinkInit, LinkTypeOK
  <2>2. DOMAIN inbox = {} /\ DOMAIN sent = {}
    BY DEF Init, LinkInit
  <2>3. Identities
    BY <2>2 DEF Identities
  <2>4. cur \in ServerFrames
    BY NoFrameType DEF Init
  <2>5. workers \in [1 .. MaxDials -> Nat]
    BY DEF Init
  <2>6. dials \in 0 .. MaxDials /\ delay \in Nat /\ attempts \in Nat
    BY RustAssumption DEF Init
  <2> QED
    BY <2>1, <2>3, <2>4, <2>5, <2>6 DEF Init, TypeInv, TypeOK, Dialled, ComponentStates
<1>2. TypeInv /\ [Next]_vars => TypeInv'
  <2> SUFFICES ASSUME TypeInv, [Next]_vars
               PROVE  TypeInv'
    OBVIOUS
  <2>1. CASE RunStep
    BY <2>1, RunStepType
  <2>2. CASE ServerStep
    BY <2>2, ServerType DEF ServerStep, rustVars, TypeInv, TypeOK, Dialled
  <2>3. CASE UNCHANGED vars
    BY <2>3, LinkType DEF vars, rustVars, TypeInv, TypeOK, Dialled
  <2> QED
    BY <2>1, <2>2, <2>3 DEF Next
<1> QED
  BY <1>1, <1>2, PTL DEF Spec

\* Every variable of the Rust component keeps its type, in every instance.
THEOREM TypeCorrect == Spec => []TypeOK
<1>1. TypeInv => TypeOK
  BY DEF TypeInv
<1> QED
  BY <1>1, TypeInvariance, PTL

-----------------------------------------------------------------------------
(* The lifecycle contract *)

\* Where run() holds a connection.
Connected == (Sending \cup Receiving \cup {"graceful_shutdown"})

\* The states in which the component can be at each await of a connection.
StatesAt(at) ==
    IF at \in {"register", "await_registered"} THEN ComponentStates
    ELSE IF at = "announce_initializing" THEN {"REGISTERED"}
    ELSE IF at = "announce_ready" THEN {"INITIALIZING"}
    ELSE IF at = "announce_running" THEN {"CONFIGURED"}
    ELSE {"READY", "RUNNING"}

\* run() holds a connection exactly at these awaits, in one of these states.
LifecycleInv ==
    /\ link # "down" <=> pc \in Connected
    /\ pc \in Connected => state \in StatesAt(pc)

\* The pc after each step of run(), and what the step does to the state.
LEMMA LifecycleStep ==
    ASSUME TypeOK, LifecycleInv, RunStep
    PROVE  LifecycleInv' /\ [Contract!Next]_Phase
<1> USE DEF LifecycleInv, Connected
<1>1. CASE Connect
  <2>1. CASE OpenLink /\ pc' = "register"
    BY <1>1, <2>1
    DEF Connect, OpenLink, TypeOK, StatesAt, Sending, Receiving,
        Phase, Contract!Next, Contract!Advance, Contract!Advances
  <2>2. CASE pc' = "failed" /\ UNCHANGED linkVars
    BY <1>1, <2>2 DEF Connect, linkVars, Sending, Receiving, Phase
  <2> QED
    BY <1>1, <2>1, <2>2 DEF Connect
<1>2. CASE Reconnecting
  <2>1. UNCHANGED link /\ link = "down" /\ pc = "failed"
    BY <1>2 DEF Reconnecting, linkVars, Sending, Receiving
  <2>2. pc' \in {"done", "sleep"}
    BY <1>2 DEF Reconnecting, Return
  <2> QED
    BY <2>1, <2>2 DEF Sending, Receiving, Phase, Contract!Next, Contract!Stop
<1>3. CASE WakeUp
  BY <1>3 DEF WakeUp, linkVars, Sending, Receiving, Phase
<1>4. CASE Fail /\ pc \in Connected
  <2>1. link' = "down" /\ pc' = "failed" /\ link # "down" /\ pc # "done"
    BY <1>4 DEF Fail, CloseLink, Sending, Receiving
  <2>2. Phase' = "offline"
    BY <2>1 DEF Phase
  <2>3. Phase \notin {"offline", "stopped"}
    BY <2>1 DEF Phase, TypeOK, ComponentStates
  <2>4. LifecycleInv'
    BY <2>1 DEF Sending, Receiving
  <2> QED
    BY <2>2, <2>3, <2>4 DEF Contract!Next, Contract!Drop
<1>5. CASE CloseLink /\ pc' = "done" /\ pc \in Connected
  <2>1. link' = "down" /\ pc # "done"
    BY <1>5 DEF CloseLink, Sending, Receiving
  <2>2. Phase' = "stopped"
    BY <1>5 DEF Phase
  <2>3. Phase # "stopped"
    BY <2>1 DEF Phase, TypeOK, ComponentStates
  <2>4. LifecycleInv'
    BY <1>5, <2>1 DEF Sending, Receiving
  <2> QED
    BY <2>2, <2>3, <2>4 DEF Contract!Next, Contract!Stop
<1>6. CASE SendRegister
  <2>1. UNCHANGED <<link, state>> /\ pc = "register" /\ pc' = "await_registered"
    BY <1>6 DEF SendRegister, Send, rustVars
  <2> QED
    BY <2>1 DEF StatesAt, Sending, Receiving, Phase
<1>7. CASE /\ pc = "await_registered" /\ pc' = "announce_initializing"
           /\ state' = "REGISTERED" /\ UNCHANGED link
  BY <1>7 DEF StatesAt, Sending, Receiving, Phase, Contract!Next, Contract!Advance,
     Contract!Advances
<1>8. ASSUME NEW new_state, NEW next,
             SendStateUpdate(new_state, next), pc \in Connected, next \in Connected,
             pc \notin {"register", "await_registered"},
             next \notin {"register", "await_registered"},
             new_state \in StatesAt(next),
             \A old \in StatesAt(pc) : <<old, new_state>> \in Contract!Advances
      PROVE  LifecycleInv' /\ [Contract!Next]_Phase
  <2>1. UNCHANGED link /\ pc' = next /\ state' = new_state /\ link # "down"
    BY <1>8 DEF SendStateUpdate, Send
  <2>2. LifecycleInv'
    BY <1>8, <2>1
  <2>3. Phase = state /\ Phase' = new_state
    BY <1>8, <2>1 DEF Phase, Sending, Receiving
  <2>4. <<state, new_state>> \in Contract!Advances
    BY <1>8
  <2> QED
    BY <2>2, <2>3, <2>4 DEF Contract!Next, Contract!Advance
<1>9. CASE AnnounceInitializing
  BY <1>8, <1>9 DEF AnnounceInitializing, StatesAt, Sending, Receiving, Contract!Advances
<1>10. CASE AnnounceReady
  BY <1>8, <1>10 DEF AnnounceReady, StatesAt, Sending, Receiving, Contract!Advances
<1>11. CASE AnnounceConfigured
  BY <1>8, <1>11 DEF AnnounceConfigured, StatesAt, Sending, Receiving, Contract!Advances
<1>12. CASE AnnounceRunning
  BY <1>8, <1>12 DEF AnnounceRunning, StatesAt, Sending, Receiving, Contract!Advances
<1>13. CASE /\ UNCHANGED <<link, state>>
            /\ pc \in Connected /\ pc' \in Connected
            /\ StatesAt(pc) = {"READY", "RUNNING"}
            /\ StatesAt(pc') = {"READY", "RUNNING"}
            /\ pc \notin {"register", "await_registered"}
            /\ pc' \notin {"register", "await_registered"}
  BY <1>13 DEF Phase, Sending, Receiving
<1>14. CASE RecvMessage
  <2>1. UNCHANGED <<link, state>> /\ pc = "message_loop"
    BY <1>14 DEF RecvMessage, Receive
  <2>2. pc' \in {"pong", "ack_configure", "configure_failed", "ack_reborn",
                 "ack_shutdown", "message_loop"}
    BY <1>14 DEF RecvMessage, HandlePing, HandleConfigure, HandleReborn,
       HandleShutdown, HandleRecoverable, HandleIgnored
  <2> QED
    BY <1>13, <2>1, <2>2 DEF StatesAt, Sending, Receiving
<1>15. CASE SendPong \/ AckReborn \/ AckConfigure \/ AckShutdown \/ ConfigureFailed
  <2>1. UNCHANGED <<link, state>>
    BY <1>15 DEF SendPong, AckReborn, AckConfigure, AckShutdown, ConfigureFailed,
       Reply, Send, rustVars
  <2>2. /\ pc \in {"pong", "ack_configure", "configure_failed", "ack_reborn",
                   "ack_shutdown"}
        /\ pc' \in {"message_loop", "announce_configured", "graceful_shutdown"}
    BY <1>15 DEF SendPong, AckReborn, AckConfigure, AckShutdown, ConfigureFailed,
       Reply, Send
  <2> QED
    BY <1>13, <2>1, <2>2 DEF StatesAt, Sending, Receiving
<1>16. CASE SendError \/ RecvEof \/ RecvUndecodable \/ ReadTimeout \/ RecvFatal
  BY <1>4, <1>16 DEF SendError, RecvEof, RecvUndecodable, ReadTimeout, RecvFatal,
     Receiving
<1>17. CASE RecvRegistered
  <2>1. CASE CloseLink /\ pc' = "done"
    BY <1>5, <1>17, <2>1 DEF RecvRegistered, Receiving
  <2>2. CASE /\ Receive(Head(inbox))
             /\ state' = "REGISTERED"
             /\ pc' = "announce_initializing"
    BY <1>7, <1>17, <2>2 DEF RecvRegistered, Receive
  <2> QED
    BY <1>17, <2>1, <2>2 DEF RecvRegistered, Return
<1>18. CASE GracefulShutdown
  BY <1>5, <1>18 DEF GracefulShutdown, Return
<1> QED
  BY <1>1, <1>2, <1>3, <1>6, <1>9, <1>10, <1>11, <1>12, <1>14, <1>15, <1>16, <1>17,
     <1>18 DEF RunStep

\* The Rust component implements the lifecycle contract: on every connection it
\* announces its states in order and it never comes back once run() returned.
THEOREM ImplementsContract == Spec => ContractSpec
<1>1. Init => LifecycleInv /\ Contract!Init
  BY DEF Init, LinkInit, LifecycleInv, Connected, Sending, Receiving, Phase,
     Contract!Init
<1>2. TypeInv /\ LifecycleInv /\ [Next]_vars => LifecycleInv' /\ [Contract!Next]_Phase
  <2> SUFFICES ASSUME TypeInv, LifecycleInv, [Next]_vars
               PROVE  LifecycleInv' /\ [Contract!Next]_Phase
    OBVIOUS
  <2>1. CASE RunStep
    BY <2>1, LifecycleStep DEF TypeInv
  <2>2. CASE ServerStep
    BY <2>2, ServerEffect DEF ServerStep, rustVars, LifecycleInv, Phase, TypeInv, TypeOK
  <2>3. CASE UNCHANGED vars
    BY <2>3 DEF vars, linkVars, rustVars, LifecycleInv, Phase
  <2> QED
    BY <2>1, <2>2, <2>3 DEF Next
<1> QED
  BY TypeInvariance, <1>1, <1>2, PTL DEF Spec, ContractSpec, Contract!Spec

-----------------------------------------------------------------------------
(* The reconnection budget *)

\* How often run() slept: it does between two calls of run_once().
Sleeps == IF pc = "connect" THEN dials ELSE dials - 1

\* While run() runs, `attempts' counts the calls of run_once() that failed, the
\* budget is not used up, and `delay' is the one for that many sleeps.
BudgetInv ==
    /\ ReconnectBudget
    /\ pc # "done" => delay = DelayAfter(Sleeps, ReconnectDelay, MaxReconnectDelay)
    /\ pc \in Connected \cup {"failed"} => dials = attempts + 1
    /\ pc \in {"connect", "sleep"} => dials = attempts
    /\ pc = "sleep" => dials # 0
    /\ pc # "done" => /\ result = "none"
                      /\ MaxReconnectAttempts > 0 => attempts < MaxReconnectAttempts
                      /\ ~Reconnect => attempts = 0

\* Steps within one call of run_once() that do not return from run().
LEMMA SessionBudget ==
    ASSUME BudgetInv, UNCHANGED <<attempts, delay, dials, result>>,
           pc \in Connected, pc' \in Connected \cup {"failed"}
    PROVE  BudgetInv'
  BY DEF BudgetInv, ReconnectBudget, Sleeps, Connected, Sending, Receiving

\* The return from run_once() with Ok, or with an error that is final.
LEMMA ReturnBudget ==
    ASSUME BudgetInv, UNCHANGED <<attempts, dials>>, pc' = "done",
           result' \in {"ok", "registration", "panic"}
    PROVE  BudgetInv'
  BY DEF BudgetInv, ReconnectBudget, Connected, Sending, Receiving

\* What run() does keeps the budget.
LEMMA BudgetStep ==
    ASSUME TypeOK, BudgetInv, RunStep
    PROVE  BudgetInv'
<1>1. CASE Connect
  <2>1. /\ pc = "connect" /\ pc' \in {"register", "failed"}
        /\ dials' = dials + 1 /\ UNCHANGED <<attempts, delay, result>>
    BY <1>1 DEF Connect
  <2>2. dials = attempts /\ attempts \in Nat
    BY <2>1 DEF BudgetInv, TypeOK
  <2>3. /\ result = "none"
        /\ MaxReconnectAttempts > 0 => attempts < MaxReconnectAttempts
        /\ ~Reconnect => attempts = 0
    <3>1. pc # "done"
      BY <2>1
    <3> QED
      BY <3>1 DEF BudgetInv
  <2>4. dials' = attempts' + 1 /\ attempts' = attempts /\ result' = "none"
    BY <2>1, <2>2, <2>3
  <2>5. ReconnectBudget'
    BY <2>1, <2>2, <2>3, <2>4, RustAssumption DEF ReconnectBudget
  <2>6. Sleeps' = Sleeps
    BY <2>1, <2>2 DEF Sleeps
  <2> QED
    BY <2>1, <2>3, <2>4, <2>5, <2>6 DEF BudgetInv
<1>2. CASE Reconnecting
  <2>1. pc = "failed" /\ UNCHANGED dials /\ attempts \in Nat
    BY <1>2 DEF Reconnecting, TypeOK
  <2>2. CASE ~Reconnect /\ Return("reconnect_disabled") /\ UNCHANGED attempts
    BY <2>1, <2>2 DEF Return, BudgetInv, ReconnectBudget, Connected, Sending, Receiving
  <2>3. CASE /\ Reconnect /\ attempts' = attempts + 1
             /\ AttemptsExhausted(attempts + 1)
             /\ Return("max_reconnect_attempts")
    <3>1. pc # "done" /\ pc \in Connected \cup {"failed"}
      BY <2>1
    <3>2. dials = attempts + 1
      BY <3>1 DEF BudgetInv
    <3>3. MaxReconnectAttempts > 0 => attempts < MaxReconnectAttempts
      BY <3>1 DEF BudgetInv
    <3>4. MaxReconnectAttempts > 0 /\ attempts + 1 >= MaxReconnectAttempts
      BY <2>3 DEF AttemptsExhausted
    <3>5. MaxReconnectAttempts \in Nat /\ attempts \in Nat /\ dials' = dials
      BY <2>1, RustAssumption
    <3>6. dials' = MaxReconnectAttempts
      BY <3>2, <3>3, <3>4, <3>5
    <3>7. pc' = "done" /\ result' = "max_reconnect_attempts"
      BY <2>3 DEF Return
    <3>8. dials' <= MaxReconnectAttempts
      BY <3>6, <3>5
    <3>9. ReconnectBudget'
      BY <2>3, <3>6, <3>7, <3>8 DEF ReconnectBudget
    <3> QED
      BY <3>7, <3>9 DEF BudgetInv, Connected, Sending, Receiving
  <2>4. CASE /\ Reconnect /\ attempts' = attempts + 1
             /\ ~AttemptsExhausted(attempts + 1)
             /\ pc' = "sleep" /\ UNCHANGED result
    <3>1. UNCHANGED delay
      BY <1>2 DEF Reconnecting
    <3> QED
      BY <2>1, <2>4, <3>1, RustAssumption DEF AttemptsExhausted, BudgetInv,
         ReconnectBudget, Sleeps, Connected, Sending, Receiving
  <2> QED
    BY <1>2, <2>2, <2>3, <2>4 DEF Reconnecting
<1>3. CASE WakeUp
  <2>1. /\ pc = "sleep" /\ pc' = "connect" /\ delay' = NextDelay(delay)
        /\ UNCHANGED <<attempts, dials, result>>
    BY <1>3 DEF WakeUp
  <2>2. /\ attempts \in Nat /\ dials = attempts
        /\ delay = DelayAfter(dials - 1, ReconnectDelay, MaxReconnectDelay)
    BY <2>1 DEF TypeOK, BudgetInv, Sleeps
  <2>3. dials \in Nat /\ dials # 0
    BY <2>1, <2>2 DEF BudgetInv
  <2>4. dials - 1 \in Nat /\ (dials - 1) + 1 = dials
    BY <2>3
  <2>5. delay' = DelayAfter(dials, ReconnectDelay, MaxReconnectDelay)
    <3>1. \A n \in Nat : DelayAfter(n + 1, ReconnectDelay, MaxReconnectDelay) =
            NextDelay(DelayAfter(n, ReconnectDelay, MaxReconnectDelay))
      BY NextDelayAfter, RustAssumption DEF NextDelay
    <3> QED
      BY <2>1, <2>2, <2>4, <3>1
  <2> QED
    BY <2>1, <2>2, <2>5 DEF BudgetInv, ReconnectBudget, Sleeps, Connected, Sending, Receiving
<1>4. CASE SendError \/ RecvEof \/ RecvUndecodable \/ ReadTimeout \/ RecvFatal
  BY <1>4, SessionBudget DEF SendError, RecvEof, RecvUndecodable, ReadTimeout,
     RecvFatal, Fail, rustVars, Connected, Receiving
<1>5. CASE RecvRegistered
  BY <1>5, SessionBudget, ReturnBudget DEF RecvRegistered, Return, Connected, Sending,
     Receiving
<1>6. CASE GracefulShutdown
  BY <1>6, ReturnBudget DEF GracefulShutdown, Return
<1>7. CASE SendRegister \/ SendPong \/ AckReborn \/ AckConfigure \/ AckShutdown
           \/ ConfigureFailed
  <2>1. UNCHANGED <<attempts, delay, dials, result>>
    BY <1>7 DEF SendRegister, SendPong, AckReborn, AckConfigure, AckShutdown,
       ConfigureFailed, Reply, rustVars
  <2>2. pc \in Connected /\ pc' \in Connected
    BY <1>7 DEF SendRegister, SendPong, AckReborn, AckConfigure, AckShutdown,
       ConfigureFailed, Reply, Send, Connected, Sending, Receiving
  <2> QED
    BY <2>1, <2>2, SessionBudget
<1>8. CASE AnnounceInitializing \/ AnnounceReady \/ AnnounceConfigured \/ AnnounceRunning
  <2>1. UNCHANGED <<attempts, delay, dials, result>>
    BY <1>8 DEF AnnounceInitializing, AnnounceReady, AnnounceConfigured,
       AnnounceRunning, SendStateUpdate
  <2>2. pc \in Connected /\ pc' \in Connected
    BY <1>8 DEF AnnounceInitializing, AnnounceReady, AnnounceConfigured,
       AnnounceRunning, SendStateUpdate, Send, Connected, Sending, Receiving
  <2> QED
    BY <2>1, <2>2, SessionBudget
<1>9. CASE RecvMessage
  <2>1. UNCHANGED <<attempts, delay, dials, result>> /\ pc = "message_loop"
    BY <1>9 DEF RecvMessage
  <2>2. pc' \in {"pong", "ack_configure", "configure_failed", "ack_reborn",
                 "ack_shutdown", "message_loop"}
    BY <1>9 DEF RecvMessage, HandlePing, HandleConfigure, HandleReborn,
       HandleShutdown, HandleRecoverable, HandleIgnored
  <2> QED
    BY <2>1, <2>2, SessionBudget DEF Connected, Sending, Receiving
<1> QED
  BY <1>1, <1>2, <1>3, <1>4, <1>5, <1>6, <1>7, <1>8, <1>9 DEF RunStep

\* run() calls run_once() as often as the configuration allows, and gives up for
\* lack of attempts only after having used all of them.
THEOREM ReconnectBudgetHolds == Spec => []ReconnectBudget
<1>1. Init => BudgetInv
  BY NextDelayAfter, RustAssumption DEF Init, BudgetInv, ReconnectBudget, Sleeps,
     Connected, Sending, Receiving
<1>2. TypeInv /\ BudgetInv /\ [Next]_vars => BudgetInv'
  <2> SUFFICES ASSUME TypeInv, BudgetInv, [Next]_vars
               PROVE  BudgetInv'
    OBVIOUS
  <2>1. CASE RunStep
    BY <2>1, BudgetStep DEF TypeInv
  <2>2. CASE ServerStep \/ UNCHANGED vars
    BY <2>2 DEF ServerStep, vars, rustVars, BudgetInv, ReconnectBudget, Sleeps
  <2> QED
    BY <2>1, <2>2 DEF Next
<1>3. BudgetInv => ReconnectBudget
  BY DEF BudgetInv
<1> QED
  BY TypeInvariance, <1>1, <1>2, <1>3, PTL DEF Spec

-----------------------------------------------------------------------------
(* Identity *)

\* While a component that was assigned an id registers again, every REGISTER of the
\* connection names this id, and no REGISTERED on its way assigns another one.
IdentityInv ==
    pc \in {"register", "await_registered"} /\ component_id # NoId =>
        /\ \A i \in DOMAIN sent :
              sent[i].command = "REGISTER" => sent[i].arg = component_id
        /\ \A i \in DOMAIN inbox : inbox[i].command = "REGISTERED" =>
              inbox[i].arg \in {component_id, NoKey, NotString}

\* aegisd answers REGISTER with the id that it names.
LEMMA ServerIdentity ==
    ASSUME TypeOK, IdentityInv, ServerStep
    PROVE  IdentityInv'
<1>1. UNCHANGED <<pc, component_id, sent>>
  BY ServerEffect DEF ServerStep, rustVars, TypeOK
<1>2. CASE UNCHANGED <<inbox, asked>>
  BY <1>1, <1>2 DEF IdentityInv
<1>3. ASSUME NEW frame \in ServerFrames, Put(frame)
      PROVE  IdentityInv'
  <2> SUFFICES ASSUME pc \in {"register", "await_registered"}, component_id # NoId,
                      NEW i \in DOMAIN inbox', inbox'[i].command = "REGISTERED"
               PROVE  inbox'[i].arg \in {component_id, NoKey, NotString}
    BY <1>1 DEF IdentityInv
  <2>1. LinkTypeOK
    BY DEF TypeOK
  <2>2. \/ i \in DOMAIN inbox /\ inbox'[i] = inbox[i]
        \/ inbox'[i] = frame
    BY <1>3, <2>1, PutFacts
  <2>3. CASE i \in DOMAIN inbox /\ inbox'[i] = inbox[i]
    BY <2>3 DEF IdentityInv
  <2>4. CASE inbox'[i] = frame
    BY <1>3, <2>4 DEF Put, Offered, IdentityInv
  <2> QED
    BY <2>2, <2>3, <2>4
<1> QED
  BY <1>2, <1>3, ServerEffect DEF ServerStep, TypeOK

\* register() sends the id that it stored last.
LEMMA RunStepIdentity ==
    ASSUME TypeOK, IdentityInv, RunStep
    PROVE  IdentityInv'
<1>1. CASE Connect
  <2>1. CASE OpenLink
    <3>1. DOMAIN sent' = {} /\ DOMAIN inbox' = {}
      BY <2>1, EmptyFacts DEF OpenLink
    <3> QED
      BY <3>1 DEF IdentityInv
  <2>2. CASE pc' = "failed"
    BY <2>2 DEF IdentityInv
  <2> QED
    BY <1>1, <2>1, <2>2 DEF Connect
<1>2. CASE SendRegister
  <2> DEFINE frame == Envelope("REGISTER", 0, RegisterId)
  <2>1. RegisterId \in Args
    BY RustAssumption DEF RegisterId, TypeOK, Args
  <2>2. /\ frame \in ComponentFrames
        /\ component_id # NoId => frame.arg = component_id
    BY <2>1, FrameTypes DEF Commands, RegisterId
  <2>3. pc = "register" /\ UNCHANGED <<component_id, inbox>> /\ sent' = Append(sent, frame)
    BY <1>2 DEF SendRegister, Send, rustVars
  <2> HIDE DEF frame
  <2>4. \A i \in DOMAIN sent' : \/ i \in DOMAIN sent /\ sent'[i] = sent[i]
                                \/ sent'[i] = frame
    BY <2>2, <2>3, SentFacts DEF TypeOK
  <2> QED
    BY <2>2, <2>3, <2>4 DEF IdentityInv
<1>3. CASE RunStep /\ ~Connect /\ ~SendRegister
  <2>1. pc' \notin {"register", "await_registered"}
    BY <1>3 DEF RunStep, Reconnecting, WakeUp, RecvRegistered, AnnounceInitializing,
       AnnounceReady, SendError, RecvEof, RecvUndecodable, RecvMessage, RecvFatal,
       ReadTimeout, SendPong, AckReborn, ConfigureFailed, AckConfigure,
       AnnounceConfigured, AnnounceRunning, AckShutdown, GracefulShutdown, Reply, Send,
       SendStateUpdate, Fail, Return, HandlePing, HandleConfigure, HandleReborn,
       HandleShutdown, HandleRecoverable, HandleIgnored
  <2> QED
    BY <2>1 DEF IdentityInv
<1> QED
  BY <1>1, <1>2, <1>3

\* IdentityInv holds initially and is kept by every step.
LEMMA IdentityInvariance == Spec => []IdentityInv
<1>1. Init => IdentityInv
  BY DEF Init, IdentityInv
<1>2. TypeInv /\ IdentityInv /\ [Next]_vars => IdentityInv'
  <2> SUFFICES ASSUME TypeInv, IdentityInv, [Next]_vars
               PROVE  IdentityInv'
    OBVIOUS
  <2>1. CASE RunStep
    BY <2>1, RunStepIdentity DEF TypeInv
  <2>2. CASE ServerStep
    BY <2>2, ServerIdentity DEF TypeInv
  <2>3. CASE UNCHANGED vars
    BY <2>3 DEF vars, linkVars, rustVars, IdentityInv
  <2> QED
    BY <2>1, <2>2, <2>3 DEF Next
<1> QED
  BY TypeInvariance, <1>1, <1>2, PTL DEF Spec

\* register(): across all reconnects the component keeps the id that aegisd assigned,
\* unless aegisd answers with something that is no id.
THEOREM OneIdentityHolds == Spec => OneIdentity
<1>1. TypeInv /\ IdentityInv /\ [Next]_vars =>
        [component_id # NoId /\ component_id' # component_id
           => Head(inbox).arg = NotString]_vars
  <2> SUFFICES ASSUME TypeInv, IdentityInv, Next,
                      component_id # NoId, component_id' # component_id
               PROVE  Head(inbox).arg = NotString
    OBVIOUS
  <2>1. RecvRegistered
    BY DEF Next, ServerStep, RunStep, Connect, Reconnecting, WakeUp, SendRegister,
       AnnounceInitializing, AnnounceReady, SendError, RecvEof, RecvUndecodable,
       RecvMessage, RecvFatal, ReadTimeout, SendPong, AckReborn, ConfigureFailed,
       AckConfigure, AnnounceConfigured, AnnounceRunning, AckShutdown,
       GracefulShutdown, Reply, SendStateUpdate, rustVars
  <2>2. /\ pc = "await_registered" /\ inbox # <<>>
        /\ Head(inbox).command = "REGISTERED" /\ Head(inbox).arg # NoKey
        /\ component_id' = AsStr(Head(inbox).arg)
    BY <2>1 DEF RecvRegistered
  <2>3. 1 \in DOMAIN inbox /\ Head(inbox) = inbox[1]
    BY <2>2, TailFacts DEF TypeInv, TypeOK, LinkTypeOK
  <2>4. Head(inbox).arg \in {component_id, NotString}
    BY <2>2, <2>3 DEF IdentityInv
  <2> QED
    BY <2>2, <2>4 DEF AsStr
<1> QED
  BY <1>1, TypeInvariance, IdentityInvariance, PTL DEF Spec, OneIdentity

-----------------------------------------------------------------------------
(* Replies *)

\* RepliesMatch alone is not inductive: the next reply takes its correlation id from
\* `cur', which was taken from `inbox'.  ReplyInv follows a request on this way: the
\* ids already answered, the one being handled and those still on their way are in
\* this order, without overlap.

\* The awaits at which an envelope is being handled.
Busy == {"pong", "ack_configure", "configure_failed", "ack_reborn", "ack_shutdown"}

\* The command of the envelope that is handled there.
Wanted(at) ==
    IF at = "pong" THEN "PING"
    ELSE IF at \in {"ack_configure", "configure_failed"} THEN "CONFIGURE"
    ELSE IF at = "ack_reborn" THEN "REBORN"
    ELSE "SHUTDOWN"

\* The envelope being handled is a request in hand, of the command that its handler is
\* for; elsewhere there is none.
Handling ==
    IF pc \in Busy
    THEN /\ InHand(cur.id)
         /\ asked[cur.id] = cur.command
         /\ cur.command = Wanted(pc)
    ELSE cur = NoFrame

ReplyInv == QueueInv /\ Handling

\* A frame that the component sends keeps ReplyInv if it carries no correlation
\* id or answers the request being handled, and if the handling ends with it.
LEMMA SendReplies ==
    ASSUME TypeOK, ReplyInv, NEW command \in Commands, NEW corr \in Nat,
           NEW arg \in Args, NEW next, next \notin Busy,
           \/ corr = 0
           \/ pc \in Busy /\ corr = cur.id /\ command = ReplyTo(cur.command),
           Send(Envelope(command, corr, arg), next), cur' = NoFrame
    PROVE  ReplyInv'
<1> DEFINE frame == Envelope(command, corr, arg)
<1>1. frame \in ComponentFrames /\ frame.corr = corr /\ frame.command = command
  BY FrameTypes
<1>2. sent' = Append(sent, frame) /\ UNCHANGED <<inbox, asked>> /\ pc' = next
  BY DEF Send, srvVars
<1> HIDE DEF frame
<1>3. LinkTypeOK /\ Taken(0) /\ 0 \in Nat
  BY <1>2, TakenFacts DEF TypeOK
<1>4. MayAnswer(frame)
  BY <1>1 DEF MayAnswer, ReplyInv, Handling
<1>5. QueueInv'
  BY <1>1, <1>2, <1>3, <1>4, ClientQueue DEF ReplyInv
<1> QED
  BY <1>2, <1>5 DEF ReplyInv, Handling

\* An envelope that the component receives keeps ReplyInv if its handling starts
\* at the await that its command calls for, or does not take any.
LEMMA ReceiveReplies ==
    ASSUME TypeOK, ReplyInv, NEW frame, Receive(frame),
           IF pc' \in Busy
           THEN cur' = frame /\ frame.command \in Requests /\ frame.command = Wanted(pc')
           ELSE cur' = NoFrame
    PROVE  ReplyInv'
<1>1. /\ inbox # <<>> /\ inbox' = Tail(inbox) /\ frame = Head(inbox)
      /\ UNCHANGED <<sent, asked>>
  BY DEF Receive, srvVars
<1>2. LinkTypeOK /\ Taken(1)
  BY <1>1, TakenFacts DEF TypeOK
<1> 1 \in Nat /\ 1 \in Nat \ {0}
  OBVIOUS
<1>3. QueueInv'
  BY <1>1, <1>2, ClientQueue DEF ReplyInv
<1>4. CASE pc' \in Busy
  <2>1. /\ InHand(frame.id)'
        /\ asked[frame.id] = frame.command
    BY <1>1, <1>2, <1>4, HeadInHand DEF ReplyInv
  <2> QED
    BY <1>1, <1>3, <1>4, <2>1 DEF ReplyInv, Handling, InHand
<1>5. CASE pc' \notin Busy
  BY <1>3, <1>5 DEF ReplyInv, Handling
<1> QED
  BY <1>4, <1>5

\* So does a step that opens or closes the connection or leaves it alone, and
\* after which no envelope is being handled.
LEMMA LinkReplies ==
    ASSUME ReplyInv, pc' \notin Busy, cur' = NoFrame,
           OpenLink \/ CloseLink \/ UNCHANGED <<linkVars, srvVars>>
    PROVE  ReplyInv'
  BY LinkQueue DEF ReplyInv, Handling

\* What aegisd does keeps ReplyInv.
LEMMA ServerReplies ==
    ASSUME TypeOK, ReplyInv, SrvNext, UNCHANGED <<pc, cur>>
    PROVE  ReplyInv'
<1>1. /\ QueueInv'
      /\ \A r : InHand(r) => InHand(r)'
      /\ \A r \in DOMAIN asked : asked'[r] = asked[r]
  BY ServerQueue DEF TypeOK, ReplyInv
<1>2. CASE pc \in Busy
  <2>1. InHand(cur.id) /\ asked[cur.id] = cur.command /\ cur.command = Wanted(pc)
    BY <1>2 DEF ReplyInv, Handling
  <2>2. InHand(cur.id)'
    BY <1>1, <2>1 DEF InHand
  <2>3. asked'[cur.id] = cur.command
    BY <1>1, <2>1 DEF InHand
  <2> QED
    BY <1>1, <1>2, <2>1, <2>2, <2>3 DEF ReplyInv, Handling
<1>3. CASE pc \notin Busy
  BY <1>1, <1>3 DEF ReplyInv, Handling
<1> QED
  BY <1>2, <1>3

\* The handler that an envelope starts is the one for its command.
LEMMA Dispatch ==
    ASSUME TypeOK, ReplyInv, RecvMessage
    PROVE  /\ Receive(Head(inbox))
           /\ IF pc' \in Busy
              THEN /\ cur' = Head(inbox)
                   /\ Head(inbox).command \in Requests
                   /\ Head(inbox).command = Wanted(pc')
              ELSE cur' = NoFrame
<1> DEFINE frame == Head(inbox)
<1>1. Receive(frame) /\ pc = "message_loop"
  BY DEF RecvMessage
<1>2. \/ HandlePing(frame) \/ HandleConfigure(frame) \/ HandleReborn(frame)
      \/ HandleShutdown(frame) \/ HandleRecoverable(frame) \/ HandleIgnored(frame)
  BY DEF RecvMessage
<1> HIDE DEF frame
<1>3. cur = NoFrame
  BY <1>1 DEF ReplyInv, Handling, Busy
<1>4. IF pc' \in Busy
      THEN cur' = frame /\ frame.command \in Requests /\ frame.command = Wanted(pc')
      ELSE cur' = NoFrame
  BY <1>1, <1>2, <1>3 DEF HandlePing, HandleConfigure, HandleReborn, HandleShutdown,
     HandleRecoverable, HandleIgnored, Busy, Wanted, Requests
<1> QED
  BY <1>1, <1>4 DEF frame

\* What run() does keeps ReplyInv.
LEMMA RunStepReplies ==
    ASSUME TypeOK, ReplyInv, RunStep
    PROVE  ReplyInv'
<1>1. CASE Connect \/ Reconnecting \/ WakeUp \/ SendError \/ RecvEof
           \/ RecvUndecodable \/ ReadTimeout \/ RecvFatal \/ GracefulShutdown
  <2>1. pc' \notin Busy /\ cur' = NoFrame
    BY <1>1 DEF Connect, Reconnecting, WakeUp, SendError, RecvEof, RecvUndecodable,
       ReadTimeout, RecvFatal, GracefulShutdown, Fail, Return, Busy, ReplyInv, Handling
  <2>2. OpenLink \/ CloseLink \/ UNCHANGED <<linkVars, srvVars>>
    BY <1>1 DEF Connect, Reconnecting, WakeUp, SendError, RecvEof, RecvUndecodable,
       ReadTimeout, RecvFatal, GracefulShutdown, Fail
  <2> QED
    BY <2>1, <2>2, LinkReplies
<1>2. CASE SendRegister
  <2>1. RegisterId \in Args
    BY RustAssumption DEF RegisterId, TypeOK, Args
  <2>2. cur' = NoFrame
    BY <1>2 DEF SendRegister, ReplyInv, Handling, Busy
  <2> QED
    BY <1>2, <2>1, <2>2, SendReplies DEF SendRegister, Commands, Busy
<1>3. CASE AnnounceInitializing \/ AnnounceReady \/ AnnounceConfigured \/ AnnounceRunning
  <2>1. PICK new_state \in ComponentStates, next \in Sending \cup Receiving :
          SendStateUpdate(new_state, next) /\ next \notin Busy
    BY <1>3 DEF AnnounceInitializing, AnnounceReady, AnnounceConfigured,
       AnnounceRunning, ComponentStates, Sending, Receiving, Busy
  <2>2. cur' = NoFrame
    BY <1>3 DEF AnnounceInitializing, AnnounceReady, AnnounceConfigured,
       AnnounceRunning, SendStateUpdate, ReplyInv, Handling, Busy
  <2> QED
    BY <2>1, <2>2, SendReplies DEF SendStateUpdate, Commands, Args
<1>4. CASE RecvRegistered
  <2>1. pc' \notin Busy /\ cur' = NoFrame
    BY <1>4 DEF RecvRegistered, Return, Busy, ReplyInv, Handling
  <2>2. CloseLink \/ Receive(Head(inbox))
    BY <1>4 DEF RecvRegistered
  <2> QED
    BY <2>1, <2>2, LinkReplies, ReceiveReplies
<1>5. CASE RecvMessage
  BY <1>5, Dispatch, ReceiveReplies
<1>6. CASE SendPong \/ AckReborn \/ AckConfigure \/ AckShutdown
  <2>1. PICK command \in {"PONG", "ACK"}, arg \in Args,
             next \in {"message_loop", "announce_configured", "graceful_shutdown"} :
          /\ Reply(command, arg, next)
          /\ pc \in Busy
          /\ command = ReplyTo(Wanted(pc))
    <3>1. state \in Args /\ NoId \in Args
      BY DEF TypeOK, Args
    <3> QED
      BY <1>6, <3>1 DEF SendPong, AckReborn, AckConfigure, AckShutdown, Busy, Wanted,
         ReplyTo
  <2>2. command = ReplyTo(cur.command)
    BY <2>1 DEF ReplyInv, Handling
  <2>3. cur.id \in Nat
    BY DEF TypeOK, ServerFrames
  <2> QED
    BY <2>1, <2>2, <2>3, SendReplies DEF Reply, ReplyCorr, Commands, Busy
<1>7. CASE ConfigureFailed
  BY <1>7, SendReplies DEF ConfigureFailed, Commands, Args, Busy
<1> QED
  BY <1>1, <1>2, <1>3, <1>4, <1>5, <1>6, <1>7 DEF RunStep

\* ReplyInv holds initially and is kept by every step.
LEMMA ReplyInvariance == Spec => []ReplyInv
<1>1. Init => ReplyInv
  <2> SUFFICES ASSUME Init
               PROVE  ReplyInv
    OBVIOUS
  <2>1. DOMAIN sent = {} /\ DOMAIN inbox = {}
    BY EmptyFacts DEF Init, LinkInit
  <2>2. pc \notin Busy /\ cur = NoFrame
    BY DEF Init, Busy
  <2> QED
    BY <2>1, <2>2 DEF ReplyInv, QueueInv, RepliesMatch, Numbered, Ahead, Handling
<1>2. TypeInv /\ ReplyInv /\ [Next]_vars => ReplyInv'
  <2> SUFFICES ASSUME TypeInv, ReplyInv, [Next]_vars
               PROVE  ReplyInv'
    OBVIOUS
  <2>1. CASE RunStep
    BY <2>1, RunStepReplies DEF TypeInv
  <2>2. CASE ServerStep
    BY <2>2, ServerReplies DEF ServerStep, TypeInv
  <2>3. CASE UNCHANGED vars
    <3>1. UNCHANGED <<pc, cur, sent, inbox, asked>> /\ UNCHANGED <<linkVars, srvVars>>
      BY <2>3 DEF vars, linkVars, srvVars
    <3>2. QueueInv'
      BY <3>1, LinkQueue DEF ReplyInv
    <3> QED
      BY <3>1, <3>2 DEF ReplyInv, Handling, InHand
  <2> QED
    BY <2>1, <2>2, <2>3 DEF Next
<1> QED
  BY TypeInvariance, <1>1, <1>2, PTL DEF Spec

\* The handlers of the Rust component answer each request of a connection at most
\* once, in order and with the command it calls for.
THEOREM RepliesMatchHolds == Spec => []RepliesMatch
<1>1. ReplyInv => RepliesMatch
  BY DEF ReplyInv, QueueInv
<1> QED
  BY <1>1, ReplyInvariance, PTL

-----------------------------------------------------------------------------
(* No request is lost *)

\* A request that is on its way, being handled or answered.
Accounted(r) ==
    \/ \E i \in DOMAIN inbox : inbox[i].id = r
    \/ cur.id = r
    \/ Answered(r)

\* A send loses no request if what was being handled still is, or was answered by it.
LEMMA SendKeeps ==
    ASSUME TypeOK, NothingDropped, NEW frame \in ComponentFrames, NEW next,
           Send(frame, next),
           cur' = cur \/ \A r \in DOMAIN asked : cur.id = r => Answered(r)'
    PROVE  NothingDropped'
<1>1. UNCHANGED <<link, inbox, asked>> /\ sent' = Append(sent, frame) /\ link # "down"
  BY DEF Send, srvVars
<1>2. \A i \in DOMAIN sent : i \in DOMAIN sent' /\ sent'[i] = sent[i]
  BY <1>1, SentFacts DEF TypeOK
<1>3. ASSUME NEW r \in DOMAIN asked
      PROVE  Accounted(r)'
  <2>1. Accounted(r)
    BY <1>1, <1>3 DEF NothingDropped, Accounted
  <2>2. Answered(r) => Answered(r)'
    BY <1>1, <1>2 DEF Answered
  <2>3. cur.id = r => cur'.id = r \/ Answered(r)'
    BY <1>3
  <2> QED
    BY <1>1, <2>1, <2>2, <2>3 DEF Accounted
<1> QED
  BY <1>1, <1>3 DEF NothingDropped, Accounted

\* So does a reply to the request being handled.
LEMMA ReplyKeeps ==
    ASSUME TypeOK, NothingDropped, pc \in Busy, ReplyInv,
           NEW command \in {"PONG", "ACK"}, NEW arg \in Args, NEW next,
           Reply(command, arg, next)
    PROVE  NothingDropped'
<1> DEFINE frame == Envelope(command, cur.id, arg)
<1>1. cur.id \in Nat /\ command \in Commands
  BY DEF TypeOK, ServerFrames, Commands
<1>2. frame \in ComponentFrames /\ frame.corr = cur.id
  BY <1>1, FrameTypes
<1>3. Send(frame, next)
  BY DEF Reply, ReplyCorr
<1> HIDE DEF frame
<1>4. sent' = Append(sent, frame)
  BY <1>3 DEF Send
<1>5. \A r \in DOMAIN asked : cur.id = r => Answered(r)'
  BY <1>2, <1>4, SentFacts DEF Answered, TypeOK
<1> QED
  BY <1>2, <1>3, <1>5, SendKeeps

\* So does a step after which an envelope that was received is being handled, or that
\* receives none of the requests.
LEMMA ReceiveKeeps ==
    ASSUME TypeOK, NothingDropped, NEW frame, Receive(frame), cur = NoFrame,
           cur' = frame \/ frame.id = 0
    PROVE  NothingDropped'
<1>1. /\ inbox # <<>> /\ inbox' = Tail(inbox) /\ frame = Head(inbox)
      /\ UNCHANGED <<link, sent, asked>>
  BY DEF Receive, srvVars
<1>2. /\ frame = inbox[1] /\ Len(inbox) \in Nat
      /\ DOMAIN inbox = 1 .. Len(inbox) /\ DOMAIN inbox' = 1 .. Len(inbox) - 1
      /\ \A i \in 1 .. Len(inbox) - 1 : inbox'[i] = inbox[i + 1]
  BY <1>1, TailFacts DEF TypeOK, LinkTypeOK
<1>3. \A i \in DOMAIN inbox :
          i = 1 \/ (i - 1 \in DOMAIN inbox' /\ inbox'[i - 1] = inbox[i])
  BY <1>2
<1>4. ASSUME NEW r \in DOMAIN asked, link # "down"
      PROVE  Accounted(r)'
  <2>1. Accounted(r)
    BY <1>4 DEF NothingDropped, Accounted
  <2>2. asked \in Seq(Requests)
    BY DEF TypeOK, LinkTypeOK
  <2>3. r # 0 /\ NoFrame.id = 0
    BY <1>4, <2>2, SeqFacts, NoFrameType
  <2>4. Answered(r) => Answered(r)'
    BY <1>1 DEF Answered
  <2>5. CASE \E i \in DOMAIN inbox : inbox[i].id = r
    BY <1>2, <1>3, <2>3, <2>5 DEF Accounted
  <2> QED
    BY <2>1, <2>3, <2>4, <2>5 DEF Accounted
<1> QED
  BY <1>1, <1>4 DEF NothingDropped, Accounted

\* What aegisd does loses no request: the new ones are on their way.
LEMMA ServerKeeps ==
    ASSUME TypeOK, NothingDropped, SrvNext, UNCHANGED cur
    PROVE  NothingDropped'
<1>1. /\ UNCHANGED sent /\ link # "down"
      /\ \A r \in DOMAIN asked : r \in DOMAIN asked' /\ asked'[r] = asked[r]
      /\ \A r \in DOMAIN asked' \ DOMAIN asked : \E i \in DOMAIN inbox' : inbox'[i].id = r
      /\ \A i \in DOMAIN inbox : i \in DOMAIN inbox' /\ inbox'[i] = inbox[i]
  BY ServerEffect, ServerAsked DEF TypeOK
<1>2. ASSUME NEW r \in DOMAIN asked
      PROVE  Accounted(r)'
  <2>1. Accounted(r)
    BY <1>1, <1>2 DEF NothingDropped, Accounted
  <2>2. Answered(r) => Answered(r)'
    BY <1>1, <1>2 DEF Answered
  <2> QED
    BY <1>1, <2>1, <2>2 DEF Accounted
<1> QED
  BY <1>1, <1>2 DEF NothingDropped, Accounted

\* What run() does loses no request: each is received by the handler that answers it.
LEMMA RunStepKeeps ==
    ASSUME TypeOK, ReplyInv, NothingDropped, RunStep
    PROVE  NothingDropped'
<1>1. CASE SendError \/ RecvEof \/ RecvUndecodable \/ ReadTimeout \/ RecvFatal
           \/ GracefulShutdown
  BY <1>1 DEF SendError, RecvEof, RecvUndecodable, ReadTimeout, RecvFatal,
     GracefulShutdown, Fail, CloseLink, NothingDropped
<1>2. CASE Reconnecting \/ WakeUp
  <2>1. UNCHANGED <<linkVars, srvVars>> /\ pc \notin Busy /\ cur' \in {cur, NoFrame}
    BY <1>2 DEF Reconnecting, WakeUp, Return, Busy
  <2>2. UNCHANGED <<link, inbox, sent, asked, cur>>
    BY <2>1 DEF ReplyInv, Handling, linkVars, srvVars
  <2> QED
    BY <2>2 DEF NothingDropped, Answered
<1>3. CASE Connect
  <2>1. CASE OpenLink
    <3>1. DOMAIN asked' = {}
      BY <2>1, EmptyFacts DEF OpenLink
    <3> QED
      BY <3>1 DEF NothingDropped
  <2>2. CASE UNCHANGED <<linkVars, srvVars>>
    BY <1>3, <2>2 DEF Connect, linkVars, srvVars, NothingDropped, Answered
  <2> QED
    BY <1>3, <2>1, <2>2 DEF Connect
<1>4. CASE SendRegister
  <2>1. RegisterId \in Args
    BY RustAssumption DEF RegisterId, TypeOK, Args
  <2>2. Envelope("REGISTER", 0, RegisterId) \in ComponentFrames
    BY <2>1, FrameTypes DEF Commands
  <2> QED
    BY <1>4, <2>2, SendKeeps DEF SendRegister
<1>5. CASE AnnounceInitializing \/ AnnounceReady \/ AnnounceConfigured \/ AnnounceRunning
  <2>1. PICK new_state \in ComponentStates, next \in Sending \cup Receiving :
          SendStateUpdate(new_state, next)
    BY <1>5 DEF AnnounceInitializing, AnnounceReady, AnnounceConfigured,
       AnnounceRunning, ComponentStates, Sending, Receiving
  <2>2. Envelope("STATE_UPDATE", 0, new_state) \in ComponentFrames
    BY FrameTypes DEF Commands, Args
  <2> QED
    BY <2>1, <2>2, SendKeeps DEF SendStateUpdate
<1>6. CASE RecvRegistered
  <2>1. CASE CloseLink
    BY <2>1 DEF CloseLink, NothingDropped
  <2>2. CASE Receive(Head(inbox)) /\ Head(inbox).command = "REGISTERED"
    <3> DEFINE frame == Head(inbox)
    <3>1. 1 \in DOMAIN inbox /\ frame = inbox[1]
      BY <2>2, TailFacts DEF Receive, TypeOK, LinkTypeOK
    <3>2. \A r \in DOMAIN asked : asked[r] \in Requests
      BY SeqFacts DEF TypeOK, LinkTypeOK
    <3>3. frame.id = 0
      BY <2>2, <3>1, <3>2 DEF ReplyInv, QueueInv, Numbered, Requests
    <3>4. cur = NoFrame
      BY <1>6 DEF RecvRegistered, ReplyInv, Handling, Busy
    <3> QED
      BY <2>2, <3>3, <3>4, ReceiveKeeps
  <2> QED
    BY <1>6, <2>1, <2>2 DEF RecvRegistered
<1>7. CASE RecvMessage
  <2> DEFINE frame == Head(inbox)
  <2>1. Receive(frame) /\ cur = NoFrame
    BY <1>7, Dispatch DEF RecvMessage, ReplyInv, Handling, Busy
  <2>2. /\ frame.id # 0 => frame.command \in Requests
        /\ frame.command \in Requests => frame.type = RequestType(frame.command)
    <3>1. 1 \in DOMAIN inbox /\ frame = inbox[1]
      BY <2>1, TailFacts DEF Receive, TypeOK, LinkTypeOK
    <3>2. \A r \in DOMAIN asked : asked[r] \in Requests
      BY SeqFacts DEF TypeOK, LinkTypeOK
    <3> QED
      BY <3>1, <3>2 DEF ReplyInv, QueueInv, Numbered
  <2>3. \/ HandlePing(frame) \/ HandleConfigure(frame) \/ HandleReborn(frame)
        \/ HandleShutdown(frame) \/ HandleRecoverable(frame) \/ HandleIgnored(frame)
    BY <1>7 DEF RecvMessage
  <2> HIDE DEF frame
  <2>4. cur' = frame \/ frame.id = 0
    BY <2>2, <2>3 DEF HandlePing, HandleConfigure, HandleReborn, HandleShutdown,
       HandleRecoverable, HandleIgnored, Ignored, Requests, RequestType
  <2> QED
    BY <2>1, <2>4, ReceiveKeeps
<1>8. CASE SendPong \/ AckReborn \/ AckConfigure \/ AckShutdown
  <2>1. state \in Args /\ NoId \in Args
    BY DEF TypeOK, Args
  <2> QED
    BY <1>8, <2>1, ReplyKeeps DEF SendPong, AckReborn, AckConfigure, AckShutdown, Busy
<1>9. CASE ConfigureFailed
  <2> DEFINE frame == Envelope("RUNTIME_ERROR", 0, "recoverable")
  <2>1. frame \in ComponentFrames /\ frame.command = "RUNTIME_ERROR"
    BY FrameTypes DEF Commands, Args
  <2>2. Send(frame, "message_loop") /\ pc = "configure_failed"
    BY <1>9 DEF ConfigureFailed
  <2> HIDE DEF frame
  <2>3. asked[cur.id] = "CONFIGURE"
    BY <2>2 DEF ReplyInv, Handling, Busy, Wanted
  <2>4. sent' = Append(sent, frame) /\ UNCHANGED asked
    BY <2>2 DEF Send, srvVars
  <2>5. \A r \in DOMAIN asked : cur.id = r => Answered(r)'
    BY <2>1, <2>3, <2>4, SentFacts DEF Answered, TypeOK
  <2> QED
    BY <2>1, <2>2, <2>5, SendKeeps
<1> QED
  BY <1>1, <1>2, <1>3, <1>4, <1>5, <1>6, <1>7, <1>8, <1>9 DEF RunStep

\* message_loop of the Rust component: whatever arrives in whatever order, a request
\* of aegisd stays in the socket until it is handled, and is handled until it is
\* answered.
THEOREM NothingDroppedHolds == Spec => []NothingDropped
<1>1. Init => NothingDropped
  BY DEF Init, LinkInit, NothingDropped
<1>2. TypeInv /\ ReplyInv /\ NothingDropped /\ [Next]_vars => NothingDropped'
  <2> SUFFICES ASSUME TypeInv, ReplyInv, NothingDropped, [Next]_vars
               PROVE  NothingDropped'
    OBVIOUS
  <2>1. CASE RunStep
    BY <2>1, RunStepKeeps DEF TypeInv
  <2>2. CASE ServerStep
    BY <2>2, ServerKeeps DEF ServerStep, TypeInv
  <2>3. CASE UNCHANGED vars
    BY <2>3 DEF vars, linkVars, srvVars, NothingDropped, Answered
  <2> QED
    BY <2>1, <2>2, <2>3 DEF Next
<1> QED
  BY TypeInvariance, ReplyInvariance, <1>1, <1>2, PTL DEF Spec

-----------------------------------------------------------------------------
(* PONG *)

\* The awaits of a connection at which a state was announced on it.
Announced == {"announce_ready", "message_loop", "announce_configured",
              "announce_running"} \cup Busy

\* There, the stored state is the one that was announced last.
PongInv ==
    /\ PongTruthful
    /\ pc \in Announced => LastTold(state)

\* A step that leaves the log alone keeps PongInv if it leaves the state alone too or
\* ends the connection.
LEMMA QuietPong ==
    ASSUME PongInv, UNCHANGED sent,
           \/ pc' \notin Announced
           \/ pc \in Announced /\ UNCHANGED state
    PROVE  PongInv'
  BY DEF PongInv, PongTruthful, LastTold

\* A frame that is no announcement keeps PongInv, a PONG if it reports the state.
LEMMA SendPongs ==
    ASSUME TypeOK, PongInv, NEW frame \in ComponentFrames, NEW next,
           Send(frame, next), UNCHANGED state, ~IsUpdate(frame),
           next \in Announced => pc \in Announced,
           frame.command = "PONG" => frame.arg = state /\ pc \in Announced
    PROVE  PongInv'
<1>1. LinkTypeOK /\ sent' = Append(sent, frame) /\ pc' = next
  BY DEF Send, TypeOK
<1>2. PongTruthful'
  BY <1>1, SentPong DEF PongInv
<1>3. \A told : LastTold(told) => LastTold(told)'
  BY <1>1, SentTold
<1>4. pc' \in Announced => LastTold(state)'
  BY <1>1, <1>3 DEF PongInv, LastTold
<1> QED
  BY <1>2, <1>4 DEF PongInv

\* send_state_update stores the state that it announced.
LEMMA UpdatePongs ==
    ASSUME TypeOK, PongInv, NEW new_state \in ComponentStates, NEW next,
           SendStateUpdate(new_state, next)
    PROVE  PongInv'
<1> DEFINE frame == Envelope("STATE_UPDATE", 0, new_state)
<1>1. /\ frame \in ComponentFrames /\ IsUpdate(frame) /\ frame.arg = new_state
      /\ frame.command # "PONG"
  <2>1. "STATE_UPDATE" \in Commands /\ 0 \in Nat /\ new_state \in Args
    BY DEF Commands, Args
  <2>2. frame \in ComponentFrames
    BY <2>1, FrameTypes
  <2> QED
    BY <2>2 DEF IsUpdate, Envelope
<1>2. sent' = Append(sent, frame) /\ state' = new_state
  BY DEF SendStateUpdate, Send
<1> HIDE DEF frame
<1>3. PongTruthful'
  BY <1>1, <1>2, SentPong DEF PongInv, TypeOK
<1>4. LastTold(frame.arg)'
  BY <1>1, <1>2, SentTold DEF TypeOK
<1>5. LastTold(state)'
  BY <1>1, <1>2, <1>4 DEF LastTold
<1> QED
  BY <1>3, <1>5 DEF PongInv

\* What run() does keeps PongInv.
LEMMA RunStepPongs ==
    ASSUME TypeOK, PongInv, RunStep
    PROVE  PongInv'
<1>1. CASE \/ SendError \/ RecvEof \/ RecvUndecodable \/ ReadTimeout \/ RecvFatal
           \/ GracefulShutdown \/ Reconnecting \/ WakeUp
  <2>1. UNCHANGED sent /\ pc' \notin Announced
    BY <1>1 DEF SendError, RecvEof, RecvUndecodable, ReadTimeout, RecvFatal,
       GracefulShutdown, Reconnecting, WakeUp, Fail, CloseLink, Return, linkVars,
       Announced, Busy
  <2> QED
    BY <2>1, QuietPong
<1>2. CASE Connect
  <2>1. CASE OpenLink /\ pc' = "register"
    <3>1. DOMAIN sent' = {}
      BY <2>1, EmptyFacts DEF OpenLink
    <3> QED
      BY <2>1, <3>1 DEF PongInv, PongTruthful, Announced, Busy
  <2>2. CASE UNCHANGED <<linkVars, srvVars>> /\ pc' = "failed"
    BY <2>2, QuietPong DEF linkVars, Announced, Busy
  <2> QED
    BY <1>2, <2>1, <2>2 DEF Connect
<1>3. CASE SendRegister
  <2> DEFINE frame == Envelope("REGISTER", 0, RegisterId)
  <2>1. RegisterId \in Args
    BY RustAssumption DEF RegisterId, TypeOK, Args
  <2>2. /\ frame \in ComponentFrames /\ ~IsUpdate(frame) /\ frame.command # "PONG"
    BY <2>1, FrameTypes DEF IsUpdate, Commands
  <2>3. Send(frame, "await_registered") /\ UNCHANGED state
    BY <1>3 DEF SendRegister, rustVars
  <2> HIDE DEF frame
  <2> QED
    BY <2>2, <2>3, SendPongs DEF Announced, Busy
<1>4. CASE AnnounceInitializing \/ AnnounceReady \/ AnnounceConfigured \/ AnnounceRunning
  <2>1. PICK new_state \in ComponentStates, next \in Sending \cup Receiving :
          SendStateUpdate(new_state, next)
    BY <1>4 DEF AnnounceInitializing, AnnounceReady, AnnounceConfigured,
       AnnounceRunning, ComponentStates, Sending, Receiving
  <2> QED
    BY <2>1, UpdatePongs
<1>5. CASE RecvRegistered
  <2>1. UNCHANGED sent /\ pc' \notin Announced
    BY <1>5 DEF RecvRegistered, CloseLink, Receive, Return, Announced, Busy
  <2> QED
    BY <2>1, QuietPong
<1>6. CASE RecvMessage
  <2>1. UNCHANGED <<sent, state>> /\ pc \in Announced
    BY <1>6 DEF RecvMessage, Receive, Announced
  <2> QED
    BY <2>1, QuietPong
<1>7. ASSUME NEW command \in {"PONG", "ACK", "RUNTIME_ERROR"}, NEW corr \in Nat,
             NEW arg \in Args, NEW next, Send(Envelope(command, corr, arg), next),
             pc \in Announced, UNCHANGED state, command = "PONG" => arg = state
      PROVE  PongInv'
  <2> DEFINE frame == Envelope(command, corr, arg)
  <2>1. /\ frame \in ComponentFrames /\ ~IsUpdate(frame)
        /\ frame.command = command /\ frame.arg = arg
    BY FrameTypes DEF IsUpdate, Commands
  <2> HIDE DEF frame
  <2>2. Send(frame, next)
    BY <1>7 DEF frame
  <2> QED
    BY <1>7, <2>1, <2>2, SendPongs
<1>8. cur.id \in Nat /\ state \in Args /\ NoId \in Args /\ "recoverable" \in Args
  BY DEF TypeOK, ServerFrames, Args
<1>9. CASE SendPong
  BY <1>7, <1>8, <1>9 DEF SendPong, Reply, ReplyCorr, rustVars, Announced, Busy
<1>10. CASE AckReborn \/ AckConfigure \/ AckShutdown
  BY <1>7, <1>8, <1>10 DEF AckReborn, AckConfigure, AckShutdown, Reply, ReplyCorr,
     rustVars, Announced, Busy
<1>11. CASE ConfigureFailed
  BY <1>7, <1>8, <1>11 DEF ConfigureFailed, rustVars, Announced, Busy
<1> QED
  BY <1>1, <1>2, <1>3, <1>4, <1>5, <1>6, <1>9, <1>10, <1>11 DEF RunStep

\* send_state_update and the PING handler of the Rust component: a PONG reports the
\* state that aegisd was last told on the connection.
THEOREM PongTruthfulHolds == Spec => []PongTruthful
<1>1. Init => PongInv
  <2> SUFFICES ASSUME Init
               PROVE  PongInv
    OBVIOUS
  <2>1. DOMAIN sent = {} /\ pc \notin Announced
    BY EmptyFacts DEF Init, LinkInit, Announced, Busy
  <2> QED
    BY <2>1 DEF PongInv, PongTruthful
<1>2. TypeInv /\ PongInv /\ [Next]_vars => PongInv'
  <2> SUFFICES ASSUME TypeInv, PongInv, [Next]_vars
               PROVE  PongInv'
    OBVIOUS
  <2>1. CASE RunStep
    BY <2>1, RunStepPongs DEF TypeInv
  <2>2. CASE ServerStep
    <3>1. UNCHANGED <<sent, pc, state>>
      BY <2>2, ServerEffect DEF ServerStep, rustVars, TypeInv, TypeOK
    <3> QED
      BY <3>1, QuietPong
  <2>3. CASE UNCHANGED vars
    BY <2>3, QuietPong DEF vars, linkVars, rustVars
  <2> QED
    BY <2>1, <2>2, <2>3 DEF Next
<1>3. PongInv => PongTruthful
  BY DEF PongInv
<1> QED
  BY TypeInvariance, <1>1, <1>2, <1>3, PTL DEF Spec

\* What aegisd sees on a connection of the Rust component.
THEOREM ConversationHolds == Spec => []Conversation
  BY TypeCorrect, RepliesMatchHolds, NothingDroppedHolds, PongTruthfulHolds, PTL
     DEF Conversation

-----------------------------------------------------------------------------
(* Shutdown *)

\* A token is cancelled only while its connection is shut down, or later: no other
\* await is ever reached with the token of the current connection cancelled.
TokenInv ==
    /\ cancelled \subseteq 1 .. dials
    /\ dials \in cancelled =>
          pc \in {"ack_shutdown", "graceful_shutdown", "failed", "sleep", "connect", "done"}
    /\ pc \in {"ack_shutdown", "graceful_shutdown"} => dials \in cancelled

\* The last frame of the connection is the ACK of a SHUTDOWN.
ShutdownAcked ==
    /\ sent # <<>>
    /\ sent[Len(sent)].command = "ACK"
    /\ sent[Len(sent)].corr \in DOMAIN asked
    /\ asked[sent[Len(sent)].corr] = "SHUTDOWN"

ExitInv ==
    /\ pc = "graceful_shutdown" => ShutdownAcked
    /\ result = "ok" => pc = "done" /\ ShutdownAcked /\ CleanExit

ShutdownInv == TokenInv /\ ExitInv

\* A step that leaves what was sent alone and at most adds requests keeps what was
\* acknowledged.
LEMMA StillAcked ==
    ASSUME ShutdownAcked, UNCHANGED sent,
           \A r \in DOMAIN asked : r \in DOMAIN asked' /\ asked'[r] = asked[r]
    PROVE  ShutdownAcked'
  BY DEF ShutdownAcked

\* Steps of aegisd keep ShutdownInv.
LEMMA ServerShutdown ==
    ASSUME TypeOK, ShutdownInv, ServerStep
    PROVE  ShutdownInv'
<1>1. UNCHANGED <<pc, cur, state, dials, result, cancelled, called>>
  BY DEF ServerStep, rustVars
<1>2. ShutdownAcked => ShutdownAcked'
  BY ServerEffect, ServerAsked, StillAcked DEF ServerStep, TypeOK
<1>3. TokenInv'
  BY <1>1 DEF ShutdownInv, TokenInv
<1>4. result = "ok" => CleanExit'
  BY <1>1, <1>2 DEF ShutdownInv, ExitInv, ShutdownAcked, CleanExit
<1> QED
  BY <1>1, <1>2, <1>3, <1>4 DEF ShutdownInv, ExitInv

\* Steps of run() keep TokenInv: a token is cancelled at SHUTDOWN only, and a new
\* connection has a new one.
LEMMA RunStepToken ==
    ASSUME TypeInv, ShutdownInv, RunStep
    PROVE  TokenInv'
<1>1. dials \in Nat /\ cancelled \subseteq 1 .. dials /\ (pc # "connect" => dials > 0)
  <2>1. dials \in 0 .. MaxDials
    BY DEF TypeInv, TypeOK
  <2>2. dials \in Nat
    BY <2>1
  <2>3. cancelled \subseteq 1 .. dials
    BY DEF ShutdownInv, TokenInv
  <2>4. pc # "connect" => dials >= 1
    BY DEF TypeInv, Dialled
  <2>5. pc # "connect" => dials > 0
    BY <2>2, <2>4
  <2> QED
    BY <2>2, <2>3, <2>5
<1>2. CASE Connect
  <2>1. dials' = dials + 1 /\ UNCHANGED cancelled /\ pc' \in {"register", "failed"}
    BY <1>2 DEF Connect
  <2> QED
    BY <1>1, <2>1 DEF TokenInv
<1>3. CASE RecvMessage
  <2> DEFINE frame == Head(inbox)
  <2>1. pc = "message_loop" /\ dials \notin cancelled /\ UNCHANGED dials
    BY <1>3 DEF RecvMessage, ShutdownInv, TokenInv
  <2>2. \/ HandlePing(frame) \/ HandleConfigure(frame) \/ HandleReborn(frame)
        \/ HandleShutdown(frame) \/ HandleRecoverable(frame) \/ HandleIgnored(frame)
    BY <1>3 DEF RecvMessage
  <2> HIDE DEF frame
  <2>3. CASE HandleShutdown(frame)
    BY <1>1, <2>1, <2>3 DEF HandleShutdown, TokenInv
  <2>4. CASE ~HandleShutdown(frame)
    BY <1>1, <2>1, <2>2, <2>4 DEF HandlePing, HandleConfigure, HandleReborn,
       HandleRecoverable, HandleIgnored, TokenInv
  <2> QED
    BY <2>3, <2>4
<1>4. CASE RunStep /\ ~Connect /\ ~RecvMessage
  <2>1. UNCHANGED <<dials, cancelled>>
    BY <1>4 DEF RunStep, Reconnecting, WakeUp, SendRegister, RecvRegistered,
       AnnounceInitializing, AnnounceReady, SendError, RecvEof, RecvUndecodable,
       RecvFatal, ReadTimeout, SendPong, AckReborn, ConfigureFailed, AckConfigure,
       AnnounceConfigured, AnnounceRunning, AckShutdown, GracefulShutdown, Reply,
       SendStateUpdate, rustVars
  <2>2. \/ pc' \in {"failed", "sleep", "connect", "done"}
        \/ pc = "ack_shutdown" /\ pc' = "graceful_shutdown"
        \/ /\ pc \notin {"ack_shutdown", "graceful_shutdown", "failed", "sleep",
                         "connect", "done"}
           /\ pc' \notin {"ack_shutdown", "graceful_shutdown"}
    BY <1>4 DEF RunStep, Reconnecting, WakeUp, SendRegister, RecvRegistered,
       AnnounceInitializing, AnnounceReady, SendError, RecvEof, RecvUndecodable,
       RecvFatal, ReadTimeout, SendPong, AckReborn, ConfigureFailed, AckConfigure,
       AnnounceConfigured, AnnounceRunning, AckShutdown, GracefulShutdown, Reply, Send,
       SendStateUpdate, Fail, Return
  <2> QED
    BY <1>1, <2>1, <2>2 DEF ShutdownInv, TokenInv
<1> QED
  BY <1>2, <1>3, <1>4

\* run() reaches graceful_shutdown with the ACK of SHUTDOWN just sent, and returns Ok
\* from there only.
LEMMA RunStepExit ==
    ASSUME TypeInv, ReplyInv, ShutdownInv, RunStep
    PROVE  ExitInv'
<1>1. pc # "done" /\ result # "ok"
  <2>1. pc # "done"
    BY DEF RunStep, Connect, Reconnecting, WakeUp, SendRegister, RecvRegistered,
       AnnounceInitializing, AnnounceReady, SendError, RecvEof, RecvUndecodable,
       RecvMessage, RecvFatal, ReadTimeout, SendPong, AckReborn, ConfigureFailed,
       AckConfigure, AnnounceConfigured, AnnounceRunning, AckShutdown,
       GracefulShutdown, Sending, Receiving
  <2> QED
    BY <2>1 DEF ShutdownInv, ExitInv
<1>2. CASE AckShutdown
  <2>1. pc = "ack_shutdown" /\ pc' = "graceful_shutdown" /\ UNCHANGED <<result, asked>>
    BY <1>2 DEF AckShutdown, Reply, Send, rustVars, srvVars
  <2>2. cur.id \in DOMAIN asked /\ asked[cur.id] = "SHUTDOWN"
    BY <2>1 DEF ReplyInv, Handling, Busy, Wanted, InHand
  <2>3. cur.id \in Nat /\ sent \in Seq(ComponentFrames)
    BY DEF TypeInv, TypeOK, LinkTypeOK, ServerFrames
  <2> DEFINE frame == Envelope("ACK", cur.id, NoId)
  <2>4. frame \in ComponentFrames /\ frame.command = "ACK" /\ frame.corr = cur.id
    BY <2>3, FrameTypes DEF Envelope, Commands, Args
  <2>5. sent' = Append(sent, frame)
    BY <1>2 DEF AckShutdown, Reply, Send, ReplyCorr
  <2> HIDE DEF frame
  <2>6. sent' # <<>> /\ sent'[Len(sent')] = frame
    BY <2>3, <2>4, <2>5
  <2>7. ShutdownAcked'
    BY <2>1, <2>2, <2>4, <2>6 DEF ShutdownAcked
  <2> QED
    BY <1>1, <2>1, <2>7 DEF ExitInv
<1>3. CASE GracefulShutdown
  <2>1. /\ pc = "graceful_shutdown" /\ pc' = "done"
        /\ UNCHANGED <<sent, asked, dials, cancelled>>
        /\ "on_shutdown" \in called' /\ state' = "SHUTDOWN"
    BY <1>3 DEF GracefulShutdown, Return, CloseLink
  <2>2. ShutdownAcked /\ dials \in cancelled
    BY <2>1 DEF ShutdownInv, ExitInv, TokenInv
  <2>3. ShutdownAcked'
    BY <2>1, <2>2 DEF ShutdownAcked
  <2>4. CleanExit'
    BY <2>1, <2>2, <2>3 DEF ShutdownAcked, CleanExit
  <2> QED
    BY <2>1, <2>3, <2>4 DEF ExitInv
<1>4. CASE RunStep /\ ~AckShutdown /\ ~GracefulShutdown
  <2>1. pc' # "graceful_shutdown" /\ result' # "ok"
    BY <1>1, <1>4 DEF RunStep, Connect, Reconnecting, WakeUp, SendRegister,
       RecvRegistered, AnnounceInitializing, AnnounceReady, SendError, RecvEof,
       RecvUndecodable, RecvMessage, RecvFatal, ReadTimeout, SendPong, AckReborn,
       ConfigureFailed, AckConfigure, AnnounceConfigured, AnnounceRunning, Reply, Send,
       SendStateUpdate, Fail, Return, rustVars, HandlePing, HandleConfigure,
       HandleReborn, HandleShutdown, HandleRecoverable, HandleIgnored
  <2> QED
    BY <2>1 DEF ExitInv
<1> QED
  BY <1>2, <1>3, <1>4

\* ShutdownInv holds initially and is kept by every step.
LEMMA ShutdownInvariance == Spec => []ShutdownInv
<1>1. Init => ShutdownInv
  BY RustAssumption DEF Init, ShutdownInv, TokenInv, ExitInv
<1>2. TypeInv /\ ReplyInv /\ ShutdownInv /\ [Next]_vars => ShutdownInv'
  <2> SUFFICES ASSUME TypeInv, ReplyInv, ShutdownInv, [Next]_vars
               PROVE  ShutdownInv'
    OBVIOUS
  <2>1. CASE RunStep
    BY <2>1, RunStepToken, RunStepExit DEF ShutdownInv
  <2>2. CASE ServerStep
    BY <2>2, ServerShutdown DEF TypeInv
  <2>3. CASE UNCHANGED vars
    BY <2>3 DEF vars, linkVars, srvVars, rustVars, ShutdownInv, TokenInv, ExitInv,
       ShutdownAcked, CleanExit
  <2> QED
    BY <2>1, <2>2, <2>3 DEF Next
<1> QED
  BY TypeInvariance, ReplyInvariance, <1>1, <1>2, PTL DEF Spec

\* handle_lifecycle and graceful_shutdown: run() returns Ok only after a SHUTDOWN of
\* the same connection was acknowledged as its last frame, with the connection's token
\* cancelled and on_shutdown called, whatever happened on earlier connections.
THEOREM CleanExitHolds == Spec => []CleanExit
<1>1. ShutdownInv => CleanExit
  BY DEF ShutdownInv, ExitInv, CleanExit
<1> QED
  BY <1>1, ShutdownInvariance, PTL

-----------------------------------------------------------------------------
(* The number of workers *)

\* While a connection is held, its token was handed out once for each RUNNING that was
\* announced on it; the tokens of later connections were not handed out yet.
CountInv ==
    /\ pc \in Connected => workers[dials] = Cardinality(RunningTold)
    /\ \A n \in 1 .. MaxDials : n > dials => workers[n] = 0

\* There are finitely many announcements, and a send adds one if it is one.
LEMMA SentRunning ==
    ASSUME LinkTypeOK, NEW frame \in ComponentFrames, sent' = Append(sent, frame)
    PROVE  /\ Cardinality(RunningTold) \in Nat
           /\ Cardinality(RunningTold)' =
                IF IsUpdate(frame) /\ frame.arg = "RUNNING"
                THEN Cardinality(RunningTold) + 1
                ELSE Cardinality(RunningTold)
<1>1. /\ Len(sent) \in Nat
      /\ DOMAIN sent = 1 .. Len(sent) /\ DOMAIN sent' = 1 .. Len(sent) + 1
      /\ \A i \in DOMAIN sent : sent'[i] = sent[i]
      /\ sent'[Len(sent) + 1] = frame
  BY SentFacts
<1>2. IsFiniteSet(RunningTold)
  <2>1. 1 \in Int /\ Len(sent) \in Int
    BY <1>1
  <2>2. IsFiniteSet(1 .. Len(sent))
    BY <2>1, FS_Interval
  <2>3. RunningTold \in SUBSET (1 .. Len(sent))
    BY <1>1 DEF RunningTold
  <2> QED
    BY <2>2, <2>3, FS_Subset
<1>3. Len(sent) + 1 \notin RunningTold
  BY <1>1 DEF RunningTold
<1>4. RunningTold' = IF IsUpdate(frame) /\ frame.arg = "RUNNING"
                     THEN RunningTold \cup {Len(sent) + 1}
                     ELSE RunningTold
  <2>1. DOMAIN sent' = DOMAIN sent \cup {Len(sent) + 1}
    BY <1>1
  <2> QED
    BY <1>1, <1>3, <2>1 DEF RunningTold, IsUpdate
<1>5. Cardinality(RunningTold) \in Nat
  BY <1>2, FS_CardinalityType
<1>6. Cardinality(RunningTold \cup {Len(sent) + 1}) = Cardinality(RunningTold) + 1
  BY <1>2, <1>3, FS_AddElement
<1> QED
  BY <1>4, <1>5, <1>6

\* A send that announces nothing keeps CountInv.
LEMMA SendCounts ==
    ASSUME TypeOK, CountInv, NEW frame \in ComponentFrames, NEW next,
           ~(IsUpdate(frame) /\ frame.arg = "RUNNING"),
           Send(frame, next), pc \in Connected, UNCHANGED <<dials, workers>>
    PROVE  CountInv'
<1>1. Cardinality(RunningTold)' = Cardinality(RunningTold)
  BY SentRunning DEF Send, TypeOK
<1> QED
  BY <1>1 DEF CountInv

\* What run() does keeps CountInv.
LEMMA RunStepCounts ==
    ASSUME TypeInv, CountInv, RunStep
    PROVE  CountInv'
<1>1. /\ dials \in 0 .. MaxDials /\ MaxDials \in Nat
      /\ pc # "connect" => dials >= 1
      /\ workers \in [1 .. MaxDials -> Nat]
  BY RustAssumption DEF TypeInv, TypeOK, Dialled
<1>2. CASE Connect
  <2>1. dials' = dials + 1 /\ UNCHANGED workers /\ dials' \in 1 .. MaxDials
    BY <1>1, <1>2 DEF Connect
  <2>2. dials' > dials /\ \A n \in 1 .. MaxDials : n > dials' => n > dials
    BY <1>1, <2>1
  <2>3. workers'[dials'] = 0 /\ \A n \in 1 .. MaxDials : n > dials' => workers'[n] = 0
    BY <2>1, <2>2 DEF CountInv
  <2>4. CASE OpenLink
    <3>1. DOMAIN sent' = {}
      BY <2>4, EmptyFacts DEF OpenLink
    <3>2. RunningTold' = {}
      BY <3>1 DEF RunningTold
    <3>3. Cardinality(RunningTold)' = 0
      BY <3>2, FS_EmptySet
    <3> QED
      BY <2>3, <3>3 DEF CountInv
  <2>5. CASE pc' = "failed"
    BY <2>3, <2>5 DEF CountInv, Connected, Sending, Receiving
  <2> QED
    BY <1>2, <2>4, <2>5 DEF Connect
<1>3. CASE AnnounceRunning
  <2> DEFINE frame == Envelope("STATE_UPDATE", 0, "RUNNING")
  <2>1. frame \in ComponentFrames /\ IsUpdate(frame) /\ frame.arg = "RUNNING"
    BY FrameTypes DEF IsUpdate, Commands, Args, ComponentStates
  <2>2. sent' = Append(sent, frame) /\ UNCHANGED dials /\ pc = "announce_running"
    BY <1>3 DEF AnnounceRunning, SendStateUpdate, Send
  <2> HIDE DEF frame
  <2>3. /\ Cardinality(RunningTold) \in Nat
        /\ Cardinality(RunningTold)' = Cardinality(RunningTold) + 1
    BY <2>1, <2>2, SentRunning DEF TypeInv, TypeOK
  <2>4. dials \in 1 .. MaxDials
    BY <1>1, <2>2
  <2>5. workers[dials] = Cardinality(RunningTold)
    BY <2>2 DEF CountInv, Connected, Sending
  <2>6. workers' = [workers EXCEPT ![dials] = @ + 1]
    BY <1>3 DEF AnnounceRunning
  <2>7. workers'[dials] = Cardinality(RunningTold)'
    BY <1>1, <2>3, <2>4, <2>5, <2>6
  <2>8. \A n \in 1 .. MaxDials : n > dials => workers'[n] = 0
    BY <1>1, <2>4, <2>6 DEF CountInv
  <2> QED
    BY <2>2, <2>7, <2>8 DEF CountInv
<1>4. CASE SendRegister
  <2>1. RegisterId \in Args
    BY RustAssumption DEF RegisterId, TypeInv, TypeOK, Args
  <2>2. /\ Envelope("REGISTER", 0, RegisterId) \in ComponentFrames
        /\ ~IsUpdate(Envelope("REGISTER", 0, RegisterId))
    BY <2>1, FrameTypes DEF Commands, IsUpdate
  <2> QED
    BY <1>4, <2>2, SendCounts DEF SendRegister, rustVars, TypeInv, Connected, Sending
<1>5. CASE AnnounceInitializing \/ AnnounceReady \/ AnnounceConfigured
  <2>1. PICK new_state \in ComponentStates \ {"RUNNING"}, next \in Sending \cup Receiving :
          SendStateUpdate(new_state, next)
    BY <1>5 DEF AnnounceInitializing, AnnounceReady, AnnounceConfigured,
       ComponentStates, Sending, Receiving
  <2>2. /\ Envelope("STATE_UPDATE", 0, new_state) \in ComponentFrames
        /\ Envelope("STATE_UPDATE", 0, new_state).arg # "RUNNING"
    BY FrameTypes DEF Commands, Args
  <2>3. UNCHANGED <<dials, workers>> /\ pc \in Connected
    BY <1>5 DEF AnnounceInitializing, AnnounceReady, AnnounceConfigured,
       SendStateUpdate, Connected, Sending
  <2> QED
    BY <2>1, <2>2, <2>3, SendCounts DEF SendStateUpdate, TypeInv
<1>6. CASE SendPong \/ AckReborn \/ AckConfigure \/ AckShutdown \/ ConfigureFailed
  <2>1. cur.id \in Nat /\ state \in Args /\ NoId \in Args /\ "recoverable" \in Args
    BY DEF TypeInv, TypeOK, ServerFrames, Args
  <2>2. PICK command \in {"PONG", "ACK", "RUNTIME_ERROR"}, corr \in Nat, arg \in Args,
             next \in Sending \cup Receiving \cup {"graceful_shutdown"} :
          Send(Envelope(command, corr, arg), next)
    BY <1>6, <2>1 DEF SendPong, AckReborn, AckConfigure, AckShutdown, ConfigureFailed,
       Reply, ReplyCorr, Sending, Receiving
  <2>3. /\ Envelope(command, corr, arg) \in ComponentFrames
        /\ ~IsUpdate(Envelope(command, corr, arg))
    BY FrameTypes DEF Commands, IsUpdate
  <2>4. UNCHANGED <<dials, workers>> /\ pc \in Connected
    BY <1>6 DEF SendPong, AckReborn, AckConfigure, AckShutdown, ConfigureFailed, Reply,
       rustVars, Connected, Sending
  <2> QED
    BY <2>2, <2>3, <2>4, SendCounts DEF TypeInv
<1>7. CASE \/ Reconnecting \/ WakeUp \/ SendError \/ RecvEof \/ RecvUndecodable
           \/ ReadTimeout \/ RecvFatal \/ RecvRegistered \/ RecvMessage
           \/ GracefulShutdown
  <2>1. UNCHANGED <<dials, workers>>
    BY <1>7 DEF Reconnecting, WakeUp, SendError, RecvEof, RecvUndecodable, ReadTimeout,
       RecvFatal, RecvRegistered, RecvMessage, GracefulShutdown, rustVars
  <2>2. pc' \in Connected => pc \in Connected /\ UNCHANGED sent
    BY <1>7 DEF Reconnecting, WakeUp, SendError, RecvEof, RecvUndecodable, ReadTimeout,
       RecvFatal, RecvRegistered, RecvMessage, GracefulShutdown, Fail, Return, Receive,
       Connected, Sending, Receiving
  <2> QED
    BY <2>1, <2>2 DEF CountInv, RunningTold
<1> QED
  BY <1>2, <1>3, <1>4, <1>5, <1>6, <1>7 DEF RunStep

\* handle_config: whenever the component waits for a message, its connection's token is
\* valid and was given to one on_running task for each RUNNING announced.
THEOREM WorkersMatchRunningHolds == Spec => []WorkersMatchRunning
<1>1. Init => CountInv
  BY DEF Init, CountInv, Connected, Sending, Receiving
<1>2. TypeInv /\ CountInv /\ [Next]_vars => CountInv'
  <2> SUFFICES ASSUME TypeInv, CountInv, [Next]_vars
               PROVE  CountInv'
    OBVIOUS
  <2>1. CASE RunStep
    BY <2>1, RunStepCounts
  <2>2. CASE ServerStep
    BY <2>2, ServerEffect
    DEF ServerStep, rustVars, TypeInv, TypeOK, CountInv, RunningTold
  <2>3. CASE UNCHANGED vars
    BY <2>3 DEF vars, linkVars, rustVars, CountInv, RunningTold
  <2> QED
    BY <2>1, <2>2, <2>3 DEF Next
<1>3. CountInv /\ ShutdownInv => WorkersMatchRunning
  BY DEF CountInv, ShutdownInv, TokenInv, WorkersMatchRunning, Connected, Receiving
<1> QED
  BY TypeInvariance, ShutdownInvariance, <1>1, <1>2, <1>3, PTL DEF Spec

-----------------------------------------------------------------------------
(* The composition *)

\* The component behaves in the composition as it does alone.
LEMMA ComponentAlone == WorkersSpec => Spec
<1>1. WorkersInit => Init
  BY DEF WorkersInit
<1>2. [WorkersNext]_allVars => [Next]_vars
  BY DEF WorkersNext, allVars, ComponentStep, StreamStep, OrchestratorStep, MainReturns
<1> QED
  BY <1>1, <1>2, PTL DEF WorkersSpec, Spec

\* No step of the component makes a cancelled token valid again.
LEMMA CancelledGrows ==
    ASSUME Next
    PROVE  cancelled \subseteq cancelled'
<1>1. CASE ServerStep
  BY <1>1 DEF ServerStep, rustVars
<1>2. CASE RecvMessage
  BY <1>2 DEF RecvMessage, HandlePing, HandleConfigure, HandleReborn, HandleShutdown,
     HandleRecoverable, HandleIgnored
<1>3. CASE RunStep /\ ~RecvMessage
  BY <1>3 DEF RunStep, Connect, Reconnecting, WakeUp, SendRegister, RecvRegistered,
     AnnounceInitializing, AnnounceReady, SendError, RecvEof, RecvUndecodable,
     RecvFatal, ReadTimeout, SendPong, AckReborn, ConfigureFailed, AckConfigure,
     AnnounceConfigured, AnnounceRunning, AckShutdown, GracefulShutdown, Reply,
     SendStateUpdate, rustVars
<1> QED
  BY <1>1, <1>2, <1>3 DEF Next

\* A worker is spawned with a token that is not cancelled, and stays so in this step.
LEMMA SpawnedAlive ==
    ASSUME ShutdownInv, Next, workers' # workers
    PROVE  dials \notin cancelled /\ UNCHANGED cancelled
<1>1. AnnounceRunning
  <2>1. ~ServerStep
    BY DEF ServerStep, rustVars
  <2> QED
    BY <2>1 DEF Next, RunStep, Connect, Reconnecting, WakeUp, SendRegister, RecvRegistered,
       AnnounceInitializing, AnnounceReady, SendError, RecvEof, RecvUndecodable,
       RecvMessage, RecvFatal, ReadTimeout, SendPong, AckReborn, ConfigureFailed,
       AckConfigure, AnnounceConfigured, AckShutdown, GracefulShutdown, Reply, rustVars
<1>2. pc = "announce_running" /\ UNCHANGED cancelled
  BY <1>1 DEF AnnounceRunning, SendStateUpdate
<1> QED
  BY <1>2 DEF ShutdownInv, TokenInv

\* Every step of the composition is a step of the worker as RustStream has it, or does
\* not concern it.
LEMMA WorkerStepRefines ==
    ASSUME ShutdownInv, [WorkersNext]_allVars
    PROVE  [Stream!Next]_(Stream!vars)
<1>1. CASE ComponentStep
  <2>1. UNCHANGED <<sock, wire, shaken, published, spc, sdials, handled>>
    BY <1>1 DEF ComponentStep, streamerVars
  <2>2. CASE UNCHANGED token
    <3>1. token \in cancelled => token' \in cancelled'
      BY <1>1, <2>2, CancelledGrows DEF ComponentStep
    <3>2. CASE (token \in cancelled)' = (token \in cancelled)
      BY <2>1, <3>2 DEF Stream!vars, Stream!streamVars, Stream!workerVars
    <3>3. CASE ~(token \in cancelled) /\ (token \in cancelled)'
      <4>1. Stream!Cancel
        BY <2>1, <3>3 DEF Stream!Cancel, Stream!streamVars
      <4> QED
        BY <4>1 DEF Stream!Next
    <3> QED
      BY <3>1, <3>2, <3>3
  <2>3. CASE SpawnWorker
    <3>1. token = 0 /\ token' = dials /\ workers' # workers /\ Next
      BY <1>1, <2>3 DEF SpawnWorker, ComponentStep
    <3>2. token \notin cancelled
      BY <3>1 DEF ShutdownInv, TokenInv
    <3>3. token' \notin cancelled'
      BY <3>1, SpawnedAlive
    <3> QED
      BY <2>1, <3>2, <3>3 DEF Stream!vars, Stream!streamVars, Stream!workerVars
  <2> QED
    BY <1>1, <2>2, <2>3 DEF ComponentStep
<1>2. CASE StreamStep
  BY <1>2 DEF StreamStep, Stream!Next
<1>3. CASE OrchestratorStep
  BY <1>3 DEF OrchestratorStep, Stream!Next
<1>4. CASE MainReturns \/ UNCHANGED allVars
  <2>1. UNCHANGED <<sock, wire, shaken, published, spc, sdials, handled, token, cancelled>>
    BY <1>4 DEF MainReturns, allVars, streamerVars, vars, rustVars
  <2> QED
    BY <2>1 DEF Stream!vars, Stream!streamVars, Stream!workerVars
<1> QED
  BY <1>1, <1>2, <1>3, <1>4 DEF WorkersNext

\* The component cancels the token of a worker at most once, never before it handed it
\* out, and does nothing else to the worker: what is proved of RustStream holds of every
\* worker of the Rust example.
THEOREM WorkerSpecHolds == WorkersSpec => WorkerSpec
<1>1. WorkersInit => Stream!Init
  BY DEF WorkersInit
<1>2. ShutdownInv /\ [WorkersNext]_allVars => [Stream!Next]_(Stream!vars)
  BY WorkerStepRefines
<1> QED
  BY <1>1, <1>2, ComponentAlone, ShutdownInvariance, PTL
     DEF WorkersSpec, WorkerSpec, Stream!Spec

-----------------------------------------------------------------------------
(* What stops a worker *)

\* The token of a connection is cancelled only after aegisd sent SHUTDOWN on it.
AskedShutdown ==
    dials \in cancelled => \E r \in DOMAIN asked : asked[r] = "SHUTDOWN"

\* What run() does keeps AskedShutdown: a SHUTDOWN that is received was asked for, and a
\* new connection has a token that is not cancelled.
LEMMA RunStepAsked ==
    ASSUME TypeInv, ReplyInv, ShutdownInv, AskedShutdown, RunStep
    PROVE  AskedShutdown'
<1>1. CASE Connect
  <2>1. dials' = dials + 1 /\ UNCHANGED cancelled /\ dials \in 0 .. MaxDials
    BY <1>1 DEF Connect, TypeInv, TypeOK
  <2>2. dials' \notin 1 .. dials
    BY <2>1, RustAssumption
  <2>3. dials' \notin cancelled'
    BY <2>1, <2>2 DEF ShutdownInv, TokenInv
  <2> QED
    BY <2>3 DEF AskedShutdown
<1>2. CASE RecvMessage
  <2> DEFINE frame == Head(inbox)
  <2>1. /\ inbox # <<>> /\ UNCHANGED <<dials, asked>>
        /\ 1 \in DOMAIN inbox /\ frame = inbox[1]
    BY <1>2, TailFacts DEF RecvMessage, Receive, srvVars, TypeInv, TypeOK, LinkTypeOK
  <2>2. \/ HandlePing(frame) \/ HandleConfigure(frame) \/ HandleReborn(frame)
        \/ HandleShutdown(frame) \/ HandleRecoverable(frame) \/ HandleIgnored(frame)
    BY <1>2 DEF RecvMessage
  <2> HIDE DEF frame
  <2>3. CASE HandleShutdown(frame)
    <3>1. frame.command = "SHUTDOWN" /\ "SHUTDOWN" \in Requests
      BY <2>3 DEF HandleShutdown, Requests
    <3>2. frame.id \in DOMAIN asked /\ asked[frame.id] = "SHUTDOWN"
      BY <2>1, <3>1 DEF ReplyInv, QueueInv, Numbered
    <3> QED
      BY <2>1, <3>2 DEF AskedShutdown
  <2>4. CASE UNCHANGED cancelled
    BY <2>1, <2>4 DEF AskedShutdown
  <2> QED
    BY <2>2, <2>3, <2>4 DEF HandlePing, HandleConfigure, HandleReborn,
       HandleRecoverable, HandleIgnored
<1>3. CASE RunStep /\ ~Connect /\ ~RecvMessage
  <2>1. UNCHANGED <<dials, cancelled, asked>>
    BY <1>3 DEF RunStep, Reconnecting, WakeUp, SendRegister, RecvRegistered,
       AnnounceInitializing, AnnounceReady, SendError, RecvEof, RecvUndecodable,
       RecvFatal, ReadTimeout, SendPong, AckReborn, ConfigureFailed, AckConfigure,
       AnnounceConfigured, AnnounceRunning, AckShutdown, GracefulShutdown, Reply,
       Send, Receive, SendStateUpdate, Fail, CloseLink, rustVars, srvVars
  <2> QED
    BY <2>1 DEF AskedShutdown
<1> QED
  BY <1>1, <1>2, <1>3

\* AskedShutdown holds initially and is kept by every step.
LEMMA AskedInvariance == Spec => []AskedShutdown
<1>1. Init => AskedShutdown
  BY DEF Init, AskedShutdown
<1>2. TypeInv /\ ReplyInv /\ ShutdownInv /\ AskedShutdown /\ [Next]_vars
        => AskedShutdown'
  <2> SUFFICES ASSUME TypeInv, ReplyInv, ShutdownInv, AskedShutdown, [Next]_vars
               PROVE  AskedShutdown'
    OBVIOUS
  <2>1. CASE RunStep
    BY <2>1, RunStepAsked
  <2>2. CASE ServerStep
    BY <2>2, ServerAsked DEF ServerStep, rustVars, TypeInv, TypeOK, AskedShutdown
  <2>3. CASE UNCHANGED vars
    BY <2>3 DEF vars, srvVars, rustVars, AskedShutdown
  <2> QED
    BY <2>1, <2>2, <2>3 DEF Next
<1> QED
  BY TypeInvariance, ReplyInvariance, ShutdownInvariance, <1>1, <1>2, PTL DEF Spec

\* A worker that stopped had its token cancelled.
StoppedCancelled == spc = "stopped" => token \in cancelled

\* Every step of the composition keeps StoppedCancelled: only the worker sets spc, its
\* token stays the one that it was given, and stays cancelled.
LEMMA WorkersNextStopped ==
    ASSUME TypeInv, ShutdownInv, StoppedCancelled, [WorkersNext]_allVars
    PROVE  StoppedCancelled'
<1>1. CASE ComponentStep
  <2>1. UNCHANGED spc /\ cancelled \subseteq cancelled'
    BY <1>1, CancelledGrows DEF ComponentStep, streamerVars
  <2>2. 0 \notin cancelled
    BY DEF ShutdownInv, TokenInv
  <2> QED
    BY <1>1, <2>1, <2>2 DEF ComponentStep, SpawnWorker, StoppedCancelled
<1>2. CASE StreamStep
  <2>1. UNCHANGED <<token, cancelled>>
    BY <1>2 DEF StreamStep, vars, rustVars
  <2>2. spc' = "stopped" => token \in cancelled
    BY <1>2 DEF StreamStep, Stream!WorkerStep, Stream!Check, Stream!Connect,
       Stream!SendHandshake, Stream!RecvResponse, Stream!WakeUp, Stream!NextFrame,
       Stream!NextError, Stream!Stop, Stream!ConnectFails, Stream!CloseSock,
       StoppedCancelled
  <2> QED
    BY <2>1, <2>2 DEF StoppedCancelled
<1>3. CASE OrchestratorStep \/ MainReturns \/ UNCHANGED allVars
  BY <1>3 DEF OrchestratorStep, Stream!ServerStep, MainReturns, allVars, vars, rustVars,
     streamerVars, StoppedCancelled
<1> QED
  BY <1>1, <1>2, <1>3 DEF WorkersNext

\* stream_worker in the running example: whatever happens to the stream and to the
\* component's connection, a worker stops only after the SHUTDOWN of the connection on
\* which it was started, and never while that connection is still served.
THEOREM OnlyShutdownStopsHolds == WorkersSpec => []OnlyShutdownStops
<1>1. WorkersInit => StoppedCancelled
  BY DEF WorkersInit, Stream!Init, StoppedCancelled
<1>2. TypeInv /\ ShutdownInv /\ StoppedCancelled /\ [WorkersNext]_allVars
        => StoppedCancelled'
  BY WorkersNextStopped
<1>3. StoppedCancelled /\ ShutdownInv /\ AskedShutdown => OnlyShutdownStops
  BY DEF StoppedCancelled, ShutdownInv, TokenInv, AskedShutdown, OnlyShutdownStops
<1> QED
  BY ComponentAlone, TypeInvariance, ShutdownInvariance, AskedInvariance, <1>1, <1>2,
     <1>3, PTL DEF WorkersSpec

-----------------------------------------------------------------------------
(* The worker *)

\* RustStream once more, with its theorems.
Proved == INSTANCE RustStreamProofs
    WITH pc <- spc, cancelled <- token \in cancelled, dials <- sdials,
         MaxDials <- StreamDials

\* Both instances of RustStream, the one of the model and the one under the theorems,
\* are the same specification.
LEMMA SameStream == Stream!Spec => Proved!Spec
<1>1. Stream!Init => Proved!Init
  BY DEF Stream!Init, Proved!Init, Stream!StreamInit, Proved!StreamInit
<1>2. [Stream!Next]_(Stream!vars) => [Proved!Next]_(Proved!vars)
  <2>1. UNCHANGED Stream!vars => UNCHANGED Proved!vars
    BY DEF Stream!vars, Proved!vars, Stream!streamVars, Proved!streamVars,
       Stream!workerVars, Proved!workerVars
  <2>2. Stream!WorkerStep => Proved!WorkerStep
    BY DEF Stream!WorkerStep, Proved!WorkerStep, Stream!Check, Proved!Check,
       Stream!Connect, Proved!Connect, Stream!SendHandshake, Proved!SendHandshake,
       Stream!RecvResponse, Proved!RecvResponse, Stream!WakeUp, Proved!WakeUp,
       Stream!NextFrame, Proved!NextFrame, Stream!NextError, Proved!NextError,
       Stream!Stop, Proved!Stop, Stream!ConnectFails, Proved!ConnectFails,
       Stream!OpenSock, Proved!OpenSock, Stream!CloseSock, Proved!CloseSock,
       Stream!streamVars, Proved!streamVars, Stream!workerVars, Proved!workerVars
  <2>3. Stream!Cancel => Proved!Cancel
    BY DEF Stream!Cancel, Proved!Cancel, Stream!streamVars, Proved!streamVars
  <2>4. Stream!ServerStep => Proved!ServerStep
    BY DEF Stream!ServerStep, Proved!ServerStep, Stream!StreamServerNext,
       Proved!StreamServerNext, Stream!AnswerHandshake, Proved!AnswerHandshake,
       Stream!Publish, Proved!Publish, Stream!PublishGarbage, Proved!PublishGarbage,
       Stream!ServerCloses, Proved!ServerCloses, Stream!Answers, Proved!Answers,
       Stream!Line, Proved!Line, Stream!Frame, Proved!Frame, Stream!workerVars,
       Proved!workerVars
  <2> QED
    BY <2>1, <2>2, <2>3, <2>4 DEF Stream!Next, Proved!Next
<1> QED
  BY <1>1, <1>2, PTL DEF Stream!Spec, Proved!Spec

\* DataStream in the running example: a worker handles the frames of its connection in
\* order and without a gap, whatever the component and aegisd do.
THEOREM FramesInOrderHolds == WorkersSpec => []FramesInOrder
<1>1. Proved!Spec => []Proved!FramesInOrder
  BY WorkersAssumption, Proved!FramesInOrderHolds
<1>2. Proved!FramesInOrder => FramesInOrder
  BY DEF FramesInOrder, Stream!FramesInOrder, Proved!FramesInOrder, Stream!Frame, Proved!Frame
<1> QED
  BY <1>1, <1>2, WorkerSpecHolds, SameStream, PTL DEF WorkerSpec

\* stream_worker in the running example: after SHUTDOWN was read no attempt to connect
\* starts, except the one the worker had decided on.
THEOREM NoDialAfterShutdownHolds == WorkersSpec => NoDialAfterShutdown
<1>1. Proved!Spec => Proved!NoDialAfterCancel
  BY WorkersAssumption, Proved!NoDialHolds
<1>2. UNCHANGED Proved!vars => UNCHANGED Stream!vars
  BY DEF Stream!vars, Proved!vars, Stream!streamVars, Proved!streamVars,
     Stream!workerVars, Proved!workerVars
<1> QED
  BY <1>1, <1>2, WorkerSpecHolds, SameStream, PTL
     DEF WorkerSpec, NoDialAfterShutdown, Proved!NoDialAfterCancel,
         Stream!NoDialAfterCancel
=============================================================================
