------------------------------ MODULE GoProofs ------------------------------
(***************************************************************************)
(* The Go component, for every value of the constants: its types, its      *)
(* replies, its reconnection budget, and what a session announces.         *)
(*                                                                         *)
(* Some of it is only true as long as the component's own handlers leave   *)
(* the state alone; these theorems speak of the time before the first      *)
(* update by a handler (`updates = 0').                                    *)
(***************************************************************************)
EXTENDS GoWorkers, ConnectionProofs, SequenceTheorems

-----------------------------------------------------------------------------
(* The socket *)

\* What a decoder leaves behind the frame that it returned are later frames.
LEMMA LeftoversTaken ==
    ASSUME LinkTypeOK, inbox # <<>>, inbox' \in Leftovers(Tail(inbox))
    PROVE  \E k \in Nat \ {0} : Taken(k)
<1> DEFINE rest == Tail(inbox)
<1>1. /\ rest \in Seq(ServerFrames) /\ Len(rest) \in Nat
      /\ \A i \in 1 .. Len(rest) :
            i + 1 \in DOMAIN inbox /\ rest[i] = inbox[i + 1] /\ rest[i] \in ServerFrames
  BY TailFacts, SeqFacts DEF LinkTypeOK
<1>2. CASE inbox' = rest
  <2>1. Taken(1)
    BY <1>2, TakenFacts
  <2> QED
    BY <2>1
<1> HIDE DEF rest
<1>3. ASSUME NEW m \in 1 .. Len(rest) + 1
      PROVE  LET kept == SubSeq(rest, m, Len(rest))
             IN  /\ kept \in Seq(ServerFrames)
                 /\ DOMAIN kept = 1 .. Len(rest) + 1 - m
                 /\ Len(kept) = Len(rest) + 1 - m
                 /\ \A i \in DOMAIN kept : kept[i] = rest[i + m - 1]
  <2> DEFINE kept == SubSeq(rest, m, Len(rest))
  <2>1. m \in Int /\ Len(rest) \in Int /\ \A i \in m .. Len(rest) : rest[i] \in ServerFrames
    BY <1>1
  <2>2. /\ kept \in Seq(ServerFrames)
        /\ Len(kept) = IF m <= Len(rest) THEN Len(rest) - m + 1 ELSE 0
        /\ \A i \in 1 .. Len(rest) - m + 1 : kept[i] = rest[m + i - 1]
    BY <2>1, SubSeqProperties
  <2> HIDE DEF kept
  <2>3. DOMAIN kept = 1 .. Len(kept)
    BY <2>2, SeqFacts
  <2>4. Len(kept) = Len(rest) + 1 - m
    BY <2>1, <2>2
  <2>5. ASSUME NEW i \in DOMAIN kept
        PROVE  kept[i] = rest[i + m - 1]
    <3>1. i \in 1 .. Len(rest) - m + 1 /\ i + m - 1 = m + i - 1
      BY <2>1, <2>3, <2>4
    <3> QED
      BY <2>2, <3>1
  <2> QED
    BY <2>2, <2>3, <2>4, <2>5 DEF kept
<1>4. ASSUME NEW k \in 1 .. Len(rest) + 1, inbox' = SubSeq(rest, k, Len(rest))
      PROVE  Taken(k) /\ k \in Nat \ {0}
  <2>1. /\ inbox' \in Seq(ServerFrames)
        /\ DOMAIN inbox' = 1 .. Len(rest) + 1 - k
        /\ \A i \in DOMAIN inbox' : inbox'[i] = rest[i + k - 1]
    BY <1>3, <1>4
  <2>2. ASSUME NEW i \in DOMAIN inbox'
        PROVE  i + k \in DOMAIN inbox /\ inbox'[i] = inbox[i + k]
    <3>1. i + k - 1 \in 1 .. Len(rest) /\ (i + k - 1) + 1 = i + k
      BY <1>1, <2>1, <2>2
    <3> QED
      BY <1>1, <2>1, <3>1
  <2> QED
    BY <2>1, <2>2 DEF Taken
<1>5. ASSUME NEW k \in 1 .. Len(rest),
             inbox' = <<Torn>> \o SubSeq(rest, k + 1, Len(rest))
      PROVE  Taken(k) /\ k \in Nat \ {0}
  <2> DEFINE kept == SubSeq(rest, k + 1, Len(rest))
  <2>1. k + 1 \in 1 .. Len(rest) + 1 /\ Len(rest) + 1 - (k + 1) = Len(rest) - k
    BY <1>1
  <2>2. /\ kept \in Seq(ServerFrames) /\ Len(kept) = Len(rest) - k
        /\ DOMAIN kept = 1 .. Len(rest) - k
        /\ \A i \in DOMAIN kept : kept[i] = rest[i + (k + 1) - 1]
    BY <1>3, <2>1
  <2>3. Torn \in ServerFrames /\ Garbage(Torn)
    <3>1. /\ Undecodable \in MessageTypes \cup {Undecodable} /\ "ACK" \in Commands
          /\ 0 \in Nat /\ NoId \in Args
      BY DEF Commands, Args
    <3>2. Torn \in ServerFrames
      BY <3>1, FrameTypes DEF Torn
    <3>3. Garbage(Torn)
      BY DEF Torn, Garbage, FromServer
    <3> QED
      BY <3>2, <3>3
  <2>4. inbox' = <<Torn>> \o kept
    BY <1>5
  <2> HIDE DEF kept
  <2>5. <<Torn>> \in Seq(ServerFrames) /\ Len(<<Torn>>) = 1 /\ <<Torn>>[1] = Torn
    BY <2>3
  <2>6. /\ inbox' \in Seq(ServerFrames)
        /\ Len(inbox') = 1 + Len(kept)
        /\ \A i \in 1 .. 1 + Len(kept) :
              inbox'[i] = IF i <= 1 THEN <<Torn>>[i] ELSE kept[i - 1]
    BY <2>2, <2>4, <2>5, ConcatProperties
  <2>7. DOMAIN inbox' = 1 .. 1 + Len(kept)
    BY <2>6, SeqFacts
  <2>8. inbox'[1] = Torn
    <3>1. 1 \in 1 .. 1 + Len(kept) /\ 1 <= 1
      BY <1>1, <2>2
    <3>2. inbox'[1] = <<Torn>>[1]
      BY <2>6, <3>1
    <3> QED
      BY <2>5, <3>2
  <2>9. ASSUME NEW i \in DOMAIN inbox', i # 1
        PROVE  i + k \in DOMAIN inbox /\ inbox'[i] = inbox[i + k]
    <3>1. /\ ~(i <= 1) /\ i - 1 \in 1 .. Len(rest) - k
          /\ i - 1 + (k + 1) - 1 \in 1 .. Len(rest)
          /\ (i - 1 + (k + 1) - 1) + 1 = i + k
      BY <1>1, <2>2, <2>7, <2>9
    <3>2. inbox'[i] = kept[i - 1] /\ kept[i - 1] = rest[i - 1 + (k + 1) - 1]
      BY <2>2, <2>6, <2>7, <2>9, <3>1
    <3> QED
      BY <1>1, <3>1, <3>2
  <2> QED
    BY <1>1, <2>3, <2>6, <2>8, <2>9 DEF Taken
<1> QED
  BY <1>2, <1>4, <1>5 DEF Leftovers, rest

-----------------------------------------------------------------------------
(* What Run's goroutine does to the connection *)

\* The awaits of SendStateUpdate's ACK.
AwaitAck == {"await_ack_initializing", "await_ack_ready"} \cup AwaitConfig

\* Where Run sends a frame.
Sending == {"register", "send_initializing", "send_ready", "pong", "configure_failed",
            "ack_configure", "send_configured", "send_running", "ack_shutdown",
            "send_shutdown"}

\* Where runOnce holds a connection.
Connected == Sending \cup AwaitHandshake \cup AwaitAck
               \cup {"store", "message_loop", "read"} \cup Leaving

\* runOnce holds a connection exactly there, and stores a state only after it sent it.
Session ==
    /\ link # "down" <=> pc \in Connected
    /\ pc = "store" => then \in AwaitAck
    /\ pc \in Connected => dials >= 1

TypeInv == TypeOK /\ Identities /\ Session

\* The state that is announced there.
StateAt ==
    IF pc = "send_initializing" THEN "INITIALIZING"
    ELSE IF pc = "send_ready" THEN "READY"
    ELSE IF pc = "send_configured" THEN "CONFIGURED"
    ELSE "RUNNING"

\* The frame that is sent there.
FrameAt ==
    IF pc = "register" THEN Envelope("REGISTER", 0, CfgId)
    ELSE IF pc = "pong" THEN Envelope("PONG", cur.id, State)
    ELSE IF pc = "configure_failed" THEN Envelope("RUNTIME_ERROR", 0, "recoverable")
    ELSE IF pc \in {"ack_configure", "ack_shutdown"} THEN Envelope("ACK", cur.id, NoId)
    ELSE IF pc = "send_shutdown" THEN Envelope("SHUTDOWN", 0, NoId)
    ELSE Envelope("STATE_UPDATE", 0, StateAt)

\* recv read a frame, whether it could decode it or not.
Takes ==
    /\ inbox # <<>>
    /\ inbox' \in Leftovers(Tail(inbox))
    /\ UNCHANGED <<link, sent, srvVars>>

\* The frames that Run sends are component frames.
LEMMA FrameAtType ==
    ASSUME TypeOK
    PROVE  /\ FrameAt \in ComponentFrames
           /\ FrameAt.command = "REGISTER" => FrameAt.arg \in ComponentIds \cup {NoId}
           /\ pc \in Sending =>
                /\ FrameAt.command =
                     IF pc = "register" THEN "REGISTER"
                     ELSE IF pc = "pong" THEN "PONG"
                     ELSE IF pc = "configure_failed" THEN "RUNTIME_ERROR"
                     ELSE IF pc \in {"ack_configure", "ack_shutdown"} THEN "ACK"
                     ELSE IF pc = "send_shutdown" THEN "SHUTDOWN"
                     ELSE "STATE_UPDATE"
                /\ FrameAt.corr =
                     IF pc \in {"pong", "ack_configure", "ack_shutdown"} THEN cur.id ELSE 0
                /\ pc = "pong" => FrameAt.arg = State
                /\ IsUpdate(FrameAt) => FrameAt.arg = StateAt
<1>1. /\ cur.id \in Nat /\ State \in Args /\ NoId \in Args /\ "recoverable" \in Args
      /\ CfgId \in ComponentIds \cup {NoId} /\ CfgId \in Args /\ StateAt \in Args
  BY GoAssumption DEF TypeOK, ServerFrames, Args, ComponentStates, StateAt
<1>2. {"REGISTER", "PONG", "RUNTIME_ERROR", "ACK", "STATE_UPDATE", "SHUTDOWN"} \subseteq Commands
  BY DEF Commands
<1>3. FrameAt \in ComponentFrames
  BY <1>1, <1>2, FrameTypes DEF FrameAt
<1>4. FrameAt.command = "REGISTER" => FrameAt.arg \in ComponentIds \cup {NoId}
  BY <1>1 DEF FrameAt, Envelope
<1> QED
  BY <1>3, <1>4 DEF FrameAt, Envelope, IsUpdate

\* A step of Run opens the connection, drops it, leaves it alone, takes a frame, or sends
\* the frame of its place.
LEMMA RunStepEffect ==
    ASSUME TypeInv, RunStep
    PROVE  \/ pc = "run" /\ OpenLink
           \/ CloseLink
           \/ UNCHANGED <<linkVars, srvVars>>
           \/ Takes
           \/ pc \in Sending /\ Send(FrameAt)
<1>1. CASE RunOnce \/ RunCancelled \/ AfterRunOnce \/ WakeUp \/ StoreState
  BY <1>1 DEF RunOnce, RunCancelled, AfterRunOnce, WakeUp, StoreState
<1>2. CASE RegisterSendError \/ RegisterRecvError \/ LoopRecvFatal \/ LoopRecvError
  BY <1>2 DEF RegisterSendError, RegisterRecvError, LoopRecvFatal, LoopRecvError,
     LeaveRunOnce
<1>3. CASE RecvRegistered
  BY <1>3 DEF RecvRegistered, LeaveRunOnce, Recv, Takes
<1>4. CASE RecvHandshakeAck \/ LoopRecv \/ RecvAckConfigured \/ RecvAckRunning
  BY <1>4 DEF RecvHandshakeAck, LoopRecv, RecvAckConfigured, RecvAckRunning, Recv, Takes
<1>5. CASE \/ LoopReads \/ ConfigSendError
           \/ LoopCancelled \/ CallOnShutdown \/ StoreShutdown \/ CloseConn
  BY <1>5 DEF LoopReads, ConfigSendError, SendFails, LoopCancelled, CallOnShutdown,
     StoreShutdown, CloseConn, LeaveRunOnce
<1>6. CASE ConfigRecvError
  BY <1>6 DEF ConfigRecvError, RecvFails, Takes, linkVars
<1>7. CASE SendRegister
  BY <1>7 DEF SendRegister, RegisterId, FrameAt, Sending
<1>8. CASE SendInitializing \/ SendReady \/ SendConfigured \/ SendRunning
  BY <1>8 DEF SendInitializing, SendReady, SendConfigured, SendRunning, SendUpdate,
     FrameAt, StateAt, Sending
<1>9. CASE SendPong \/ ConfigureFailed \/ AckConfigure \/ AckShutdown \/ SendShutdown
  BY <1>9 DEF SendPong, ConfigureFailed, AckConfigure, AckShutdown, SendShutdown, TrySend,
     SendFails, ReplyCorr, FrameAt, Sending
<1> QED
  BY <1>1, <1>2, <1>3, <1>4, <1>5, <1>6, <1>7, <1>8, <1>9 DEF RunStep

\* What the handler's goroutine sends is a STATE_UPDATE.
LEMMA HandlerEffect ==
    ASSUME HandlerStep
    PROVE  /\ UNCHANGED <<pc, cur>>
           /\ \/ UNCHANGED <<linkVars, srvVars>>
              \/ \E frame \in ComponentFrames :
                    /\ Send(frame)
                    /\ IsUpdate(frame)
                    /\ frame.corr = 0
                    /\ frame.arg \in {"WAITING", "RUNNING"}
<1>1. CASE HandlerSends
  <2>1. PICK state \in {"WAITING", "RUNNING"} : Send(Envelope("STATE_UPDATE", 0, state))
    BY <1>1 DEF HandlerSends
  <2> DEFINE frame == Envelope("STATE_UPDATE", 0, state)
  <2>2. /\ frame \in ComponentFrames /\ IsUpdate(frame) /\ frame.corr = 0
        /\ frame.arg = state
    BY FrameTypes DEF IsUpdate, Commands, Args, ComponentStates
  <2>3. Send(frame)
    BY <2>1
  <2> HIDE DEF frame
  <2> QED
    BY <1>1, <2>2, <2>3 DEF HandlerSends, ctlVars
<1>2. CASE HandlerStores
  BY <1>2 DEF HandlerStores, ctlVars
<1> QED
  BY <1>1, <1>2 DEF HandlerStep

-----------------------------------------------------------------------------
(* Type correctness *)

\* A frame that is sent keeps the connection well typed.
LEMMA SendType ==
    ASSUME LinkTypeOK, Identities, NEW frame \in ComponentFrames,
           frame.command = "REGISTER" => frame.arg \in ComponentIds \cup {NoId},
           link' \in {"down", "up", "eof"}, inbox' \in {inbox, <<>>},
           sent' = Append(sent, frame), UNCHANGED srvVars
    PROVE  LinkTypeOK' /\ Identities'
<1>1. Taken(0) /\ 0 \in Nat
  BY TakenFacts
<1> QED
  BY <1>1, ClientType

\* What Run does keeps the connection well typed.
LEMMA RunStepLinkType ==
    ASSUME TypeInv, RunStep
    PROVE  LinkTypeOK' /\ Identities'
<1>1. /\ LinkTypeOK /\ Identities /\ link \in {"down", "up", "eof"}
      /\ FrameAt \in ComponentFrames
      /\ FrameAt.command = "REGISTER" => FrameAt.arg \in ComponentIds \cup {NoId}
  BY FrameAtType DEF TypeInv, TypeOK, LinkTypeOK
<1>2. CASE OpenLink \/ CloseLink \/ UNCHANGED <<linkVars, srvVars>>
  BY <1>1, <1>2, LinkType
<1>3. CASE Takes
  <2>1. PICK k \in Nat \ {0} : Taken(k)
    BY <1>1, <1>3, LeftoversTaken DEF Takes
  <2>2. k \in Nat
    OBVIOUS
  <2> QED
    BY <1>1, <1>3, <2>1, <2>2, ClientType DEF Takes
<1>4. CASE Send(FrameAt)
  BY <1>1, <1>4, SendType DEF Send
<1> QED
  BY <1>2, <1>3, <1>4, RunStepEffect

\* The envelope that recv returns is a frame of aegisd.
LEMMA RecvType ==
    ASSUME TypeInv, inbox # <<>>
    PROVE  /\ Head(inbox) \in ServerFrames
           /\ Head(inbox).command = "REGISTERED" =>
                Head(inbox).arg \in ComponentIds \cup {NoKey, NotString}
<1>1. Head(inbox) \in ServerFrames /\ 1 \in DOMAIN inbox /\ Head(inbox) = inbox[1]
  BY TailFacts DEF TypeInv, TypeOK, LinkTypeOK
<1> QED
  BY <1>1 DEF TypeInv, Identities

\* What Run does keeps TypeInv.
LEMMA RunStepType ==
    ASSUME TypeInv, RunStep
    PROVE  TypeInv'
<1>1. LinkTypeOK' /\ Identities'
  BY RunStepLinkType
<1>2. /\ dials \in 0 .. MaxDials /\ attempts \in Nat /\ delay \in Nat /\ workers \in Nat
      /\ attempts + 1 \in Nat /\ workers + 1 \in Nat /\ NextDelay(delay) \in Nat
      /\ dials < MaxDials => dials + 1 \in 0 .. MaxDials
      /\ dials + 1 >= 1
  <2>1. dials \in 0 .. MaxDials /\ attempts \in Nat /\ delay \in Nat /\ workers \in Nat
    BY DEF TypeInv, TypeOK
  <2>2. MaxReconnectDelay \in Nat /\ MaxDials \in Nat
    BY GoAssumption
  <2>3. NextDelay(delay) \in Nat
    BY <2>1, <2>2 DEF NextDelay
  <2> QED
    BY <2>1, <2>2, <2>3
<1>3. CASE RunOnce
  <2>1. TypeOK'
    BY <1>1, <1>2, <1>3 DEF RunOnce, OpenLink, ctlVars, linkVars, TypeInv, TypeOK,
       AwaitHandshake, AwaitConfig
  <2>2. Session'
    BY <1>1, <1>2, <1>3 DEF RunOnce, OpenLink, ctlVars, linkVars, TypeInv, Session,
       Connected, Sending, AwaitHandshake, AwaitAck, AwaitConfig, Leaving
  <2> QED
    BY <1>1, <2>1, <2>2 DEF TypeInv
<1>4. CASE RunCancelled \/ AfterRunOnce \/ WakeUp
  <2>1. attempts' \in Nat /\ delay' \in Nat
    BY <1>2, <1>4 DEF RunCancelled, AfterRunOnce, WakeUp
  <2>2. /\ pc' \in {"done", "sleep", "run"}
        /\ result' \in {result, runErr, "canceled", "max_reconnect_attempts"}
        /\ UNCHANGED <<cur, store, then, State, ComponentID, ctxDone, dials, runErr,
                       workers, upd, updates, called>>
    BY <1>4 DEF RunCancelled, AfterRunOnce, WakeUp, Finish, ctlVars
  <2>3. TypeOK'
    BY <1>1, <2>1, <2>2 DEF TypeInv, TypeOK
  <2>4. Session'
    BY <1>1, <1>2, <1>4 DEF RunCancelled, AfterRunOnce, WakeUp, Finish, ctlVars,
       linkVars, TypeInv, Session, Connected, Sending, AwaitHandshake, AwaitAck,
       AwaitConfig, Leaving
  <2> QED
    BY <1>1, <2>3, <2>4 DEF TypeInv
<1>5. CASE StoreState \/ LoopReads \/ ConfigSendError \/ ConfigRecvError
  <2>1. TypeOK'
    BY <1>1, <1>5 DEF StoreState, LoopReads, ConfigSendError, ConfigRecvError, SendFails,
       ctlVars, goVars, linkVars, TypeInv, TypeOK, AwaitHandshake, AwaitConfig
  <2>2. Session'
    BY <1>1, <1>5 DEF StoreState, LoopReads, ConfigSendError, ConfigRecvError, SendFails,
       ctlVars, goVars, linkVars, TypeInv, Session, Connected, Sending, AwaitHandshake,
       AwaitAck, AwaitConfig, Leaving
  <2> QED
    BY <1>1, <2>1, <2>2 DEF TypeInv
<1>6. CASE \/ RegisterSendError \/ RegisterRecvError \/ LoopRecvFatal \/ LoopRecvError
           \/ CloseConn
  <2>1. TypeOK'
    <3>1. /\ pc' = "reconnect"
          /\ runErr' \in {runErr, "other", "fatal"}
          /\ called' \in {called, called \cup {"OnError"}}
          /\ UNCHANGED <<cur, store, then, State, ComponentID, ctxDone, attempts, delay,
                         dials, result, workers, upd, updates>>
      BY <1>6 DEF RegisterSendError, RegisterRecvError, LoopRecvFatal, LoopRecvError,
         CloseConn, LeaveRunOnce, ctlVars
    <3> QED
      BY <1>1, <3>1 DEF Hooks, TypeInv, TypeOK
  <2>2. Session'
    BY <1>1, <1>6 DEF RegisterSendError, RegisterRecvError, LoopRecvFatal, LoopRecvError,
       CloseConn, LeaveRunOnce, CloseLink, ctlVars, TypeInv, Session, Connected, Sending,
       AwaitHandshake, AwaitAck, AwaitConfig, Leaving
  <2> QED
    BY <1>1, <2>1, <2>2 DEF TypeInv
<1>7. CASE RecvRegistered
  <2>1. /\ ComponentID' \in ComponentIds \cup {NoId, NotString, "<nil>"}
        /\ cur' \in ServerFrames
    BY <1>7, RecvType DEF RecvRegistered, Recv, Sprintf, TypeInv, TypeOK
  <2>2. /\ pc' \in {"reconnect", "send_initializing"}
        /\ State' \in {State, "REGISTERED"}
        /\ runErr' \in {runErr, "registration"}
        /\ UNCHANGED <<store, then, ctxDone, attempts, delay, dials, result, workers, upd,
                       updates, called>>
    BY <1>7 DEF RecvRegistered, LeaveRunOnce
  <2>3. TypeOK'
    BY <1>1, <2>1, <2>2 DEF TypeInv, TypeOK, ComponentStates
  <2>4. Session'
    BY <1>1, <1>7 DEF RecvRegistered, Recv, LeaveRunOnce, CloseLink, TypeInv, Session,
       Connected, Sending, AwaitHandshake, AwaitAck, AwaitConfig, Leaving
  <2> QED
    BY <1>1, <2>3, <2>4 DEF TypeInv
<1>8. CASE RecvHandshakeAck \/ RecvAckConfigured \/ RecvAckRunning
  <2>1. cur' \in ServerFrames /\ workers' \in Nat
    BY <1>2, <1>8, RecvType DEF RecvHandshakeAck, RecvAckConfigured, RecvAckRunning, Recv,
       goVars
  <2>2. /\ pc' \in {"send_ready", "message_loop", "send_running"}
        /\ called' \subseteq called \cup {"OnRunning"}
        /\ UNCHANGED <<store, then, State, ComponentID, ctxDone, attempts, delay, dials,
                       runErr, result, upd, updates>>
    BY <1>8 DEF RecvHandshakeAck, RecvAckConfigured, RecvAckRunning, goVars
  <2>3. TypeOK'
    BY <1>1, <2>1, <2>2 DEF TypeInv, TypeOK, Hooks
  <2>4. Session'
    BY <1>1, <1>2, <1>8 DEF RecvHandshakeAck, RecvAckConfigured, RecvAckRunning, Recv,
       goVars, TypeInv, Session, Connected, Sending, AwaitHandshake, AwaitAck, AwaitConfig,
       Leaving
  <2> QED
    BY <1>1, <2>3, <2>4 DEF TypeInv
<1>9. CASE LoopRecv
  <2>1. cur' \in ServerFrames
    BY <1>9, RecvType DEF LoopRecv, Recv
  <2>2. /\ pc' \in {"pong", "ack_configure", "configure_failed", "ack_shutdown",
                    "message_loop"}
        /\ called' \subseteq called \cup {"OnPing", "OnConfigure", "OnError"}
        /\ UNCHANGED <<store, then, State, ComponentID, ctxDone, attempts, delay, dials,
                       runErr, result, workers, upd, updates>>
    BY <1>9 DEF LoopRecv, HandlePing, HandleConfigure, HandleShutdown, HandleRecoverable,
       HandleIgnored
  <2>3. TypeOK'
    BY <1>1, <2>1, <2>2 DEF TypeInv, TypeOK, Hooks
  <2>4. Session'
    BY <1>1, <1>9 DEF LoopRecv, Recv, HandlePing, HandleConfigure, HandleShutdown,
       HandleRecoverable, HandleIgnored, TypeInv, Session, Connected, Sending,
       AwaitHandshake, AwaitAck, AwaitConfig, Leaving
  <2> QED
    BY <1>1, <2>3, <2>4 DEF TypeInv
<1>10. CASE SendInitializing \/ SendReady \/ SendConfigured \/ SendRunning
  <2>1. TypeOK'
    BY <1>1, <1>10 DEF SendInitializing, SendReady, SendConfigured, SendRunning,
       SendUpdate, Send, ComponentStates, goVars, TypeInv, TypeOK, AwaitHandshake,
       AwaitConfig
  <2>2. Session'
    BY <1>1, <1>10 DEF SendInitializing, SendReady, SendConfigured, SendRunning,
       SendUpdate, Send, goVars, TypeInv, Session, Connected, Sending, AwaitHandshake,
       AwaitAck, AwaitConfig, Leaving
  <2> QED
    BY <1>1, <2>1, <2>2 DEF TypeInv
<1>11. CASE \/ SendRegister \/ SendPong \/ ConfigureFailed \/ AckConfigure \/ SendShutdown
  <2>1. TypeOK'
    BY <1>1, <1>11 DEF SendRegister, SendPong, ConfigureFailed, AckConfigure,
       SendShutdown, TrySend, Send, SendFails, ctlVars, goVars, linkVars, TypeInv, TypeOK,
       AwaitHandshake, AwaitConfig, Leaving
  <2>2. Session'
    BY <1>1, <1>11 DEF SendRegister, SendPong, ConfigureFailed, AckConfigure,
       SendShutdown, TrySend, Send, SendFails, ctlVars, goVars, linkVars, TypeInv,
       Session, Connected, Sending, AwaitHandshake, AwaitAck, AwaitConfig, Leaving
  <2> QED
    BY <1>1, <2>1, <2>2 DEF TypeInv
<1>12. CASE LoopCancelled \/ AckShutdown \/ CallOnShutdown \/ StoreShutdown
  <2>1. /\ pc \in Connected /\ pc' \in Leaving
        /\ runErr' \in {runErr, "nil", "canceled"}
        /\ State' \in {State, "SHUTDOWN"}
        /\ called' \in {called, called \cup {"OnShutdown"}}
        /\ UNCHANGED <<cur, store, then, ComponentID, ctxDone, attempts, delay, dials,
                       result, workers, upd, updates>>
    BY <1>12 DEF LoopCancelled, AckShutdown, CallOnShutdown, StoreShutdown, ctlVars,
       Leaving, Connected, Sending
  <2>2. TypeOK'
    BY <1>1, <2>1 DEF TypeInv, TypeOK, Hooks, ComponentStates
  <2>3. link' = link
    BY <1>12 DEF LoopCancelled, AckShutdown, CallOnShutdown, StoreShutdown, Send,
       SendFails, linkVars
  <2>4. pc' # "store" /\ pc' \in Connected
    BY <2>1 DEF Leaving, Connected
  <2>5. Session'
    BY <2>1, <2>3, <2>4 DEF TypeInv, Session
  <2> QED
    BY <1>1, <2>2, <2>5 DEF TypeInv
<1> QED
  BY <1>3, <1>4, <1>5, <1>6, <1>7, <1>8, <1>9, <1>10, <1>11, <1>12 DEF RunStep

\* So does what the handler's goroutine does.
LEMMA HandlerStepType ==
    ASSUME TypeInv, HandlerStep
    PROVE  TypeInv'
<1>1. LinkTypeOK /\ Identities /\ link \in {"down", "up", "eof"}
  BY DEF TypeInv, TypeOK, LinkTypeOK
<1>2. LinkTypeOK' /\ Identities'
  <2>1. CASE UNCHANGED <<linkVars, srvVars>>
    BY <1>1, <2>1, LinkType
  <2>2. ASSUME NEW frame \in ComponentFrames, Send(frame), IsUpdate(frame)
        PROVE  LinkTypeOK' /\ Identities'
    BY <1>1, <2>2, SendType DEF Send, IsUpdate
  <2> QED
    BY <2>1, <2>2, HandlerEffect
<1>3. updates < MaxUpdates => updates + 1 \in 0 .. MaxUpdates
  <2>1. updates \in 0 .. MaxUpdates /\ MaxUpdates \in Nat
    BY GoAssumption DEF TypeInv, TypeOK
  <2> QED
    BY <2>1
<1>4. /\ updates' \in 0 .. MaxUpdates
      /\ upd' \in {"none", "WAITING", "RUNNING"}
      /\ State' \in ComponentStates
  BY <1>3 DEF HandlerStep, HandlerSends, HandlerStores, TypeInv, TypeOK, ComponentStates
<1>5. UNCHANGED <<link, pc, ctlVars, ComponentID, ctxDone, attempts, delay, dials, runErr,
                  result, workers, called>>
  BY DEF HandlerStep, HandlerSends, HandlerStores, Send, linkVars
<1>6. TypeOK'
  BY <1>2, <1>4, <1>5 DEF TypeInv, TypeOK, ctlVars
<1>7. Session'
  BY <1>5 DEF TypeInv, Session, ctlVars
<1> QED
  BY <1>2, <1>6, <1>7 DEF TypeInv

\* TypeInv is inductive.
LEMMA TypeInvariance == Spec => []TypeInv
<1>1. Init => TypeInv
  <2> SUFFICES ASSUME Init
               PROVE  TypeInv
    OBVIOUS
  <2>1. LinkTypeOK /\ DOMAIN inbox = {} /\ DOMAIN sent = {}
    BY EmptyFacts DEF Init, LinkInit, LinkTypeOK
  <2>2. cur \in ServerFrames
    BY FrameTypes DEF Init, NoFrame, MessageTypes, Commands, Args
  <2>3. dials \in 0 .. MaxDials /\ updates \in 0 .. MaxUpdates /\ delay \in Nat
    BY GoAssumption DEF Init
  <2>4. Identities
    BY <2>1 DEF Identities
  <2>5. Session
    BY DEF Init, LinkInit, Session, Connected, Sending, AwaitHandshake, AwaitAck,
       AwaitConfig, Leaving
  <2>6. attempts \in Nat /\ workers \in Nat /\ ctxDone \in BOOLEAN
    BY DEF Init
  <2>7. TypeOK
    BY <2>1, <2>2, <2>3, <2>6 DEF Init, TypeOK, ComponentStates
  <2> QED
    BY <2>4, <2>5, <2>7 DEF TypeInv
<1>2. TypeInv /\ [Next]_vars => TypeInv'
  <2> SUFFICES ASSUME TypeInv, [Next]_vars
               PROVE  TypeInv'
    OBVIOUS
  <2>1. CASE RunStep
    BY <2>1, RunStepType
  <2>2. CASE HandlerStep
    BY <2>2, HandlerStepType
  <2>3. CASE ServerStep
    <3>1. /\ LinkTypeOK' /\ Identities' /\ link # "down" /\ link' # "down"
          /\ UNCHANGED <<pc, ctlVars, goVars>>
      BY <2>3, ServerType, ServerEffect DEF ServerStep, TypeInv, TypeOK
    <3>2. TypeOK'
      BY <3>1 DEF ctlVars, goVars, TypeInv, TypeOK
    <3>3. Session'
      BY <3>1 DEF ctlVars, goVars, TypeInv, Session
    <3> QED
      BY <3>1, <3>2, <3>3 DEF TypeInv
  <2>4. CASE Cancel \/ UNCHANGED vars
    <3>1. LinkTypeOK' /\ Identities'
      BY <2>4, LinkType DEF Cancel, vars, TypeInv, TypeOK
    <3>2. /\ ctxDone' \in BOOLEAN
          /\ UNCHANGED <<pc, ctlVars, State, ComponentID, attempts, delay, dials, runErr,
                         result, workers, upd, updates, called>>
      BY <2>4 DEF Cancel, vars, goVars, TypeInv, TypeOK
    <3>3. TypeOK'
      BY <3>1, <3>2 DEF ctlVars, TypeInv, TypeOK
    <3>4. Session'
      BY <2>4 DEF Cancel, vars, linkVars, ctlVars, goVars, TypeInv, Session
    <3> QED
      BY <3>1, <3>3, <3>4 DEF TypeInv
  <2> QED
    BY <2>1, <2>2, <2>3, <2>4 DEF Next
<1> QED
  BY <1>1, <1>2, PTL DEF Spec

\* Every variable of the Go component keeps its type, in every instance.
THEOREM TypeCorrect == Spec => []TypeOK
<1>1. TypeInv => TypeOK
  BY DEF TypeInv
<1> QED
  BY <1>1, TypeInvariance, PTL

-----------------------------------------------------------------------------
(* Replies *)

\* Where Run answers the request that it received last.
Replying == {"pong", "ack_configure", "ack_shutdown"}

\* The command of that request.
Wanted(at) ==
    IF at = "pong" THEN "PING"
    ELSE IF at = "ack_configure" THEN "CONFIGURE"
    ELSE "SHUTDOWN"

\* The envelope being handled is a request in hand, of the command that its handler is
\* for.
Handling ==
    pc \in Replying => InHand(cur.id) /\ asked[cur.id] = Wanted(pc)

ReplyInv == QueueInv /\ Handling

\* messageLoop comes to a reply only with the request that it just received.
LEMMA Dispatch ==
    ASSUME TypeInv, RunStep, pc' \in Replying
    PROVE  /\ Takes
           /\ cur' = Head(inbox)
           /\ Head(inbox).command = Wanted(pc')
<1> DEFINE others == {"run", "sleep", "reconnect", "done", "store", "send_initializing",
                      "send_ready", "message_loop", "read", "send_configured",
                      "send_running", "await_registered", "register"} \cup Leaving
<1>1. CASE \/ RunOnce \/ RunCancelled \/ AfterRunOnce \/ WakeUp \/ LoopReads
           \/ RegisterSendError \/ RegisterRecvError \/ LoopRecvFatal \/ LoopRecvError
           \/ RecvRegistered \/ RecvHandshakeAck \/ RecvAckConfigured \/ RecvAckRunning
           \/ ConfigSendError \/ ConfigRecvError \/ LoopCancelled \/ CallOnShutdown
           \/ StoreShutdown \/ CloseConn
  <2>1. pc' \in others
    BY <1>1 DEF RunOnce, RunCancelled, AfterRunOnce, WakeUp, LoopReads, Finish,
       RegisterSendError, RegisterRecvError, LoopRecvFatal, LoopRecvError, LeaveRunOnce,
       RecvRegistered, RecvHandshakeAck, RecvAckConfigured, RecvAckRunning,
       ConfigSendError, ConfigRecvError, LoopCancelled, CallOnShutdown, StoreShutdown,
       CloseConn, Leaving
  <2> QED
    BY <2>1 DEF Replying, Leaving
<1>2. CASE \/ SendInitializing \/ SendReady \/ SendConfigured \/ SendRunning
           \/ SendRegister \/ SendPong \/ ConfigureFailed \/ AckConfigure \/ AckShutdown
           \/ SendShutdown
  <2>1. pc' \in others
    BY <1>2 DEF SendInitializing, SendReady, SendConfigured, SendRunning, SendUpdate,
       SendRegister, SendPong, ConfigureFailed, AckConfigure, AckShutdown, SendShutdown,
       TrySend, Leaving
  <2> QED
    BY <2>1 DEF Replying, Leaving
<1>3. CASE StoreState
  <2>1. pc' \in AwaitAck
    BY <1>3 DEF StoreState, TypeInv, Session
  <2> QED
    BY <2>1 DEF AwaitAck, AwaitConfig, Replying
<1>4. CASE LoopRecv
  BY <1>4 DEF LoopRecv, Recv, Takes, HandlePing, HandleConfigure, HandleShutdown,
     HandleRecoverable, HandleIgnored, Replying, Wanted
<1> QED
  BY <1>1, <1>2, <1>3, <1>4 DEF RunStep

\* What Run does keeps ReplyInv.
LEMMA RunStepReplies ==
    ASSUME TypeInv, ReplyInv, RunStep
    PROVE  ReplyInv'
<1>1. LinkTypeOK /\ QueueInv
  BY DEF TypeInv, TypeOK, ReplyInv
<1>2. QueueInv'
  <2>1. CASE OpenLink \/ CloseLink \/ UNCHANGED <<linkVars, srvVars>>
    BY <1>1, <2>1, LinkQueue
  <2>2. CASE Takes
    <3>1. PICK k \in Nat \ {0} : Taken(k)
      BY <1>1, <2>2, LeftoversTaken DEF Takes
    <3>2. k \in Nat /\ UNCHANGED <<sent, asked>>
      BY <2>2 DEF Takes, srvVars
    <3> QED
      BY <1>1, <3>1, <3>2, ClientQueue
  <2>3. CASE pc \in Sending /\ Send(FrameAt)
    <3>1. /\ FrameAt \in ComponentFrames
          /\ FrameAt.corr = IF pc \in Replying THEN cur.id ELSE 0
          /\ pc \in Replying => FrameAt.command = ReplyTo(Wanted(pc))
      BY <2>3, FrameAtType DEF TypeInv, Replying, Wanted, ReplyTo
    <3>2. MayAnswer(FrameAt)
      BY <3>1 DEF MayAnswer, ReplyInv, Handling
    <3>3. /\ UNCHANGED <<inbox, asked>>
          /\ sent' = Append(sent, FrameAt)
      BY <2>3 DEF Send, srvVars
    <3>4. Taken(0) /\ 0 \in Nat
      BY <1>1, <3>3, TakenFacts
    <3> QED
      BY <1>1, <3>1, <3>2, <3>3, <3>4, ClientQueue
  <2> QED
    BY <2>1, <2>2, <2>3, RunStepEffect
<1>3. ASSUME pc' \in Replying
      PROVE  InHand(cur.id)' /\ asked'[cur'.id] = Wanted(pc')
  <2>1. Takes /\ cur' = Head(inbox) /\ Head(inbox).command = Wanted(pc')
    BY <1>3, Dispatch
  <2> DEFINE frame == Head(inbox)
  <2>2. PICK k \in Nat \ {0} : Taken(k)
    BY <1>1, <2>1, LeftoversTaken DEF Takes
  <2>3. frame.command \in Requests
    BY <2>1 DEF Wanted, Requests
  <2>4. UNCHANGED <<sent, asked>> /\ inbox # <<>>
    BY <2>1 DEF Takes, srvVars
  <2> HIDE DEF frame
  <2>5. PICK head : head = frame
    OBVIOUS
  <2>6. /\ InHand(head.id)'
        /\ asked[head.id] = head.command
    BY <1>1, <2>2, <2>3, <2>4, <2>5, HeadInHand DEF frame
  <2>7. cur' = head /\ head.command = Wanted(pc')
    BY <2>1, <2>5 DEF frame
  <2> QED
    BY <2>4, <2>6, <2>7 DEF InHand
<1> QED
  BY <1>2, <1>3 DEF ReplyInv, Handling

\* ReplyInv is inductive.
LEMMA ReplyInvariance == Spec => []ReplyInv
<1>1. Init => ReplyInv
  <2> SUFFICES ASSUME Init
               PROVE  ReplyInv
    OBVIOUS
  <2>1. DOMAIN inbox = {} /\ DOMAIN sent = {} /\ pc = "run"
    BY EmptyFacts DEF Init, LinkInit
  <2> QED
    BY <2>1 DEF ReplyInv, QueueInv, RepliesMatch, Numbered, Ahead, Handling, Replying
<1>2. TypeInv /\ ReplyInv /\ [Next]_vars => ReplyInv'
  <2> SUFFICES ASSUME TypeInv, ReplyInv, [Next]_vars
               PROVE  ReplyInv'
    OBVIOUS
  <2>1. LinkTypeOK /\ QueueInv
    BY DEF TypeInv, TypeOK, ReplyInv
  <2>2. CASE RunStep
    BY <2>2, RunStepReplies
  <2>3. ASSUME QueueInv', UNCHANGED <<pc, cur>>,
               \A r : InHand(r) => InHand(r)',
               \A r \in DOMAIN asked : asked'[r] = asked[r]
        PROVE  ReplyInv'
    <3>1. CASE pc \in Replying
      <4>1. InHand(cur.id) /\ asked[cur.id] = Wanted(pc)
        BY <3>1 DEF ReplyInv, Handling
      <4>2. InHand(cur.id)'
        BY <2>3, <4>1 DEF InHand
      <4>3. asked'[cur.id] = Wanted(pc)
        BY <2>3, <4>1 DEF InHand
      <4> QED
        BY <2>3, <4>1, <4>2, <4>3 DEF ReplyInv, Handling
    <3>2. CASE pc \notin Replying
      BY <2>3, <3>2 DEF ReplyInv, Handling
    <3> QED
      BY <3>1, <3>2
  <2>4. CASE HandlerStep
    <3>1. UNCHANGED <<pc, cur>>
      BY <2>4, HandlerEffect
    <3>2. CASE UNCHANGED <<linkVars, srvVars>>
      <4>1. QueueInv'
        BY <2>1, <3>2, LinkQueue
      <4>2. UNCHANGED <<inbox, sent, asked>>
        BY <3>2 DEF linkVars, srvVars
      <4> QED
        BY <2>3, <3>1, <4>1, <4>2 DEF InHand
    <3>3. ASSUME NEW frame \in ComponentFrames, Send(frame), frame.corr = 0
          PROVE  ReplyInv'
      <4>1. sent' = Append(sent, frame) /\ UNCHANGED <<inbox, asked>> /\ MayAnswer(frame)
        BY <3>3 DEF Send, srvVars, MayAnswer
      <4>2. Taken(0) /\ 0 \in Nat
        BY <2>1, <4>1, TakenFacts
      <4>3. QueueInv'
        BY <2>1, <4>1, <4>2, ClientQueue
      <4>4. \A r : InHand(r) => InHand(r)'
        BY <2>1, <3>3, <4>1, <4>2, StillInHand
      <4> QED
        BY <2>3, <3>1, <4>1, <4>3, <4>4
    <3> QED
      BY <2>4, <3>2, <3>3, HandlerEffect
  <2>5. CASE ServerStep
    BY <2>1, <2>3, <2>5, ServerQueue DEF ServerStep, ctlVars
  <2>6. CASE Cancel \/ UNCHANGED vars
    <3>1. UNCHANGED <<linkVars, srvVars, pc, cur>>
      BY <2>6 DEF Cancel, vars, ctlVars
    <3>2. QueueInv'
      BY <2>1, <3>1, LinkQueue
    <3>3. UNCHANGED <<inbox, sent, asked>>
      BY <3>1 DEF linkVars, srvVars
    <3> QED
      BY <2>3, <3>1, <3>2, <3>3 DEF InHand
  <2> QED
    BY <2>2, <2>4, <2>5, <2>6 DEF Next
<1> QED
  BY <1>1, <1>2, TypeInvariance, PTL DEF Spec

\* The handlers of PING, CONFIGURE and SHUTDOWN, when frames may be lost or torn by the
\* decoders of recv and the handler's goroutine sends in between: every reply carries
\* the id of a request of this connection and the command it calls for, and requests
\* are answered in their order, each at most once.
THEOREM RepliesMatchHolds == Spec => []RepliesMatch
<1>1. ReplyInv => RepliesMatch
  BY DEF ReplyInv, QueueInv
<1> QED
  BY <1>1, ReplyInvariance, PTL

-----------------------------------------------------------------------------
(* The reconnection budget *)

\* Every step of runOnce after it dialled, whatever else it does.
InSession ==
    /\ pc \in Connected
    /\ pc' \in (Connected \cup {"reconnect"}) \ {"register"}
    /\ pc = "register" /\ pc' # "reconnect" => Send(FrameAt)
    /\ UNCHANGED <<ctxDone, attempts, delay, dials, result>>
    /\ \/ runErr' \in {runErr, "nil", "registration", "fatal", "other"}
       \/ runErr' = "canceled" /\ ctxDone

\* A step of Run is one of its loop, or one of the session.
LEMMA RunStepPlace ==
    ASSUME TypeInv, RunStep
    PROVE  RunOnce \/ RunCancelled \/ AfterRunOnce \/ WakeUp \/ InSession
<1> USE DEF InSession, Connected, Sending, AwaitHandshake, AwaitAck, AwaitConfig, Leaving
<1>1. CASE StoreState
  BY <1>1 DEF StoreState, TypeInv, Session
<1>2. CASE \/ RegisterSendError \/ RegisterRecvError \/ LoopRecvFatal \/ LoopRecvError
  BY <1>2 DEF RegisterSendError, RegisterRecvError, LoopRecvFatal, LoopRecvError,
     LeaveRunOnce
<1>3. CASE RecvRegistered \/ LoopReads \/ ConfigSendError \/ ConfigRecvError
  BY <1>3 DEF RecvRegistered, LeaveRunOnce, LoopReads, ConfigSendError, ConfigRecvError,
     goVars
<1>4. CASE RecvHandshakeAck \/ RecvAckConfigured \/ RecvAckRunning
  BY <1>4 DEF RecvHandshakeAck, RecvAckConfigured, RecvAckRunning, goVars
<1>5. CASE LoopRecv
  BY <1>5 DEF LoopRecv, HandlePing, HandleConfigure, HandleShutdown, HandleRecoverable,
     HandleIgnored
<1>6. CASE LoopCancelled \/ AckShutdown \/ CallOnShutdown \/ StoreShutdown \/ CloseConn
  BY <1>6 DEF LoopCancelled, AckShutdown, CallOnShutdown, StoreShutdown, CloseConn,
     LeaveRunOnce
<1>7. CASE SendInitializing \/ SendReady \/ SendConfigured \/ SendRunning
  BY <1>7 DEF SendInitializing, SendReady, SendConfigured, SendRunning, SendUpdate, goVars
<1>8. CASE SendRegister
  BY <1>8 DEF SendRegister, RegisterId, FrameAt, goVars
<1>9. CASE SendPong \/ ConfigureFailed \/ AckConfigure \/ SendShutdown
  BY <1>9 DEF SendPong, ConfigureFailed, AckConfigure, SendShutdown, TrySend, goVars
<1> QED
  BY <1>1, <1>2, <1>3, <1>4, <1>5, <1>6, <1>7, <1>8, <1>9 DEF RunStep

\* How often Run slept: it does between two calls of runOnce.
Sleeps == IF pc = "run" THEN dials ELSE dials - 1

\* While Run runs, `attempts' counts the calls of runOnce that returned, the budget is
\* not used up, `delay' is the one for that many sleeps, and runOnce returns the
\* context's error only when the context is done.
BudgetInv ==
    /\ ReconnectBudget
    /\ pc # "done" => delay = DelayAfter(Sleeps, ReconnectDelay, MaxReconnectDelay)
    /\ pc \in {"run", "sleep"} => dials = attempts
    /\ pc = "sleep" => dials # 0
    /\ pc \in Connected \cup {"reconnect"} => dials = attempts + 1
    /\ pc # "done" => /\ result = "none"
                      /\ MaxReconnectAttempts > 0 => attempts < MaxReconnectAttempts
                      /\ ~Reconnect => attempts = 0
    /\ runErr = "canceled" => ctxDone

\* What Run does keeps the budget.
LEMMA BudgetStep ==
    ASSUME TypeInv, BudgetInv, RunStep
    PROVE  BudgetInv'
<1>1. /\ attempts \in Nat /\ MaxReconnectAttempts \in Nat
      /\ runErr \in {"none", "nil", "canceled", "registration", "fatal", "other"}
  BY GoAssumption DEF TypeInv, TypeOK
<1>2. \A place \in {"run", "sleep", "reconnect", "done"} : place \notin Connected
  BY DEF Connected, Sending, AwaitHandshake, AwaitAck, AwaitConfig, Leaving
<1>3. CASE RunOnce
  <2>1. /\ pc = "run" /\ pc' \in {"register", "reconnect"}
        /\ dials' = dials + 1 /\ UNCHANGED <<attempts, delay, result, ctxDone>>
        /\ runErr' \in {runErr, "other"}
    BY <1>3 DEF RunOnce
  <2>2. dials' = attempts' + 1
    BY <2>1 DEF BudgetInv
  <2>3. /\ result' = "none"
        /\ MaxReconnectAttempts > 0 => attempts < MaxReconnectAttempts
        /\ ~Reconnect => attempts = 0
        /\ runErr' = "canceled" => ctxDone'
    BY <2>1 DEF BudgetInv
  <2>4. ReconnectBudget'
    BY <1>1, <2>1, <2>2, <2>3 DEF ReconnectBudget
  <2>5. Sleeps' = Sleeps
    BY <1>1, <2>1, <2>2 DEF Sleeps, BudgetInv
  <2> QED
    BY <2>1, <2>2, <2>3, <2>4, <2>5 DEF BudgetInv
<1>4. CASE RunCancelled
  <2>1. /\ pc' = "done" /\ result' = "canceled" /\ ctxDone
        /\ UNCHANGED <<ctxDone, attempts, dials, runErr>>
    BY <1>4 DEF RunCancelled, Finish
  <2> QED
    BY <1>2, <2>1 DEF BudgetInv, ReconnectBudget
<1>5. CASE AfterRunOnce
  <2>1. pc = "reconnect" /\ UNCHANGED <<ctxDone, delay, dials, runErr>>
    BY <1>5 DEF AfterRunOnce
  <2>2. /\ dials = attempts + 1 /\ result = "none"
        /\ MaxReconnectAttempts > 0 => attempts < MaxReconnectAttempts
        /\ ReconnectBudget
        /\ delay = DelayAfter(dials - 1, ReconnectDelay, MaxReconnectDelay)
        /\ runErr = "canceled" => ctxDone
    BY <2>1 DEF BudgetInv, Sleeps
  <2>3. CASE /\ Final(runErr) \/ ~Reconnect
             /\ Finish(runErr) /\ UNCHANGED attempts
    <3>1. pc' = "done" /\ result' = runErr
      BY <2>3 DEF Finish
    <3>2. ReconnectBudget'
      BY <1>1, <2>1, <2>2, <2>3, <3>1 DEF ReconnectBudget, Final
    <3> QED
      BY <1>2, <2>1, <2>2, <3>1, <3>2 DEF BudgetInv
  <2>4. CASE /\ Reconnect /\ attempts' = attempts + 1
             /\ AttemptsExhausted(attempts + 1)
             /\ Finish("max_reconnect_attempts")
    <3>1. pc' = "done" /\ result' = "max_reconnect_attempts"
      BY <2>4 DEF Finish
    <3>2. MaxReconnectAttempts > 0 /\ attempts + 1 >= MaxReconnectAttempts
      BY <2>4 DEF AttemptsExhausted
    <3>3. dials' = MaxReconnectAttempts /\ dials' <= MaxReconnectAttempts
      BY <1>1, <2>1, <2>2, <3>2
    <3>4. ReconnectBudget'
      BY <2>4, <3>1, <3>3 DEF ReconnectBudget
    <3> QED
      BY <1>2, <2>1, <2>2, <3>1, <3>4 DEF BudgetInv
  <2>5. CASE /\ Reconnect /\ attempts' = attempts + 1
             /\ ~AttemptsExhausted(attempts + 1)
             /\ pc' = "sleep" /\ UNCHANGED result
    <3>1. MaxReconnectAttempts > 0 => attempts' < MaxReconnectAttempts
      BY <1>1, <2>5 DEF AttemptsExhausted
    <3>2. ReconnectBudget'
      BY <2>1, <2>2, <2>5 DEF ReconnectBudget
    <3>3. dials' = attempts' /\ dials' # 0
      BY <1>1, <2>1, <2>2, <2>5
    <3> QED
      BY <1>2, <2>1, <2>2, <2>5, <3>1, <3>2, <3>3 DEF BudgetInv, Sleeps
  <2> QED
    BY <1>5, <2>3, <2>4, <2>5 DEF AfterRunOnce
<1>6. CASE WakeUp
  <2>1. /\ pc = "sleep" /\ pc' = "run" /\ delay' = NextDelay(delay)
        /\ UNCHANGED <<ctxDone, attempts, dials, runErr, result>>
    BY <1>6 DEF WakeUp
  <2>2. /\ dials = attempts /\ dials # 0
        /\ delay = DelayAfter(dials - 1, ReconnectDelay, MaxReconnectDelay)
    BY <2>1 DEF BudgetInv, Sleeps
  <2>3. dials - 1 \in Nat /\ (dials - 1) + 1 = dials
    BY <1>1, <2>2
  <2>4. \A n \in Nat : DelayAfter(n + 1, ReconnectDelay, MaxReconnectDelay) =
          NextDelay(DelayAfter(n, ReconnectDelay, MaxReconnectDelay))
    BY NextDelayAfter, GoAssumption DEF NextDelay
  <2>5. delay' = DelayAfter(dials, ReconnectDelay, MaxReconnectDelay)
    BY <2>1, <2>2, <2>3, <2>4
  <2> QED
    BY <1>2, <2>1, <2>2, <2>5 DEF BudgetInv, ReconnectBudget, Sleeps
<1>7. CASE InSession
  <2>1. /\ pc \in Connected /\ pc' \in Connected \cup {"reconnect"}
        /\ UNCHANGED <<ctxDone, attempts, delay, dials, result>>
        /\ runErr' = "canceled" => runErr = "canceled" \/ ctxDone
    BY <1>7 DEF InSession
  <2>2. pc \notin {"run", "sleep", "done"} /\ pc' \notin {"run", "sleep", "done"}
    BY <1>2, <2>1
  <2>3. Sleeps' = Sleeps
    BY <2>1, <2>2 DEF Sleeps
  <2>4. ReconnectBudget'
    BY <2>1, <2>2 DEF BudgetInv, ReconnectBudget
  <2> QED
    BY <2>1, <2>2, <2>3, <2>4 DEF BudgetInv
<1> QED
  BY <1>3, <1>4, <1>5, <1>6, <1>7, RunStepPlace

\* Run calls runOnce as often as the configuration allows, gives up for lack of attempts
\* only after it used all of them, and with reconnection never passes on the error of a
\* session; it returns a context error only when the context is done.
THEOREM ReconnectBudgetHolds == Spec => []ReconnectBudget
<1>1. Init => BudgetInv
  BY NextDelayAfter, GoAssumption DEF Init, BudgetInv, ReconnectBudget, Sleeps, Connected,
     Sending, AwaitHandshake, AwaitAck, AwaitConfig, Leaving
<1>2. TypeInv /\ BudgetInv /\ [Next]_vars => BudgetInv'
  <2> SUFFICES ASSUME TypeInv, BudgetInv, [Next]_vars
               PROVE  BudgetInv'
    OBVIOUS
  <2>1. CASE RunStep
    BY <2>1, BudgetStep
  <2>2. CASE HandlerStep \/ Cancel \/ ServerStep \/ UNCHANGED vars
    <3>1. /\ UNCHANGED <<pc, attempts, delay, dials, runErr, result>>
          /\ ctxDone => ctxDone'
      BY <2>2 DEF HandlerStep, HandlerSends, HandlerStores, Cancel, ServerStep, vars,
         goVars
    <3> QED
      BY <3>1 DEF BudgetInv, ReconnectBudget, Sleeps
  <2> QED
    BY <2>1, <2>2 DEF Next
<1>3. BudgetInv => ReconnectBudget
  BY DEF BudgetInv
<1> QED
  BY <1>1, <1>2, <1>3, TypeInvariance, PTL DEF Spec

-----------------------------------------------------------------------------
(* Registration *)

Registered == \E i \in DOMAIN sent : sent[i].command = "REGISTER"

\* Once runOnce is past SendRegister, aegisd was sent REGISTER on this connection.
RegisterInv ==
    /\ RegisterFirst
    /\ pc \in Connected \ {"register"} => Registered

\* A frame that is sent is REGISTER, comes after it, or is an update of the handler.
LEMMA SendRegisters ==
    ASSUME LinkTypeOK, RegisterFirst, NEW frame \in ComponentFrames,
           sent' = Append(sent, frame),
           \/ Registered \/ frame.command = "REGISTER"
           \/ IsUpdate(frame) /\ frame.arg \in {"WAITING", "RUNNING"}
    PROVE  /\ RegisterFirst'
           /\ Registered \/ frame.command = "REGISTER" => Registered'
<1>1. /\ Len(sent) \in Nat /\ DOMAIN sent = 1 .. Len(sent)
      /\ \A i \in DOMAIN sent : i \in DOMAIN sent' /\ sent'[i] = sent[i]
      /\ \A i \in DOMAIN sent' : i \in DOMAIN sent \/ i = Len(sent) + 1
      /\ Len(sent) + 1 \in DOMAIN sent' /\ sent'[Len(sent) + 1] = frame
  BY SentFacts
<1>2. ASSUME NEW i \in DOMAIN sent'
      PROVE  \/ \E j \in 1 .. i : sent'[j].command = "REGISTER"
             \/ IsUpdate(sent'[i]) /\ sent'[i].arg \in {"WAITING", "RUNNING"}
  <2>1. CASE i \in DOMAIN sent
    <3>1. \A j \in 1 .. i : j \in DOMAIN sent
      BY <1>1, <2>1
    <3> QED
      BY <1>1, <2>1, <3>1 DEF RegisterFirst, IsUpdate
  <2>2. CASE i = Len(sent) + 1
    <3>1. CASE Registered
      <4>1. PICK j \in DOMAIN sent : sent[j].command = "REGISTER"
        BY <3>1 DEF Registered
      <4>2. j \in 1 .. i
        BY <1>1, <2>2
      <4> QED
        BY <1>1, <4>1, <4>2
    <3>2. CASE frame.command = "REGISTER"
      <4>1. i \in 1 .. i /\ sent'[i] = frame
        BY <1>1, <2>2
      <4> QED
        BY <3>2, <4>1
    <3>3. CASE IsUpdate(frame) /\ frame.arg \in {"WAITING", "RUNNING"}
      <4>1. sent'[i] = frame
        BY <1>1, <2>2
      <4> QED
        BY <3>3, <4>1 DEF IsUpdate
    <3> QED
      BY <3>1, <3>2, <3>3
  <2> QED
    BY <1>1, <2>1, <2>2
<1>3. RegisterFirst'
  BY <1>2 DEF RegisterFirst, IsUpdate
<1>4. Registered \/ frame.command = "REGISTER" => Registered'
  BY <1>1 DEF Registered
<1> QED
  BY <1>3, <1>4

\* What Run does keeps RegisterInv.
LEMMA RunStepRegisters ==
    ASSUME TypeInv, RegisterInv, RunStep
    PROVE  RegisterInv'
<1>1. LinkTypeOK /\ RegisterFirst
  BY DEF TypeInv, TypeOK, RegisterInv
<1>2. CASE RunOnce
  <2>1. pc' \in {"register", "reconnect"}
    BY <1>2 DEF RunOnce
  <2>2. pc' \notin Connected \ {"register"}
    BY <2>1 DEF Connected, Sending, AwaitHandshake, AwaitAck, AwaitConfig, Leaving
  <2>3. DOMAIN sent' = {} \/ UNCHANGED sent
    BY <1>2, EmptyFacts DEF RunOnce, OpenLink, linkVars
  <2>4. RegisterFirst'
    BY <1>1, <2>3 DEF RegisterFirst
  <2> QED
    BY <2>2, <2>4 DEF RegisterInv
<1>3. CASE RunCancelled \/ AfterRunOnce \/ WakeUp
  <2>1. UNCHANGED sent /\ pc' \in {"run", "sleep", "done"}
    BY <1>3 DEF RunCancelled, AfterRunOnce, WakeUp, Finish, linkVars
  <2>2. pc' \notin Connected
    BY <2>1 DEF Connected, Sending, AwaitHandshake, AwaitAck, AwaitConfig, Leaving
  <2> QED
    BY <1>1, <2>1, <2>2 DEF RegisterInv, RegisterFirst
<1>4. CASE InSession
  <2>1. /\ pc \in Connected
        /\ pc = "register" => pc' \notin Connected \/ Send(FrameAt)
    BY <1>4 DEF InSession, Connected, Sending, AwaitHandshake, AwaitAck, AwaitConfig,
       Leaving
  <2>2. FrameAt \in ComponentFrames /\ pc # "run"
    BY <2>1, FrameAtType DEF TypeInv, Connected, Sending, AwaitHandshake, AwaitAck,
       AwaitConfig, Leaving
  <2>3. CASE UNCHANGED sent
    <3>1. ~Send(FrameAt)
      <4> SUFFICES ASSUME Send(FrameAt)
                   PROVE  FALSE
        OBVIOUS
      <4>1. sent' = Append(sent, FrameAt)
        BY DEF Send
      <4>2. Len(sent) \in Nat /\ Len(sent') = Len(sent) + 1
        BY <1>1, <2>2, <4>1, SentFacts
      <4> QED
        BY <2>3, <4>2
    <3> QED
      BY <1>1, <2>1, <2>3, <3>1 DEF RegisterInv, RegisterFirst, Registered
  <2>4. CASE pc \in Sending /\ Send(FrameAt)
    <3>1. /\ FrameAt \in ComponentFrames
          /\ sent' = Append(sent, FrameAt)
          /\ pc = "register" => FrameAt.command = "REGISTER"
      BY <2>4, FrameAtType DEF TypeInv, Send
    <3>2. Registered \/ FrameAt.command = "REGISTER"
      BY <2>1, <3>1 DEF RegisterInv
    <3> QED
      BY <1>1, <3>1, <3>2, SendRegisters DEF RegisterInv
  <2> QED
    BY <2>2, <2>3, <2>4, RunStepEffect DEF CloseLink, linkVars, Takes
<1> QED
  BY <1>2, <1>3, <1>4, RunStepPlace

\* register: whatever goroutines of earlier sessions are still alive, a connection begins
\* with REGISTER; only updates of a handler's goroutine may slip in before it.
THEOREM RegisterFirstHolds == Spec => []RegisterFirst
<1>1. Init => RegisterInv
  <2> SUFFICES ASSUME Init
               PROVE  RegisterInv
    OBVIOUS
  <2>1. DOMAIN sent = {} /\ pc = "run"
    BY EmptyFacts DEF Init, LinkInit
  <2> QED
    BY <2>1 DEF RegisterInv, RegisterFirst, Connected, Sending, AwaitHandshake, AwaitAck,
       AwaitConfig, Leaving
<1>2. TypeInv /\ RegisterInv /\ [Next]_vars => RegisterInv'
  <2> SUFFICES ASSUME TypeInv, RegisterInv, [Next]_vars
               PROVE  RegisterInv'
    OBVIOUS
  <2>1. CASE RunStep
    BY <2>1, RunStepRegisters
  <2>2. ASSUME UNCHANGED <<pc, sent>>
        PROVE  RegisterInv'
    BY <2>2 DEF RegisterInv, RegisterFirst, Registered
  <2>3. CASE HandlerStep
    <3>1. UNCHANGED pc /\ LinkTypeOK /\ RegisterFirst
      BY <2>3, HandlerEffect DEF TypeInv, TypeOK, RegisterInv
    <3>2. CASE UNCHANGED <<linkVars, srvVars>>
      BY <2>2, <3>1, <3>2 DEF linkVars
    <3>3. ASSUME NEW frame \in ComponentFrames, Send(frame), IsUpdate(frame),
                 frame.arg \in {"WAITING", "RUNNING"}
          PROVE  RegisterInv'
      <4>1. sent' = Append(sent, frame)
        BY <3>3 DEF Send
      <4>2. RegisterFirst' /\ (Registered => Registered')
        BY <3>1, <3>3, <4>1, SendRegisters
      <4> QED
        BY <3>1, <4>2 DEF RegisterInv
    <3> QED
      BY <2>3, <3>2, <3>3, HandlerEffect
  <2>4. CASE ServerStep
    BY <2>2, <2>4, ServerEffect DEF ServerStep, TypeInv, TypeOK
  <2>5. CASE Cancel \/ UNCHANGED vars
    BY <2>2, <2>5 DEF Cancel, vars, linkVars
  <2> QED
    BY <2>1, <2>3, <2>4, <2>5 DEF Next
<1>3. RegisterInv => RegisterFirst
  BY DEF RegisterInv
<1> QED
  BY <1>1, <1>2, <1>3, TypeInvariance, PTL DEF Spec

\* What aegisd sees on a connection of the Go component.
THEOREM ConversationHolds == Spec => []Conversation
  BY TypeCorrect, RepliesMatchHolds, RegisterFirstHolds, PTL DEF Conversation

-----------------------------------------------------------------------------
(* A component whose handlers have left the state alone so far *)

\* Before the first update by a handler none is under way.
Alone == TypeInv /\ (updates = 0 => upd = "none")

LEMMA AloneStep ==
    ASSUME Alone, updates' = 0
    PROVE  ~HandlerStep
<1>1. updates \in Nat
  BY GoAssumption DEF Alone, TypeInv, TypeOK
<1> QED
  BY <1>1 DEF Alone, HandlerStep, HandlerSends, HandlerStores

\* Only handlers count `updates', and only upwards.
LEMMA AloneBefore ==
    ASSUME Alone, [Next]_vars, updates' = 0
    PROVE  updates = 0 /\ UNCHANGED upd
<1> SUFFICES UNCHANGED <<upd, updates>>
  OBVIOUS
<1>1. CASE \/ RunOnce \/ RunCancelled \/ AfterRunOnce \/ WakeUp \/ StoreState
           \/ RegisterSendError \/ RegisterRecvError \/ LoopRecvFatal \/ LoopRecvError
           \/ RecvRegistered \/ RecvHandshakeAck \/ RecvAckConfigured \/ RecvAckRunning
           \/ ConfigSendError \/ ConfigRecvError \/ LoopCancelled \/ CallOnShutdown
           \/ StoreShutdown \/ CloseConn
  BY <1>1 DEF RunOnce, RunCancelled, AfterRunOnce, WakeUp, StoreState,
     RegisterSendError, RegisterRecvError, LoopRecvFatal, LoopRecvError,
     RecvRegistered, RecvHandshakeAck, RecvAckConfigured, RecvAckRunning,
     ConfigSendError, ConfigRecvError, LoopCancelled, CallOnShutdown, StoreShutdown,
     CloseConn, goVars
<1>2. CASE \/ SendInitializing \/ SendReady \/ SendConfigured \/ SendRunning
           \/ SendRegister \/ SendPong \/ ConfigureFailed \/ AckConfigure
           \/ AckShutdown \/ SendShutdown \/ LoopReads \/ LoopRecv
  BY <1>2 DEF SendInitializing, SendReady, SendConfigured, SendRunning, SendUpdate,
     SendRegister, SendPong, ConfigureFailed, AckConfigure, AckShutdown, SendShutdown,
     TrySend, LoopReads, LoopRecv, goVars
<1>3. CASE HandlerStep
  BY <1>3, AloneStep
<1>4. CASE Cancel \/ ServerStep \/ UNCHANGED vars
  BY <1>4 DEF Cancel, ServerStep, vars, goVars
<1> QED
  BY <1>1, <1>2, <1>3, <1>4 DEF Next, RunStep

LEMMA AloneInvariance == Spec => []Alone
<1>1. Init /\ TypeInv => Alone
  BY DEF Init, Alone
<1>2. Alone /\ TypeInv' /\ [Next]_vars => Alone'
  BY AloneBefore DEF Alone
<1> QED
  BY <1>1, <1>2, TypeInvariance, PTL DEF Spec

-----------------------------------------------------------------------------
(* The lifecycle contract *)

Registering == {"register", "await_registered"}

\* Where a session was registered and State is the state that it announced last.
Settled == Connected \ (Registering \cup {"store", "close"})

\* The states in which the component can be there.
StatesAt(at) ==
    IF at = "send_initializing" THEN {"REGISTERED"}
    ELSE IF at \in {"await_ack_initializing", "send_ready"} THEN {"INITIALIZING"}
    ELSE IF at = "await_ack_ready" THEN {"READY"}
    ELSE IF at \in {"await_ack_configured", "send_running"} THEN {"CONFIGURED"}
    ELSE IF at = "await_ack_running" THEN {"RUNNING"}
    ELSE {"READY", "CONFIGURED", "RUNNING"}

LifecycleInv ==
    /\ pc = "store" => store \in StatesAt(then)
    /\ pc \in Settled => State \in StatesAt(pc)

\* What the contract sees of each place.
PhaseFacts ==
    /\ pc = "done" => Phase = "stopped"
    /\ pc \in {"run", "sleep", "reconnect", "close"} => Phase = "offline"
    /\ pc \in Registering => Phase = "registering"
    /\ pc = "store" => Phase = store
    /\ pc \in Settled => Phase = State
    /\ pc \in Connected \ {"close"} => Phase \notin {"offline", "stopped"}

LEMMA PhaseAt == TypeInv => PhaseFacts
<1> SUFFICES ASSUME TypeInv
             PROVE  PhaseFacts
  OBVIOUS
<1> USE DEF Connected, Sending, AwaitHandshake, AwaitAck, AwaitConfig, Leaving
<1>1. pc \in Connected => link # "down" /\ pc # "done"
  BY DEF TypeInv, Session
<1>2. pc \in {"run", "sleep", "reconnect"} => link = "down" /\ pc # "done"
  BY DEF TypeInv, Session
<1>3. /\ store \notin {"offline", "stopped"}
      /\ State \notin {"offline", "stopped"}
  BY DEF TypeInv, TypeOK, ComponentStates
<1> QED
  BY <1>1, <1>2, <1>3 DEF PhaseFacts, Phase, Settled, Registering

\* A step of Run keeps LifecycleInv and is a step of the contract, or none.
LEMMA LifecycleStep ==
    ASSUME PhaseFacts, PhaseFacts', TypeInv, LifecycleInv, RunStep
    PROVE  LifecycleInv' /\ [Contract!Next]_Phase
<1>1. /\ pc = "done" => Phase = "stopped"
      /\ pc \in {"run", "sleep", "reconnect", "close"} => Phase = "offline"
      /\ pc \in Registering => Phase = "registering"
      /\ pc = "store" => Phase = store
      /\ pc \in Settled => Phase = State
      /\ pc \in Connected \ {"close"} => Phase \notin {"offline", "stopped"}
  BY DEF PhaseFacts
<1>2. /\ pc' = "done" => Phase' = "stopped"
      /\ pc' \in {"run", "sleep", "reconnect", "close"} => Phase' = "offline"
      /\ pc' \in Registering => Phase' = "registering"
      /\ pc' = "store" => Phase' = store'
      /\ pc' \in Settled => Phase' = State'
  BY DEF PhaseFacts
<1>3. /\ \A at \in {"done", "run", "sleep", "reconnect", "close"} :
            at \notin Registering \cup Settled \cup {"store"}
      /\ \A at \in Registering : at \notin Settled \cup {"store"}
      /\ "store" \notin Settled
  BY DEF Settled, Registering, Connected, Sending, AwaitHandshake, AwaitAck, AwaitConfig,
       Leaving
<1>4. CASE RunOnce
  <2>1. pc = "run" /\ pc' \in {"register", "reconnect"}
    BY <1>4 DEF RunOnce
  <2>2. LifecycleInv'
    BY <1>3, <2>1 DEF LifecycleInv, Registering
  <2>3. Phase = "offline" /\ Phase' \in {"registering", "offline"}
    BY <1>1, <1>2, <2>1 DEF Registering
  <2> QED
    BY <2>2, <2>3 DEF Contract!Next, Contract!Advance, Contract!Advances
<1>5. CASE RunCancelled \/ AfterRunOnce \/ WakeUp
  <2>1. /\ pc \in {"run", "sleep", "reconnect"}
        /\ pc' \in {"run", "sleep", "done"}
    BY <1>5 DEF RunCancelled, AfterRunOnce, WakeUp, Finish
  <2>2. LifecycleInv'
    BY <1>3, <2>1 DEF LifecycleInv
  <2>3. Phase = "offline" /\ Phase' \in {"offline", "stopped"}
    BY <1>1, <1>2, <2>1
  <2> QED
    BY <2>2, <2>3 DEF Contract!Next, Contract!Stop
<1>6. CASE pc \in Connected \ {"close"} /\ pc' \in {"reconnect", "close"}
  <2>1. LifecycleInv'
    BY <1>3, <1>6 DEF LifecycleInv
  <2>2. Phase \notin {"offline", "stopped"} /\ Phase' = "offline"
    BY <1>1, <1>2, <1>6
  <2> QED
    BY <2>1, <2>2 DEF Contract!Next, Contract!Drop
<1>7. CASE SendRegister
  <2>1. pc \in Registering /\ pc' \in Registering
    BY <1>7 DEF SendRegister, Registering
  <2> QED
    BY <1>1, <1>2, <1>3, <2>1 DEF LifecycleInv
<1>8. CASE RecvRegistered
  <2>1. CASE pc' = "reconnect"
    BY <1>6, <1>8, <2>1 DEF RecvRegistered, Connected, AwaitHandshake
  <2>2. CASE pc' = "send_initializing" /\ State' = "REGISTERED"
    <3>1. pc \in Registering /\ pc' \in Settled
      BY <1>8, <2>2 DEF RecvRegistered, Registering, Settled, Connected, Sending
    <3>2. LifecycleInv'
      BY <1>3, <2>2 DEF LifecycleInv, StatesAt
    <3>3. Phase = "registering" /\ Phase' = "REGISTERED"
      BY <1>1, <1>2, <2>2, <3>1
    <3> QED
      BY <3>2, <3>3 DEF Contract!Next, Contract!Advance, Contract!Advances
  <2> QED
    BY <1>8, <2>1, <2>2 DEF RecvRegistered, LeaveRunOnce
<1>9. ASSUME NEW told, NEW next, SendUpdate(told, next), pc \in Settled,
             told \in StatesAt(next),
             \A old \in StatesAt(pc) : old = told \/ <<old, told>> \in Contract!Advances
      PROVE  LifecycleInv' /\ [Contract!Next]_Phase
  <2>1. pc' = "store" /\ store' = told /\ then' = next
    BY <1>9 DEF SendUpdate
  <2>2. LifecycleInv'
    BY <1>3, <1>9, <2>1 DEF LifecycleInv
  <2>3. Phase \in StatesAt(pc) /\ Phase' = told
    BY <1>1, <1>2, <1>9, <2>1 DEF LifecycleInv
  <2> QED
    BY <1>9, <2>2, <2>3 DEF Contract!Next, Contract!Advance
<1>10. CASE SendInitializing \/ SendReady
  <2>1. pc \in Settled
    BY <1>10 DEF SendInitializing, SendReady, Settled, Registering, Connected, Sending
  <2> QED
    BY <1>9, <1>10, <2>1 DEF SendInitializing, SendReady, StatesAt, Contract!Advances
<1>11. CASE SendConfigured \/ SendRunning
  <2>1. pc \in Settled
    BY <1>11 DEF SendConfigured, SendRunning, Settled, Registering, Connected, Sending
  <2> QED
    BY <1>9, <1>11, <2>1 DEF SendConfigured, SendRunning, StatesAt, Contract!Advances
<1>12. CASE StoreState
  <2>1. /\ pc = "store" /\ pc' = then /\ State' = store
        /\ then \in AwaitAck
    BY <1>12 DEF StoreState, TypeInv, Session
  <2>2. pc' \in Settled
    BY <2>1 DEF Settled, Registering, Connected, AwaitAck, AwaitConfig, Leaving
  <2>3. LifecycleInv'
    BY <1>3, <2>1, <2>2 DEF LifecycleInv
  <2>4. UNCHANGED Phase
    BY <1>1, <1>2, <2>1, <2>2
  <2> QED
    BY <2>3, <2>4
<1>13. ASSUME pc \in Settled, pc' \in Settled, UNCHANGED State,
              StatesAt(pc) \subseteq StatesAt(pc')
       PROVE  LifecycleInv' /\ [Contract!Next]_Phase
  <2>1. LifecycleInv'
    BY <1>3, <1>13 DEF LifecycleInv
  <2> QED
    BY <1>1, <1>2, <1>13, <2>1
<1>14. CASE RecvHandshakeAck \/ RecvAckConfigured \/ RecvAckRunning
  <2>1. /\ UNCHANGED State
        /\ \/ pc = "await_ack_initializing" /\ pc' = "send_ready"
           \/ pc = "await_ack_ready" /\ pc' = "message_loop"
           \/ pc = "await_ack_configured" /\ pc' = "send_running"
           \/ pc = "await_ack_running" /\ pc' = "message_loop"
    BY <1>14 DEF RecvHandshakeAck, RecvAckConfigured, RecvAckRunning, goVars
  <2>2. pc \in Settled /\ pc' \in Settled
    BY <2>1 DEF Settled, Registering, Connected, Sending, AwaitAck, AwaitConfig, Leaving
  <2> QED
    BY <1>13, <2>1, <2>2 DEF StatesAt
<1>15. CASE \/ LoopReads \/ LoopRecv \/ ConfigSendError \/ ConfigRecvError
            \/ SendPong \/ ConfigureFailed \/ AckConfigure \/ AckShutdown
            \/ LoopCancelled \/ CallOnShutdown \/ SendShutdown
  <2>1. /\ UNCHANGED State
        /\ pc \in {"message_loop", "read", "pong", "configure_failed", "ack_configure",
                   "ack_shutdown", "send_configured", "send_running",
                   "graceful_shutdown", "send_shutdown"} \cup AwaitConfig
        /\ pc' \in {"message_loop", "read", "pong", "configure_failed", "ack_configure",
                    "ack_shutdown", "send_configured", "graceful_shutdown",
                    "send_shutdown", "store_shutdown"}
    BY <1>15 DEF LoopReads, LoopRecv, HandlePing, HandleConfigure, HandleShutdown,
       HandleRecoverable, HandleIgnored, ConfigSendError, ConfigRecvError, SendPong,
       ConfigureFailed, AckConfigure, AckShutdown, TrySend, LoopCancelled,
       CallOnShutdown, SendShutdown, goVars
  <2>2. pc \in Settled /\ pc' \in Settled
    BY <2>1 DEF Settled, Registering, Connected, Sending, AwaitAck, AwaitConfig, Leaving
  <2> QED
    BY <1>13, <2>1, <2>2 DEF StatesAt, AwaitConfig
<1>16. CASE \/ RegisterSendError \/ RegisterRecvError \/ LoopRecvFatal \/ LoopRecvError
            \/ StoreShutdown
  BY <1>6, <1>16 DEF RegisterSendError, RegisterRecvError, LoopRecvFatal, LoopRecvError,
     LeaveRunOnce, StoreShutdown, Connected, Sending, AwaitHandshake, Leaving
<1>17. CASE CloseConn
  <2>1. pc = "close" /\ pc' = "reconnect"
    BY <1>17 DEF CloseConn, LeaveRunOnce
  <2> QED
    BY <1>1, <1>2, <1>3, <2>1 DEF LifecycleInv
<1> QED
  BY <1>4, <1>5, <1>7, <1>8, <1>10, <1>11, <1>12, <1>14, <1>15, <1>16,
     <1>17 DEF RunStep

\* Until a handler announces something, the Go component implements the lifecycle
\* contract: on every connection it announces its states in order, and it never comes
\* back once Run returned.
THEOREM ImplementsContract == Spec => ContractSpec
<1> DEFINE Inv == updates = 0 => LifecycleInv
<1>1. Init => Inv /\ Contract!Init
  BY DEF Init, LinkInit, LifecycleInv, Settled, Connected, Sending, AwaitHandshake,
     AwaitAck, AwaitConfig, Leaving, Phase, Contract!Init
<1>2. /\ Alone /\ PhaseFacts /\ PhaseFacts' /\ Inv /\ [Next]_vars
      => Inv' /\ (updates' = 0 => [Contract!Next]_Phase)
  <2> SUFFICES ASSUME Alone, PhaseFacts, PhaseFacts', LifecycleInv, [Next]_vars,
                      updates' = 0
               PROVE  LifecycleInv' /\ [Contract!Next]_Phase
    BY AloneBefore
  <2>1. CASE RunStep
    BY <2>1, LifecycleStep DEF Alone
  <2>2. CASE HandlerStep
    BY <2>2, AloneStep
  <2>3. CASE ServerStep
    BY <2>3, ServerEffect DEF ServerStep, ctlVars, goVars, LifecycleInv, Phase, Alone,
       TypeInv, TypeOK
  <2>4. CASE Cancel \/ UNCHANGED vars
    BY <2>4 DEF Cancel, vars, linkVars, ctlVars, goVars, LifecycleInv, Phase
  <2> QED
    BY <2>1, <2>2, <2>3, <2>4 DEF Next
<1>3. Alone => PhaseFacts
  BY PhaseAt DEF Alone
<1> QED
  BY <1>1, <1>2, <1>3, AloneInvariance, PTL DEF Spec, ContractSpec

-----------------------------------------------------------------------------
(* PONG *)

\* Where a state was announced on the connection and stored.
Announced == Settled \ {"send_initializing"}

\* There, State is the one that was announced last; between the send and the store it is
\* the one still to store.
PongInv ==
    /\ PongTruthful
    /\ pc \in Announced => LastTold(State)
    /\ pc = "store" => LastTold(store)

\* A step that leaves the log alone keeps PongInv if it leaves the state alone too or
\* ends the session.
LEMMA QuietPong ==
    ASSUME PongInv, UNCHANGED sent,
           \/ pc' \notin Announced \cup {"store"}
           \/ pc \in Announced /\ pc' # "store" /\ UNCHANGED State
    PROVE  PongInv'
  BY DEF PongInv, PongTruthful, LastTold

\* What Run does keeps PongInv.
LEMMA RunStepPongs ==
    ASSUME TypeInv, PongInv, RunStep
    PROVE  PongInv'
<1>1. LinkTypeOK /\ PongTruthful
  BY DEF TypeInv, TypeOK, PongInv
<1> USE DEF Announced, Settled, Registering, Connected, Sending, AwaitHandshake, AwaitAck,
            AwaitConfig, Leaving
<1>2. CASE RunOnce
  <2>1. pc' \notin Announced \cup {"store"}
    BY <1>2 DEF RunOnce
  <2>2. DOMAIN sent' = {} \/ UNCHANGED sent
    BY <1>2, EmptyFacts DEF RunOnce, OpenLink, linkVars
  <2>3. PongTruthful'
    BY <1>1, <2>2 DEF PongTruthful
  <2> QED
    BY <2>1, <2>3 DEF PongInv
<1>3. CASE \/ RunCancelled \/ AfterRunOnce \/ WakeUp
           \/ RegisterSendError \/ RegisterRecvError \/ LoopRecvFatal \/ LoopRecvError
           \/ RecvRegistered \/ StoreShutdown \/ CloseConn
  <2>1. UNCHANGED sent /\ pc' \notin Announced \cup {"store"}
    BY <1>3 DEF RunCancelled, AfterRunOnce, WakeUp, Finish, RegisterSendError,
       RegisterRecvError, LoopRecvFatal, LoopRecvError, RecvRegistered, StoreShutdown,
       CloseConn, LeaveRunOnce, CloseLink, Recv, linkVars
  <2> QED
    BY <2>1, QuietPong
<1>4. CASE StoreState
  <2>1. /\ pc = "store" /\ State' = store /\ UNCHANGED sent
        /\ pc' \in AwaitAck
    BY <1>4 DEF StoreState, TypeInv, Session, linkVars
  <2>2. LastTold(store)
    BY <2>1 DEF PongInv
  <2>3. LastTold(State)'
    BY <2>1, <2>2 DEF LastTold
  <2> QED
    BY <1>1, <2>1, <2>3 DEF PongInv, PongTruthful
<1>5. CASE \/ RecvHandshakeAck \/ RecvAckConfigured \/ RecvAckRunning \/ LoopReads
           \/ LoopRecv \/ ConfigSendError \/ ConfigRecvError \/ LoopCancelled
           \/ CallOnShutdown
  <2>1. UNCHANGED <<sent, State>>
    BY <1>5 DEF RecvHandshakeAck, RecvAckConfigured, RecvAckRunning, LoopReads,
       LoopRecv, Recv, ConfigSendError, ConfigRecvError, SendFails, LoopCancelled,
       CallOnShutdown, linkVars, goVars
  <2>2. pc \in Announced /\ pc' # "store"
    BY <1>5 DEF RecvHandshakeAck, RecvAckConfigured, RecvAckRunning, LoopReads,
       LoopRecv, HandlePing, HandleConfigure, HandleShutdown, HandleRecoverable,
       HandleIgnored, ConfigSendError, ConfigRecvError, LoopCancelled, CallOnShutdown
  <2> QED
    BY <2>1, <2>2, QuietPong
<1>6. CASE SendInitializing \/ SendReady \/ SendConfigured \/ SendRunning
  <2>1. /\ pc \in {"send_initializing", "send_ready", "send_configured", "send_running"}
        /\ pc' = "store" /\ store' = StateAt
        /\ sent' = Append(sent, FrameAt)
    BY <1>6 DEF SendInitializing, SendReady, SendConfigured, SendRunning, SendUpdate, Send,
       FrameAt, StateAt
  <2>2. FrameAt \in ComponentFrames
    BY FrameAtType DEF TypeInv
  <2>3. IsUpdate(FrameAt) /\ FrameAt.command # "PONG" /\ FrameAt.arg = StateAt
    BY <2>1, FrameTypes DEF FrameAt, IsUpdate
  <2>4. PongTruthful'
    BY <1>1, <2>1, <2>2, <2>3, SentPong
  <2>5. PICK frame \in ComponentFrames : frame = FrameAt
    BY <2>2
  <2>6. LastTold(frame.arg)'
    BY <1>1, <2>1, <2>3, <2>5, SentTold
  <2>7. store' = frame.arg
    BY <2>1, <2>3, <2>5
  <2>8. LastTold(store)'
    BY <2>6, <2>7 DEF LastTold
  <2> QED
    BY <2>1, <2>4, <2>8 DEF PongInv
<1>7. CASE \/ SendRegister \/ SendPong \/ ConfigureFailed \/ AckConfigure \/ AckShutdown
           \/ SendShutdown
  <2>1. /\ pc \in {"register", "pong", "configure_failed", "ack_configure", "ack_shutdown",
                   "send_shutdown"}
        /\ pc' # "store"
        /\ pc = "register" => pc' \notin Announced
        /\ UNCHANGED State
        /\ UNCHANGED sent \/ sent' = Append(sent, FrameAt)
    BY <1>7 DEF SendRegister, SendPong, ConfigureFailed, AckConfigure, AckShutdown,
       SendShutdown, TrySend, Send, SendFails, ReplyCorr, RegisterId, FrameAt, linkVars,
       goVars
  <2>2. CASE UNCHANGED sent
    BY <2>1, <2>2, QuietPong
  <2>3. CASE sent' = Append(sent, FrameAt)
    <3>1. FrameAt \in ComponentFrames
      BY FrameAtType DEF TypeInv
    <3>2. /\ ~IsUpdate(FrameAt)
          /\ FrameAt.command = "PONG" => pc = "pong"
      BY <2>1, FrameTypes DEF FrameAt, IsUpdate
    <3>3. pc = "pong" => FrameAt.arg = State
      BY FrameTypes DEF FrameAt
    <3>4. FrameAt.command = "PONG" => LastTold(FrameAt.arg)
      BY <3>2, <3>3 DEF PongInv
    <3>5. PongTruthful'
      BY <1>1, <2>3, <3>1, <3>4, SentPong
    <3>6. \A told : LastTold(told) => LastTold(told)'
      BY <1>1, <2>3, <3>1, <3>2, SentTold
    <3>7. pc' \in Announced => LastTold(State)'
      BY <2>1, <3>6 DEF PongInv, LastTold
    <3> QED
      BY <2>1, <3>5, <3>7 DEF PongInv
  <2> QED
    BY <2>1, <2>2, <2>3
<1> QED
  BY <1>2, <1>3, <1>4, <1>5, <1>6, <1>7 DEF RunStep

\* SendStateUpdate and handlePing: as long as no goroutine of a handler announces a
\* state of its own, a PONG reports the state that aegisd was last told on the connection.
THEOREM PongTruthfulHolds == Spec => [](updates = 0 => PongTruthful)
<1>1. Init => PongInv
  <2> SUFFICES ASSUME Init
               PROVE  PongInv
    OBVIOUS
  <2>1. DOMAIN sent = {} /\ pc = "run"
    BY EmptyFacts DEF Init, LinkInit
  <2> QED
    BY <2>1 DEF PongInv, PongTruthful, Announced, Settled, Connected, Sending,
       AwaitHandshake, AwaitAck, AwaitConfig, Leaving
<1>2. Alone /\ (updates = 0 => PongInv) /\ [Next]_vars => (updates = 0 => PongInv)'
  <2> SUFFICES ASSUME Alone, PongInv, [Next]_vars, updates' = 0
               PROVE  PongInv'
    BY AloneBefore
  <2>1. CASE RunStep
    BY <2>1, RunStepPongs DEF Alone
  <2>2. CASE HandlerStep
    BY <2>2, AloneStep
  <2>3. CASE ServerStep \/ Cancel \/ UNCHANGED vars
    <3>1. UNCHANGED <<sent, pc, store, State>>
      BY <2>3, ServerEffect DEF ServerStep, Cancel, vars, linkVars, ctlVars, goVars, Alone,
         TypeInv, TypeOK
    <3> QED
      BY <3>1 DEF PongInv, PongTruthful, LastTold
  <2> QED
    BY <2>1, <2>2, <2>3 DEF Next
<1>3. PongInv => PongTruthful
  BY DEF PongInv
<1> QED
  BY <1>1, <1>2, <1>3, AloneInvariance, PTL DEF Spec

-----------------------------------------------------------------------------
(* Leaving *)

\* Where SHUTDOWN was sent unless aegisd was gone.
Parting == {"store_shutdown", "close"}

\* What aegisd was sent there.
SaidGoodbye ==
    /\ link = "up" => \E i \in DOMAIN sent : sent[i].command = "SHUTDOWN"
    /\ \A i \in DOMAIN sent : sent[i].command = "SHUTDOWN" =>
          /\ OnlyUpdates(i, Len(sent) + 1)
          /\ runErr = "nil" => AckedShutdown(i)

\* A session sends no SHUTDOWN before SendShutdown.  Until then the last frame, but for
\* updates of a handler, is the ACK that aegisd's own SHUTDOWN got.
LeaveInv ==
    /\ pc \in Connected \ Parting => \A i \in DOMAIN sent : sent[i].command # "SHUTDOWN"
    /\ pc \in {"graceful_shutdown", "send_shutdown"} /\ runErr = "nil" /\ link = "up" =>
          AckedShutdown(Len(sent) + 1)
    /\ pc \in Parting => SaidGoodbye
    /\ pc \in Leaving \ {"graceful_shutdown"} => "OnShutdown" \in called

\* No connection forgets what was asked and sent.
Remembers ==
    /\ \A i \in DOMAIN sent : i \in DOMAIN sent' /\ sent'[i] = sent[i]
    /\ \A r \in DOMAIN asked : r \in DOMAIN asked' /\ asked'[r] = asked[r]

\* What preceded a frame still does.
LEMMA StillAcked ==
    ASSUME LinkTypeOK, Remembers, NEW j \in 1 .. Len(sent) + 1, AckedShutdown(j)
    PROVE  AckedShutdown(j)'
<1>1. DOMAIN sent = 1 .. Len(sent) /\ Len(sent) \in Nat
  BY SeqFacts DEF LinkTypeOK
<1>2. PICK i \in 1 .. j - 1, r \in DOMAIN asked :
        /\ asked[r] = "SHUTDOWN"
        /\ sent[i] = Envelope("ACK", r, NoId)
        /\ OnlyUpdates(i, j)
  BY DEF AckedShutdown
<1>3. i \in DOMAIN sent /\ \A k \in i + 1 .. j - 1 : k \in DOMAIN sent
  BY <1>1
<1>4. OnlyUpdates(i, j)'
  BY <1>2, <1>3 DEF OnlyUpdates, IsUpdate, Remembers
<1>5. r \in DOMAIN asked' /\ asked'[r] = "SHUTDOWN" /\ sent'[i] = Envelope("ACK", r, NoId)
  BY <1>2, <1>3 DEF Remembers
<1> QED
  BY <1>4, <1>5 DEF AckedShutdown

\* An update that a handler sends meanwhile, or nothing, keeps LeaveInv.
LEMMA AsideLeave ==
    ASSUME LinkTypeOK, LeaveInv, Remembers, UNCHANGED <<pc, runErr, called>>,
           link' = "up" => link = "up",
           \/ UNCHANGED sent
           \/ \E frame \in ComponentFrames : IsUpdate(frame) /\ sent' = Append(sent, frame)
    PROVE  LeaveInv'
<1>1. DOMAIN sent = 1 .. Len(sent) /\ Len(sent) \in Nat
  BY SeqFacts DEF LinkTypeOK
<1>2. /\ Len(sent') \in Nat /\ DOMAIN sent' = 1 .. Len(sent')
      /\ \A i \in DOMAIN sent' : i \in DOMAIN sent \/ IsUpdate(sent'[i])
      /\ Len(sent) <= Len(sent')
  <2>1. CASE UNCHANGED sent
    BY <1>1, <2>1
  <2>2. ASSUME NEW frame \in ComponentFrames, IsUpdate(frame), sent' = Append(sent, frame)
        PROVE  /\ Len(sent') \in Nat /\ DOMAIN sent' = 1 .. Len(sent')
               /\ \A i \in DOMAIN sent' : i \in DOMAIN sent \/ IsUpdate(sent'[i])
               /\ Len(sent) <= Len(sent')
    <3>1. /\ Len(sent') = Len(sent) + 1 /\ DOMAIN sent' = 1 .. Len(sent) + 1
          /\ sent'[Len(sent) + 1] = frame
          /\ \A i \in DOMAIN sent' : i \in DOMAIN sent \/ i = Len(sent) + 1
      BY <2>2, SentFacts
    <3>2. IsUpdate(sent'[Len(sent) + 1])
      BY <2>2, <3>1
    <3> QED
      BY <1>1, <3>1, <3>2
  <2> QED
    BY <2>1, <2>2
<1> DEFINE n == Len(sent)
           m == Len(sent')
<1>0. /\ n \in Nat /\ m \in Nat /\ n <= m
      /\ \A k : k \in DOMAIN sent <=> k \in 1 .. n
      /\ \A k : k \in DOMAIN sent' <=> k \in 1 .. m
  BY <1>1, <1>2
<1>3. \A i \in DOMAIN sent' :
        sent'[i].command = "SHUTDOWN" => i \in DOMAIN sent /\ sent[i].command = "SHUTDOWN"
  BY <1>2 DEF Remembers, IsUpdate
<1>4. ASSUME NEW i \in DOMAIN sent, OnlyUpdates(i, Len(sent) + 1)
      PROVE  OnlyUpdates(i, Len(sent) + 1)'
  <2> HIDE DEF n, m
  <2>1. ASSUME NEW k \in i + 1 .. m
        PROVE  IsUpdate(sent'[k])
    <3>1. k \in DOMAIN sent'
      BY <1>0
    <3>2. CASE k \in DOMAIN sent
      <4>0. k \in i + 1 .. (n + 1) - 1
        BY <1>0, <3>2
      <4>1. k \in i + 1 .. (Len(sent) + 1) - 1
        BY <4>0 DEF n
      <4>2. IsUpdate(sent[k]) /\ sent'[k] = sent[k]
        BY <1>4, <3>2, <4>1 DEF OnlyUpdates, Remembers
      <4> QED
        BY <4>2
    <3> QED
      BY <1>2, <3>1, <3>2
  <2>2. (m + 1) - 1 = m
    BY <1>0
  <2>3. \A k \in i + 1 .. (Len(sent') + 1) - 1 : IsUpdate(sent'[k])
    BY <2>1, <2>2 DEF m
  <2> QED
    BY <2>3 DEF OnlyUpdates, IsUpdate
<1>5. ASSUME AckedShutdown(Len(sent) + 1)
      PROVE  AckedShutdown(Len(sent) + 1)'
  <2>1. PICK i \in 1 .. (Len(sent) + 1) - 1, r \in DOMAIN asked :
          /\ asked[r] = "SHUTDOWN"
          /\ sent[i] = Envelope("ACK", r, NoId)
          /\ OnlyUpdates(i, Len(sent) + 1)
    BY <1>5 DEF AckedShutdown
  <2>2. i \in DOMAIN sent /\ i \in 1 .. (Len(sent') + 1) - 1
    <3>1. i \in 1 .. (n + 1) - 1
      BY <2>1
    <3> HIDE DEF n, m
    <3>2. i \in 1 .. n /\ i \in 1 .. (m + 1) - 1
      BY <1>0, <3>1
    <3> QED
      BY <1>0, <3>2 DEF m
  <2>3. OnlyUpdates(i, Len(sent) + 1)'
    BY <1>4, <2>1, <2>2
  <2>4. r \in DOMAIN asked' /\ asked'[r] = "SHUTDOWN" /\ sent'[i] = Envelope("ACK", r, NoId)
    BY <2>1, <2>2 DEF Remembers
  <2> QED
    BY <2>2, <2>3, <2>4 DEF AckedShutdown
<1>6. ASSUME SaidGoodbye
      PROVE  SaidGoodbye'
  <2>1. ASSUME NEW i \in DOMAIN sent', sent'[i].command = "SHUTDOWN"
        PROVE  /\ OnlyUpdates(i, Len(sent) + 1)'
               /\ runErr' = "nil" => AckedShutdown(i)'
    <3>1. i \in DOMAIN sent /\ sent[i].command = "SHUTDOWN" /\ i \in 1 .. Len(sent) + 1
      BY <1>1, <1>3, <2>1
    <3>2. OnlyUpdates(i, Len(sent) + 1) /\ (runErr = "nil" => AckedShutdown(i))
      BY <1>6, <3>1 DEF SaidGoodbye
    <3> QED
      BY <1>4, <3>1, <3>2, StillAcked
  <2>2. link' = "up" => \E i \in DOMAIN sent' : sent'[i].command = "SHUTDOWN"
    BY <1>6 DEF SaidGoodbye, Remembers
  <2> QED
    BY <2>1, <2>2 DEF SaidGoodbye
<1> QED
  BY <1>3, <1>5, <1>6 DEF LeaveInv

\* A step that sends nothing and does not come to gracefulShutdown's send keeps LeaveInv.
LEMMA QuietLeave ==
    ASSUME LeaveInv, UNCHANGED sent,
           pc' \in Leaving => pc' = "graceful_shutdown" /\ runErr' # "nil",
           pc' \in Connected => pc \in Connected \ Parting
    PROVE  LeaveInv'
<1>1. Parting \subseteq Leaving /\ "send_shutdown" \in Leaving
      /\ "graceful_shutdown" \in Leaving /\ "graceful_shutdown" \notin Parting
  BY DEF Parting, Leaving
<1> QED
  BY <1>1 DEF LeaveInv

\* gracefulShutdown keeps LeaveInv.
LEMMA GracefulShutdownLeaves ==
    ASSUME TypeInv, ReplyInv, LeaveInv,
           AckShutdown \/ CallOnShutdown \/ SendShutdown \/ StoreShutdown
    PROVE  LeaveInv'
<1>1. /\ LinkTypeOK /\ FrameAt \in ComponentFrames
      /\ DOMAIN sent = 1 .. Len(sent) /\ Len(sent) \in Nat
  BY FrameAtType, SeqFacts DEF TypeInv, TypeOK, LinkTypeOK
<1> USE DEF Connected, Sending, Leaving, Parting
<1>2. ASSUME Send(FrameAt)
      PROVE  /\ sent' = Append(sent, FrameAt) /\ UNCHANGED <<link, asked>>
             /\ Len(sent') = Len(sent) + 1 /\ DOMAIN sent' = 1 .. Len(sent) + 1
             /\ \A i \in DOMAIN sent' : \/ i \in DOMAIN sent /\ sent'[i] = sent[i]
                                        \/ i = Len(sent) + 1 /\ sent'[i] = FrameAt
             /\ Len(sent) + 1 \in DOMAIN sent' /\ sent'[Len(sent) + 1] = FrameAt
             /\ Remembers
  BY <1>1, <1>2, SentFacts DEF Send, srvVars, Remembers
<1>3. CASE AckShutdown
  <2>1. /\ pc = "ack_shutdown" /\ pc' = "graceful_shutdown"
        /\ FrameAt = Envelope("ACK", cur.id, NoId)
        /\ Send(FrameAt) \/ SendFails
    BY <1>3 DEF AckShutdown, FrameAt, ReplyCorr
  <2>2. \A i \in DOMAIN sent : sent[i].command # "SHUTDOWN"
    BY <2>1 DEF LeaveInv
  <2>3. CASE SendFails
    BY <2>1, <2>2, <2>3 DEF SendFails, linkVars, LeaveInv
  <2>4. CASE Send(FrameAt)
    <3>1. FrameAt.command # "SHUTDOWN"
      BY <2>1 DEF Envelope
    <3>2. \A i \in DOMAIN sent' : sent'[i].command # "SHUTDOWN"
      BY <1>2, <2>2, <2>4, <3>1
    <3>3. cur.id \in DOMAIN asked' /\ asked'[cur.id] = "SHUTDOWN"
      BY <1>2, <2>1, <2>4 DEF ReplyInv, Handling, Replying, Wanted, InHand
    <3>4. Len(sent) + 1 \in 1 .. (Len(sent') + 1) - 1 /\ (Len(sent') + 1) - 1 = Len(sent) + 1
      BY <1>1, <1>2, <2>4
    <3>5. \E i \in 1 .. (Len(sent') + 1) - 1, r \in DOMAIN asked' :
            /\ asked'[r] = "SHUTDOWN"
            /\ sent'[i] = Envelope("ACK", r, NoId)
            /\ \A k \in i + 1 .. (Len(sent') + 1) - 1 : IsUpdate(sent'[k])
      <4>1. \A k \in (Len(sent) + 1) + 1 .. (Len(sent') + 1) - 1 : IsUpdate(sent'[k])
        BY <1>1, <3>4
      <4> QED
        BY <1>2, <2>1, <2>4, <3>3, <3>4, <4>1
    <3>6. AckedShutdown(Len(sent) + 1)'
      BY <3>5 DEF AckedShutdown, OnlyUpdates, IsUpdate
    <3> QED
      BY <2>1, <3>2, <3>6 DEF LeaveInv
  <2> QED
    BY <2>1, <2>3, <2>4
<1>4. CASE CallOnShutdown
  <2>1. /\ pc = "graceful_shutdown" /\ pc' = "send_shutdown"
        /\ "OnShutdown" \in called'
        /\ UNCHANGED <<link, sent, asked, runErr>>
    BY <1>4 DEF CallOnShutdown, linkVars, srvVars
  <2> QED
    BY <2>1 DEF LeaveInv, AckedShutdown, OnlyUpdates, IsUpdate
<1>5. CASE SendShutdown
  <2>1. /\ pc = "send_shutdown" /\ pc' = "store_shutdown"
        /\ FrameAt.command = "SHUTDOWN"
        /\ Send(FrameAt) \/ SendFails
        /\ UNCHANGED <<runErr, called>>
    BY <1>5 DEF SendShutdown, TrySend, FrameAt, Envelope, goVars
  <2>2. \A i \in DOMAIN sent : sent[i].command # "SHUTDOWN"
    BY <2>1 DEF LeaveInv
  <2>3. SaidGoodbye'
    <3>1. CASE SendFails
      BY <2>2, <3>1 DEF SendFails, linkVars, SaidGoodbye
    <3>2. CASE Send(FrameAt)
      <4>1. ASSUME NEW i \in DOMAIN sent', sent'[i].command = "SHUTDOWN"
            PROVE  i = Len(sent) + 1
        BY <1>2, <2>2, <3>2, <4>1
      <4>2. \A i \in DOMAIN sent' : sent'[i].command = "SHUTDOWN" =>
               OnlyUpdates(i, Len(sent) + 1)'
        BY <1>1, <1>2, <3>2, <4>1 DEF OnlyUpdates
      <4>3. runErr = "nil" => AckedShutdown(Len(sent) + 1)
        BY <2>1, <3>2 DEF LeaveInv, Send
      <4>4. ASSUME NEW i \in DOMAIN sent', sent'[i].command = "SHUTDOWN", runErr' = "nil"
            PROVE  AckedShutdown(i)'
        <5>1. i \in 1 .. Len(sent) + 1 /\ AckedShutdown(i)
          BY <1>1, <2>1, <4>1, <4>3, <4>4
        <5> QED
          BY <1>1, <1>2, <3>2, <5>1, StillAcked
      <4>5. \E i \in DOMAIN sent' : sent'[i].command = "SHUTDOWN"
        BY <1>2, <2>1, <3>2
      <4> QED
        BY <4>2, <4>4, <4>5 DEF SaidGoodbye
    <3> QED
      BY <2>1, <3>1, <3>2
  <2> QED
    BY <2>1, <2>3 DEF LeaveInv
<1>6. CASE StoreShutdown
  <2>1. /\ pc = "store_shutdown" /\ pc' = "close"
        /\ UNCHANGED <<link, sent, asked, runErr, called>>
    BY <1>6 DEF StoreShutdown, linkVars, srvVars
  <2> QED
    BY <2>1 DEF LeaveInv, SaidGoodbye, AckedShutdown, OnlyUpdates, IsUpdate
<1> QED
  BY <1>3, <1>4, <1>5, <1>6

\* What Run does keeps LeaveInv.
LEMMA RunStepLeaves ==
    ASSUME TypeInv, ReplyInv, LeaveInv, RunStep
    PROVE  LeaveInv'
<1>1. LinkTypeOK
  BY DEF TypeInv, TypeOK
<1> USE DEF Connected, Sending, AwaitHandshake, AwaitAck, AwaitConfig, Leaving, Parting
<1>2. CASE RunOnce
  <2>1. /\ pc' \in {"register", "reconnect"}
        /\ pc' = "register" => OpenLink
    BY <1>2 DEF RunOnce
  <2>2. pc' = "register" => DOMAIN sent' = {}
    BY <2>1, EmptyFacts DEF OpenLink
  <2> QED
    BY <2>1, <2>2 DEF LeaveInv
<1>3. CASE \/ RunCancelled \/ AfterRunOnce \/ WakeUp
           \/ RegisterSendError \/ RegisterRecvError \/ LoopRecvFatal \/ LoopRecvError
           \/ CloseConn
  <2>1. pc' \in {"run", "sleep", "done", "reconnect"}
    BY <1>3 DEF RunCancelled, AfterRunOnce, WakeUp, Finish, RegisterSendError,
       RegisterRecvError, LoopRecvFatal, LoopRecvError, CloseConn, LeaveRunOnce
  <2> QED
    BY <2>1 DEF LeaveInv
<1>4. CASE \/ StoreState \/ RecvRegistered \/ RecvHandshakeAck \/ RecvAckConfigured
           \/ RecvAckRunning \/ LoopReads \/ LoopRecv \/ ConfigSendError
           \/ ConfigRecvError \/ LoopCancelled
  <2>1. UNCHANGED sent
    BY <1>4 DEF StoreState, RecvRegistered, LeaveRunOnce, CloseLink, RecvHandshakeAck,
       RecvAckConfigured, RecvAckRunning, LoopReads, LoopRecv, Recv, ConfigSendError,
       ConfigRecvError, SendFails, LoopCancelled, linkVars
  <2>2. pc \in Connected \ Parting
    BY <1>4 DEF StoreState, RecvRegistered, RecvHandshakeAck, RecvAckConfigured,
       RecvAckRunning, LoopReads, LoopRecv, ConfigSendError, ConfigRecvError,
       LoopCancelled
  <2>3. pc' \in Leaving => pc' = "graceful_shutdown" /\ runErr' # "nil"
    <3>1. CASE StoreState
      BY <3>1 DEF StoreState, TypeInv, Session
    <3>2. CASE LoopCancelled
      BY <3>2 DEF LoopCancelled
    <3>3. CASE RecvRegistered \/ RecvHandshakeAck \/ RecvAckConfigured \/ RecvAckRunning
      BY <3>3 DEF RecvRegistered, LeaveRunOnce, RecvHandshakeAck, RecvAckConfigured,
         RecvAckRunning
    <3>4. CASE LoopReads \/ LoopRecv \/ ConfigSendError \/ ConfigRecvError
      BY <3>4 DEF LoopReads, LoopRecv, HandlePing, HandleConfigure, HandleShutdown,
         HandleRecoverable, HandleIgnored, ConfigSendError, ConfigRecvError
    <3> QED
      BY <1>4, <3>1, <3>2, <3>3, <3>4
  <2> QED
    BY <2>1, <2>2, <2>3, QuietLeave
<1>5. CASE \/ SendInitializing \/ SendReady \/ SendConfigured \/ SendRunning
           \/ SendRegister \/ SendPong \/ ConfigureFailed \/ AckConfigure
  <2>1. /\ pc \in Sending \ {"ack_shutdown", "send_shutdown"}
        /\ pc' \in Connected \ Leaving
        /\ Send(FrameAt) \/ SendFails
    <3>1. CASE SendInitializing \/ SendReady \/ SendConfigured \/ SendRunning
      BY <3>1 DEF SendInitializing, SendReady, SendConfigured, SendRunning, SendUpdate,
         FrameAt, StateAt
    <3>2. CASE SendRegister \/ SendPong \/ ConfigureFailed \/ AckConfigure
      BY <3>2 DEF SendRegister, SendPong, ConfigureFailed, AckConfigure, TrySend, FrameAt,
         RegisterId, ReplyCorr
    <3> QED
      BY <1>5, <3>1, <3>2
  <2>2. CASE SendFails
    BY <2>1, <2>2, QuietLeave DEF SendFails, linkVars
  <2>3. CASE Send(FrameAt)
    <3>1. FrameAt \in ComponentFrames /\ FrameAt.command # "SHUTDOWN"
      BY <2>1, FrameAtType DEF TypeInv
    <3>2. \A i \in DOMAIN sent' : \/ i \in DOMAIN sent /\ sent'[i] = sent[i]
                                  \/ sent'[i] = FrameAt
      BY <1>1, <2>3, <3>1, SentFacts DEF Send
    <3>3. \A i \in DOMAIN sent' : sent'[i].command # "SHUTDOWN"
      BY <2>1, <3>1, <3>2 DEF LeaveInv
    <3> QED
      BY <2>1, <3>3 DEF LeaveInv
  <2> QED
    BY <2>1, <2>2, <2>3
<1>6. CASE AckShutdown \/ CallOnShutdown \/ SendShutdown \/ StoreShutdown
  BY <1>6, GracefulShutdownLeaves
<1> QED
  BY <1>2, <1>3, <1>4, <1>5, <1>6 DEF RunStep

\* LeaveInv is inductive.
LEMMA LeaveInvariance == Spec => []LeaveInv
<1>1. Init => LeaveInv
  BY DEF Init, LeaveInv, Connected, Sending, AwaitHandshake, AwaitAck, AwaitConfig,
     Leaving, Parting
<1>2. TypeInv /\ ReplyInv /\ LeaveInv /\ [Next]_vars => LeaveInv'
  <2> SUFFICES ASSUME TypeInv, ReplyInv, LeaveInv, [Next]_vars
               PROVE  LeaveInv'
    OBVIOUS
  <2>1. LinkTypeOK /\ sent \in Seq(ComponentFrames)
    BY DEF TypeInv, TypeOK, LinkTypeOK
  <2>2. CASE RunStep
    BY <2>2, RunStepLeaves
  <2>3. CASE HandlerStep
    <3>1. UNCHANGED <<pc, runErr, called, link>>
      BY <2>3 DEF HandlerStep, HandlerSends, HandlerStores, Send, linkVars
    <3>2. CASE UNCHANGED <<linkVars, srvVars>>
      BY <2>1, <3>1, <3>2, AsideLeave DEF linkVars, srvVars, Remembers
    <3>3. ASSUME NEW frame \in ComponentFrames, Send(frame), IsUpdate(frame)
          PROVE  LeaveInv'
      <4>1. sent' = Append(sent, frame) /\ UNCHANGED asked
        BY <3>3 DEF Send, srvVars
      <4>2. Remembers
        BY <2>1, <4>1, SentFacts DEF Remembers
      <4> QED
        BY <2>1, <3>1, <3>3, <4>1, <4>2, AsideLeave
    <3> QED
      BY <2>3, <3>2, <3>3, HandlerEffect
  <2>4. CASE ServerStep
    <3>1. UNCHANGED <<pc, runErr, called, sent>> /\ (link' = "up" => link = "up")
      BY <2>1, <2>4, ServerEffect DEF ServerStep, goVars, SrvNext, SrvProcess,
         SrvConfigure, SrvPush, SrvClose
    <3>2. Remembers
      BY <2>1, <2>4, <3>1, ServerAsked DEF ServerStep, Remembers
    <3> QED
      BY <2>1, <3>1, <3>2, AsideLeave
  <2>5. CASE Cancel \/ UNCHANGED vars
    <3>1. UNCHANGED <<pc, runErr, called, link, sent, asked>>
      BY <2>5 DEF Cancel, vars, linkVars, srvVars, goVars
    <3> QED
      BY <2>1, <3>1, AsideLeave DEF Remembers
  <2> QED
    BY <2>2, <2>3, <2>4, <2>5 DEF Next
<1> QED
  BY <1>1, <1>2, TypeInvariance, ReplyInvariance, PTL DEF Spec

\* Only a handler's goroutine stores another state over SHUTDOWN.
StoredInv == updates = 0 /\ pc = "close" => State = "SHUTDOWN"

LEMMA StoredInvariance == Spec => []StoredInv
<1>1. Init => StoredInv
  BY DEF Init, StoredInv
<1>2. Alone /\ StoredInv /\ [Next]_vars => StoredInv'
  <2> SUFFICES ASSUME Alone, StoredInv, [Next]_vars, updates' = 0, pc' = "close"
               PROVE  State' = "SHUTDOWN"
    BY DEF StoredInv
  <2>1. updates = 0
    BY AloneBefore
  <2>2. CASE RunStep
    <3>1. InSession
      BY <2>2, RunStepPlace DEF Alone, RunOnce, RunCancelled, AfterRunOnce, WakeUp, Finish
    <3>2. CASE StoreShutdown
      BY <3>2 DEF StoreShutdown
    <3>3. CASE StoreState
      BY <3>3 DEF StoreState, Alone, TypeInv, Session, AwaitAck, AwaitConfig
    <3>4. CASE \/ RegisterSendError \/ RegisterRecvError \/ LoopRecvFatal
               \/ LoopRecvError \/ CloseConn \/ RecvRegistered \/ RecvHandshakeAck
               \/ RecvAckConfigured \/ RecvAckRunning \/ LoopReads \/ LoopRecv
               \/ ConfigSendError \/ ConfigRecvError \/ LoopCancelled
               \/ AckShutdown \/ CallOnShutdown
      BY <3>4 DEF RegisterSendError, RegisterRecvError, LoopRecvFatal, LoopRecvError,
         CloseConn, RecvRegistered, RecvHandshakeAck, RecvAckConfigured, RecvAckRunning,
         LoopReads, LoopRecv, HandlePing, HandleConfigure, HandleShutdown,
         HandleRecoverable, HandleIgnored, ConfigSendError, ConfigRecvError,
         LoopCancelled, AckShutdown, CallOnShutdown, LeaveRunOnce
    <3>5. CASE \/ SendInitializing \/ SendReady \/ SendConfigured \/ SendRunning
               \/ SendRegister \/ SendPong \/ ConfigureFailed \/ AckConfigure
               \/ SendShutdown
      BY <3>5 DEF SendInitializing, SendReady, SendConfigured, SendRunning, SendUpdate,
         SendRegister, SendPong, ConfigureFailed, AckConfigure, SendShutdown, TrySend
    <3>6. CASE RunOnce \/ RunCancelled \/ AfterRunOnce \/ WakeUp
      BY <3>6 DEF RunOnce, RunCancelled, AfterRunOnce, WakeUp, Finish
    <3> QED
      BY <2>2, <3>2, <3>3, <3>4, <3>5, <3>6 DEF RunStep
  <2>3. CASE HandlerStep
    BY <2>3, AloneStep
  <2>4. CASE Cancel \/ ServerStep \/ UNCHANGED vars
    BY <2>1, <2>4 DEF Cancel, ServerStep, vars, goVars, StoredInv
  <2> QED
    BY <2>2, <2>3, <2>4 DEF Next
<1> QED
  BY <1>1, <1>2, AloneInvariance, PTL DEF Spec

\* runOnce's other ends have other errors.
LEMMA LeavesRunOnce ==
    ASSUME TypeInv, RunStep,
           pc # "reconnect", pc' = "reconnect", runErr' \in {"nil", "canceled"}
    PROVE  CloseConn
<1>1. CASE RunOnce \/ RegisterSendError \/ RegisterRecvError \/ RecvRegistered
  BY <1>1 DEF RunOnce, RegisterSendError, RegisterRecvError, RecvRegistered, LeaveRunOnce
<1>2. CASE LoopRecvFatal \/ LoopRecvError
  BY <1>2 DEF LoopRecvFatal, LoopRecvError, LeaveRunOnce
<1>3. CASE RunCancelled \/ AfterRunOnce \/ WakeUp \/ LoopCancelled \/ LoopReads
  BY <1>3 DEF RunCancelled, AfterRunOnce, WakeUp, Finish, LoopCancelled, LoopReads
<1>4. CASE StoreState
  BY <1>4 DEF StoreState, TypeInv, Session, AwaitAck, AwaitConfig
<1>5. CASE \/ SendRegister \/ SendInitializing \/ SendReady \/ RecvHandshakeAck \/ LoopRecv
           \/ SendPong \/ ConfigureFailed \/ AckConfigure \/ SendConfigured
           \/ RecvAckConfigured \/ SendRunning \/ RecvAckRunning
           \/ ConfigSendError \/ ConfigRecvError
  BY <1>5 DEF SendRegister, SendInitializing, SendReady, RecvHandshakeAck, LoopRecv,
     HandlePing, HandleConfigure, HandleShutdown, HandleRecoverable, HandleIgnored,
     SendPong, ConfigureFailed, AckConfigure, SendConfigured, SendUpdate, TrySend,
     RecvAckConfigured, SendRunning, RecvAckRunning, ConfigSendError, ConfigRecvError
<1>6. CASE AckShutdown \/ CallOnShutdown \/ SendShutdown \/ StoreShutdown
  BY <1>6 DEF AckShutdown, CallOnShutdown, SendShutdown, StoreShutdown, TrySend
<1> QED
  BY <1>1, <1>2, <1>3, <1>4, <1>5, <1>6 DEF RunStep

\* gracefulShutdown: a session that aegisd or the context ended has called OnShutdown before
\* it closes the connection, and has sent SHUTDOWN, unless aegisd was gone: as the last
\* frame, right after the ACK if aegisd asked for it, whatever a handler's goroutine
\* announces meanwhile.
THEOREM GracefulLeaveHolds == Spec => GracefulLeave
<1> DEFINE goodbyes == {i \in DOMAIN sent : sent[i].command = "SHUTDOWN"}
<1>1. ASSUME TypeInv, LeaveInv, StoredInv, [Next]_vars,
             pc # "reconnect", pc' = "reconnect", runErr' \in {"nil", "canceled"}
      PROVE  /\ "OnShutdown" \in called
             /\ updates = 0 => State = "SHUTDOWN"
             /\ link = "up" => goodbyes # {}
             /\ \A i \in goodbyes : /\ OnlyUpdates(i, Len(sent) + 1)
                                    /\ runErr' = "nil" => AckedShutdown(i)
  <2>1. RunStep
    BY <1>1 DEF Next, HandlerStep, HandlerSends, HandlerStores, Cancel, ServerStep, vars
  <2>2. CloseConn
    BY <1>1, <2>1, LeavesRunOnce
  <2>3. pc = "close" /\ runErr' = runErr
    BY <2>2 DEF CloseConn, LeaveRunOnce
  <2>4. "OnShutdown" \in called /\ SaidGoodbye
    BY <1>1, <2>3 DEF LeaveInv, Leaving, Parting
  <2>5. updates = 0 => State = "SHUTDOWN"
    BY <1>1, <2>3 DEF StoredInv
  <2> QED
    BY <2>3, <2>4, <2>5 DEF SaidGoodbye
<1>2. TypeInv /\ LeaveInv /\ StoredInv /\ [Next]_vars =>
        (pc # "reconnect" /\ pc' = "reconnect" /\ runErr' \in {"nil", "canceled"} =>
            /\ "OnShutdown" \in called
            /\ updates = 0 => State = "SHUTDOWN"
            /\ link = "up" => goodbyes # {}
            /\ \A i \in goodbyes : /\ OnlyUpdates(i, Len(sent) + 1)
                                   /\ runErr' = "nil" => AckedShutdown(i))
  BY <1>1
<1> QED
  BY <1>2, TypeInvariance, LeaveInvariance, StoredInvariance, PTL DEF Spec, GracefulLeave

-----------------------------------------------------------------------------
(* The example's workers *)

\* A step of the client dials, or stays in its call of runOnce; a new connection calls no
\* handler.
LEMMA NextSession ==
    ASSUME [Next]_vars
    PROVE  \/ dials' = dials + 1 /\ called' \subseteq called
           \/ UNCHANGED dials
<1>1. CASE RunOnce
  BY <1>1 DEF RunOnce
<1>2. CASE \/ RunCancelled \/ AfterRunOnce \/ WakeUp \/ StoreState \/ LoopReads
           \/ ConfigSendError \/ ConfigRecvError \/ LoopCancelled
           \/ RegisterSendError \/ RegisterRecvError \/ LoopRecvFatal \/ LoopRecvError
           \/ RecvRegistered \/ CallOnShutdown \/ StoreShutdown \/ CloseConn
  BY <1>2 DEF RunCancelled, AfterRunOnce, WakeUp, StoreState, LoopReads, ConfigSendError,
     ConfigRecvError, LoopCancelled, RegisterSendError, RegisterRecvError, LoopRecvFatal,
     LoopRecvError, RecvRegistered, CallOnShutdown, StoreShutdown, CloseConn, goVars
<1>3. CASE RecvHandshakeAck \/ RecvAckConfigured \/ RecvAckRunning \/ LoopRecv
  BY <1>3 DEF RecvHandshakeAck, RecvAckConfigured, RecvAckRunning, LoopRecv, goVars
<1>4. CASE \/ SendInitializing \/ SendReady \/ SendConfigured \/ SendRunning
           \/ SendRegister \/ SendPong \/ ConfigureFailed \/ AckConfigure \/ AckShutdown
           \/ SendShutdown
  BY <1>4 DEF SendInitializing, SendReady, SendConfigured, SendRunning, SendUpdate,
     SendRegister, SendPong, ConfigureFailed, AckConfigure, AckShutdown, SendShutdown,
     TrySend, goVars
<1>5. CASE HandlerStep \/ ServerStep \/ Cancel \/ UNCHANGED vars
  BY <1>5 DEF HandlerStep, HandlerSends, HandlerStores, ServerStep, Cancel, vars, goVars
<1> QED
  BY <1>1, <1>2, <1>3, <1>4, <1>5 DEF Next, RunStep

\* Sessions are numbered by their calls of runOnce, and only a session that called
\* OnShutdown has late workers.
WorkerInv ==
    /\ opened \in Seq(Nat)
    /\ \A d \in left : d \in Nat /\ d <= dials
    /\ \A w \in DOMAIN opened : opened[w] <= dials
    /\ late \subseteq DOMAIN opened
    /\ \A w \in late : opened[w] \in left
    /\ OnShutdownStopsNewest

\* What the client does, with its handlers, keeps WorkerInv.
LEMMA ClientStepWorkers ==
    ASSUME TypeInv, WorkerInv, [Next]_vars, Handlers
    PROVE  WorkerInv'
<1>1. /\ UNCHANGED <<opened, late>> /\ opened \in Seq(Nat)
      /\ Len(opened) \in Nat /\ DOMAIN opened = 1 .. Len(opened)
      /\ \A w \in DOMAIN opened : opened[w] \in Nat
      /\ dials \in Nat
  <2>1. UNCHANGED <<opened, late>> /\ opened \in Seq(Nat)
    BY DEF Handlers, WorkerInv
  <2>2. dials \in Nat
    BY GoAssumption DEF TypeInv, TypeOK
  <2> QED
    BY <2>1, <2>2, SeqFacts
<1>2. CASE "OnShutdown" \notin called' \ called
  <2>1. UNCHANGED <<stopped, left>>
    BY <1>2 DEF Handlers
  <2>2. dials <= dials' /\ \A i \in Nat : i <= dials => i <= dials'
    BY <1>1, NextSession
  <2>3. OnShutdownStopsNewest'
    BY <1>1, <2>1 DEF WorkerInv, OnShutdownStopsNewest, Before
  <2> QED
    BY <1>1, <2>1, <2>2, <2>3 DEF WorkerInv
<1>3. CASE "OnShutdown" \in called' \ called
  <2>1. /\ stopped' = stopped \cup WorkerCancel
        /\ left' = left \cup {dials}
        /\ UNCHANGED dials
    BY <1>3, NextSession DEF Handlers
  <2>2. \A d \in left' : d \in Nat /\ d <= dials'
    BY <1>1, <2>1 DEF WorkerInv
  <2>3. ASSUME NEW w \in DOMAIN opened \ stopped', NEW d \in left', Before(w, d)
        PROVE  \E v \in w + 1 .. Len(opened) : Before(v, d)
    <3>1. CASE d \in left
      BY <2>1, <2>3, <3>1 DEF WorkerInv, OnShutdownStopsNewest
    <3>2. CASE d = dials /\ d \notin left
      <4>1. Len(opened) # 0 /\ Len(opened) \in DOMAIN opened
        BY <1>1, <2>3
      <4>2. opened # <<>>
        BY <4>1, EmptyFacts
      <4>3. w # Len(opened)
        BY <2>1, <2>3, <4>2 DEF WorkerCancel
      <4>4. Len(opened) \in w + 1 .. Len(opened)
        BY <1>1, <4>3
      <4>5. opened[Len(opened)] = dials => Len(opened) \notin late
        BY <3>2 DEF WorkerInv
      <4>6. opened[Len(opened)] \in Nat /\ opened[Len(opened)] <= dials
        BY <1>1, <4>1 DEF WorkerInv
      <4>7. Before(Len(opened), d)
        BY <1>1, <3>2, <4>5, <4>6 DEF Before
      <4> QED
        BY <4>4, <4>7
    <3> QED
      BY <2>1, <2>3, <3>1, <3>2
  <2>4. OnShutdownStopsNewest'
    BY <1>1, <2>3 DEF OnShutdownStopsNewest, Before
  <2> QED
    BY <1>1, <2>1, <2>2, <2>4 DEF WorkerInv
<1> QED
  BY <1>2, <1>3

\* So does the body of OnRunning.
LEMMA OnRunningWorkers ==
    ASSUME TypeInv, WorkerInv, OnRunning
    PROVE  WorkerInv'
<1> DEFINE new == Len(opened) + 1
<1>1. /\ opened' = Append(opened, dials)
      /\ late' = IF dials \in left THEN late \cup {new} ELSE late
      /\ UNCHANGED <<dials, stopped, left>>
  BY DEF OnRunning, vars, goVars
<1>2. dials \in Nat /\ opened \in Seq(Nat)
  BY GoAssumption DEF TypeInv, TypeOK, WorkerInv
<1>3. /\ opened' \in Seq(Nat)
      /\ Len(opened) \in Nat /\ Len(opened') = new
      /\ DOMAIN opened = 1 .. Len(opened) /\ DOMAIN opened' = 1 .. new
      /\ \A w \in DOMAIN opened : opened'[w] = opened[w] /\ w # new
      /\ opened'[new] = dials
  BY <1>1, <1>2, AppendFacts
<1>4. \A w \in DOMAIN opened' : w \in DOMAIN opened \/ w = new
  BY <1>3
<1>5. DOMAIN opened \subseteq DOMAIN opened' /\ new \in DOMAIN opened'
  BY <1>3
<1> HIDE DEF new
<1>6. \A w \in DOMAIN opened' : opened'[w] <= dials
  BY <1>2, <1>3, <1>4 DEF WorkerInv
<1>7. late' \subseteq DOMAIN opened' /\ \A w \in late' : opened'[w] \in left
  BY <1>1, <1>3, <1>5 DEF WorkerInv
<1>8. ASSUME NEW w \in DOMAIN opened' \ stopped, NEW d \in left, Before(w, d)'
      PROVE  \E v \in w + 1 .. new : Before(v, d)'
  <2>1. \A v \in DOMAIN opened : Before(v, d)' <=> Before(v, d)
    BY <1>1, <1>3 DEF Before
  <2>2. d \in Nat /\ d <= dials
    BY DEF WorkerInv
  <2>3. w # new
    BY <1>1, <1>2, <1>3, <1>8, <2>2 DEF Before
  <2>4. w \in DOMAIN opened \ stopped /\ Before(w, d)
    BY <1>4, <1>8, <2>1, <2>3
  <2>5. PICK v \in w + 1 .. Len(opened) : Before(v, d)
    BY <2>4 DEF WorkerInv, OnShutdownStopsNewest
  <2>6. v \in w + 1 .. new /\ v \in DOMAIN opened
    BY <1>3, <2>4, <2>5 DEF new
  <2> QED
    BY <2>1, <2>5, <2>6
<1>9. OnShutdownStopsNewest'
  BY <1>1, <1>3, <1>8 DEF OnShutdownStopsNewest, Before
<1> QED
  BY <1>1, <1>3, <1>6, <1>7, <1>9 DEF WorkerInv

\* The example's client is a client: its steps are those of the component.
LEMMA ExampleIsSpec == ExampleSpec => Spec
<1>1. ExampleInit => Init
  BY DEF ExampleInit
<1>2. [ExampleNext]_allVars => [Next]_vars
  BY DEF ExampleNext, ClientStep, OnRunning, allVars
<1> QED
  BY <1>1, <1>2, PTL DEF ExampleSpec, Spec

\* main.go's workerCancel and gracefulShutdown: of the stream workers that were started
\* before a session called OnShutdown, however late their goroutine ran, at most those run
\* on that another of them followed in workerCancel.
THEOREM OnShutdownStopsNewestHolds == ExampleSpec => []OnShutdownStopsNewest
<1>1. ExampleInit => WorkerInv
  <2> SUFFICES ASSUME ExampleInit
               PROVE  WorkerInv
    OBVIOUS
  <2>1. opened \in Seq(Nat) /\ DOMAIN opened = {} /\ left = {} /\ late = {}
    BY EmptyFacts DEF ExampleInit
  <2> QED
    BY <2>1 DEF WorkerInv, OnShutdownStopsNewest
<1>2. TypeInv /\ WorkerInv /\ [ExampleNext]_allVars => WorkerInv'
  <2> SUFFICES ASSUME TypeInv, WorkerInv, [ExampleNext]_allVars
               PROVE  WorkerInv'
    OBVIOUS
  <2>1. CASE ClientStep
    BY <2>1, ClientStepWorkers DEF ClientStep
  <2>2. CASE OnRunning
    BY <2>2, OnRunningWorkers
  <2>3. CASE UNCHANGED allVars
    <3>1. UNCHANGED <<opened, stopped, left, late, dials>>
      BY <2>3 DEF allVars, exampleVars, vars, goVars
    <3> QED
      BY <3>1 DEF WorkerInv, OnShutdownStopsNewest, Before
  <2> QED
    BY <2>1, <2>2, <2>3 DEF ExampleNext
<1>3. WorkerInv => OnShutdownStopsNewest
  BY DEF WorkerInv
<1> QED
  BY <1>1, <1>2, <1>3, ExampleIsSpec, TypeInvariance, PTL DEF ExampleSpec
=============================================================================
