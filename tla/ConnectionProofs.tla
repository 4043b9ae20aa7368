-------------------------- MODULE ConnectionProofs --------------------------
(***************************************************************************)
(* What the clients' proofs share: facts about the two queues of a         *)
(* connection and about what aegisd does to them, for every value of the   *)
(* constants.                                                              *)
(*                                                                         *)
(* ServerEffect says once what a step of aegisd can do: add one frame to   *)
(* `inbox', numbered if it is a request, or leave the queues alone.  The   *)
(* lemmas after it follow the parts of a client's inductive invariant that *)
(* speak of the queues through the steps of aegisd (Server...), through a  *)
(* frame that the client sends (Sent...), through what it takes out of     *)
(* `inbox' (Taken...), and through the end of the connection (Link...).    *)
(*                                                                         *)
(* The last part is about the delays: the recursive definition of Doubled  *)
(* has a solution, by induction in the form of NatSet, and the clients     *)
(* compute it.                                                             *)
(***************************************************************************)
EXTENDS ConnectionProperties, Backoff, WellFoundedInduction, TLAPS

-----------------------------------------------------------------------------
(* Sequences *)

\* The empty sequence is a sequence over every set and has no positions.
LEMMA EmptyFacts ==
    ASSUME NEW S
    PROVE  <<>> \in Seq(S) /\ DOMAIN <<>> = {} /\ Len(<<>>) = 0
  OBVIOUS

\* The length, the positions and the elements of a sequence.
LEMMA SeqFacts ==
    ASSUME NEW S, NEW s \in Seq(S)
    PROVE  Len(s) \in Nat /\ DOMAIN s = 1 .. Len(s) /\ \A i \in DOMAIN s : s[i] \in S
  OBVIOUS

\* What Append does to each position of a sequence.
LEMMA AppendFacts ==
    ASSUME NEW S, NEW s \in Seq(S), NEW e \in S
    PROVE  /\ Append(s, e) \in Seq(S)
           /\ Len(Append(s, e)) = Len(s) + 1
           /\ \A i \in 1 .. Len(s) : Append(s, e)[i] = s[i]
           /\ Append(s, e)[Len(s) + 1] = e
           /\ DOMAIN Append(s, e) = 1 .. Len(s) + 1
           /\ DOMAIN s = 1 .. Len(s)
  OBVIOUS

\* What Tail does to each position of a sequence.
LEMMA TailFacts ==
    ASSUME NEW S, NEW s \in Seq(S), s # <<>>
    PROVE  /\ Tail(s) \in Seq(S)
           /\ Len(s) \in Nat
           /\ Len(s) > 0
           /\ Len(Tail(s)) = Len(s) - 1
           /\ \A i \in 1 .. Len(s) - 1 : Tail(s)[i] = s[i + 1]
           /\ Head(s) = s[1]
           /\ Head(s) \in S
           /\ DOMAIN Tail(s) = 1 .. Len(s) - 1
           /\ DOMAIN s = 1 .. Len(s)
           /\ 1 \in DOMAIN s
  OBVIOUS

-----------------------------------------------------------------------------
(* Frames *)

\* FromServer builds server frames, Envelope component frames, with these fields.
LEMMA FrameTypes ==
    /\ \A type \in MessageTypes \cup {Undecodable}, command \in Commands,
          id \in Nat, arg \in Args :
            FromServer(type, command, id, arg) \in ServerFrames
    /\ \A command \in Commands, corr \in Nat, arg \in Args :
            Envelope(command, corr, arg) \in ComponentFrames
    /\ \A type, command, id, arg :
            LET frame == FromServer(type, command, id, arg)
            IN  frame.type = type /\ frame.command = command
                  /\ frame.id = id /\ frame.arg = arg
    /\ \A command, corr, arg :
            LET frame == Envelope(command, corr, arg)
            IN  frame.command = command /\ frame.corr = corr /\ frame.arg = arg
  BY DEF FromServer, Envelope, ServerFrames, ComponentFrames

\* The type under which aegisd sends each request, which is the one that makes the
\* clients handle it.
RequestType(command) ==
    IF command = "PING" THEN "HEARTBEAT"
    ELSE IF command = "CONFIGURE" THEN "CONFIG"
    ELSE "LIFECYCLE"

\* The unsolicited frames are well typed, and none of them is REGISTERED.
LEMMA PushTableFacts ==
    \A kind \in PushKinds :
        /\ PushTable[kind].type \in MessageTypes \cup {Undecodable}
        /\ PushTable[kind].command \in Commands \ {"REGISTERED"}
        /\ PushTable[kind].command \in Requests =>
              PushTable[kind].type = RequestType(PushTable[kind].command)
        /\ PushTable[kind].arg \in Args
  BY DEF PushKinds, PushTable, MessageTypes, Commands, Args, Requests, RequestType

-----------------------------------------------------------------------------
(* What aegisd does *)

\* The ids that answer the component's REGISTER.
Offered(frame) == IF frame.arg = NoId THEN ComponentIds ELSE {frame.arg}

\* aegisd put `frame' into the socket.
Put(frame) ==
    /\ frame \in ServerFrames
    /\ inbox' = Append(inbox, frame)
    /\ \/ /\ frame.command \in Requests
          /\ frame.type = RequestType(frame.command)
          /\ frame.id = Len(asked) + 1
          /\ asked' = Append(asked, frame.command)
       \/ /\ frame.command \notin Requests
          /\ frame.id = 0
          /\ UNCHANGED asked
    /\ frame.command = "REGISTERED" =>
          \/ frame.arg \in {NoKey, NotString}
          \/ \E i \in DOMAIN sent : /\ sent[i].command = "REGISTER"
                                    /\ frame.arg \in Offered(sent[i])

\* Push puts a frame, whatever its kind.
LEMMA PushPuts ==
    ASSUME LinkTypeOK, NEW type \in MessageTypes \cup {Undecodable},
           NEW command \in Commands, NEW arg \in Args,
           command \in Requests => type = RequestType(command),
           command = "REGISTERED" =>
              \/ arg \in {NoKey, NotString}
              \/ \E i \in DOMAIN sent : /\ sent[i].command = "REGISTER"
                                        /\ arg \in Offered(sent[i]),
           Push(type, command, arg)
    PROVE  \E frame \in ServerFrames : Put(frame)
<1> DEFINE id == IF command \in Requests THEN Len(asked) + 1 ELSE 0
           frame == FromServer(type, command, id, arg)
<1>1. id \in Nat
  BY DEF LinkTypeOK
<1>2. /\ frame \in ServerFrames
      /\ frame.type = type /\ frame.command = command
      /\ frame.id = id /\ frame.arg = arg
  BY <1>1, FrameTypes
<1>3. inbox' = Append(inbox, frame)
  BY DEF Push
<1>4. /\ command \in Requests => asked' = Append(asked, command)
      /\ command \notin Requests => UNCHANGED asked
  BY DEF Push
<1>5. /\ command \in Requests => id = Len(asked) + 1
      /\ command \notin Requests => id = 0
  OBVIOUS
<1> HIDE DEF frame, id
<1>6. Put(frame)
  BY <1>2, <1>3, <1>4, <1>5 DEF Put
<1> QED
  BY <1>2, <1>6

\* A step of aegisd puts one frame or none, and leaves what it was sent alone.
LEMMA ServerEffect ==
    ASSUME LinkTypeOK, SrvNext
    PROVE  /\ UNCHANGED sent
           /\ link # "down" /\ link' # "down"
           /\ UNCHANGED <<inbox, asked>> \/ \E frame \in ServerFrames : Put(frame)
<1> USE AegisdAssumption
<1>1. UNCHANGED sent /\ link # "down" /\ link' # "down"
  BY DEF SrvNext, SrvProcess, SrvConfigure, SrvPush, SrvClose
<1>2. "CONTROL" \in MessageTypes /\ "LIFECYCLE" \in MessageTypes
      /\ "CONFIG" \in MessageTypes /\ "ERROR" \in MessageTypes
      /\ {"ACK", "REGISTERED", "REGISTRATION_FAILED", "CONFIGURE"} \subseteq Commands
      /\ {NoId, NoKey, NotString, "fatal"} \subseteq Args /\ ComponentIds \subseteq Args
      /\ "ACK" \notin Requests /\ "REGISTERED" \notin Requests
      /\ "REGISTRATION_FAILED" \notin Requests
      /\ RequestType("CONFIGURE") = "CONFIG"
  BY DEF MessageTypes, Commands, Args, Requests, RequestType
<1>3. CASE SrvProcess
  <2> DEFINE frame == sent[seen + 1]
  <2>1. seen + 1 \in DOMAIN sent /\ frame \in ComponentFrames
    BY <1>3 DEF SrvProcess, LinkTypeOK
  <2>2. frame.arg \in Args
    BY <2>1 DEF ComponentFrames
  <2>3. CASE AnswerRegister(frame)
    <3>1. PICK reply \in RegReplies :
            \/ \E id \in Offered(frame) : Push("LIFECYCLE", "REGISTERED", id)
            \/ Push("ERROR", "REGISTRATION_FAILED", "fatal")
            \/ Push("LIFECYCLE", "REGISTERED", NoKey)
            \/ Push("LIFECYCLE", "REGISTERED", NotString)
            \/ Push(Undecodable, "ACK", NoId)
            \/ UNCHANGED <<inbox, asked, greeted>>
      BY <2>3 DEF AnswerRegister, Offered
    <3>2. frame.command = "REGISTER"
      BY <2>3 DEF AnswerRegister
    <3>3. CASE \E id \in Offered(frame) : Push("LIFECYCLE", "REGISTERED", id)
      <4>1. PICK id \in Offered(frame) : Push("LIFECYCLE", "REGISTERED", id)
        BY <3>3
      <4>2. id \in Args
        BY <1>2, <2>2 DEF Offered
      <4>3. \E i \in DOMAIN sent : /\ sent[i].command = "REGISTER"
                                   /\ id \in Offered(sent[i])
        BY <2>1, <3>2
      <4> QED
        BY <1>1, <1>2, <4>1, <4>2, <4>3, PushPuts
    <3>4. CASE Push("ERROR", "REGISTRATION_FAILED", "fatal")
      BY <1>1, <1>2, <3>4, PushPuts
    <3>5. CASE Push("LIFECYCLE", "REGISTERED", NoKey)
      BY <1>1, <1>2, <3>5, PushPuts
    <3>6. CASE Push("LIFECYCLE", "REGISTERED", NotString)
      BY <1>1, <1>2, <3>6, PushPuts
    <3>7. CASE Push(Undecodable, "ACK", NoId)
      BY <1>1, <1>2, <3>7, PushPuts
    <3> QED
      BY <1>1, <3>1, <3>3, <3>4, <3>5, <3>6, <3>7
  <2>4. CASE AnswerStateUpdate(frame)
    <3>1. Push("CONTROL", "ACK", NoId)
      BY <2>4 DEF AnswerStateUpdate
    <3> QED
      BY <1>1, <1>2, <3>1, PushPuts
  <2>5. CASE AnswerError(frame) \/ AnswerNothing(frame)
    BY <1>1, <2>5 DEF AnswerError, AnswerNothing
  <2> QED
    BY <1>3, <2>3, <2>4, <2>5 DEF SrvProcess
<1>4. CASE SrvConfigure
  <2>1. Push("CONFIG", "CONFIGURE", NoId)
    BY <1>4 DEF SrvConfigure
  <2> QED
    BY <1>1, <1>2, <2>1, PushPuts
<1>5. CASE SrvPush
  <2>1. PICK kind \in PushKinds :
          Push(PushTable[kind].type, PushTable[kind].command, PushTable[kind].arg)
    BY <1>5 DEF SrvPush
  <2> QED
    BY <1>1, <2>1, PushTableFacts, PushPuts
<1>6. CASE SrvClose
  BY <1>1, <1>6 DEF SrvClose
<1> QED
  BY <1>3, <1>4, <1>5, <1>6 DEF SrvNext

\* What Put does to each position of the queues.
LEMMA PutFacts ==
    ASSUME LinkTypeOK, NEW frame \in ServerFrames, Put(frame)
    PROVE  /\ Len(inbox) \in Nat /\ Len(asked) \in Nat
           /\ DOMAIN inbox = 1 .. Len(inbox) /\ DOMAIN inbox' = 1 .. Len(inbox) + 1
           /\ \A i \in DOMAIN inbox : inbox'[i] = inbox[i]
           /\ inbox'[Len(inbox) + 1] = frame
           /\ inbox' \in Seq(ServerFrames)
           /\ DOMAIN asked = 1 .. Len(asked)
           /\ \A r \in DOMAIN asked : r \in DOMAIN asked' /\ asked'[r] = asked[r]
           /\ \A r \in DOMAIN asked' : r \in DOMAIN asked \/ r = frame.id
           /\ frame.id # 0 => /\ frame.id = Len(asked) + 1
                              /\ frame.id \in DOMAIN asked'
                              /\ asked'[frame.id] = frame.command
           /\ asked' \in Seq(Requests)
<1>1. inbox \in Seq(ServerFrames) /\ asked \in Seq(Requests) /\ inbox' = Append(inbox, frame)
  BY DEF LinkTypeOK, Put
<1>2. /\ Len(inbox) \in Nat
      /\ DOMAIN inbox = 1 .. Len(inbox) /\ DOMAIN inbox' = 1 .. Len(inbox) + 1
      /\ \A i \in DOMAIN inbox : inbox'[i] = inbox[i]
      /\ inbox'[Len(inbox) + 1] = frame
      /\ inbox' \in Seq(ServerFrames)
  BY <1>1, SeqFacts, AppendFacts
<1>3. Len(asked) \in Nat /\ DOMAIN asked = 1 .. Len(asked)
  BY <1>1, SeqFacts
<1>4. CASE frame.command \in Requests
  <2>1. frame.id = Len(asked) + 1 /\ asked' = Append(asked, frame.command)
    BY <1>4 DEF Put
  <2> QED
    BY <1>1, <1>2, <1>3, <1>4, <2>1, AppendFacts
<1>5. CASE frame.command \notin Requests
  <2>1. frame.id = 0 /\ asked' = asked
    BY <1>5 DEF Put
  <2> QED
    BY <1>1, <1>2, <1>3, <2>1
<1> QED
  BY <1>4, <1>5

\* aegisd never takes back a request or a frame; a new request is on its way.
LEMMA ServerAsked ==
    ASSUME LinkTypeOK, SrvNext
    PROVE  /\ \A r \in DOMAIN asked : r \in DOMAIN asked' /\ asked'[r] = asked[r]
           /\ \A r \in DOMAIN asked' \ DOMAIN asked :
                 \E i \in DOMAIN inbox' : inbox'[i].id = r
           /\ \A i \in DOMAIN inbox : i \in DOMAIN inbox' /\ inbox'[i] = inbox[i]
<1>1. CASE UNCHANGED <<inbox, asked>>
  BY <1>1
<1>2. ASSUME NEW frame \in ServerFrames, Put(frame)
      PROVE  /\ \A r \in DOMAIN asked : r \in DOMAIN asked' /\ asked'[r] = asked[r]
             /\ \A r \in DOMAIN asked' \ DOMAIN asked :
                   \E i \in DOMAIN inbox' : inbox'[i].id = r
             /\ \A i \in DOMAIN inbox : i \in DOMAIN inbox' /\ inbox'[i] = inbox[i]
  BY <1>2, PutFacts
<1> QED
  BY <1>1, <1>2, ServerEffect

-----------------------------------------------------------------------------
(* What the component does *)

\* A line that the component cannot decode and that stands for no request.
Garbage(frame) == frame.type = Undecodable /\ frame.command = "ACK" /\ frame.id = 0

\* The component took the first k frames out of the socket, and maybe more: what it
\* left are later frames in their order, or unreadable remains of one.
Taken(k) ==
    /\ inbox' \in Seq(ServerFrames)
    /\ \A i \in DOMAIN inbox' :
          \/ i + k \in DOMAIN inbox /\ inbox'[i] = inbox[i + k]
          \/ Garbage(inbox'[i])

\* Three ways of leaving the socket: untouched, without its first frame, empty.
LEMMA TakenFacts ==
    ASSUME LinkTypeOK
    PROVE  /\ UNCHANGED inbox => Taken(0)
           /\ inbox # <<>> /\ inbox' = Tail(inbox) => Taken(1)
           /\ inbox' = <<>> => Taken(0) /\ Taken(1)
<1>1. inbox \in Seq(ServerFrames)
  BY DEF LinkTypeOK
<1>2. ASSUME UNCHANGED inbox
      PROVE  Taken(0)
  <2>1. \A i \in DOMAIN inbox : i + 0 = i
    BY <1>1, SeqFacts
  <2> QED
    BY <1>1, <1>2, <2>1 DEF Taken
<1>3. ASSUME inbox # <<>>, inbox' = Tail(inbox)
      PROVE  Taken(1)
  <2>1. \A i \in DOMAIN inbox' : i + 1 \in DOMAIN inbox /\ inbox'[i] = inbox[i + 1]
    BY <1>1, <1>3, TailFacts
  <2>2. inbox' \in Seq(ServerFrames)
    BY <1>1, <1>3, TailFacts
  <2> QED
    BY <2>1, <2>2 DEF Taken
<1>4. ASSUME inbox' = <<>>
      PROVE  Taken(0) /\ Taken(1)
  BY <1>4, EmptyFacts DEF Taken
<1> QED
  BY <1>2, <1>3, <1>4

\* What a send does to each position of the log.
LEMMA SentFacts ==
    ASSUME LinkTypeOK, NEW frame \in ComponentFrames, sent' = Append(sent, frame)
    PROVE  /\ Len(sent) \in Nat /\ Len(sent') = Len(sent) + 1
           /\ DOMAIN sent = 1 .. Len(sent) /\ DOMAIN sent' = 1 .. Len(sent) + 1
           /\ \A i \in DOMAIN sent : i \in DOMAIN sent' /\ sent'[i] = sent[i]
           /\ \A i \in DOMAIN sent' : i \in DOMAIN sent \/ i = Len(sent) + 1
           /\ Len(sent) + 1 \in DOMAIN sent' /\ sent'[Len(sent) + 1] = frame
           /\ sent' \in Seq(ComponentFrames)
<1>1. sent \in Seq(ComponentFrames)
  BY DEF LinkTypeOK
<1>2. /\ Len(sent) \in Nat /\ Len(sent') = Len(sent) + 1
      /\ DOMAIN sent = 1 .. Len(sent) /\ DOMAIN sent' = 1 .. Len(sent) + 1
      /\ \A i \in 1 .. Len(sent) : sent'[i] = sent[i]
      /\ sent'[Len(sent) + 1] = frame
      /\ sent' \in Seq(ComponentFrames)
  BY <1>1, SeqFacts, AppendFacts
<1> QED
  BY <1>2

-----------------------------------------------------------------------------
(* Types *)

\* The identities on the wire: aegisd assigns component ids, and the component
\* registers with one or with none.
Identities ==
    /\ \A i \in DOMAIN inbox : inbox[i].command = "REGISTERED" =>
          inbox[i].arg \in ComponentIds \cup {NoKey, NotString}
    /\ \A i \in DOMAIN sent : sent[i].command = "REGISTER" =>
          sent[i].arg \in ComponentIds \cup {NoId}

\* The steps of aegisd keep the connection well typed.
LEMMA ServerType ==
    ASSUME LinkTypeOK, Identities, SrvNext
    PROVE  LinkTypeOK' /\ Identities'
<1>1. /\ link' \in {"down", "up", "eof"} /\ seen' \in Nat
      /\ greeted' \in BOOLEAN /\ cfgDue' \in BOOLEAN /\ pushed' \in Nat
  <2>1. CASE SrvProcess
    <3>1. UNCHANGED link /\ seen' = seen + 1
      BY <2>1 DEF SrvProcess
    <3>2. /\ greeted' = TRUE \/ UNCHANGED greeted
          /\ cfgDue' \in BOOLEAN
          /\ pushed' = pushed + 1 \/ UNCHANGED pushed
      BY <2>1 DEF SrvProcess, AnswerRegister, AnswerStateUpdate, AnswerError,
         AnswerNothing, LinkTypeOK
    <3>3. seen' \in Nat /\ pushed' \in Nat
      BY <3>1, <3>2 DEF LinkTypeOK
    <3> QED
      BY <3>1, <3>2, <3>3 DEF LinkTypeOK
  <2>2. CASE SrvConfigure
    BY <2>2 DEF SrvConfigure, LinkTypeOK
  <2>3. CASE SrvPush
    BY <2>3 DEF SrvPush, LinkTypeOK
  <2>4. CASE SrvClose
    BY <2>4 DEF SrvClose, LinkTypeOK
  <2> QED
    BY <2>1, <2>2, <2>3, <2>4 DEF SrvNext
<1>2. UNCHANGED sent /\ sent \in Seq(ComponentFrames)
  BY ServerEffect DEF LinkTypeOK
<1>3. CASE UNCHANGED <<inbox, asked>>
  BY <1>1, <1>2, <1>3 DEF LinkTypeOK, Identities
<1>4. ASSUME NEW frame \in ServerFrames, Put(frame)
      PROVE  /\ inbox' \in Seq(ServerFrames) /\ asked' \in Seq(Requests)
             /\ Identities'
  <2>1. inbox' \in Seq(ServerFrames) /\ asked' \in Seq(Requests)
    BY <1>4, PutFacts
  <2>2. frame.command = "REGISTERED" => frame.arg \in ComponentIds \cup {NoKey, NotString}
    BY <1>4 DEF Put, Offered, Identities
  <2>3. \A i \in DOMAIN inbox' : \/ i \in DOMAIN inbox /\ inbox'[i] = inbox[i]
                                 \/ inbox'[i] = frame
    BY <1>4, PutFacts
  <2> QED
    BY <1>2, <2>1, <2>2, <2>3 DEF Identities
<1> QED
  BY <1>1, <1>2, <1>3, <1>4, ServerEffect DEF LinkTypeOK

\* So do the steps of a component that takes frames and sends at most one.
LEMMA ClientType ==
    ASSUME LinkTypeOK, Identities, link' \in {"down", "up", "eof"}, UNCHANGED srvVars,
           NEW k \in Nat, Taken(k),
           \/ UNCHANGED sent
           \/ \E frame \in ComponentFrames :
                 /\ sent' = Append(sent, frame)
                 /\ frame.command = "REGISTER" => frame.arg \in ComponentIds \cup {NoId}
    PROVE  LinkTypeOK' /\ Identities'
<1>1. inbox' \in Seq(ServerFrames)
  BY DEF Taken
<1>2. \A i \in DOMAIN inbox' : inbox'[i].command = "REGISTERED" =>
          inbox'[i].arg \in ComponentIds \cup {NoKey, NotString}
  BY DEF Taken, Garbage, Identities
<1>3. CASE UNCHANGED sent
  BY <1>1, <1>2, <1>3 DEF LinkTypeOK, Identities, srvVars
<1>4. ASSUME NEW frame \in ComponentFrames, sent' = Append(sent, frame),
             frame.command = "REGISTER" => frame.arg \in ComponentIds \cup {NoId}
      PROVE  LinkTypeOK' /\ Identities'
  <2>1. \A i \in DOMAIN sent' : sent'[i].command = "REGISTER" =>
            sent'[i].arg \in ComponentIds \cup {NoId}
    BY <1>4, SentFacts DEF Identities
  <2>2. sent' \in Seq(ComponentFrames)
    BY <1>4, SentFacts
  <2> QED
    BY <1>1, <1>2, <2>1, <2>2 DEF LinkTypeOK, Identities, srvVars
<1> QED
  BY <1>3, <1>4

\* So do a new connection, the end of one, and a step that leaves it alone.
LEMMA LinkType ==
    ASSUME LinkTypeOK, Identities,
           OpenLink \/ CloseLink \/ UNCHANGED <<linkVars, srvVars>>
    PROVE  LinkTypeOK' /\ Identities'
<1>1. CASE OpenLink
  <2>1. pushed' \in Nat
    BY <1>1 DEF OpenLink, LinkTypeOK
  <2>2. DOMAIN inbox' = {} /\ DOMAIN sent' = {}
    BY <1>1, EmptyFacts DEF OpenLink
  <2>3. LinkTypeOK'
    BY <1>1, <2>1, EmptyFacts DEF OpenLink, LinkTypeOK
  <2> QED
    BY <2>2, <2>3 DEF Identities
<1>2. CASE CloseLink
  <2>1. DOMAIN inbox' = {}
    BY <1>2, EmptyFacts DEF CloseLink
  <2>2. LinkTypeOK'
    BY <1>2, EmptyFacts DEF CloseLink, LinkTypeOK
  <2> QED
    BY <1>2, <2>1, <2>2 DEF CloseLink, Identities
<1>3. CASE UNCHANGED <<linkVars, srvVars>>
  BY <1>3 DEF linkVars, srvVars, LinkTypeOK, Identities
<1> QED
  BY <1>1, <1>2, <1>3

-----------------------------------------------------------------------------
(* Requests and replies *)

\* The requests on their way are numbered by their place in `asked', in order, and
\* have the type of their command.
Numbered ==
    /\ \A i \in DOMAIN inbox :
          /\ inbox[i].command \in Requests =>
                inbox[i].id # 0 /\ inbox[i].type = RequestType(inbox[i].command)
          /\ inbox[i].id # 0 => /\ inbox[i].id \in DOMAIN asked
                                /\ asked[inbox[i].id] = inbox[i].command
    /\ \A i, j \in DOMAIN inbox :
          i < j /\ inbox[i].id # 0 /\ inbox[j].id # 0 => inbox[i].id < inbox[j].id

\* No request on its way was answered, or is older than one that was.
Ahead ==
    \A i \in DOMAIN sent, j \in DOMAIN inbox :
        inbox[j].id # 0 => sent[i].corr < inbox[j].id

QueueInv == RepliesMatch /\ Numbered /\ Ahead

\* Request r lies between those answered and those on their way: it may be answered.
InHand(r) ==
    /\ r \in DOMAIN asked
    /\ \A i \in DOMAIN sent : sent[i].corr < r
    /\ \A j \in DOMAIN inbox : inbox[j].id # 0 => r < inbox[j].id

\* What the client may answer carries the id of the request in hand and the command
\* that the request calls for; anything else carries no id.
MayAnswer(frame) ==
    frame.corr # 0 => InHand(frame.corr) /\ frame.command = ReplyTo(asked[frame.corr])

\* The steps of aegisd keep QueueInv and leave a request in hand.
LEMMA ServerQueue ==
    ASSUME LinkTypeOK, QueueInv, SrvNext
    PROVE  /\ QueueInv'
           /\ \A r : InHand(r) => InHand(r)'
           /\ \A r \in DOMAIN asked : r \in DOMAIN asked' /\ asked'[r] = asked[r]
<1>1. UNCHANGED sent
  BY ServerEffect
<1>2. CASE UNCHANGED <<inbox, asked>>
  BY <1>1, <1>2 DEF QueueInv, RepliesMatch, Numbered, Ahead, InHand
<1>3. ASSUME NEW frame \in ServerFrames, Put(frame)
      PROVE  /\ QueueInv'
             /\ \A r : InHand(r) => InHand(r)'
             /\ \A r \in DOMAIN asked : r \in DOMAIN asked' /\ asked'[r] = asked[r]
  <2>1. /\ Len(asked) \in Nat /\ DOMAIN asked = 1 .. Len(asked)
        /\ \A r \in DOMAIN asked : r \in DOMAIN asked' /\ asked'[r] = asked[r]
        /\ frame.id # 0 => /\ frame.id = Len(asked) + 1
                           /\ frame.id \in DOMAIN asked'
                           /\ asked'[frame.id] = frame.command
    BY <1>3, PutFacts
  <2>2. /\ Len(inbox) \in Nat
        /\ DOMAIN inbox = 1 .. Len(inbox) /\ DOMAIN inbox' = 1 .. Len(inbox) + 1
        /\ \A i \in DOMAIN inbox : inbox'[i] = inbox[i]
        /\ inbox'[Len(inbox) + 1] = frame
    BY <1>3, PutFacts
  <2>3. \A i \in DOMAIN inbox' : \/ i \in DOMAIN inbox /\ inbox'[i] = inbox[i]
                                 \/ i = Len(inbox) + 1 /\ inbox'[i] = frame
    BY <2>2
  <2>4. frame.id # 0 => \A r \in DOMAIN asked : r < frame.id
    BY <2>1
  <2>5. frame.command \in Requests =>
          frame.id # 0 /\ frame.type = RequestType(frame.command)
    BY <1>3, <2>1 DEF Put
  <2>6. RepliesMatch'
    BY <1>1, <2>1 DEF QueueInv, RepliesMatch
  <2>7. Numbered'
    <3>1. ASSUME NEW i \in DOMAIN inbox', NEW j \in DOMAIN inbox', i < j,
                 inbox'[i].id # 0, inbox'[j].id # 0
          PROVE  inbox'[i].id < inbox'[j].id
      <4>1. i \in DOMAIN inbox /\ inbox'[i] = inbox[i]
        BY <2>2, <3>1
      <4>2. CASE j \in DOMAIN inbox /\ inbox'[j] = inbox[j]
        BY <3>1, <4>1, <4>2 DEF QueueInv, Numbered
      <4>3. CASE inbox'[j] = frame
        BY <2>4, <3>1, <4>1, <4>3 DEF QueueInv, Numbered
      <4> QED
        BY <2>3, <4>2, <4>3
    <3>2. ASSUME NEW i \in DOMAIN inbox'
          PROVE  /\ inbox'[i].command \in Requests =>
                      /\ inbox'[i].id # 0
                      /\ inbox'[i].type = RequestType(inbox'[i].command)
                 /\ inbox'[i].id # 0 => /\ inbox'[i].id \in DOMAIN asked'
                                        /\ asked'[inbox'[i].id] = inbox'[i].command
      BY <2>1, <2>3, <2>5 DEF QueueInv, Numbered
    <3> QED
      BY <3>1, <3>2 DEF Numbered
  <2>8. Ahead'
    <3>1. ASSUME NEW i \in DOMAIN sent, NEW j \in DOMAIN inbox', inbox'[j].id # 0
          PROVE  sent[i].corr < inbox'[j].id
      <4>1. CASE j \in DOMAIN inbox /\ inbox'[j] = inbox[j]
        BY <3>1, <4>1 DEF QueueInv, Ahead
      <4>2. CASE inbox'[j] = frame
        <5>1. sent[i].corr = 0 \/ sent[i].corr \in DOMAIN asked
          BY DEF QueueInv, RepliesMatch
        <5> QED
          BY <2>1, <2>4, <3>1, <4>2, <5>1
      <4> QED
        BY <2>3, <4>1, <4>2
    <3> QED
      BY <1>1, <3>1 DEF Ahead
  <2>9. ASSUME NEW r, InHand(r)
        PROVE  InHand(r)'
    BY <1>1, <2>1, <2>3, <2>4, <2>9 DEF InHand
  <2> QED
    BY <2>1, <2>6, <2>7, <2>8, <2>9 DEF QueueInv
<1> QED
  BY <1>2, <1>3, ServerEffect

\* So do the steps of a component that takes frames and sends at most one that it
\* may; a request stays in hand as long as nothing is answered.
LEMMA ClientQueue ==
    ASSUME LinkTypeOK, QueueInv, UNCHANGED asked, NEW k \in Nat, Taken(k),
           \/ UNCHANGED sent
           \/ \E frame \in ComponentFrames : sent' = Append(sent, frame) /\ MayAnswer(frame)
    PROVE  QueueInv'
<1>1. \A i \in DOMAIN inbox' : \/ i + k \in DOMAIN inbox /\ inbox'[i] = inbox[i + k]
                               \/ Garbage(inbox'[i])
  BY DEF Taken
<1>2. \A i \in DOMAIN inbox' : i \in Nat
  BY SeqFacts DEF Taken
<1>3. "ACK" \notin Requests
  BY DEF Requests
<1>4. Numbered'
  <2>1. ASSUME NEW i \in DOMAIN inbox', NEW j \in DOMAIN inbox', i < j,
               inbox'[i].id # 0, inbox'[j].id # 0
        PROVE  inbox'[i].id < inbox'[j].id
    <3>1. /\ i + k \in DOMAIN inbox /\ inbox'[i] = inbox[i + k]
          /\ j + k \in DOMAIN inbox /\ inbox'[j] = inbox[j + k]
      BY <1>1, <2>1 DEF Garbage
    <3>2. i + k < j + k
      BY <1>2, <2>1
    <3> QED
      BY <2>1, <3>1, <3>2 DEF QueueInv, Numbered
  <2>2. ASSUME NEW i \in DOMAIN inbox'
        PROVE  /\ inbox'[i].command \in Requests =>
                    /\ inbox'[i].id # 0
                    /\ inbox'[i].type = RequestType(inbox'[i].command)
               /\ inbox'[i].id # 0 => /\ inbox'[i].id \in DOMAIN asked'
                                      /\ asked'[inbox'[i].id] = inbox'[i].command
    BY <1>1, <1>3 DEF QueueInv, Numbered, Garbage
  <2> QED
    BY <2>1, <2>2 DEF Numbered
<1>5. CASE UNCHANGED sent
  <2>1. RepliesMatch'
    BY <1>5 DEF QueueInv, RepliesMatch
  <2>2. Ahead'
    BY <1>1, <1>5 DEF QueueInv, Ahead, Garbage
  <2> QED
    BY <1>4, <2>1, <2>2 DEF QueueInv
<1>6. ASSUME NEW frame \in ComponentFrames, sent' = Append(sent, frame), MayAnswer(frame)
      PROVE  QueueInv'
  <2>1. \A i \in DOMAIN sent' : \/ i \in DOMAIN sent /\ sent'[i] = sent[i]
                                \/ i = Len(sent) + 1 /\ sent'[i] = frame
    BY <1>6, SentFacts
  <2>2. RepliesMatch'
    <3>1. ASSUME NEW i \in DOMAIN sent', NEW j \in DOMAIN sent', i < j,
                 sent'[i].corr # 0, sent'[j].corr # 0
          PROVE  sent'[i].corr < sent'[j].corr
      <4>1. i \in DOMAIN sent /\ sent'[i] = sent[i]
        BY <1>6, <3>1, SentFacts
      <4>2. CASE j \in DOMAIN sent /\ sent'[j] = sent[j]
        BY <3>1, <4>1, <4>2 DEF QueueInv, RepliesMatch
      <4>3. CASE sent'[j] = frame
        BY <1>6, <3>1, <4>1, <4>3 DEF MayAnswer, InHand
      <4> QED
        BY <2>1, <4>2, <4>3
    <3>2. \A i \in DOMAIN sent' : sent'[i].corr # 0 =>
              /\ sent'[i].corr \in DOMAIN asked'
              /\ sent'[i].command = ReplyTo(asked'[sent'[i].corr])
      BY <1>6, <2>1 DEF QueueInv, RepliesMatch, MayAnswer, InHand
    <3> QED
      BY <3>1, <3>2 DEF RepliesMatch
  <2>3. Ahead'
    <3>1. ASSUME NEW i \in DOMAIN sent', NEW j \in DOMAIN inbox', inbox'[j].id # 0
          PROVE  sent'[i].corr < inbox'[j].id
      <4>1. j + k \in DOMAIN inbox /\ inbox'[j] = inbox[j + k]
        BY <1>1, <3>1 DEF Garbage
      <4>2. CASE i \in DOMAIN sent /\ sent'[i] = sent[i]
        BY <3>1, <4>1, <4>2 DEF QueueInv, Ahead
      <4>3. CASE sent'[i] = frame
        <5>1. inbox[j + k].id \in Nat
          <6>1. inbox[j + k] \in ServerFrames
            BY <4>1, SeqFacts DEF LinkTypeOK
          <6> QED
            BY <6>1 DEF ServerFrames
        <5>2. CASE frame.corr = 0
          BY <3>1, <4>1, <4>3, <5>1, <5>2
        <5>3. CASE frame.corr # 0
          BY <1>6, <3>1, <4>1, <4>3, <5>3 DEF MayAnswer, InHand
        <5> QED
          BY <5>2, <5>3
      <4> QED
        BY <2>1, <4>2, <4>3
    <3> QED
      BY <3>1 DEF Ahead
  <2> QED
    BY <1>4, <2>2, <2>3 DEF QueueInv
<1> QED
  BY <1>5, <1>6

\* A request stays in hand while the component takes frames and answers nothing.
LEMMA StillInHand ==
    ASSUME LinkTypeOK, NEW r, InHand(r), UNCHANGED asked, NEW k \in Nat, Taken(k),
           \/ UNCHANGED sent
           \/ \E frame \in ComponentFrames : sent' = Append(sent, frame) /\ frame.corr = 0
    PROVE  InHand(r)'
<1>1. \A j \in DOMAIN inbox' : inbox'[j].id # 0 => r < inbox'[j].id
  BY DEF Taken, Garbage, InHand
<1>2. \A i \in DOMAIN sent' : sent'[i].corr < r
  <2>1. CASE UNCHANGED sent
    BY <2>1 DEF InHand
  <2>2. ASSUME NEW frame \in ComponentFrames, sent' = Append(sent, frame), frame.corr = 0
        PROVE  \A i \in DOMAIN sent' : sent'[i].corr < r
    <3>1. \A i \in DOMAIN sent' : \/ i \in DOMAIN sent /\ sent'[i] = sent[i]
                                  \/ sent'[i] = frame
      BY <2>2, SentFacts
    <3>2. 0 < r
      BY SeqFacts DEF InHand, LinkTypeOK
    <3> QED
      BY <2>2, <3>1, <3>2 DEF InHand
  <2> QED
    BY <2>1, <2>2
<1> QED
  BY <1>1, <1>2 DEF InHand

\* The request that the component takes out of the socket first is in hand then.
LEMMA HeadInHand ==
    ASSUME LinkTypeOK, QueueInv, UNCHANGED <<sent, asked>>, NEW k \in Nat \ {0}, Taken(k),
           NEW frame, inbox # <<>>, frame = Head(inbox), frame.command \in Requests
    PROVE  /\ InHand(frame.id)'
           /\ frame.id # 0
           /\ frame.id \in DOMAIN asked
           /\ asked[frame.id] = frame.command
           /\ frame.type = RequestType(frame.command)
<1>1. /\ 1 \in DOMAIN inbox /\ frame = inbox[1]
      /\ \A j \in DOMAIN inbox' : j \in Nat \ {0}
  BY SeqFacts, TailFacts DEF LinkTypeOK, Taken
<1>2. /\ frame.id # 0 /\ frame.type = RequestType(frame.command)
      /\ frame.id \in DOMAIN asked /\ asked[frame.id] = frame.command
  BY <1>1 DEF QueueInv, Numbered
<1>3. ASSUME NEW j \in DOMAIN inbox', inbox'[j].id # 0
      PROVE  frame.id < inbox'[j].id
  <2>1. j + k \in DOMAIN inbox /\ inbox'[j] = inbox[j + k]
    BY <1>3 DEF Taken, Garbage
  <2>2. 1 < j + k
    BY <1>1
  <2> QED
    BY <1>1, <1>2, <1>3, <2>1, <2>2 DEF QueueInv, Numbered
<1>4. \A i \in DOMAIN sent : sent[i].corr < frame.id
  BY <1>1, <1>2 DEF QueueInv, Ahead
<1> QED
  BY <1>1, <1>2, <1>3, <1>4 DEF InHand

\* A new connection, the end of one and a step that leaves it alone keep QueueInv.
LEMMA LinkQueue ==
    ASSUME QueueInv, OpenLink \/ CloseLink \/ UNCHANGED <<linkVars, srvVars>>
    PROVE  QueueInv'
<1>1. CASE OpenLink
  <2>1. DOMAIN sent' = {} /\ DOMAIN inbox' = {}
    BY <1>1, EmptyFacts DEF OpenLink
  <2> QED
    BY <2>1 DEF QueueInv, RepliesMatch, Numbered, Ahead
<1>2. CASE CloseLink
  <2>1. DOMAIN inbox' = {} /\ UNCHANGED <<sent, asked>>
    BY <1>2, EmptyFacts DEF CloseLink
  <2> QED
    BY <2>1 DEF QueueInv, RepliesMatch, Numbered, Ahead
<1>3. CASE UNCHANGED <<linkVars, srvVars>>
  BY <1>3 DEF linkVars, srvVars, QueueInv, RepliesMatch, Numbered, Ahead
<1> QED
  BY <1>1, <1>2, <1>3

-----------------------------------------------------------------------------
(* Announcements *)

\* The state that aegisd was last told on this connection.
LastTold(told) ==
    \E j \in DOMAIN sent :
        /\ IsUpdate(sent[j])
        /\ sent[j].arg = told
        /\ \A k \in DOMAIN sent : k > j => ~IsUpdate(sent[k])

\* A send announces a new state, or changes nothing about what was told last.
LEMMA SentTold ==
    ASSUME LinkTypeOK, NEW frame \in ComponentFrames, sent' = Append(sent, frame)
    PROVE  /\ IsUpdate(frame) => LastTold(frame.arg)'
           /\ ~IsUpdate(frame) => \A told : LastTold(told) => LastTold(told)'
<1>1. \A i \in DOMAIN sent' : \/ i \in DOMAIN sent /\ sent'[i] = sent[i]
                              \/ i = Len(sent) + 1 /\ sent'[i] = frame
  BY SentFacts
<1>2. /\ Len(sent) + 1 \in DOMAIN sent' /\ sent'[Len(sent) + 1] = frame
      /\ \A i \in DOMAIN sent' : ~(i > Len(sent) + 1)
      /\ \A i \in DOMAIN sent : i \in DOMAIN sent' /\ sent'[i] = sent[i]
  BY SentFacts
<1>3. IsUpdate(frame) => LastTold(frame.arg)'
  BY <1>2 DEF LastTold
<1>4. ASSUME ~IsUpdate(frame), NEW told, LastTold(told)
      PROVE  LastTold(told)'
  <2>1. PICK j \in DOMAIN sent :
            /\ IsUpdate(sent[j])
            /\ sent[j].arg = told
            /\ \A k \in DOMAIN sent : k > j => ~IsUpdate(sent[k])
    BY <1>4 DEF LastTold
  <2>2. \A k \in DOMAIN sent' : k > j => ~IsUpdate(sent'[k])
    BY <1>1, <1>4, <2>1
  <2> QED
    BY <1>2, <2>1, <2>2 DEF LastTold, IsUpdate
<1> QED
  BY <1>3, <1>4

\* A PONG that reports what was told last keeps PongTruthful.
LEMMA SentPong ==
    ASSUME LinkTypeOK, PongTruthful, NEW frame \in ComponentFrames,
           sent' = Append(sent, frame), frame.command = "PONG" => LastTold(frame.arg)
    PROVE  PongTruthful'
<1>1. /\ Len(sent) \in Nat /\ DOMAIN sent = 1 .. Len(sent)
      /\ DOMAIN sent' = 1 .. Len(sent) + 1
      /\ \A i \in DOMAIN sent : sent'[i] = sent[i]
      /\ sent'[Len(sent) + 1] = frame
  BY SentFacts
<1> SUFFICES ASSUME NEW i \in DOMAIN sent', sent'[i].command = "PONG"
             PROVE  \E j \in 1 .. i - 1 :
                        /\ IsUpdate(sent'[j])
                        /\ sent'[j].arg = sent'[i].arg
                        /\ \A k \in j + 1 .. i - 1 : ~IsUpdate(sent'[k])
  BY DEF PongTruthful
<1>2. CASE i \in DOMAIN sent
  <2>1. \A j \in 1 .. i - 1 : j \in DOMAIN sent
    BY <1>1, <1>2
  <2>2. PICK j \in 1 .. i - 1 :
            /\ IsUpdate(sent[j])
            /\ sent[j].arg = sent[i].arg
            /\ \A k \in j + 1 .. i - 1 : ~IsUpdate(sent[k])
    BY <1>1, <1>2 DEF PongTruthful
  <2>3. \A k \in j + 1 .. i - 1 : k \in 1 .. i - 1
    BY <1>1, <1>2
  <2> QED
    BY <1>1, <1>2, <2>1, <2>2, <2>3 DEF IsUpdate
<1>3. CASE i = Len(sent) + 1
  <2>1. PICK j \in DOMAIN sent :
            /\ IsUpdate(sent[j])
            /\ sent[j].arg = frame.arg
            /\ \A k \in DOMAIN sent : k > j => ~IsUpdate(sent[k])
    BY <1>1, <1>3 DEF LastTold
  <2>2. j \in 1 .. i - 1 /\ \A k \in j + 1 .. i - 1 : k \in DOMAIN sent /\ k > j
    BY <1>1, <1>3
  <2> QED
    BY <1>1, <1>3, <2>1, <2>2 DEF IsUpdate
<1> QED
  BY <1>1, <1>2, <1>3

\* What aegisd must take for the state of a component that announces nothing before it
\* is configured: what it was told last, or REGISTERED.
Silent == \A i \in DOMAIN sent : ~IsUpdate(sent[i])
Reported(state) == \/ LastTold(state)
                   \/ Silent /\ state = "REGISTERED"

\* A send that announces nothing changes nothing about the state reported.
LEMMA SentReported ==
    ASSUME LinkTypeOK, NEW frame \in ComponentFrames, sent' = Append(sent, frame)
    PROVE  /\ IsUpdate(frame) => Reported(frame.arg)'
           /\ ~IsUpdate(frame) => /\ Silent => Silent'
                                  /\ \A state : Reported(state) => Reported(state)'
<1>1. ~IsUpdate(frame) /\ Silent => Silent'
  BY SentFacts DEF Silent, IsUpdate
<1> QED
  BY <1>1, SentTold DEF Reported

\* A PONG that reports that state keeps PongConsistent.
LEMMA SentConsistent ==
    ASSUME LinkTypeOK, PongConsistent, NEW frame \in ComponentFrames,
           sent' = Append(sent, frame), frame.command = "PONG" => Reported(frame.arg)
    PROVE  PongConsistent'
<1>1. /\ Len(sent) \in Nat /\ DOMAIN sent = 1 .. Len(sent)
      /\ DOMAIN sent' = 1 .. Len(sent) + 1
      /\ \A i \in DOMAIN sent : sent'[i] = sent[i]
      /\ sent'[Len(sent) + 1] = frame
  BY SentFacts
<1> DEFINE updates(i) == {j \in 1 .. i - 1 : IsUpdate(sent[j])}
           ok(i) == IF updates(i) = {} THEN sent'[i].arg = "REGISTERED"
                    ELSE \E j \in updates(i) : /\ sent'[i].arg = sent[j].arg
                                               /\ \A k \in updates(i) : k <= j
<1> SUFFICES ASSUME NEW i \in DOMAIN sent', sent'[i].command = "PONG"
             PROVE  ok(i)
  <2>1. ASSUME NEW i \in DOMAIN sent', sent'[i].command = "PONG", ok(i)
        PROVE  LET after == {j \in 1 .. i - 1 : IsUpdate(sent[j])'}
               IN  IF after = {} THEN sent'[i].arg = "REGISTERED"
                   ELSE \E j \in after : /\ sent'[i].arg = sent'[j].arg
                                         /\ \A k \in after : k <= j
    <3>1. \A j \in 1 .. i - 1 : j \in DOMAIN sent /\ sent'[j] = sent[j]
      BY <1>1, <2>1
    <3>2. {j \in 1 .. i - 1 : IsUpdate(sent[j])'} = updates(i)
      BY <3>1 DEF IsUpdate
    <3> HIDE DEF updates
    <3>3. \A j \in updates(i) : sent'[j] = sent[j]
      BY <3>1 DEF updates
    <3> QED
      BY <2>1, <3>2, <3>3
  <2> HIDE DEF ok
  <2> QED
    BY <2>1 DEF PongConsistent
<1>2. CASE i \in DOMAIN sent
  BY <1>1, <1>2 DEF PongConsistent
<1>3. CASE i = Len(sent) + 1
  <2>1. 1 .. i - 1 = DOMAIN sent /\ sent'[i] = frame
    BY <1>1, <1>3
  <2>2. CASE Silent /\ frame.arg = "REGISTERED"
    <3>1. updates(i) = {}
      BY <2>1, <2>2 DEF Silent
    <3> QED
      BY <2>1, <2>2, <3>1
  <2>3. CASE LastTold(frame.arg)
    <3>1. PICK j \in DOMAIN sent :
              /\ IsUpdate(sent[j])
              /\ sent[j].arg = frame.arg
              /\ \A k \in DOMAIN sent : k > j => ~IsUpdate(sent[k])
      BY <2>3 DEF LastTold
    <3>2. j \in updates(i)
      BY <2>1, <3>1
    <3>3. \A k \in updates(i) : k <= j
      BY <1>1, <2>1, <3>1
    <3> QED
      BY <2>1, <3>1, <3>2, <3>3
  <2> QED
    BY <2>1, <2>2, <2>3 DEF Reported
<1> QED
  BY <1>1, <1>2, <1>3

\* A new connection, the end of one and a step that leaves it alone keep both.
LEMMA LinkReported ==
    ASSUME OpenLink \/ CloseLink \/ UNCHANGED sent
    PROVE  /\ PongConsistent => PongConsistent'
           /\ OpenLink => Silent'
           /\ ~OpenLink => /\ Silent => Silent'
                           /\ \A state : Reported(state) => Reported(state)'
<1>1. CASE OpenLink
  <2>1. DOMAIN sent' = {}
    BY <1>1, EmptyFacts DEF OpenLink
  <2> QED
    BY <1>1, <2>1 DEF PongConsistent, Silent
<1>2. CASE ~OpenLink
  <2>1. UNCHANGED sent
    BY <1>2 DEF CloseLink
  <2> QED
    BY <1>2, <2>1 DEF PongConsistent, IsUpdate, Silent, Reported, LastTold
<1> QED
  BY <1>1, <1>2

-----------------------------------------------------------------------------
(* The delay before a reconnect *)

\* A set of naturals with 0 that is closed under successor is all of them.
LEMMA NatSet ==
    ASSUME NEW S \in SUBSET Nat, 0 \in S, \A n \in S : n + 1 \in S
    PROVE  S = Nat
<1> DEFINE R == OpToRel(<, Nat)
           T == Nat \ S
<1>1. SUFFICES ASSUME T # {}
               PROVE  FALSE
  OBVIOUS
<1>2. IsWellFoundedOn(R, Nat) /\ T \subseteq Nat
  BY NatLessThanWellFounded, Zenon
<1>3. \A x, y \in Nat : x < y => <<x, y>> \in R
  BY DEF OpToRel
<1> HIDE DEF R
<1>4. PICK x \in T : \A y \in T : <<y, x>> \notin R
  <2> HIDE DEF T
  <2> QED
    BY <1>1, <1>2, WFMin
<1>5. x \in Nat /\ x # 0 /\ x - 1 \in Nat /\ x - 1 < x
  BY <1>4
<1>6. x - 1 \in S
  BY <1>3, <1>4, <1>5
<1> QED
  BY <1>4, <1>5, <1>6

\* f doubles from base, up to n.
Doubles(f, base, n) ==
    f[0] = base /\ \A i \in 1 .. n : f[i] = 2 * f[i - 1]

\* Two functions that double from the same base agree.
LEMMA DoublesUnique ==
    ASSUME NEW base \in Nat, NEW m \in Nat, NEW n \in Nat, m <= n,
           NEW f, NEW g, Doubles(f, base, m), Doubles(g, base, n)
    PROVE  f[m] = g[m]
<1> DEFINE S == {i \in Nat : i <= m => f[i] = g[i]}
<1>1. 0 \in S
  BY DEF Doubles
<1>2. ASSUME NEW i \in S
      PROVE  i + 1 \in S
  <2>1. i \in Nat /\ (i + 1) - 1 = i /\ i + 1 \in Nat
    OBVIOUS
  <2>2. CASE i + 1 <= m
    <3>1. i <= m /\ i + 1 \in 1 .. m /\ i + 1 \in 1 .. n /\ f[i] = g[i]
      BY <1>2, <2>1, <2>2
    <3>2. f[i + 1] = 2 * f[(i + 1) - 1] /\ g[i + 1] = 2 * g[(i + 1) - 1]
      BY <3>1 DEF Doubles
    <3> QED
      BY <2>1, <3>1, <3>2
  <2> QED
    BY <2>1, <2>2
<1>3. S = Nat
  <2> HIDE DEF S
  <2>1. S \in SUBSET Nat
    BY DEF S
  <2> QED
    BY <1>1, <1>2, <2>1, NatSet
<1> QED
  BY <1>3

\* There is one for every length.
LEMMA DoublesExist ==
    ASSUME NEW base \in Nat, NEW n \in Nat
    PROVE  \E f \in [Nat -> Nat] : Doubles(f, base, n)
<1> DEFINE S == {i \in Nat : \E f \in [Nat -> Nat] : Doubles(f, base, i)}
<1>1. 0 \in S
  <2>1. [i \in Nat |-> base] \in [Nat -> Nat] /\ Doubles([i \in Nat |-> base], base, 0)
    BY DEF Doubles
  <2> QED
    BY <2>1
<1>2. ASSUME NEW i \in S
      PROVE  i + 1 \in S
  <2>1. PICK f \in [Nat -> Nat] : Doubles(f, base, i)
    OBVIOUS
  <2> DEFINE g == [f EXCEPT ![i + 1] = 2 * f[i]]
  <2>2. i \in Nat /\ g \in [Nat -> Nat]
    OBVIOUS
  <2>3. Doubles(g, base, i + 1)
    <3>1. g[0] = base
      BY <2>1, <2>2 DEF Doubles
    <3>2. ASSUME NEW k \in 1 .. i + 1
          PROVE  g[k] = 2 * g[k - 1]
      <4>1. CASE k = i + 1
        BY <2>2, <4>1
      <4>2. CASE k # i + 1
        <5>1. k \in 1 .. i /\ k - 1 \in Nat /\ k - 1 # i + 1
          BY <2>2, <4>2
        <5> QED
          BY <2>1, <2>2, <5>1 DEF Doubles
      <4> QED
        BY <4>1, <4>2
    <3> QED
      BY <3>1, <3>2 DEF Doubles
  <2> HIDE DEF g
  <2> QED
    BY <2>2, <2>3
<1>3. S = Nat
  <2> HIDE DEF S
  <2>1. S \in SUBSET Nat
    BY DEF S
  <2> QED
    BY <1>1, <1>2, <2>1, NatSet
<1> QED
  BY <1>3

\* The recursive definition of Doubled(base) has a solution, so that it is one.
LEMMA DoubledFacts ==
    ASSUME NEW base \in Nat
    PROVE  /\ Doubled(base)[0] = base
           /\ \A n \in Nat : /\ Doubled(base)[n] \in Nat
                             /\ Doubled(base)[n + 1] = 2 * Doubled(base)[n]
<1> DEFINE Step(f) == [n \in Nat |-> IF n = 0 THEN base ELSE 2 * f[n - 1]]
           Good(n) == CHOOSE f \in [Nat -> Nat] : Doubles(f, base, n)
           g == [n \in Nat |-> Good(n)[n]]
<1>1. \A n \in Nat : Good(n) \in [Nat -> Nat] /\ Doubles(Good(n), base, n)
  BY DoublesExist
<1> HIDE DEF Good
<1>2. \A n \in Nat : g[n] \in Nat
  BY <1>1
<1>3. g = Step(g)
  <2>1. ASSUME NEW n \in Nat
        PROVE  g[n] = Step(g)[n]
    <3>1. CASE n = 0
      BY <1>1, <3>1 DEF Doubles
    <3>2. CASE n # 0
      <4>1. n - 1 \in Nat /\ n - 1 <= n /\ n \in 1 .. n
        BY <3>2
      <4>2. Good(n)[n] = 2 * Good(n)[n - 1]
        BY <1>1, <4>1 DEF Doubles
      <4>3. Good(n - 1)[n - 1] = Good(n)[n - 1]
        BY <1>1, <4>1, DoublesUnique
      <4> QED
        BY <3>2, <4>1, <4>2, <4>3
    <3> QED
      BY <3>1, <3>2
  <2> HIDE DEF Step
  <2>2. DOMAIN Step(g) = Nat /\ Step(g) = [n \in Nat |-> Step(g)[n]]
    BY DEF Step
  <2> QED
    BY <2>1, <2>2
<1> HIDE DEF g
<1>4. Doubled(base) = Step(Doubled(base))
  BY <1>3 DEF Doubled
<1> DEFINE d == Doubled(base)
<1>5. d[0] = base /\ \A n \in Nat : d[n + 1] = 2 * d[n]
  <2>1. d = [n \in Nat |-> IF n = 0 THEN base ELSE 2 * d[n - 1]]
    BY <1>4
  <2> HIDE DEF d
  <2>2. \A n \in Nat : n + 1 \in Nat /\ n + 1 # 0 /\ (n + 1) - 1 = n
    OBVIOUS
  <2> QED
    BY <2>1, <2>2
<1> HIDE DEF d
<1>6. \A n \in Nat : d[n] \in Nat
  <2> DEFINE S == {n \in Nat : d[n] \in Nat}
  <2>1. 0 \in S /\ \A n \in S : n + 1 \in S
    BY <1>5
  <2> HIDE DEF S
  <2>2. S \in SUBSET Nat
    BY DEF S
  <2>3. S = Nat
    BY <2>1, <2>2, NatSet
  <2> QED
    BY <2>3 DEF S
<1> QED
  BY <1>5, <1>6 DEF d

\* What the clients do: they double the previous delay, or take the cap.
LEMMA NextDelayAfter ==
    ASSUME NEW base \in Nat, NEW cap \in Nat, NEW n \in Nat
    PROVE  /\ DelayAfter(0, base, cap) = base
           /\ DelayAfter(n, base, cap) \in Nat
           /\ DelayAfter(n + 1, base, cap) =
                IF 2 * DelayAfter(n, base, cap) < cap
                THEN 2 * DelayAfter(n, base, cap)
                ELSE cap
<1>1. /\ Doubled(base)[0] = base
      /\ Doubled(base)[n] \in Nat
      /\ Doubled(base)[n + 1] = 2 * Doubled(base)[n]
  BY DoubledFacts
<1> QED
  BY <1>1 DEF DelayAfter
=============================================================================
