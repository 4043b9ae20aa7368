------------------------ MODULE ConnectionProperties ------------------------
(***************************************************************************)
(* What aegisd can observe on one connection of a component, in terms of   *)
(* the requests it made (`asked') and the frames it was sent (`sent'); the *)
(* SDKs share these properties.                                            *)
(***************************************************************************)
EXTENDS Aegisd

\* The handlers of PING, CONFIGURE, REBORN and SHUTDOWN: a frame with a
\* correlation id answers a request of this connection with the command that the
\* request calls for, and requests are answered in the order in which aegisd
\* made them, each at most once.
RepliesMatch ==
    /\ \A i \in DOMAIN sent : sent[i].corr # 0 =>
          /\ sent[i].corr \in DOMAIN asked
          /\ sent[i].command = ReplyTo(asked[sent[i].corr])
    /\ \A i, j \in DOMAIN sent :
          i < j /\ sent[i].corr # 0 /\ sent[j].corr # 0
             => sent[i].corr < sent[j].corr

IsUpdate(frame) == frame.command = "STATE_UPDATE"

\* send_state_update / SendStateUpdate store the state after they sent the frame
\* and the PING handler reads it later: the state a PONG reports is the one that
\* aegisd was last told on this connection.
PongTruthful ==
    \A i \in DOMAIN sent : sent[i].command = "PONG" =>
        \E j \in 1 .. i - 1 :
            /\ IsUpdate(sent[j])
            /\ sent[j].arg = sent[i].arg
            /\ \A k \in j + 1 .. i - 1 : ~IsUpdate(sent[k])

\* The same for the clients that announce nothing before they are configured: the
\* state of a PONG is the one of the last STATE_UPDATE, or REGISTERED if there was
\* none, and never one that survived from an earlier connection.
PongConsistent ==
    \A i \in DOMAIN sent : sent[i].command = "PONG" =>
        LET updates == {j \in 1 .. i - 1 : IsUpdate(sent[j])}
        IN  IF updates = {} THEN sent[i].arg = "REGISTERED"
            ELSE \E j \in updates : /\ sent[i].arg = sent[j].arg
                                     /\ \A k \in updates : k <= j

\* register: a connection begins with REGISTER, whatever tasks and goroutines of
\* earlier sessions are still alive; only the updates of a handler's goroutine may
\* slip in before it, in the SDK that shares its connection with them.
HandshakeFirst == sent # <<>> => sent[1].command = "REGISTER"
RegisterFirst ==
    \A i \in DOMAIN sent :
        \/ \E j \in 1 .. i : sent[j].command = "REGISTER"
        \/ IsUpdate(sent[i]) /\ sent[i].arg \in {"WAITING", "RUNNING"}
=============================================================================
