------------------------- MODULE LifecycleContract -------------------------
(***************************************************************************)
(* What aegisd may rely on about one component, whatever SDK it is written *)
(* with: on every connection it registers, announces INITIALIZING, READY,  *)
(* CONFIGURED and RUNNING in this order and without skipping one, may be   *)
(* configured again while RUNNING, may drop off at any point and start     *)
(* over, and once stopped never comes back.                                *)
(***************************************************************************)
VARIABLE phase

\* The announcement that may follow each phase of a connection.
Advances == {<<"offline", "registering">>,
             <<"registering", "REGISTERED">>,
             <<"REGISTERED", "INITIALIZING">>,
             <<"INITIALIZING", "READY">>,
             <<"READY", "CONFIGURED">>,
             <<"CONFIGURED", "RUNNING">>,
             <<"RUNNING", "CONFIGURED">>}

Init == phase = "offline"

Advance == <<phase, phase'>> \in Advances

Drop == /\ phase \notin {"offline", "stopped"}
        /\ phase' = "offline"

Stop == /\ phase # "stopped"
        /\ phase' = "stopped"

Next == Advance \/ Drop \/ Stop

Spec == Init /\ [][Next]_phase

\* The shorter lifecycle of the SDKs that announce neither INITIALIZING nor READY: a
\* component is configured as soon as it is registered.
ShortAdvances == {<<"offline", "registering">>,
                  <<"registering", "REGISTERED">>,
                  <<"REGISTERED", "CONFIGURED">>,
                  <<"CONFIGURED", "RUNNING">>,
                  <<"RUNNING", "CONFIGURED">>}

ShortAdvance == <<phase, phase'>> \in ShortAdvances

ShortNext == ShortAdvance \/ Drop \/ Stop

ShortSpec == Init /\ [][ShortNext]_phase
=============================================================================
