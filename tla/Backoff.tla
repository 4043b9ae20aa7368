------------------------------- MODULE Backoff -------------------------------
(***************************************************************************)
(* How long a client should wait before it connects again: the delay       *)
(* doubles with every wait until it reaches the cap.  The clients compute  *)
(* it step by step, from the previous delay; this is what it should be.    *)
(***************************************************************************)
EXTENDS Naturals

\* base * 2^n.
Doubled(base) ==
    LET times[n \in Nat] == IF n = 0 THEN base ELSE 2 * times[n - 1]
    IN  times

\* The delay after n waits.  The cap does not hold for the first one.
DelayAfter(n, base, cap) ==
    IF n = 0 \/ Doubled(base)[n] < cap THEN Doubled(base)[n] ELSE cap
=============================================================================
