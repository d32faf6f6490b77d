------------------------------ MODULE MCUptimeMeter ------------------------------
(* Instances of UptimeMeter for TLC: two sessions and a minute of two instants. *)
EXTENDS UptimeMeter, TLC

CONSTANTS w1, w2, none

TwoSessions == {w1, w2}

\* The sessions are interchangeable.
Sessions == Permutations(TwoSessions)

=================================================================================
