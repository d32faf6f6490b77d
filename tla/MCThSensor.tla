------------------------------- MODULE MCThSensor -------------------------------
(***************************************************************************)
(* An instance of ThSensor for TLC: two sessions, and limits such that a   *)
(* reading may be below, on or above them.                                 *)
(***************************************************************************)
EXTENDS ThSensor

CONSTANTS s1, s2

TwoSessions  == {s1, s2}
ThreeValues  == 1 .. 3
SensorLimits == [low |-> 2, high |-> 2]
Shifted      == {[low |-> 1, high |-> 1]}
SecondHour   == {2}
================================================================================
