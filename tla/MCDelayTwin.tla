------------------------------- MODULE MCDelayTwin -------------------------------
(* Instances of DelayTwin for TLC. *)
EXTENDS DelayTwin

CONSTANT never

==================================================================================
