---------------------------- MODULE MCOpenwrtHealth ----------------------------
(* Instances of OpenwrtHealth for TLC. *)
EXTENDS OpenwrtHealth

CONSTANTS a1, a2, none

================================================================================
