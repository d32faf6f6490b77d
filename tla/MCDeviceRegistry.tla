--------------------------- MODULE MCDeviceRegistry ----------------------------
(* Instances of DeviceRegistry for TLC. *)
EXTENDS DeviceRegistry, TLC

CONSTANTS w1, w2, c1, c2, none

Symmetry == Permutations(Workers) \cup Permutations(Companies)

================================================================================
