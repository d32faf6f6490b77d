--------------------------- MODULE MCFirmwareUpgrade ---------------------------
(* Instances of FirmwareUpgrade for TLC. *)
EXTENDS FirmwareUpgrade

CONSTANTS d1, v1, v2, v3, none

================================================================================
