------------------------------ MODULE MCMqttIngest ------------------------------
(***************************************************************************)
(* Instances of MqttIngest for TLC: a relay that is on or off.             *)
(***************************************************************************)
EXTENDS MqttIngest

CONSTANTS on, off, unknown

OnOff == {on, off}
================================================================================
