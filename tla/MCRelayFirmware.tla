---------------------------- MODULE MCRelayFirmware ----------------------------
(* Instance of RelayFirmware for TLC: a two-minute week, the empty table and a *)
(* table that switches on in minute 0 and off in minute 1.                     *)
EXTENDS RelayFirmware

CONSTANTS Empty, Daily

MCSchedules == {Empty, Daily}

MCDue == [s \in MCSchedules |->
            [m \in 0 .. Minutes - 1 |->
                IF s = Empty THEN "none" ELSE IF m = 0 THEN "on" ELSE "off"]]

================================================================================
