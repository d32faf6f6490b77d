------------------------------ MODULE MCAttendance ------------------------------
(***************************************************************************)
(* Instances of Attendance for TLC: a gate read by ADMS in automatic       *)
(* direction, a door that posts to the webhook, an old terminal that is    *)
(* pulled and cleared, a stray ADMS terminal that no device row matches,   *)
(* and two Odoo workers.                                                   *)
(***************************************************************************)
EXTENDS Attendance

CONSTANTS gate, door, old, stray, s1, s2, none

\* Each terminal with its protocol; the stray one has no device row.
Terminals  == {gate, door, old, stray}
Connected  == [d \in Terminals |->
                   CASE d = door -> "push" [] d = old -> "pull" [] OTHER -> "adms"]
Directed   == [d \in Terminals |-> IF d = door THEN {"in", "out"} ELSE {"auto"}]
TwoWorkers == {s1, s2}

\* The door's mapping is there, the gate's comes, the old terminal's employee is
\* found by code.
DoorKnows  == {door}
OldCodes   == {old}
GateOnly   == {gate}
Cleared    == {old}
Strays     == {stray}
================================================================================
