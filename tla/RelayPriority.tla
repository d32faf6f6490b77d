----------------------------- MODULE RelayPriority -----------------------------
(***************************************************************************)
(* What the relay module promises about its delay mode, without clock,     *)
(* commands or storage: while a delay holds the relay, nothing but an      *)
(* explicit override switches it, and an override switches it off.  The    *)
(* firmware (RelayFirmware) is shown to implement this module.             *)
(***************************************************************************)
VARIABLES on,    \* is the relay energised?
          held   \* does a running delay hold it?

vars == <<on, held>>

Init == on = FALSE /\ held = FALSE

\* With no delay running, any source may switch the relay.
Switch == ~held /\ on' \in BOOLEAN /\ UNCHANGED held

\* A delay takes hold of the relay and switches it on.
Hold == ~held /\ on' = TRUE /\ held' = TRUE

\* The countdown runs out: the hold ends, the relay is switched off later.
Lapse == held /\ held' = FALSE /\ UNCHANGED on

\* Cancel, wall button or loss of power: the hold ends with the relay off.
Override == held /\ held' = FALSE /\ on' = FALSE

Next == Switch \/ Hold \/ Lapse \/ Override

Spec == Init /\ [][Next]_vars

\* A held relay is energised: a delay never holds a relay that is off.
HeldMeansOn == held => on

================================================================================
