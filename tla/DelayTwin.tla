------------------------------- MODULE DelayTwin -------------------------------
(***************************************************************************)
(* The delay mode of one switch as Odoo sees it (models/iot_device.py) and *)
(* as the module runs it (esp8266_relay.ino), with commands and reports on *)
(* their way between the two.                                              *)
(*                                                                         *)
(* Odoo's buttons publish a command and write what they expect of it into  *)
(* the record at once; the module's reports put it right later.  A request *)
(* is a transaction under REPEATABLE READ: it decides on the record as it  *)
(* was when it began, publishes, and only then writes the row.             *)
(***************************************************************************)
EXTENDS Naturals, Sequences

CONSTANTS Duration,   \* delay_duration_minutes, in Ticks
          Tries,      \* runs of a request that meets serialization failures
          NoTime,     \* an empty datetime column
          MaxClicks,  \* bound: requests of the users
          MaxPresses, \* bound: presses of the wall button
          MaxFaults,  \* bound: lost or refused messages
          MaxWire     \* bound: messages on each hop

ASSUME ConstantsAssumption ==
    /\ Duration \in Nat \ {0}
    /\ Tries \in Nat \ {0}
    /\ NoTime \notin Nat
    /\ MaxClicks \in Nat /\ MaxPresses \in Nat /\ MaxFaults \in Nat
    /\ MaxWire \in Nat \ {0}

VARIABLES
    rec,      \* relay_state, delay_active and the time left to delay_end_at
    txn,      \* the request under way
    mod,      \* the module's relay, delayActive and time left to delayEndAtMs
    down,     \* commands on their way to the module
    up,       \* reports on their way to Odoo
    clicks, presses, faults

vars == <<rec, txn, mod, down, up, clicks, presses, faults>>

Times    == 0 .. Duration
Records  == [relay : {"unknown", "off", "on"}, delay : BOOLEAN, end : Times \cup {NoTime}]
Modules  == [on : BOOLEAN, delay : BOOLEAN, left : Times]
Commands == {"on", "off", "delay_toggle"}
Reports  == [on : BOOLEAN, delay : BOOLEAN, left : Times]
Requests == {"on", "off", "delay"}
Txns     == [pc : {"closed", "begun", "published"}, kind : Requests, row : Records,
             stale : BOOLEAN, run : 1 .. Tries]

TypeOK ==
    /\ rec \in Records
    /\ txn \in Txns
    /\ mod \in Modules
    /\ down \in Seq(Commands)
    /\ up \in Seq(Reports)
    /\ clicks \in 0 .. MaxClicks
    /\ presses \in 0 .. MaxPresses
    /\ faults \in 0 .. MaxFaults

Blank  == [relay |-> "unknown", delay |-> FALSE, end |-> NoTime]
Closed == [pc |-> "closed", kind |-> "on", row |-> Blank, stale |-> FALSE, run |-> 1]

Init ==
    /\ rec = Blank
    /\ txn = Closed
    /\ mod = [on |-> FALSE, delay |-> FALSE, left |-> 0]
    /\ down = <<>> /\ up = <<>>
    /\ clicks = 0 /\ presses = 0 /\ faults = 0

Fault == faults < MaxFaults /\ faults' = faults + 1

--------------------------------------------------------------------------------
(* The record *)

\* _delay_locked_devices(), and the test of action_delay_toggle().
Locked(r) == r.delay /\ (r.end = NoTime \/ r.end > 0)

\* Mutant: switching off leaves the delay flagged.
SwitchedOnly(r, state) == [r EXCEPT !.relay = state]

\* apply_state_report()
Switched(r, state) ==
    IF state = "on" THEN [r EXCEPT !.relay = "on"]
    ELSE [relay |-> state, delay |-> FALSE, end |-> NoTime]

\* action_delay_toggle(), once it has published.
Toggled(r) ==
    IF Locked(r) THEN [relay |-> "off", delay |-> FALSE, end |-> NoTime]
    ELSE [relay |-> "on", delay |-> TRUE, end |-> Duration]

\* Mutant: a report that ends the delay is not heeded.
DelayKept(r, report) ==
    IF report.delay /\ report.left > 0 THEN [r EXCEPT !.delay = TRUE, !.end = report.left]
    ELSE [r EXCEPT !.delay = @ \/ report.delay]

\* apply_delay_report(): an end time only if some of it remains.
Delayed(r, report) ==
    CASE ~report.delay                     -> [r EXCEPT !.delay = FALSE, !.end = NoTime]
      [] report.delay /\ report.left > 0   -> [r EXCEPT !.delay = TRUE, !.end = report.left]
      [] report.delay /\ report.left = 0   -> [r EXCEPT !.delay = TRUE]

--------------------------------------------------------------------------------
(* Requests *)

\* A write of the row by another transaction fails the request's own.
Overtaken == [txn EXCEPT !.stale = (txn.pc # "closed")]

Begun(kind, run) == [pc |-> "begun", kind |-> kind, row |-> rec, stale |-> FALSE, run |-> run]

\* action_turn_on(), action_turn_off() and action_delay_toggle(); the first two
\* are refused while the record says that a delay runs.
Click(kind) ==
    /\ txn.pc = "closed"
    /\ clicks < MaxClicks
    /\ kind # "delay" => ~Locked(rec)
    /\ clicks' = clicks + 1
    /\ txn' = Begun(kind, 1)
    /\ UNCHANGED <<rec, mod, down, up, presses, faults>>

\* _publish_command(): nothing is written if it fails; a command may be lost
\* though it was reported as published, or find the module offline.
Publish ==
    /\ txn.pc = "begun"
    /\ LET command == IF txn.kind = "delay" THEN "delay_toggle" ELSE txn.kind IN
          \/ /\ Len(down) < MaxWire
             /\ down' = Append(down, command)
             /\ txn' = [txn EXCEPT !.pc = "published"]
             /\ UNCHANGED faults
          \/ Fault /\ txn' = [txn EXCEPT !.pc = "published"] /\ UNCHANGED down
          \/ Fault /\ txn' = Closed /\ UNCHANGED down
    /\ UNCHANGED <<rec, mod, up, clicks, presses>>

\* What the user expects is written into the record.
WriteBack ==
    /\ txn.pc = "published" /\ ~txn.stale
    /\ rec' = IF txn.kind = "delay" THEN Toggled(txn.row) ELSE Switched(txn.row, txn.kind)
    /\ txn' = Closed
    /\ UNCHANGED <<mod, down, up, clicks, presses, faults>>

\* retrying() of the Odoo server gives up in the end.
MayRunAgain(t) == t.kind = "delay" /\ t.run < Tries

\* Or another transaction has written the row: _apply_state_report_safe() gives
\* the write up, whereas Odoo runs a failed delay request again, publishing
\* included.
WriteFails ==
    /\ txn.pc = "published" /\ txn.stale
    /\ txn' = IF MayRunAgain(txn) THEN Begun("delay", txn.run + 1) ELSE Closed
    /\ UNCHANGED <<rec, mod, down, up, clicks, presses, faults>>

--------------------------------------------------------------------------------
(* Reports and the cron job *)

\* _process_one(): state and delay of one report, in one transaction.
ProcessReport ==
    /\ up # <<>>
    /\ LET report == Head(up) IN
          rec' = Delayed(Switched(rec, IF report.on THEN "on" ELSE "off"), report)
    /\ txn' = Overtaken
    /\ up' = Tail(up)
    /\ UNCHANGED <<mod, down, clicks, presses, faults>>

\* A report is lost, or given up for contention.
LoseReport ==
    /\ up # <<>>
    /\ Fault
    /\ up' = Tail(up)
    /\ UNCHANGED <<rec, txn, mod, down, clicks, presses>>

\* _cron_ensure_mqtt_service(): delays past their end are no longer flagged.
ExpireRecord ==
    /\ rec.delay /\ rec.end = 0
    /\ rec' = [rec EXCEPT !.delay = FALSE, !.end = NoTime]
    /\ txn' = Overtaken
    /\ UNCHANGED <<mod, down, up, clicks, presses, faults>>

--------------------------------------------------------------------------------
(* The module *)

Running == mod.delay /\ mod.left > 0

\* delayRemainingSec() rounds down: nothing remains in the last second of a delay.
Remaining(m) == IF m.left = 1 THEN {0, 1} ELSE {m.left}

\* publishStatus() and publishTelemetry() of the module m: QoS 0.
Reporting(m) ==
    IF Len(up) = MaxWire THEN UNCHANGED up
    ELSE \E left \in Remaining(m) :
            up' = Append(up, [on |-> m.on, delay |-> m.delay /\ m.left > 0, left |-> left])

\* isDelayActive() clears an expired delay, whoever calls it.
Checked(m) == IF m.delay /\ m.left = 0 THEN [m EXCEPT !.delay = FALSE] ELSE m

Off     == [on |-> FALSE, delay |-> FALSE, left |-> 0]
Started == [on |-> TRUE, delay |-> TRUE, left |-> Duration]

\* handleCommand()
Obeyed(command) ==
    CASE command = "delay_toggle" /\ Running    -> Off
      [] command = "delay_toggle" /\ ~Running   -> Started
      [] command # "delay_toggle" /\ Running    -> mod
      [] command # "delay_toggle" /\ ~Running   -> [Checked(mod) EXCEPT !.on = (command = "on")]

HandleCommand ==
    /\ down # <<>>
    /\ mod' = Obeyed(Head(down))
    /\ Reporting(mod')
    /\ down' = Tail(down)
    /\ UNCHANGED <<rec, txn, clicks, presses, faults>>

\* handleButton()
ButtonPressed ==
    /\ presses < MaxPresses
    /\ presses' = presses + 1
    /\ mod' = [on |-> ~mod.on, delay |-> FALSE, left |-> 0]
    /\ Reporting(mod')
    /\ UNCHANGED <<rec, txn, down, clicks, faults>>

\* loop() sees the end of the delay.
DelayExpires ==
    /\ mod.delay /\ mod.left = 0
    /\ mod' = Off
    /\ Reporting(mod')
    /\ UNCHANGED <<rec, txn, down, clicks, presses, faults>>

\* publishTelemetry(), and the status after a connection.
Telemetry ==
    /\ Len(up) < MaxWire
    /\ mod' = Checked(mod)
    /\ Reporting(mod')
    /\ UNCHANGED <<rec, txn, down, clicks, presses, faults>>

Sooner(t) == IF t \in Nat /\ t > 0 THEN t - 1 ELSE t

Tick ==
    /\ rec' = [rec EXCEPT !.end = Sooner(@)]
    /\ txn' = [txn EXCEPT !.row.end = Sooner(@)]
    /\ mod' = [mod EXCEPT !.left = Sooner(@)]
    /\ UNCHANGED <<down, up, clicks, presses, faults>>

--------------------------------------------------------------------------------
Next ==
    \/ (\E kind \in Requests : Click(kind)) \/ Publish \/ WriteBack \/ WriteFails
    \/ ProcessReport \/ LoseReport \/ ExpireRecord
    \/ HandleCommand \/ ButtonPressed \/ DelayExpires \/ Telemetry
    \/ Tick

Spec == Init /\ [][Next]_vars

\* Requests finish, messages travel, the module reports every 30 s and the clock
\* goes on.  Nothing is assumed of the cron job.
Fairness ==
    /\ WF_vars(Publish) /\ WF_vars(WriteBack) /\ WF_vars(WriteFails)
    /\ WF_vars(ProcessReport) /\ WF_vars(HandleCommand)
    /\ WF_vars(Telemetry) /\ WF_vars(DelayExpires) /\ WF_vars(Tick)

FairSpec == Spec /\ Fairness

--------------------------------------------------------------------------------
(* Properties *)

\* Records, modules and reports in which a delay goes with a relay that is on.
HeldRecords == {r \in Records : r.delay => r.relay = "on"}
HeldModules == {m \in Modules : m.delay => m.on}
HeldReports == {r \in Reports : r.delay => r.on}

\* The inductive invariant behind DelayShownOn: the record can only be right if
\* the snapshot it is written from, the module and every report under way are.
IInv ==
    /\ rec \in HeldRecords
    /\ txn.row \in HeldRecords
    /\ mod \in HeldModules
    /\ up \in Seq(HeldReports)

\* A delay is never shown on a switch that is shown off: button presses, refused
\* commands, the record's own expiry and late reports included.
DelayShownOn == rec.delay => rec.relay = "on"

\* The lock of the record ends with the module's delay, and the relay state it
\* shows is right in the end, whatever was lost on the way and whatever the
\* optimistic writes said.
TwinSettles == <>[](/\ Locked(rec) <=> Running
                    /\ rec.relay = IF mod.on THEN "on" ELSE "off")

================================================================================
