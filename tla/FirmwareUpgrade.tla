---------------------------- MODULE FirmwareUpgrade ----------------------------
(***************************************************************************)
(* Firmware upgrades over the air: the push wizard                         *)
(* (wizard/iot_firmware_push_wizard.py), the upgrade logs and the reports  *)
(* that settle them (models/iot_device.py), and the module's doUpgrade().  *)
(*                                                                         *)
(* A push is one transaction: it publishes a command to one device after   *)
(* the other, marks each and adds a log, and runs again from its beginning *)
(* when a report has written one of its rows in the meantime.              *)
(***************************************************************************)
EXTENDS Naturals, Sequences

CONSTANTS Devices,
          Versions,
          None,
          Tries,     \* runs of a push that meets serialization failures
          MaxPushes, \* bound: pushes of the users
          MaxEvents, \* bound: state changes a module reports by itself
          MaxFaults, \* bound: lost, refused and redelivered messages, power cuts
          MaxWire    \* bound: messages on each hop

ASSUME ConstantsAssumption ==
    /\ None \notin Versions
    /\ Tries \in Nat \ {0}
    /\ MaxPushes \in Nat /\ MaxEvents \in Nat /\ MaxFaults \in Nat
    /\ MaxWire \in Nat \ {0}

VARIABLES
    rec,       \* firmware_version, firmware_target_version, firmware_upgrade_state
    logs,      \* iot.firmware.upgrade.log of each device, oldest first
    txn,       \* the push under way
    down,      \* upgrade commands on their way
    mod,       \* the module: FIRMWARE_VERSION, otaState, otaUrlPending, in doUpgrade()?
    up,        \* reports on their way
    retained,  \* the status the broker keeps
    ran,       \* history: versions the module has run
    pushes, events, faults

vars == <<rec, logs, txn, down, mod, up, retained, ran, pushes, events, faults>>

Verdicts  == {"pending", "success", "mismatch", "failed"}
Records   == [fw : Versions \cup {None}, target : Versions \cup {None}, state : Verdicts \cup {"none"}]
Logs      == [target : Versions, state : Verdicts]
Modules   == [fw : Versions, ota : {"idle", "queued", "starting", "failed"},
              url : Versions \cup {None}, busy : BOOLEAN]
Reports   == [fw : Versions, ota : {"none", "idle", "queued", "starting", "failed"}]
Txns      == [pc : {"closed", "open"}, todo : SUBSET Devices, pushed : SUBSET Devices,
              stale : SUBSET Devices, target : Versions \cup {None}, run : 1 .. Tries]

TypeOK ==
    /\ rec \in [Devices -> Records]
    /\ logs \in [Devices -> Seq(Logs)]
    /\ txn \in Txns
    /\ down \in [Devices -> Seq(Versions)]
    /\ mod \in [Devices -> Modules]
    /\ up \in [Devices -> Seq(Reports)]
    /\ retained \in [Devices -> Reports \cup {None}]
    /\ ran \in [Devices -> SUBSET Versions]
    /\ pushes \in 0 .. MaxPushes
    /\ events \in 0 .. MaxEvents
    /\ faults \in 0 .. MaxFaults

Closed == [pc |-> "closed", todo |-> {}, pushed |-> {}, stale |-> {}, target |-> None, run |-> 1]

\* A device may have been registered by hand, before its first report.
Init ==
    /\ mod \in [Devices -> [fw : Versions, ota : {"idle"}, url : {None}, busy : {FALSE}]]
    /\ rec \in [Devices -> [fw : Versions \cup {None}, target : {None}, state : {"none"}]]
    /\ \A d \in Devices : rec[d].fw \in {mod[d].fw, None}
    /\ logs = [d \in Devices |-> <<>>]
    /\ txn = Closed
    /\ down = [d \in Devices |-> <<>>]
    /\ up = [d \in Devices |-> <<>>]
    /\ retained = [d \in Devices |-> None]
    /\ ran = [d \in Devices |-> {mod[d].fw}]
    /\ pushes = 0 /\ events = 0 /\ faults = 0

Fault == faults < MaxFaults /\ faults' = faults + 1

--------------------------------------------------------------------------------
(* The push: action_push() *)

Push(ds, v) ==
    /\ txn.pc = "closed"
    /\ pushes < MaxPushes
    /\ pushes' = pushes + 1
    /\ txn' = [Closed EXCEPT !.pc = "open", !.todo = ds, !.target = v]
    /\ UNCHANGED <<rec, logs, down, mod, up, retained, ran, events, faults>>

\* _publish_command("upgrade"): once published, the row is locked, unless it was
\* written by another transaction; a refused device is skipped.
Publish(d) ==
    /\ d \in txn.todo
    /\ \/ /\ Len(down[d]) < MaxWire
          /\ down' = [down EXCEPT ![d] = Append(@, txn.target)]
          /\ txn' = [txn EXCEPT !.todo = @ \ {d}, !.pushed = @ \cup {d}]
          /\ UNCHANGED faults
       \/ /\ Fault
          /\ txn' \in {[txn EXCEPT !.todo = @ \ {d}, !.pushed = @ \cup {d}],
                       [txn EXCEPT !.todo = @ \ {d}]}
          /\ UNCHANGED down
    /\ UNCHANGED <<rec, logs, mod, up, retained, ran, pushes, events>>

Conflict == txn.pushed \cap txn.stale # {}

\* iot.firmware.upgrade.log.create()
Logged(ls, v) == Append(ls, [target |-> v, state |-> "pending"])

\* The rows are flushed and committed when the request ends.
Commit ==
    /\ txn.pc = "open" /\ txn.todo = {} /\ ~Conflict
    /\ rec' = [d \in Devices |-> IF d \in txn.pushed
                                 THEN [rec[d] EXCEPT !.target = txn.target, !.state = "pending"]
                                 ELSE rec[d]]
    /\ logs' = [d \in Devices |-> IF d \in txn.pushed THEN Logged(logs[d], txn.target) ELSE logs[d]]
    /\ txn' = Closed
    /\ UNCHANGED <<down, mod, up, retained, ran, pushes, events, faults>>

\* retrying() of the Odoo server gives up in the end.
MayRunAgain == txn.run < Tries

\* The whole push runs again, publications included, or is given up.
CommitFails ==
    /\ txn.pc = "open" /\ txn.todo = {} /\ Conflict
    /\ txn' = IF MayRunAgain
              THEN [Closed EXCEPT !.pc = "open", !.todo = txn.pushed,
                                  !.target = txn.target, !.run = txn.run + 1]
              ELSE Closed
    /\ UNCHANGED <<rec, logs, down, mod, up, retained, ran, pushes, events, faults>>

--------------------------------------------------------------------------------
(* The reports: _process_one() *)

IsPending(ls, i) == i \in DOMAIN ls /\ ls[i].state = "pending"

\* search(state = 'pending', order = 'requested_at desc', limit = 1), or 0
PendingLog(ls) ==
    IF \E i \in DOMAIN ls : IsPending(ls, i)
    THEN CHOOSE i \in DOMAIN ls : IsPending(ls, i) /\ \A j \in DOMAIN ls : IsPending(ls, j) => j <= i
    ELSE 0

Row(r, ls) == [rec |-> r, logs |-> ls]

\* A version that differs from the one reported before; "ok" never arrives.
Confirmed(r, report) == r.fw # None /\ r.fw # report.fw

\* Mutant: an upgrade is a success once the version has changed.
VerdictChanged(target, report) == "success"

Verdict(target, report) == IF target = report.fw THEN "success" ELSE "mismatch"

\* Mutant: a version once known is not replaced.
FirstKnown(r, report) == [r EXCEPT !.fw = IF @ = None THEN report.fw ELSE @]

Known(r, report) == [r EXCEPT !.fw = report.fw]

\* apply_firmware_report()
Reported(r, ls, report) ==
    LET i     == PendingLog(ls)
        known == Known(r, report) IN
    IF ~Confirmed(r, report) THEN Row(known, ls)
    ELSE IF i # 0
    THEN Row([known EXCEPT !.state = Verdict(ls[i].target, report)],
             [ls EXCEPT ![i].state = Verdict(ls[i].target, report)])
    ELSE IF r.target # None /\ r.state = "pending"
    THEN Row([known EXCEPT !.state = Verdict(r.target, report)], ls)
    ELSE Row(known, ls)

\* Mutant: the form is left as it was.
FedBackLog(r, ls, report) ==
    LET i == PendingLog(ls) IN
    IF report.ota # "failed" \/ i = 0 THEN Row(r, ls) ELSE Row(r, [ls EXCEPT ![i].state = "failed"])

\* apply_firmware_upgrade_feedback()
FedBack(r, ls, report) ==
    LET i == PendingLog(ls) IN
    IF report.ota # "failed" THEN Row(r, ls)
    ELSE Row([r EXCEPT !.state = "failed"], IF i = 0 THEN ls ELSE [ls EXCEPT ![i].state = "failed"])

\* Every report writes the row.
Overtaken(d) == IF d \in txn.todo THEN [txn EXCEPT !.stale = @ \cup {d}] ELSE txn

\* One transaction; it waits while the push holds the row's lock.
ProcessReport(d) ==
    /\ up[d] # <<>>
    /\ d \notin txn.pushed \ txn.stale
    /\ LET first  == Reported(rec[d], logs[d], Head(up[d]))
           second == FedBack(first.rec, first.logs, Head(up[d])) IN
          /\ rec' = [rec EXCEPT ![d] = second.rec]
          /\ logs' = [logs EXCEPT ![d] = second.logs]
    /\ up' = [up EXCEPT ![d] = Tail(@)]
    /\ txn' = Overtaken(d)
    /\ UNCHANGED <<down, mod, retained, ran, pushes, events, faults>>

LoseReport(d) ==
    /\ up[d] # <<>>
    /\ Fault
    /\ up' = [up EXCEPT ![d] = Tail(@)]
    /\ UNCHANGED <<rec, logs, txn, down, mod, retained, ran, pushes, events>>

\* A subscriber that reconnects receives the retained status again.
Redeliver(d) ==
    /\ retained[d] # None /\ Len(up[d]) < MaxWire
    /\ Fault
    /\ up' = [up EXCEPT ![d] = Append(@, retained[d])]
    /\ UNCHANGED <<rec, logs, txn, down, mod, retained, ran, pushes, events>>

--------------------------------------------------------------------------------
(* The module *)

Status(m) == [fw |-> m.fw, ota |-> m.ota]

Sent(d, report) == up' = [up EXCEPT ![d] = IF Len(@) < MaxWire THEN Append(@, report) ELSE @]

\* publishStatus() of the module's new state
PublishStatus(d) ==
    /\ Sent(d, Status(mod'[d]))
    /\ retained' = [retained EXCEPT ![d] = Status(mod'[d])]

\* handleCommand(): "upgrade" is queued for loop().
HandleCommand(d) ==
    /\ down[d] # <<>> /\ ~mod[d].busy
    /\ mod' = [mod EXCEPT ![d].ota = "queued", ![d].url = Head(down[d])]
    /\ PublishStatus(d)
    /\ down' = [down EXCEPT ![d] = Tail(@)]
    /\ UNCHANGED <<rec, logs, txn, ran, pushes, events, faults>>

\* The module is disconnected while it upgrades, and its session is not kept.
MissCommand(d) ==
    /\ down[d] # <<>> /\ mod[d].busy
    /\ down' = [down EXCEPT ![d] = Tail(@)]
    /\ UNCHANGED <<rec, logs, txn, mod, up, retained, ran, pushes, events, faults>>

\* doUpgrade(), up to its disconnection
StartUpgrade(d) ==
    /\ mod[d].url # None /\ ~mod[d].busy
    /\ mod' = [mod EXCEPT ![d].ota = "starting", ![d].busy = TRUE]
    /\ PublishStatus(d)
    /\ UNCHANGED <<rec, logs, txn, down, ran, pushes, events, faults>>

Booted(v) == [fw |-> v, ota |-> "idle", url |-> None, busy |-> FALSE]

\* The status "ok" is published without a connection; after the restart the new
\* firmware publishes "idle".  An image may be labelled with another's version.
UpgradeSucceeds(d) ==
    /\ mod[d].busy
    /\ \E v \in Versions :
          /\ \/ v = mod[d].url /\ UNCHANGED faults
             \/ Fault
          /\ mod' = [mod EXCEPT ![d] = Booted(v)]
          /\ ran' = [ran EXCEPT ![d] = @ \cup {v}]
    /\ PublishStatus(d)
    /\ UNCHANGED <<rec, logs, txn, down, pushes, events>>

\* otaState stays "failed" until the next upgrade or restart.
UpgradeFails(d) ==
    /\ mod[d].busy
    /\ Fault
    /\ mod' = [mod EXCEPT ![d].ota = "failed", ![d].url = None, ![d].busy = FALSE]
    /\ PublishStatus(d)
    /\ UNCHANGED <<rec, logs, txn, down, ran, pushes, events>>

PowerCycle(d) ==
    /\ Fault
    /\ mod' = [mod EXCEPT ![d] = Booted(@.fw)]
    /\ PublishStatus(d)
    /\ UNCHANGED <<rec, logs, txn, down, ran, pushes, events>>

\* A button, a schedule, a command of another kind, a reconnection.
Event(d) ==
    /\ ~mod[d].busy
    /\ events < MaxEvents
    /\ events' = events + 1
    /\ UNCHANGED mod
    /\ PublishStatus(d)
    /\ UNCHANGED <<rec, logs, txn, down, ran, pushes, faults>>

\* publishTelemetry() carries no ota_state.
Telemetry(d) ==
    /\ ~mod[d].busy /\ up[d] = <<>>
    /\ Sent(d, [fw |-> mod[d].fw, ota |-> "none"])
    /\ UNCHANGED <<rec, logs, txn, down, mod, retained, ran, pushes, events, faults>>

--------------------------------------------------------------------------------
Next ==
    \/ \E ds \in (SUBSET Devices) \ {{}}, v \in Versions : Push(ds, v)
    \/ Commit \/ CommitFails
    \/ \E d \in Devices :
          \/ Publish(d) \/ ProcessReport(d) \/ LoseReport(d) \/ Redeliver(d)
          \/ HandleCommand(d) \/ MissCommand(d)
          \/ StartUpgrade(d) \/ UpgradeSucceeds(d) \/ UpgradeFails(d)
          \/ PowerCycle(d) \/ Event(d) \/ Telemetry(d)

Spec == Init /\ [][Next]_vars

\* A push goes on, messages travel, an upgrade ends, telemetry comes every 30 s.
Fairness ==
    /\ WF_vars(Commit) /\ WF_vars(CommitFails)
    /\ \A d \in Devices :
          /\ WF_vars(Publish(d)) /\ WF_vars(ProcessReport(d))
          /\ WF_vars(HandleCommand(d)) /\ WF_vars(MissCommand(d))
          /\ WF_vars(StartUpgrade(d)) /\ WF_vars(UpgradeSucceeds(d))
          /\ WF_vars(Telemetry(d))

FairSpec == Spec /\ Fairness

--------------------------------------------------------------------------------
(* Properties *)

Latest(d) == logs[d][Len(logs[d])]

\* The form says "pending" only while the latest log is: the two are written by
\* pushes and reports in different transactions, and disagree for good if one
\* of them is lost.
PendingIsLogged ==
    \A d \in Devices :
        rec[d].state = "pending" => logs[d] # <<>> /\ Latest(d).state = "pending"

\* "success" is never shown for a version the module has not run, whatever was
\* lost, mislabelled or redelivered.
SuccessWasRun ==
    \A d \in Devices : \A i \in DOMAIN logs[d] :
        logs[d][i].state = "success" => logs[d][i].target \in ran[d]

\* The version on the form is the module's in the end.
RecordEndsRight == \A d \in Devices : <>[](rec[d].fw = mod[d].fw)

================================================================================
