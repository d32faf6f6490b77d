# TLA+ models of the Odoo IoT control center

The control center is an Odoo 19 add-on (`models/`, `wizard/`, `services/`, `controllers/`), a
middleware in Rust (`middleware/iot_bridge`) and the firmware of an ESP8266 relay module
(`firmware/esp8266_relay`). Odoo and the modules talk through an MQTT broker; the middleware
forwards MQTT messages to Odoo over HTTP, publishes Odoo's commands, and looks after OpenWrt
access points over SSH.

This directory holds models of the parts that carry the system's own logic, TLC instances of
them, and proofs of the properties that matter most. Line numbers are those of the source files
next to it.

## 1. Inventory

| Part | State | Operations | What is hard | What makes it correct |
|---|---|---|---|---|
| Relay firmware (`esp8266_relay.ino`) | relay, delay flag and end time, schedule table, state file, MQTT session, time sync, last executed minute | `setup()`, the portal, one stage of `loop()` after the other, `handleCommand()` | stages that fail or block, saves that fail, half-open connections, power cuts, expiry noticed by the wrong caller | relay, flag, file and broker agree; delays come first and end; schedules run off line |
| Schedule synchronisation (`iot_schedule.py`, `iot_device_group.py`, `iot_device.py`) | schedules, `schedule_dirty`, `schedule_version`, applied version, retained command | edit, push, cron retry, bind, unbind, acknowledge | publishing inside a transaction that may fail; two workers; many switches in one transaction; groups archived; lost, refused, late messages | what is saved reaches the module; "in sync" is the truth |
| MQTT ingest (`iot_mqtt_message.py`, `internal_ingest.py`, `main.rs`) | message rows, their state and time | store, recognise duplicates, reuse telemetry slots, process batches, purge | posts that time out and commit late, processing that raises, order of kinds in a batch | the record ends with what the module reported |
| ON-time accounting (`iot_device.py`) | `relay_state`, `on_since`, `total_on_minutes` | reports, cron accumulation, reset | concurrent transactions on one row, division by minutes | no time counted twice, the loss bounded |
| Relay commands and delay mode (`iot_device.py`) | `delay_active`, `delay_end_at`, `relay_state` | on, off, delay toggle, reports, expiry | optimistic writes, lost and repeated commands | the record's lock ends with the module's delay |
| Firmware upgrade (`iot_firmware_push_wizard.py`, `iot_firmware_upgrade_log.py`) | form state, logs, `otaState` | push, download, report | attribution of reports, restarts, redelivered messages | form and logs agree, success means the version ran |
| Device registry (`iot_device.py`, `iot_mqtt_message.py`, bind wizard) | rows of one module, their company | create from a report, register, bind, unbind, dedupe, purge | snapshots older than locks, cron jobs against users | bound rows survive, no row changes hands |
| OpenWrt access points (`iot_openwrt_ap.py`, `main.rs`) | `status`, `last_seen`, `heartbeat_fail_count` | heartbeat round, post, refresh, command | retried and late posts, SSH that hangs, a transaction around an SSH call | the status is right in the end |
| Locate script (`main.rs:1776`) | LEDs, saved state, timers on the access point | start, stop, timed restore | timers of earlier starts | LEDs are restored |
| Thermometers (`tcp_service.py`, `th_sensor.py`, `th_reading.py`) | sensors, alerts, raw and averaged readings | store a packet, open and close alerts, edit limits, roll old readings up | two sessions on one sensor, retried and late packets, readings that arrive while their hour is averaged | open alerts are those of the last value; no hour is lost |
| Attendance (`iot_attendance_*.py`) | punches, attendances, mappings | ADMS, webhook, pull, match, reprocess | repeated batches, two workers without a unique index, employees found without a mapping, exceptions inside a batch, terminals without a row, device log cleared before the commit | no punch stored twice or lost behind an OK; an end of an attendance belongs to one punch |
| MQTT connection of Odoo (`mqtt_service.py`) | singleton lock, client, flags | start, publish, stop, callbacks | callbacks on another thread | one subscriber, which reconnects |
| Control board, settings, locations, templates, firmware files, views, translations, access rights | display or stored values | none of their own | - | - |

How they meet: the device row of Odoo is written by schedule pushes, commands, reports, cron jobs
and upgrades, each in a transaction under PostgreSQL's REPEATABLE READ. A transaction reads the
snapshot of its begin, and its write fails if another transaction has committed a write of the row
since. Odoo runs a failed HTTP request again from its beginning; `_run_with_serialization_retry()`
tries again within the same snapshot; `_ingest_measurements()` tries again in a new one. Publishing is not
part of any transaction. Commands are MQTT QoS 1, and the schedule is retained; reports are QoS 0, and a status is retained.

The hazards are in `PROJECT.json` at their lines, with the properties that cover them.

## 2. Modules

| Module | Models | Builds on |
|---|---|---|
| `RelayPriority` | abstract: while a delay runs, only its end or the user switches the relay off | |
| `RelayFirmware` | the firmware, one action per stage of `loop()`; clock, network, button, power between any two | implements `RelayPriority` |
| `ScheduleStore` | abstract: what a stored schedule, its dirty mark and what was sent have to do with each other | |
| `ScheduleSync` | transactions of Odoo's workers, command pipe, broker, module, acknowledgement | implements `ScheduleStore` |
| `ScheduleSyncProofs` | proofs about it | |
| `MqttIngest` | reports, their forwarding, the message table, the cron job | |
| `UptimeMeter` | the three columns of ON time under concurrent sessions | |
| `RelayProofs` | proofs about the relay module and what Odoo makes of its reports | `RelayFirmware`, `UptimeMeter`, `MqttIngest` |
| `DelayTwin`, `DelayTwinProofs` | a user's request, the record, the module's delay, messages both ways | |
| `FirmwareUpgrade`, `FirmwareUpgradeProofs` | push transaction, messages, `doUpgrade()`, form and logs, with proofs | |
| `DeviceRegistry`, `DeviceRegistryProofs` | rows of one serial under concurrent sessions and cron jobs, with proofs | |
| `OpenwrtHealth`, `OpenwrtHealthProofs` | heartbeat loop, posts, refreshes, commands on the status of access points, with proofs | |
| `ThSensor`, `ThSensorProofs` | one sensor: packets of two sessions, alerts, limits of its group, the rollup of its readings, with proofs | |
| `AttendanceRecord` | abstract: attendances lie between stored punches, and one that has ended stays as it is | |
| `Attendance` | one employee's punches on terminals of three protocols, Odoo's requests, attendances | implements `AttendanceRecord` |
| `AttendanceProofs` | proofs about it | |
| `MC...` | the instances TLC checks: values of the constants only | the module of that name |

Each module names, above a definition, the function it models. Definitions marked `Mutant:` are not
part of the model: each is the form a definition would have with a plausible bug, and the property
that catches it is in `PROJECT.json`.

**RelayFirmware.** `pc` is the stage of `loop()`: button, wifi and MQTT, one command, upgrade, expiry
of a delay, schedule, telemetry. A stage that asks `isDelayActive()` ends an expired delay
(`CheckDelay`), as the code does. `delayLeft` counts to `delayEndAtMs` in Ticks, a Tick being a
minute, the granularity of the schedule; `minuteDone` is whether `lastExecMinuteKey` is the current
minute. A schedule with its version is one value and `Due` its effect on each minute of the week.
`flash` is the state file: every `Save` may fail, for no caller looks at the result of `saveState()`
(`stored` is whether the last one succeeded); `TornSave` cuts power inside it, `PowerCycle` anywhere
else. `session` is the broker's session, `mqtt` what `mqttClient.connected()` says: the session may be
dead (`LinkDown`) long before the module notices (`NoticeDown`), and what it publishes meanwhile is
lost. `reported` is the last status the broker retains. Abstracted: GPIO, the LED, the portal's page.

**ScheduleSync.** A transaction `txn[w]` has its snapshot (`src`, `ver`), whether it has been
overtaken (`stale`), the lock it holds and its attempts. `BeginRequest` and `BeginCron` open it,
`Push` is a publication of `_sync_schedule_payload()` with its row write to come, `LockRow` the
write, `Serialization` the failed write, `Commit` and `Crash` its end. The cron job pushes up to 200
switches in one transaction, and the group's button those of a group: `BatchConflict` is that another
switch's row was overtaken, at any time until the commit, and undoes this one's write as well. The
entries are the switch's own and those of its group, which count unless the group is archived
(`ArchiveGroup`, which writes no switch's row). `last` says whose publication reached the broker's pipe
last, and whether it went astray: lost, or rolled back. `pipe` holds publications on
their way to the broker, `retained` the broker's message, `downlink` and `uplink` the module's
sides. Edits (`EditSchedules`) are atomic, for an edit writes the row only to mark it dirty; its
interleavings with pushes are those of its commit. `MaxQueue` also bounds how far a cron push may
run ahead of the broker.

**MqttIngest.** `rows` is the table in the order of ids; `recent` stands for the two windows of 15 and
60 s; `stalled` is a post that timed out in the middleware and may commit later, with the snapshot it
began with. `direct` is the setting by which Odoo itself subscribes. Telemetry carries the uptime, so
its texts differ and only a repeated post could match exactly. Processing may raise, before or after it
has written the relay state: in direct mode the message then stays new (`ProcessingFails`), in the cron
job it becomes an error.

**UptimeMeter.** A transaction begins, writes (taking the time between its snapshot and its write) and
commits or aborts. `onTime`, `cuts` and `mark` are history: the true ON time up to the last write.

**DelayTwin.** A request decides on `txn.row`, the record at its begin, publishes, and writes what it
expects; `WriteFails` is the serialization failure, after which Odoo runs a delay request again while
on and off give their write up (`_apply_state_report_safe`). One request is under way at a time;
reports and the cron job interleave with it.

**FirmwareUpgrade.** A push publishes to one device after the other and commits once. `Reported` and
`FedBack` are `apply_firmware_report()` and `apply_firmware_upgrade_feedback()`, applied by every
report in this order. The module's "ok" never arrives: it is published after the client has
disconnected, just before the restart.

**DeviceRegistry.** A transaction has its snapshot of all rows and the rows overtaken since; its outcome
is written if none of the rows it changes is among them. `keyLock` is the advisory lock of
`_find_or_create_device_by_key()`. Odoo 19 takes no notice of `_sql_constraints`, so the database does
not keep serials unique. `Candidate` is `find_bind_candidate()`, for which a row never seen comes first
(PostgreSQL sorts NULL so), and `SeenLast` those between which the removal of duplicates decides by
`write_date`. A purge spares rows whose upgrade is pending: which ones is left open.

**OpenwrtHealth.** The heartbeat loop and each probe of a refresh are tasks that post a result twice at
most. `Hang` is an SSH command without an answer: the loop waits for it, and no other access point is
checked until TCP or the access point ends it (`HangEnds`).
`late` holds posts the middleware gave up and Odoo still executes. A command is a transaction
around an SSH call; an error rolls the whole request back, job and error status included, except for
the probe after an upgrade, whose exception is caught. Failures are counted up to the threshold.

**ThSensor.** A packet `txn[s]` is read, opens a transaction with the alerts it sees and the limits of
the group, and commits or is overtaken: every packet updates the sensor's row, so that of two at once
the second fails and is tried again in a new transaction, up to `MaxTries` times. `Repost` is the
middleware's second post. `raw` and `rolled` are the hours that have readings and an average; the
rollup selects a batch, averages and deletes it in one transaction, in which `late` readings are not
seen. `ZeroHours` are hours that average to (0, 0), which `create()` drops. Temperature stands for both
quantities, which are treated alike.

**Attendance.** `log` and `acked` are a terminal's memory, `rows` and `atts` the tables of punches and of
the employee's attendances. A transaction `txn[s]` handles one punch after the other on its snapshot
(`base`, `mapped`). `missed` is which of the rows it will update have been updated since: the
device's, which each completed request writes, and the mapping's `last_seen_at`. An employee may also
be found by `biometric_code` or `barcode` (`Coded`), in which case there is no mapping row to update.
`Unmatched` are ADMS terminals that no device row matches (`SendUnmatched`). `Refused` is
`hr.attendance`'s validity check, modelled from Odoo's. What raises inside an ADMS batch is caught by
the controller (`Keeps`), so that the refused write stays; elsewhere it rolls the request back. A
retry of the Odoo server is the same as the terminal's sending again. Punches follow one another in
time, whichever terminal records them; what is late is their arrival.

## 3. Runs

| Run | Instance | Shows |
|---|---|---|
| `firmware` | two minutes in the week, an empty and a daily schedule, delays of 0 and 2 Ticks, two power cuts, saves that fail | five safety properties, refinement of `RelayPriority`, two liveness properties |
| `firmware_delay_stuck` | the same with one power cut | the code does not do what the manual says of a delay's end |
| `schedule` | one worker, three edits or requests, one of: refused, lost, late answer, offline, torn file, crash | row, `ScheduleStore`; what is saved arrives, the form ends in sync and tells the truth |
| `schedule_race` | two workers, four requests, no faults | what is saved may be overwritten by an older push |
| `ingest` | both ways in, two status reports, one fault, three rows, batches of two | statuses are processed; telemetry settles the record |
| `uptime` | two sessions, minutes of two instants, five instants, two switchings off between resets | accounting and `on_since` |
| `delay` | delay of two Ticks, two clicks, one press, one fault, two messages on each hop | the lock is consistent and ends |
| `openwrt` | two access points, threshold 2, one change of reachability, one fault (a post, or SSH that hangs), one refresh or command | counts, `last_seen`, status in the end |
| `upgrade` | one device, three versions, two pushes, one event, one fault, one message on each hop | form, logs and verdicts |
| `registry` | two sessions, two companies, three rows, two instants, one registered by hand | purge and binding |
| `attendance` | a gate by ADMS whose mapping comes, a door by webhook, an old terminal pulled and cleared whose employee is found by code, a stray ADMS terminal without a row; two workers, three punches, one fault | punches stored once and kept behind an OK, ends of attendances, refinement of `AttendanceRecord`, storage in the end |
| `thsensor` | two sessions, three temperatures, two ranges of limits, three hours, two attempts | alerts follow the last packet and settle; rollup loses no hour and no late reading |

*Why these bounds are enough for what they show.* Each is the least that lets the interesting case
happen: two workers, since a conflict is between two transactions; a week of two minutes, so that a
schedule both switches on and off; three punches, so that one arrives after the next two, or a pair
and a third that is refused; two Ticks of delay, so that one is running, about to end and
ended; a threshold of two, so that one failure is not enough and counts are forgotten in between;
rows or messages for two of the same kind and one of another; batches of two, which have room for a
status behind the one telemetry slot; one fault of any kind, which combines with edits and requests. The
bounds count events, not lengths of behaviours: liveness is checked on infinite behaviours. In `attendance`
only the gate's mapping may be entered later (`Mappable`), as that of the others is a state the run begins
with or does without. Deadlock is checked but for the runs of `ScheduleSync`, `MqttIngest`, `Attendance`
and `ThSensor`, where the edits, faults, rows, punches or hours are used up and the system really stops.

`schedule` has one worker, for with two `schedule_race` shows that delivery fails; faults of every kind
combine with three edits instead. What several workers do to the row and to the truth of "in sync" is
proved for any number of them. The properties of delivery are stated
for behaviours whose last publication did not go astray: one the broker never took, or one whose
transaction is rolled back or whose worker dies before it writes the row, is retried by nobody while
the row is clean. They take the switch's own schedules for granted and leave open whether those of an
archived group count (`Fitting`): the code does not send a group's archiving.

*Fairness.* The firmware's `loop()` is called for ever by the core, the clock goes on, and SNTP is
answered if the network keeps coming back (strong fairness, for it comes and goes). Telemetry is
sent every 30 s, cron jobs run every one or five minutes, requests and tasks end, HTTP posts have
timeouts. `ScheduleSync` has weak fairness only. That a worker's transactions are not overtaken for ever is
not guaranteed by the code, for one that pushes 200 switches may take longer than the 30 s between two
reports; it is the premise `NotAlwaysOvertaken` of the two liveness properties, which are empty where it
fails. `DelayTwin` does not even need the cron job. That no SSH command hangs for good is not guaranteed
either, for the middleware sets no timeout: it is the premise `ChecksEnd` of `AbsentEndsOffline` and
`PresentEndsOnline`. The other fairness of `OpenwrtHealth` is that of the loop, which waits for nothing
else. `ThSensor` assumes that sensors report again and again and that the packets of one sensor do
not overtake each other for ever (strong fairness of a commit: packets are a minute apart, the rollup
runs daily). `Attendance` assumes that a terminal sends again what is not acknowledged and finds a free
worker (strong fairness); nobody has to reprocess. Nothing is assumed of users, power or faults, all of
them bounded in the fair runs.

## 4. What was found

Two runs find the code at odds with the repository's own words (`findings` in `PROJECT.json`):

- `firmware_delay_stuck`: `isDelayActive()` ends an expired delay for any caller. If a command, the
  telemetry or the schedule asks just then, `loop()` sees no expiry and the relay stays on.
- `schedule_race`: a push publishes before it takes the row's lock, from a snapshot that may be old;
  when the lock fails, the older schedule stays retained at the broker and the row is clean.

Others are listed as hazards with a note, for the models have the behaviour and the properties state
what remains true: a delay request run again publishes its toggle twice; a lost publication is
reported as done; a retried post counts one failure twice; an upgrade to the running version is
never confirmed; removal of duplicates may delete the bound row; two first reports create two rows of
one module, for the advisory lock is taken on a snapshot that is already old; an ADMS terminal that no
row matches is answered OK though its punches are stored nowhere; archiving a device group, or restoring
it, changes the schedules of its switches, marks none of them dirty and sends nothing, since `write()` of
a group does so only for its members; for an employee found by code, two requests with the same ADMS
batch may share no row they update, and both store a punch, as Odoo 19 does not create the unique index of
`_sql_constraints`; a terminal that is cleared before the commit loses its punches; a webhook batch with
a refused punch is repeated for ever; late readings replace an hour's average.

## 5. Proofs

All theorems hold for every value of the constants that meets the named `ConstantsAssumption` of
the module: any schedules, numbers of workers, faults, restarts, lengths of a minute.

**RelayProofs** of the firmware. `FirmwareTypeCorrect` first. `DelayHoldsRelay`, `FlashRestoresState` and
`BrokerKnowsRelay` are proved from `IInv`, which adds `PortalIsQuiet`: without it the restart into
the portal would not keep them, for the portal leaves without touching relay or session; and the broker
has no session the module does not know of. The state file is right as long as the last save succeeded:
that is all the code promises, which never tries a save again. One lemma
per group of actions shows `IInv` kept. `ScheduleAlwaysYields` rests on
`UserHeld`: entries that have run in this minute are marked as run, and once a user has chosen since, the
schedule did not set the relay; `OnlyScheduleChooses` says who acts in the schedule's name. `FirmwareImplementsPriority` maps `on` to the relay and
`held` to a running delay; each stage is a step of `RelayPriority` or a stutter.

**ScheduleSyncProofs.** `CleanRowHidesNothing` and `SyncImplementsStore` rest on one inductive invariant:
the lock is exclusive and a transaction not overtaken has the present snapshot, and a push under way
carries what its snapshot says. That invariant is why `DirtyCovers` is kept by `Commit`: the row
becomes clean only with entries that are still the present ones, up to an archived group.
`InSyncMeansDelivered` needs a second one: where the last publication is (`Latest`), that the module
follows it (`ModuleFollows`), and that the row or an open transaction tells of it unless it went astray
(`Recorded`). It holds for any number of workers and any overlap of their pushes, since `last` says whose
publication was the last one: `schedule_race` is what happens when that one is rolled back. What is
proved is that the module's entries cover the stored ones, and not that they are those of the last
successful push, which is false: on a released switch, whose last push was the empty one, a push that
publishes the own schedules and rolls back leaves them on the module while the record still says clear.

**RelayProofs** of the meter. `OnSinceKept` and `NoTimeCountedTwice`. The invariant relates `on_since` and
`mark`: both differ by the rest of a minute only, and a transaction not overtaken has the present
row. The arithmetic of `\div` is in lemmas of its own.

**RelayProofs** of the reports. `IngestTypeCorrect`: that the cron job's batch has a first and a last
message is what the type of the record rests on; with no bound on the table, the two come from the
well-ordering of the naturals (`Extremes`).

**DelayTwinProofs.** `DelayTwinTypeCorrect` and `DelayAlwaysShownOn`. The record is written from the
snapshot of a request and from reports sent long before, so `DelayShownOn` is not inductive: `IInv`
says the same of the snapshot, of the module and of every report on its way. The lemmas say what
each operator returns; the step of each action combines them.

**ThSensorProofs.** `AlertsAlwaysFollow`, `HoursAreKept`, `LateIsAlwaysAveraged`. A packet that has not been
overtaken has seen the present alerts, and the alerts are those of the last commit: so the alerts it
computes are right when it commits. Limits are any values with `low <= high`.

**OpenwrtHealthProofs.** `OfflineAlwaysCounted`, `LastSeenNeverGoesBack`. What a command is about to
write is a record whose status and count agree (`CountedRecords`), of an access point there is
(`Addressed`); a command not overtaken writes a row seen no longer ago than the one it replaces
(`SnapshotNotOlder`), and one that was overtaken does not commit.

**DeviceRegistryProofs.** `PurgesKeepBound`, `NeverTakenOver`. A row no one has written since a transaction
began is what the transaction sees (`FreshSnapshots`), and one that would write any other fails; new
rows get new numbers (`Numbered`). What each operation makes of a snapshot is a lemma (`OutcomesSound`).

**FirmwareUpgradeProofs.** `PendingAlwaysLogged`, `SuccessAlwaysRan`. Every version in a
report, on its way or retained, is one the module has run (`VersionsRan`); a report that leaves the
form pending leaves the logs alone. The lemmas say what `Reported` and `FedBack` make of a row, and no
fact about which log is the newest is needed.

**AttendanceProofs.** `AttendanceTypeCorrect`, `AttendanceStoredOnce`, `AttendanceAckedIsStored`,
`AttendanceProcessedIsRecorded` and `AttendanceImplementsRecord`, in layers, each inductive given the ones before. `Base` has the types,
that punches stand apart in time, and that the session a terminal waits for handles what comes next in
its memory. `Scope` says what a transaction handles: its terminal's punches, and its whole batch unless
something raised. `Steps` sorts all steps into the beginning, a punch and the commit of a transaction,
and lapses, which store nothing.

`StoredOnce` has no index behind it. It holds because, of two requests with a punch in common,
the one that commits second updates a row that the first has updated, the mapping's or the device's
(`Doomed`).
The hard case is an ADMS request that leaves the device row alone, since its payload is that of the last
one, next to one that does not see the new mapping. `PayloadKnown` and `Quiet` settle it: either that
payload is stored already, and nothing is left to handle, or it was cut short by an exception, and then
whoever does not see the mapping has missed an update of the device row (`Warned`) and cannot commit.
It is not so for an ADMS terminal whose employee is found by code (`Unguarded`): there the mapping does
not come into it, nothing warns, and the second request may store its copy. The theorem leaves those
terminals out; `AttendanceProcessedIsRecorded` and `AttendanceImplementsRecord` assume that there are
none, for a second copy of a punch may take the end of another attendance.

`ProcessedIsRecorded` needs `Ended`: a closed attendance never changes, every attendance begins at a
stored punch, and what an open transaction has done fits its snapshot (`Works`). An attendance that is
new to a committing transaction is then new to the table, or its punch would be stored already, which
`NoSecondCopy` excludes; and one that it closes is still open, or the transaction would be stale.

`AttendanceImplementsRecord` adds `Dated`: what an open transaction has begun or closed ends later than
it began, at a punch it has handled. With `Ended` and what a commit keeps of the table, each commit is
then a step of `AttendanceRecord`, and every other step a stutter.

The type invariants of all modules are proved.

**Only model-checked**: liveness. Every safety property the passing runs check has a theorem. Liveness
under fairness, `ENABLED`, induction over data and recursive operators are out of the prover's reach.

## 6. Not modelled

The parts with status `not_modelled` in `PROJECT.json`, each with its reason: the locate script runs on
the access point, the MQTT connection follows paho's threads, and the rest displays, stores or
declares. Within modelled parts:

- firmware: the limits of its buffers, the wrap of `millis()`, a minute that a blocking stage skips
  (its schedule entry is not executed later);
- schedules: time zones (`offset_min`), several groups of one switch, archived switches, and that one
  publication of a transaction of many switches may be late for one and not for another;
- reports: manual reprocessing and reports without a serial; `StatusesAreProcessed` is about a batch with
  room for more messages than there are telemetry slots, one for each switch, as 500 are for 499 switches;
- devices: manual edits of fields; OpenWrt: job rows and the cache of live telemetry;
- thermometers: the splitting of the TCP stream, the averages of the views;
- attendance: request logs, formats of lines, raw payloads; timestamps that do not parse, which raise and
  block an ADMS batch; mappings and terminals that are deleted or archived; the catch-all route, which
  answers OK after an error as well; more than one employee (employees share no attendance, only the rows
  of terminals). Two copies of one punch are one row with a count, and have one attendance.

## 7. Plan

What would add most to what is there:

1. The TCP stream of thermometers: binary frames and JSON lines cut anywhere, as functions against a
   reference, for bytes left over poison what follows.
2. The service that holds Odoo's MQTT connection: one subscriber among workers, reconnection.
3. An abstract specification of a registered row (free, bound, pending) that `DeviceRegistry` implements.
