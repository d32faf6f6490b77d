------------------------------ MODULE ScheduleSync ------------------------------
(***************************************************************************)
(* How the schedule of one switch travels from the Odoo database to the    *)
(* relay module and how its version travels back: models/iot_device.py,    *)
(* iot_schedule.py, iot_device_group.py, services/mqtt_service.py, the     *)
(* command API of middleware/iot_bridge and the schedule handlers of the   *)
(* firmware, with the MQTT broker between them.                            *)
(*                                                                         *)
(* Transactions run under PostgreSQL's REPEATABLE READ: a transaction      *)
(* reads the snapshot of its begin, locks the device row with its first    *)
(* write, and fails with a serialization failure if another transaction    *)
(* committed a write of that row in between.  Publishing is not            *)
(* transactional: what has been handed to the broker stays handed over.    *)
(*                                                                         *)
(* The cron job pushes every dirty switch, up to 200, in one transaction,  *)
(* and the sync button those selected: the model follows one of them, and  *)
(* BatchConflict is what the others of its transaction do to it.           *)
(***************************************************************************)
EXTENDS Naturals, Sequences, FiniteSets

CONSTANTS Workers,     \* Odoo workers that can run a pushing transaction
          Kinds,       \* the pushing transactions considered
          Owns,        \* contents the device's own schedules may have
          NoOwn,       \* no active schedule of its own
          Faults,      \* the faults considered
          MaxOps,      \* bound: edits and operator requests
          MaxFaults,   \* bound: faults
          MaxQueue,    \* bound: messages on each hop
          Retries,     \* attempts of _run_with_serialization_retry()
          NoMessage    \* no retained message

AllKinds  == {"cron", "sync", "resync", "bind", "unbind", "join"}
AllFaults == {"refused", "lost", "nack", "crash", "offline", "torn"}

ASSUME ConstantsAssumption ==
    /\ Kinds \subseteq AllKinds
    /\ NoOwn \in Owns
    /\ Faults \subseteq AllFaults
    /\ MaxOps \in Nat /\ MaxFaults \in Nat /\ MaxQueue \in Nat
    /\ Retries \in Nat \ {0}
    /\ "recorded" \notin Workers /\ "astray" \notin Workers
    /\ NoMessage \notin [ver : Nat, ents : [own : Owns, grp : BOOLEAN]]

VARIABLES
    src,        \* committed: own schedules, group membership, company, and
                \* whether the group is active
    row,        \* committed device row: schedule_version, schedule_dirty and
                \* schedule_applied_version
    seen,       \* last_seen is recent enough for the retry cron
    txn,        \* the pushing transaction each worker has open
    pushed,     \* history: entries of the last push committed as successful
    last,       \* history: the worker that has published last, while its
                \* transaction is open; then whether Odoo committed it
    pipe,       \* commands on their way to the broker
    retained,   \* the retained message of the command topic
    downlink,   \* commands on their way to the module
    connected,  \* the module has an MQTT session
    dev,        \* schedule version and entries the module stores
    uplink,     \* schedule versions reported and not yet processed
    ops,        \* operator requests so far
    faults      \* faults so far

server  == <<src, row, seen, txn, pushed, last>>
network == <<pipe, retained, downlink, uplink>>
device  == <<connected, dev>>
bounds  == <<ops, faults>>
vars    == <<src, row, seen, txn, pushed, last, pipe, retained, downlink, connected,
             dev, uplink, ops, faults>>

--------------------------------------------------------------------------------
(* Data *)

Sources == [own : Owns, grp : BOOLEAN, bound : BOOLEAN, live : BOOLEAN]
Tables  == [own : Owns, grp : BOOLEAN]
Cleared == [own |-> NoOwn, grp |-> FALSE]
Rows    == [ver : Nat, dirty : BOOLEAN, applied : Nat]
Message == [ver : Nat, ents : Tables]

\* _iter_schedule_entries(): the active schedules of the device and of those of its
\* groups that are not archived.
Entries(s) == [own |-> s.own, grp |-> s.grp /\ s.live]

\* The pushes of a transaction, in order.  action_unbind() writes group_ids,
\* whose write() pushes the schedule, and then pushes a clear.
Todo(kind) == IF kind = "unbind" THEN <<"set", "clear">> ELSE <<"set">>

\* What the transaction itself writes to the source before it pushes.
Edited(kind, s) ==
    CASE kind = "bind"   -> [s EXCEPT !.bound = TRUE]
      [] kind = "unbind" -> [s EXCEPT !.bound = FALSE, !.grp = FALSE]
      [] kind = "join"   -> [s EXCEPT !.grp = ~s.grp]
      [] OTHER           -> s

\* bind, unbind, a write of group_ids and the group's sync button write the row
\* (mark_schedule_dirty()) before they publish; the cron job and the device's
\* sync button publish first.
LocksFirst(kind) == kind \in {"resync", "bind", "unbind", "join"}

Closed == [pc |-> "closed", kind |-> "cron", todo |-> <<>>,
           src |-> [own |-> NoOwn, grp |-> FALSE, bound |-> FALSE, live |-> TRUE],
           ver |-> 0, done |-> 0, dirty |-> FALSE, sent |-> Cleared,
           locked |-> FALSE, stale |-> FALSE, tries |-> 0]

\* A transaction of this kind on the present snapshot.
Opened(kind, tries) ==
    [pc |-> "push", kind |-> kind, todo |-> Todo(kind), src |-> Edited(kind, src),
     ver |-> row.ver, done |-> 0, dirty |-> row.dirty \/ LocksFirst(kind),
     sent |-> pushed, locked |-> LocksFirst(kind), stale |-> FALSE,
     tries |-> tries]

Transactions ==
    [pc : {"closed", "push", "lock", "commit"}, kind : AllKinds,
     todo : {<<>>, <<"set">>, <<"clear">>, <<"set", "clear">>}, src : Sources, ver : Nat, done : Nat,
     dirty : BOOLEAN, sent : Tables, locked : BOOLEAN, stale : BOOLEAN,
     tries : 0 .. Retries - 1]

TypeOK ==
    /\ src \in Sources
    /\ row \in Rows
    /\ seen \in BOOLEAN
    /\ txn \in [Workers -> Transactions]
    /\ pushed \in Tables
    /\ last \in Workers \cup {"recorded", "astray"}
    /\ pipe \in Seq(Message)
    /\ retained \in Message \cup {NoMessage}
    /\ downlink \in Seq(Message)
    /\ connected \in BOOLEAN
    /\ dev \in Message
    /\ uplink \in Seq(Nat)
    /\ ops \in 0 .. MaxOps
    /\ faults \in 0 .. MaxFaults

Init ==
    /\ src = [own |-> NoOwn, grp |-> FALSE, bound |-> FALSE, live |-> TRUE]
    /\ row = [ver |-> 0, dirty |-> TRUE, applied |-> 0]
    /\ seen = FALSE
    /\ txn = [w \in Workers |-> Closed]
    /\ pushed = Cleared
    /\ last = "recorded"
    /\ pipe = <<>> /\ downlink = <<>> /\ uplink = <<>>
    /\ retained = NoMessage
    /\ connected = FALSE
    /\ dev = [ver |-> 0, ents |-> Cleared]
    /\ ops = 0 /\ faults = 0

--------------------------------------------------------------------------------
(* The server's transactions *)

RowFree == \A w \in Workers : ~txn[w].locked

\* Mutant: the lost update goes unnoticed, as under READ COMMITTED.
NotOvertaken(t) == t

\* A committed write of the row fails every open transaction without the lock.
Overtaken(t) == IF t.pc # "closed" /\ ~t.locked THEN [t EXCEPT !.stale = TRUE] ELSE t

\* Mutant: the edit forgets the device it concerns.
NotDirtied(r) == r

\* mark_schedule_dirty(auto_sync=False)
Dirtied(r) == [r EXCEPT !.dirty = TRUE]

Operate == ops < MaxOps /\ ops' = ops + 1

Fault(kind) ==
    /\ kind \in Faults
    /\ faults < MaxFaults
    /\ faults' = faults + 1

\* iot.schedule create/write/unlink, iot.device.group create/unlink and a write of
\* its switches: the schedules change and every device concerned is marked
\* dirty, in one transaction that does not push.
EditSchedules ==
    /\ Operate
    /\ RowFree
    /\ src' \in {[src EXCEPT !.own = o] : o \in Owns}
                  \cup {[src EXCEPT !.grp = g /\ src.bound] : g \in BOOLEAN}
    /\ row' = Dirtied(row)
    /\ txn' = [w \in Workers |-> Overtaken(txn[w])]
    /\ UNCHANGED <<seen, pushed, last, network, device, faults>>

\* Archiving the group, or the reverse: a write of the group without its switches
\* marks none of them dirty.
ArchiveGroup ==
    /\ Operate
    /\ src' = [src EXCEPT !.live = ~@]
    /\ UNCHANGED <<row, seen, txn, pushed, last, network, device, faults>>

\* _cron_retry_dirty_schedule_sync() selects the device.  Odoo runs a cron job
\* in one worker at a time.
BeginCron(w) ==
    /\ "cron" \in Kinds
    /\ txn[w].pc = "closed"
    /\ \A v \in Workers : txn[v].pc = "closed" \/ txn[v].kind # "cron"
    /\ Len(pipe) < MaxQueue
    /\ row.dirty /\ seen /\ (src.bound \/ row.ver > 0)
    /\ txn' = [txn EXCEPT ![w] = Opened("cron", 0)]
    /\ UNCHANGED <<src, row, seen, pushed, last, network, device, bounds>>

\* An operator's request: action_sync_schedule(), bind_by_serial(),
\* action_unbind(), a write of group_ids, the group's sync button.
BeginRequest(w, kind) ==
    /\ kind \in Kinds \ {"cron"}
    /\ txn[w].pc = "closed"
    /\ kind = "bind" => ~src.bound
    /\ kind \in {"unbind", "join", "resync"} => src.bound
    /\ LocksFirst(kind) => RowFree
    /\ Operate
    /\ txn' = [txn EXCEPT ![w] = Opened(kind, 0)]
    /\ UNCHANGED <<src, row, seen, pushed, last, network, device, faults>>

\* The message of the transaction's next push: always the version after the one
\* it believes to be current.
NextMessage(t) ==
    [ver |-> t.ver + t.done + 1,
     ents |-> IF Head(t.todo) = "clear" THEN Cleared ELSE Entries(t.src)]

\* rec.schedule_version = next_version
Bumped(t) == t.done + 1

\* publish_once() or the middleware reports success: version bumped, clean.
PushOk(t, msg) ==
    [t EXCEPT !.done = Bumped(t), !.dirty = FALSE, !.sent = msg.ents,
              !.todo = Tail(@),
              !.pc = IF ~t.locked THEN "lock"
                     ELSE IF Len(t.todo) > 1 THEN "push" ELSE "commit"]

\* It reports failure.  The cron job leaves the row as it is and the sync button
\* raises, which rolls back; the other requests carry on with a dirty row.
PushFailed(t) ==
    IF t.locked
    THEN [t EXCEPT !.dirty = TRUE, !.todo = Tail(@),
                   !.pc = IF Len(t.todo) > 1 THEN "push" ELSE "commit"]
    ELSE Closed

\* The message reaches the broker's queue unless refused or lost; the caller is
\* told of success unless refused or answered too late ("nack").
Push(w) ==
    /\ txn[w].pc = "push"
    /\ Len(pipe) < MaxQueue
    /\ LET msg == NextMessage(txn[w]) IN
          \/ /\ pipe' = Append(pipe, msg)
             /\ txn' = [txn EXCEPT ![w] = PushOk(@, msg)]
             /\ last' = w
             /\ UNCHANGED faults
          \/ /\ Fault("lost")
             /\ txn' = [txn EXCEPT ![w] = PushOk(@, msg)]
             /\ last' = "astray"
             /\ UNCHANGED pipe
          \/ /\ Fault("refused")
             /\ txn' = [txn EXCEPT ![w] = PushFailed(@)]
             /\ UNCHANGED <<pipe, last>>
          \/ /\ Fault("nack")
             /\ pipe' = Append(pipe, msg)
             /\ txn' = [txn EXCEPT ![w] = PushFailed(@)]
             /\ last' = IF txn[w].locked THEN w ELSE "astray"
    /\ UNCHANGED <<src, row, seen, pushed, retained, downlink, uplink, device, ops>>

\* Mutant: the lock is taken without looking at the snapshot.
LockRowBlind(w) ==
    /\ txn[w].pc = "lock"
    /\ RowFree
    /\ txn' = [txn EXCEPT ![w].locked = TRUE, ![w].pc = "commit"]
    /\ UNCHANGED <<src, row, seen, pushed, last, network, device, bounds>>

\* The first write of the row after publishing takes the lock, if the snapshot is
\* fresh.
LockRow(w) ==
    /\ txn[w].pc = "lock"
    /\ RowFree
    /\ ~txn[w].stale
    /\ txn' = [txn EXCEPT ![w].locked = TRUE, ![w].pc = "commit"]
    /\ UNCHANGED <<src, row, seen, pushed, last, network, device, bounds>>

\* The rows of a transaction's other devices are written after they were pushed as
\* well, and one of them was overtaken: the whole of it is undone.
BatchConflict(w) ==
    /\ txn[w].pc \in {"lock", "commit"}
    /\ ~LocksFirst(txn[w].kind)
    /\ ~txn[w].stale
    /\ txn' = [txn EXCEPT ![w].stale = TRUE, ![w].locked = FALSE, ![w].pc = "lock"]
    /\ UNCHANGED <<src, row, seen, pushed, last, network, device, bounds>>

\* What a transaction that is rolled back has published stays published.
RolledBack(w) == IF last = w THEN "astray" ELSE last

\* Otherwise that write fails.  The cron job tries again inside the same
\* transaction, hence with the same snapshot; a request runs again from its start.
Serialization(w) ==
    /\ txn[w].pc = "lock"
    /\ RowFree
    /\ txn[w].stale
    /\ LET t == txn[w] IN
       txn' = [txn EXCEPT ![w] =
                 IF t.tries + 1 = Retries THEN Closed
                 ELSE IF t.kind = "cron"
                 THEN [t EXCEPT !.pc = "push", !.todo = Todo("cron"), !.done = 0,
                                !.tries = @ + 1]
                 ELSE Opened(t.kind, t.tries + 1)]
    /\ last' = RolledBack(w)
    /\ UNCHANGED <<src, row, seen, pushed, network, device, bounds>>

Commit(w) ==
    /\ txn[w].pc = "commit"
    /\ LET t == txn[w] IN
          /\ src' = Edited(t.kind, src)
          /\ row' = [row EXCEPT !.ver = t.ver + t.done, !.dirty = t.dirty]
          /\ pushed' = t.sent
    /\ last' = IF last = w THEN "recorded" ELSE last
    /\ txn' = [v \in Workers |-> IF v = w THEN Closed ELSE Overtaken(txn[v])]
    /\ UNCHANGED <<seen, network, device, bounds>>

\* The worker dies, or a later step of the request raises: rolled back.
Crash(w) ==
    /\ txn[w].pc # "closed"
    /\ Fault("crash")
    /\ txn' = [txn EXCEPT ![w] = Closed]
    /\ last' = RolledBack(w)
    /\ UNCHANGED <<src, row, seen, pushed, network, device, ops>>

\* Mutant: a report does not move last_seen.
NotSeen == UNCHANGED seen

\* Any report moves last_seen.
MarkSeen == seen' = TRUE

\* apply_schedule_report(): the version is taken as reported.
ApplyReport ==
    /\ uplink # <<>>
    /\ RowFree
    /\ row' = [row EXCEPT !.applied = Head(uplink)]
    /\ MarkSeen
    /\ uplink' = Tail(uplink)
    /\ txn' = [w \in Workers |-> Overtaken(txn[w])]
    /\ UNCHANGED <<src, pushed, last, pipe, retained, downlink, device, bounds>>

\* The device has been silent for longer than the cron job's window.
GoesSilent ==
    /\ seen /\ ~connected /\ uplink = <<>>
    /\ seen' = FALSE
    /\ UNCHANGED <<src, row, txn, pushed, last, network, device, bounds>>

--------------------------------------------------------------------------------
(* Broker and module *)

\* Mutant: published without the retain flag.
NotRetained(msg) == UNCHANGED retained

\* publish(..., retain=True) replaces the retained message.
Retain(msg) == retained' = msg

\* The broker takes a command: schedule commands are published with retain.
Deliver ==
    /\ pipe # <<>>
    /\ Len(downlink) < MaxQueue
    /\ pipe' = Tail(pipe)
    /\ Retain(Head(pipe))
    /\ downlink' = IF connected THEN Append(downlink, Head(pipe)) ELSE downlink
    /\ UNCHANGED <<server, uplink, device, bounds>>

\* Status and telemetry are QoS 0: with the hop full, the report is lost.
ReportVersion(v) == uplink' = IF Len(uplink) < MaxQueue THEN Append(uplink, v) ELSE uplink

\* Mutant: subscribing replays nothing.
NoReplay == <<>>

\* What a new subscription to the command topic is sent.
Replay == IF retained = NoMessage THEN <<>> ELSE <<retained>>

\* ensureMqtt(): clean session, subscribe (which replays the retained command),
\* publishStatus().
ModuleConnects ==
    /\ ~connected
    /\ connected' = TRUE
    /\ downlink' = Replay
    /\ ReportVersion(dev.ver)
    /\ UNCHANGED <<server, pipe, retained, dev, bounds>>

ModuleDrops ==
    /\ connected
    /\ Fault("offline")
    /\ connected' = FALSE
    /\ downlink' = <<>>
    /\ UNCHANGED <<server, pipe, retained, uplink, dev, ops>>

\* applyScheduleSet()/applyScheduleClear(): whatever its version is.
ModuleApplies ==
    /\ downlink # <<>>
    /\ dev' = Head(downlink)
    /\ downlink' = Tail(downlink)
    /\ ReportVersion(Head(downlink).ver)
    /\ UNCHANGED <<server, pipe, retained, connected, bounds>>

ModuleTelemetry ==
    /\ connected
    /\ Len(uplink) < MaxQueue
    /\ ReportVersion(dev.ver)
    /\ UNCHANGED <<server, pipe, retained, downlink, device, bounds>>

\* Power is cut while the state file is rewritten: the module forgets it.
ModuleForgets ==
    /\ Fault("torn")
    /\ dev' = [ver |-> 0, ents |-> Cleared]
    /\ connected' = FALSE
    /\ downlink' = <<>>
    /\ UNCHANGED <<server, pipe, retained, uplink, ops>>

--------------------------------------------------------------------------------
Transaction(w) ==
    \/ BeginCron(w) \/ (\E kind \in AllKinds : BeginRequest(w, kind))
    \/ Push(w) \/ LockRow(w) \/ BatchConflict(w) \/ Serialization(w) \/ Commit(w) \/ Crash(w)

Module == ModuleConnects \/ ModuleDrops \/ ModuleApplies \/ ModuleTelemetry
              \/ ModuleForgets

Next ==
    \/ EditSchedules \/ ArchiveGroup
    \/ \E w \in Workers : Transaction(w)
    \/ ApplyReport \/ GoesSilent \/ Deliver \/ Module

Spec == Init /\ [][Next]_vars

\* The cron job runs every five minutes, its transaction and the operators' run on,
\* and the broker and the module keep working.
Fairness ==
    /\ \A w \in Workers :
          /\ WF_vars(BeginCron(w)) /\ WF_vars(Push(w)) /\ WF_vars(LockRow(w))
          /\ WF_vars(Serialization(w)) /\ WF_vars(Commit(w))
    /\ WF_vars(Deliver) /\ WF_vars(ApplyReport)
    /\ WF_vars(ModuleConnects) /\ WF_vars(ModuleApplies) /\ WF_vars(ModuleTelemetry)

FairSpec == Spec /\ Fairness

--------------------------------------------------------------------------------
(* Properties *)

\* The tables a switch with these schedules may have: those of its groups count
\* or do not, since nothing sends a schedule anew when a group is archived.
Fitting(s) == {[own |-> s.own, grp |-> g] : g \in {FALSE, s.grp}}

Covers(table, s) == table \in Fitting(s) \/ (~s.bound /\ table = Cleared)

\* A clean row hides no edit but the archiving of a group: whenever schedule_dirty
\* is false, the last push the database believes in carried the schedules as
\* they are now, or cleared a switch that has been released.  It holds whatever
\* the workers' interleaving, and with crashes, lost messages and transactions of
\* many devices, because pushing and editing transactions write the same row.
DirtyCovers == ~row.dirty => Covers(pushed, src)

Store == INSTANCE ScheduleStore WITH
             want <- Fitting(src), released <- ~src.bound, sent <- pushed,
             dirty <- row.dirty

\* The transactions, retries and failures implement ScheduleStore: one push
\* makes the row clean only with what it sent, in one step.
KeepsStore == Store!Spec

\* _compute_schedule_sync_state()
InSync == ~row.dirty /\ row.applied >= row.ver

\* "in_sync" is the truth once the network is quiet: with no push open and
\* nothing on its way, a connected module switches by the schedules stored for
\* it, however the pushes of several workers overlapped, and after refusals, late
\* answers, reconnections and torn state files.  It fails only when the last
\* publication went astray: the broker lost it, or Odoo rolled back or gave up
\* the transaction that had published it, so that the record tells of an earlier
\* one.  What the module has need not be what was last pushed: "sync schedule" on
\* a released switch that fails after it published leaves it its own schedules.
InSyncIsDelivered ==
    /\ InSync
    /\ \A w \in Workers : txn[w].pc = "closed"
    /\ pipe = <<>> /\ downlink = <<>> /\ connected
    /\ last # "astray"
    => Covers(dev.ents, src)

\* Supposed of the liveness properties, and not guaranteed by the code: a worker
\* whose pushes come to write their rows again and again is not overtaken every
\* time.  A module reports every 30 s, and a transaction that pushes many
\* switches may take longer.
NotAlwaysOvertaken ==
    \A w \in Workers : []<>(txn[w].pc = "lock") => []<><<Commit(w)>>_vars

\* What is saved reaches the module: once the edits cease, a switch that belongs
\* to a company ends up with the schedules stored for it and stays so, whatever
\* fault there was, unless the last publication went astray and nothing repeats it.
RecordedScheduleReachesDevice ==
    NotAlwaysOvertaken => <>[](src.bound /\ last # "astray" => dev.ents \in Fitting(src))

\* The form does not say "pending" or "outdated" for ever.
EndsInSync == NotAlwaysOvertaken => <>[](src.bound /\ last # "astray" => InSync)

\* Without any fault, the schedules stored for a switch reach it.
SavedScheduleReachesDevice ==
    NotAlwaysOvertaken => <>[](src.bound => dev.ents \in Fitting(src))

================================================================================
