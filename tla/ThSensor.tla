-------------------------------- MODULE ThSensor --------------------------------
(***************************************************************************)
(* The readings and alerts of one thermometer channel: _ingest_            *)
(* measurements() of services/tcp_service.py, models/th_sensor.py,         *)
(* th_alert.py, th_sensor_group.py and the rollup of th_reading.py.        *)
(*                                                                         *)
(* A packet is stored by a transaction of its own, on the snapshot of its  *)
(* begin.  It updates the sensor row, and PostgreSQL refuses that if       *)
(* another transaction has updated the row since; alerts and readings are  *)
(* only inserted, or updated by whoever updates the row.  Temperature and  *)
(* humidity are treated alike by the code: there is one quantity here.     *)
(***************************************************************************)
EXTENDS Naturals, FiniteSets

CONSTANTS Sessions,     \* threads and workers that process packets
          Values,       \* readings
          Own,          \* limits of the sensor itself
          GroupLimits,  \* limits a group may be given
          ZeroHours,    \* hours whose readings average to the pair (0, 0)
          MaxTries,     \* MAX_INGEST_RETRIES
          MaxHour,      \* bound: hours
          MaxChanges    \* bound: edits, changes of the temperature, late packets

Limits == [low : Values, high : Values]

ASSUME ConstantsAssumption ==
    /\ Values \subseteq Nat
    /\ Own \in Limits /\ GroupLimits \subseteq Limits /\ GroupLimits # {}
    /\ \A limits \in GroupLimits \cup {Own} : limits.low <= limits.high
    /\ ZeroHours \subseteq Nat
    /\ MaxTries \in Nat \ {0} /\ MaxHour \in Nat \ {0, 1} /\ MaxChanges \in Nat

VARIABLES
    temp,     \* what the channel measures
    now,      \* the hour; earlier ones are older than the retention period
    group,    \* limits of the sensor's group, and whether it is in an active one
    alerts,   \* open iot.th.alert rows, a kind and a number each
    raw,      \* hours that have raw readings
    rolled,   \* hours that have a rollup
    last,     \* history: reading and limits of the packet committed last
    txn,      \* the packet each session processes
    cron,     \* the rollup job
    changes   \* changes so far

readings == <<raw, rolled>>
world    == <<temp, now, group, changes>>
vars     == <<temp, now, group, alerts, raw, rolled, last, txn, cron, changes>>

--------------------------------------------------------------------------------
(* Data *)

Hours == 1 .. MaxHour
Kinds == {"temp_high", "temp_low"}

\* A packet and the transaction that stores it: what it has read, and whether the
\* sensor row has been updated since.
Packets == [pc : {"none", "open"}, value : Values, hour : Hours, limits : Limits,
            seen : SUBSET (Kinds \X Nat), tries : 1 .. MaxTries, stale : BOOLEAN]

NoPacket == [pc |-> "none", value |-> CHOOSE v \in Values : TRUE, hour |-> 1,
             limits |-> Own, seen |-> {}, tries |-> 1, stale |-> FALSE]

\* _cron_rollup_old_readings(): idle, in a batch (the hours it rolls up, and those
\* that got readings since its snapshot), or about to write the sensor row.
NoRollup == [pc |-> "idle", hours |-> {}, late |-> {}, stale |-> FALSE]

TypeOK ==
    /\ temp \in Values /\ now \in Hours
    /\ group \in [limits : GroupLimits, applies : BOOLEAN]
    /\ alerts \in SUBSET (Kinds \X Nat)
    /\ raw \subseteq Hours /\ rolled \subseteq Hours
    /\ last \in [value : Values, limits : Limits]
    /\ txn \in [Sessions -> Packets]
    /\ cron \in [pc : {"idle", "batch", "count"}, hours : SUBSET Hours,
                 late : SUBSET Hours, stale : BOOLEAN]
    /\ changes \in 0 .. MaxChanges

\* A sensor that has reported once, within its limits, an hour ago.
Init ==
    /\ temp \in {v \in Values : Own.low <= v /\ v <= Own.high}
    /\ now = 2
    /\ group \in [limits : GroupLimits, applies : {FALSE}]
    /\ alerts = {}
    /\ raw = {1} /\ rolled = {}
    /\ last = [value |-> temp, limits |-> Own]
    /\ txn = [s \in Sessions |-> NoPacket]
    /\ cron = NoRollup
    /\ changes = 0

--------------------------------------------------------------------------------
(* The world *)

Change == changes < MaxChanges /\ changes' = changes + 1

TemperatureChanges ==
    /\ Change
    /\ temp' \in Values \ {temp}
    /\ UNCHANGED <<now, group, alerts, readings, last, txn, cron>>

HourPasses ==
    /\ now < MaxHour
    /\ now' = now + 1
    /\ UNCHANGED <<temp, group, alerts, readings, last, txn, cron, changes>>

\* An operator edits or archives the group: another table, so nothing conflicts.
EditGroup ==
    /\ Change
    /\ group' \in [limits : GroupLimits, applies : BOOLEAN] \ {group}
    /\ UNCHANGED <<temp, now, alerts, readings, last, txn, cron>>

--------------------------------------------------------------------------------
(* Packets *)

\* _get_effective_threshold_values()
Effective == IF group.applies THEN group.limits ELSE Own

\* A packet in a new transaction.
Opened(value, hour, tries) ==
    [pc |-> "open", value |-> value, hour |-> hour, limits |-> Effective,
     seen |-> alerts, tries |-> tries, stale |-> FALSE]

Begin(s, value, hour) ==
    /\ txn[s].pc = "none"
    /\ txn' = [txn EXCEPT ![s] = Opened(value, hour, 1)]
    /\ UNCHANGED <<alerts, readings, last, cron>>

\* The node reports what it measures.
Report(s) == Begin(s, temp, now) /\ UNCHANGED world

\* A JSON line with a reported_at of its own: an earlier reading comes late.
LateReport(s) ==
    /\ Change
    /\ \E value \in Values, hour \in 1 .. now : Begin(s, value, hour)
    /\ UNCHANGED <<temp, now, group>>

\* post_json() of the middleware has timed out and sends the packet again, while
\* Odoo still processes it.
Repost(s, t) ==
    /\ txn[t].pc = "open"
    /\ Change
    /\ Begin(s, txn[t].value, txn[t].hour)
    /\ UNCHANGED <<temp, now, group>>

OutOfRange(t) ==
    {k \in Kinds : \/ k = "temp_high" /\ t.value > t.limits.high
                   \/ k = "temp_low" /\ t.value < t.limits.low}

\* Mutant: a reading on the limit closes nothing.
InRangeStrictly(t) == t.limits.low < t.value /\ t.value < t.limits.high

InRange(t) == t.limits.low <= t.value /\ t.value <= t.limits.high

\* apply_reading(): open a kind that is not open yet; once the value is back in
\* range, close the alerts of the quantity.
AlertsAfter(t) ==
    LET opens  == OutOfRange(t) \ {a[1] : a \in t.seen}
        closes == IF InRange(t) THEN t.seen ELSE {}
        number(k) == Cardinality({a \in alerts : a[1] = k}) + 1
    IN (alerts \ closes) \cup {<<k, number(k)>> : k \in opens}

\* Mutant: an update of the row since the snapshot goes unnoticed.
Unnoticed(txns) == txns

\* A committed update of the sensor row fails the open transactions.
Overtaken(txns) ==
    [s \in Sessions |-> IF txns[s].pc = "open" THEN [txns[s] EXCEPT !.stale = TRUE]
                        ELSE txns[s]]

\* The job counts as well, and has a snapshot.
CronMisses(hour) ==
    [cron EXCEPT !.stale = cron.pc = "count", !.late = IF cron.pc = "batch" THEN @ \cup {hour} ELSE @]

\* The transaction commits: the sensor row, the reading and the alerts.
Commit(s) ==
    LET t == txn[s] IN
    /\ t.pc = "open" /\ ~t.stale
    /\ raw' = raw \cup {t.hour}
    /\ alerts' = AlertsAfter(t)
    /\ last' = [value |-> t.value, limits |-> t.limits]
    /\ txn' = Overtaken([txn EXCEPT ![s] = NoPacket])
    /\ cron' = CronMisses(t.hour)
    /\ UNCHANGED <<rolled, world>>

\* A serialization failure: the packet is tried again in a new transaction, and
\* dropped after the last attempt.
Retry(s) ==
    LET t == txn[s] IN
    /\ t.pc = "open" /\ t.stale
    /\ txn' = [txn EXCEPT ![s] = IF t.tries = MaxTries THEN NoPacket
                                 ELSE Opened(t.value, t.hour, t.tries + 1)]
    /\ UNCHANGED <<alerts, readings, last, cron, world>>

--------------------------------------------------------------------------------
(* The rollup *)

Old == {h \in raw : h < now}

\* The job selects the old hours that have raw readings.  When none is left, it
\* goes on with the sensor row.
SelectBatch ==
    /\ cron.pc = "idle" /\ Old # {}
    /\ cron' = [NoRollup EXCEPT !.pc = "batch", !.hours = Old]
    /\ UNCHANGED <<alerts, readings, last, txn, world>>

\* Mutant: the old rollup is deleted after the new one has been created.
RolledLate(hours) == rolled \ hours

\* An hour's earlier rollup is deleted before the new one is created.  create()
\* takes an average of (0, 0) for a glitch and creates nothing.
Rolled(hours) == (rolled \ hours) \cup (hours \ ZeroHours)

\* Mutant: a delete that is not limited to the snapshot.
LeftOver(batch) == {}

\* The raw readings deleted are those of the snapshot.
Survivors(batch) == batch.late

\* A batch commits, and the next one is selected.
CommitBatch ==
    /\ cron.pc = "batch"
    /\ rolled' = Rolled(cron.hours)
    /\ raw' = (raw \ cron.hours) \cup Survivors(cron)
    /\ LET left == {h \in raw' : h < now} IN
       cron' = IF left = {} THEN [NoRollup EXCEPT !.pc = "count"]
               ELSE [NoRollup EXCEPT !.pc = "batch", !.hours = left]
    /\ UNCHANGED <<alerts, last, txn, world>>

\* reading_count and the last reading are written to the sensor row, unless it has
\* been updated since the last select: then the job ends with an exception.
FinishRollup ==
    /\ cron.pc = "count"
    /\ txn' = IF cron.stale THEN txn ELSE Overtaken(txn)
    /\ cron' = NoRollup
    /\ UNCHANGED <<alerts, readings, last, world>>

--------------------------------------------------------------------------------
World == TemperatureChanges \/ HourPasses \/ EditGroup

Session(s) ==
    \/ Report(s) \/ LateReport(s) \/ (\E t \in Sessions : Repost(s, t))
    \/ Commit(s) \/ Retry(s)

Rollup == SelectBatch \/ CommitBatch \/ FinishRollup

Next == World \/ (\E s \in Sessions : Session(s)) \/ Rollup

Spec == Init /\ [][Next]_vars

\* The node reports every few minutes, sessions go on, and a transaction lasts far
\* less than that: again and again one runs alone.
Fairness ==
    \A s \in Sessions : WF_vars(Report(s)) /\ WF_vars(Retry(s)) /\ SF_vars(Commit(s))

FairSpec == Spec /\ Fairness

--------------------------------------------------------------------------------
(* Properties *)

\* The open alerts are those of the packet committed last, under the limits it
\* was judged by: one of the kind it exceeds, none if it is in range, and never
\* two of one kind, whichever sessions process packets at once, in whatever
\* order, and although a packet may be sent twice or tried again.
AlertsFollow ==
    /\ \A k \in OutOfRange(last) : \E a \in alerts : a[1] = k
    /\ InRange(last) => alerts = {}
    /\ \A a, b \in alerts : a[1] = b[1] => a = b

Measured(h) == h \in raw \cup rolled

\* An hour that has been measured is never without readings, unless they average
\* to (0, 0): a rollup replaces its raw readings in one transaction, and readings
\* that arrive meanwhile or later stay.
HourIsKept == [][\A h \in Hours \ ZeroHours : Measured(h) => Measured(h)']_vars

\* No late reading is deleted unaveraged: a raw reading goes only into a rollup
\* whose snapshot had it.
LateIsAveraged == [][\A h \in cron.late : h \in raw']_vars

\* Once temperature and limits stay, the alerts are those they call for: a packet
\* dropped after its last attempt, a late one or an edit of the group is made
\* good by a later report.
AlertSettles ==
    <>[](/\ temp > Effective.high => \E a \in alerts : a[1] = "temp_high"
         /\ temp < Effective.low  => \E a \in alerts : a[1] = "temp_low"
         /\ Effective.low <= temp /\ temp <= Effective.high => alerts = {})

================================================================================
