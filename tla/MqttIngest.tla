------------------------------- MODULE MqttIngest -------------------------------
(***************************************************************************)
(* How the relay state of one switch reaches its record in Odoo: the       *)
(* reports of the module, their forwarding, and the message table of       *)
(* models/iot_mqtt_message.py with its deduplication, its telemetry slot   *)
(* and its cron job.                                                       *)
(*                                                                         *)
(* There are two ways in.  In direct mode Odoo subscribes itself and       *)
(* processes a message in the transaction that stores it                   *)
(* (services/mqtt_service.py).  Otherwise middleware/iot_bridge posts it   *)
(* to controllers/internal_ingest.py, which only stores it, and the cron   *)
(* job processes what is new.                                              *)
(*                                                                         *)
(* Of a report only the relay state it carries is modelled.  Telemetry     *)
(* also carries the uptime, so two of them never are the same text; the    *)
(* exact-duplicate test can only match a repeated post, which finds its    *)
(* own value in the slot.                                                  *)
(***************************************************************************)
EXTENDS Naturals, Sequences, FiniteSetsExt

CONSTANTS RelayStates,      \* relay states a report may carry
          Unknown,     \* relay_state of a record no report has reached
          BatchLimit,  \* messages one run of the cron job takes
          MaxChanges,  \* bound: status reports
          MaxFaults,   \* bound: faults
          MaxWire,     \* bound: reports in flight
          MaxRows      \* bound: rows of the message table

ASSUME IngestAssumption ==
    /\ Unknown \notin RelayStates
    /\ BatchLimit \in Nat \ {0}
    /\ MaxChanges \in Nat /\ MaxFaults \in Nat
    /\ MaxWire \in Nat \ {0} /\ MaxRows \in Nat \ {0}

VARIABLES
    direct,    \* Odoo is the subscriber, not the middleware: a setting
    actual,     \* the relay of the module
    wire,      \* reports in flight, in order
    stalled,   \* posts that timed out and have yet to commit
    rows,      \* iot.mqtt.message, in the order of the ids
    twin,      \* iot.device.relay_state
    changes,   \* status reports so far
    faults     \* faults so far

ingestVars == <<direct, actual, wire, stalled, rows, twin, changes, faults>>

Kinds   == {"status", "telemetry"}
Reports == [kind : Kinds, on : RelayStates]
\* recent: received within the window that applies to the kind of message, 15 s
\* for the duplicates of a status, 60 s for the slot of a telemetry.
Messages    == [kind : Kinds, on : RelayStates, state : {"new", "done", "error"},
                recent : BOOLEAN]
\* blind: when the post began, its snapshot held no row that it would reuse.
Posts   == [msg : Reports, blind : BOOLEAN]

IngestTypeOK ==
    /\ direct \in BOOLEAN
    /\ actual \in RelayStates
    /\ wire \in Seq(Reports)
    /\ stalled \in Seq(Posts)
    /\ rows \in Seq(Messages)
    /\ twin \in RelayStates \cup {Unknown}
    /\ changes \in 0 .. MaxChanges
    /\ faults \in 0 .. MaxFaults

IngestInit ==
    /\ direct \in BOOLEAN
    /\ actual \in RelayStates
    /\ wire = <<>> /\ stalled = <<>> /\ rows = <<>>
    /\ twin = Unknown
    /\ changes = 0 /\ faults = 0

--------------------------------------------------------------------------------
(* Storing a report: create_from_mqtt() *)

\* _find_recent_duplicate() of a status, _find_recent_telemetry_slot().
Reusable(m) ==
    {i \in DOMAIN rows :
        /\ rows[i].kind = m.kind
        /\ IF m.kind = "status"
           THEN /\ rows[i].on = m.on
                /\ rows[i].state = "new" \/ (rows[i].state = "done" /\ rows[i].recent)
           ELSE rows[i].recent}

\* Mutant: a reused slot stays processed.
RefreshedDone(row, m, done) == [row EXCEPT !.on = m.on, !.recent = TRUE]

\* A duplicate only gets a new received_at, but in direct mode is processed
\* again; a slot takes the payload and becomes new.
Refreshed(row, m, done) ==
    [row EXCEPT !.on = m.on, !.recent = TRUE,
                !.state = IF done THEN "done"
                          ELSE IF m.kind = "telemetry" THEN "new" ELSE row.state]

Added(m, done) ==
    Append(rows, [kind |-> m.kind, on |-> m.on,
                  state |-> IF done THEN "done" ELSE "new", recent |-> TRUE])

\* The table with the message, processed already or not.
Stored(m, done) ==
    IF Reusable(m) # {}
    THEN LET i == Max(Reusable(m)) IN rows' = [rows EXCEPT ![i] = Refreshed(rows[i], m, done)]
    ELSE Len(rows) < MaxRows /\ rows' = Added(m, done)

\* _process_one() in the same transaction, or left to the cron job.
Processed(m) == twin' = IF direct THEN m.on ELSE twin

Store(m) == Stored(m, direct) /\ Processed(m)

--------------------------------------------------------------------------------
(* The module *)

\* publishStatus(): after every change of the relay, and on other occasions.
ReportStatus ==
    /\ changes < MaxChanges
    /\ Len(wire) < MaxWire
    /\ changes' = changes + 1
    /\ actual' \in RelayStates
    /\ wire' = Append(wire, [kind |-> "status", on |-> actual'])
    /\ UNCHANGED <<direct, stalled, rows, twin, faults>>

\* publishTelemetry(), every 30 s.
ReportTelemetry ==
    /\ Len(wire) < MaxWire
    /\ wire' = Append(wire, [kind |-> "telemetry", on |-> actual])
    /\ UNCHANGED <<direct, actual, stalled, rows, twin, changes, faults>>

--------------------------------------------------------------------------------
(* The subscriber *)

Fault == faults < MaxFaults /\ faults' = faults + 1

\* on_message() and _enqueue_message(), or run_mqtt_loop() and mqtt_ingest():
\* one report at a time, in order.
Arrive ==
    /\ wire # <<>>
    /\ Store(Head(wire))
    /\ wire' = Tail(wire)
    /\ UNCHANGED <<direct, actual, stalled, changes, faults>>

\* In direct mode an exception of _process_one() is caught, before or after it has
\* written the relay state, and what create_from_mqtt() stored is committed: the
\* cron job finds the message, and may apply it after later ones.
ProcessingFails ==
    /\ wire # <<>>
    /\ direct /\ Fault
    /\ Stored(Head(wire), FALSE)
    /\ twin' \in {twin, Head(wire).on}
    /\ wire' = Tail(wire)
    /\ UNCHANGED <<direct, actual, stalled, changes>>

\* post_json() gives up after its second attempt, _enqueue_message() after its
\* third serialization failure.
GiveUp ==
    /\ wire # <<>>
    /\ Fault
    /\ wire' = Tail(wire)
    /\ UNCHANGED <<direct, actual, stalled, rows, twin, changes>>

\* The first attempt times out in the middleware but is still running in Odoo;
\* the second attempt is to come.
TimeOut ==
    /\ wire # <<>> /\ stalled = <<>>
    /\ ~direct /\ Fault
    /\ stalled' = <<[msg |-> Head(wire), blind |-> Reusable(Head(wire)) = {}]>>
    /\ UNCHANGED <<direct, actual, wire, rows, twin, changes>>

\* It commits after all.  The advisory lock makes it wait for the others, but its
\* snapshot may be older than what they stored; only an update of a row they
\* have changed fails and is run again.
StalledCommits ==
    /\ stalled # <<>>
    /\ LET post == Head(stalled) IN
          \/ Store(post.msg)
          \/ /\ post.blind
             /\ Len(rows) < MaxRows
             /\ rows' = Added(post.msg, FALSE)
             /\ UNCHANGED twin
    /\ stalled' = Tail(stalled)
    /\ UNCHANGED <<direct, actual, wire, changes, faults>>

--------------------------------------------------------------------------------
(* The cron jobs *)

New == {i \in DOMAIN rows : rows[i].state = "new"}

\* Mutant: one message less.
ShortBatch == {i \in New : Cardinality({j \in New : j <= i}) < BatchLimit}

\* The oldest BatchLimit new messages.
Batch == {i \in New : Cardinality({j \in New : j <= i}) <= BatchLimit}

OfKind(kind) == {i \in Batch : rows[i].kind = kind}

\* latest_by_key keeps the last message of each kind, but in the order in which
\* the kinds first occur: the kind that occurs last decides.
DecidingKind ==
    CHOOSE kind \in Kinds :
        /\ OfKind(kind) # {}
        /\ \A other \in Kinds \ {kind} :
              OfKind(other) # {} => Min(OfKind(other)) < Min(OfKind(kind))

Deciding == Max(OfKind(DecidingKind))

\* The messages that are processed: those skipped are done at once.
Selected == {i \in Batch : i = Max(OfKind(rows[i].kind))}

\* _cron_process_new_messages(), every minute.  Those whose processing raises, before
\* or after it has written the relay state, become errors.
ProcessBatch(bad) ==
    /\ Batch # {}
    /\ bad \subseteq Selected
    /\ IF Deciding \in bad
       THEN twin' \in {twin} \cup {rows[i].on : i \in Selected}
       ELSE twin' = rows[Deciding].on
    /\ rows' = [i \in DOMAIN rows |->
                   IF i \in bad THEN [rows[i] EXCEPT !.state = "error"]
                   ELSE IF i \in Batch THEN [rows[i] EXCEPT !.state = "done"] ELSE rows[i]]
    /\ IF bad = {} THEN UNCHANGED faults ELSE Fault
    /\ UNCHANGED <<direct, actual, wire, stalled, changes>>

\* The window of a row passes.
Age(i) ==
    /\ i \in DOMAIN rows
    /\ rows[i].recent
    /\ rows' = [rows EXCEPT ![i].recent = FALSE]
    /\ UNCHANGED <<direct, actual, wire, stalled, twin, changes, faults>>

\* _cron_purge_old_messages(): rows go long after the windows, whatever their
\* state.  One that is still new is seven days old only if the other cron job has
\* stood still for as long.  What stays keeps its order.
Purge(gone) ==
    /\ gone # {} /\ gone \subseteq {i \in DOMAIN rows : ~rows[i].recent}
    /\ LET kept == DOMAIN rows \ gone
           n    == Cardinality(kept)
       IN \E at \in [1 .. n -> kept] :
             /\ \A j, k \in 1 .. n : j < k => at[j] < at[k]
             /\ rows' = [k \in 1 .. n |-> rows[at[k]]]
    /\ IF gone \cap New = {} THEN UNCHANGED faults ELSE Fault
    /\ UNCHANGED <<direct, actual, wire, stalled, twin, changes>>

--------------------------------------------------------------------------------
IngestNext ==
    \/ ReportStatus \/ ReportTelemetry
    \/ Arrive \/ ProcessingFails \/ GiveUp \/ TimeOut \/ StalledCommits
    \/ (\E bad \in SUBSET DOMAIN rows : ProcessBatch(bad))
    \/ (\E i \in 1 .. MaxRows : Age(i))
    \/ (\E gone \in SUBSET DOMAIN rows : Purge(gone))

IngestSpec == IngestInit /\ [][IngestNext]_ingestVars

\* The module reports telemetry as long as it has power, the subscriber and the
\* cron jobs keep running, and posts end.  The window of a status passes, but a
\* slot that is refreshed every 30 s may stay recent for ever.
IngestFairness ==
    /\ WF_ingestVars(ReportTelemetry) /\ WF_ingestVars(Arrive) /\ WF_ingestVars(StalledCommits)
    /\ WF_ingestVars(ProcessBatch({}))
    /\ WF_ingestVars(\E gone \in SUBSET (DOMAIN rows \ New) : Purge(gone))
    /\ \A i \in 1 .. MaxRows : WF_ingestVars(Age(i) /\ rows[i].kind = "status")

IngestFairSpec == IngestSpec /\ IngestFairness

--------------------------------------------------------------------------------
(* Properties *)

\* No status waits for ever behind telemetry, whose slot keeps its old place in the
\* table and is new again with every report: the batch has room for more messages
\* than there are slots, one for each switch.  In direct mode it is what is
\* left of a report whose processing failed.
StatusesAreProcessed == <>[](\A i \in New : rows[i].kind = "telemetry")

\* Whatever the deduplication drops, whatever processing fails and in whatever
\* order the cron job works, telemetry puts the record right in the end and it
\* stays right.
TwinSettles == <>[](twin = actual)

================================================================================
