------------------------------- MODULE Attendance -------------------------------
(***************************************************************************)
(* How one employee's punches travel from attendance terminals into        *)
(* hr.attendance: models/iot_attendance_device.py, iot_attendance_punch.py *)
(* and controllers/iot_attendance.py.                                      *)
(*                                                                         *)
(* A request is one REPEATABLE READ transaction: it handles its punches    *)
(* one by one on the snapshot of its begin, and what it stores is merged   *)
(* into the tables when it commits.  It cannot commit if another           *)
(* transaction has updated one of its rows in between; rows that are only  *)
(* inserted never conflict, for Odoo 19 ignores _sql_constraints.          *)
(***************************************************************************)
EXTENDS Naturals, Sequences, FiniteSets, Functions

CONSTANTS Devices,     \* attendance terminals
          Protocol,    \* how each is read: "adms", "push" (webhook), "pull" (zk)
          Direction,   \* directions a terminal's punches normalise to
          Known,       \* terminals with a mapping of the employee from the start
          Coded,       \* where the user id is the employee's biometric_code or barcode
          Unmatched,   \* ADMS terminals with no device row
          Mappable,    \* bound: terminals for which a mapping may be entered
          AutoClear,   \* pulled terminals with auto_clear_after_sync
          Sessions,    \* Odoo workers
          NoSession,   \* the terminal waits for no answer
          MaxPunches,  \* bound: punches, one at each instant
          MaxFaults    \* bound: lost answers and dying workers

Protocols  == {"adms", "push", "pull"}
Directions == {"in", "out", "auto"}

ASSUME ConstantsAssumption ==
    /\ Protocol \in [Devices -> Protocols]
    /\ Direction \in [Devices -> SUBSET Directions]
    /\ Unmatched \subseteq {d \in Devices : Protocol[d] = "adms"}
    /\ Known \subseteq Devices \ Unmatched
    /\ Coded \subseteq Devices
    /\ AutoClear \subseteq {d \in Devices : Protocol[d] = "pull"}
    /\ NoSession \notin Sessions
    /\ MaxPunches \in Nat /\ MaxFaults \in Nat

VARIABLES
    log,      \* punches each terminal has recorded, in order
    acked,    \* how many of them it need not send again
    waiting,  \* the session whose answer it waits for
    rows,     \* iot.attendance.punch: stored punches
    atts,     \* hr.attendance of the employee: check_in -> check_out, or Open
    mapped,   \* iot.attendance.user: the terminals with a mapping
    payload,  \* adms_last_payload of each device row
    txn,      \* the transaction each session has open
    faults    \* faults so far

terminal == <<log, acked, waiting>>
tables   == <<rows, atts, mapped, payload>>
vars     == <<log, acked, waiting, rows, atts, mapped, payload, txn, faults>>

--------------------------------------------------------------------------------
(* Data *)

Open    == 0
Times   == 1 .. MaxPunches
Punches == [dev : Devices, at : Times, dir : Directions]

\* "error" is two states here: only punches without a mapping are tried again.
States == {"new", "processed", "ignored", "unmapped", "unmatched"}
Rows   == [state : States, att : Times \cup {Open}, copies : Nat]

Table(f, S, T) == DOMAIN f \subseteq S /\ \A x \in DOMAIN f : f[x] \in T

\* Functions as tables: g's entries over f's.
Over(g, f) == [x \in DOMAIN f \cup DOMAIN g |-> IF x \in DOMAIN g THEN g[x] ELSE f[x]]

\* What the transaction of a session has seen and done: snapshot (mapped, base),
\* what it writes (rows, atts), what is left of its batch, and which of the
\* device row and the mapping row others have updated meanwhile.
Idle == [kind |-> "idle", dev |-> CHOOSE d \in Devices : TRUE, batch |-> <<>>,
         todo |-> <<>>, mapped |-> {}, base |-> <<>>, rows |-> <<>>, atts |-> <<>>,
         touched |-> FALSE, raised |-> FALSE, missed |-> {}]

TypeOK ==
    /\ log \in [Devices -> Seq(Punches)]
    /\ acked \in [Devices -> Nat]
    /\ waiting \in [Devices -> Sessions \cup {NoSession}]
    /\ Table(rows, Punches, Rows)
    /\ Table(atts, Times, Times \cup {Open})
    /\ mapped \subseteq Devices
    /\ payload \in [Devices -> Seq(Punches)]
    /\ DOMAIN txn = Sessions
    /\ \A s \in Sessions : txn[s].kind \in Protocols \cup {"reprocess", "idle"}
    /\ faults \in 0 .. MaxFaults

Init ==
    /\ log = [d \in Devices |-> <<>>]
    /\ acked = [d \in Devices |-> 0]
    /\ waiting = [d \in Devices |-> NoSession]
    /\ rows = <<>>
    /\ atts = <<>>
    /\ mapped = Known
    /\ payload = [d \in Devices |-> <<>>]
    /\ txn = [s \in Sessions |-> Idle]
    /\ faults = 0

--------------------------------------------------------------------------------
(* What a request makes of its punches *)

\* The other attendance that begins last before instant t, or Open if none.
Before(A, i, t) ==
    LET earlier == {j \in DOMAIN A \ {i} : j <= t}
    IN IF earlier = {} THEN Open ELSE CHOOSE j \in earlier : \A k \in earlier : k <= j

\* hr.attendance._check_validity() raises: the attendance that begins at i meets
\* another one.
Refused(A, i) ==
    LET before == Before(A, i, i) IN
    \/ before # Open /\ A[before] > i
    \/ A[i] = Open /\ \E j \in DOMAIN A \ {i} : A[j] = Open
    \/ A[i] # Open /\ Before(A, i, A[i] - 1) # before

\* Mutant: the search does not ask for an attendance without a check-out.
LastAttendance(A) ==
    IF DOMAIN A = {} THEN Open ELSE CHOOSE i \in DOMAIN A : \A j \in DOMAIN A : j <= i

\* _get_open_attendance(): the open attendance that begins last, or Open if none.
OpenAttendance(A) ==
    LET open == {i \in DOMAIN A : A[i] = Open}
    IN IF open = {} THEN Open ELSE CHOOSE i \in open : \A j \in open : j <= i

\* What becomes of a punch: the attendances after it, its state, the attendance it
\* belongs to, and whether hr.attendance raised.
Verdict(A, state, att) == [atts |-> A, state |-> state, att |-> att, raised |-> FALSE]

\* A write of hr.attendance.  When it raises, the write stays in the transaction
\* and the punch is still "new".
Written(A, i) ==
    IF Refused(A, i) THEN [Verdict(A, "new", Open) EXCEPT !.raised = TRUE]
    ELSE Verdict(A, "processed", i)

CheckOut(A, i, p) == Written([A EXCEPT ![i] = p.at], i)

\* Two attendances with one check_in always meet.
CheckIn(A, p) ==
    IF p.at \in DOMAIN A THEN [Verdict(A, "new", Open) EXCEPT !.raised = TRUE]
    ELSE Written(Over([i \in {p.at} |-> Open], A), p.at)

\* _process_punches() for one punch.
Process(A, p, known) ==
    LET open == OpenAttendance(A) IN
    CASE ~known -> Verdict(A, "unmapped", Open)
      [] known /\ p.dir = "out" ->
            IF open = Open THEN Verdict(A, "unmatched", Open)
            ELSE IF p.at <= open THEN Verdict(A, "ignored", Open)
            ELSE CheckOut(A, open, p)
      [] known /\ p.dir = "in" ->
            IF open # Open THEN Verdict(A, "ignored", Open) ELSE CheckIn(A, p)
      [] OTHER ->
            IF open # Open /\ p.at > open THEN CheckOut(A, open, p) ELSE CheckIn(A, p)

--------------------------------------------------------------------------------
(* Terminals *)

Recorded == UNION {Range(log[d]) : d \in Devices}

\* The employee puts a finger on a terminal: punches follow one another in time,
\* whichever terminal records them.
Punch(d, dir) ==
    /\ Cardinality(Recorded) < MaxPunches
    /\ log' = [log EXCEPT ![d] =
                 Append(@, [dev |-> d, at |-> Cardinality(Recorded) + 1, dir |-> dir])]
    /\ UNCHANGED <<acked, waiting, tables, txn, faults>>

Fault == faults < MaxFaults /\ faults' = faults + 1

\* What a terminal has to send, or a pull finds in its memory.
Unsent(d) == SubSeq(log[d], acked[d] + 1, Len(log[d]))

\* Mutant: the search for the hash is forgotten.
TakesAll(batch) == Range(batch)

\* The loops of ingest_adms_payload(), ingest_webhook_payload() and _sync_device()
\* skip a punch whose unique_hash is stored.
Takes(batch) == Range(batch) \ DOMAIN rows

\* Punches in time order, which is also the order in which a terminal sends them.
InTimeOrder(S) ==
    {q \in [1 .. Cardinality(S) -> S] : \A j, k \in DOMAIN q : j < k => q[j].at < q[k].at}

\* A transaction on the present snapshot, with these punches to process.
Opened(kind, d, batch, todo, touched) ==
    [kind |-> kind, dev |-> d, batch |-> batch, todo |-> todo, mapped |-> mapped,
     base |-> atts, rows |-> <<>>, atts |-> atts, touched |-> touched,
     raised |-> FALSE, missed |-> {}]

\* Session s opens a transaction for what terminal d has to send.
Ingest(s, kind, d, touched) ==
    \E todo \in InTimeOrder(Takes(Unsent(d))) :
        txn' = [txn EXCEPT ![s] = Opened(kind, d, Unsent(d), todo, touched)]

\* A terminal that waits for no answer sends everything not acknowledged.
MaySend(d, s) ==
    /\ waiting[d] = NoSession
    /\ txn[s].kind = "idle"
    /\ Unsent(d) # <<>>

\* POST /iclock/cdata of a terminal with a device row.  _touch_device() writes the
\* row for a payload that differs from the last one, or when the last contact is
\* 15 s ago (quiet).
SendAdms(d, s, quiet) ==
    /\ Protocol[d] = "adms" /\ d \notin Unmatched
    /\ MaySend(d, s)
    /\ Ingest(s, "adms", d, quiet \/ payload[d] # Unsent(d))
    /\ waiting' = [waiting EXCEPT ![d] = s]
    /\ UNCHANGED <<log, acked, tables, faults>>

\* POST /iclock/cdata when _find_adms_device() finds none: the answer is "OK", and
\* nothing is stored.
SendUnmatched(d) ==
    /\ d \in Unmatched
    /\ waiting[d] = NoSession
    /\ Unsent(d) # <<>>
    /\ acked' = [acked EXCEPT ![d] = Len(log[d])]
    /\ UNCHANGED <<log, waiting, tables, txn, faults>>

\* POST /iot_attendance/push.
SendPush(d, s) ==
    /\ Protocol[d] = "push"
    /\ MaySend(d, s)
    /\ Ingest(s, "push", d, FALSE)
    /\ waiting' = [waiting EXCEPT ![d] = s]
    /\ UNCHANGED <<log, acked, tables, faults>>

\* action_sync_now(): _fetch_zk_punches() reads the terminal's memory and, with
\* auto_clear_after_sync, clears it before anything is stored.
Pull(d, s) ==
    /\ Protocol[d] = "pull"
    /\ txn[s].kind = "idle"
    /\ Unsent(d) # <<>>
    /\ Ingest(s, "pull", d, FALSE)
    /\ acked' = IF d \in AutoClear THEN [acked EXCEPT ![d] = Len(log[d])] ELSE acked
    /\ UNCHANGED <<log, waiting, tables, faults>>

\* The answer does not come in time: the terminal gives up and will send again,
\* while Odoo may still be at work.
TimesOut(d) ==
    /\ waiting[d] # NoSession
    /\ Fault
    /\ waiting' = [waiting EXCEPT ![d] = NoSession]
    /\ UNCHANGED <<log, acked, tables, txn>>

--------------------------------------------------------------------------------
(* Odoo *)

Pending == {p \in DOMAIN rows : rows[p].state \in {"new", "unmapped"}}

\* cron_reprocess_pending_punches(), in time order.  No scheduled action of the
\* module calls it, and Odoo runs a scheduled action in one worker at a time.
Reprocess(s) ==
    /\ txn[s].kind = "idle"
    /\ \A v \in Sessions : txn[v].kind # "reprocess"
    /\ Pending # {}
    /\ \E todo \in InTimeOrder(Pending) :
          txn' = [txn EXCEPT ![s] = Opened("reprocess", Idle.dev, <<>>, todo, FALSE)]
    /\ UNCHANGED <<terminal, tables, faults>>

\* The operator adds the employee's mapping for a terminal.
MapEmployee(d) ==
    /\ d \in Mappable \ (mapped \cup Unmatched)
    /\ mapped' = mapped \cup {d}
    /\ UNCHANGED <<terminal, rows, atts, payload, txn, faults>>

\* _resolve_employee(): the mapping names the employee, and without one the code.
Resolved(t, d) == d \in t.mapped \cup Coded

\* Create or update the row of the next punch and process it.  What raises ends
\* the loop.
Handle(s) ==
    LET t == txn[s]
        p == Head(t.todo)
    IN
    /\ t.todo # <<>>
    /\ \E v \in {Process(t.atts, p, Resolved(t, p.dev))} :
          txn' = [txn EXCEPT ![s] =
             [t EXCEPT !.todo = IF v.raised THEN <<>> ELSE Tail(t.todo),
                       !.raised = v.raised, !.atts = v.atts,
                       !.rows = Over([q \in {p} |-> [state |-> v.state, att |-> v.att,
                                        copies |-> IF t.kind = "reprocess" THEN 0 ELSE 1]], @)]]
    /\ UNCHANGED <<terminal, tables, faults>>

\* The rows a request updates besides attendances: the last_seen_at of the mapping,
\* if there is one, with each punch, and the device when it has come through.
Updates(t) ==
    IF t.kind = "reprocess" THEN {}
    ELSE (IF t.dev \in t.mapped THEN {"mapping"} ELSE {})
         \cup (IF t.touched \/ ~t.raised THEN {"device"} ELSE {})

\* Mutant: an update committed since the snapshot goes unnoticed, as under READ
\* COMMITTED.
NeverStale(t) == FALSE

\* A row to be updated has been updated since the snapshot.
Stale(t) ==
    \/ Updates(t) \cap t.missed # {}
    \/ \E i \in DOMAIN t.base : t.atts[i] # t.base[i] /\ atts[i] # t.base[i]

\* These updates of a terminal's rows are committed: open transactions miss them.
Missing(d, updates) ==
    [s \in Sessions |->
       IF txn[s].kind \notin {"idle", "reprocess"} /\ txn[s].dev = d
       THEN [txn[s] EXCEPT !.missed = @ \cup updates] ELSE txn[s]]

\* getrequest, registry and devicecmd: _touch_device() again.  A terminal makes
\* one request at a time.
Heartbeat(d) ==
    /\ Protocol[d] = "adms" /\ d \notin Unmatched
    /\ waiting[d] = NoSession
    /\ txn' = Missing(d, {"device"})
    /\ UNCHANGED <<terminal, tables, faults>>

\* Mutant: the exception leaves nothing behind.
KeepsGood(t) == ~t.raised

\* The controller catches what an ADMS batch raises, and Odoo commits what came
\* before; elsewhere the exception rolls the request back.
Keeps(t) == ~t.raised \/ t.kind = "adms"

\* Stored punches after t's: a row stored by another transaction since t's
\* snapshot stays, and t's is a second one.
MergedRows(t) ==
    LET copies(p) == t.rows[p].copies + IF p \in DOMAIN rows THEN rows[p].copies ELSE 0
    IN Over([p \in DOMAIN t.rows |-> [t.rows[p] EXCEPT !.copies = copies(p)]], rows)

\* Attendances after t's: those it has created or closed, over the others.  The two
\* attendances that begin with two copies of a punch are one here, which matters to
\* no instance in which StoredOnce holds of every punch.
MergedAtts(t) ==
    LET changed == {i \in DOMAIN t.atts : i \notin DOMAIN t.base \/ t.atts[i] # t.base[i]}
    IN Over([i \in changed |-> t.atts[i]], atts)

\* Mutant: ERROR is answered as OK.
AnswersOk(t) == TRUE

\* The body of the answer: "OK" or "ERROR".
Answer(t) == ~t.raised

Waits(s) == {d \in Devices : waiting[d] = s}

Answered(s) == waiting' = [d \in Devices |-> IF d \in Waits(s) THEN NoSession ELSE waiting[d]]

Commit(s) ==
    LET t == txn[s] IN
    /\ t.kind # "idle" /\ t.todo = <<>>
    /\ ~Stale(t)
    /\ Keeps(t)
    /\ rows' = MergedRows(t)
    /\ atts' = MergedAtts(t)
    /\ payload' = IF t.kind = "adms" THEN [payload EXCEPT ![t.dev] = t.batch] ELSE payload
    /\ acked' = [d \in Devices |-> IF d \in Waits(s) /\ Answer(t) 
                           THEN acked[d] + Len(t.batch) ELSE acked[d]]
    /\ Answered(s)
    /\ txn' = [Missing(t.dev, Updates(t)) EXCEPT ![s] = Idle]
    /\ UNCHANGED <<log, mapped, faults>>

\* A serialization failure or an exception: the request fails, or Odoo runs it
\* again, which is no different from the terminal's sending again.
RollBack(s) ==
    LET t == txn[s] IN
    /\ t.kind # "idle" /\ t.todo = <<>>
    /\ Stale(t) \/ ~Keeps(t)
    /\ txn' = [txn EXCEPT ![s] = Idle]
    /\ Answered(s)
    /\ UNCHANGED <<log, acked, tables, faults>>

\* The worker dies: the connection breaks, and the terminal sees it.
Crash(s) ==
    /\ txn[s].kind # "idle"
    /\ Fault
    /\ txn' = [txn EXCEPT ![s] = Idle]
    /\ Answered(s)
    /\ UNCHANGED <<log, acked, tables>>

--------------------------------------------------------------------------------
Terminal(d) ==
    \/ \E dir \in Direction[d] : Punch(d, dir)
    \/ \E s \in Sessions :
          \/ \E quiet \in BOOLEAN : SendAdms(d, s, quiet)
          \/ SendPush(d, s) \/ Pull(d, s)
    \/ SendUnmatched(d) \/ TimesOut(d) \/ MapEmployee(d) \/ Heartbeat(d)

Session(s) == Reprocess(s) \/ Handle(s) \/ Commit(s) \/ RollBack(s) \/ Crash(s)

Next == (\E d \in Devices : Terminal(d)) \/ (\E s \in Sessions : Session(s))

Spec == Init /\ [][Next]_vars

\* The ADMS terminals whose requests find a device row.
Adms == {d \in Devices \ Unmatched : Protocol[d] = "adms"}

\* A terminal sends again what is not acknowledged, and workers go on.  Some
\* worker is free again and again.
Fairness ==
    /\ \A d \in Adms : SF_vars(\E s \in Sessions : SendAdms(d, s, TRUE))
    /\ \A s \in Sessions : WF_vars(Handle(s) \/ RollBack(s) \/ Commit(s))

FairSpec == Spec /\ Fairness

--------------------------------------------------------------------------------
(* Properties *)

\* The ADMS terminals whose employee may be found without a mapping row.
Unguarded == {d \in Coded \ Known : Protocol[d] = "adms"}

\* A punch is stored once, although a terminal repeats its whole batch while the
\* first one is still being stored and no index keeps the hash unique: of two
\* requests with a punch in common the second to commit updates the device row or
\* the mapping row the first has updated, and fails.  It is so where a request
\* that commits updates one of them, as it does unless an ADMS batch raises for an
\* employee found by code: there "The same punch cannot be imported twice"
\* (iot_attendance_punch.py:36) is not true of the code.
StoredOnce == \A p \in DOMAIN rows : p.dev \notin Unguarded => rows[p].copies = 1

\* A terminal that pushes and has a device row is never told that punches are
\* stored when they are not: after an "OK", each of them is a row, committed before
\* the answer.
AckedIsStored ==
    \A d \in Devices \ Unmatched : Protocol[d] # "pull" =>
        \A i \in 1 .. acked[d] : log[d][i] \in DOMAIN rows

\* A processed punch is the check-in or the check-out of its attendance for good:
\* no concurrent request, repeated batch or reprocessing gives that end of the
\* attendance to another punch, where no punch can be stored twice (Unguarded = {}).
ProcessedIsRecorded ==
    \A p \in DOMAIN rows : LET r == rows[p] IN
        r.state = "processed" =>
            r.att \in DOMAIN atts /\ p.at \in {r.att, atts[r.att]}

Record == INSTANCE AttendanceRecord WITH stored <- {p.at : p \in DOMAIN rows}

\* The transactions implement AttendanceRecord: whichever commits, an attendance
\* lies between two stored punches, and two workers that have seen the same open one
\* do not both close it, nor does anything reopen or move an end, where no punch can
\* be stored twice (Unguarded = {}).
KeepsRecord == Record!Spec

\* Every punch of an ADMS terminal with a device row is stored in the end: one that
\* hr.attendance refuses is kept as a new row by the request that answers
\* "ERROR", and does not hold up those behind it.
EveryPunchStored ==
    <>[](\A d \in Adms : Range(log[d]) \subseteq DOMAIN rows)

================================================================================
