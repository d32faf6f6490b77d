---------------------------- MODULE DeviceRegistry -----------------------------
(***************************************************************************)
(* The rows Odoo keeps for one relay module and the company it is bound to *)
(* (models/iot_mqtt_message.py, models/iot_device.py,                      *)
(* wizard/iot_device_bind_wizard.py).  The module's serial is its id, the  *)
(* key of all its messages.                                                *)
(*                                                                         *)
(* Reports find or create the row, users register, bind and unbind, cron   *)
(* jobs remove duplicates and rows nobody wants.  All are transactions     *)
(* under REPEATABLE READ: they work on the rows as they were when they     *)
(* began, and fail if a row they write has been written since.  Odoo 19    *)
(* takes no notice of _sql_constraints (iot_device.py:87), so that the     *)
(* database does not keep serials unique.                                  *)
(***************************************************************************)
EXTENDS Naturals, FiniteSets

CONSTANTS Workers,     \* database sessions
          Companies,
          None,
          Retention,   \* device_retention_days, in Ticks
          MaxRows,     \* bound: rows ever created
          MaxRegister, \* bound: rows created by users
          MaxTime      \* bound: instants considered

ASSUME ConstantsAssumption ==
    /\ None \notin Companies
    /\ Retention \in Nat \ {0}
    /\ MaxRows \in Nat /\ MaxRegister \in Nat /\ MaxTime \in Nat \ {0}

VARIABLES
    rows,       \* iot.device rows with this serial
    txn,        \* the transaction each session has open
    keyLock,    \* who holds pg_advisory_xact_lock(hashtext('iot.device:<key>'))
    created,    \* rows ever created
    registered, \* rows created by users
    now

vars == <<rows, txn, keyLock, created, registered, now>>

Ids    == 1 .. MaxRows
Absent == [company |-> None, seen |-> 0, there |-> FALSE]

\* seen is last_seen, 0 if empty.
Rows   == [company : Companies \cup {None}, seen : Nat, there : BOOLEAN]
Ops    == {"report", "bind", "unbind", "dedupe", "purge"}
Txns   == [pc : {"closed", "open", "waited"}, op : Ops, company : Companies \cup {None},
           snap : [Ids -> Rows], stale : SUBSET Ids]

TypeOK ==
    /\ rows \in [Ids -> Rows] /\ \A i \in Ids : rows[i].seen <= now
    /\ txn \in [Workers -> Txns]
    /\ keyLock \in Workers \cup {None}
    /\ created \in 0 .. MaxRows
    /\ registered \in 0 .. MaxRegister
    /\ now \in 1 .. MaxTime

NoRows == [i \in Ids |-> Absent]
Closed == [pc |-> "closed", op |-> "report", company |-> None, snap |-> NoRows, stale |-> {}]

Init ==
    /\ rows = NoRows
    /\ txn = [w \in Workers |-> Closed]
    /\ keyLock = None
    /\ created = 0 /\ registered = 0 /\ now = 1

Present(rs) == {i \in Ids : rs[i].there}
Bound(rs)   == {i \in Present(rs) : rs[i].company # None}

\* ORDER BY last_seen DESC, id DESC LIMIT 1: PostgreSQL puts an empty last_seen first.
ComesFirst(rs, i, j) ==
    \/ rs[i].seen = 0 /\ rs[j].seen # 0
    \/ rs[i].seen > rs[j].seen /\ rs[j].seen # 0
    \/ rs[i].seen = rs[j].seen /\ i >= j

\* find_bind_candidate()
Candidate(rs) == CHOOSE i \in Present(rs) : \A j \in Present(rs) : ComesFirst(rs, i, j)

\* ORDER BY last_seen DESC NULLS LAST, write_date DESC: of the rows seen last, any may
\* have been written last.
SeenLast(rs) == {i \in Present(rs) : \A j \in Present(rs) : rs[j].seen <= rs[i].seen}

--------------------------------------------------------------------------------
(* What each transaction would make of the rows of its snapshot *)

\* _preload_devices() and _find_or_create_device_by_key() find a row; of several,
\* whichever the query returns first.
Seen(rs, i) == [rs EXCEPT ![i].seen = now]

\* bind_by_serial(), on the candidate of find_bind_candidate()
Bind(rs, company) == [rs EXCEPT ![Candidate(rs)].company = company]

\* Mutant: a device bound to another company is taken over.
MayBindAny(rs, company) == Present(rs) # {}

MayBind(rs, company) ==
    Present(rs) # {} /\ rs[Candidate(rs)].company \in {None, company}

\* _cron_dedupe_devices(): one row of the serial stays.
Deduped(rs, kept) == [i \in Ids |-> IF i \in Present(rs) \ {kept} THEN Absent ELSE rs[i]]

\* _cron_purge_stale_devices(): unbound rows not seen for Retention, but those
\* with an upgrade pending.
Stale(r) == r.company = None /\ (r.seen = 0 \/ r.seen + Retention <= now)

Purged(rs, upgrading) ==
    [i \in Ids |-> IF rs[i].there /\ Stale(rs[i]) /\ i \notin upgrading THEN Absent ELSE rs[i]]

Outcomes(t) ==
    CASE t.op = "report" -> {Seen(t.snap, i) : i \in Present(t.snap)}
      [] t.op = "bind"   -> IF MayBind(t.snap, t.company) THEN {Bind(t.snap, t.company)} ELSE {}
      [] t.op = "unbind" -> {[t.snap EXCEPT ![i].company = None] : i \in Bound(t.snap)}
      [] t.op = "dedupe" -> {Deduped(t.snap, kept) : kept \in SeenLast(t.snap)}
      [] t.op = "purge"  -> {Purged(t.snap, upgrading) : upgrading \in SUBSET Present(t.snap)}

--------------------------------------------------------------------------------
(* The transactions *)

Begin(w, op, company) ==
    /\ txn[w].pc = "closed"
    /\ op = "bind" <=> company # None
    /\ txn' = [txn EXCEPT ![w] = [pc |-> "open", op |-> op, company |-> company,
                                  snap |-> rows, stale |-> {}]]
    /\ UNCHANGED <<rows, keyLock, created, registered, now>>

\* What w wrote is overtaken for the others.
Written(w, changed) ==
    [v \in Workers |->
        IF v = w \/ txn[v].pc = "closed" THEN (IF v = w THEN Closed ELSE txn[v])
        ELSE [txn[v] EXCEPT !.stale = @ \cup changed]]

\* Mutant: a row written by another transaction is deleted or written all the same.
NoConflict(t, changed) == FALSE

Conflict(t, changed) == t.stale \cap changed # {}

Commit(w) ==
    /\ txn[w].pc = "open"
    /\ \E rs \in Outcomes(txn[w]) :
          LET changed == {i \in Ids : rs[i] # txn[w].snap[i]} IN
          /\ ~Conflict(txn[w], changed)
          /\ rows' = [i \in Ids |-> IF i \in changed THEN rs[i] ELSE rows[i]]
          /\ txn' = Written(w, changed)
    /\ UNCHANGED <<keyLock, created, registered, now>>

\* No row for the key: the lock is awaited, and the search repeated with the
\* snapshot the transaction has.
AwaitKey(w) ==
    /\ txn[w].pc = "open" /\ txn[w].op = "report"
    /\ Present(txn[w].snap) = {}
    /\ keyLock = None
    /\ keyLock' = w
    /\ txn' = [txn EXCEPT ![w].pc = "waited"]
    /\ UNCHANGED <<rows, created, registered, now>>

\* device_model.create()
Insert(w, row) ==
    /\ created < MaxRows
    /\ created' = created + 1
    /\ rows' = [rows EXCEPT ![created + 1] = row]

CommitCreated(w) ==
    /\ txn[w].pc = "waited"
    /\ Insert(w, [company |-> None, seen |-> now, there |-> TRUE])
    /\ keyLock' = None
    /\ txn' = Written(w, {created + 1})
    /\ UNCHANGED <<registered, now>>

\* A conflict, a refusal or any other failure; a retry is a new transaction.
Rollback(w) ==
    /\ txn[w].pc # "closed"
    /\ txn' = [txn EXCEPT ![w] = Closed]
    /\ keyLock' = IF keyLock = w THEN None ELSE keyLock
    /\ UNCHANGED <<rows, created, registered, now>>

\* A user creates the row by hand, bound to a company or not, before any report.
Register(w, company) ==
    /\ txn[w].pc = "closed"
    /\ registered < MaxRegister
    /\ registered' = registered + 1
    /\ Insert(w, [company |-> company, seen |-> 0, there |-> TRUE])
    /\ txn' = Written(w, {created + 1})
    /\ UNCHANGED <<keyLock, now>>

Tick ==
    /\ now < MaxTime
    /\ now' = now + 1
    /\ UNCHANGED <<rows, txn, keyLock, created, registered>>

Next ==
    \/ \E w \in Workers, company \in Companies \cup {None} :
          (\E op \in Ops : Begin(w, op, company)) \/ Register(w, company)
    \/ \E w \in Workers : Commit(w) \/ AwaitKey(w) \/ CommitCreated(w) \/ Rollback(w)
    \/ Tick

Spec == Init /\ [][Next]_vars

--------------------------------------------------------------------------------
(* Properties *)

\* iot_device.py:821, "Keep bound devices; purge only unbound stale rows": a row
\* that is bound while the purge runs is not purged.
PurgeKeepsBound ==
    [][\A w \in Workers :
          txn[w].op = "purge" /\ txn[w].pc = "open" /\ txn'[w].pc = "closed"
             => Bound(rows) \subseteq Bound(rows')]_vars

\* A device changes hands only by way of an unbinding: two companies that bind
\* the same row at once do not overwrite each other.
NoTakeover ==
    [][\A i \in Bound(rows) : rows'[i].there => rows'[i].company \in {rows[i].company, None}]_vars

================================================================================
