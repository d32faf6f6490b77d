------------------------------ MODULE UptimeMeter ------------------------------
(***************************************************************************)
(* The accumulated ON time of one switch: iot.device.relay_state, on_since *)
(* and total_on_minutes (models/iot_device.py).                            *)
(*                                                                         *)
(* State reports, optimistic writes after a command, the cron job that     *)
(* accumulates running time and the reset wizard read and write the same   *)
(* three columns in transactions of their own.  Under REPEATABLE READ a    *)
(* transaction works on the row as it was when it began, and its write     *)
(* fails if another write of the row was committed since.                  *)
(***************************************************************************)
EXTENDS Integers

CONSTANTS Workers,  \* database sessions
          Unit,     \* instants of the clock in a minute
          NoTime,   \* an empty datetime column
          MaxTime,  \* bound: instants considered
          MaxCuts   \* bound: times the relay is switched off between two resets

ASSUME MeterAssumption ==
    /\ Unit \in Nat \ {0}
    /\ NoTime \notin Int
    /\ MaxTime \in Nat /\ MaxCuts \in Nat

VARIABLES
    rec,     \* the committed row
    txn,     \* the transaction each session has open
    now,     \* fields.Datetime.now()
    mark,    \* history: the time the last committed transaction worked with
    onTime,  \* history: instants on, up to mark, since the last reset
    cuts     \* history: times it was switched off since the last reset

meterVars == <<rec, txn, now, mark, onTime, cuts>>

States == {"unknown", "off", "on"}
Rows   == [relay : States, since : Nat \cup {NoTime}, total : Nat]

\* The operations: reports of a state, the cron job, the reset.
Ops    == States \cup {"accrue", "reset"}
Txns   == [pc : {"closed", "open", "written"}, op : Ops, row : Rows, at : Nat,
           stale : BOOLEAN]
Blank  == [relay |-> "unknown", since |-> NoTime, total |-> 0]
Closed == [pc |-> "closed", op |-> "accrue", row |-> Blank, at |-> 0, stale |-> FALSE]

MeterTypeOK ==
    /\ rec \in Rows
    /\ txn \in [Workers -> Txns]
    /\ now \in Nat
    /\ mark \in Nat
    /\ onTime \in Nat
    /\ cuts \in Nat

MeterInit ==
    /\ rec = Blank
    /\ txn = [w \in Workers |-> Closed]
    /\ now = 0 /\ mark = 0 /\ onTime = 0 /\ cuts = 0

--------------------------------------------------------------------------------
(* What the operations write *)

\* Mutant: the seconds beyond the last full minute are dropped.
SinceNow(r, at) == at

\* on_since + timedelta(minutes=delta_min)
SinceMoved(r, at) == r.since + ((at - r.since) \div Unit) * Unit

\* _accumulate_on_minutes_until()
Accumulated(r, at) ==
    IF r.relay = "on" /\ r.since # NoTime /\ at > r.since
    THEN [r EXCEPT !.total = @ + (at - r.since) \div Unit, !.since = SinceMoved(r, at)]
    ELSE r

\* apply_state_report(), and the "off" branch of action_delay_toggle().
Reported(r, state, at) ==
    IF r.relay = "on" /\ state # "on"
    THEN [Accumulated(r, at) EXCEPT !.relay = state, !.since = NoTime]
    ELSE IF r.relay # "on" /\ state = "on"
    THEN [r EXCEPT !.relay = state, !.since = at]
    ELSE [r EXCEPT !.relay = state]

\* Mutant: on_since is filled in whatever the relay state.
ZeroedRunning(r, at) == [r EXCEPT !.total = 0, !.since = at]

\* action_reset_uptime_with_reason()
Zeroed(r, at) ==
    [r EXCEPT !.total = 0, !.since = IF r.relay = "on" THEN at ELSE NoTime]

Effect(op, r, at) ==
    CASE op \in States  -> Reported(r, op, at)
      [] op = "accrue"  -> Accumulated(r, at)
      [] op = "reset"   -> Zeroed(r, at)

--------------------------------------------------------------------------------
(* The transactions *)

RowFree == \A w \in Workers : txn[w].pc # "written"

\* A committed write of the row fails every transaction that has yet to write it.
Overtaken(t) == IF t.pc = "open" THEN [t EXCEPT !.stale = TRUE] ELSE t

Begin(w, op) ==
    /\ txn[w].pc = "closed"
    /\ txn' = [txn EXCEPT ![w] = [pc |-> "open", op |-> op, row |-> rec,
                                  at |-> now, stale |-> FALSE]]
    /\ UNCHANGED <<rec, now, mark, onTime, cuts>>

\* The time is taken after the snapshot and before the write, which locks the row.
Write(w) ==
    /\ txn[w].pc = "open" /\ ~txn[w].stale
    /\ RowFree
    /\ \E at \in txn[w].at .. now :
          txn' = [txn EXCEPT ![w].pc = "written", ![w].at = at,
                             ![w].row = Effect(txn[w].op, txn[w].row, at)]
    /\ UNCHANGED <<rec, now, mark, onTime, cuts>>

\* A serialization failure, or any other error: a request runs again from its
\* beginning, a report or an optimistic write is given up, the cron job retries
\* with the same snapshot, in vain, and leaves the rest to its next run.
Abort(w) ==
    /\ txn[w].pc # "closed"
    /\ txn' = [txn EXCEPT ![w] = Closed]
    /\ UNCHANGED <<rec, now, mark, onTime, cuts>>

Commit(w) ==
    /\ txn[w].pc = "written"
    /\ LET t == txn[w] IN
          /\ rec' = t.row
          /\ mark' = t.at
          /\ IF t.op = "reset"
             THEN onTime' = 0 /\ cuts' = 0
             ELSE /\ onTime' = IF rec.relay = "on" THEN onTime + (t.at - mark) ELSE onTime
                  /\ cuts' = IF rec.relay = "on" /\ t.row.relay # "on" THEN cuts + 1 ELSE cuts
    /\ cuts' <= MaxCuts
    /\ txn' = [v \in Workers |-> IF v = w THEN Closed ELSE Overtaken(txn[v])]
    /\ UNCHANGED now

MeterTick ==
    /\ now < MaxTime
    /\ now' = now + 1
    /\ UNCHANGED <<rec, txn, mark, onTime, cuts>>

MeterNext ==
    \/ \E w \in Workers :
          (\E op \in Ops : Begin(w, op)) \/ Write(w) \/ Abort(w) \/ Commit(w)
    \/ MeterTick

MeterSpec == MeterInit /\ [][MeterNext]_meterVars

--------------------------------------------------------------------------------
(* Properties *)

\* on_since is filled in exactly while the relay is on: the branches of every
\* writer keep the two columns together, whatever the row said before.
OnSinceWhileOn == rec.since # NoTime <=> rec.relay = "on"

\* Time counted up to mark, in instants: full minutes and the running rest.
Counted == rec.total * Unit + (IF rec.relay = "on" THEN mark - rec.since ELSE 0)

\* No instant is counted twice, by however many sessions, and none is lost but
\* the rest of a minute each time the relay is switched off
\* (_accumulate_on_minutes_until(), iot_device.py:182-189).
UptimeAccounted ==
    /\ Counted <= onTime
    /\ onTime <= Counted + cuts * (Unit - 1)

================================================================================
