----------------------------- MODULE OpenwrtHealth -----------------------------
(***************************************************************************)
(* What Odoo knows of the reachability of the OpenWrt access points        *)
(* (models/iot_openwrt_ap.py) and how the middleware finds out             *)
(* (middleware/iot_bridge/src/main.rs).                                    *)
(*                                                                         *)
(* The middleware's heartbeat loop checks one access point after the other *)
(* over SSH, with no time limit, and posts each result to Odoo; a user's    *)
(* refresh makes it probe all of them at once, twice; a user's command     *)
(* makes Odoo call the middleware in the middle of a transaction of its    *)
(* own.  All of them write status, last_seen and heartbeat_fail_count.     *)
(***************************************************************************)
EXTENDS Naturals, FiniteSets

CONSTANTS Aps,        \* the access points
          Threshold,  \* openwrt_offline_failure_threshold
          Timeout,    \* openwrt_online_timeout_sec, in Ticks
          Interval,   \* openwrt_heartbeat_interval_sec, in Ticks
          Tries,      \* runs of a request that meets serialization failures
          NoAp,
          MaxFlips,   \* bound: times the access points come or go
          MaxFaults,  \* bound: posts and calls that fail or come late, checks that hang
          MaxClicks   \* bound: refreshes and commands asked for by users

ASSUME ConstantsAssumption ==
    /\ IsFiniteSet(Aps) /\ NoAp \notin Aps
    /\ Threshold \in Nat \ {0}
    /\ Timeout \in Nat /\ Interval \in Nat /\ Tries \in Nat \ {0}
    /\ MaxFlips \in Nat /\ MaxFaults \in Nat /\ MaxClicks \in Nat

VARIABLES
    reach,   \* does the access point answer over SSH?
    rec,     \* status, heartbeat_fail_count and the age of last_seen
    loop,    \* what the heartbeat loop has left of its round, the check it hangs in, its rest
    bulk,    \* calls to refresh_bulk left, and the probes one has yet to make
    task,    \* what each task of the middleware is about to post
    late,    \* posts that Odoo will execute though the middleware gave them up
    txn,     \* the user's command under way
    flips, faults, clicks

vars == <<reach, rec, loop, bulk, task, late, txn, flips, faults, clicks>>

\* The heartbeat loop is one task; each probe of a refresh is another.
Heart    == NoAp
TaskIds  == Aps \cup {Heart}
Ages     == 0 .. Timeout + 1
Records  == [status : {"unknown", "online", "offline", "error"}, fails : 0 .. Threshold, age : Ages]
Tasks    == [ap : Aps \cup {NoAp}, ok : BOOLEAN, attempt : 1 .. 2]
Commands == {"command", "upgrade"}
Txns     == [pc : {"closed", "calling", "probing", "done"}, ap : Aps \cup {NoAp},
             kind : Commands, row : Records, stale : BOOLEAN, run : 1 .. Tries]

TypeOK ==
    /\ reach \in [Aps -> BOOLEAN]
    /\ rec \in [Aps -> Records]
    /\ loop \in [todo : SUBSET Aps, hung : Aps \cup {NoAp}, rest : 0 .. Interval]
    /\ bulk \in [calls : 0 .. 2, todo : SUBSET Aps]
    /\ task \in [TaskIds -> Tasks]
    /\ late \subseteq [ap : Aps, ok : BOOLEAN, id : 0 .. MaxFaults]
    /\ txn \in Txns
    /\ flips \in 0 .. MaxFlips
    /\ faults \in 0 .. MaxFaults
    /\ clicks \in 0 .. MaxClicks

Blank  == [status |-> "unknown", fails |-> 0, age |-> Timeout + 1]
Idle   == [ap |-> NoAp, ok |-> FALSE, attempt |-> 1]
Closed == [pc |-> "closed", ap |-> NoAp, kind |-> "command", row |-> Blank,
           stale |-> FALSE, run |-> 1]

Init ==
    /\ reach \in [Aps -> BOOLEAN]
    /\ rec = [a \in Aps |-> Blank]
    /\ loop = [todo |-> {}, hung |-> NoAp, rest |-> 0]
    /\ bulk = [calls |-> 0, todo |-> {}]
    /\ task = [t \in TaskIds |-> Idle]
    /\ late = {}
    /\ txn = Closed
    /\ flips = 0 /\ faults = 0 /\ clicks = 0

Fault == faults < MaxFaults /\ faults' = faults + 1

Least(m, n) == IF m < n THEN m ELSE n

--------------------------------------------------------------------------------
(* The record *)

\* Mutant: the count is compared before it can get there.
MissedLenient(r) ==
    [r EXCEPT !.fails = Least(r.fails + 1, Threshold),
              !.status = IF r.fails > Threshold THEN "offline"
                         ELSE IF r.age <= Timeout THEN "online" ELSE "unknown"]

\* Mutant: one failure too few.
MissedEarly(r) ==
    [r EXCEPT !.fails = Least(r.fails + 1, Threshold),
              !.status = IF r.fails + 2 >= Threshold THEN "offline"
                         ELSE IF r.age <= Timeout THEN "online" ELSE "unknown"]

\* Mutant: the failures are not forgotten.
SeenStillFailing(r) == [r EXCEPT !.status = "online", !.age = 0]

\* Every writer that has heard from the access point writes this.
Seen(r) == [status |-> "online", fails |-> 0, age |-> 0]

\* heartbeat_fail_count is compared with Threshold only, and counted up to it.
\* An access point seen within Timeout is not called unknown.
Missed(r) ==
    LET fails == Least(r.fails + 1, Threshold) IN
    [r EXCEPT !.fails = fails,
              !.status = IF fails >= Threshold THEN "offline"
                         ELSE IF r.age <= Timeout THEN "online" ELSE "unknown"]

\* _compute_online()
Online(r) == r.status = "online" /\ r.age <= Timeout

\* Mutant: the lost update goes unnoticed, as under READ COMMITTED.
NotOvertaken(a) == txn

\* A transaction that works on an older snapshot of the row will fail.
Overtaken(a) == [txn EXCEPT !.stale = @ \/ txn.ap = a]

\* apply_heartbeat_result(): a short transaction, retried until it commits.
Apply(a, ok) ==
    /\ rec' = [rec EXCEPT ![a] = IF ok THEN Seen(@) ELSE Missed(@)]
    /\ txn' = Overtaken(a)

--------------------------------------------------------------------------------
(* The heartbeat loop *)

Resting == loop.todo = {} /\ loop.hung = NoAp /\ task[Heart] = Idle

\* The inventory is read; the round goes through all of it.
StartRound ==
    /\ Resting /\ loop.rest = 0
    /\ loop' = [todo |-> Aps, hung |-> NoAp, rest |-> Interval]
    /\ UNCHANGED <<reach, rec, bulk, task, late, txn, flips, faults, clicks>>

NoInventory ==
    /\ Resting /\ loop.rest = 0
    /\ Fault
    /\ loop' = [loop EXCEPT !.rest = Interval]
    /\ UNCHANGED <<reach, rec, bulk, task, late, txn, flips, clicks>>

\* perform_openwrt_probe(), or run_ssh_command() with "true", by a task t.
Probed(t, a) ==
    /\ task[t] = Idle
    /\ task' = [task EXCEPT ![t] = [ap |-> a, ok |-> reach[a], attempt |-> 1]]

Check(a) ==
    /\ a \in loop.todo /\ loop.hung = NoAp
    /\ Probed(Heart, a)
    /\ loop' = [loop EXCEPT !.todo = @ \ {a}]
    /\ UNCHANGED <<reach, rec, bulk, late, txn, flips, faults, clicks>>

\* run_ssh_command() waits for ssh as long as ssh runs: a check that gets no
\* answer after the connection is made holds the whole loop up.
Hang(a) ==
    /\ a \in loop.todo /\ loop.hung = NoAp /\ task[Heart] = Idle
    /\ Fault
    /\ loop' = [loop EXCEPT !.todo = @ \ {a}, !.hung = a]
    /\ UNCHANGED <<reach, rec, bulk, task, late, txn, flips, clicks>>

\* TCP, or the access point, ends the connection after all: the check failed.
HangEnds ==
    /\ loop.hung # NoAp
    /\ task' = [task EXCEPT ![Heart] = [ap |-> loop.hung, ok |-> FALSE, attempt |-> 1]]
    /\ loop' = [loop EXCEPT !.hung = NoAp]
    /\ UNCHANGED <<reach, rec, bulk, late, txn, flips, faults, clicks>>

--------------------------------------------------------------------------------
(* Posting a result: post_json() tries twice *)

NextAttempt(t) ==
    task' = [task EXCEPT ![t] = IF @.attempt = 1 THEN [@ EXCEPT !.attempt = 2] ELSE Idle]

Post(t) ==
    /\ task[t] # Idle
    /\ Apply(task[t].ap, task[t].ok)
    /\ task' = [task EXCEPT ![t] = Idle]
    /\ UNCHANGED <<reach, loop, bulk, late, flips, faults, clicks>>

\* No answer within 8 s: Odoo never saw the post, or will still execute it.
PostFails(t) ==
    /\ task[t] # Idle
    /\ Fault
    /\ late' \in {late, late \cup {[ap |-> task[t].ap, ok |-> task[t].ok, id |-> faults]}}
    /\ NextAttempt(t)
    /\ UNCHANGED <<reach, rec, loop, bulk, txn, flips, clicks>>

ApplyLate(p) ==
    /\ p \in late
    /\ Apply(p.ap, p.ok)
    /\ late' = late \ {p}
    /\ UNCHANGED <<reach, loop, bulk, task, flips, faults, clicks>>

--------------------------------------------------------------------------------
(* A refresh *)

Refreshing == bulk.todo # {} \/ \E a \in Aps : task[a] # Idle

\* refresh_live_stats() calls refresh_bulk itself, and once more through
\* _get_live_telemetry_map().
Refresh ==
    /\ clicks < MaxClicks
    /\ bulk.calls = 0 /\ ~Refreshing
    /\ clicks' = clicks + 1
    /\ bulk' = [bulk EXCEPT !.calls = 2]
    /\ UNCHANGED <<reach, rec, loop, task, late, txn, flips, faults>>

\* openwrt_refresh_bulk(): a task for each access point, joined at the end.
CallBulk ==
    /\ bulk.calls > 0 /\ ~Refreshing
    /\ bulk' = [calls |-> bulk.calls - 1, todo |-> Aps]
    /\ UNCHANGED <<reach, rec, loop, task, late, txn, flips, faults, clicks>>

ProbeInBulk(a) ==
    /\ a \in bulk.todo
    /\ Probed(a, a)
    /\ bulk' = [bulk EXCEPT !.todo = @ \ {a}]
    /\ UNCHANGED <<reach, rec, loop, late, txn, flips, faults, clicks>>

\* Odoo does not wait more than 60 s; the middleware drops the tasks.
RefreshTimesOut ==
    /\ bulk.calls > 0 \/ Refreshing
    /\ Fault
    /\ bulk' = [calls |-> 0, todo |-> {}]
    /\ task' = [t \in TaskIds |-> IF t = Heart THEN task[t] ELSE Idle]
    /\ UNCHANGED <<reach, rec, loop, late, txn, flips, clicks>>

--------------------------------------------------------------------------------
(* A command: action_probe(), action_apply_template(), action_reboot(), *)
(* action_start_locate(), action_stop_locate(), action_upgrade_firmware() *)

Calling(a, kind, run) ==
    [pc |-> "calling", ap |-> a, kind |-> kind, row |-> rec[a], stale |-> FALSE, run |-> run]

Click(a, kind) ==
    /\ txn.pc = "closed"
    /\ clicks < MaxClicks
    /\ clicks' = clicks + 1
    /\ txn' = Calling(a, kind, 1)
    /\ UNCHANGED <<reach, rec, loop, bulk, task, late, flips, faults>>

\* _call_middleware(): an access point that answers does as it is told.
Answered ==
    /\ txn.pc = "calling"
    /\ reach[txn.ap]
    /\ txn' = IF txn.kind = "upgrade"
              THEN [txn EXCEPT !.pc = "probing", !.row.status = "unknown"]
              ELSE [txn EXCEPT !.pc = "done", !.row = Seen(@)]
    /\ UNCHANGED <<reach, rec, loop, bulk, task, late, flips, faults, clicks>>

\* On an error the status "error" and the failed job are written, and the
\* exception is raised again: Odoo rolls the whole request back, both of them
\* and the job itself included.
CallFails ==
    /\ txn.pc = "calling"
    /\ \/ ~reach[txn.ap] /\ UNCHANGED faults
       \/ Fault
    /\ txn' = Closed
    /\ UNCHANGED <<reach, rec, loop, bulk, task, late, flips, clicks>>

\* _probe_after_upgrade(): here the exception of action_probe() is caught, and
\* its status is kept.
ProbeAfterUpgrade ==
    /\ txn.pc = "probing"
    /\ \/ reach[txn.ap] /\ txn' = [txn EXCEPT !.pc = "done", !.row = Seen(@)] /\ UNCHANGED faults
       \/ /\ txn' = [txn EXCEPT !.pc = "done", !.row.status = "error"]
          /\ \/ ~reach[txn.ap] /\ UNCHANGED faults
             \/ Fault
    /\ UNCHANGED <<reach, rec, loop, bulk, task, late, flips, clicks>>

\* The row is flushed when the request ends.
Commit ==
    /\ txn.pc = "done" /\ ~txn.stale
    /\ rec' = [rec EXCEPT ![txn.ap] = txn.row]
    /\ txn' = Closed
    /\ UNCHANGED <<reach, loop, bulk, task, late, flips, faults, clicks>>

\* A heartbeat has written the row since: Odoo runs the request again, command
\* included, until it gives up.
CommitFails ==
    /\ txn.pc = "done" /\ txn.stale
    /\ txn' = IF txn.run < Tries THEN Calling(txn.ap, txn.kind, txn.run + 1) ELSE Closed
    /\ UNCHANGED <<reach, rec, loop, bulk, task, late, flips, faults, clicks>>

--------------------------------------------------------------------------------
(* The access points and the clock *)

Flip(a) ==
    /\ flips < MaxFlips
    /\ flips' = flips + 1
    /\ reach' = [reach EXCEPT ![a] = ~@]
    /\ UNCHANGED <<rec, loop, bulk, task, late, txn, faults, clicks>>

Older(r) == [r EXCEPT !.age = Least(@ + 1, Timeout + 1)]

\* Checks take time; the loop rests when its round is over.
Tick ==
    /\ rec' = [a \in Aps |-> Older(rec[a])]
    /\ txn' = [txn EXCEPT !.row = Older(@)]
    /\ loop' = IF Resting /\ loop.rest > 0 THEN [loop EXCEPT !.rest = @ - 1] ELSE loop
    /\ UNCHANGED <<reach, bulk, task, late, flips, faults, clicks>>

--------------------------------------------------------------------------------
Next ==
    \/ StartRound \/ NoInventory
    \/ \E a \in Aps : Check(a) \/ Hang(a) \/ ProbeInBulk(a) \/ Flip(a)
    \/ HangEnds
    \/ \E t \in TaskIds : Post(t) \/ PostFails(t)
    \/ \E p \in late : ApplyLate(p)
    \/ Refresh \/ CallBulk \/ RefreshTimesOut
    \/ \E a \in Aps, kind \in Commands : Click(a, kind)
    \/ Answered \/ CallFails \/ ProbeAfterUpgrade \/ Commit \/ CommitFails
    \/ Tick

Spec == Init /\ [][Next]_vars

\* The heartbeat loop goes on while no check hangs, and the clock goes on.
\* Nothing is assumed of HangEnds, of refreshes, commands and late posts: they
\* may be in time, late or never be heard of again.
Fairness ==
    /\ WF_vars(StartRound) /\ WF_vars(\E a \in Aps : Check(a)) /\ WF_vars(Post(Heart))
    /\ WF_vars(Tick)

FairSpec == Spec /\ Fairness

--------------------------------------------------------------------------------
(* Properties *)

\* What the code does nothing for and the next two properties have to suppose:
\* no check of any access point hangs for ever.  One that does stops the loop
\* for all of them.
ChecksEnd == []<>(loop.hung = NoAp)

\* An access point that stays away is called offline in the end and stays so,
\* whatever late posts, refreshes and half-done upgrades still write, unless a
\* check hangs for ever.
AbsentEndsOffline ==
    ChecksEnd => \A a \in Aps : <>[](~reach[a]) => <>[](rec[a].status = "offline")

\* One that answers for good is called online in the end, unless a check hangs
\* for ever: nothing that was posted or decided while it was away has the last
\* word.
PresentEndsOnline ==
    ChecksEnd =>
        \A a \in Aps : <>[](reach[a]) => <>[](rec[a].status = "online" /\ rec[a].fails = 0)

\* "offline" is never the verdict of less than Threshold recorded failures, and
\* never survives a success: status and count agree whichever task, late post,
\* refresh or command wrote last.
OfflineIsCounted ==
    \A a \in Aps : rec[a].status = "offline" => rec[a].fails = Threshold

\* last_seen never goes back: what a command decided on before its SSH call never
\* replaces what a heartbeat has recorded during it.
LastSeenAdvances == [][\A a \in Aps : rec'[a].age <= rec[a].age + 1]_vars

================================================================================
