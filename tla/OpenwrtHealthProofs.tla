-------------------------- MODULE OpenwrtHealthProofs ---------------------------
(***************************************************************************)
(* Status, failure count and last_seen of an access point agree whichever  *)
(* task, late post, refresh or command writes them, for every number of    *)
(* access points, threshold, timeout, interval and number of retries.      *)
(*                                                                         *)
(* The argument: what a command is about to write is itself a record whose *)
(* status and count agree, and unless it has been overtaken it was seen no *)
(* longer ago than the record it will replace (SnapshotNotOlder); a        *)
(* command that was overtaken does not commit.                             *)
(***************************************************************************)
EXTENDS OpenwrtHealth, TLAPS

\* Status and count of a record agree.
Counted(r) == r.status = "offline" => r.fails = Threshold

CountedRecords == {r \in Records : Counted(r)}

\* Tasks and commands under way concern an access point.
Addressed ==
    /\ \A t \in TaskIds : task[t] # Idle => task[t].ap \in Aps
    /\ txn.pc # "closed" => txn.ap \in Aps

SnapshotNotOlder ==
    txn.pc # "closed" /\ ~txn.stale => txn.row.age <= rec[txn.ap].age

IInv ==
    /\ TypeOK
    /\ rec \in [Aps -> CountedRecords]
    /\ txn.row \in CountedRecords
    /\ Addressed
    /\ SnapshotNotOlder

--------------------------------------------------------------------------------
(* What the operators return *)

LEMMA Numbers == Threshold \in Nat /\ Threshold > 0 /\ Timeout \in Nat /\ Interval \in Nat
BY ConstantsAssumption

LEMMA LeastType ==
    ASSUME NEW m \in Nat, NEW n \in Nat
    PROVE  /\ Least(m, n) \in 0 .. n /\ Least(m, n) <= m
           /\ Least(m, n) >= n => Least(m, n) = n
BY DEF Least

LEMMA BlankCounted == Blank \in CountedRecords
BY Numbers DEF Blank, CountedRecords, Counted, Records, Ages

LEMMA SeenCounted ==
    ASSUME NEW r
    PROVE  Seen(r) \in CountedRecords /\ Seen(r).age = 0
BY Numbers DEF Seen, CountedRecords, Counted, Records, Ages

LEMMA MissedCounted ==
    ASSUME NEW r \in CountedRecords
    PROVE  Missed(r) \in CountedRecords /\ Missed(r).age = r.age
<1> DEFINE fails  == Least(r.fails + 1, Threshold)
           status == IF fails >= Threshold THEN "offline"
                     ELSE IF r.age <= Timeout THEN "online" ELSE "unknown"
<1>1. r \in Records
  BY DEF CountedRecords
<1>2. fails \in 0 .. Threshold /\ (fails >= Threshold => fails = Threshold)
  <2>1. r.fails + 1 \in Nat
    BY <1>1, Numbers DEF Records
  <2> QED
    BY <2>1, Numbers, LeastType
<1>3. status \in {"unknown", "online", "offline"} /\ (status = "offline" => fails >= Threshold)
  OBVIOUS
<1>4. Missed(r) = [r EXCEPT !.fails = fails, !.status = status]
  BY DEF Missed
<1> HIDE DEF fails, status
<1> QED
  BY <1>1, <1>2, <1>3, <1>4 DEF CountedRecords, Counted, Records

LEMMA OlderCounted ==
    ASSUME NEW r \in CountedRecords
    PROVE  /\ Older(r) \in CountedRecords
           /\ Older(r).age = Least(r.age + 1, Timeout + 1)
           /\ Older(r).age <= r.age + 1
<1>1. r \in Records /\ r.age \in Nat
  BY Numbers DEF CountedRecords, Records, Ages
<1>2. Least(r.age + 1, Timeout + 1) \in Ages /\ Least(r.age + 1, Timeout + 1) <= r.age + 1
  BY <1>1, Numbers, LeastType DEF Ages
<1>3. Older(r) = [r EXCEPT !.age = Least(r.age + 1, Timeout + 1)]
  BY DEF Older
<1> QED
  BY <1>1, <1>2, <1>3 DEF CountedRecords, Counted, Records

\* Growing older keeps the order of ages.
LEMMA OlderMonotone ==
    ASSUME NEW q \in CountedRecords, NEW r \in CountedRecords, q.age <= r.age
    PROVE  Older(q).age <= Older(r).age
<1>1. q.age \in Nat /\ r.age \in Nat
  BY Numbers DEF CountedRecords, Records, Ages
<1>2. Least(q.age + 1, Timeout + 1) <= Least(r.age + 1, Timeout + 1)
  BY <1>1, Numbers DEF Least
<1> QED
  BY <1>2, OlderCounted

LEMMA CountersType ==
    ASSUME TypeOK
    PROVE  /\ Fault => faults' \in 0 .. MaxFaults
           /\ clicks < MaxClicks => clicks + 1 \in 0 .. MaxClicks
           /\ flips < MaxFlips => flips + 1 \in 0 .. MaxFlips
BY ConstantsAssumption DEF TypeOK, Fault

LEMMA IdleType == Idle \in Tasks /\ Closed \in Txns /\ Closed.pc = "closed"
                    /\ Closed.row \in CountedRecords
<1>1. Blank \in CountedRecords /\ Blank \in Records
  BY BlankCounted DEF CountedRecords
<1> QED
  BY <1>1, ConstantsAssumption DEF Idle, Tasks, Closed, Txns, Commands

--------------------------------------------------------------------------------
(* The steps *)

LEMMA InitHolds == Init => IInv
<1> SUFFICES ASSUME Init PROVE IInv
  OBVIOUS
<1>1. rec \in [Aps -> CountedRecords] /\ rec \in [Aps -> Records]
  BY BlankCounted DEF Init, CountedRecords
<1>2. txn = Closed /\ task = [t \in TaskIds |-> Idle]
  BY DEF Init
<1>3. /\ loop \in [todo : SUBSET Aps, hung : Aps \cup {NoAp}, rest : 0 .. Interval]
      /\ bulk \in [calls : 0 .. 2, todo : SUBSET Aps]
      /\ flips \in 0 .. MaxFlips /\ faults \in 0 .. MaxFaults /\ clicks \in 0 .. MaxClicks
      /\ late = {} /\ reach \in [Aps -> BOOLEAN]
  BY ConstantsAssumption DEF Init
<1>4. TypeOK
  BY <1>1, <1>2, <1>3, IdleType DEF TypeOK
<1>5. Addressed /\ SnapshotNotOlder
  BY <1>2, IdleType DEF Addressed, SnapshotNotOlder
<1> QED
  BY <1>1, <1>2, <1>4, <1>5, IdleType DEF IInv

\* A result of a check is written: the record stays a record, and a command on
\* the same access point is overtaken.
LEMMA ApplyStep ==
    ASSUME IInv, NEW a \in Aps, NEW ok \in BOOLEAN, Apply(a, ok)
    PROVE  /\ rec' \in [Aps -> CountedRecords] /\ rec' \in [Aps -> Records]
           /\ txn' \in Txns /\ txn'.row \in CountedRecords
           /\ txn'.pc # "closed" => txn'.ap \in Aps
           /\ SnapshotNotOlder'
           /\ \A b \in Aps : rec'[b].age <= rec[b].age + 1
<1> DEFINE r == IF ok THEN Seen(rec[a]) ELSE Missed(rec[a])
<1>1. rec \in [Aps -> CountedRecords] /\ txn \in Txns /\ txn.row \in CountedRecords
  BY DEF IInv, TypeOK
<1>2. r \in CountedRecords /\ r.age <= rec[a].age + 1
  <2>1. rec[a] \in CountedRecords /\ rec[a].age \in Nat
    BY <1>1, Numbers DEF CountedRecords, Records, Ages
  <2>2. CASE ok
    BY <2>1, <2>2, SeenCounted
  <2>3. CASE ~ok
    BY <2>1, <2>3, MissedCounted
  <2> QED
    BY <2>2, <2>3
<1>3. rec' = [rec EXCEPT ![a] = r]
  BY DEF Apply
<1>4. rec' \in [Aps -> CountedRecords] /\ \A b \in Aps : b # a => rec'[b] = rec[b]
  BY <1>1, <1>2, <1>3
<1>5. /\ txn' \in Txns /\ txn'.pc = txn.pc /\ txn'.ap = txn.ap /\ txn'.row = txn.row
      /\ ~txn'.stale => ~txn.stale /\ txn.ap # a
  <2> DEFINE overtaken == txn.stale \/ txn.ap = a
  <2>1. txn' = [txn EXCEPT !.stale = overtaken]
    BY DEF Apply, Overtaken
  <2>2. overtaken \in BOOLEAN
    BY <1>1 DEF Txns
  <2>3. ~overtaken => ~txn.stale /\ txn.ap # a
    OBVIOUS
  <2> HIDE DEF overtaken
  <2> QED
    BY <1>1, <2>1, <2>2, <2>3 DEF Txns
<1>6. \A b \in Aps : rec'[b].age <= rec[b].age + 1
  <2>1. \A b \in Aps : rec[b].age \in Nat
    BY <1>1, Numbers DEF CountedRecords, Records, Ages
  <2>2. rec'[a] = r
    BY <1>1, <1>3
  <2> QED
    BY <1>2, <1>4, <2>1, <2>2
<1>7. SnapshotNotOlder'
  BY <1>4, <1>5 DEF SnapshotNotOlder, IInv, Addressed
<1> QED
  BY <1>1, <1>4, <1>5, <1>6, <1>7 DEF IInv, Addressed, CountedRecords

\* A step that changes neither records nor the command.
LEMMA QuietStep ==
    ASSUME IInv, UNCHANGED <<rec, txn>>, TypeOK',
           \A t \in TaskIds : task'[t] # Idle => task'[t].ap \in Aps
    PROVE  IInv'
BY DEF IInv, Addressed, SnapshotNotOlder

\* The loop, its probes, failing posts, refreshes, and access points that come
\* and go.
LEMMA QuietActions ==
    ASSUME IInv,
           \/ StartRound \/ NoInventory \/ HangEnds \/ Refresh \/ CallBulk \/ RefreshTimesOut
           \/ \E a \in Aps : Check(a) \/ Hang(a) \/ ProbeInBulk(a) \/ Flip(a)
           \/ \E t \in TaskIds : PostFails(t)
    PROVE  IInv'
<1>0. /\ TypeOK /\ Addressed
      /\ task \in [TaskIds -> Tasks] /\ reach \in [Aps -> BOOLEAN]
      /\ loop \in [todo : SUBSET Aps, hung : Aps \cup {NoAp}, rest : 0 .. Interval]
      /\ bulk \in [calls : 0 .. 2, todo : SUBSET Aps]
  BY DEF IInv, TypeOK
<1>1. CASE StartRound
  BY <1>0, <1>1, QuietStep, Numbers DEF StartRound, TypeOK, Addressed
<1>2. CASE NoInventory
  BY <1>0, <1>2, QuietStep, Numbers, CountersType DEF NoInventory, TypeOK, Addressed
<1>3. CASE Refresh
  BY <1>0, <1>3, QuietStep, CountersType DEF Refresh, TypeOK, Addressed
<1>4. CASE CallBulk
  BY <1>0, <1>4, QuietStep DEF CallBulk, TypeOK, Addressed
<1>5. CASE RefreshTimesOut
  <2>1. /\ task' \in [TaskIds -> Tasks]
        /\ \A t \in TaskIds : task'[t] # Idle => task'[t].ap \in Aps
    BY <1>0, <1>5, IdleType DEF RefreshTimesOut, Addressed
  <2> QED
    BY <1>0, <1>5, <2>1, QuietStep, CountersType DEF RefreshTimesOut, TypeOK
<1>6. ASSUME NEW t \in TaskIds, NEW a \in Aps, Probed(t, a)
      PROVE  /\ task' \in [TaskIds -> Tasks]
             /\ \A u \in TaskIds : task'[u] # Idle => task'[u].ap \in Aps
  <2>1. [ap |-> a, ok |-> reach[a], attempt |-> 1] \in Tasks
    BY <1>0 DEF Tasks
  <2> QED
    BY <1>0, <1>6, <2>1 DEF Probed, Addressed
<1>7. ASSUME NEW a \in Aps, Check(a) PROVE IInv'
  BY <1>0, <1>6, <1>7, QuietStep DEF Check, TypeOK, TaskIds
<1>8. ASSUME NEW a \in Aps, ProbeInBulk(a) PROVE IInv'
  BY <1>0, <1>6, <1>8, QuietStep DEF ProbeInBulk, TypeOK, TaskIds
<1>9. ASSUME NEW a \in Aps, Flip(a) PROVE IInv'
  <2>1. reach' \in [Aps -> BOOLEAN]
    BY <1>0, <1>9 DEF Flip
  <2> QED
    BY <1>0, <1>9, <2>1, QuietStep, CountersType DEF Flip, TypeOK, Addressed
<1>10. ASSUME NEW t \in TaskIds, PostFails(t) PROVE IInv'
  <2>1. task[t] \in Tasks /\ task[t].ap \in Aps
    BY <1>0, <1>10 DEF PostFails, Addressed
  <2>2. /\ task' \in [TaskIds -> Tasks]
        /\ \A u \in TaskIds : task'[u] # Idle => task'[u].ap \in Aps
    <3>1. task' = [task EXCEPT ![t] = IF task[t].attempt = 1 THEN [task[t] EXCEPT !.attempt = 2] ELSE Idle]
      BY <1>10 DEF PostFails, NextAttempt
    <3>2. [task[t] EXCEPT !.attempt = 2] \in Tasks /\ [task[t] EXCEPT !.attempt = 2].ap \in Aps
      BY <2>1 DEF Tasks
    <3> QED
      BY <1>0, <3>1, <3>2, IdleType DEF Addressed
  <2>3. late' \subseteq [ap : Aps, ok : BOOLEAN, id : 0 .. MaxFaults]
    BY <1>0, <1>10, <2>1 DEF PostFails, TypeOK, Tasks
  <2>4. faults' \in 0 .. MaxFaults
    BY <1>0, <1>10, CountersType DEF PostFails
  <2> QED
    BY <1>0, <1>10, <2>2, <2>3, <2>4, QuietStep DEF PostFails, TypeOK
<1>11. ASSUME NEW a \in Aps, Hang(a) PROVE IInv'
  BY <1>0, <1>11, QuietStep, CountersType DEF Hang, TypeOK, Addressed
<1>12. CASE HangEnds
  <2>1. loop.hung \in Aps /\ Heart \in TaskIds
    BY <1>0, <1>12 DEF HangEnds, TaskIds
  <2>2. [ap |-> loop.hung, ok |-> FALSE, attempt |-> 1] \in Tasks
    BY <2>1 DEF Tasks
  <2>3. /\ task' \in [TaskIds -> Tasks]
        /\ \A t \in TaskIds : task'[t] # Idle => task'[t].ap \in Aps
    BY <1>0, <1>12, <2>1, <2>2 DEF HangEnds, Addressed
  <2> QED
    BY <1>0, <1>12, <2>3, QuietStep DEF HangEnds, TypeOK
<1> QED
  BY <1>1, <1>2, <1>3, <1>4, <1>5, <1>7, <1>8, <1>9, <1>10, <1>11, <1>12

\* A post is executed, in time or late.
LEMMA PostStep ==
    ASSUME IInv, (\E t \in TaskIds : Post(t)) \/ (\E p \in late : ApplyLate(p))
    PROVE  IInv' /\ \A b \in Aps : rec'[b].age <= rec[b].age + 1
<1>0. /\ TypeOK /\ Addressed /\ task \in [TaskIds -> Tasks]
      /\ late \subseteq [ap : Aps, ok : BOOLEAN, id : 0 .. MaxFaults]
  BY DEF IInv, TypeOK
<1>1. /\ \E a \in Aps, ok \in BOOLEAN : Apply(a, ok)
      /\ UNCHANGED <<reach, loop, bulk, flips, faults, clicks>>
      /\ late' \subseteq late
      /\ task' \in [TaskIds -> Tasks]
      /\ \A u \in TaskIds : task'[u] # Idle => task'[u].ap \in Aps
  <2>1. ASSUME NEW t \in TaskIds, Post(t) PROVE <1>1!1 /\ <1>1!2 /\ <1>1!3 /\ <1>1!4 /\ <1>1!5
    <3>1. task[t].ap \in Aps /\ task[t].ok \in BOOLEAN
      BY <1>0, <2>1 DEF Post, Addressed, Tasks
    <3> QED
      BY <1>0, <2>1, <3>1, IdleType DEF Post, Addressed
  <2>2. ASSUME NEW p \in late, ApplyLate(p) PROVE <1>1!1 /\ <1>1!2 /\ <1>1!3 /\ <1>1!4 /\ <1>1!5
    <3>1. p.ap \in Aps /\ p.ok \in BOOLEAN
      BY <1>0
    <3> QED
      BY <1>0, <2>2, <3>1 DEF ApplyLate, Addressed
  <2> QED
    BY <2>1, <2>2
<1>2. /\ rec' \in [Aps -> CountedRecords] /\ rec' \in [Aps -> Records]
      /\ txn' \in Txns /\ txn'.row \in CountedRecords
      /\ txn'.pc # "closed" => txn'.ap \in Aps
      /\ SnapshotNotOlder'
      /\ \A b \in Aps : rec'[b].age <= rec[b].age + 1
  BY <1>1, ApplyStep
<1>3. TypeOK'
  BY <1>0, <1>1, <1>2 DEF TypeOK
<1> QED
  BY <1>1, <1>2, <1>3 DEF IInv, Addressed

\* A step of the command that leaves the records alone.
LEMMA CommandStep ==
    ASSUME IInv, UNCHANGED <<reach, rec, loop, bulk, task, late, flips>>,
           faults' \in 0 .. MaxFaults, clicks' \in 0 .. MaxClicks,
           txn' \in Txns, txn'.row \in CountedRecords,
           txn'.pc # "closed" => txn'.ap \in Aps,
           txn'.pc # "closed" /\ ~txn'.stale => txn'.row.age <= rec[txn'.ap].age
    PROVE  IInv'
BY DEF IInv, TypeOK, Addressed, SnapshotNotOlder

\* A command begins with the record as it is.
LEMMA CallingType ==
    ASSUME IInv, NEW a \in Aps, NEW kind \in Commands, NEW run \in 1 .. Tries
    PROVE  LET t == Calling(a, kind, run) IN
           /\ t \in Txns /\ t.row \in CountedRecords /\ t.ap \in Aps
           /\ t.row.age <= rec[t.ap].age
<1>1. rec[a] \in CountedRecords /\ rec[a] \in Records /\ rec[a].age \in Nat
  BY Numbers DEF IInv, CountedRecords, Records, Ages
<1> QED
  BY <1>1 DEF Calling, Txns

LEMMA CommandActions ==
    ASSUME IInv,
           \/ \E a \in Aps, kind \in Commands : Click(a, kind)
           \/ Answered \/ CallFails \/ ProbeAfterUpgrade \/ CommitFails
    PROVE  IInv'
<1>0. /\ TypeOK /\ txn \in Txns /\ txn.row \in CountedRecords /\ txn.row \in Records
      /\ faults \in 0 .. MaxFaults /\ clicks \in 0 .. MaxClicks
      /\ Fault => faults' \in 0 .. MaxFaults
      /\ txn.pc # "closed" => txn.ap \in Aps /\ rec[txn.ap].age \in Nat
      /\ txn.pc # "closed" /\ ~txn.stale => txn.row.age <= rec[txn.ap].age
  <2>1. rec \in [Aps -> CountedRecords] /\ \A a \in Aps : rec[a].age \in Nat
    BY Numbers DEF IInv, CountedRecords, Records, Ages
  <2> QED
    BY <2>1, CountersType DEF IInv, TypeOK, Addressed, SnapshotNotOlder, CountedRecords
<1>1. ASSUME NEW a \in Aps, NEW kind \in Commands, Click(a, kind) PROVE IInv'
  <2>1. clicks' \in 0 .. MaxClicks
    BY <1>0, <1>1, CountersType DEF Click
  <2>2. txn' = Calling(a, kind, 1) /\ 1 \in 1 .. Tries
    BY <1>1, ConstantsAssumption DEF Click
  <2> QED
    BY <1>0, <1>1, <2>1, <2>2, CallingType, CommandStep DEF Click
\* What the access point's answer, or its absence after an upgrade, makes of the
\* row a command will write.
<1>2. ASSUME txn.pc # "closed", NEW row \in CountedRecords, row.age <= txn.row.age,
             NEW pc \in {"probing", "done"},
             txn' = [txn EXCEPT !.pc = pc, !.row = row],
             UNCHANGED <<reach, rec, loop, bulk, task, late, flips, clicks>>,
             faults' \in 0 .. MaxFaults
      PROVE  IInv'
  <2>1. txn' \in Txns /\ txn'.row = row /\ txn'.ap = txn.ap /\ txn'.stale = txn.stale
    BY <1>0, <1>2 DEF Txns, CountedRecords
  <2>2. row.age \in Nat /\ txn.row.age \in Nat
    BY <1>0, <1>2, Numbers DEF CountedRecords, Records, Ages
  <2>3. txn'.pc # "closed" /\ ~txn'.stale => txn'.row.age <= rec[txn'.ap].age
    BY <1>0, <1>2, <2>1, <2>2
  <2> QED
    BY <1>0, <1>2, <2>1, <2>3, CommandStep
<1>3. Seen(txn.row) \in CountedRecords /\ Seen(txn.row).age <= txn.row.age
  BY <1>0, SeenCounted, Numbers DEF Records, Ages
<1>4. ASSUME NEW status \in {"unknown", "error"}
      PROVE  /\ [txn.row EXCEPT !.status = status] \in CountedRecords
             /\ [txn.row EXCEPT !.status = status].age <= txn.row.age
  BY <1>0, Numbers DEF CountedRecords, Counted, Records, Ages
<1>5. CASE Answered
  <2>1. CASE txn.kind = "upgrade"
    <3>1. txn' = [txn EXCEPT !.pc = "probing", !.row = [txn.row EXCEPT !.status = "unknown"]]
      BY <1>0, <1>5, <2>1 DEF Answered, Txns
    <3> QED
      BY <1>0, <1>2, <1>4, <1>5, <3>1 DEF Answered
  <2>2. CASE txn.kind # "upgrade"
    <3>1. txn' = [txn EXCEPT !.pc = "done", !.row = Seen(txn.row)]
      BY <1>5, <2>2 DEF Answered
    <3> QED
      BY <1>0, <1>2, <1>3, <1>5, <3>1 DEF Answered
  <2> QED
    BY <2>1, <2>2
<1>6. CASE CallFails
  <2>1. faults' \in 0 .. MaxFaults
    BY <1>0, <1>6 DEF CallFails
  <2> QED
    BY <1>0, <1>6, <2>1, IdleType, CommandStep DEF CallFails
<1>7. CASE ProbeAfterUpgrade
  <2>1. faults' \in 0 .. MaxFaults
    BY <1>0, <1>7 DEF ProbeAfterUpgrade
  <2>2. CASE txn' = [txn EXCEPT !.pc = "done", !.row = Seen(txn.row)]
    BY <1>2, <1>3, <1>7, <2>1, <2>2 DEF ProbeAfterUpgrade
  <2>3. CASE txn' = [txn EXCEPT !.pc = "done", !.row.status = "error"]
    <3>1. txn' = [txn EXCEPT !.pc = "done", !.row = [txn.row EXCEPT !.status = "error"]]
      BY <1>0, <2>3 DEF Txns
    <3> QED
      BY <1>2, <1>4, <1>7, <2>1, <3>1 DEF ProbeAfterUpgrade
  <2> QED
    BY <1>7, <2>2, <2>3 DEF ProbeAfterUpgrade
<1>8. CASE CommitFails
  <2>1. UNCHANGED <<reach, rec, loop, bulk, task, late, flips, faults, clicks>>
    BY <1>8 DEF CommitFails
  <2>2. CASE txn.run < Tries
    <3>1. txn' = Calling(txn.ap, txn.kind, txn.run + 1)
      BY <1>8, <2>2 DEF CommitFails
    <3>2. txn.ap \in Aps /\ txn.kind \in Commands /\ txn.run + 1 \in 1 .. Tries
      BY <1>0, <1>8, <2>2, ConstantsAssumption DEF CommitFails, Txns
    <3> QED
      BY <1>0, <2>1, <3>1, <3>2, CallingType, CommandStep
  <2>3. CASE ~(txn.run < Tries)
    <3>1. txn' = Closed
      BY <1>8, <2>3 DEF CommitFails
    <3> QED
      BY <1>0, <2>1, <3>1, IdleType, CommandStep
  <2> QED
    BY <2>2, <2>3
<1> QED
  BY <1>1, <1>5, <1>6, <1>7, <1>8

\* A command commits only what is not older than the record.
LEMMA CommitStep ==
    ASSUME IInv, Commit
    PROVE  IInv' /\ \A b \in Aps : rec'[b].age <= rec[b].age + 1
<1>1. /\ txn.ap \in Aps /\ txn.row \in CountedRecords /\ txn.row.age <= rec[txn.ap].age
      /\ rec \in [Aps -> CountedRecords]
  BY DEF IInv, Addressed, SnapshotNotOlder, Commit
<1>2. \A b \in Aps : rec[b].age \in Nat /\ txn.row.age \in Nat
  BY <1>1, Numbers DEF CountedRecords, Records, Ages
<1>3. rec' \in [Aps -> CountedRecords] /\ \A b \in Aps : rec'[b].age <= rec[b].age + 1
  <2>1. rec' = [rec EXCEPT ![txn.ap] = txn.row]
    BY DEF Commit
  <2>2. rec'[txn.ap] = txn.row /\ \A b \in Aps : b # txn.ap => rec'[b] = rec[b]
    BY <1>1, <2>1
  <2> QED
    BY <1>1, <1>2, <2>1, <2>2
<1>4. TypeOK'
  BY <1>3, IdleType DEF IInv, TypeOK, Commit, CountedRecords
<1> QED
  BY <1>3, <1>4, IdleType DEF IInv, Addressed, SnapshotNotOlder, Commit

\* Time passes for records and for the row a command holds alike.
LEMMA TickStep ==
    ASSUME IInv, Tick
    PROVE  IInv' /\ \A b \in Aps : rec'[b].age <= rec[b].age + 1
<1>1. /\ rec \in [Aps -> CountedRecords] /\ txn \in Txns /\ txn.row \in CountedRecords
      /\ loop \in [todo : SUBSET Aps, hung : Aps \cup {NoAp}, rest : 0 .. Interval]
  BY DEF IInv, TypeOK
<1>2. /\ rec' = [a \in Aps |-> Older(rec[a])] /\ txn' = [txn EXCEPT !.row = Older(txn.row)]
      /\ UNCHANGED <<reach, bulk, task, late, flips, faults, clicks>>
  BY DEF Tick
<1>3. /\ rec' \in [Aps -> CountedRecords] /\ rec' \in [Aps -> Records]
      /\ \A b \in Aps : rec'[b].age <= rec[b].age + 1
  BY <1>1, <1>2, OlderCounted DEF CountedRecords
<1>4. /\ txn' \in Txns /\ txn'.row = Older(txn.row) /\ txn'.row \in CountedRecords
      /\ txn'.pc = txn.pc /\ txn'.ap = txn.ap /\ txn'.stale = txn.stale
  <2>1. Older(txn.row) \in CountedRecords /\ Older(txn.row) \in Records
    BY <1>1, OlderCounted DEF CountedRecords
  <2> QED
    BY <1>1, <1>2, <2>1 DEF Txns
<1>5. loop' \in [todo : SUBSET Aps, hung : Aps \cup {NoAp}, rest : 0 .. Interval]
  BY <1>1, Numbers DEF Tick
<1>6. SnapshotNotOlder'
  <2> SUFFICES ASSUME txn'.pc # "closed", ~txn'.stale PROVE txn'.row.age <= rec'[txn'.ap].age
    BY DEF SnapshotNotOlder
  <2>1. txn.ap \in Aps /\ txn.row.age <= rec[txn.ap].age
    BY <1>4 DEF IInv, Addressed, SnapshotNotOlder
  <2> QED
    BY <1>1, <1>2, <1>4, <2>1, OlderMonotone
<1>7. TypeOK'
  BY <1>2, <1>3, <1>4, <1>5 DEF IInv, TypeOK
<1> QED
  BY <1>2, <1>3, <1>4, <1>6, <1>7 DEF IInv, Addressed

LEMMA NextStep ==
    ASSUME IInv, [Next]_vars
    PROVE  IInv' /\ \A b \in Aps : rec'[b].age <= rec[b].age + 1
<1>1. \A b \in Aps : rec[b].age \in Nat
  BY Numbers DEF IInv, CountedRecords, Records, Ages
<1>2. ASSUME IInv', rec' = rec PROVE IInv' /\ \A b \in Aps : rec'[b].age <= rec[b].age + 1
  BY <1>1, <1>2
<1>3. ASSUME \/ StartRound \/ NoInventory \/ HangEnds \/ Refresh \/ CallBulk \/ RefreshTimesOut
             \/ \E a \in Aps : Check(a) \/ Hang(a) \/ ProbeInBulk(a) \/ Flip(a)
             \/ \E t \in TaskIds : PostFails(t)
      PROVE  IInv' /\ rec' = rec
  <2>1. rec' = rec
    BY <1>3 DEF StartRound, NoInventory, Hang, HangEnds, Refresh, CallBulk, RefreshTimesOut, Check,
                ProbeInBulk, Flip, PostFails
  <2> QED
    BY <1>3, <2>1, QuietActions
<1>4. ASSUME \/ \E a \in Aps, kind \in Commands : Click(a, kind)
             \/ Answered \/ CallFails \/ ProbeAfterUpgrade \/ CommitFails
      PROVE  IInv' /\ rec' = rec
  <2>1. rec' = rec
    BY <1>4 DEF Click, Answered, CallFails, ProbeAfterUpgrade, CommitFails
  <2> QED
    BY <1>4, <2>1, CommandActions
<1>5. CASE UNCHANGED vars
  <2>1. IInv'
    BY <1>5 DEF IInv, TypeOK, Addressed, SnapshotNotOlder, vars
  <2> QED
    BY <1>2, <1>5, <2>1 DEF vars
<1> QED
  BY <1>2, <1>3, <1>4, <1>5, PostStep, CommitStep, TickStep DEF Next

--------------------------------------------------------------------------------
(* Theorems *)

LEMMA Invariant == Spec => []IInv
<1>1. IInv /\ [Next]_vars => IInv'
  BY NextStep
<1> QED
  BY <1>1, InitHolds, PTL DEF Spec

\* Every record, task, post and command keeps its type.
THEOREM HealthTypeCorrect == Spec => []TypeOK
<1>1. IInv => TypeOK
  BY DEF IInv
<1> QED
  BY <1>1, Invariant, PTL

\* No writer ever leaves "offline" with a count below the threshold.
THEOREM OfflineAlwaysCounted == Spec => []OfflineIsCounted
<1>1. IInv => OfflineIsCounted
  BY DEF IInv, CountedRecords, Counted, OfflineIsCounted
<1> QED
  BY <1>1, Invariant, PTL

\* No writer ever moves last_seen back.
THEOREM LastSeenNeverGoesBack == Spec => LastSeenAdvances
<1>1. IInv /\ [Next]_vars => \A a \in Aps : rec'[a].age <= rec[a].age + 1
  BY NextStep
<1> QED
  BY <1>1, Invariant, PTL DEF Spec, LastSeenAdvances

================================================================================
