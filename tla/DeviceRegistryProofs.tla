-------------------------- MODULE DeviceRegistryProofs --------------------------
(***************************************************************************)
(* A purge never takes a bound row and no row changes hands without an     *)
(* unbinding, for every number of sessions, companies and rows.            *)
(*                                                                         *)
(* The argument: a row that no one has written since a transaction began   *)
(* is what the transaction sees (FreshSnapshots), and a transaction that   *)
(* writes any other row fails.  Rows are given their numbers in order, so  *)
(* that a new row never takes the place of another (Numbered).             *)
(***************************************************************************)
EXTENDS DeviceRegistry, TLAPS

Open(w) == txn[w].pc # "closed"

FreshSnapshots ==
    \A w \in Workers : Open(w) => \A i \in Ids \ txn[w].stale : txn[w].snap[i] = rows[i]

\* Only rows created so far are there, and none was seen in the future.
Proper(rs) == \A i \in Ids : (rs[i].there => i <= created) /\ rs[i].seen <= now

Numbered == Proper(rows) /\ \A w \in Workers : Proper(txn[w].snap)

IInv == TypeOK /\ FreshSnapshots /\ Numbered

--------------------------------------------------------------------------------
(* What a transaction would make of the rows of its snapshot *)

\* Rows stay rows; none appears, and none that is bound there passes to another
\* company or is taken by a purge.
LEMMA OutcomesSound ==
    ASSUME TypeOK, NEW t \in Txns, Proper(t.snap), NEW rs \in Outcomes(t)
    PROVE  /\ rs \in [Ids -> Rows] /\ Proper(rs)
           /\ \A i \in Ids : rs[i].there /\ t.snap[i].company # None
                 => rs[i].company \in {t.snap[i].company, None}
           /\ t.op = "purge" => \A i \in Bound(t.snap) : rs[i] = t.snap[i]
<1> DEFINE Conclusion ==
           /\ rs \in [Ids -> Rows] /\ Proper(rs)
           /\ \A i \in Ids : rs[i].there /\ t.snap[i].company # None
                 => rs[i].company \in {t.snap[i].company, None}
           /\ t.op = "purge" => \A i \in Bound(t.snap) : rs[i] = t.snap[i]
<1> SUFFICES Conclusion
  OBVIOUS
<1>1. /\ t.snap \in [Ids -> Rows] /\ now \in Nat /\ t.op \in Ops
      /\ t.company \in Companies \cup {None} /\ Absent \in Rows /\ Absent.seen = 0
      /\ Absent.there = FALSE
  BY DEF Txns, TypeOK, Absent, Rows
<1>2. CASE t.op = "report"
  <2>1. PICK i \in Present(t.snap) : rs = Seen(t.snap, i)
    BY <1>2, Zenon DEF Outcomes
  <2>2. i \in Ids /\ rs = [t.snap EXCEPT ![i].seen = now]
    BY <2>1 DEF Seen, Present
  <2> QED
    BY <1>1, <1>2, <2>2 DEF Proper, Rows
<1>3. CASE t.op = "bind"
  <2> DEFINE n == Candidate(t.snap)
  <2>1. MayBind(t.snap, t.company) /\ rs = [t.snap EXCEPT ![n].company = t.company]
    BY <1>3 DEF Outcomes, Bind
  <2>2. t.snap[n].company \in {None, t.company}
    BY <2>1 DEF MayBind
  <2> HIDE DEF n
  <2>3. CASE n \in Ids
    BY <1>1, <1>3, <2>1, <2>2, <2>3 DEF Proper, Rows
  <2>4. CASE n \notin Ids
    <3>1. rs = t.snap
      BY <1>1, <2>1, <2>4
    <3> QED
      BY <1>1, <1>3, <3>1
  <2> QED
    BY <2>3, <2>4
<1>4. CASE t.op = "unbind"
  <2>1. PICK i \in Bound(t.snap) : rs = [t.snap EXCEPT ![i].company = None]
    BY <1>4, Zenon DEF Outcomes
  <2>2. i \in Ids
    BY <2>1 DEF Bound, Present
  <2> QED
    BY <1>1, <1>4, <2>1, <2>2 DEF Proper, Rows
<1>5. CASE t.op = "dedupe"
  <2>1. PICK k \in SeenLast(t.snap) : rs = Deduped(t.snap, k)
    BY <1>5, Zenon DEF Outcomes
  <2> DEFINE kept(i) == i \notin Present(t.snap) \ {k}
  <2>2. rs = [i \in Ids |-> IF kept(i) THEN t.snap[i] ELSE Absent]
    BY <2>1 DEF Deduped
  <2> HIDE DEF kept
  <2> QED
    BY <1>1, <1>5, <2>2 DEF Proper
<1>6. CASE t.op = "purge"
  <2>1. PICK upgrading \in SUBSET Present(t.snap) : rs = Purged(t.snap, upgrading)
    BY <1>6, Zenon DEF Outcomes
  <2> DEFINE gone(i) == t.snap[i].there /\ Stale(t.snap[i]) /\ i \notin upgrading
  <2>2. rs = [i \in Ids |-> IF gone(i) THEN Absent ELSE t.snap[i]]
    BY <2>1 DEF Purged
  <2>3. \A i \in Bound(t.snap) : i \in Ids /\ ~gone(i)
    BY DEF Bound, Present, Stale
  <2> HIDE DEF gone
  <2> QED
    BY <1>1, <2>2, <2>3 DEF Proper
<1> HIDE DEF Conclusion
<1> QED
  BY <1>1, <1>2, <1>3, <1>4, <1>5, <1>6 DEF Ops

--------------------------------------------------------------------------------
(* The steps *)

\* What NoTakeover and PurgeKeepsBound say of one step.
OwnersKept ==
    \A i \in Bound(rows) : rows'[i].there => rows'[i].company \in {rows[i].company, None}

BoundKept ==
    \A w \in Workers :
        txn[w].op = "purge" /\ txn[w].pc = "open" /\ txn'[w].pc = "closed"
            => Bound(rows) \subseteq Bound(rows')

LEMMA ClosedType == Closed \in Txns /\ Closed.pc = "closed" /\ Closed.snap = NoRows
                      /\ NoRows \in [Ids -> Rows] /\ \A i \in Ids : NoRows[i] = Absent
<1>1. NoRows \in [Ids -> Rows]
  BY DEF NoRows, Absent, Rows
<1> QED
  BY <1>1 DEF Closed, Txns, NoRows, Ops

LEMMA NoRowsProper ==
    ASSUME now \in Nat
    PROVE  Proper(NoRows)
BY ClosedType DEF Proper, Absent

LEMMA InitHolds == Init => IInv
<1> SUFFICES ASSUME Init PROVE IInv
  OBVIOUS
<1>1. /\ rows = NoRows /\ txn = [w \in Workers |-> Closed] /\ keyLock = None
      /\ created = 0 /\ registered = 0 /\ now = 1
  BY DEF Init
<1>2. TypeOK
  <2>1. MaxTime \in Nat /\ 1 \in 1 .. MaxTime
    BY ConstantsAssumption
  <2> QED
    BY <1>1, <2>1, ClosedType, ConstantsAssumption DEF TypeOK, Absent
<1>3. FreshSnapshots
  BY <1>1, ClosedType DEF FreshSnapshots, Open
<1>4. Numbered
  BY <1>1, ClosedType, NoRowsProper DEF Numbered
<1> QED
  BY <1>2, <1>3, <1>4 DEF IInv

\* A transaction's write marks the rows it changed as stale for the others.
LEMMA WrittenSound ==
    ASSUME IInv, NEW w \in Workers, NEW changed \in SUBSET Ids,
           txn' = Written(w, changed),
           rows' \in [Ids -> Rows],
           \A i \in Ids \ changed : rows'[i] = rows[i]
    PROVE  /\ txn' \in [Workers -> Txns] /\ FreshSnapshots'
           /\ \A v \in Workers : txn'[v].snap = txn[v].snap \/ txn'[v].snap = NoRows
           /\ \A v \in Workers : v # w => txn'[v].pc = txn[v].pc
<1>0. txn \in [Workers -> Txns]
  BY DEF IInv, TypeOK
<1>1. ASSUME NEW v \in Workers
      PROVE  /\ txn'[v] \in Txns
             /\ \/ txn'[v] = Closed /\ (v = w \/ txn[v].pc = "closed")
                \/ /\ v # w /\ txn'[v].snap = txn[v].snap /\ txn'[v].pc = txn[v].pc
                   /\ txn'[v].stale = txn[v].stale \cup changed
                \/ v # w /\ txn'[v] = txn[v] /\ ~Open(v)
  <2>1. CASE v = w
    BY <1>0, <2>1, ClosedType DEF Written
  <2>2. CASE v # w /\ txn[v].pc = "closed"
    BY <1>0, <2>2 DEF Written, Open
  <2>3. CASE v # w /\ txn[v].pc # "closed"
    <3>1. txn'[v] = [txn[v] EXCEPT !.stale = txn[v].stale \cup changed]
      BY <1>0, <2>3 DEF Written
    <3> QED
      BY <1>0, <2>3, <3>1 DEF Txns
  <2> QED
    BY <2>1, <2>2, <2>3
<1>2. txn' \in [Workers -> Txns]
  BY <1>1 DEF Written
<1>3. FreshSnapshots'
  <2> SUFFICES ASSUME NEW v \in Workers, txn'[v].pc # "closed", NEW i \in Ids \ txn'[v].stale
               PROVE  txn'[v].snap[i] = rows'[i]
    BY DEF FreshSnapshots, Open
  <2>1. /\ txn'[v].snap = txn[v].snap /\ txn[v].pc # "closed"
        /\ i \notin changed /\ i \notin txn[v].stale
    BY <1>1, ClosedType DEF Open
  <2> QED
    BY <2>1 DEF IInv, FreshSnapshots, Open
<1>4. ASSUME NEW v \in Workers
      PROVE  /\ txn'[v].snap = txn[v].snap \/ txn'[v].snap = NoRows
             /\ v # w => txn'[v].pc = txn[v].pc
  BY <1>1, ClosedType
<1> QED
  BY <1>2, <1>3, <1>4

\* A step that leaves the rows alone.
LEMMA RowsUntouched ==
    ASSUME IInv, rows' = rows
    PROVE  OwnersKept /\ BoundKept
BY DEF OwnersKept, BoundKept, Bound, Present

LEMMA BeginStep ==
    ASSUME IInv, NEW w \in Workers, NEW op \in Ops, NEW company \in Companies \cup {None},
           Begin(w, op, company)
    PROVE  IInv' /\ OwnersKept /\ BoundKept
<1> DEFINE t == [pc |-> "open", op |-> op, company |-> company, snap |-> rows, stale |-> {}]
<1>1. t \in Txns /\ t.snap = rows
  BY DEF IInv, TypeOK, Txns
<1>2. txn' = [txn EXCEPT ![w] = t] /\ UNCHANGED <<rows, keyLock, created, registered, now>>
  BY DEF Begin
<1> HIDE DEF t
<1>3. TypeOK'
  BY <1>1, <1>2 DEF IInv, TypeOK
<1>4. FreshSnapshots' /\ Numbered'
  BY <1>1, <1>2 DEF IInv, TypeOK, FreshSnapshots, Open, Numbered, Proper
<1> QED
  BY <1>2, <1>3, <1>4, RowsUntouched DEF IInv

LEMMA CommitStep ==
    ASSUME IInv, NEW w \in Workers, Commit(w)
    PROVE  IInv' /\ OwnersKept /\ BoundKept
<1> DEFINE t == txn[w]
<1>0. /\ TypeOK /\ FreshSnapshots /\ Numbered
      /\ t \in Txns /\ t.pc = "open" /\ rows \in [Ids -> Rows] /\ t.snap \in [Ids -> Rows]
      /\ Proper(t.snap)
  BY DEF IInv, TypeOK, Commit, Numbered, Txns
<1>1. PICK rs \in Outcomes(t) :
         LET changed == {i \in Ids : rs[i] # t.snap[i]} IN
         /\ ~Conflict(t, changed)
         /\ rows' = [i \in Ids |-> IF i \in changed THEN rs[i] ELSE rows[i]]
         /\ txn' = Written(w, changed)
  BY Zenon DEF Commit
<1> DEFINE changed == {i \in Ids : rs[i] # t.snap[i]}
<1>2. /\ changed \cap t.stale = {}
      /\ rows' = [i \in Ids |-> IF i \in changed THEN rs[i] ELSE rows[i]]
      /\ txn' = Written(w, changed)
  BY <1>1 DEF Conflict
<1>3. /\ rs \in [Ids -> Rows] /\ Proper(rs)
      /\ \A i \in Ids : rs[i].there /\ t.snap[i].company # None
            => rs[i].company \in {t.snap[i].company, None}
      /\ t.op = "purge" => \A i \in Bound(t.snap) : rs[i] = t.snap[i]
  BY <1>0, OutcomesSound
<1>4. \A i \in changed : t.snap[i] = rows[i]
  BY <1>0, <1>2 DEF FreshSnapshots, Open
<1>5. changed \in SUBSET Ids
  OBVIOUS
<1>6. \A i \in changed : rs[i] # t.snap[i]
  OBVIOUS
<1> HIDE DEF changed, t
<1>7. rows' \in [Ids -> Rows] /\ \A i \in Ids \ changed : rows'[i] = rows[i]
  BY <1>0, <1>2, <1>3, <1>5
<1>8. /\ txn' \in [Workers -> Txns] /\ FreshSnapshots'
      /\ \A v \in Workers : txn'[v].snap = txn[v].snap \/ txn'[v].snap = NoRows
      /\ \A v \in Workers : v # w => txn'[v].pc = txn[v].pc
  BY <1>2, <1>5, <1>7, WrittenSound
<1>9. UNCHANGED <<keyLock, created, registered, now>>
  BY DEF Commit
<1>10. Proper(rows)'
  BY <1>0, <1>2, <1>3, <1>5, <1>7, <1>9 DEF Numbered, Proper
<1>11. Numbered'
  <2>1. \A v \in Workers : Proper(txn[v].snap) /\ Proper(NoRows)
    BY <1>0, NoRowsProper DEF Numbered, TypeOK
  <2>2. \A v \in Workers : Proper(txn'[v].snap)
    BY <1>8, <2>1
  <2> QED
    BY <1>9, <1>10, <2>2 DEF Numbered, Proper
<1>12. TypeOK'
  BY <1>0, <1>7, <1>8, <1>9, <1>10 DEF TypeOK, Proper
<1>13. OwnersKept
  <2> SUFFICES ASSUME NEW i \in Bound(rows), rows'[i].there
               PROVE  rows'[i].company \in {rows[i].company, None}
    BY DEF OwnersKept
  <2>1. i \in Ids /\ rows[i].company # None
    BY DEF Bound, Present
  <2> QED
    BY <1>2, <1>3, <1>4, <1>7, <2>1
<1>14. BoundKept
  <2> SUFFICES ASSUME NEW v \in Workers, txn[v].op = "purge", txn[v].pc = "open",
                      txn'[v].pc = "closed"
               PROVE  Bound(rows) \subseteq Bound(rows')
    BY DEF BoundKept
  <2>1. v = w /\ t.op = "purge"
    BY <1>8 DEF t
  <2>2. ASSUME NEW i \in Bound(rows) PROVE i \in Ids /\ rows'[i] = rows[i]
    <3>1. i \in Ids /\ rows[i].there /\ rows[i].company # None
      BY DEF Bound, Present
    <3>2. CASE i \in changed
      <4>1. i \in Bound(t.snap)
        BY <1>4, <3>1, <3>2 DEF Bound, Present
      <4> QED
        BY <1>3, <1>6, <2>1, <3>2, <4>1
    <3> QED
      BY <1>7, <3>1, <3>2
  <2> QED
    BY <2>2 DEF Bound, Present
<1> QED
  BY <1>8, <1>11, <1>12, <1>13, <1>14 DEF IInv

\* A new row is given a number of its own.
LEMMA InsertStep ==
    ASSUME IInv, NEW w \in Workers, NEW row \in Rows, Insert(w, row), row.seen <= now,
           row.there,
           txn' = Written(w, {created + 1}), txn[w].pc # "open",
           keyLock' \in Workers \cup {None}, registered' \in 0 .. MaxRegister, now' = now
    PROVE  IInv' /\ OwnersKept /\ BoundKept
<1>0. /\ TypeOK /\ Numbered /\ created \in Nat /\ created < MaxRows /\ MaxRows \in Nat
      /\ now \in Nat /\ rows \in [Ids -> Rows]
  BY ConstantsAssumption DEF IInv, TypeOK, Insert
<1> DEFINE new == created + 1
<1>1. new \in Ids /\ created' = new /\ created' \in 0 .. MaxRows
  BY <1>0 DEF Ids, Insert
<1>2. rows' = [rows EXCEPT ![new] = row]
  BY DEF Insert
<1>3. ~rows[new].there
  BY <1>0, <1>1 DEF Numbered, Proper
<1>4. rows' \in [Ids -> Rows] /\ rows'[new] = row /\ \A i \in Ids \ {new} : rows'[i] = rows[i]
  BY <1>0, <1>1, <1>2
<1>5. /\ txn' \in [Workers -> Txns] /\ FreshSnapshots'
      /\ \A v \in Workers : txn'[v].snap = txn[v].snap \/ txn'[v].snap = NoRows
      /\ \A v \in Workers : v # w => txn'[v].pc = txn[v].pc
  <2>1. {new} \in SUBSET Ids /\ txn' = Written(w, {new})
    BY <1>1
  <2> HIDE DEF new
  <2> QED
    BY <1>4, <2>1, WrittenSound
<1>6. \A i \in Ids : i \in Nat
  BY DEF Ids
<1>7. ASSUME NEW rs, Proper(rs)
      PROVE  \A i \in Ids : (rs[i].there => i <= created') /\ rs[i].seen <= now'
  BY <1>0, <1>1, <1>6, <1>7 DEF Proper
<1>8. Numbered'
  <2>1. Proper(rows)'
    <3>1. \A i \in Ids : (rows[i].there => i <= created') /\ rows[i].seen <= now'
      BY <1>0, <1>7 DEF Numbered
    <3> QED
      BY <1>0, <1>1, <1>4, <3>1 DEF Proper
  <2>2. \A v \in Workers : Proper(txn[v].snap) /\ Proper(NoRows)
    BY <1>0, NoRowsProper DEF Numbered
  <2>3. ASSUME NEW v \in Workers PROVE Proper(txn[v].snap)'
    <3>1. Proper(txn'[v].snap)
      BY <1>5, <2>2
    <3> QED
      BY <1>7, <3>1 DEF Proper
  <2> QED
    BY <2>1, <2>3 DEF Numbered
<1>9. TypeOK'
  BY <1>0, <1>1, <1>4, <1>5, <1>8 DEF TypeOK, Numbered, Proper
<1>10. \A i \in Bound(rows) : i \in Ids /\ rows'[i] = rows[i]
  BY <1>3, <1>4 DEF Bound, Present
<1>11. OwnersKept /\ Bound(rows) \subseteq Bound(rows')
  BY <1>10 DEF OwnersKept, Bound, Present
<1> QED
  BY <1>5, <1>8, <1>9, <1>11 DEF IInv, BoundKept

LEMMA OtherSteps ==
    ASSUME IInv, NEW w \in Workers,
           \/ AwaitKey(w) \/ CommitCreated(w) \/ Rollback(w)
           \/ \E company \in Companies \cup {None} : Register(w, company)
    PROVE  IInv' /\ OwnersKept /\ BoundKept
<1>0. /\ TypeOK /\ FreshSnapshots /\ Numbered /\ txn \in [Workers -> Txns] /\ now \in Nat
      /\ rows \in [Ids -> Rows]
  BY DEF IInv, TypeOK
<1>1. CASE AwaitKey(w)
  <2>1. /\ txn' = [txn EXCEPT ![w].pc = "waited"] /\ keyLock' = w
        /\ UNCHANGED <<rows, created, registered, now>> /\ txn[w].pc = "open"
    BY <1>1 DEF AwaitKey
  <2>2. txn' \in [Workers -> Txns]
    BY <1>0, <2>1 DEF Txns
  <2>3. \A v \in Workers : /\ txn'[v].snap = txn[v].snap /\ txn'[v].stale = txn[v].stale
                           /\ txn'[v].pc # "closed" => txn[v].pc # "closed"
    BY <1>0, <2>1 DEF Txns
  <2>4. TypeOK'
    BY <1>0, <2>1, <2>2 DEF TypeOK
  <2>5. FreshSnapshots' /\ Numbered'
    BY <1>0, <2>1, <2>3 DEF FreshSnapshots, Open, Numbered, Proper
  <2> QED
    BY <2>1, <2>4, <2>5, RowsUntouched DEF IInv
<1>2. CASE CommitCreated(w)
  <2> DEFINE row == [company |-> None, seen |-> now, there |-> TRUE]
  <2>1. row \in Rows /\ row.seen <= now /\ row.there
    BY <1>0 DEF Rows
  <2>2. /\ Insert(w, row) /\ keyLock' = None /\ txn' = Written(w, {created + 1})
        /\ UNCHANGED <<registered, now>> /\ txn[w].pc # "open"
    BY <1>2 DEF CommitCreated
  <2>3. registered' \in 0 .. MaxRegister
    BY <1>0, <2>2 DEF TypeOK
  <2> HIDE DEF row
  <2> QED
    BY <2>1, <2>2, <2>3, InsertStep
<1>3. CASE Rollback(w)
  <2>1. /\ txn' = [txn EXCEPT ![w] = Closed] /\ keyLock' \in {keyLock, None}
        /\ UNCHANGED <<rows, created, registered, now>>
    BY <1>3 DEF Rollback
  <2>2. TypeOK'
    BY <1>0, <2>1, ClosedType DEF TypeOK
  <2>3. FreshSnapshots'
    BY <1>0, <2>1, ClosedType DEF FreshSnapshots, Open
  <2>4. Numbered'
    BY <1>0, <2>1, ClosedType, NoRowsProper DEF Numbered, Proper
  <2> QED
    BY <2>1, <2>2, <2>3, <2>4, RowsUntouched DEF IInv
<1>4. ASSUME NEW company \in Companies \cup {None}, Register(w, company)
      PROVE  IInv' /\ OwnersKept /\ BoundKept
  <2> DEFINE row == [company |-> company, seen |-> 0, there |-> TRUE]
  <2>1. row \in Rows /\ row.seen <= now /\ row.there
    BY <1>0 DEF Rows
  <2>2. /\ Insert(w, row) /\ txn' = Written(w, {created + 1}) /\ txn[w].pc # "open"
        /\ UNCHANGED <<keyLock, now>>
    BY <1>4 DEF Register
  <2>3. registered' \in 0 .. MaxRegister /\ keyLock' \in Workers \cup {None}
    BY <1>0, <1>4, ConstantsAssumption DEF Register, TypeOK
  <2> HIDE DEF row
  <2> QED
    BY <2>1, <2>2, <2>3, InsertStep
<1> QED
  BY <1>1, <1>2, <1>3, <1>4

LEMMA NextStep ==
    ASSUME IInv, [Next]_vars
    PROVE  IInv' /\ OwnersKept /\ BoundKept
<1>1. CASE Tick
  <2>1. /\ UNCHANGED <<rows, txn, keyLock, created, registered>> /\ now' = now + 1
        /\ now' \in 1 .. MaxTime /\ now \in Nat
    BY <1>1, ConstantsAssumption DEF Tick, IInv, TypeOK
  <2>2. ASSUME NEW rs \in [Ids -> Rows], Proper(rs)
        PROVE  \A i \in Ids : (rs[i].there => i <= created) /\ rs[i].seen <= now'
    BY <2>1, <2>2 DEF Proper, Rows
  <2>3. rows \in [Ids -> Rows] /\ \A w \in Workers : txn[w].snap \in [Ids -> Rows]
    BY DEF IInv, TypeOK, Txns
  <2>4. Numbered'
    BY <2>1, <2>2, <2>3 DEF IInv, Numbered, Proper
  <2>5. TypeOK' /\ FreshSnapshots'
    BY <2>1, <2>4 DEF IInv, TypeOK, FreshSnapshots, Open, Numbered, Proper
  <2> QED
    BY <2>1, <2>4, <2>5, RowsUntouched DEF IInv
<1>2. CASE UNCHANGED vars
  <2>1. IInv'
    BY <1>2 DEF IInv, TypeOK, FreshSnapshots, Open, Numbered, Proper, vars
  <2> QED
    BY <1>2, <2>1, RowsUntouched DEF vars
<1> QED
  BY <1>1, <1>2, BeginStep, CommitStep, OtherSteps DEF Next

--------------------------------------------------------------------------------
(* Theorems *)

LEMMA Invariant == Spec => []IInv
<1>1. IInv /\ [Next]_vars => IInv'
  BY NextStep
<1> QED
  BY <1>1, InitHolds, PTL DEF Spec

\* Every row, snapshot and lock keeps its type.
THEOREM RegistryTypeCorrect == Spec => []TypeOK
<1>1. IInv => TypeOK
  BY DEF IInv
<1> QED
  BY <1>1, Invariant, PTL

\* A purge never takes a row that is bound, even if it was bound while the purge
\* was under way.
THEOREM PurgesKeepBound == Spec => PurgeKeepsBound
<1>1. IInv /\ [Next]_vars => BoundKept
  BY NextStep
<1> QED
  BY <1>1, Invariant, PTL DEF Spec, PurgeKeepsBound, BoundKept

\* No row passes from one company to another without an unbinding.
THEOREM NeverTakenOver == Spec => NoTakeover
<1>1. IInv /\ [Next]_vars => OwnersKept
  BY NextStep
<1> QED
  BY <1>1, Invariant, PTL DEF Spec, NoTakeover, OwnersKept

================================================================================
