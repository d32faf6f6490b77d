--------------------------- MODULE ScheduleSyncProofs ---------------------------
(***************************************************************************)
(* Theorems about ScheduleSync for any number of workers, operations,      *)
(* faults and retries, and for every size of the queues.                   *)
(***************************************************************************)
EXTENDS ScheduleSync, TLAPS

(***************************************************************************)
(* The inductive invariant.  Sound(t, s, p) is what an open transaction t  *)
(* satisfies when the committed source is s and the last successful push   *)
(* is p: it holds the row only with a snapshot that is still fresh, and    *)
(* what it will commit as clean is what it has sent.  A fresh snapshot may *)
(* differ from the source in whether the group is active, since archiving  *)
(* it touches no row of a switch.                                          *)
(***************************************************************************)
Alike(a, b) == a.own = b.own /\ a.grp = b.grp /\ a.bound = b.bound

Sound(t, s, p) ==
    /\ t.locked => ~t.stale /\ t.pc # "closed"
    /\ t.pc = "commit" => t.locked
    /\ t.pc = "push" => t.todo # <<>>
    /\ t.pc = "push" /\ Head(t.todo) = "clear" => t.kind = "unbind"
    /\ t.pc # "closed" /\ Len(t.todo) > 1 => t.kind = "unbind"
    /\ t.pc # "closed" /\ ~t.stale =>
          /\ Alike(t.src, Edited(t.kind, s))
          /\ t.sent \in Fitting(t.src) \cup {p, Cleared}
          /\ ~t.dirty => Covers(t.sent, t.src)

OneHolder == \A v, w \in Workers : txn[v].locked /\ txn[w].locked => v = w

AllSound == \A w \in Workers : Sound(txn[w], src, pushed)

IInv == TypeOK /\ DirtyCovers /\ OneHolder /\ AllSound

--------------------------------------------------------------------------------
(* What the operations on a transaction preserve *)

\* The empty schedule is a table, and so are the entries of every source.
LEMMA TablesType ==
    /\ Cleared \in Tables
    /\ \A s \in Sources : Entries(s) \in Tables
    /\ \A kind \in AllKinds, s \in Sources : Edited(kind, s) \in Sources
BY ConstantsAssumption DEF Cleared, Tables, Entries, Sources, Edited, AllKinds

\* Sources that are alike, as one is to itself, and alike after the same edit, fit
\* and are covered by the same tables.
LEMMA AlikeLaws ==
    ASSUME NEW a \in Sources, NEW b \in Sources, Alike(a, b)
    PROVE  /\ Fitting(a) = Fitting(b)
           /\ \A x : Covers(x, a) <=> Covers(x, b)
           /\ \A kind : Alike(Edited(kind, a), Edited(kind, b))
           /\ Alike(a, a) /\ Alike(b, a)
<1>1. \A kind : Alike(Edited(kind, a), Edited(kind, b))
  BY DEF Alike, Edited, Sources
<1>2. QED
  BY <1>1 DEF Alike, Fitting, Covers

\* The tables that fit a source are tables, and its entries are one of them.
LEMMA FittingType ==
    ASSUME NEW s \in Sources
    PROVE  /\ Entries(s) \in Fitting(s)
           /\ Fitting(s) \subseteq Tables
           /\ Covers(Entries(s), s)
<1>1. Entries(s) \in Fitting(s)
  BY DEF Entries, Fitting, Sources
<1>2. ASSUME NEW g \in {FALSE, s.grp} PROVE [own |-> s.own, grp |-> g] \in Tables
  <2>1. s.own \in Owns /\ g \in BOOLEAN
    BY DEF Sources
  <2>2. QED
    BY <2>1 DEF Tables
<1>3. Fitting(s) \subseteq Tables
  BY <1>2 DEF Fitting
<1>4. QED
  BY <1>1, <1>3 DEF Covers

\* The pushes still to do, after one of them.
LEMMA TodoTails ==
    \A todo \in {<<"set">>, <<"clear">>, <<"set", "clear">>} :
        /\ Tail(todo) \in {<<>>, <<"clear">>}
        /\ Len(todo) > 1 => Tail(todo) = <<"clear">>
        /\ ~(Len(Tail(todo)) > 1)
<1>1. /\ Tail(<<"set">>) = <<>> /\ Tail(<<"clear">>) = <<>>
      /\ Tail(<<"set", "clear">>) = <<"clear">>
      /\ Len(<<>>) = 0 /\ Len(<<"set">>) = 1 /\ Len(<<"clear">>) = 1
      /\ Len(<<"set", "clear">>) = 2
  OBVIOUS
<1> SUFFICES ASSUME NEW todo \in {<<"set">>, <<"clear">>, <<"set", "clear">>}
             PROVE  /\ Tail(todo) \in {<<>>, <<"clear">>}
                    /\ Len(todo) > 1 => Tail(todo) = <<"clear">>
                    /\ ~(Len(Tail(todo)) > 1)
  OBVIOUS
<1>2. CASE todo = <<"set">>
  BY <1>1, <1>2
<1>3. CASE todo = <<"clear">>
  BY <1>1, <1>3
<1>4. CASE todo = <<"set", "clear">>
  BY <1>1, <1>4
<1>5. QED
  BY <1>2, <1>3, <1>4

\* A worker without a transaction holds nothing and promises nothing.
LEMMA ClosedSound ==
    /\ Closed \in Transactions
    /\ ~Closed.locked
    /\ \A s, p : Sound(Closed, s, p)
<1>1. Closed \in Transactions
  BY TablesType, ConstantsAssumption
     DEF Closed, Transactions, AllKinds, Sources, Cleared, Tables
<1>2. QED
  BY <1>1 DEF Closed, Sound

\* A transaction begins on a fresh snapshot; one that may find the row clean
\* edits nothing, so that what the last push sent still covers its source.
LEMMA OpenedSound ==
    ASSUME TypeOK, DirtyCovers, NEW kind \in AllKinds, NEW n \in 0 .. Retries - 1
    PROVE  /\ Opened(kind, n) \in Transactions
           /\ Sound(Opened(kind, n), src, pushed)
           /\ Opened(kind, n).locked = LocksFirst(kind)
<1> DEFINE t == Opened(kind, n)
<1>1. /\ src \in Sources /\ row.ver \in Nat /\ row.dirty \in BOOLEAN /\ pushed \in Tables
      /\ LocksFirst(kind) \in BOOLEAN
  BY DEF TypeOK, Rows, LocksFirst
<1>2. Todo(kind) \in {<<"set">>, <<"set", "clear">>}
  BY DEF Todo
<1>3. /\ t.pc = "push" /\ t.kind = kind /\ t.todo = Todo(kind)
      /\ t.src = Edited(kind, src) /\ t.ver = row.ver /\ t.done = 0
      /\ t.dirty = (row.dirty \/ LocksFirst(kind)) /\ t.sent = pushed
      /\ t.locked = LocksFirst(kind) /\ t.stale = FALSE
  BY DEF Opened
<1>4. t \in Transactions
  <2>1. /\ Edited(kind, src) \in Sources /\ (row.dirty \/ LocksFirst(kind)) \in BOOLEAN
    BY <1>1, TablesType
  <2>2. QED
    BY <1>1, <1>2, <2>1 DEF Opened, Transactions
<1>5. Head(t.todo) = "set" /\ t.todo # <<>> /\ (Len(t.todo) > 1 => kind = "unbind")
  BY <1>3 DEF Todo
<1>6. ~t.dirty => Covers(t.sent, t.src)
  <2>1. SUFFICES ASSUME ~row.dirty, ~LocksFirst(kind) PROVE Covers(pushed, Edited(kind, src))
    BY <1>3
  <2>2. Edited(kind, src) = src
    BY <2>1 DEF LocksFirst, Edited
  <2>3. QED
    BY <2>1, <2>2 DEF DirtyCovers
<1>7. Sound(t, src, pushed)
  BY <1>3, <1>5, <1>6 DEF Sound, Alike
<1>8. QED
  BY <1>3, <1>4, <1>7

\* A successful push leaves the transaction clean with what it has just sent.
LEMMA PushOkSound ==
    ASSUME TypeOK, NEW t \in Transactions, t.pc = "push",
           Sound(t, src, pushed)
    PROVE  /\ NextMessage(t) \in Message
           /\ PushOk(t, NextMessage(t)) \in Transactions
           /\ PushOk(t, NextMessage(t)).locked = t.locked
           /\ Sound(PushOk(t, NextMessage(t)), src, pushed)
<1> DEFINE msg == NextMessage(t)
           u   == PushOk(t, msg)
<1>1. /\ src \in Sources /\ t.ver \in Nat /\ t.done \in Nat /\ t.src \in Sources
      /\ t.locked \in BOOLEAN /\ t.stale \in BOOLEAN /\ t.kind \in AllKinds
      /\ t.todo \in {<<"set">>, <<"clear">>, <<"set", "clear">>}
  BY DEF TypeOK, Transactions, Sound
<1>2. /\ msg \in Message
      /\ msg.ents \in Tables
      /\ \/ Head(t.todo) = "clear" /\ msg.ents = Cleared
         \/ msg.ents \in Fitting(t.src)
  <2>1. (IF Head(t.todo) = "clear" THEN Cleared ELSE Entries(t.src)) \in Tables
    BY <1>1, TablesType
  <2>2. QED
    BY <1>1, <2>1, FittingType DEF NextMessage, Message
<1>3. /\ u.pc = (IF ~t.locked THEN "lock" ELSE IF Len(t.todo) > 1 THEN "push" ELSE "commit")
      /\ u.kind = t.kind /\ u.todo = Tail(t.todo) /\ u.src = t.src /\ u.ver = t.ver
      /\ u.done = t.done + 1 /\ u.dirty = FALSE /\ u.sent = msg.ents
      /\ u.locked = t.locked /\ u.stale = t.stale
  BY DEF PushOk, Bumped, Transactions
<1>4. /\ Tail(t.todo) \in {<<>>, <<"clear">>}
      /\ Len(t.todo) > 1 => Tail(t.todo) = <<"clear">>
      /\ ~(Len(Tail(t.todo)) > 1)
  BY <1>1, TodoTails
<1>5. u \in Transactions
  <2>1. (IF ~t.locked THEN "lock" ELSE IF Len(t.todo) > 1 THEN "push" ELSE "commit")
           \in {"closed", "push", "lock", "commit"}
    OBVIOUS
  <2>2. Tail(t.todo) \in {<<>>, <<"set">>, <<"clear">>, <<"set", "clear">>} /\ t.done + 1 \in Nat
    BY <1>1, <1>4
  <2>3. QED
    BY <1>2, <2>1, <2>2 DEF PushOk, Bumped, Transactions
<1>6. ASSUME ~t.stale PROVE Covers(u.sent, u.src)
  <2>1. Head(t.todo) = "clear" => ~t.src.bound
    BY <1>6 DEF Sound, Edited, Alike, Transactions, Sources, TypeOK
  <2>2. QED
    BY <1>2, <1>3, <2>1 DEF Covers
<1>7. Sound(u, src, pushed)
  <2>1. u.pc = "push" => t.locked /\ u.todo = <<"clear">> /\ u.kind = "unbind"
    BY <1>3, <1>4 DEF Sound
  <2>2. u.sent \in Fitting(u.src) \cup {Cleared}
    BY <1>1, <1>2, <1>3
  <2>3. ~u.stale => Alike(u.src, Edited(u.kind, src))
    BY <1>3 DEF Sound
  <2>4. u.locked => ~u.stale /\ u.pc # "closed"
    BY <1>3 DEF Sound
  <2>5. (u.pc = "commit" => u.locked) /\ ~(Len(u.todo) > 1)
    BY <1>3, <1>4
  <2>6. QED
    BY <1>3, <1>6, <2>1, <2>2, <2>3, <2>4, <2>5 DEF Sound
<1>8. QED
  BY <1>2, <1>3, <1>5, <1>7

\* A failed push rolls back, or leaves the transaction dirty.
LEMMA PushFailedSound ==
    ASSUME TypeOK, NEW t \in Transactions, t.pc = "push",
           Sound(t, src, pushed)
    PROVE  /\ PushFailed(t) \in Transactions
           /\ PushFailed(t).locked = t.locked
           /\ Sound(PushFailed(t), src, pushed)
<1> DEFINE u == PushFailed(t)
<1>1. CASE ~t.locked
  <2>1. PushFailed(t) = Closed /\ t.locked = FALSE
    BY <1>1 DEF PushFailed, Transactions
  <2>2. Closed.locked = FALSE
    BY DEF Closed
  <2>3. QED
    BY <2>1, <2>2, ClosedSound
<1>2. CASE t.locked
  <2>1. /\ t.locked = TRUE /\ t.stale = FALSE
        /\ t.todo \in {<<"set">>, <<"clear">>, <<"set", "clear">>}
    BY <1>2 DEF Transactions, Sound
  <2>2. /\ u.pc = (IF Len(t.todo) > 1 THEN "push" ELSE "commit")
        /\ u.kind = t.kind /\ u.todo = Tail(t.todo) /\ u.src = t.src /\ u.ver = t.ver
        /\ u.done = t.done /\ u.dirty = TRUE /\ u.sent = t.sent
        /\ u.locked = t.locked /\ u.stale = t.stale
    BY <1>2 DEF PushFailed, Transactions
  <2>3. /\ Tail(t.todo) \in {<<>>, <<"clear">>}
        /\ Len(t.todo) > 1 => Tail(t.todo) = <<"clear">>
        /\ ~(Len(Tail(t.todo)) > 1)
    BY <2>1, TodoTails
  <2>4. u \in Transactions
    <3>1. (IF Len(t.todo) > 1 THEN "push" ELSE "commit")
             \in {"closed", "push", "lock", "commit"}
      OBVIOUS
    <3>2. Tail(t.todo) \in {<<>>, <<"set">>, <<"clear">>, <<"set", "clear">>}
      BY <2>3
    <3>3. QED
      BY <1>2, <3>1, <3>2 DEF PushFailed, Transactions
  <2>5. u.pc = "push" => u.todo = <<"clear">> /\ u.kind = "unbind"
    BY <2>2, <2>3 DEF Sound
  <2>6. Sound(u, src, pushed)
    <3>1. (u.locked => ~u.stale /\ u.pc # "closed") /\ (u.pc = "commit" => u.locked)
      BY <2>1, <2>2
    <3>2. /\ u.pc = "push" => u.todo # <<>> /\ u.kind = "unbind"
          /\ ~(Len(u.todo) > 1)
      <4>1. <<"clear">> # <<>> /\ ~(Len(Tail(t.todo)) > 1)
        BY <2>3
      <4>2. u.todo = Tail(t.todo)
        BY <2>2
      <4>3. QED
        BY <2>5, <4>1, <4>2
    <3>3. /\ Alike(u.src, Edited(u.kind, src))
          /\ u.sent \in Fitting(u.src) \cup {pushed, Cleared}
      BY <2>1, <2>2 DEF Sound
    <3>4. QED
      BY <2>2, <3>1, <3>2, <3>3 DEF Sound
  <2>7. QED
    BY <2>2, <2>4, <2>6
<1>3. QED
  BY <1>1, <1>2

\* Once overtaken, a transaction that does not hold the row promises nothing
\* about any later source, version or push.
LEMMA OvertakenSound ==
    ASSUME NEW t \in Transactions, ~t.locked, NEW s0, NEW p0,
           Sound(t, s0, p0), NEW s, NEW p
    PROVE  /\ Overtaken(t) \in Transactions
           /\ ~Overtaken(t).locked
           /\ Sound(Overtaken(t), s, p)
<1>1. CASE t.pc = "closed"
  BY <1>1 DEF Overtaken, Sound, Transactions
<1>2. CASE t.pc # "closed"
  <2> DEFINE u == Overtaken(t)
  <2>1. u = [t EXCEPT !.stale = TRUE]
    BY <1>2 DEF Overtaken
  <2>2. u \in Transactions /\ u.stale = TRUE /\ u.locked = t.locked /\ u.pc = t.pc
        /\ u.todo = t.todo /\ u.kind = t.kind
    BY <2>1 DEF Transactions
  <2>3. QED
    BY <2>2 DEF Sound
<1>3. QED
  BY <1>1, <1>2

--------------------------------------------------------------------------------
(* The invariant is inductive *)

\* What one worker's transaction may become while the database stays as it is.
LEMMA OneWorkerMoves ==
    ASSUME IInv, NEW w \in Workers, NEW t \in Transactions,
           Sound(t, src, pushed), t.locked => txn[w].locked \/ RowFree,
           txn' = [txn EXCEPT ![w] = t], UNCHANGED <<src, row, pushed>>
    PROVE  txn' \in [Workers -> Transactions] /\ DirtyCovers' /\ OneHolder' /\ AllSound'
<1>1. txn \in [Workers -> Transactions]
  BY DEF IInv, TypeOK
<1>2. txn' \in [Workers -> Transactions]
  BY <1>1
<1>3. DirtyCovers'
  BY DEF IInv, DirtyCovers, Covers, Fitting
<1>4. \A v \in Workers : txn'[v] = IF v = w THEN t ELSE txn[v]
  BY <1>1
<1>5. OneHolder'
  <2> SUFFICES ASSUME NEW v \in Workers, NEW x \in Workers, txn'[v].locked, txn'[x].locked
               PROVE  v = x
    BY DEF OneHolder
  <2>1. OneHolder
    BY DEF IInv
  <2>2. CASE t.locked /\ RowFree
    BY <1>4, <2>2 DEF RowFree
  <2>3. CASE t.locked => txn[w].locked
    BY <1>4, <2>1, <2>3 DEF OneHolder
  <2>4. QED
    BY <2>2, <2>3
<1>6. AllSound'
  BY <1>4 DEF IInv, AllSound
<1>7. QED
  BY <1>2, <1>3, <1>5, <1>6

\* What a committed write of the row leaves: it overtakes every transaction.
LEMMA RowWritten ==
    ASSUME IInv, RowFree,
           txn' = [w \in Workers |-> Overtaken(txn[w])]
    PROVE  txn' \in [Workers -> Transactions] /\ OneHolder' /\ AllSound'
<1>1. \A w \in Workers : /\ txn[w] \in Transactions /\ ~txn[w].locked
                         /\ Sound(txn[w], src, pushed)
  BY DEF IInv, TypeOK, AllSound, RowFree
<1>2. \A w \in Workers : /\ Overtaken(txn[w]) \in Transactions
                         /\ ~Overtaken(txn[w]).locked
                         /\ Sound(Overtaken(txn[w]), src', pushed')
  BY <1>1, OvertakenSound
<1>3. QED
  BY <1>2 DEF OneHolder, AllSound

\* Initially the row is dirty and no worker has a transaction.
LEMMA InitSafe == Init => IInv
<1> SUFFICES ASSUME Init PROVE IInv
  OBVIOUS
<1>1. TypeOK
  <2>1. src \in Sources /\ row \in Rows /\ seen \in BOOLEAN /\ pushed \in Tables
    BY ConstantsAssumption, TablesType DEF Init, Sources, Rows
  <2>2. txn \in [Workers -> Transactions]
    BY ClosedSound DEF Init
  <2>3. /\ pipe \in Seq(Message) /\ downlink \in Seq(Message) /\ uplink \in Seq(Nat)
        /\ retained \in Message \cup {NoMessage} /\ connected \in BOOLEAN
        /\ dev \in Message
    <3>1. dev = [ver |-> 0, ents |-> Cleared]
      BY DEF Init
    <3>2. dev \in Message
      BY <3>1, TablesType DEF Message
    <3>3. /\ pipe = <<>> /\ downlink = <<>> /\ uplink = <<>> /\ retained = NoMessage
          /\ connected = FALSE
      BY DEF Init
    <3>4. <<>> \in Seq(Message) /\ <<>> \in Seq(Nat)
      OBVIOUS
    <3>5. QED
      BY <3>2, <3>3, <3>4
  <2>4. /\ ops \in 0 .. MaxOps /\ faults \in 0 .. MaxFaults
        /\ last \in Workers \cup {"recorded", "astray"}
    BY ConstantsAssumption DEF Init
  <2>5. QED
    BY <2>1, <2>2, <2>3, <2>4 DEF TypeOK
<1>2. DirtyCovers
  BY DEF Init, DirtyCovers
<1>3. OneHolder
  BY ClosedSound DEF Init, OneHolder
<1>4. AllSound
  BY ClosedSound DEF Init, AllSound
<1>5. QED
  BY <1>1, <1>2, <1>3, <1>4 DEF IInv

\* The bounds on operator requests and faults.
LEMMA CountersType ==
    ASSUME TypeOK
    PROVE  /\ Operate => ops' \in 0 .. MaxOps
           /\ \A kind : Fault(kind) => faults' \in 0 .. MaxFaults
BY ConstantsAssumption DEF TypeOK, Operate, Fault

\* Messages received and reports sent keep their types.
LEMMA QueuesType ==
    ASSUME TypeOK
    PROVE  /\ pipe # <<>> => Head(pipe) \in Message /\ Tail(pipe) \in Seq(Message)
           /\ downlink # <<>> => Head(downlink) \in Message /\ Tail(downlink) \in Seq(Message)
           /\ uplink # <<>> => Head(uplink) \in Nat /\ Tail(uplink) \in Seq(Nat)
           /\ \A m \in Message : /\ Append(pipe, m) \in Seq(Message)
                                 /\ Append(downlink, m) \in Seq(Message)
           /\ \A v \in Nat : ReportVersion(v) => uplink' \in Seq(Nat)
<1>1. pipe \in Seq(Message) /\ downlink \in Seq(Message) /\ uplink \in Seq(Nat)
  BY DEF TypeOK
<1>2. /\ pipe # <<>> => Head(pipe) \in Message /\ Tail(pipe) \in Seq(Message)
      /\ \A m \in Message : Append(pipe, m) \in Seq(Message)
  BY <1>1
<1>3. /\ downlink # <<>> => Head(downlink) \in Message /\ Tail(downlink) \in Seq(Message)
      /\ \A m \in Message : Append(downlink, m) \in Seq(Message)
  BY <1>1
<1>4. uplink # <<>> => Head(uplink) \in Nat /\ Tail(uplink) \in Seq(Nat)
  BY <1>1
<1>5. \A v \in Nat : Append(uplink, v) \in Seq(Nat)
  BY <1>1
<1>6. QED
  BY <1>1, <1>2, <1>3, <1>4, <1>5 DEF ReportVersion

\* Every step keeps the invariant, given that it keeps the types of the state
\* a transaction works on; the steps of the network touch none of it.
LEMMA TransactionSafe ==
    ASSUME IInv, NEW w \in Workers, Transaction(w)
    PROVE  IInv'
<1> USE DEF network, device, bounds
<1>0. /\ TypeOK /\ DirtyCovers /\ OneHolder /\ AllSound
      /\ txn[w] \in Transactions /\ Sound(txn[w], src, pushed)
  BY DEF IInv, TypeOK, AllSound
<1>1. CASE BeginCron(w)
  <2>1. "cron" \in AllKinds /\ ~LocksFirst("cron") /\ 0 \in 0 .. Retries - 1
    BY ConstantsAssumption DEF AllKinds, LocksFirst
  <2>2. /\ Opened("cron", 0) \in Transactions /\ ~Opened("cron", 0).locked
        /\ Sound(Opened("cron", 0), src, pushed)
    BY <1>0, <2>1, OpenedSound
  <2>3. txn' \in [Workers -> Transactions] /\ DirtyCovers' /\ OneHolder' /\ AllSound'
    BY <1>1, <2>2, OneWorkerMoves DEF BeginCron
  <2>4. TypeOK'
    BY <1>0, <1>1, <2>3 DEF BeginCron, TypeOK
  <2>5. QED
    BY <2>3, <2>4 DEF IInv
<1>2. CASE \E kind \in AllKinds : BeginRequest(w, kind)
  <2>1. PICK kind \in AllKinds : BeginRequest(w, kind)
    BY <1>2
  <2>2. 0 \in 0 .. Retries - 1 /\ (LocksFirst(kind) => RowFree)
    BY <2>1, ConstantsAssumption DEF BeginRequest
  <2>3. /\ Opened(kind, 0) \in Transactions /\ Opened(kind, 0).locked = LocksFirst(kind)
        /\ Sound(Opened(kind, 0), src, pushed)
    BY <1>0, <2>2, OpenedSound
  <2>4. txn' \in [Workers -> Transactions] /\ DirtyCovers' /\ OneHolder' /\ AllSound'
    BY <2>1, <2>2, <2>3, OneWorkerMoves DEF BeginRequest
  <2>5. ops' \in 0 .. MaxOps
    BY <1>0, <2>1, CountersType DEF BeginRequest
  <2>6. TypeOK'
    BY <1>0, <2>1, <2>4, <2>5 DEF BeginRequest, TypeOK
  <2>7. QED
    BY <2>4, <2>6 DEF IInv
<1>3. CASE Push(w)
  <2> DEFINE msg == NextMessage(txn[w])
  <2>0. last' \in Workers \cup {"recorded", "astray"}
    BY <1>0, <1>3 DEF Push, TypeOK
  <2>1. txn[w].pc = "push" /\ UNCHANGED <<src, row, seen, pushed, retained, downlink, uplink, connected, dev, ops>>
    BY <1>3 DEF Push
  <2>2. /\ msg \in Message /\ PushOk(txn[w], msg) \in Transactions
        /\ PushOk(txn[w], msg).locked = txn[w].locked
        /\ Sound(PushOk(txn[w], msg), src, pushed)
    BY <1>0, <2>1, PushOkSound
  <2>3. /\ PushFailed(txn[w]) \in Transactions
        /\ PushFailed(txn[w]).locked = txn[w].locked
        /\ Sound(PushFailed(txn[w]), src, pushed)
    BY <1>0, <2>1, PushFailedSound
  <2>4. /\ txn' = [txn EXCEPT ![w] = PushOk(txn[w], msg)]
           \/ txn' = [txn EXCEPT ![w] = PushFailed(txn[w])]
        /\ pipe' = Append(pipe, msg) \/ pipe' = pipe
        /\ faults' = faults \/ \E kind : Fault(kind)
    BY <1>3 DEF Push
  <2>5. txn' \in [Workers -> Transactions] /\ DirtyCovers' /\ OneHolder' /\ AllSound'
    BY <2>1, <2>2, <2>3, <2>4, OneWorkerMoves
  <2>6. pipe' \in Seq(Message) /\ faults' \in 0 .. MaxFaults
    BY <1>0, <2>2, <2>4, QueuesType, CountersType DEF TypeOK
  <2>7. TypeOK'
    BY <1>0, <2>0, <2>1, <2>5, <2>6 DEF TypeOK
  <2>8. QED
    BY <2>5, <2>7 DEF IInv
<1>4. CASE LockRow(w)
  <2> DEFINE t == [txn[w] EXCEPT !.locked = TRUE, !.pc = "commit"]
  <2>1. txn' = [txn EXCEPT ![w] = t] /\ RowFree /\ txn[w].pc = "lock" /\ ~txn[w].stale
    BY <1>4 DEF LockRow
  <2>2. t \in Transactions
    BY <1>0 DEF Transactions
  <2>3. /\ t.pc = "commit" /\ t.locked = TRUE /\ t.stale = txn[w].stale
        /\ t.kind = txn[w].kind /\ t.todo = txn[w].todo /\ t.src = txn[w].src
        /\ t.dirty = txn[w].dirty /\ t.sent = txn[w].sent
    BY <1>0 DEF Transactions
  <2>4. Sound(t, src, pushed)
    BY <1>0, <2>1, <2>3 DEF Sound
  <2>5. txn' \in [Workers -> Transactions] /\ DirtyCovers' /\ OneHolder' /\ AllSound'
    BY <1>4, <2>1, <2>2, <2>4, OneWorkerMoves DEF LockRow
  <2>6. TypeOK'
    BY <1>0, <1>4, <2>5 DEF LockRow, TypeOK
  <2>7. QED
    BY <2>5, <2>6 DEF IInv
<1>5. CASE Serialization(w)
  <2>1. /\ txn[w].pc = "lock" /\ RowFree /\ txn[w].stale
        /\ txn[w].kind \in AllKinds /\ txn[w].tries \in 0 .. Retries - 1
    BY <1>0, <1>5 DEF Serialization, Transactions
  <2> DEFINE again == [txn[w] EXCEPT !.pc = "push", !.todo = Todo("cron"), !.done = 0,
                                     !.tries = txn[w].tries + 1]
             fresh == Opened(txn[w].kind, txn[w].tries + 1)
  <2>2. \/ txn' = [txn EXCEPT ![w] = Closed]
        \/ txn[w].tries + 1 \in 0 .. Retries - 1 /\ txn' = [txn EXCEPT ![w] = again]
        \/ txn[w].tries + 1 \in 0 .. Retries - 1 /\ txn' = [txn EXCEPT ![w] = fresh]
    <3>1. txn[w].tries + 1 # Retries => txn[w].tries + 1 \in 0 .. Retries - 1
      BY <2>1, ConstantsAssumption
    <3>2. txn' = [txn EXCEPT ![w] = IF txn[w].tries + 1 = Retries THEN Closed
                                     ELSE IF txn[w].kind = "cron" THEN again ELSE fresh]
      BY <1>5 DEF Serialization
    <3>3. QED
      BY <3>1, <3>2
  <2>3. txn[w].tries + 1 \in 0 .. Retries - 1
           => fresh \in Transactions /\ Sound(fresh, src, pushed)
    BY <1>0, <2>1, OpenedSound
  <2>4. txn[w].tries + 1 \in 0 .. Retries - 1 => again \in Transactions
    <3>1. Todo("cron") = <<"set">>
      BY DEF Todo
    <3>2. QED
      BY <1>0, <3>1 DEF Transactions
  <2>5. /\ again.pc = "push" /\ again.todo = <<"set">> /\ again.stale = txn[w].stale
        /\ again.locked = txn[w].locked
    BY <1>0 DEF Transactions, Todo
  <2>6. Sound(again, src, pushed)
    <3>1. ~txn[w].locked
      BY <2>1 DEF RowFree
    <3>2. Head(<<"set">>) = "set" /\ Len(<<"set">>) = 1 /\ <<"set">> # <<>>
      OBVIOUS
    <3> HIDE DEF again
    <3>3. QED
      BY <2>1, <2>5, <3>1, <3>2 DEF Sound
  <2>7. /\ UNCHANGED <<src, row, seen, pushed, pipe, retained, downlink, uplink, connected, dev, ops, faults>>
        /\ last' \in Workers \cup {"recorded", "astray"}
    BY <1>0, <1>5 DEF Serialization, RolledBack, TypeOK
  <2>8. txn' \in [Workers -> Transactions] /\ DirtyCovers' /\ OneHolder' /\ AllSound'
    <3>1. CASE txn' = [txn EXCEPT ![w] = Closed]
      BY <3>1, <2>7, ClosedSound, OneWorkerMoves
    <3>2. CASE txn[w].tries + 1 \in 0 .. Retries - 1 /\ txn' = [txn EXCEPT ![w] = again]
      BY <2>1, <2>4, <2>6, <2>7, <3>2, OneWorkerMoves
    <3>3. CASE txn[w].tries + 1 \in 0 .. Retries - 1 /\ txn' = [txn EXCEPT ![w] = fresh]
      BY <2>1, <2>3, <2>7, <3>3, OneWorkerMoves
    <3>4. QED
      BY <2>2, <3>1, <3>2, <3>3
  <2>9. TypeOK'
    BY <1>0, <2>7, <2>8 DEF TypeOK
  <2>10. QED
    BY <2>8, <2>9 DEF IInv
<1>6. CASE Commit(w)
  <2> DEFINE t == txn[w]
  <2>1. /\ t.locked /\ ~t.stale /\ t.pc = "commit" /\ Alike(t.src, Edited(t.kind, src))
        /\ t.kind \in AllKinds /\ t.ver \in Nat /\ t.done \in Nat /\ t.sent \in Tables
        /\ t.src \in Sources /\ t.dirty \in BOOLEAN /\ (~t.dirty => Covers(t.sent, t.src))
    BY <1>0, <1>6 DEF Commit, Sound, Transactions
  <2>2. /\ src' = Edited(t.kind, src) /\ pushed' = t.sent
        /\ row' = [row EXCEPT !.ver = t.ver + t.done, !.dirty = t.dirty]
        /\ txn' = [v \in Workers |-> IF v = w THEN Closed ELSE Overtaken(txn[v])]
        /\ UNCHANGED <<seen, pipe, retained, downlink, uplink, connected, dev, ops, faults>>
        /\ last' \in Workers \cup {"recorded", "astray"}
    BY <1>0, <1>6 DEF Commit, TypeOK
  <2>3. src' \in Sources /\ row' \in Rows /\ row'.dirty = t.dirty /\ pushed' \in Tables
    <3>1. src' \in Sources /\ pushed' \in Tables
      BY <1>0, <2>1, <2>2, TablesType DEF TypeOK
    <3>2. row \in Rows /\ t.ver + t.done \in Nat
      BY <1>0, <2>1 DEF TypeOK
    <3>3. row' \in Rows /\ row'.dirty = t.dirty
      BY <2>1, <2>2, <3>2 DEF Rows
    <3>4. QED
      BY <3>1, <3>3
  <2>4. DirtyCovers'
    <3>1. \A x : Covers(x, t.src) <=> Covers(x, src')
      BY <2>1, <2>2, <2>3, AlikeLaws
    <3>2. QED
      BY <2>1, <2>2, <2>3, <3>1 DEF DirtyCovers, Covers, Fitting
  <2>5. \A v \in Workers \ {w} : /\ txn[v] \in Transactions /\ ~txn[v].locked
                                /\ Sound(txn[v], src, pushed)
    BY <1>0, <2>1 DEF TypeOK, OneHolder, AllSound
  <2>6. \A v \in Workers : /\ txn'[v] \in Transactions /\ ~txn'[v].locked
                           /\ Sound(txn'[v], src', pushed')
    <3> SUFFICES ASSUME NEW v \in Workers
                 PROVE  /\ txn'[v] \in Transactions /\ ~txn'[v].locked
                        /\ Sound(txn'[v], src', pushed')
      OBVIOUS
    <3>1. CASE v = w
      BY <2>2, <3>1, ClosedSound
    <3>2. CASE v # w
      BY <2>2, <2>5, <3>2, OvertakenSound
    <3>3. QED
      BY <3>1, <3>2
  <2>7. OneHolder' /\ AllSound' /\ txn' \in [Workers -> Transactions]
    BY <2>2, <2>6 DEF OneHolder, AllSound
  <2>8. TypeOK'
    BY <1>0, <2>2, <2>3, <2>7 DEF TypeOK
  <2>9. QED
    BY <2>4, <2>7, <2>8 DEF IInv
<1>7. CASE Crash(w)
  <2>1. txn' \in [Workers -> Transactions] /\ DirtyCovers' /\ OneHolder' /\ AllSound'
    BY <1>7, ClosedSound, OneWorkerMoves DEF Crash
  <2>2. faults' \in 0 .. MaxFaults /\ last' \in Workers \cup {"recorded", "astray"}
    BY <1>0, <1>7, CountersType DEF Crash, RolledBack, TypeOK
  <2>3. TypeOK'
    BY <1>0, <1>7, <2>1, <2>2 DEF Crash, TypeOK
  <2>4. QED
    BY <2>1, <2>3 DEF IInv
<1>8. CASE BatchConflict(w)
  <2> DEFINE t == [txn[w] EXCEPT !.stale = TRUE, !.locked = FALSE, !.pc = "lock"]
  <2>1. txn' = [txn EXCEPT ![w] = t] /\ txn[w].pc \in {"lock", "commit"}
    BY <1>8 DEF BatchConflict
  <2>2. /\ t \in Transactions /\ t.pc = "lock" /\ t.locked = FALSE /\ t.stale = TRUE
        /\ t.kind = txn[w].kind /\ t.todo = txn[w].todo
    BY <1>0 DEF Transactions
  <2>3. Sound(t, src, pushed)
    <3> HIDE DEF t
    <3>1. QED
      BY <1>0, <2>1, <2>2 DEF Sound
  <2>4. txn' \in [Workers -> Transactions] /\ DirtyCovers' /\ OneHolder' /\ AllSound'
    BY <1>8, <2>1, <2>2, <2>3, OneWorkerMoves DEF BatchConflict
  <2>5. TypeOK'
    BY <1>0, <1>8, <2>4 DEF BatchConflict, TypeOK
  <2>6. QED
    BY <2>4, <2>5 DEF IInv
<1>9. QED
  BY <1>1, <1>2, <1>3, <1>4, <1>5, <1>6, <1>7, <1>8 DEF Transaction

\* An edit and a report write the row in a transaction of their own.
LEMMA RowWritersSafe ==
    ASSUME IInv, EditSchedules \/ ApplyReport
    PROVE  IInv'
<1> USE DEF network, device, bounds
<1>0. TypeOK /\ DirtyCovers /\ src \in Sources /\ row \in Rows
  BY DEF IInv, TypeOK
<1>1. CASE EditSchedules
  <2>1. src' \in Sources
    BY <1>0, <1>1 DEF EditSchedules, Sources
  <2>2. row' \in Rows /\ row'.dirty = TRUE
    BY <1>0, <1>1 DEF EditSchedules, Dirtied, Rows
  <2>3. DirtyCovers'
    BY <2>2 DEF DirtyCovers
  <2>4. txn' \in [Workers -> Transactions] /\ OneHolder' /\ AllSound'
    BY <1>1, RowWritten DEF EditSchedules
  <2>5. ops' \in 0 .. MaxOps
    BY <1>0, <1>1, CountersType DEF EditSchedules
  <2>6. TypeOK'
    BY <1>0, <1>1, <2>1, <2>2, <2>4, <2>5 DEF EditSchedules, TypeOK
  <2>7. QED
    BY <2>3, <2>4, <2>6 DEF IInv
<1>2. CASE ApplyReport
  <2>1. Head(uplink) \in Nat /\ uplink' \in Seq(Nat)
    BY <1>0, <1>2, QueuesType DEF ApplyReport
  <2>2. row' \in Rows /\ row'.dirty = row.dirty
    BY <1>0, <1>2, <2>1 DEF ApplyReport, Rows
  <2>3. DirtyCovers'
    BY <1>0, <1>2, <2>2 DEF ApplyReport, DirtyCovers, Covers, Fitting
  <2>4. txn' \in [Workers -> Transactions] /\ OneHolder' /\ AllSound'
    BY <1>2, RowWritten DEF ApplyReport
  <2>5. TypeOK'
    BY <1>0, <1>2, <2>1, <2>2, <2>4 DEF ApplyReport, MarkSeen, TypeOK
  <2>6. QED
    BY <2>3, <2>4, <2>5 DEF IInv
<1>3. QED
  BY <1>1, <1>2

\* Archiving the group leaves the source alike.
LEMMA ArchiveSafe ==
    ASSUME IInv, ArchiveGroup
    PROVE  IInv'
<1> USE DEF network, device
<1>1. /\ TypeOK /\ DirtyCovers /\ OneHolder /\ AllSound /\ src \in Sources
      /\ UNCHANGED <<row, txn, pushed>> /\ src' = [src EXCEPT !.live = ~@]
  BY DEF IInv, TypeOK, ArchiveGroup
<1>2. src' \in Sources /\ Alike(src, src')
  BY <1>1 DEF Sources, Alike
<1>3. DirtyCovers'
  <2>1. Covers(pushed, src) <=> Covers(pushed, src')
    BY <1>1, <1>2, AlikeLaws
  <2>2. QED
    BY <1>1, <2>1 DEF DirtyCovers, Covers, Fitting
<1>4. AllSound'
  <2>1. SUFFICES ASSUME NEW w \in Workers PROVE Sound(txn[w], src', pushed)
    BY <1>1 DEF AllSound, Sound
  <2>2. Sound(txn[w], src, pushed) /\ txn[w] \in Transactions
    BY <1>1 DEF AllSound, TypeOK
  <2>3. Alike(Edited(txn[w].kind, src), Edited(txn[w].kind, src'))
    BY <1>1, <1>2, AlikeLaws
  <2>4. QED
    BY <2>2, <2>3 DEF Sound, Alike
<1>5. ops' \in 0 .. MaxOps
  BY <1>1, CountersType DEF ArchiveGroup
<1>6. TypeOK'
  BY <1>1, <1>2, <1>5 DEF ArchiveGroup, TypeOK
<1>7. QED
  BY <1>1, <1>3, <1>4, <1>6 DEF IInv, OneHolder

\* The broker and the module leave the database and its transactions alone.
LEMMA NetworkSafe ==
    ASSUME IInv, GoesSilent \/ Deliver \/ Module
    PROVE  IInv'
<1> USE DEF server, network, device, bounds
<1>0. TypeOK
  BY DEF IInv
<1>1. UNCHANGED <<src, row, txn, pushed, last>>
  BY DEF GoesSilent, Deliver, Module, ModuleConnects, ModuleDrops, ModuleApplies,
         ModuleTelemetry, ModuleForgets
<1>2. DirtyCovers' /\ OneHolder' /\ AllSound'
  <2>1. DirtyCovers /\ OneHolder /\ AllSound
    BY DEF IInv
  <2>2. QED
    BY <1>1, <2>1 DEF DirtyCovers, OneHolder, AllSound, Covers, Fitting, Sound
<1>3. TypeOK'
  <2>1. dev \in Message /\ dev.ver \in Nat /\ <<>> \in Seq(Message)
    BY <1>0 DEF TypeOK, Message
  <2>2. CASE GoesSilent
    BY <1>0, <2>2 DEF GoesSilent, TypeOK
  <2>3. CASE Deliver
    <3>1. /\ pipe' \in Seq(Message) /\ retained' \in Message \cup {NoMessage}
          /\ downlink' \in Seq(Message)
      BY <1>0, <2>3, QueuesType DEF Deliver, Retain, TypeOK
    <3>2. QED
      BY <1>0, <2>3, <3>1 DEF Deliver, TypeOK
  <2>4. CASE ModuleConnects
    <3>1. Replay \in Seq(Message)
      BY <1>0, <2>1 DEF Replay, TypeOK
    <3>2. uplink' \in Seq(Nat)
      BY <1>0, <2>1, <2>4, QueuesType DEF ModuleConnects
    <3>3. QED
      BY <1>0, <2>4, <3>1, <3>2 DEF ModuleConnects, TypeOK
  <2>5. CASE ModuleDrops
    BY <1>0, <2>1, <2>5, CountersType DEF ModuleDrops, TypeOK
  <2>6. CASE ModuleApplies
    <3>1. /\ dev' \in Message /\ downlink' \in Seq(Message) /\ Head(downlink).ver \in Nat
      BY <1>0, <2>6, QueuesType DEF ModuleApplies, Message
    <3>2. uplink' \in Seq(Nat)
      BY <1>0, <2>6, <3>1, QueuesType DEF ModuleApplies
    <3>3. QED
      BY <1>0, <2>6, <3>1, <3>2 DEF ModuleApplies, TypeOK
  <2>7. CASE ModuleTelemetry
    <3>1. uplink' \in Seq(Nat)
      BY <1>0, <2>1, <2>7, QueuesType DEF ModuleTelemetry
    <3>2. QED
      BY <1>0, <2>7, <3>1 DEF ModuleTelemetry, TypeOK
  <2>8. CASE ModuleForgets
    <3>1. dev' \in Message
      BY <2>8, TablesType DEF ModuleForgets, Message
    <3>2. faults' \in 0 .. MaxFaults
      BY <1>0, <2>8, CountersType DEF ModuleForgets
    <3>3. QED
      BY <1>0, <2>1, <2>8, <3>1, <3>2 DEF ModuleForgets, TypeOK
  <2>9. QED
    BY <2>2, <2>3, <2>4, <2>5, <2>6, <2>7, <2>8 DEF Module
<1>4. QED
  BY <1>2, <1>3 DEF IInv

\* Every step, and every step that changes nothing, keeps the invariant.
LEMMA NextSafe == IInv /\ [Next]_vars => IInv'
<1> SUFFICES ASSUME IInv, [Next]_vars PROVE IInv'
  OBVIOUS
<1>1. CASE EditSchedules \/ ApplyReport
  BY <1>1, RowWritersSafe
<1>2. CASE \E w \in Workers : Transaction(w)
  BY <1>2, TransactionSafe
<1>3. CASE GoesSilent \/ Deliver \/ Module
  BY <1>3, NetworkSafe
<1>4. CASE ArchiveGroup
  BY <1>4, ArchiveSafe
<1>5. CASE UNCHANGED vars
  BY <1>5 DEF vars, IInv, TypeOK, DirtyCovers, OneHolder, AllSound, Covers, Fitting, Sound
<1>6. QED
  BY <1>1, <1>2, <1>3, <1>4, <1>5 DEF Next

\* Every reachable state satisfies the inductive invariant.
LEMMA InvariantHolds == Spec => []IInv
BY InitSafe, NextSafe, PTL DEF Spec

--------------------------------------------------------------------------------
(* What follows for the specification *)

\* The variables always have the types of the program's: in particular no
\* transaction is tried more often than Retries times.
THEOREM SyncTypeCorrect == Spec => []TypeOK
<1>1. IInv => TypeOK
  BY DEF IInv
<1>2. QED
  BY <1>1, InvariantHolds, PTL

\* schedule_dirty hides no edit but the archiving of a group, whatever the cron
\* job, the operators' requests and the module's reports do at the same time, and
\* whatever is lost.
THEOREM CleanRowHidesNothing == Spec => []DirtyCovers
<1>1. IInv => DirtyCovers
  BY DEF IInv
<1>2. QED
  BY <1>1, InvariantHolds, PTL

\* What a commit makes of the row: what is believed to be on the module is a table
\* that fits, or the cleared one, and a clean row comes with what was sent.
LEMMA CommitStep ==
    ASSUME IInv, NEW w \in Workers, Commit(w)
    PROVE  /\ src' \in Sources /\ pushed' = txn[w].sent /\ row'.dirty = txn[w].dirty
           /\ pushed' \in Fitting(src') \cup {pushed, Cleared}
           /\ ~row'.dirty => Covers(pushed', src')
           /\ row'.dirty \in BOOLEAN
<1> DEFINE t == txn[w]
<1>1. /\ t \in Transactions /\ Sound(t, src, pushed) /\ t.pc = "commit"
      /\ row \in Rows /\ src \in Sources
  BY DEF IInv, TypeOK, AllSound, Commit
<1>2. /\ Alike(t.src, Edited(t.kind, src))
      /\ t.sent \in Fitting(t.src) \cup {pushed, Cleared}
      /\ ~t.dirty => Covers(t.sent, t.src)
  BY <1>1 DEF Sound
<1>3. src' = Edited(t.kind, src) /\ pushed' = t.sent
      /\ row' = [row EXCEPT !.ver = t.ver + t.done, !.dirty = t.dirty]
  BY DEF Commit
<1>4. row'.dirty = t.dirty
  BY <1>1, <1>3 DEF Rows
<1>5. t.dirty \in BOOLEAN /\ t.src \in Sources /\ src' \in Sources
  BY <1>1, <1>3, TablesType DEF Transactions
<1>6. Fitting(t.src) = Fitting(src') /\ \A x : Covers(x, t.src) <=> Covers(x, src')
  BY <1>2, <1>3, <1>5, AlikeLaws
<1>7. QED
  BY <1>2, <1>3, <1>4, <1>5, <1>6

\* No other step than a commit changes what is believed to be on the module,
\* and no other than a commit or an edit changes the schedules or the flag; a group
\* that is archived leaves the same tables fitting.
LEMMA OtherSteps ==
    ASSUME IInv, [Next]_vars, ~EditSchedules, \A w \in Workers : ~Commit(w)
    PROVE  Fitting(src)' = Fitting(src) /\ UNCHANGED <<src.bound, pushed, row.dirty>>
<1> USE DEF server, network, device, bounds
<1>1. CASE ApplyReport
  <2>1. row \in Rows
    BY DEF IInv, TypeOK
  <2>2. QED
    BY <1>1, <2>1 DEF ApplyReport, Rows, Fitting
<1>2. CASE \E w \in Workers : Transaction(w)
  BY <1>2 DEF Transaction, BeginCron, BeginRequest, Push, LockRow, BatchConflict,
              Serialization, Crash, Fitting
<1>3. CASE GoesSilent \/ Deliver \/ Module
  BY <1>3 DEF GoesSilent, Deliver, Module, ModuleConnects, ModuleDrops, ModuleApplies,
              ModuleTelemetry, ModuleForgets, Fitting
<1>4. CASE UNCHANGED vars
  BY <1>4 DEF vars, Fitting
<1>5. CASE ArchiveGroup
  <2>1. src \in Sources
    BY DEF IInv, TypeOK
  <2>2. QED
    BY <1>5, <2>1 DEF ArchiveGroup, Sources, Fitting
<1>6. QED
  BY <1>1, <1>2, <1>3, <1>4, <1>5 DEF Next

\* The tables that fit a source are some that ScheduleStore may want.
LEMMA WantedType ==
    src' \in Sources => Fitting(src)' \in Store!Wanted /\ Fitting(src)' = Fitting(src')
<1> SUFFICES ASSUME src' \in Sources
             PROVE  Fitting(src)' \in Store!Wanted /\ Fitting(src)' = Fitting(src')
  OBVIOUS
<1>1. Fitting(src)' = Fitting(src')
  BY DEF Fitting
<1>2. Fitting(src') # {} /\ Fitting(src') \subseteq Tables
  BY FittingType
<1>3. \A T : T # {} /\ T \subseteq Tables => T \in Store!Wanted
  BY DEF Store!Wanted
<1>4. QED
  BY <1>1, <1>2, <1>3

\* ScheduleSync implements ScheduleStore: a commit is the abstract edit when it
\* leaves the row dirty and the abstract push when it leaves it clean.
THEOREM SyncImplementsStore == Spec => KeepsStore
<1>1. ASSUME Init PROVE Store!Init
  BY <1>1 DEF Init, Store!Init, Fitting, Cleared
<1>2. ASSUME IInv, [Next]_vars PROVE [Store!Next]_(Store!vars)
  <2>1. ASSUME NEW w \in Workers, Commit(w) PROVE Store!Next
    <3>1. /\ src' \in Sources /\ row'.dirty \in BOOLEAN
          /\ pushed' \in Fitting(src') \cup {pushed, Cleared}
          /\ ~row'.dirty => Covers(pushed', src')
      BY <1>2, <2>1, CommitStep
    <3>2. Fitting(src)' \in Store!Wanted /\ Fitting(src)' = Fitting(src')
      BY <3>1, WantedType
    <3>3. CASE row'.dirty
      BY <3>1, <3>2, <3>3 DEF Store!Next, Store!Edit
    <3>4. CASE ~row'.dirty
      BY <3>1, <3>2, <3>4 DEF Store!Next, Store!Push, Covers
    <3>5. QED
      BY <3>3, <3>4
  <2>2. CASE EditSchedules
    <3>1. src' \in Sources /\ row'.dirty = TRUE /\ pushed' = pushed
      <4>1. row \in Rows /\ src \in Sources
        BY <1>2 DEF IInv, TypeOK
      <4>2. QED
        BY <2>2, <4>1 DEF EditSchedules, Dirtied, Rows, Sources
    <3>2. Fitting(src)' \in Store!Wanted
      BY <3>1, WantedType
    <3>3. QED
      BY <3>1, <3>2 DEF Store!Next, Store!Edit
  <2>3. CASE ~EditSchedules /\ \A w \in Workers : ~Commit(w)
    <3>1. Fitting(src)' = Fitting(src) /\ UNCHANGED <<src.bound, pushed, row.dirty>>
      BY <1>2, <2>3, OtherSteps
    <3>2. QED
      BY <3>1 DEF Store!vars
  <2>4. QED
    BY <2>1, <2>2, <2>3
<1>3. QED
  BY <1>1, <1>2, InvariantHolds, PTL DEF Spec, KeepsStore, Store!Spec

--------------------------------------------------------------------------------
(* Delivery.  The second inductive invariant says what the last publication   *)
(* is: that of an open transaction, which may commit it as clean only while   *)
(* no other commit has overtaken it, or one that the row tells of.            *)

\* The last message of a queue, or what came before it when the queue is empty.
Latest(q, m) == IF Len(q) > 0 THEN q[Len(q)] ELSE m

LastPublished == Latest(pipe, retained)

\* Whatever the broker retains is on its way to a connected module or stored there.
ModuleFollows == connected /\ retained # NoMessage => Latest(downlink, dev) = retained

\* The transaction has pushed, and may still commit the row as clean.
MayCommitClean(t) == t.pc \in {"lock", "commit"} /\ ~t.dirty /\ ~t.stale

\* The publisher of the last message has its transaction open.
StillOpen(t) == t.pc \in {"lock", "commit"} \/ (t.pc = "push" /\ t.locked)

Recorded ==
    /\ \A w \in Workers :
          /\ last = w => StillOpen(txn[w])
          /\ MayCommitClean(txn[w]) => last # "recorded"
          /\ MayCommitClean(txn[w]) /\ last = w
                => LastPublished # NoMessage /\ LastPublished.ents = txn[w].sent
    /\ last = "recorded" /\ ~row.dirty
          => LastPublished # NoMessage /\ Covers(LastPublished.ents, src)

\* The last message of a queue that one is added to, or taken from.
LEMMA LatestLaws ==
    ASSUME NEW q \in Seq(Message), NEW m
    PROVE  /\ \A x \in Message : Latest(Append(q, x), m) = x
           /\ q # <<>> => Latest(Tail(q), Head(q)) = Latest(q, m)
<1>1. ASSUME NEW x \in Message PROVE Latest(Append(q, x), m) = x
  BY DEF Latest
<1>2. ASSUME NEW t \in Seq(Message), NEW h, Len(q) # 0, h = q[1], Len(t) = Len(q) - 1,
             \A i \in 1 .. Len(t) : t[i] = q[i + 1]
      PROVE  Latest(t, h) = Latest(q, m)
  <2>1. CASE Len(q) = 1
    BY <1>2, <2>1 DEF Latest
  <2>2. CASE Len(q) > 1
    BY <1>2, <2>2 DEF Latest
  <2>3. QED
    BY <1>2, <2>1, <2>2
<1>3. ASSUME q # <<>>
      PROVE  /\ Tail(q) \in Seq(Message) /\ Head(q) = q[1]
             /\ Len(q) # 0 /\ Len(Tail(q)) = Len(q) - 1
             /\ \A i \in 1 .. Len(Tail(q)) : Tail(q)[i] = q[i + 1]
  BY <1>3
<1>4. QED
  <2>1. ASSUME q # <<>> PROVE Latest(Tail(q), Head(q)) = Latest(q, m)
    BY <1>2, <1>3, <2>1, Zenon
  <2>2. QED
    BY <1>1, <2>1

\* Messages are not the absence of one, and the broker passes them on in order.
LEMMA DeliverKeepsLast ==
    ASSUME TypeOK, Deliver
    PROVE  LastPublished' = LastPublished /\ retained' # NoMessage
<1>1. pipe \in Seq(Message) /\ pipe # <<>> /\ pipe' = Tail(pipe) /\ retained' = Head(pipe)
  BY DEF TypeOK, Deliver, Retain
<1>2. Head(pipe) \in Message
  BY <1>1
<1>3. NoMessage \notin Message
  BY ConstantsAssumption DEF Message, Tables
<1>4. LastPublished' = Latest(Tail(pipe), Head(pipe))
  BY <1>1 DEF LastPublished, Latest
<1>5. QED
  BY <1>1, <1>2, <1>3, <1>4, LatestLaws DEF LastPublished

\* The module keeps up with the broker through disconnections and lost state.
LEMMA ModuleKeepsUp == TypeOK /\ ModuleFollows /\ [Next]_vars => ModuleFollows'
<1> SUFFICES ASSUME TypeOK, ModuleFollows, [Next]_vars PROVE ModuleFollows'
  OBVIOUS
<1> USE DEF server, network, device, bounds
<1>1. downlink \in Seq(Message) /\ pipe \in Seq(Message)
  BY DEF TypeOK
<1>2. CASE Deliver
  <2>1. pipe # <<>> /\ Head(pipe) \in Message /\ retained' = Head(pipe) /\ UNCHANGED <<connected, dev>>
    BY <1>1, <1>2 DEF Deliver, Retain
  <2>2. connected => downlink' = Append(downlink, Head(pipe))
    BY <1>2 DEF Deliver
  <2>3. ASSUME connected PROVE Latest(downlink', dev') = Head(pipe)
    <3>1. \A x \in Message : Latest(Append(downlink, x), dev) = x
      BY <1>1, LatestLaws
    <3>2. downlink' = Append(downlink, Head(pipe)) /\ dev' = dev
      BY <2>1, <2>2, <2>3
    <3>3. Latest(Append(downlink, Head(pipe)), dev) = Head(pipe)
      BY <2>1, <3>1
    <3>4. QED
      BY <3>2, <3>3
  <2>4. QED
    BY <2>1, <2>3 DEF ModuleFollows
<1>3. CASE ModuleConnects
  <2>1. retained' = retained /\ downlink' = Replay
    BY <1>3 DEF ModuleConnects
  <2>2. retained # NoMessage => downlink' # <<>> /\ downlink'[Len(downlink')] = retained
    BY <2>1 DEF Replay
  <2>3. QED
    BY <2>1, <2>2 DEF ModuleFollows, Latest
<1>4. CASE ModuleDrops \/ ModuleForgets
  BY <1>4 DEF ModuleDrops, ModuleForgets, ModuleFollows
<1>5. CASE ModuleApplies
  <2>1. /\ downlink # <<>> /\ downlink' = Tail(downlink) /\ dev' = Head(downlink)
        /\ UNCHANGED <<connected, retained>>
    BY <1>5 DEF ModuleApplies
  <2>2. Latest(downlink', dev') = Latest(downlink, dev)
    BY <1>1, <2>1, LatestLaws
  <2>3. QED
    BY <2>1, <2>2 DEF ModuleFollows
<1>6. CASE ~(Deliver \/ ModuleConnects \/ ModuleDrops \/ ModuleForgets \/ ModuleApplies)
  <2>1. UNCHANGED <<connected, retained, downlink, dev>>
    <3>1. CASE \E w \in Workers : Transaction(w)
      BY <3>1 DEF Transaction, BeginCron, BeginRequest, Push, LockRow, BatchConflict,
                  Serialization, Commit, Crash
    <3>2. CASE EditSchedules \/ ArchiveGroup \/ ApplyReport \/ GoesSilent \/ ModuleTelemetry
      BY <3>2 DEF EditSchedules, ArchiveGroup, ApplyReport, GoesSilent, ModuleTelemetry
    <3>3. CASE UNCHANGED vars
      BY <3>3 DEF vars
    <3>4. QED
      BY <1>6, <3>1, <3>2, <3>3 DEF Next, Module
  <2>2. QED
    BY <2>1 DEF ModuleFollows
<1>7. QED
  BY <1>2, <1>3, <1>4, <1>5, <1>6

\* What becomes of the record when w's transaction moves on, to one that may commit
\* its row as clean only if it could before or has just published.
LEMMA OneMoves ==
    ASSUME TypeOK, Recorded, NEW w \in Workers, NEW t,
           txn' = [txn EXCEPT ![w] = t], UNCHANGED <<src, row, LastPublished>>,
           \/ last' = last
           \/ last' \notin Workers \cup {"recorded"},
           last' = w => StillOpen(t),
           MayCommitClean(t) => MayCommitClean(txn[w]) /\ t.sent = txn[w].sent
    PROVE  Recorded'
<1>1. \A v \in Workers : txn'[v] = IF v = w THEN t ELSE txn[v]
  BY DEF TypeOK
<1>2. last' # last => \A v \in Workers : last' # v
  OBVIOUS
<1>3. \A v \in Workers :
          /\ last' = v => StillOpen(txn'[v])
          /\ MayCommitClean(txn'[v]) => last' # "recorded"
          /\ MayCommitClean(txn'[v]) /\ last' = v
                => LastPublished # NoMessage /\ LastPublished.ents = txn'[v].sent
  BY <1>1, <1>2 DEF Recorded
<1>4. last' = "recorded" /\ ~row.dirty
          => LastPublished # NoMessage /\ Covers(LastPublished.ents, src)
  BY DEF Recorded
<1>5. QED
  BY <1>3, <1>4 DEF Recorded, StillOpen, MayCommitClean, Covers, Fitting

\* What becomes of it when w publishes: the other transactions may still commit
\* theirs as clean, but are not the last to publish.
LEMMA OnePublishes ==
    ASSUME TypeOK, Recorded, NEW w \in Workers, NEW t,
           txn' = [txn EXCEPT ![w] = t],
           \/ last' = "astray"
           \/ last' = w /\ StillOpen(t),
           MayCommitClean(t) /\ last' = w
              => LastPublished' # NoMessage /\ LastPublished'.ents = t.sent
    PROVE  Recorded'
<1>1. \A v \in Workers : txn'[v] = IF v = w THEN t ELSE txn[v]
  BY DEF TypeOK
<1>2. last' # "recorded" /\ \A v \in Workers : last' = v => v = w
  BY ConstantsAssumption
<1>3. QED
  BY <1>1, <1>2, ConstantsAssumption DEF Recorded, StillOpen, MayCommitClean

\* A push publishes, or fails and leaves nothing to commit as clean.
LEMMA PushRecorded ==
    ASSUME IInv, Recorded, NEW w \in Workers, Push(w)
    PROVE  Recorded'
<1> DEFINE t   == txn[w]
           msg == NextMessage(t)
           ok  == PushOk(t, msg)
           bad == PushFailed(t)
<1>1. /\ TypeOK /\ pipe \in Seq(Message) /\ t \in Transactions
      /\ Sound(t, src, pushed) /\ t.pc = "push" /\ UNCHANGED <<src, row, retained>>
  BY DEF IInv, TypeOK, AllSound, Push
<1>2. msg \in Message /\ msg # NoMessage
  <2>1. NoMessage \notin Message
    BY ConstantsAssumption DEF Message, Tables
  <2>2. QED
    BY <1>1, <2>1, PushOkSound
<1>3. ok.sent = msg.ents /\ StillOpen(ok)
  <2>1. /\ ok.pc = (IF ~t.locked THEN "lock" ELSE IF Len(t.todo) > 1 THEN "push" ELSE "commit")
        /\ ok.locked = t.locked /\ ok.sent = msg.ents
    BY <1>1 DEF PushOk, Transactions
  <2> HIDE DEF ok, msg
  <2>2. QED
    BY <2>1 DEF StillOpen
<1>4. ~MayCommitClean(bad) /\ (t.locked => StillOpen(bad))
  <2>1. CASE ~t.locked
    BY <2>1 DEF PushFailed, Closed, MayCommitClean
  <2>2. CASE t.locked
    <3>1. bad.pc \in {"push", "commit"} /\ bad.dirty = TRUE /\ bad.locked
      BY <1>1, <2>2 DEF PushFailed, Transactions
    <3> HIDE DEF bad
    <3>2. QED
      BY <3>1 DEF StillOpen, MayCommitClean
  <2>3. QED
    BY <2>1, <2>2
<1>5. last = w => t.locked
  BY <1>1 DEF Recorded, StillOpen
<1>6. \/ pipe' = Append(pipe, msg) /\ txn' = [txn EXCEPT ![w] = ok] /\ last' = w
      \/ txn' = [txn EXCEPT ![w] = ok] /\ last' = "astray"
      \/ pipe' = pipe /\ txn' = [txn EXCEPT ![w] = bad] /\ last' = last
      \/ /\ txn' = [txn EXCEPT ![w] = bad]
         /\ last' = "astray" \/ (last' = w /\ t.locked)
  BY DEF Push
<1>7. pipe' = Append(pipe, msg) => LastPublished' = msg
  <2>1. Latest(Append(pipe, msg), retained) = msg
    BY <1>1, <1>2, LatestLaws
  <2>2. QED
    BY <1>1, <2>1 DEF LastPublished
<1> HIDE DEF msg, ok, bad
<1>8. CASE pipe' = Append(pipe, msg) /\ txn' = [txn EXCEPT ![w] = ok] /\ last' = w
  BY <1>1, <1>2, <1>3, <1>7, <1>8, OnePublishes
<1>9. CASE txn' = [txn EXCEPT ![w] = ok] /\ last' = "astray"
  BY <1>1, <1>9, ConstantsAssumption, OnePublishes
<1>10. CASE pipe' = pipe /\ txn' = [txn EXCEPT ![w] = bad] /\ last' = last
  <2>1. LastPublished' = LastPublished
    BY <1>1, <1>10 DEF LastPublished, Latest
  <2>2. QED
    BY <1>1, <1>4, <1>5, <1>10, <2>1, OneMoves
<1>11. CASE /\ txn' = [txn EXCEPT ![w] = bad]
            /\ last' = "astray" \/ (last' = w /\ t.locked)
  BY <1>1, <1>4, <1>11, ConstantsAssumption, OnePublishes
<1>12. QED
  BY <1>6, <1>8, <1>9, <1>10, <1>11

\* The other steps of a transaction that do not commit publish nothing.
LEMMA OthersRecorded ==
    ASSUME IInv, Recorded, NEW w \in Workers,
           \/ BeginCron(w) \/ (\E kind \in AllKinds : BeginRequest(w, kind))
           \/ LockRow(w) \/ BatchConflict(w) \/ Serialization(w) \/ Crash(w)
    PROVE  Recorded'
<1> USE DEF network, device, bounds
<1>1. TypeOK /\ txn[w] \in Transactions
  BY DEF IInv, TypeOK
<1>2. UNCHANGED <<src, row>> /\ LastPublished' = LastPublished
  BY DEF BeginCron, BeginRequest, LockRow, BatchConflict, Serialization, Crash,
         LastPublished, Latest
<1>3. "astray" \notin Workers \cup {"recorded"}
  BY ConstantsAssumption
<1>4. /\ RolledBack(w) # w
      /\ RolledBack(w) = last \/ RolledBack(w) \notin Workers \cup {"recorded"}
  BY <1>3 DEF RolledBack
<1>5. /\ ~MayCommitClean(Closed)
      /\ \A kind, n : ~MayCommitClean(Opened(kind, n))
  BY DEF Closed, Opened, MayCommitClean
<1>6. CASE BeginCron(w) \/ \E kind \in AllKinds : BeginRequest(w, kind)
  <2>1. last # w
    BY <1>6 DEF BeginCron, BeginRequest, Recorded, StillOpen
  <2>2. PICK kind : txn' = [txn EXCEPT ![w] = Opened(kind, 0)]
    BY <1>6 DEF BeginCron, BeginRequest
  <2>3. last' = last
    BY <1>6 DEF BeginCron, BeginRequest
  <2>4. QED
    BY <1>1, <1>2, <1>5, <2>1, <2>2, <2>3, OneMoves
<1>7. CASE LockRow(w)
  <2> DEFINE t == [txn[w] EXCEPT !.locked = TRUE, !.pc = "commit"]
  <2>1. txn' = [txn EXCEPT ![w] = t] /\ txn[w].pc = "lock" /\ last' = last
    BY <1>7 DEF LockRow
  <2>2. /\ t.pc = "commit" /\ t.stale = txn[w].stale /\ t.dirty = txn[w].dirty
        /\ t.sent = txn[w].sent
    BY <1>1 DEF Transactions
  <2> HIDE DEF t
  <2>3. StillOpen(t) /\ (MayCommitClean(t) => MayCommitClean(txn[w]))
    BY <2>1, <2>2 DEF StillOpen, MayCommitClean
  <2>4. QED
    BY <1>1, <1>2, <2>1, <2>2, <2>3, OneMoves
<1>8. CASE BatchConflict(w)
  <2> DEFINE t == [txn[w] EXCEPT !.stale = TRUE, !.locked = FALSE, !.pc = "lock"]
  <2>1. txn' = [txn EXCEPT ![w] = t] /\ last' = last
    BY <1>8 DEF BatchConflict
  <2>2. t.pc = "lock" /\ t.stale = TRUE
    BY <1>1 DEF Transactions
  <2> HIDE DEF t
  <2>3. StillOpen(t) /\ ~MayCommitClean(t)
    BY <2>2 DEF StillOpen, MayCommitClean
  <2>4. QED
    BY <1>1, <1>2, <2>1, <2>3, OneMoves
<1>9. CASE Serialization(w)
  <2> DEFINE again == [txn[w] EXCEPT !.pc = "push", !.todo = Todo("cron"), !.done = 0,
                                     !.tries = txn[w].tries + 1]
             fresh == Opened(txn[w].kind, txn[w].tries + 1)
  <2>1. /\ last' = RolledBack(w)
        /\ \E t \in {Closed, again, fresh} : txn' = [txn EXCEPT ![w] = t]
    BY <1>9 DEF Serialization
  <2>2. again.pc = "push"
    BY <1>1 DEF Transactions
  <2>3. \A t \in {Closed, again, fresh} : ~MayCommitClean(t)
    <3>1. ~MayCommitClean(again)
      BY <2>2 DEF MayCommitClean
    <3>2. QED
      BY <1>5, <3>1
  <2> HIDE DEF again, fresh
  <2>4. QED
    BY <1>1, <1>2, <1>4, <2>1, <2>3, OneMoves
<1>10. CASE Crash(w)
  BY <1>1, <1>2, <1>4, <1>5, <1>10, OneMoves DEF Crash
<1>11. QED
  BY <1>6, <1>7, <1>8, <1>9, <1>10

\* No open transaction that has been overtaken may commit its row as clean.
LEMMA OvertakenRecorded ==
    ASSUME NEW t \in Transactions, ~t.locked
    PROVE  ~MayCommitClean(Overtaken(t)) /\ (StillOpen(t) => StillOpen(Overtaken(t)))
<1>1. CASE t.pc = "closed"
  BY <1>1 DEF Overtaken, MayCommitClean, StillOpen
<1>2. CASE t.pc # "closed"
  <2>1. Overtaken(t).stale = TRUE /\ Overtaken(t).pc = t.pc
    BY <1>2 DEF Overtaken, Transactions
  <2>2. QED
    BY <2>1 DEF MayCommitClean, StillOpen
<1>3. QED
  BY <1>1, <1>2

\* A commit makes the row clean with the last publication, or when another
\* transaction, which it has overtaken, has published since.
LEMMA CommitRecorded ==
    ASSUME IInv, Recorded, NEW w \in Workers, Commit(w)
    PROVE  Recorded'
<1> USE DEF network, device, bounds
<1> DEFINE t == txn[w]
<1>1. /\ TypeOK /\ t \in Transactions /\ t.pc = "commit" /\ UNCHANGED <<pipe, retained>>
      /\ txn' = [v \in Workers |-> IF v = w THEN Closed ELSE Overtaken(txn[v])]
      /\ last' = IF last = w THEN "recorded" ELSE last
      /\ t.locked /\ ~t.stale
  BY DEF IInv, TypeOK, AllSound, Sound, Commit
<1>2. row'.dirty = t.dirty /\ (~t.dirty => Covers(t.sent, src'))
  BY CommitStep
<1>3. LastPublished' = LastPublished
  BY <1>1 DEF LastPublished, Latest
<1>4. ~t.dirty => MayCommitClean(t)
  BY <1>1 DEF MayCommitClean
<1>5. last' # w
  BY <1>1, ConstantsAssumption
<1>6. \A v \in Workers \ {w} : txn[v] \in Transactions /\ ~txn[v].locked
  BY <1>1 DEF IInv, TypeOK, OneHolder
<1>7. \A v \in Workers : ~MayCommitClean(txn'[v]) /\ (last' = v => StillOpen(txn'[v]))
  <2> SUFFICES ASSUME NEW v \in Workers
               PROVE  ~MayCommitClean(txn'[v]) /\ (last' = v => StillOpen(txn'[v]))
    OBVIOUS
  <2>1. CASE v = w
    BY <1>1, <1>5, <2>1 DEF Closed, MayCommitClean
  <2>2. CASE v # w
    <3>1. txn'[v] = Overtaken(txn[v])
      BY <1>1, <2>2
    <3>2. last' = v => last = v
      BY <1>1, ConstantsAssumption
    <3>3. QED
      BY <1>6, <2>2, <3>1, <3>2, OvertakenRecorded DEF Recorded
  <2>3. QED
    BY <2>1, <2>2
<1>8. ASSUME last' = "recorded", ~row'.dirty
      PROVE  LastPublished # NoMessage /\ Covers(LastPublished.ents, src')
  <2>1. MayCommitClean(t) /\ last # "recorded"
    BY <1>2, <1>4, <1>8 DEF Recorded
  <2>2. last = w
    BY <1>1, <1>8, <2>1
  <2>3. QED
    BY <1>2, <1>8, <2>1, <2>2 DEF Recorded
<1>9. QED
  BY <1>3, <1>7, <1>8 DEF Recorded, MayCommitClean, StillOpen, Covers, Fitting

\* An edit makes the row dirty; a report changes neither the schedules nor the flag.
LEMMA RowWritersRecorded ==
    ASSUME IInv, Recorded, EditSchedules \/ ApplyReport
    PROVE  Recorded'
<1> USE DEF network, device, bounds
<1>1. /\ row \in Rows /\ RowFree /\ UNCHANGED <<pipe, retained, last>>
      /\ txn' = [w \in Workers |-> Overtaken(txn[w])]
      /\ \A w \in Workers : txn[w] \in Transactions
      /\ row'.dirty = TRUE \/ (row'.dirty = row.dirty /\ src' = src)
  BY DEF IInv, TypeOK, EditSchedules, ApplyReport, Dirtied, Rows
<1>2. \A w \in Workers : /\ ~MayCommitClean(txn'[w])
                         /\ StillOpen(txn[w]) => StillOpen(txn'[w])
  BY <1>1, OvertakenRecorded DEF RowFree
<1>3. LastPublished' = LastPublished
  BY <1>1 DEF LastPublished, Latest
<1>4. QED
  BY <1>1, <1>2, <1>3 DEF Recorded, MayCommitClean, StillOpen, Covers, Fitting

\* Archiving a group touches neither the row nor the messages.
LEMMA ArchiveRecorded ==
    ASSUME IInv, Recorded, ArchiveGroup
    PROVE  Recorded'
<1> USE DEF network, device
<1>1. src \in Sources /\ UNCHANGED <<row, txn, last, pipe, retained>>
      /\ src' = [src EXCEPT !.live = ~@]
  BY DEF IInv, TypeOK, ArchiveGroup
<1>2. \A x : Covers(x, src) <=> Covers(x, src')
  <2>1. src' \in Sources /\ Alike(src, src')
    BY <1>1 DEF Sources, Alike
  <2>2. QED
    BY <1>1, <2>1, AlikeLaws
<1>3. LastPublished' = LastPublished
  BY <1>1 DEF LastPublished, Latest
<1>4. Covers(LastPublished.ents, src)' <=> Covers(LastPublished'.ents, src')
  BY DEF Covers, Fitting
<1>5. QED
  BY <1>1, <1>2, <1>3, <1>4 DEF Recorded, MayCommitClean, StillOpen

\* What the broker and the module do moves the last publication, at most, from the
\* queue to the broker.
LEMMA NetworkRecorded ==
    ASSUME TypeOK, Recorded, GoesSilent \/ Deliver \/ Module
    PROVE  Recorded'
<1> USE DEF server, network, device, bounds
<1>1. UNCHANGED <<src, row, txn, last>>
  BY DEF GoesSilent, Deliver, Module, ModuleConnects, ModuleDrops, ModuleApplies,
         ModuleTelemetry, ModuleForgets
<1>2. LastPublished' = LastPublished
  <2>1. CASE Deliver
    BY <2>1, DeliverKeepsLast
  <2>2. CASE ~Deliver
    <3>1. UNCHANGED <<pipe, retained>>
      BY <2>2 DEF GoesSilent, Module, ModuleConnects, ModuleDrops, ModuleApplies,
                  ModuleTelemetry, ModuleForgets
    <3>2. QED
      BY <3>1 DEF LastPublished, Latest
  <2>3. QED
    BY <2>1, <2>2
<1>3. QED
  BY <1>1, <1>2 DEF Recorded, MayCommitClean, StillOpen, Covers, Fitting

\* Every step keeps what is known of the last publication.
LEMMA NextRecorded == IInv /\ Recorded /\ [Next]_vars => Recorded'
<1> SUFFICES ASSUME IInv, Recorded, [Next]_vars PROVE Recorded'
  OBVIOUS
<1>1. CASE EditSchedules \/ ApplyReport
  BY <1>1, RowWritersRecorded
<1>2. CASE ArchiveGroup
  BY <1>2, ArchiveRecorded
<1>3. CASE \E w \in Workers : Transaction(w)
  BY <1>3, PushRecorded, OthersRecorded, CommitRecorded DEF Transaction
<1>4. CASE GoesSilent \/ Deliver \/ Module
  BY <1>4, NetworkRecorded DEF IInv
<1>5. CASE UNCHANGED vars
  BY <1>5 DEF vars, Recorded, MayCommitClean, StillOpen, Covers, Fitting, LastPublished, Latest
<1>6. QED
  BY <1>1, <1>2, <1>3, <1>4, <1>5 DEF Next

\* Initially the row is dirty, nothing is retained and the module has no session.
LEMMA InitDelivered == Init => ModuleFollows /\ Recorded
BY ConstantsAssumption DEF Init, ModuleFollows, Recorded, MayCommitClean, Closed

\* When the form says "in sync", the network is quiet and the last publication did
\* not go astray, a connected module switches by the schedules stored for it: for
\* any number of workers, requests and faults, however their pushes overlap.
THEOREM InSyncMeansDelivered == Spec => []InSyncIsDelivered
<1> DEFINE Inv == IInv /\ ModuleFollows /\ Recorded
<1>1. IInv => TypeOK
  BY DEF IInv
<1>2. Init => Inv
  BY InitSafe, InitDelivered
<1>3. Inv /\ [Next]_vars => Inv'
  BY <1>1, NextSafe, ModuleKeepsUp, NextRecorded
<1>4. Inv => InSyncIsDelivered
  <2> SUFFICES ASSUME TypeOK, ModuleFollows, Recorded, InSync,
                      \A w \in Workers : txn[w].pc = "closed",
                      pipe = <<>>, downlink = <<>>, connected, last # "astray"
               PROVE  Covers(dev.ents, src)
    BY <1>1 DEF InSyncIsDelivered
  <2>1. last = "recorded"
    BY DEF TypeOK, Recorded, StillOpen
  <2>2. retained # NoMessage /\ Covers(retained.ents, src)
    BY <2>1 DEF Recorded, InSync, LastPublished, Latest
  <2>3. dev = retained
    BY <2>2 DEF ModuleFollows, Latest
  <2>4. QED
    BY <2>2, <2>3
<1> HIDE DEF Inv
<1>5. QED
  BY <1>2, <1>3, <1>4, PTL DEF Spec
================================================================================
