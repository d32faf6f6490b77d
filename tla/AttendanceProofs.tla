---------------------------- MODULE AttendanceProofs ----------------------------
(***************************************************************************)
(* Theorems about Attendance, for any terminals, protocols, directions and *)
(* workers and any number of punches and faults.                           *)
(***************************************************************************)
EXTENDS Attendance, FiniteSetTheorems, FunctionTheorems, SequenceTheorems,
        WellFoundedInduction, TLAPS

\* A transaction that stores punches of a terminal.
Ingesting(t) == t.kind \in Protocols

\* The punches a transaction has processed or has still to process.
Handles(t) == Range(t.todo) \cup DOMAIN t.rows

\* The rows of a terminal its requests share.
Shared == {"mapping", "device"}

Ledger(A) == Table(A, Times, Times \cup {Open})

TxnTyped(t) ==
    /\ t = [kind |-> t.kind, dev |-> t.dev, batch |-> t.batch, todo |-> t.todo,
            mapped |-> t.mapped, base |-> t.base, rows |-> t.rows, atts |-> t.atts,
            touched |-> t.touched, raised |-> t.raised, missed |-> t.missed]
    /\ t.kind \in Protocols \cup {"reprocess", "idle"}
    /\ Ingesting(t) => t.dev \in Devices /\ Protocol[t.dev] = t.kind
    /\ t.batch \in Seq(Punches) /\ t.todo \in Seq(Punches)
    /\ t.mapped \subseteq Devices
    /\ Ledger(t.base) /\ Ledger(t.atts) /\ Table(t.rows, Punches, Rows)
    /\ t.touched \in BOOLEAN /\ t.raised \in BOOLEAN
    /\ t.missed \subseteq Shared
    /\ t.kind = "idle" => t = Idle

Typed == TypeOK /\ \A s \in Sessions : TxnTyped(txn[s]) /\ txn[s].mapped \subseteq mapped

--------------------------------------------------------------------------------
(* What the operators return *)

\* Instants have a last one.
LEMMA LastInstant ==
    ASSUME NEW S \in SUBSET Times, S # {}
    PROVE  \E i \in S : \A j \in S : j <= i
<1> USE ConstantsAssumption DEF Times
<1> DEFINE T == {MaxPunches - i : i \in S}
<1>1. T \subseteq Nat /\ T # {}
  <2>1. \A i \in S : MaxPunches - i \in Nat
    OBVIOUS
  <2>2. QED
    BY <2>1
<1>2. PICK m \in T : \A n \in T : ~(<<n, m>> \in OpToRel(<, Nat))
  BY <1>1, NatLessThanWellFounded, WFMin, Zenon
<1>3. PICK i \in S : m = MaxPunches - i
  OBVIOUS
<1>4. ASSUME NEW j \in S PROVE j <= i
  <2>1. ~(<<MaxPunches - j, MaxPunches - i>> \in OpToRel(<, Nat))
    BY <1>2, <1>3
  <2>2. ~(MaxPunches - j < MaxPunches - i)
    BY <2>1 DEF OpToRel
  <2>3. QED
    BY <2>2
<1>5. QED
  BY <1>4

\* The open attendance found is one.
LEMMA OpenFound ==
    ASSUME NEW A, Ledger(A)
    PROVE  /\ OpenAttendance(A) # Open =>
                 OpenAttendance(A) \in DOMAIN A /\ A[OpenAttendance(A)] = Open
           /\ OpenAttendance(A) = Open => \A i \in DOMAIN A : A[i] # Open
<1> DEFINE open == {i \in DOMAIN A : A[i] = Open}
<1>1. open \in SUBSET Times /\ Open \notin Times
  BY ConstantsAssumption DEF Ledger, Table, Times, Open
<1>2. open # {} => \E i \in open : \A j \in open : j <= i
  BY <1>1, LastInstant
<1>3. open # {} => OpenAttendance(A) \in open
  BY <1>2 DEF OpenAttendance
<1>4. open = {} => OpenAttendance(A) = Open
  BY DEF OpenAttendance
<1>5. QED
  BY <1>1, <1>3, <1>4

\* A closed attendance stays as it is, and none goes.
Kept(A, B) == DOMAIN A \subseteq DOMAIN B /\ \A i \in DOMAIN A : A[i] # Open => B[i] = A[i]

\* A processed punch is one end of its attendance.
Ends(p, r, A) == r.state = "processed" => r.att \in DOMAIN A /\ p.at \in {r.att, A[r.att]}

\* B is A with attendances begun or ended at punch p.
Advanced(A, B, p) ==
    \A i \in DOMAIN B :
        (i \in DOMAIN A /\ B[i] = A[i]) \/ B[i] = Open \/ (B[i] = p.at /\ i < p.at)

\* Processing a punch closes an open attendance at its time or begins one, or does
\* nothing; only a known employee's may raise.
LEMMA ProcessLaws ==
    ASSUME NEW A, Ledger(A), NEW p \in Punches, NEW known \in BOOLEAN
    PROVE  LET v == Process(A, p, known) IN
           /\ v.state \in States /\ v.att \in Times \cup {Open} /\ v.raised \in BOOLEAN
           /\ Ledger(v.atts) /\ Kept(A, v.atts)
           /\ DOMAIN v.atts \subseteq DOMAIN A \cup {p.at}
           /\ v.raised => known
           /\ Advanced(A, v.atts, p)
           /\ v.state = "processed" =>
                 /\ v.att \in DOMAIN v.atts
                 /\ \/ v.att = p.at
                    \/ /\ v.att \in DOMAIN A /\ A[v.att] = Open
                       /\ v.atts[v.att] = p.at
<1> DEFINE Good(v) ==
           /\ v.state \in States /\ v.att \in Times \cup {Open} /\ v.raised \in BOOLEAN
           /\ Ledger(v.atts) /\ Kept(A, v.atts)
           /\ DOMAIN v.atts \subseteq DOMAIN A \cup {p.at}
           /\ v.raised => known
           /\ Advanced(A, v.atts, p)
           /\ v.state = "processed" =>
                 /\ v.att \in DOMAIN v.atts
                 /\ \/ v.att = p.at
                    \/ /\ v.att \in DOMAIN A /\ A[v.att] = Open
                       /\ v.atts[v.att] = p.at
<1> HIDE DEF Good
<1>1. p.at \in Times /\ p.dir \in Directions
  BY DEF Punches
<1>2. ASSUME NEW state \in States \ {"processed"}
      PROVE  Good(Verdict(A, state, Open))
  BY <1>2 DEF Good, Verdict, Kept, Advanced
<1>3. ASSUME NEW B, Ledger(B), Kept(A, B), DOMAIN B \subseteq DOMAIN A \cup {p.at},
             NEW i \in DOMAIN B, known,
             i = p.at \/ (i \in DOMAIN A /\ A[i] = Open /\ B[i] = p.at),
             Advanced(A, B, p)
      PROVE  Good(Written(B, i))
  <2>1. i \in Times
    BY <1>3 DEF Ledger, Table
  <2>2. CASE Refused(B, i)
    <3>1. Written(B, i) = [atts |-> B, state |-> "new", att |-> Open, raised |-> TRUE]
      BY <2>2 DEF Written, Verdict
    <3>2. QED
      BY <1>3, <3>1 DEF Good, States
  <2>3. CASE ~Refused(B, i)
    <3>1. Written(B, i) = [atts |-> B, state |-> "processed", att |-> i, raised |-> FALSE]
      BY <2>3 DEF Written, Verdict
    <3>2. QED
      BY <1>3, <2>1, <3>1 DEF Good, States
  <2>4. QED
    BY <2>2, <2>3
<1>4. ASSUME known PROVE Good(CheckIn(A, p))
  <2>1. CASE p.at \in DOMAIN A
    <3>1. CheckIn(A, p) = [atts |-> A, state |-> "new", att |-> Open, raised |-> TRUE]
      BY <2>1 DEF CheckIn, Verdict
    <3>2. QED
      BY <1>4, <3>1 DEF Good, States, Kept, Advanced
  <2>2. CASE p.at \notin DOMAIN A
    <3> DEFINE B == Over([i \in {p.at} |-> Open], A)
    <3>1. /\ DOMAIN B = DOMAIN A \cup {p.at}
          /\ \A i \in DOMAIN A : B[i] = A[i]
          /\ B[p.at] = Open
      BY <2>2 DEF Over
    <3>2. CheckIn(A, p) = Written(B, p.at)
      BY <2>2 DEF CheckIn
    <3> HIDE DEF B
    <3>3. Ledger(B) /\ Kept(A, B) /\ Advanced(A, B, p)
      BY <1>1, <3>1 DEF Ledger, Table, Kept, Advanced
    <3>4. QED
      BY <1>3, <1>4, <3>1, <3>2, <3>3
  <2>3. QED
    BY <2>1, <2>2
<1> DEFINE open == OpenAttendance(A)
<1>5. ASSUME known, open # Open, open < p.at PROVE Good(CheckOut(A, open, p))
  <2>1. open \in DOMAIN A /\ A[open] = Open
    BY <1>5, OpenFound
  <2> DEFINE B == [A EXCEPT ![open] = p.at]
  <2>2. /\ DOMAIN B = DOMAIN A /\ B[open] = p.at
        /\ \A i \in DOMAIN A : i # open => B[i] = A[i]
    BY <2>1
  <2>3. CheckOut(A, open, p) = Written(B, open)
    BY DEF CheckOut
  <2> HIDE DEF B, open
  <2>4. Ledger(B) /\ Kept(A, B) /\ Advanced(A, B, p)
    <3>1. Ledger(B) /\ Kept(A, B)
      BY <1>1, <2>1, <2>2 DEF Ledger, Table, Kept
    <3>2. open < p.at
      BY <1>5 DEF open
    <3>3. Advanced(A, B, p)
      BY <2>1, <2>2, <3>2 DEF Advanced
    <3>4. QED
      BY <3>1, <3>3
  <2>5. QED
    BY <1>3, <1>5, <2>1, <2>2, <2>3, <2>4
<1>6. Good(Process(A, p, known))
  <2> DEFINE later == p.at > open
  <2>0. open # Open => (later <=> open < p.at) /\ (~later <=> p.at <= open)
    BY <1>1, OpenFound, ConstantsAssumption DEF Ledger, Table, Times
  <2>1. CASE ~known
    BY <1>2, <2>1 DEF Process, States
  <2>2. CASE known /\ p.dir = "out"
    BY <1>2, <1>5, <2>0, <2>2 DEF Process, States
  <2>3. CASE known /\ p.dir = "in"
    BY <1>2, <1>4, <2>3 DEF Process, States
  <2>4. CASE known /\ p.dir \notin {"in", "out"}
    BY <1>4, <1>5, <2>0, <2>4 DEF Process
  <2>5. QED
    BY <2>1, <2>2, <2>3, <2>4
<1>7. QED
  BY <1>6 DEF Good

\* Sets of punches have an order in time, and it holds each of them.
LEMMA OrderedLaws ==
    ASSUME NEW S, IsFiniteSet(S), S \subseteq Punches, NEW q \in InTimeOrder(S)
    PROVE  q \in Seq(Punches) /\ Range(q) = S
<1> DEFINE n == Cardinality(S)
<1>1. n \in Nat
  BY FS_CardinalityType
<1>2. q \in [1 .. n -> S] /\ \A j, k \in 1 .. n : j < k => q[j].at < q[k].at
  BY DEF InTimeOrder
<1>3. \A j \in 1 .. n : q[j].at \in Nat
  BY <1>2, ConstantsAssumption DEF Punches, Times
<1>4. \A j, k \in 1 .. n : q[j] = q[k] => j = k
  BY <1>1, <1>2, <1>3
<1>5. q \in Injection(1 .. n, S)
  BY <1>2, <1>4, Fun_IsInj
<1>6. Cardinality(1 .. n) = n
  BY <1>1, FS_Interval
<1>7. q \in Surjection(1 .. n, S)
  BY <1>5, <1>6, FS_Injection
<1>8. QED
  BY <1>1, <1>2, <1>7, Fun_SurjectionProperties

--------------------------------------------------------------------------------
(* Types, and where punches come from *)

\* Every punch is on its terminal at an instant of its own, and nothing else is
\* stored or handled.
Apart ==
    /\ IsFiniteSet(Recorded)
    /\ \A d \in Devices : \A i \in DOMAIN log[d] : log[d][i].dev = d
    /\ \A p \in Recorded : p.at <= Cardinality(Recorded)
    /\ \A p, q \in Recorded : p.at = q.at => p = q
    /\ DOMAIN rows \subseteq Recorded
    /\ \A s \in Sessions : Handles(txn[s]) \subseteq Recorded

\* Transaction t stores what comes next in the memory q of terminal d, of which a
\* punches need not be sent again.
Expects(t, d, a, q) ==
    /\ Protocol[d] # "pull" /\ Ingesting(t) /\ t.dev = d
    /\ a + Len(t.batch) <= Len(q)
    /\ \A k \in 1 .. Len(t.batch) : t.batch[k] = q[a + k]

Awaited(d) ==
    /\ acked[d] <= Len(log[d])
    /\ waiting[d] # NoSession => Expects(txn[waiting[d]], d, acked[d], log[d])

Base == Typed /\ Apart /\ \A d \in Devices : Awaited(d)

\* What a terminal has not had acknowledged.
LEMMA UnsentLaws ==
    ASSUME Base, NEW d \in Devices
    PROVE  /\ Unsent(d) \in Seq(Punches)
           /\ Len(Unsent(d)) = Len(log[d]) - acked[d]
           /\ \A k \in 1 .. Len(Unsent(d)) : Unsent(d)[k] = log[d][acked[d] + k]
           /\ \A p \in Range(Unsent(d)) : p \in Recorded /\ p.dev = d
<1>1. /\ log[d] \in Seq(Punches) /\ acked[d] \in Nat /\ acked[d] <= Len(log[d])
      /\ Len(log[d]) \in Nat
  BY DEF Base, Typed, TypeOK, Awaited
<1>2. /\ Unsent(d) \in Seq(Punches)
      /\ Len(Unsent(d)) = Len(log[d]) - acked[d]
      /\ \A k \in 1 .. Len(Unsent(d)) : Unsent(d)[k] = log[d][acked[d] + k]
  <2> DEFINE m == acked[d] + 1
             n == Len(log[d])
  <2>1. m \in Int /\ n \in Int /\ \A i \in m .. n : log[d][i] \in Punches
    BY <1>1
  <2>2. /\ SubSeq(log[d], m, n) \in Seq(Punches)
        /\ Len(SubSeq(log[d], m, n)) = IF m <= n THEN n - m + 1 ELSE 0
        /\ \A i \in 1 .. n - m + 1 : SubSeq(log[d], m, n)[i] = log[d][m + i - 1]
    <3> HIDE DEF m, n
    <3> QED
      BY <2>1, SubSeqProperties
  <2>3. Unsent(d) = SubSeq(log[d], m, n)
    BY DEF Unsent
  <2>4. /\ Unsent(d) \in Seq(Punches) /\ Len(Unsent(d)) = n - acked[d]
        /\ \A i \in 1 .. n - acked[d] : Unsent(d)[i] = log[d][acked[d] + 1 + i - 1]
    <3>1. n - m + 1 = n - acked[d] /\ (m > n => n - acked[d] = 0)
      BY <1>1
    <3>2. /\ Unsent(d) \in Seq(Punches)
          /\ Len(Unsent(d)) = IF m <= n THEN n - m + 1 ELSE 0
          /\ \A i \in 1 .. n - m + 1 : Unsent(d)[i] = log[d][m + i - 1]
      BY <2>2, <2>3
    <3>3. Len(Unsent(d)) = n - acked[d]
      BY <1>1, <3>1, <3>2
    <3>4. QED
      BY <3>1, <3>2, <3>3
  <2>5. ASSUME NEW k \in 1 .. Len(Unsent(d)) PROVE Unsent(d)[k] = log[d][acked[d] + k]
    <3>1. acked[d] + 1 + k - 1 = acked[d] + k /\ k \in 1 .. n - acked[d]
      BY <1>1, <2>4
    <3>2. QED
      BY <2>4, <3>1
  <2>6. QED
    BY <2>4, <2>5
<1>3. ASSUME NEW p \in Range(Unsent(d)) PROVE p \in Recorded /\ p.dev = d
  <2>1. PICK k \in 1 .. Len(Unsent(d)) : p = Unsent(d)[k]
    BY <1>2 DEF Range
  <2>2. acked[d] + k \in DOMAIN log[d] /\ p = log[d][acked[d] + k]
    BY <1>1, <1>2, <2>1
  <2>3. QED
    BY <2>2 DEF Base, Apart, Recorded, Range
<1>4. QED
  BY <1>2, <1>3

\* Session s opens a transaction.
Begins(s) ==
    \/ Reprocess(s)
    \/ \E d \in Devices :
          (\E quiet \in BOOLEAN : SendAdms(d, s, quiet)) \/ SendPush(d, s) \/ Pull(d, s)

\* A transaction just opened.
Fresh(t) ==
    /\ t.mapped = mapped /\ t.base = atts /\ t.atts = atts /\ t.rows = <<>>
    /\ ~t.raised /\ t.missed = {}
    /\ Handles(t) = Range(t.todo) /\ Range(t.todo) \subseteq Recorded
    /\ \/ /\ Ingesting(t) /\ t.batch = Unsent(t.dev)
          /\ Range(t.todo) = Range(t.batch) \ DOMAIN rows
          /\ t.kind = "adms" /\ ~t.touched => payload[t.dev] = t.batch
       \/ /\ t.kind = "reprocess" /\ Range(t.todo) \subseteq DOMAIN rows
          /\ \A v \in Sessions : txn[v].kind # "reprocess"

LEMMA OpenedTyped ==
    ASSUME Base, NEW kind \in Protocols, NEW d \in Devices, NEW touched \in BOOLEAN,
           NEW batch \in Seq(Punches), NEW todo \in Seq(Punches),
           Protocol[d] = kind
    PROVE  LET t == Opened(kind, d, batch, todo, touched) IN
           /\ TxnTyped(t)
           /\ t.mapped = mapped /\ t.base = atts /\ t.atts = atts /\ t.rows = <<>>
           /\ ~t.raised /\ t.missed = {} /\ Handles(t) = Range(todo)
           /\ t.kind = kind /\ t.dev = d /\ t.batch = batch /\ t.todo = todo
           /\ t.touched = touched
<1> DEFINE t == Opened(kind, d, batch, todo, touched)
<1>1. /\ t = [kind |-> kind, dev |-> d, batch |-> batch, todo |-> todo, mapped |-> mapped,
              base |-> atts, rows |-> <<>>, atts |-> atts, touched |-> touched,
              raised |-> FALSE, missed |-> {}]
      /\ DOMAIN t.rows = {}
  BY DEF Opened
<1>2. Ledger(atts) /\ mapped \subseteq Devices /\ "idle" \notin Protocols
  BY DEF Base, Typed, TypeOK, Ledger, Protocols
<1> HIDE DEF t
<1>3. Handles(t) = Range(todo)
  BY <1>1 DEF Handles
<1>4. TxnTyped(t)
  BY <1>1, <1>2 DEF TxnTyped, Ingesting, Table
<1>5. QED
  BY <1>1, <1>3, <1>4 DEF t

\* A request of a terminal opens a fresh transaction.
LEMMA IngestFresh ==
    ASSUME Base, NEW s \in Sessions, NEW d \in Devices, NEW touched \in BOOLEAN,
           Ingest(s, Protocol[d], d, touched),
           Protocol[d] = "adms" /\ ~touched => payload[d] = Unsent(d)
    PROVE  \E t : /\ TxnTyped(t) /\ Fresh(t) /\ txn' = [txn EXCEPT ![s] = t]
                  /\ t.kind = Protocol[d] /\ t.dev = d /\ t.batch = Unsent(d)
<1>1. /\ Unsent(d) \in Seq(Punches) /\ Range(Unsent(d)) \subseteq Recorded
      /\ Protocol[d] \in Protocols
  BY UnsentLaws, ConstantsAssumption
<1>2. IsFiniteSet(Takes(Unsent(d))) /\ Takes(Unsent(d)) \subseteq Punches
  <2>1. Takes(Unsent(d)) \in SUBSET Recorded
    BY <1>1 DEF Takes
  <2>2. Range(Unsent(d)) \subseteq Punches
    BY <1>1 DEF Range
  <2>3. QED
    BY <2>1, <2>2, FS_Subset DEF Base, Apart, Takes
<1>3. PICK todo \in InTimeOrder(Takes(Unsent(d))) :
         txn' = [txn EXCEPT ![s] = Opened(Protocol[d], d, Unsent(d), todo, touched)]
  BY DEF Ingest
<1>4. todo \in Seq(Punches) /\ Range(todo) = Takes(Unsent(d))
  BY <1>2, OrderedLaws
<1> DEFINE t == Opened(Protocol[d], d, Unsent(d), todo, touched)
<1>5. /\ TxnTyped(t)
      /\ t.mapped = mapped /\ t.base = atts /\ t.atts = atts /\ t.rows = <<>>
      /\ ~t.raised /\ t.missed = {} /\ Handles(t) = Range(todo)
      /\ t.kind = Protocol[d] /\ t.dev = d /\ t.batch = Unsent(d) /\ t.todo = todo
      /\ t.touched = touched
  BY <1>1, <1>4, OpenedTyped
<1> HIDE DEF t
<1>6. Fresh(t)
  BY <1>1, <1>4, <1>5 DEF Fresh, Ingesting, Takes
<1>7. QED
  BY <1>3, <1>5, <1>6 DEF t

LEMMA BegunFresh ==
    ASSUME Base, NEW s \in Sessions, Begins(s)
    PROVE  /\ UNCHANGED <<log, tables, faults>> /\ txn[s].kind = "idle"
           /\ \E t : TxnTyped(t) /\ Fresh(t) /\ txn' = [txn EXCEPT ![s] = t]
<1>1. CASE Reprocess(s)
  <2>1. /\ UNCHANGED <<log, tables, faults>> /\ txn[s].kind = "idle"
        /\ \A v \in Sessions : txn[v].kind # "reprocess"
    BY <1>1 DEF Reprocess, terminal
  <2>2. IsFiniteSet(Pending) /\ Pending \subseteq Punches /\ Pending \subseteq Recorded
    <3>1. Pending \in SUBSET Recorded /\ Pending \subseteq Punches
      BY DEF Base, Typed, TypeOK, Table, Apart, Pending
    <3>2. QED
      BY <3>1, FS_Subset DEF Base, Apart
  <2>3. PICK todo \in InTimeOrder(Pending) :
           txn' = [txn EXCEPT ![s] = Opened("reprocess", Idle.dev, <<>>, todo, FALSE)]
    BY <1>1 DEF Reprocess
  <2>4. todo \in Seq(Punches) /\ Range(todo) = Pending /\ <<>> \in Seq(Punches)
    BY <2>2, OrderedLaws
  <2> DEFINE t == Opened("reprocess", Idle.dev, <<>>, todo, FALSE)
  <2>5. "reprocess" \notin Protocols /\ "idle" \notin Protocols
    BY DEF Protocols
  <2>6. /\ TxnTyped(t)
        /\ t.mapped = mapped /\ t.base = atts /\ t.atts = atts /\ t.rows = <<>>
        /\ ~t.raised /\ t.missed = {} /\ Handles(t) = Range(todo)
        /\ t.kind = "reprocess" /\ t.todo = todo
    <3>1. /\ t = [kind |-> "reprocess", dev |-> Idle.dev, batch |-> <<>>, todo |-> todo,
                  mapped |-> mapped, base |-> atts, rows |-> <<>>, atts |-> atts,
                  touched |-> FALSE, raised |-> FALSE, missed |-> {}]
          /\ DOMAIN t.rows = {}
      BY DEF Opened
    <3>2. Ledger(atts) /\ mapped \subseteq Devices
      BY DEF Base, Typed, TypeOK, Ledger
    <3> HIDE DEF t
    <3>3. Handles(t) = Range(todo)
      BY <3>1 DEF Handles
    <3>4. TxnTyped(t)
      BY <2>4, <2>5, <3>1, <3>2 DEF TxnTyped, Ingesting, Table
    <3>5. QED
      BY <3>1, <3>3, <3>4
  <2> HIDE DEF t
  <2>7. Fresh(t)
    BY <2>1, <2>2, <2>4, <2>6 DEF Fresh, Pending
  <2>8. QED
    BY <2>1, <2>3, <2>6, <2>7 DEF t
<1>2. ASSUME NEW d \in Devices, NEW quiet \in BOOLEAN, SendAdms(d, s, quiet)
      PROVE  /\ UNCHANGED <<log, tables, faults>> /\ txn[s].kind = "idle"
             /\ \E t : TxnTyped(t) /\ Fresh(t) /\ txn' = [txn EXCEPT ![s] = t]
  <2> DEFINE touched == quiet \/ payload[d] # Unsent(d)
  <2>1. /\ Ingest(s, Protocol[d], d, touched) /\ touched \in BOOLEAN
        /\ ~touched => payload[d] = Unsent(d)
    BY <1>2 DEF SendAdms
  <2>2. UNCHANGED <<log, tables, faults>> /\ txn[s].kind = "idle"
    BY <1>2 DEF SendAdms, MaySend
  <2> HIDE DEF touched
  <2>3. QED
    BY <2>1, <2>2, IngestFresh
<1>3. ASSUME NEW d \in Devices, SendPush(d, s) \/ Pull(d, s)
      PROVE  /\ UNCHANGED <<log, tables, faults>> /\ txn[s].kind = "idle"
             /\ \E t : TxnTyped(t) /\ Fresh(t) /\ txn' = [txn EXCEPT ![s] = t]
  <2>1. /\ Ingest(s, Protocol[d], d, FALSE) /\ Protocol[d] # "adms"
        /\ UNCHANGED <<log, tables, faults>> /\ txn[s].kind = "idle"
    BY <1>3 DEF SendPush, Pull, MaySend
  <2>2. QED
    BY <2>1, IngestFresh
<1>4. QED
  BY <1>1, <1>2, <1>3 DEF Begins

LEMMA IdleLaws ==
    /\ Idle.kind = "idle" /\ Idle.todo = <<>> /\ Idle.mapped = {} /\ ~Idle.raised
    /\ Handles(Idle) = {} /\ ~Ingesting(Idle) /\ TxnTyped(Idle)
<1> DEFINE d == CHOOSE d \in Devices : TRUE
<1>1. /\ Idle = [kind |-> "idle", dev |-> d, batch |-> <<>>, todo |-> <<>>,
                 mapped |-> {}, base |-> <<>>, rows |-> <<>>, atts |-> <<>>,
                 touched |-> FALSE, raised |-> FALSE, missed |-> {}]
      /\ DOMAIN Idle.base = {} /\ DOMAIN Idle.rows = {} /\ DOMAIN Idle.atts = {}
      /\ Range(Idle.todo) = {}
  BY DEF Idle, Range
<1> HIDE DEF d
<1>2. "idle" \notin Protocols /\ <<>> \in Seq(Punches)
  BY DEF Protocols
<1>3. Handles(Idle) = {}
  BY <1>1 DEF Handles
<1>4. TxnTyped(Idle)
  BY <1>1, <1>2 DEF TxnTyped, Ingesting, Ledger, Table
<1>5. QED
  BY <1>1, <1>2, <1>3, <1>4 DEF Ingesting

\* The same transaction, which may have missed more.
Same(t, u) ==
    /\ u.kind = t.kind /\ u.dev = t.dev /\ u.batch = t.batch /\ u.todo = t.todo
    /\ u.mapped = t.mapped /\ u.base = t.base /\ u.rows = t.rows /\ u.atts = t.atts
    /\ u.touched = t.touched /\ u.raised = t.raised /\ t.missed \subseteq u.missed

LEMMA MissingLaws ==
    ASSUME Base, NEW d, NEW updates \in SUBSET Shared, NEW s \in Sessions
    PROVE  LET t == txn[s]
               u == Missing(d, updates)[s]
           IN TxnTyped(u) /\ Same(t, u) /\ (Ingesting(t) /\ t.dev = d => updates \subseteq u.missed)
<1> DEFINE t == txn[s]
           u == Missing(d, updates)[s]
<1>1. TxnTyped(t) /\ Protocols \cap {"idle", "reprocess"} = {}
  BY DEF Base, Typed, Protocols
<1>2. Ingesting(t) <=> t.kind \notin {"idle", "reprocess"}
  BY <1>1 DEF TxnTyped, Ingesting
<1>3. CASE Ingesting(t) /\ t.dev = d
  <2>1. u = [t EXCEPT !.missed = t.missed \cup updates]
    BY <1>2, <1>3 DEF Missing
  <2> HIDE DEF u, t
  <2>2. u = [kind |-> t.kind, dev |-> t.dev, batch |-> t.batch, todo |-> t.todo,
             mapped |-> t.mapped, base |-> t.base, rows |-> t.rows, atts |-> t.atts,
             touched |-> t.touched, raised |-> t.raised, missed |-> t.missed \cup updates]
    BY <1>1, <2>1 DEF TxnTyped
  <2>3. Same(t, u) /\ updates \subseteq u.missed
    BY <2>2 DEF Same
  <2>4. TxnTyped(u)
    BY <1>1, <1>2, <1>3, <2>2 DEF TxnTyped, Ingesting
  <2>5. QED
    BY <2>3, <2>4 DEF t, u
<1>4. CASE ~(Ingesting(t) /\ t.dev = d)
  <2>1. u = t
    BY <1>2, <1>4 DEF Missing
  <2> HIDE DEF u, t
  <2>2. Same(t, u)
    BY <2>1 DEF Same
  <2>3. QED
    BY <1>1, <1>4, <2>1, <2>2 DEF t, u
<1>5. QED
  BY <1>3, <1>4

\* Transaction u is t after p, of which v has become.
Handling(t, p, v, u) ==
    /\ u.kind = t.kind /\ u.dev = t.dev /\ u.batch = t.batch /\ u.mapped = t.mapped
    /\ u.base = t.base /\ u.touched = t.touched /\ u.missed = t.missed
    /\ v = Process(t.atts, p, Resolved(t, p.dev))
    /\ u.raised = v.raised /\ u.atts = v.atts /\ (u.raised => u.todo = <<>>)
    /\ p \in Handles(t) /\ p \in Punches /\ p.dev \in Devices
    /\ Handles(u) \subseteq Handles(t) /\ (~u.raised => Handles(u) = Handles(t))
    /\ DOMAIN u.rows = DOMAIN t.rows \cup {p}
    /\ \A q \in DOMAIN t.rows \ {p} : u.rows[q] = t.rows[q]
    /\ u.rows[p] = [state |-> v.state, att |-> v.att,
                    copies |-> IF t.kind = "reprocess" THEN 0 ELSE 1]

LEMMA HandledOne ==
    ASSUME Base, NEW s \in Sessions, Handle(s)
    PROVE  /\ UNCHANGED <<log, acked, waiting, tables, faults>>
           /\ txn[s].kind # "idle" /\ txn[s].todo # <<>>
           /\ \E p, v, u : /\ TxnTyped(u) /\ Handling(txn[s], p, v, u)
                           /\ txn' = [txn EXCEPT ![s] = u]
<1> DEFINE t == txn[s]
           p == Head(t.todo)
           v == Process(t.atts, p, Resolved(t, p.dev))
           copies == IF t.kind = "reprocess" THEN 0 ELSE 1
           r == [state |-> v.state, att |-> v.att, copies |-> copies]
           todo == IF v.raised THEN <<>> ELSE Tail(t.todo)
           u == [t EXCEPT !.todo = todo, !.raised = v.raised, !.atts = v.atts,
                          !.rows = Over([q \in {p} |-> r], @)]
<1>1. /\ t.todo # <<>> /\ txn' = [txn EXCEPT ![s] = u]
      /\ UNCHANGED <<log, acked, waiting, tables, faults>>
  BY DEF Handle, terminal
<1>2. TxnTyped(t)
  BY DEF Base, Typed
<1> HIDE DEF t
<1>3. t.kind # "idle"
  BY <1>1, <1>2, IdleLaws DEF TxnTyped
<1>4. /\ t.todo \in Seq(Punches) /\ p \in Punches /\ Tail(t.todo) \in Seq(Punches)
      /\ Range(t.todo) = {p} \cup Range(Tail(t.todo))
  <2>1. t.todo \in Seq(Punches)
    BY <1>2 DEF TxnTyped
  <2>2. /\ p \in Punches /\ Tail(t.todo) \in Seq(Punches)
        /\ Len(Tail(t.todo)) = Len(t.todo) - 1
        /\ \A i \in 1 .. Len(Tail(t.todo)) : Tail(t.todo)[i] = t.todo[i + 1]
    BY <1>1, <2>1, HeadTailProperties
  <2>3. p = t.todo[1] /\ 1 \in DOMAIN t.todo
    BY <1>1, <2>1
  <2>4. \A i \in DOMAIN t.todo : i = 1 \/ t.todo[i] = Tail(t.todo)[i - 1]
    BY <2>1, <2>2
  <2>5. \A i \in DOMAIN t.todo : i = 1 \/ i - 1 \in DOMAIN Tail(t.todo)
    BY <2>1, <2>2
  <2>6. \A i \in DOMAIN Tail(t.todo) : i + 1 \in DOMAIN t.todo
    BY <2>1, <2>2
  <2>7. Range(t.todo) \subseteq {p} \cup Range(Tail(t.todo))
    BY <2>3, <2>4, <2>5 DEF Range
  <2>8. Range(Tail(t.todo)) \subseteq Range(t.todo) /\ p \in Range(t.todo)
    BY <2>2, <2>3, <2>6 DEF Range
  <2>9. QED
    BY <2>1, <2>2, <2>7, <2>8
<1>5. p.at \in Times /\ p.dev \in Devices /\ Ledger(t.atts) /\ Resolved(t, p.dev) \in BOOLEAN
  BY <1>2, <1>4 DEF Punches, TxnTyped, Resolved
<1>6. /\ v.state \in States /\ v.att \in Times \cup {Open} /\ v.raised \in BOOLEAN
      /\ Ledger(v.atts)
  <2> DEFINE known == Resolved(t, p.dev)
  <2>1. v = Process(t.atts, p, known) /\ known \in BOOLEAN
    BY DEF Resolved
  <2> HIDE DEF known, v, p
  <2>2. QED
    BY <1>4, <1>5, <2>1, ProcessLaws
<1>7. r \in Rows
  BY <1>6 DEF Rows
<1> DEFINE B == Over([q \in {p} |-> r], t.rows)
<1>8. /\ DOMAIN B = DOMAIN t.rows \cup {p} /\ B[p] = r
      /\ \A q \in DOMAIN t.rows \ {p} : B[q] = t.rows[q]
  <2> HIDE DEF r, p
  <2> QED
    BY DEF Over
<1>9. u = [kind |-> t.kind, dev |-> t.dev, batch |-> t.batch, todo |-> todo,
           mapped |-> t.mapped, base |-> t.base, rows |-> B, atts |-> v.atts,
           touched |-> t.touched, raised |-> v.raised, missed |-> t.missed]
  <2>1. u = [t EXCEPT !.todo = todo, !.raised = v.raised, !.atts = v.atts, !.rows = B]
    OBVIOUS
  <2> HIDE DEF u, todo, B, v, p
  <2>2. QED
    BY <1>2, <2>1 DEF TxnTyped
<1>10. todo \in Seq(Punches) /\ Range(todo) \subseteq Range(t.todo)
       /\ (~v.raised => todo = Tail(t.todo)) /\ (v.raised => todo = <<>>)
  <2>1. Range(<<>>) = {} /\ <<>> \in Seq(Punches)
    BY DEF Range
  <2> HIDE DEF v, p
  <2>2. QED
    BY <1>4, <2>1
<1> HIDE DEF u, B, todo, v, p
<1>11. TxnTyped(u)
  <2>1. Table(B, Punches, Rows)
    BY <1>2, <1>4, <1>7, <1>8 DEF TxnTyped, Table
  <2> HIDE DEF r
  <2>2. QED
    BY <1>2, <1>3, <1>6, <1>9, <1>10, <2>1 DEF TxnTyped, Ingesting
<1>12. Handles(u) = Range(todo) \cup DOMAIN t.rows \cup {p}
  BY <1>8, <1>9 DEF Handles
<1>13. Handles(t) = Range(t.todo) \cup DOMAIN t.rows
  BY DEF Handles
<1>14. Handling(t, p, v, u)
  <2>1. v = Process(t.atts, p, Resolved(t, p.dev))
    BY DEF v
  <2>2. Handles(u) \subseteq Handles(t) /\ (~u.raised => Handles(u) = Handles(t)) /\ p \in Handles(t)
    BY <1>4, <1>9, <1>10, <1>12, <1>13
  <2> HIDE DEF r
  <2>3. u.rows[p] = [state |-> v.state, att |-> v.att,
                    copies |-> IF t.kind = "reprocess" THEN 0 ELSE 1]
    BY <1>8, <1>9 DEF r
  <2>4. QED
    BY <1>4, <1>5, <1>8, <1>9, <1>10, <2>1, <2>2, <2>3 DEF Handling
<1>15. QED
  BY <1>1, <1>3, <1>11, <1>14 DEF t

\* The attendances a transaction has created or closed.
Changed(t) == {i \in DOMAIN t.atts : i \notin DOMAIN t.base \/ t.atts[i] # t.base[i]}

\* What the transaction of session s has stored is in the tables.
Merged(s) ==
    LET t == txn[s] IN
    /\ DOMAIN rows' = DOMAIN rows \cup DOMAIN t.rows
    /\ \A p \in DOMAIN rows \ DOMAIN t.rows : rows'[p] = rows[p]
    /\ \A p \in DOMAIN t.rows :
          rows'[p] = [state |-> t.rows[p].state, att |-> t.rows[p].att,
                      copies |-> t.rows[p].copies +
                                 IF p \in DOMAIN rows THEN rows[p].copies ELSE 0]
    /\ DOMAIN atts' = DOMAIN atts \cup Changed(t)
    /\ \A i \in DOMAIN atts \ Changed(t) : atts'[i] = atts[i]
    /\ \A i \in Changed(t) : atts'[i] = t.atts[i]
    /\ \A d \in Devices :
          payload'[d] = IF t.kind = "adms" /\ d = t.dev THEN t.batch ELSE payload[d]

\* The others have missed its updates.
Overtaken(s) ==
    /\ DOMAIN txn' = Sessions /\ txn'[s] = Idle
    /\ \A v \in Sessions \ {s} :
          /\ TxnTyped(txn'[v]) /\ Same(txn[v], txn'[v])
          /\ Ingesting(txn[v]) /\ txn[v].dev = txn[s].dev => Updates(txn[s]) \subseteq txn'[v].missed

LEMMA CommittedOne ==
    ASSUME Base, NEW s \in Sessions, Commit(s)
    PROVE  /\ UNCHANGED <<log, mapped, faults>> /\ Merged(s) /\ Overtaken(s)
           /\ txn[s].kind # "idle" /\ Handles(txn[s]) = DOMAIN txn[s].rows
           /\ ~Stale(txn[s]) /\ Keeps(txn[s])
           /\ payload' \in [Devices -> Seq(Punches)]
<1> DEFINE t == txn[s]
           g == [p \in DOMAIN t.rows |->
                    [t.rows[p] EXCEPT !.copies = t.rows[p].copies +
                                 IF p \in DOMAIN rows THEN rows[p].copies ELSE 0]]
           h == [i \in Changed(t) |-> t.atts[i]]
<1>1. /\ UNCHANGED <<log, mapped, faults>> /\ t.kind # "idle" /\ t.todo = <<>>
      /\ ~Stale(t) /\ Keeps(t)
      /\ payload' = IF t.kind = "adms" THEN [payload EXCEPT ![t.dev] = t.batch] ELSE payload
      /\ txn' = [Missing(t.dev, Updates(t)) EXCEPT ![s] = Idle]
  BY DEF Commit
<1>2. rows' = Over(g, rows)
  BY DEF Commit, MergedRows
<1>3. atts' = Over(h, atts)
  BY DEF Commit, MergedAtts, Changed
<1>4. TxnTyped(t) /\ DOMAIN txn = Sessions /\ payload \in [Devices -> Seq(Punches)]
  BY DEF Base, Typed, TypeOK
<1> HIDE DEF t
<1>5. Handles(t) = DOMAIN t.rows
  BY <1>1 DEF Handles, Range
<1>6. \A p \in DOMAIN t.rows :
         g[p] = [state |-> t.rows[p].state, att |-> t.rows[p].att,
                 copies |-> t.rows[p].copies + IF p \in DOMAIN rows THEN rows[p].copies ELSE 0]
  BY <1>4 DEF TxnTyped, Table, Rows
<1>7. /\ DOMAIN rows' = DOMAIN rows \cup DOMAIN t.rows
      /\ \A p \in DOMAIN rows \ DOMAIN t.rows : rows'[p] = rows[p]
      /\ \A p \in DOMAIN t.rows : rows'[p] = g[p]
  <2>1. DOMAIN g = DOMAIN t.rows
    OBVIOUS
  <2> HIDE DEF g
  <2>2. QED
    BY <1>2, <2>1 DEF Over
<1>8. /\ DOMAIN atts' = DOMAIN atts \cup Changed(t)
      /\ \A i \in DOMAIN atts \ Changed(t) : atts'[i] = atts[i]
      /\ \A i \in Changed(t) : atts'[i] = t.atts[i]
  BY <1>3 DEF Over
<1>9. /\ payload' \in [Devices -> Seq(Punches)]
      /\ \A d \in Devices :
            payload'[d] = IF t.kind = "adms" /\ d = t.dev THEN t.batch ELSE payload[d]
  <2>1. t.batch \in Seq(Punches)
    BY <1>4 DEF TxnTyped
  <2>2. QED
    BY <1>1, <1>4, <2>1
<1>10. Overtaken(s)
  <2>1. Updates(t) \in SUBSET Shared
    BY DEF Updates, Shared
  <2>2. DOMAIN txn' = Sessions /\ txn'[s] = Idle
    BY <1>1 DEF Missing
  <2>3. ASSUME NEW v \in Sessions \ {s}
        PROVE  /\ TxnTyped(txn'[v]) /\ Same(txn[v], txn'[v])
               /\ Ingesting(txn[v]) /\ txn[v].dev = t.dev => Updates(t) \subseteq txn'[v].missed
    <3>1. txn'[v] = Missing(t.dev, Updates(t))[v]
      BY <1>1, <2>3 DEF Missing
    <3>2. LET u == Missing(t.dev, Updates(t))[v]
          IN /\ TxnTyped(u) /\ Same(txn[v], u)
             /\ Ingesting(txn[v]) /\ txn[v].dev = t.dev => Updates(t) \subseteq u.missed
      BY <2>1, MissingLaws
    <3>3. QED
      BY <3>1, <3>2
  <2>4. QED
    BY <2>2, <2>3 DEF Overtaken, t
<1> HIDE DEF g, h
<1>11. Merged(s)
  BY <1>6, <1>7, <1>8, <1>9 DEF Merged, t
<1>12. QED
  BY <1>1, <1>5, <1>9, <1>10, <1>11 DEF t

\* A step that records nothing and stores or handles only what is recorded.
LEMMA StillApart ==
    ASSUME Base, UNCHANGED log, DOMAIN rows' \subseteq Recorded,
           \A s \in Sessions : Handles(txn'[s]) \subseteq Recorded
    PROVE  Apart'
<1>1. Recorded' = Recorded
  BY DEF Recorded
<1>2. QED
  BY <1>1 DEF Base, Apart

\* A step that leaves what is waited for as it was.
LEMMA StillAwaited ==
    ASSUME Base, UNCHANGED <<log, acked>>,
           \A d \in Devices : waiting'[d] \in {waiting[d], NoSession},
           \A d \in Devices : waiting'[d] # NoSession /\ Ingesting(txn[waiting[d]]) =>
               LET t == txn[waiting[d]]
                   u == txn'[waiting[d]]
               IN u.kind = t.kind /\ u.dev = t.dev /\ u.batch = t.batch
    PROVE  \A d \in Devices : Awaited(d)'
<1> SUFFICES ASSUME NEW d \in Devices PROVE Awaited(d)'
  OBVIOUS
<1>1. Awaited(d)
  BY DEF Base
<1>2. ASSUME waiting'[d] # NoSession
      PROVE  Expects(txn'[waiting'[d]], d, acked[d], log[d])
  <2>1. waiting'[d] = waiting[d]
    BY <1>2
  <2>2. Expects(txn[waiting[d]], d, acked[d], log[d])
    BY <1>1, <1>2, <2>1 DEF Awaited
  <2>3. Ingesting(txn[waiting[d]])
    BY <2>2 DEF Expects
  <2>4. LET t == txn[waiting[d]]
            u == txn'[waiting[d]]
        IN u.kind = t.kind /\ u.dev = t.dev /\ u.batch = t.batch
    BY <1>2, <2>3
  <2>5. QED
    BY <2>1, <2>2, <2>4 DEF Expects, Ingesting
<1>3. QED
  BY <1>1, <1>2 DEF Awaited

LEMMA BaseAtFirst == Init => Base
<1> SUFFICES ASSUME Init PROVE Base
  OBVIOUS
<1>1. \A d \in Devices : log[d] = <<>> /\ DOMAIN log[d] = {} /\ Range(log[d]) = {} /\ Len(log[d]) = 0
  BY DEF Init, Range
<1>2. Recorded = {}
  BY <1>1 DEF Recorded
<1>3. \A s \in Sessions : txn[s] = Idle
  BY DEF Init
<1>4. IsFiniteSet({}) /\ <<>> \in Seq(Punches) /\ DOMAIN rows = {} /\ DOMAIN atts = {}
  BY FS_EmptySet DEF Init
<1>5. \A s \in Sessions : TxnTyped(txn[s]) /\ txn[s].mapped \subseteq mapped
                          /\ Handles(txn[s]) = {} /\ txn[s].kind = "idle"
  BY <1>3, IdleLaws
<1>6. TypeOK
  <2>1. log \in [Devices -> Seq(Punches)] /\ payload \in [Devices -> Seq(Punches)]
    BY <1>4 DEF Init
  <2>2. mapped \subseteq Devices /\ faults \in 0 .. MaxFaults
    BY ConstantsAssumption DEF Init
  <2>3. acked \in [Devices -> Nat] /\ waiting \in [Devices -> Sessions \cup {NoSession}]
        /\ DOMAIN txn = Sessions
    BY DEF Init
  <2>4. QED
    BY <1>4, <1>5, <2>1, <2>2, <2>3 DEF TypeOK, Table
<1>7. Apart
  BY <1>1, <1>2, <1>4, <1>5 DEF Apart
<1>8. \A d \in Devices : Awaited(d)
  BY <1>1 DEF Init, Awaited
<1>9. QED
  BY <1>5, <1>6, <1>7, <1>8 DEF Base, Typed

\* A new punch comes last in time.
LEMMA PunchKeeps ==
    ASSUME Base, NEW d \in Devices, NEW dir \in Direction[d], Punch(d, dir)
    PROVE  /\ Base' /\ Recorded \subseteq Recorded'
           /\ \A e \in Devices : \A i \in 1 .. acked[e] : log'[e][i] = log[e][i]
<1> DEFINE n == Cardinality(Recorded)
           p == [dev |-> d, at |-> n + 1, dir |-> dir]
<1>1. /\ n < MaxPunches /\ log' = [log EXCEPT ![d] = Append(@, p)]
      /\ UNCHANGED <<acked, waiting, rows, atts, mapped, payload, txn, faults>>
  BY DEF Punch, tables
<1>2. n \in Nat
  BY FS_CardinalityType DEF Base, Apart
<1>3. p \in Punches /\ p.at = n + 1 /\ p.dev = d
  <2>1. n + 1 \in Times
    BY <1>1, <1>2, ConstantsAssumption DEF Times
  <2>2. dir \in Directions
    BY ConstantsAssumption
  <2>3. QED
    BY <2>1, <2>2 DEF Punches
<1> HIDE DEF p
<1>4. log \in [Devices -> Seq(Punches)]
  BY DEF Base, Typed, TypeOK
<1>5. \A e \in Devices : log'[e] \in Seq(Punches) /\ (e # d => log'[e] = log[e])
  BY <1>1, <1>3, <1>4
<1>6. /\ Len(log'[d]) = Len(log[d]) + 1 /\ log'[d][Len(log[d]) + 1] = p
      /\ \A i \in 1 .. Len(log[d]) : log'[d][i] = log[d][i]
      /\ DOMAIN log'[d] = DOMAIN log[d] \cup {Len(log[d]) + 1}
  BY <1>1, <1>3, <1>4
<1>7. Range(log'[d]) = Range(log[d]) \cup {p}
  <2>1. DOMAIN log[d] = 1 .. Len(log[d])
    BY <1>4
  <2>2. QED
    BY <1>6, <2>1 DEF Range
<1>8. Recorded' = Recorded \cup {p}
  <2>1. Recorded' = UNION {Range(log'[e]) : e \in Devices}
    BY DEF Recorded
  <2>2. \A e \in Devices : Range(log'[e]) = IF e = d THEN Range(log[e]) \cup {p} ELSE Range(log[e])
    BY <1>5, <1>7
  <2>3. QED
    BY <2>1, <2>2 DEF Recorded
<1>9. \A q \in Recorded : q.at <= n /\ q.at \in Nat
  <2>1. Recorded \subseteq Punches
    BY <1>4 DEF Recorded, Range
  <2>2. QED
    BY <2>1, ConstantsAssumption DEF Base, Apart, Punches, Times
<1>10. p \notin Recorded
  BY <1>2, <1>3, <1>9
<1>11. IsFiniteSet(Recorded') /\ Cardinality(Recorded') = n + 1
  BY <1>8, <1>10, FS_AddElement DEF Base, Apart
<1>12. Apart'
  <2>1. \A e \in Devices : \A i \in DOMAIN log'[e] : log'[e][i].dev = e
    <3>1. \A i \in DOMAIN log'[d] : log'[d][i].dev = d
      <4>1. DOMAIN log[d] = 1 .. Len(log[d])
        BY <1>4
      <4>2. QED
        BY <1>3, <1>6, <4>1 DEF Base, Apart
    <3>2. QED
      BY <1>5, <3>1 DEF Base, Apart
  <2>2. \A q \in Recorded' : q.at <= n + 1
    BY <1>2, <1>3, <1>8, <1>9
  <2>3. \A q, r \in Recorded' : q.at = r.at => q = r
    <3>1. \A q \in Recorded : q.at # n + 1
      BY <1>2, <1>9
    <3>2. \A q, r \in Recorded : q.at = r.at => q = r
      BY DEF Base, Apart
    <3>3. QED
      BY <1>3, <1>8, <3>1, <3>2
  <2>4. DOMAIN rows \subseteq Recorded' /\ \A s \in Sessions : Handles(txn[s]) \subseteq Recorded'
    BY <1>8 DEF Base, Apart
  <2>5. QED
    BY <1>1, <1>11, <2>1, <2>2, <2>3, <2>4 DEF Apart
<1>13. ASSUME NEW e \in Devices PROVE Awaited(e)'
  <2>1. Awaited(e) /\ acked[e] \in Nat /\ Len(log[e]) \in Nat /\ acked'[e] = acked[e]
        /\ waiting'[e] = waiting[e] /\ txn' = txn
    BY <1>1, <1>4 DEF Base, Typed, TypeOK
  <2>2. Len(log'[e]) >= Len(log[e]) /\ \A i \in 1 .. Len(log[e]) : log'[e][i] = log[e][i]
    BY <1>5, <1>6, <2>1
  <2>3. Len(log'[e]) \in Nat
    BY <1>5
  <2>4. ASSUME waiting[e] # NoSession, NEW t, t = txn[waiting[e]]
        PROVE  Expects(t, e, acked[e], log'[e])
    <3>1. Expects(t, e, acked[e], log[e])
      BY <2>1, <2>4 DEF Awaited
    <3>2. t.batch \in Seq(Punches)
      <4>1. waiting[e] \in Sessions
        BY <2>4 DEF Base, Typed, TypeOK
      <4>2. QED
        BY <2>4, <4>1 DEF Base, Typed, TxnTyped
    <3>3. Len(t.batch) \in Nat
      BY <3>2
    <3>4. \A k \in 1 .. Len(t.batch) : acked[e] + k \in 1 .. Len(log[e])
      BY <2>1, <3>1, <3>3 DEF Expects
    <3>5. acked[e] + Len(t.batch) <= Len(log'[e])
      BY <2>1, <2>2, <2>3, <3>1, <3>3 DEF Expects
    <3>6. \A k \in 1 .. Len(t.batch) : t.batch[k] = log'[e][acked[e] + k]
      BY <2>2, <3>1, <3>4 DEF Expects
    <3>7. QED
      BY <3>1, <3>5, <3>6 DEF Expects
  <2>5. QED
    BY <2>1, <2>2, <2>3, <2>4 DEF Awaited
<1>14. TypeOK'
  <2>1. log' \in [Devices -> Seq(Punches)]
    BY <1>1, <1>3, <1>4
  <2>2. QED
    BY <1>1, <2>1 DEF Base, Typed, TypeOK
<1>15. Base'
  BY <1>1, <1>12, <1>13, <1>14 DEF Base, Typed
<1>16. ASSUME NEW e \in Devices, NEW i \in 1 .. acked[e] PROVE log'[e][i] = log[e][i]
  <2>1. acked[e] \in Nat /\ Len(log[e]) \in Nat /\ acked[e] <= Len(log[e])
    BY <1>4 DEF Base, Typed, TypeOK, Awaited
  <2>2. QED
    BY <1>5, <1>6, <2>1
<1>17. QED
  BY <1>8, <1>15, <1>16

\* Every step but a punch: what is left to show of Base.
LEMMA BaseByParts ==
    ASSUME Base, UNCHANGED log, TypeOK', DOMAIN rows' \subseteq Recorded,
           \A s \in Sessions : /\ TxnTyped(txn'[s]) /\ txn'[s].mapped \subseteq mapped'
                               /\ Handles(txn'[s]) \subseteq Recorded,
           \A d \in Devices : Awaited(d)'
    PROVE  Base'
<1>1. Apart'
  BY StillApart
<1>2. QED
  BY <1>1 DEF Base, Typed

LEMMA BeginKeeps ==
    ASSUME Base, NEW s \in Sessions, Begins(s)
    PROVE  Base'
<1>1. PICK t : TxnTyped(t) /\ Fresh(t) /\ txn' = [txn EXCEPT ![s] = t]
  BY BegunFresh
<1>2. UNCHANGED <<log, tables, faults>> /\ txn[s].kind = "idle"
  BY BegunFresh
<1>3. TypeOK /\ Apart /\ "idle" \notin Protocols
  BY DEF Base, Typed, Protocols
<1>4. \A v \in Sessions : /\ TxnTyped(txn'[v]) /\ txn'[v].mapped \subseteq mapped'
                          /\ Handles(txn'[v]) \subseteq Recorded
  <2>1. /\ TxnTyped(t) /\ t.mapped \subseteq mapped /\ Handles(t) \subseteq Recorded
        /\ mapped' = mapped /\ txn'[s] = t
    BY <1>1, <1>2, <1>3 DEF Fresh, tables, TypeOK
  <2>2. \A v \in Sessions \ {s} : txn'[v] = txn[v]
    BY <1>1, <1>3 DEF TypeOK
  <2>3. QED
    BY <2>1, <2>2 DEF Base, Typed, Apart
<1>5. \A d \in Devices : waiting[d] # s
  BY <1>2, <1>3, ConstantsAssumption DEF Base, Awaited, Expects, Ingesting
<1>6. \A v \in Sessions \ {s} : txn'[v] = txn[v]
  BY <1>1, <1>3 DEF TypeOK
<1>7. \A d \in Devices : waiting[d] # NoSession => waiting[d] \in Sessions \ {s}
  BY <1>3, <1>5 DEF TypeOK
<1>8. CASE UNCHANGED <<acked, waiting>>
  <2>1. TypeOK'
    BY <1>1, <1>2, <1>3, <1>4, <1>8 DEF TypeOK, tables, TxnTyped
  <2>2. \A d \in Devices : Awaited(d)'
    BY <1>2, <1>6, <1>7, <1>8, StillAwaited
  <2>3. QED
    BY <1>2, <1>3, <1>4, <2>1, <2>2, BaseByParts DEF Apart, tables
<1>9. ASSUME NEW d \in Devices, Protocol[d] # "pull", Ingest(s, Protocol[d], d, TRUE) \/ Ingest(s, Protocol[d], d, FALSE),
             waiting' = [waiting EXCEPT ![d] = s], UNCHANGED acked
      PROVE  Base'
  <2>1. TypeOK'
    BY <1>1, <1>2, <1>3, <1>4, <1>9 DEF TypeOK, tables, TxnTyped
  <2>2. txn'[s].dev = d /\ txn'[s].kind = Protocol[d] /\ txn'[s].batch = Unsent(d)
    BY <1>3, <1>9 DEF Ingest, Opened, TypeOK
  <2>3. /\ Len(Unsent(d)) = Len(log[d]) - acked[d] /\ acked[d] \in Nat /\ Len(log[d]) \in Nat
        /\ \A k \in 1 .. Len(Unsent(d)) : Unsent(d)[k] = log[d][acked[d] + k]
    BY <1>3, UnsentLaws DEF TypeOK
  <2>4. Ingesting(txn'[s])
    BY <2>2, ConstantsAssumption DEF Ingesting
  <2>5. Expects(txn'[s], d, acked[d], log[d])
    BY <1>9, <2>2, <2>3, <2>4 DEF Expects
  <2>6. ASSUME NEW e \in Devices PROVE Awaited(e)'
    <3>1. Awaited(e)
      BY DEF Base
    <3>2. CASE e = d
      BY <1>2, <1>3, <1>9, <2>5, <3>1, <3>2 DEF Awaited, TypeOK
    <3>3. CASE e # d
      BY <1>2, <1>3, <1>6, <1>7, <1>9, <3>1, <3>3 DEF Awaited, TypeOK
    <3>4. QED
      BY <3>2, <3>3
  <2>7. QED
    BY <1>2, <1>3, <1>4, <2>1, <2>6, BaseByParts DEF Apart, tables
<1>10. ASSUME NEW d \in Devices, Pull(d, s)
       PROVE  Base'
  <2>1. /\ UNCHANGED waiting /\ Protocol[d] = "pull"
        /\ acked' = IF d \in AutoClear THEN [acked EXCEPT ![d] = Len(log[d])] ELSE acked
    BY <1>10 DEF Pull
  <2>2. Len(log[d]) \in Nat
    BY <1>3 DEF TypeOK
  <2>3. TypeOK'
    BY <1>1, <1>2, <1>3, <1>4, <2>1, <2>2 DEF TypeOK, tables, TxnTyped
  <2>4. ASSUME NEW e \in Devices PROVE Awaited(e)'
    <3>1. Awaited(e)
      BY DEF Base
    <3>2. CASE e = d
      <4>1. acked'[d] <= Len(log[d])
        BY <1>3, <2>1, <2>2, <3>1, <3>2 DEF TypeOK, Awaited
      <4>2. waiting[d] = NoSession
        BY <2>1, <3>1, <3>2 DEF Awaited, Expects
      <4>3. QED
        BY <1>2, <2>1, <3>2, <4>1, <4>2 DEF Awaited
    <3>3. CASE e # d
      BY <1>2, <1>3, <1>6, <1>7, <2>1, <3>1, <3>3 DEF Awaited, TypeOK
    <3>4. QED
      BY <3>2, <3>3
  <2>5. QED
    BY <1>2, <1>3, <1>4, <2>3, <2>4, BaseByParts DEF Apart, tables
<1>11. QED
  <2>1. CASE Reprocess(s)
    BY <1>8, <2>1 DEF Reprocess, terminal
  <2>2. ASSUME NEW d \in Devices, NEW quiet \in BOOLEAN, SendAdms(d, s, quiet) PROVE Base'
    <3> DEFINE touched == quiet \/ payload[d] # Unsent(d)
    <3>1. /\ Ingest(s, Protocol[d], d, touched) /\ Protocol[d] # "pull"
          /\ waiting' = [waiting EXCEPT ![d] = s] /\ UNCHANGED acked
      BY <2>2 DEF SendAdms
    <3>2. touched = TRUE \/ touched = FALSE
      OBVIOUS
    <3> HIDE DEF touched
    <3>3. QED
      BY <1>9, <3>1, <3>2
  <2>3. ASSUME NEW d \in Devices, SendPush(d, s) PROVE Base'
    BY <1>9, <2>3 DEF SendPush
  <2>4. QED
    BY <1>10, <2>1, <2>2, <2>3 DEF Begins

LEMMA HandleKeeps ==
    ASSUME Base, NEW s \in Sessions, Handle(s)
    PROVE  Base'
<1>1. PICK p, v, u : /\ TxnTyped(u) /\ Handling(txn[s], p, v, u)
                     /\ txn' = [txn EXCEPT ![s] = u]
  BY HandledOne
<1>2. UNCHANGED <<log, acked, waiting, tables, faults>>
  BY HandledOne
<1>3. TypeOK /\ Apart
  BY DEF Base, Typed
<1>4. txn'[s] = u /\ \A w \in Sessions \ {s} : txn'[w] = txn[w]
  BY <1>1, <1>3 DEF TypeOK
<1>5. \A w \in Sessions : /\ TxnTyped(txn'[w]) /\ txn'[w].mapped \subseteq mapped'
                          /\ Handles(txn'[w]) \subseteq Recorded
  <2>1. TxnTyped(u) /\ u.mapped \subseteq mapped /\ Handles(u) \subseteq Recorded
    BY <1>1, <1>3 DEF Handling, Base, Typed, Apart
  <2>2. mapped' = mapped
    BY <1>2 DEF tables
  <2>3. QED
    BY <1>3, <1>4, <2>1, <2>2 DEF Base, Typed, Apart
<1>6. TypeOK'
  BY <1>1, <1>2, <1>3, <1>5 DEF TypeOK, tables, TxnTyped
<1>7. \A d \in Devices : Awaited(d)'
  <2>1. \A d \in Devices : waiting[d] # NoSession => waiting[d] \in Sessions
    BY <1>3 DEF TypeOK
  <2>2. \A w \in Sessions : LET t == txn[w] x == txn'[w]
                            IN x.kind = t.kind /\ x.dev = t.dev /\ x.batch = t.batch
    BY <1>1, <1>4 DEF Handling
  <2>3. QED
    BY <1>2, <2>1, <2>2, StillAwaited
<1>8. QED
  BY <1>2, <1>3, <1>5, <1>6, <1>7, BaseByParts DEF Apart, tables

LEMMA CommitKeeps ==
    ASSUME Base, NEW s \in Sessions, Commit(s)
    PROVE  Base'
<1> DEFINE t == txn[s]
<1>1. /\ UNCHANGED <<log, mapped, faults>> /\ Merged(s) /\ Overtaken(s)
      /\ t.kind # "idle" /\ Handles(t) = DOMAIN t.rows
      /\ payload' \in [Devices -> Seq(Punches)]
  BY CommittedOne
<1>2. TypeOK /\ Apart /\ TxnTyped(t)
  BY DEF Base, Typed
<1>3. /\ waiting' = [d \in Devices |-> IF waiting[d] = s THEN NoSession ELSE waiting[d]]
      /\ acked' = [d \in Devices |-> IF waiting[d] = s /\ Answer(t)
                                     THEN acked[d] + Len(t.batch) ELSE acked[d]]
  BY DEF Commit, Answered, Waits
<1>4. \A v \in Sessions : /\ TxnTyped(txn'[v]) /\ txn'[v].mapped \subseteq mapped'
                          /\ Handles(txn'[v]) \subseteq Recorded
  <2>1. TxnTyped(Idle) /\ Idle.mapped = {} /\ Handles(Idle) = {}
    BY IdleLaws
  <2>2. ASSUME NEW v \in Sessions \ {s}
        PROVE  /\ TxnTyped(txn'[v]) /\ txn'[v].mapped = txn[v].mapped
               /\ Handles(txn'[v]) = Handles(txn[v])
    BY <1>1 DEF Overtaken, Same, Handles
  <2>3. txn'[s] = Idle
    BY <1>1 DEF Overtaken
  <2>4. QED
    BY <1>1, <1>2, <2>1, <2>2, <2>3 DEF Base, Typed, Apart
<1>5. Table(rows', Punches, Rows) /\ DOMAIN rows' \subseteq Recorded
  <2>1. DOMAIN rows' = DOMAIN rows \cup DOMAIN t.rows
    BY <1>1 DEF Merged
  <2>2. \A p \in DOMAIN rows : rows[p] \in Rows
    BY <1>2 DEF TypeOK, Table
  <2>3. \A p \in DOMAIN t.rows : p \in Punches /\ t.rows[p] \in Rows
    BY <1>2 DEF TxnTyped, Table
  <2>4. ASSUME NEW p \in DOMAIN t.rows PROVE rows'[p] \in Rows
    <3>1. rows'[p] = [state |-> t.rows[p].state, att |-> t.rows[p].att,
                      copies |-> t.rows[p].copies +
                                 IF p \in DOMAIN rows THEN rows[p].copies ELSE 0]
      BY <1>1 DEF Merged
    <3>2. p \in DOMAIN rows => rows[p].copies \in Nat
      BY <2>2 DEF Rows
    <3>3. QED
      BY <2>3, <3>1, <3>2 DEF Rows
  <2>5. \A p \in DOMAIN rows \ DOMAIN t.rows : rows'[p] = rows[p]
    BY <1>1 DEF Merged
  <2>6. Table(rows', Punches, Rows)
    BY <1>2, <2>1, <2>2, <2>3, <2>4, <2>5 DEF Table, TypeOK
  <2>7. QED
    BY <1>1, <1>2, <2>1, <2>6 DEF Apart
<1>6. Table(atts', Times, Times \cup {Open})
  BY <1>1, <1>2 DEF Merged, Changed, TypeOK, TxnTyped, Ledger, Table
<1>7. Len(t.batch) \in Nat
  BY <1>2 DEF TxnTyped
<1>8. TypeOK'
  <2>1. waiting' \in [Devices -> Sessions \cup {NoSession}] /\ acked' \in [Devices -> Nat]
    BY <1>2, <1>3, <1>7 DEF TypeOK
  <2>2. DOMAIN txn' = Sessions /\ \A v \in Sessions : txn'[v].kind \in Protocols \cup {"reprocess", "idle"}
    BY <1>1, <1>4 DEF Overtaken, TxnTyped
  <2>3. QED
    BY <1>1, <1>2, <1>5, <1>6, <2>1, <2>2 DEF TypeOK
<1>9. ASSUME NEW d \in Devices PROVE Awaited(d)'
  <2>1. Awaited(d) /\ acked[d] \in Nat /\ Len(log[d]) \in Nat /\ log'[d] = log[d]
    BY <1>1, <1>2 DEF Base, TypeOK
  <2>2. CASE waiting[d] = s
    <3>1. Expects(t, d, acked[d], log[d])
      BY <2>1, <2>2, ConstantsAssumption DEF Awaited
    <3>2. acked'[d] <= Len(log[d])
      BY <1>3, <1>7, <2>1, <3>1 DEF Expects, Awaited
    <3>3. QED
      BY <1>3, <2>1, <2>2, <3>2 DEF Awaited
  <2>3. CASE waiting[d] # s
    <3>1. acked'[d] = acked[d] /\ waiting'[d] = waiting[d]
      BY <1>3, <2>3
    <3>2. ASSUME waiting[d] # NoSession
          PROVE  Expects(txn'[waiting[d]], d, acked[d], log[d])
      <4>1. waiting[d] \in Sessions \ {s} /\ Expects(txn[waiting[d]], d, acked[d], log[d])
        BY <1>2, <2>1, <2>3, <3>2 DEF TypeOK, Awaited
      <4>2. Same(txn[waiting[d]], txn'[waiting[d]])
        BY <1>1, <4>1 DEF Overtaken
      <4>3. QED
        BY <4>1, <4>2 DEF Expects, Same, Ingesting
    <3>3. QED
      BY <2>1, <3>1, <3>2 DEF Awaited
  <2>4. QED
    BY <2>2, <2>3
<1>10. QED
  BY <1>1, <1>4, <1>5, <1>8, <1>9, BaseByParts

\* A step that stores nothing: a punch, an answer that comes too late or to a
\* terminal without a row, a mapping, a heartbeat, or the end of a transaction in
\* vain.
Lapse ==
    /\ UNCHANGED <<rows, atts, payload>>
    /\ mapped \subseteq mapped' /\ Recorded \subseteq Recorded'
    /\ \A d \in Devices \ Unmatched : acked'[d] = acked[d]
    /\ \A d \in Devices : \A i \in 1 .. acked[d] : log'[d][i] = log[d][i]
    /\ \A s \in Sessions : txn'[s] = Idle \/ Same(txn[s], txn'[s])

LEMMA LapseByParts ==
    ASSUME Base, UNCHANGED <<log, acked, rows, atts, payload>>,
           mapped \subseteq mapped', mapped' \subseteq Devices, faults' \in 0 .. MaxFaults,
           waiting' \in [Devices -> Sessions \cup {NoSession}], DOMAIN txn' = Sessions,
           \A d \in Devices : /\ waiting'[d] \in {waiting[d], NoSession}
                              /\ waiting'[d] # NoSession => Same(txn[waiting[d]], txn'[waiting[d]]),
           \A s \in Sessions : \/ txn'[s] = Idle
                               \/ (TxnTyped(txn'[s]) /\ Same(txn[s], txn'[s]))
    PROVE  Base' /\ Lapse
<1>1. TypeOK /\ Apart /\ TxnTyped(Idle) /\ Idle.mapped = {} /\ Handles(Idle) = {}
  BY IdleLaws DEF Base, Typed
<1>2. \A s \in Sessions : /\ TxnTyped(txn'[s]) /\ txn'[s].mapped \subseteq mapped'
                          /\ Handles(txn'[s]) \subseteq Recorded
  BY <1>1 DEF Base, Typed, Apart, Same, Handles
<1>3. TypeOK'
  BY <1>1, <1>2 DEF TypeOK, TxnTyped
<1>4. \A d \in Devices : Awaited(d)'
  BY StillAwaited DEF Same
<1>5. Base'
  BY <1>1, <1>2, <1>3, <1>4, BaseByParts DEF Apart
<1>6. Recorded' = Recorded
  BY DEF Recorded
<1>7. QED
  BY <1>5, <1>6 DEF Lapse

\* The session's transaction ends, and the terminals it answers wait no longer.
LEMMA EndKeeps ==
    ASSUME Base, NEW s \in Sessions, txn' = [txn EXCEPT ![s] = Idle], Answered(s),
           faults' \in 0 .. MaxFaults,
           UNCHANGED <<log, acked, rows, atts, mapped, payload>>
    PROVE  Base' /\ Lapse
<1>1. TypeOK
  BY DEF Base, Typed
<1>2. waiting' = [d \in Devices |-> IF waiting[d] = s THEN NoSession ELSE waiting[d]]
  BY DEF Answered, Waits
<1>3. txn'[s] = Idle /\ \A v \in Sessions \ {s} : txn'[v] = txn[v]
  BY <1>1 DEF TypeOK
<1>4. \A v \in Sessions : txn'[v] = Idle \/ (TxnTyped(txn'[v]) /\ Same(txn[v], txn'[v]))
  <2>1. \A v \in Sessions : TxnTyped(txn[v]) /\ Same(txn[v], txn[v])
    BY DEF Base, Typed, Same
  <2>2. QED
    BY <1>3, <2>1
<1>5. \A d \in Devices :
         /\ waiting'[d] \in {waiting[d], NoSession}
         /\ waiting'[d] # NoSession => Same(txn[waiting[d]], txn'[waiting[d]])
  BY <1>1, <1>2, <1>3 DEF TypeOK, Same
<1>6. /\ waiting' \in [Devices -> Sessions \cup {NoSession}] /\ DOMAIN txn' = Sessions
      /\ mapped' \subseteq Devices /\ mapped \subseteq mapped'
  BY <1>1, <1>2 DEF TypeOK
<1>7. QED
  BY <1>4, <1>5, <1>6, LapseByParts

\* Every step keeps Base, and is a lapse or one of a transaction.
LEMMA Steps ==
    ASSUME Base, [Next]_vars
    PROVE  Base' /\ (Lapse \/ \E s \in Sessions : Begins(s) \/ Handle(s) \/ Commit(s))
<1>1. TypeOK /\ \A s \in Sessions : TxnTyped(txn[s]) /\ Same(txn[s], txn[s])
  BY DEF Base, Typed, Same
<1>2. ASSUME Fault PROVE faults' \in 0 .. MaxFaults
  BY <1>1, <1>2, ConstantsAssumption DEF Fault, TypeOK
<1>3. ASSUME NEW d \in Devices, NEW dir \in Direction[d], Punch(d, dir)
      PROVE  Base' /\ Lapse
  <2>1. /\ Base' /\ Recorded \subseteq Recorded'
        /\ \A e \in Devices : \A i \in 1 .. acked[e] : log'[e][i] = log[e][i]
    BY <1>3, PunchKeeps
  <2>2. QED
    BY <1>1, <1>3, <2>1 DEF Lapse, Punch, tables
<1>4. ASSUME UNCHANGED <<log, acked, rows, atts, payload, txn>>,
             mapped \subseteq mapped', mapped' \subseteq Devices, faults' \in 0 .. MaxFaults,
             waiting' \in [Devices -> Sessions \cup {NoSession}],
             \A d \in Devices : waiting'[d] \in {waiting[d], NoSession}
      PROVE  Base' /\ Lapse
  <2>1. \A s \in Sessions : TxnTyped(txn'[s]) /\ Same(txn[s], txn'[s])
    BY <1>1, <1>4
  <2>2. \A d \in Devices : waiting'[d] # NoSession => Same(txn[waiting[d]], txn'[waiting[d]])
    BY <1>1, <1>4 DEF TypeOK
  <2>3. QED
    BY <1>1, <1>4, <2>1, <2>2, LapseByParts DEF TypeOK
<1>5. ASSUME NEW d \in Devices, TimesOut(d) PROVE Base' /\ Lapse
  <2>1. /\ UNCHANGED <<log, acked, rows, atts, mapped, payload, txn>>
        /\ waiting' = [waiting EXCEPT ![d] = NoSession] /\ faults' \in 0 .. MaxFaults
    BY <1>2, <1>5 DEF TimesOut, tables
  <2>2. QED
    BY <1>1, <1>4, <2>1 DEF TypeOK
<1>6. ASSUME NEW d \in Devices, MapEmployee(d) PROVE Base' /\ Lapse
  BY <1>1, <1>4, <1>6 DEF MapEmployee, terminal, TypeOK
<1>7. ASSUME NEW d \in Devices, Heartbeat(d) PROVE Base' /\ Lapse
  <2>1. /\ UNCHANGED <<log, acked, waiting, rows, atts, mapped, payload, faults>>
        /\ txn' = Missing(d, {"device"})
    BY <1>7 DEF Heartbeat, terminal, tables
  <2>2. {"device"} \in SUBSET Shared
    BY DEF Shared
  <2>3. ASSUME NEW s \in Sessions PROVE TxnTyped(txn'[s]) /\ Same(txn[s], txn'[s])
    <3>1. LET u == Missing(d, {"device"})[s] IN TxnTyped(u) /\ Same(txn[s], u)
      BY <2>2, MissingLaws
    <3>2. QED
      BY <2>1, <3>1
  <2>4. DOMAIN txn' = Sessions
    BY <2>1 DEF Missing
  <2>5. \A e \in Devices : waiting[e] # NoSession => waiting[e] \in Sessions
    BY <1>1 DEF TypeOK
  <2>6. QED
    BY <1>1, <2>1, <2>3, <2>4, <2>5, LapseByParts DEF TypeOK
<1>14. ASSUME NEW d \in Devices, SendUnmatched(d) PROVE Base' /\ Lapse
  <2>1. /\ UNCHANGED <<log, waiting, rows, atts, mapped, payload, txn, faults>>
        /\ acked' = [acked EXCEPT ![d] = Len(log[d])] /\ waiting[d] = NoSession
        /\ d \in Unmatched
    BY <1>14 DEF SendUnmatched, tables
  <2>2. Len(log[d]) \in Nat
    BY <1>1 DEF TypeOK
  <2>3. TypeOK'
    BY <1>1, <2>1, <2>2 DEF TypeOK
  <2>4. ASSUME NEW e \in Devices PROVE Awaited(e)'
    <3>1. Awaited(e)
      BY DEF Base
    <3>2. CASE e = d
      BY <1>1, <2>1, <2>2, <3>2 DEF Awaited, TypeOK
    <3>3. CASE e # d
      BY <1>1, <2>1, <3>1, <3>3 DEF Awaited, TypeOK, Expects
    <3>4. QED
      BY <3>2, <3>3
  <2>5. Base'
    BY <1>1, <2>1, <2>3, <2>4, BaseByParts DEF Base, Apart, Typed
  <2>6. Recorded' = Recorded
    BY <2>1 DEF Recorded
  <2>7. \A e \in Devices \ Unmatched : acked'[e] = acked[e]
    BY <1>1, <2>1 DEF TypeOK
  <2>8. QED
    BY <1>1, <2>1, <2>5, <2>6, <2>7 DEF Lapse
<1>8. ASSUME NEW s \in Sessions, RollBack(s) PROVE Base' /\ Lapse
  <2>1. /\ UNCHANGED <<log, acked, rows, atts, mapped, payload, faults>>
        /\ txn' = [txn EXCEPT ![s] = Idle] /\ Answered(s)
    BY <1>8 DEF RollBack, tables
  <2>2. QED
    BY <1>1, <2>1, EndKeeps DEF TypeOK
<1>9. ASSUME NEW s \in Sessions, Crash(s) PROVE Base' /\ Lapse
  <2>1. /\ UNCHANGED <<log, acked, rows, atts, mapped, payload>>
        /\ txn' = [txn EXCEPT ![s] = Idle] /\ Answered(s) /\ faults' \in 0 .. MaxFaults
    BY <1>2, <1>9 DEF Crash, tables
  <2>2. QED
    BY <2>1, EndKeeps
<1>10. CASE UNCHANGED vars
  BY <1>1, <1>4, <1>10 DEF vars, TypeOK
<1>11. ASSUME NEW s \in Sessions, Begins(s) \/ Handle(s) \/ Commit(s)
       PROVE  Base' /\ \E v \in Sessions : Begins(v) \/ Handle(v) \/ Commit(v)
  BY <1>11, BeginKeeps, HandleKeeps, CommitKeeps
<1>12. CASE Next
  <2>1. ASSUME NEW d \in Devices, Terminal(d)
        PROVE  \/ \E dir \in Direction[d] : Punch(d, dir)
               \/ SendUnmatched(d) \/ TimesOut(d) \/ MapEmployee(d) \/ Heartbeat(d)
               \/ \E s \in Sessions : Begins(s)
    BY <2>1 DEF Terminal, Begins
  <2>2. ASSUME NEW s \in Sessions, Session(s)
        PROVE  RollBack(s) \/ Crash(s) \/ Begins(s) \/ Handle(s) \/ Commit(s)
    BY <2>2 DEF Session, Begins
  <2>3. CASE \E d \in Devices : Terminal(d)
    BY <1>3, <1>5, <1>6, <1>7, <1>11, <1>14, <2>1, <2>3
  <2>4. CASE \E s \in Sessions : Session(s)
    BY <1>8, <1>9, <1>11, <2>2, <2>4
  <2>5. QED
    BY <1>12, <2>3, <2>4 DEF Next
<1>13. QED
  BY <1>10, <1>12

LEMMA BaseHolds == Spec => []Base
<1>1. Base /\ [Next]_vars => Base'
  BY Steps
<1>2. QED
  BY <1>1, BaseAtFirst, PTL DEF Spec

\* Types are kept: what a terminal, a table or a worker holds is always of its kind,
\* through every request, answer, roll-back and crash of iot_attendance_device.py.
THEOREM AttendanceTypeCorrect == Spec => []TypeOK
<1>1. Base => TypeOK
  BY DEF Base, Typed
<1>2. QED
  BY <1>1, BaseHolds, PTL

--------------------------------------------------------------------------------
(* What a transaction handles, and what its end stores *)

\* A transaction of a terminal handles its punches only, and its whole batch unless
\* something raised, which only a known employee's punch does; a reprocessing
\* handles what is stored.  No transaction misses the mappings of the start.
InScope(t, stored) ==
    /\ t.kind = "reprocess" => Handles(t) \subseteq stored
    /\ Ingesting(t) => /\ \A p \in Handles(t) : p.dev = t.dev
                       /\ ~t.raised => Range(t.batch) \subseteq stored \cup Handles(t)
                       /\ t.raised => t.dev \in t.mapped \cup Coded
                       /\ Known \subseteq t.mapped
    /\ \A p \in DOMAIN t.rows : t.rows[p].copies = IF t.kind = "reprocess" THEN 0 ELSE 1
    /\ t.raised => t.todo = <<>>

Scope == Known \subseteq mapped /\ \A s \in Sessions : InScope(txn[s], DOMAIN rows)

LEMMA InScopeIdle == \A stored : InScope(Idle, stored)
<1>1. DOMAIN Idle.rows = {} /\ "idle" # "reprocess"
  BY IdleLaws DEF Handles
<1>2. QED
  BY <1>1, IdleLaws DEF InScope

LEMMA InScopeSame ==
    ASSUME NEW t, NEW u, Same(t, u), NEW S, NEW T, S \subseteq T, InScope(t, S)
    PROVE  InScope(u, T)
<1>1. Handles(u) = Handles(t) /\ (Ingesting(u) <=> Ingesting(t))
  BY DEF Same, Handles, Ingesting
<1>2. QED
  BY <1>1 DEF InScope, Same

LEMMA InScopeHandling ==
    ASSUME NEW t, NEW p, NEW v, NEW u, TxnTyped(t), t.todo # <<>>,
           Handling(t, p, v, u), NEW S, InScope(t, S)
    PROVE  InScope(u, S)
<1>1. ~t.raised
  BY DEF InScope
<1>2. u.raised => p.dev \in t.mapped \cup Coded
  <2> DEFINE known == Resolved(t, p.dev)
  <2>1. v = Process(t.atts, p, known) /\ known \in BOOLEAN /\ p \in Punches /\ Ledger(t.atts)
    BY DEF Handling, TxnTyped, Resolved
  <2>2. u.raised = v.raised
    BY DEF Handling
  <2> HIDE DEF known
  <2>3. v.raised => known
    BY <2>1, ProcessLaws
  <2>4. QED
    BY <2>2, <2>3 DEF known, Resolved
<1>3. u.kind = t.kind /\ u.dev = t.dev /\ u.batch = t.batch /\ u.mapped = t.mapped
  BY DEF Handling
<1>4. /\ Handles(u) \subseteq Handles(t) /\ (~u.raised => Handles(u) = Handles(t))
      /\ p \in Handles(t) /\ (u.raised => u.todo = <<>>)
  BY DEF Handling
<1>5. ASSUME NEW q \in DOMAIN u.rows
      PROVE  u.rows[q].copies = IF u.kind = "reprocess" THEN 0 ELSE 1
  <2>1. CASE q = p
    BY <2>1, <1>3 DEF Handling
  <2>2. CASE q # p
    <3>1. q \in DOMAIN t.rows /\ u.rows[q] = t.rows[q]
      BY <1>5, <2>2 DEF Handling
    <3>2. QED
      BY <1>3, <3>1 DEF InScope
  <2>3. QED
    BY <2>1, <2>2
<1>6. Ingesting(u) <=> Ingesting(t)
  BY <1>3 DEF Ingesting
<1>7. QED
  BY <1>1, <1>2, <1>3, <1>4, <1>5, <1>6 DEF InScope

LEMMA InScopeFresh ==
    ASSUME Base, Known \subseteq mapped, NEW t, TxnTyped(t), Fresh(t)
    PROVE  InScope(t, DOMAIN rows)
<1>1. /\ ~t.raised /\ DOMAIN t.rows = {} /\ Handles(t) = Range(t.todo)
      /\ Known \subseteq t.mapped
  BY DEF Fresh
<1>2. ASSUME Ingesting(t)
      PROVE  /\ \A p \in Handles(t) : p.dev = t.dev
             /\ Range(t.batch) \subseteq DOMAIN rows \cup Handles(t)
  <2>1. t.dev \in Devices /\ t.kind # "reprocess"
    BY <1>2 DEF TxnTyped, Ingesting, Protocols
  <2>2. t.batch = Unsent(t.dev) /\ Range(t.todo) = Range(t.batch) \ DOMAIN rows
    BY <2>1 DEF Fresh
  <2>3. \A p \in Range(Unsent(t.dev)) : p.dev = t.dev
    BY <2>1, UnsentLaws
  <2>4. QED
    BY <1>1, <2>2, <2>3
<1>3. t.kind = "reprocess" => Handles(t) \subseteq DOMAIN rows
  BY <1>1 DEF Fresh, Ingesting, Protocols
<1>4. QED
  BY <1>1, <1>2, <1>3 DEF InScope

LEMMA ScopeNext ==
    ASSUME Base, Scope, [Next]_vars
    PROVE  Scope'
<1>1. DOMAIN txn = Sessions /\ Known \subseteq mapped
  BY DEF Base, Typed, TypeOK, Scope
<1>2. CASE Lapse
  <2>1. \A s \in Sessions : InScope(txn'[s], DOMAIN rows) \/ txn'[s] = Idle
    BY <1>2, InScopeSame DEF Lapse, Scope
  <2>2. QED
    BY <1>1, <1>2, <2>1, InScopeIdle DEF Lapse, Scope
<1>3. ASSUME NEW s \in Sessions, Begins(s) PROVE Scope'
  <2>1. rows' = rows /\ mapped' = mapped
    BY <1>3, BegunFresh DEF tables
  <2>2. PICK t : TxnTyped(t) /\ Fresh(t) /\ txn' = [txn EXCEPT ![s] = t]
    BY <1>3, BegunFresh
  <2>3. InScope(t, DOMAIN rows)
    BY <1>1, <2>2, InScopeFresh
  <2>4. QED
    BY <1>1, <2>1, <2>2, <2>3 DEF Scope
<1>4. ASSUME NEW s \in Sessions, Handle(s) PROVE Scope'
  <2>1. rows' = rows /\ mapped' = mapped /\ txn[s].todo # <<>>
    BY <1>4, HandledOne DEF tables
  <2>2. PICK p, v, u : /\ TxnTyped(u) /\ Handling(txn[s], p, v, u)
                       /\ txn' = [txn EXCEPT ![s] = u]
    BY <1>4, HandledOne
  <2>3. TxnTyped(txn[s]) /\ InScope(txn[s], DOMAIN rows)
    BY DEF Base, Typed, Scope
  <2>4. InScope(u, DOMAIN rows)
    BY <2>1, <2>2, <2>3, InScopeHandling
  <2>5. QED
    BY <1>1, <2>1, <2>2, <2>4 DEF Scope
<1>5. ASSUME NEW s \in Sessions, Commit(s) PROVE Scope'
  <2>1. Merged(s) /\ Overtaken(s) /\ mapped' = mapped
    BY <1>5, CommittedOne
  <2>2. DOMAIN rows \subseteq DOMAIN rows'
    BY <2>1 DEF Merged
  <2>3. ASSUME NEW v \in Sessions PROVE InScope(txn'[v], DOMAIN rows')
    <3>1. txn'[v] = Idle \/ Same(txn[v], txn'[v])
      BY <2>1 DEF Overtaken
    <3>2. InScope(txn[v], DOMAIN rows)
      BY DEF Scope
    <3>3. QED
      BY <2>2, <3>1, <3>2, InScopeIdle, InScopeSame
  <2>4. QED
    BY <1>1, <2>1, <2>3 DEF Scope
<1>6. QED
  BY <1>2, <1>3, <1>4, <1>5, Steps

--------------------------------------------------------------------------------
(* StoredOnce: of two requests of a guarded terminal with a punch in common, the *)
(* second to commit is doomed, for it updates a row of the terminal the first    *)
(* one has updated.                                                              *)

\* A request of a terminal whose requests that commit update its rows.
Guarded(t) == Ingesting(t) /\ t.dev \notin Unguarded

\* It has missed an update of a row it is to update itself.
Doomed(t) ==
    \/ t.dev \in t.mapped /\ "mapping" \in t.missed
    \/ /\ "device" \in t.missed
       /\ t.kind # "adms" \/ t.touched \/ t.dev \notin t.mapped

\* The mapping of its terminal is newer than its snapshot.
Unaware(t) == Ingesting(t) /\ t.dev \notin t.mapped

\* Who does not know of the mapping has missed an update of the device row.
Warned(d) ==
    \A s \in Sessions : Unaware(txn[s]) /\ txn[s].dev = d => "device" \in txn[s].missed

Clashes(t, stored) == Guarded(t) /\ Handles(t) \cap stored # {} => Doomed(t)

\* The last payload of a device row is stored, or it ended at a punch that raised,
\* after its row was updated.
PayloadKnown ==
    \A d \in Devices \ Unguarded :
        Range(payload[d]) \subseteq DOMAIN rows \/ (d \in mapped /\ Warned(d))

\* A request that does not update the device row repeats what is stored, or comes
\* after a request that updated it.
Quiet(t) ==
    t.kind = "adms" /\ t.dev \notin Unguarded /\ t.dev \in t.mapped /\ ~t.touched =>
        (Handles(t) = {} /\ ~t.raised) \/ Warned(t.dev)

NoSecondCopy ==
    /\ StoredOnce
    /\ PayloadKnown
    /\ \A s \in Sessions : Clashes(txn[s], DOMAIN rows) /\ Quiet(txn[s])

\* What a guarded terminal's request commits though it raised is a mapped employee's.
LEMMA GuardedRaise ==
    ASSUME NEW t, TxnTyped(t), NEW S, InScope(t, S), Guarded(t), Keeps(t)
    PROVE  t.raised => t.dev \in t.mapped
<1> SUFFICES ASSUME t.raised PROVE t.dev \in t.mapped
  OBVIOUS
<1>1. t.kind = "adms" /\ t.dev \in t.mapped \cup Coded /\ Known \subseteq t.mapped
  BY DEF Guarded, InScope, Keeps
<1>2. t.dev \in Devices /\ Protocol[t.dev] = "adms"
  BY <1>1 DEF Guarded, TxnTyped
<1>3. QED
  BY <1>1, <1>2 DEF Guarded, Unguarded

\* The doomed do not commit.
LEMMA DoomedFails ==
    ASSUME NEW t, Ingesting(t), t.raised => t.dev \in t.mapped, Doomed(t), Keeps(t)
    PROVE  Stale(t)
<1>1. t.kind # "reprocess"
  BY DEF Ingesting, Protocols
<1>2. CASE t.dev \in t.mapped /\ "mapping" \in t.missed
  <2>1. "mapping" \in Updates(t)
    BY <1>1, <1>2 DEF Updates
  <2>2. QED
    BY <1>2, <2>1 DEF Stale
<1>3. CASE "device" \in t.missed /\ (t.kind # "adms" \/ t.touched \/ t.dev \notin t.mapped)
  <2>1. t.touched \/ ~t.raised
    BY <1>3 DEF Keeps
  <2>2. "device" \in Updates(t)
    BY <1>1, <2>1 DEF Updates
  <2>3. QED
    BY <1>3, <2>2 DEF Stale
<1>4. QED
  BY <1>2, <1>3 DEF Doomed

LEMMA WarnedStays ==
    ASSUME NEW d, Warned(d), \A s \in Sessions : txn'[s] = Idle \/ Same(txn[s], txn'[s])
    PROVE  Warned(d)'
<1>1. ASSUME NEW s \in Sessions, Unaware(txn'[s]), txn'[s].dev = d
      PROVE  "device" \in txn'[s].missed
  <2>1. Same(txn[s], txn'[s])
    BY <1>1, IdleLaws DEF Unaware
  <2>2. Unaware(txn[s]) /\ txn[s].dev = d
    BY <1>1, <2>1 DEF Same, Unaware, Ingesting
  <2>3. QED
    BY <2>1, <2>2 DEF Warned, Same
<1>2. QED
  BY <1>1 DEF Warned

LEMMA DoomedStays ==
    ASSUME NEW t, NEW u, Same(t, u), Doomed(t)
    PROVE  Doomed(u)
  BY DEF Same, Doomed

\* A step that stores nothing, of transactions that stay as they are or end.
LEMMA LapseNoSecondCopy ==
    ASSUME NoSecondCopy, Lapse
    PROVE  NoSecondCopy'
<1>1. \A d : Warned(d) => Warned(d)'
  <2> SUFFICES ASSUME NEW d, Warned(d) PROVE Warned(d)'
    OBVIOUS
  <2> QED
    BY WarnedStays DEF Lapse
<1>2. StoredOnce'
  BY DEF NoSecondCopy, StoredOnce, Lapse
<1>3. PayloadKnown'
  BY <1>1 DEF NoSecondCopy, PayloadKnown, Lapse
<1>4. ASSUME NEW s \in Sessions PROVE Clashes(txn'[s], DOMAIN rows') /\ Quiet(txn[s])'
  <2>1. CASE txn'[s] = Idle
    BY <2>1, IdleLaws DEF Clashes, Guarded, Quiet, Ingesting
  <2>2. CASE Same(txn[s], txn'[s])
    <3>1. Clashes(txn[s], DOMAIN rows) /\ Quiet(txn[s]) /\ rows' = rows
      BY DEF NoSecondCopy, Lapse
    <3>2. Handles(txn'[s]) = Handles(txn[s]) /\ (Guarded(txn'[s]) => Guarded(txn[s]))
      BY <2>2 DEF Same, Handles, Guarded, Ingesting
    <3>3. Clashes(txn'[s], DOMAIN rows')
      BY <2>2, <3>1, <3>2, DoomedStays DEF Clashes
    <3>4. Quiet(txn[s])'
      BY <2>2, <3>1, <3>2, <1>1 DEF Quiet, Same
    <3>5. QED
      BY <3>3, <3>4
  <2>3. QED
    BY <2>1, <2>2 DEF Lapse
<1>5. QED
  BY <1>2, <1>3, <1>4 DEF NoSecondCopy

LEMMA BeginNoSecondCopy ==
    ASSUME Base, NoSecondCopy, NEW s \in Sessions, Begins(s)
    PROVE  NoSecondCopy'
<1>1. PICK t : TxnTyped(t) /\ Fresh(t) /\ txn' = [txn EXCEPT ![s] = t]
  BY BegunFresh
<1>2. UNCHANGED <<rows, mapped, payload>> /\ txn[s].kind = "idle" /\ DOMAIN txn = Sessions
  BY BegunFresh DEF Base, Typed, TypeOK, tables
<1>3. txn'[s] = t /\ \A v \in Sessions \ {s} : txn'[v] = txn[v]
  BY <1>1, <1>2
<1>4. ASSUME NEW d, d \in mapped, Warned(d) PROVE Warned(d)'
  <2>1. ~(Unaware(txn'[s]) /\ txn'[s].dev = d)
    BY <1>1, <1>3, <1>4 DEF Unaware, Fresh
  <2>2. QED
    BY <1>3, <1>4, <2>1 DEF Warned
<1>5. StoredOnce'
  BY <1>2 DEF NoSecondCopy, StoredOnce
<1>6. PayloadKnown'
  BY <1>2, <1>4 DEF NoSecondCopy, PayloadKnown
<1>7. ASSUME NEW v \in Sessions \ {s}
      PROVE  Clashes(txn'[v], DOMAIN rows') /\ Quiet(txn[v])'
  <2>1. Clashes(txn[v], DOMAIN rows) /\ Quiet(txn[v]) /\ txn[v].mapped \subseteq mapped
    BY DEF NoSecondCopy, Base, Typed
  <2>2. QED
    BY <1>2, <1>3, <1>4, <2>1 DEF Quiet
<1>8. Clashes(txn'[s], DOMAIN rows') /\ Quiet(txn[s])'
  <2>1. Ingesting(t) => t.dev \in Devices /\ t.kind # "reprocess" /\ t.kind # "idle"
    BY <1>1 DEF TxnTyped, Ingesting, Protocols
  <2>2. Ingesting(t) => Handles(t) = Range(t.batch) \ DOMAIN rows
    BY <1>1, <2>1 DEF Fresh
  <2>3. Clashes(t, DOMAIN rows)
    BY <2>2 DEF Clashes, Guarded
  <2>4. ASSUME t.kind = "adms", t.dev \notin Unguarded, t.dev \in t.mapped, ~t.touched
        PROVE  (Handles(t) = {} /\ ~t.raised) \/ Warned(t.dev)
    <3>1. Ingesting(t)
      BY <2>4 DEF Ingesting, Protocols
    <3>2. payload[t.dev] = t.batch /\ ~t.raised
      BY <1>1, <2>1, <2>4, <3>1 DEF Fresh
    <3>3. Range(payload[t.dev]) \subseteq DOMAIN rows \/ Warned(t.dev)
      BY <2>1, <2>4, <3>1 DEF NoSecondCopy, PayloadKnown
    <3>4. QED
      BY <2>2, <3>1, <3>2, <3>3
  <2>5. t.dev \in t.mapped => t.dev \in mapped
    BY <1>1 DEF Fresh
  <2>6. QED
    BY <1>2, <1>3, <1>4, <2>3, <2>4, <2>5 DEF Quiet
<1>9. QED
  BY <1>5, <1>6, <1>7, <1>8 DEF NoSecondCopy

LEMMA HandleNoSecondCopy ==
    ASSUME Base, NoSecondCopy, NEW s \in Sessions, Handle(s)
    PROVE  NoSecondCopy'
<1>1. PICK p, x, u : /\ TxnTyped(u) /\ Handling(txn[s], p, x, u)
                     /\ txn' = [txn EXCEPT ![s] = u]
  BY HandledOne
<1>2. UNCHANGED <<rows, mapped, payload>> /\ DOMAIN txn = Sessions
  BY HandledOne DEF Base, Typed, TypeOK, tables
<1>3. txn'[s] = u /\ \A v \in Sessions \ {s} : txn'[v] = txn[v]
  BY <1>1, <1>2
<1>4. /\ u.kind = txn[s].kind /\ u.dev = txn[s].dev /\ u.mapped = txn[s].mapped
      /\ u.touched = txn[s].touched /\ u.missed = txn[s].missed
      /\ Handles(u) \subseteq Handles(txn[s]) /\ p \in Handles(txn[s])
  BY <1>1 DEF Handling
<1>5. ASSUME NEW d, Warned(d) PROVE Warned(d)'
  <2>1. Unaware(txn'[s]) /\ txn'[s].dev = d => "device" \in txn'[s].missed
    BY <1>3, <1>4, <1>5 DEF Unaware, Ingesting, Warned
  <2>2. QED
    BY <1>3, <1>5, <2>1 DEF Warned
<1>6. StoredOnce'
  BY <1>2 DEF NoSecondCopy, StoredOnce
<1>7. PayloadKnown'
  BY <1>2, <1>5 DEF NoSecondCopy, PayloadKnown
<1>8. ASSUME NEW v \in Sessions \ {s}
      PROVE  Clashes(txn'[v], DOMAIN rows') /\ Quiet(txn[v])'
  <2>1. Clashes(txn[v], DOMAIN rows) /\ Quiet(txn[v])
    BY DEF NoSecondCopy
  <2>2. QED
    BY <1>2, <1>3, <1>5, <2>1 DEF Quiet
<1>9. Clashes(txn'[s], DOMAIN rows') /\ Quiet(txn[s])'
  <2>1. Clashes(txn[s], DOMAIN rows) /\ Quiet(txn[s])
    BY DEF NoSecondCopy
  <2>2. Clashes(u, DOMAIN rows)
    BY <1>4, <2>1 DEF Clashes, Guarded, Doomed, Ingesting
  <2>3. u.kind = "adms" /\ u.dev \notin Unguarded /\ u.dev \in u.mapped /\ ~u.touched =>
           Warned(u.dev)
    BY <1>4, <2>1 DEF Quiet
  <2>4. QED
    BY <1>2, <1>3, <1>5, <2>2, <2>3 DEF Quiet
<1>10. QED
  BY <1>6, <1>7, <1>8, <1>9 DEF NoSecondCopy

\* What a transaction t stores dooms any other transaction x that handles it.
LEMMA CommitDooms ==
    ASSUME NEW t, NEW x, NEW y, Guarded(t), Ingesting(x), x.dev = t.dev,
           ~Doomed(t), Keeps(t), t.raised => t.dev \in t.mapped,
           Handles(t) # {}, Handles(x) # {},
           Unaware(t) /\ Warned(t.dev) => "device" \in t.missed,
           Unaware(x) /\ Warned(x.dev) => "device" \in x.missed,
           Quiet(t), Quiet(x), Same(x, y), Updates(t) \subseteq y.missed
    PROVE  Doomed(y)
<1>1. t.kind # "reprocess" /\ Ingesting(t) /\ t.dev \notin Unguarded
  BY DEF Guarded, Ingesting, Protocols
<1>2. /\ y.dev = t.dev /\ y.mapped = x.mapped /\ y.kind = x.kind /\ y.touched = x.touched
      /\ x.missed \subseteq y.missed
  BY DEF Same
<1>3. CASE x.dev \in x.mapped /\ t.dev \in t.mapped
  <2>1. "mapping" \in Updates(t)
    BY <1>1, <1>3 DEF Updates
  <2>2. QED
    BY <1>2, <1>3, <2>1 DEF Doomed
<1>4. CASE x.dev \notin x.mapped
  <2>1. CASE t.touched \/ ~t.raised
    <3>1. "device" \in Updates(t)
      BY <1>1, <2>1 DEF Updates
    <3>2. QED
      BY <1>2, <1>4, <3>1 DEF Doomed
  <2>2. CASE ~t.touched /\ t.raised
    <3>1. t.kind = "adms" /\ t.dev \in t.mapped
      BY <2>2 DEF Keeps
    <3>2. Warned(t.dev)
      BY <1>1, <2>2, <3>1 DEF Quiet
    <3>3. "device" \in x.missed
      BY <1>4, <3>2 DEF Unaware
    <3>4. QED
      BY <1>2, <1>4, <3>3 DEF Doomed
  <2>3. QED
    BY <2>1, <2>2
<1>5. CASE x.dev \in x.mapped /\ t.dev \notin t.mapped
  <2>1. "device" \in Updates(t)
    BY <1>1, <1>5 DEF Updates
  <2>2. CASE x.kind # "adms" \/ x.touched
    BY <1>2, <2>1, <2>2 DEF Doomed
  <2>3. CASE x.kind = "adms" /\ ~x.touched
    <3>1. Warned(t.dev)
      BY <1>1, <1>5, <2>3 DEF Quiet
    <3>2. "device" \in t.missed
      BY <1>1, <1>5, <3>1 DEF Unaware
    <3>3. QED
      BY <1>5, <3>2 DEF Doomed
  <2>4. QED
    BY <2>2, <2>3
<1>6. QED
  BY <1>3, <1>4, <1>5

LEMMA CommitNoSecondCopy ==
    ASSUME Base, Scope, NoSecondCopy, NEW s \in Sessions, Commit(s)
    PROVE  NoSecondCopy'
<1> DEFINE t == txn[s]
<1>1. /\ UNCHANGED mapped /\ Merged(s) /\ Overtaken(s) /\ Keeps(t)
      /\ t.kind # "idle" /\ Handles(t) = DOMAIN t.rows /\ ~Stale(t)
  BY CommittedOne
<1>2. /\ TxnTyped(t) /\ InScope(t, DOMAIN rows) /\ t.mapped \subseteq mapped
      /\ Clashes(t, DOMAIN rows) /\ Quiet(t)
  BY DEF Base, Typed, Scope, NoSecondCopy
<1>3. Ingesting(t) \/ t.kind = "reprocess"
  BY <1>1, <1>2 DEF TxnTyped, Ingesting
<1>4. Guarded(t) => ~Doomed(t) /\ Handles(t) \cap DOMAIN rows = {}
  <2>1. Guarded(t) => ~Doomed(t)
    BY <1>1, <1>2, DoomedFails, GuardedRaise DEF Guarded
  <2>2. QED
    BY <1>2, <2>1 DEF Clashes
<1>5. \A v \in Sessions : txn'[v] = Idle \/ Same(txn[v], txn'[v])
  BY <1>1 DEF Overtaken
<1>6. \A d : Warned(d) => Warned(d)'
  <2> SUFFICES ASSUME NEW d, Warned(d) PROVE Warned(d)'
    OBVIOUS
  <2> QED
    BY <1>5, WarnedStays
<1>7. DOMAIN rows' = DOMAIN rows \cup DOMAIN t.rows
  BY <1>1 DEF Merged
<1>8. StoredOnce'
  <2>1. ASSUME NEW p \in DOMAIN rows', p.dev \notin Unguarded PROVE rows'[p].copies = 1
    <3>1. p \in DOMAIN rows => rows[p].copies = 1
      BY <2>1 DEF NoSecondCopy, StoredOnce
    <3>2. CASE p \notin DOMAIN t.rows
      BY <1>1, <1>7, <2>1, <3>1, <3>2 DEF Merged
    <3>3. CASE p \in DOMAIN t.rows
      <4>1. rows'[p].copies = t.rows[p].copies + IF p \in DOMAIN rows THEN rows[p].copies ELSE 0
        <5>1. rows'[p] = [state |-> t.rows[p].state, att |-> t.rows[p].att,
                          copies |-> t.rows[p].copies +
                                     IF p \in DOMAIN rows THEN rows[p].copies ELSE 0]
          BY <1>1, <3>3 DEF Merged
        <5>2. QED
          BY <5>1
      <4>2. CASE t.kind = "reprocess"
        <5>1. p \in DOMAIN rows /\ t.rows[p].copies = 0
          BY <1>1, <1>2, <3>3, <4>2 DEF InScope
        <5>2. QED
          BY <3>1, <4>1, <5>1
      <4>3. CASE Ingesting(t)
        <5>1. p \in Handles(t) /\ Guarded(t)
          BY <1>1, <1>2, <2>1, <3>3, <4>3 DEF InScope, Guarded
        <5>2. p \notin DOMAIN rows /\ t.rows[p].copies = 1
          BY <1>2, <1>4, <3>3, <4>3, <5>1 DEF InScope, Ingesting, Protocols
        <5>3. QED
          BY <4>1, <5>2
      <4>4. QED
        BY <1>3, <4>2, <4>3
    <3>4. QED
      BY <3>2, <3>3
  <2>2. QED
    BY <2>1 DEF StoredOnce
<1>9. ASSUME NEW d \in Devices \ Unguarded
      PROVE  Range(payload'[d]) \subseteq DOMAIN rows' \/ (d \in mapped /\ Warned(d)')
  <2>1. Range(payload[d]) \subseteq DOMAIN rows \/ (d \in mapped /\ Warned(d))
    BY DEF NoSecondCopy, PayloadKnown
  <2>2. CASE ~(t.kind = "adms" /\ d = t.dev)
    BY <1>1, <1>6, <1>7, <2>1, <2>2 DEF Merged
  <2>3. CASE t.kind = "adms" /\ d = t.dev
    <3>1. payload'[d] = t.batch /\ Ingesting(t)
      BY <1>1, <2>3 DEF Merged, Ingesting, Protocols
    <3>2. CASE ~t.raised
      BY <1>1, <1>2, <1>7, <3>1, <3>2 DEF InScope
    <3>3. CASE t.raised
      <4>1. t.dev \in t.mapped /\ t.dev \in mapped
        BY <1>1, <1>2, <1>9, <2>3, <3>1, <3>3, GuardedRaise DEF Guarded
      <4>2. CASE t.touched
        <5>1. "device" \in Updates(t)
          BY <2>3, <4>2 DEF Updates
        <5>2. ASSUME NEW v \in Sessions, Unaware(txn'[v]), txn'[v].dev = d
              PROVE  "device" \in txn'[v].missed
          <6>1. v # s
            BY <1>1, <5>2, IdleLaws DEF Overtaken, Unaware
          <6>2. Ingesting(txn[v]) /\ txn[v].dev = t.dev
            BY <1>1, <2>3, <5>2, <6>1 DEF Overtaken, Same, Unaware, Ingesting
          <6>3. QED
            BY <1>1, <5>1, <6>1, <6>2 DEF Overtaken
        <5>3. Warned(d)'
          BY <5>2 DEF Warned
        <5>4. QED
          BY <2>3, <4>1, <5>3
      <4>3. CASE ~t.touched
        <5>1. Warned(t.dev)
          BY <1>2, <1>9, <2>3, <3>3, <4>1, <4>3 DEF Quiet
        <5>2. QED
          BY <1>6, <2>3, <4>1, <5>1
      <4>4. QED
        BY <4>2, <4>3
    <3>4. QED
      BY <3>2, <3>3
  <2>4. QED
    BY <2>2, <2>3
<1>10. PayloadKnown'
  BY <1>1, <1>9 DEF PayloadKnown
<1>11. ASSUME NEW v \in Sessions \ {s}
       PROVE  Clashes(txn'[v], DOMAIN rows') /\ Quiet(txn[v])'
  <2> DEFINE x == txn[v]
             y == txn'[v]
  <2>1. Same(x, y) /\ Clashes(x, DOMAIN rows) /\ Quiet(x) /\ InScope(x, DOMAIN rows)
    BY <1>1 DEF Overtaken, NoSecondCopy, Scope
  <2>2. Handles(y) = Handles(x) /\ (Guarded(y) => Guarded(x))
    BY <2>1 DEF Same, Handles, Guarded, Ingesting
  <2>3. ASSUME Guarded(y), NEW p \in Handles(y), p \in DOMAIN rows'
        PROVE  Doomed(y)
    <3>1. CASE p \in DOMAIN rows
      BY <2>1, <2>2, <2>3, <3>1, DoomedStays DEF Clashes
    <3>2. CASE p \notin DOMAIN rows
      <4>1. p \in Handles(t) /\ p \in Handles(x)
        BY <1>1, <1>7, <2>2, <2>3, <3>2
      <4>2. Ingesting(t)
        BY <1>2, <1>3, <3>2, <4>1 DEF InScope
      <4>3. Ingesting(x) /\ x.dev = t.dev /\ Guarded(t)
        BY <1>2, <2>1, <2>2, <2>3, <4>1, <4>2 DEF InScope, Guarded
      <4>4. Updates(t) \subseteq y.missed
        BY <1>1, <4>3 DEF Overtaken
      <4>5. /\ Unaware(t) /\ Warned(t.dev) => "device" \in t.missed
            /\ Unaware(x) /\ Warned(x.dev) => "device" \in x.missed
        BY DEF Warned
      <4>6. ~Doomed(t) /\ Keeps(t) /\ (t.raised => t.dev \in t.mapped) /\ Quiet(t)
        BY <1>1, <1>2, <1>4, <4>3, GuardedRaise
      <4>7. Quiet(x) /\ Same(x, y) /\ Handles(t) # {} /\ Handles(x) # {}
        BY <2>1, <4>1
      <4> QED
        <5>1. PICK z : z = y
          OBVIOUS
        <5>2. Same(x, z) /\ Updates(t) \subseteq z.missed
          BY <4>4, <4>7, <5>1
        <5> HIDE DEF t, x, y
        <5>3. Doomed(z)
          BY <4>2, <4>3, <4>5, <4>6, <4>7, <5>2, CommitDooms
        <5>4. QED
          BY <5>1, <5>3
    <3>3. QED
      BY <3>1, <3>2
  <2>4. Clashes(y, DOMAIN rows')
    BY <2>3 DEF Clashes
  <2>5. Quiet(txn[v])'
    BY <1>6, <2>1, <2>2 DEF Quiet, Same
  <2>6. QED
    BY <2>4, <2>5
<1>12. Clashes(txn'[s], DOMAIN rows') /\ Quiet(txn[s])'
  <2>1. txn'[s] = Idle
    BY <1>1 DEF Overtaken
  <2>2. QED
    BY <2>1, IdleLaws DEF Clashes, Guarded, Quiet, Ingesting
<1>13. QED
  BY <1>8, <1>10, <1>11, <1>12 DEF NoSecondCopy

LEMMA StoredInv == Spec => [](Base /\ Scope /\ NoSecondCopy)
<1>1. Init => Scope /\ NoSecondCopy
  <2> SUFFICES ASSUME Init PROVE Scope /\ NoSecondCopy
    OBVIOUS
  <2>1. \A s \in Sessions : txn[s] = Idle
    BY DEF Init
  <2>2. Scope
    BY <2>1, InScopeIdle, ConstantsAssumption DEF Scope, Init
  <2>3. StoredOnce /\ PayloadKnown
    <3>1. DOMAIN rows = {} /\ \A d \in Devices : Range(payload[d]) = {}
      BY DEF Init, Range
    <3>2. QED
      BY <3>1 DEF StoredOnce, PayloadKnown
  <2>4. \A s \in Sessions : Clashes(txn[s], DOMAIN rows) /\ Quiet(txn[s])
    BY <2>1, IdleLaws DEF Clashes, Guarded, Quiet, Ingesting
  <2>5. QED
    BY <2>2, <2>3, <2>4 DEF NoSecondCopy
<1>2. Base /\ Scope /\ NoSecondCopy /\ [Next]_vars => Scope' /\ NoSecondCopy'
  BY ScopeNext, Steps, LapseNoSecondCopy, BeginNoSecondCopy, HandleNoSecondCopy, CommitNoSecondCopy
<1>3. QED
  BY <1>1, <1>2, BaseHolds, PTL DEF Spec

\* A punch of a guarded terminal is stored once, for any number of terminals and
\* workers, without a unique index: whatever it repeats while its first request is
\* still at work, the second of ingest_adms_payload(), ingest_webhook_payload() and
\* _sync_device() to commit updates a row the first one has updated, and fails.
THEOREM AttendanceStoredOnce == Spec => []StoredOnce
<1>1. NoSecondCopy => StoredOnce
  BY DEF NoSecondCopy
<1>2. QED
  BY <1>1, StoredInv, PTL

--------------------------------------------------------------------------------
(* AckedIsStored: the "OK" of a transaction covers its batch, all of it stored. *)

LEMMA AckedNext ==
    ASSUME Base, Scope, AckedIsStored, [Next]_vars
    PROVE  AckedIsStored'
<1>1. TypeOK
  BY DEF Base, Typed
<1>2. ASSUME UNCHANGED rows,
             \A d \in Devices \ Unmatched : Protocol[d] # "pull" => acked'[d] = acked[d],
             \A d \in Devices : \A i \in 1 .. acked[d] : log'[d][i] = log[d][i]
      PROVE  AckedIsStored'
  BY <1>2 DEF AckedIsStored
<1>3. CASE Lapse
  BY <1>2, <1>3 DEF Lapse
<1>4. ASSUME NEW s \in Sessions, Begins(s) PROVE AckedIsStored'
  <2>1. UNCHANGED <<log, rows>>
    BY <1>4, BegunFresh DEF tables
  <2>2. \A d \in Devices : Protocol[d] # "pull" => acked'[d] = acked[d]
    <3>1. CASE Reprocess(s)
      BY <3>1 DEF Reprocess, terminal
    <3>2. ASSUME NEW e \in Devices, NEW quiet \in BOOLEAN, SendAdms(e, s, quiet) \/ SendPush(e, s)
          PROVE  UNCHANGED acked
      BY <3>2 DEF SendAdms, SendPush
    <3>3. ASSUME NEW e \in Devices, Pull(e, s)
          PROVE  \A d \in Devices : Protocol[d] # "pull" => acked'[d] = acked[d]
      BY <1>1, <3>3 DEF Pull, TypeOK
    <3>4. QED
      BY <1>4, <3>1, <3>2, <3>3 DEF Begins
  <2>3. QED
    BY <1>2, <2>1, <2>2
<1>5. ASSUME NEW s \in Sessions, Handle(s) PROVE AckedIsStored'
  BY <1>2, <1>5, HandledOne DEF tables
<1>6. ASSUME NEW s \in Sessions, Commit(s) PROVE AckedIsStored'
  <2> DEFINE t == txn[s]
  <2>1. /\ UNCHANGED log /\ DOMAIN rows' = DOMAIN rows \cup DOMAIN t.rows
        /\ Handles(t) = DOMAIN t.rows
    BY <1>6, CommittedOne DEF Merged
  <2>2. acked' = [d \in Devices |-> IF waiting[d] = s /\ ~t.raised
                                    THEN acked[d] + Len(t.batch) ELSE acked[d]]
    BY <1>6 DEF Commit, Waits, Answer
  <2>3. TxnTyped(t) /\ InScope(t, DOMAIN rows)
    BY DEF Base, Typed, Scope
  <2>4. Len(t.batch) \in Nat /\ DOMAIN t.batch = 1 .. Len(t.batch)
    BY <2>3 DEF TxnTyped
  <2>5. ASSUME NEW d \in Devices \ Unmatched, Protocol[d] # "pull", NEW i \in 1 .. acked'[d]
        PROVE  log[d][i] \in DOMAIN rows'
    <3>1. acked[d] \in Nat /\ Awaited(d)
      BY <1>1 DEF TypeOK, Base
    <3>2. CASE i <= acked[d]
      BY <2>1, <2>2, <2>4, <2>5, <3>1, <3>2 DEF AckedIsStored
    <3>3. CASE i > acked[d]
      <4>1. waiting[d] = s /\ ~t.raised /\ i - acked[d] \in 1 .. Len(t.batch)
        BY <2>2, <2>4, <2>5, <3>1, <3>3
      <4>2. Expects(t, d, acked[d], log[d])
        BY <3>1, <4>1, ConstantsAssumption DEF Awaited
      <4>3. t.batch[i - acked[d]] = log[d][acked[d] + (i - acked[d])]
        BY <4>1, <4>2 DEF Expects
      <4>4. log[d][i] = t.batch[i - acked[d]] /\ t.batch[i - acked[d]] \in Range(t.batch)
        BY <2>4, <3>1, <4>1, <4>3 DEF Range
      <4>5. Range(t.batch) \subseteq DOMAIN rows \cup DOMAIN t.rows
        BY <2>1, <2>3, <4>1, <4>2 DEF InScope, Expects
      <4>6. QED
        BY <2>1, <4>4, <4>5
    <3>4. i \in Int
      BY <2>5
    <3>5. QED
      BY <3>1, <3>2, <3>3, <3>4
  <2>6. QED
    BY <2>1, <2>5 DEF AckedIsStored
<1>7. QED
  BY <1>3, <1>4, <1>5, <1>6, Steps

\* What a terminal that pushes has been told is stored is stored: the answer of
\* controllers/iot_attendance.py covers no punch that is not a row.
THEOREM AttendanceAckedIsStored == Spec => []AckedIsStored
<1>1. Init => AckedIsStored
  BY DEF Init, AckedIsStored
<1>2. Base /\ Scope /\ AckedIsStored /\ [Next]_vars => AckedIsStored'
  BY AckedNext
<1>3. QED
  BY <1>1, <1>2, StoredInv, PTL DEF Spec

--------------------------------------------------------------------------------
(* ProcessedIsRecorded: a closed attendance stays as it is, and two transactions *)
(* never begin the same one, for its punch would be stored already.              *)

\* What a transaction has done on its snapshot, when A are the attendances stored.
Works(t, A) ==
    /\ Kept(t.base, t.atts) /\ Kept(t.base, A)
    /\ \A i \in DOMAIN t.atts \ DOMAIN t.base : \E p \in DOMAIN t.rows : p.at = i
    /\ \A p \in DOMAIN t.rows :
          /\ Ends(p, t.rows[p], t.atts)
          /\ t.rows[p].state = "processed" => p.at = t.rows[p].att \/ t.rows[p].att \in Changed(t)
    /\ t.kind = "reprocess" =>
          \A p \in Handles(t) : p.at \in DOMAIN A => p.at \in DOMAIN t.base

Ended ==
    /\ ProcessedIsRecorded
    /\ \A i \in DOMAIN atts : \E p \in DOMAIN rows : p.at = i
    /\ \A s \in Sessions : txn[s].kind # "idle" => Works(txn[s], atts)
    /\ \A s, v \in Sessions : txn[s].kind = "reprocess" /\ txn[v].kind = "reprocess" => s = v

LEMMA KeptTransitive ==
    ASSUME NEW A, NEW B, NEW C, Kept(A, B), Kept(B, C)
    PROVE  Kept(A, C)
  BY DEF Kept

\* The end of an attendance a punch is stays that.
LEMMA EndsStay ==
    ASSUME NEW A, NEW B, Kept(A, B), NEW p \in Punches, NEW r, Ends(p, r, A)
    PROVE  Ends(p, r, B)
<1>1. p.at # Open
  BY ConstantsAssumption DEF Punches, Times, Open
<1>2. QED
  BY <1>1 DEF Ends, Kept

LEMMA WorksSame ==
    ASSUME NEW t, NEW u, Same(t, u), NEW A, Works(t, A)
    PROVE  Works(u, A)
<1>1. Handles(u) = Handles(t) /\ Changed(u) = Changed(t)
  BY DEF Same, Handles, Changed
<1>2. QED
  BY <1>1 DEF Same, Works

LEMMA WorksHandling ==
    ASSUME NEW t, NEW p, NEW v, NEW u, TxnTyped(t), TxnTyped(u), Handling(t, p, v, u),
           NEW A, Works(t, A)
    PROVE  Works(u, A)
<1>1. /\ u.kind = t.kind /\ u.base = t.base /\ u.atts = v.atts /\ p \in Punches
      /\ Handles(u) \subseteq Handles(t) /\ DOMAIN u.rows = DOMAIN t.rows \cup {p}
      /\ \A q \in DOMAIN t.rows \ {p} : u.rows[q] = t.rows[q]
      /\ u.rows[p].state = v.state /\ u.rows[p].att = v.att
  BY DEF Handling
<1>2. /\ Kept(t.atts, u.atts) /\ DOMAIN u.atts \subseteq DOMAIN t.atts \cup {p.at}
      /\ v.state = "processed" =>
            /\ v.att \in DOMAIN u.atts
            /\ \/ v.att = p.at
               \/ /\ v.att \in DOMAIN t.atts /\ t.atts[v.att] = Open
                  /\ u.atts[v.att] = p.at
  <2> DEFINE known == Resolved(t, p.dev)
  <2>1. v = Process(t.atts, p, known) /\ known \in BOOLEAN /\ p \in Punches /\ Ledger(t.atts)
    BY DEF Handling, TxnTyped, Resolved
  <2> HIDE DEF known
  <2>2. /\ Kept(t.atts, v.atts) /\ DOMAIN v.atts \subseteq DOMAIN t.atts \cup {p.at}
        /\ v.state = "processed" =>
              /\ v.att \in DOMAIN v.atts
              /\ \/ v.att = p.at
                 \/ /\ v.att \in DOMAIN t.atts /\ t.atts[v.att] = Open
                    /\ v.atts[v.att] = p.at
    BY <2>1, ProcessLaws
  <2>3. QED
    BY <1>1, <2>2
<1>3. p.at # Open /\ \A q \in DOMAIN t.rows : q \in Punches
  BY <1>1, ConstantsAssumption DEF Punches, Times, Open, TxnTyped, Table
<1>4. Kept(t.base, u.atts)
  BY <1>2, KeptTransitive DEF Works
<1>5. \A i \in DOMAIN u.atts \ DOMAIN u.base : \E q \in DOMAIN u.rows : q.at = i
  BY <1>1, <1>2 DEF Works
<1>6. Changed(t) \subseteq Changed(u)
  <2>1. ASSUME NEW i \in Changed(t) PROVE i \in Changed(u)
    <3>1. i \in DOMAIN t.atts /\ i \in DOMAIN u.atts
      BY <1>2 DEF Changed, Kept
    <3>2. CASE i \notin DOMAIN t.base
      BY <1>1, <3>1, <3>2 DEF Changed
    <3>3. CASE i \in DOMAIN t.base
      <4>1. t.atts[i] # t.base[i]
        BY <3>3 DEF Changed
      <4>2. CASE t.base[i] = Open
        <5>1. u.atts[i] = t.atts[i]
          BY <1>2, <3>1, <4>1, <4>2 DEF Kept
        <5>2. QED
          BY <1>1, <3>1, <4>1, <5>1 DEF Changed
      <4>3. CASE t.base[i] # Open
        BY <3>3, <4>1, <4>3 DEF Works, Kept
      <4>4. QED
        BY <4>2, <4>3
    <3>4. QED
      BY <3>2, <3>3
  <2>2. QED
    BY <2>1
<1>7. ASSUME NEW q \in DOMAIN u.rows
      PROVE  /\ Ends(q, u.rows[q], u.atts)
             /\ u.rows[q].state = "processed" => q.at = u.rows[q].att \/ u.rows[q].att \in Changed(u)
  <2>1. CASE q # p
    <3>1. q \in DOMAIN t.rows /\ u.rows[q] = t.rows[q]
      BY <1>1, <1>7, <2>1
    <3>2. /\ Ends(q, t.rows[q], t.atts)
          /\ t.rows[q].state = "processed" => q.at = t.rows[q].att \/ t.rows[q].att \in Changed(t)
      BY <3>1 DEF Works
    <3>3. Ends(q, t.rows[q], u.atts)
      BY <1>2, <1>3, <3>1, <3>2, EndsStay
    <3>4. QED
      BY <1>6, <3>1, <3>2, <3>3
  <2>2. CASE q = p
    <3>1. Ends(p, u.rows[p], u.atts)
      BY <1>1, <1>2 DEF Ends
    <3>2. ASSUME v.att \in DOMAIN t.atts, t.atts[v.att] = Open, u.atts[v.att] = p.at,
                 v.att \in DOMAIN u.atts
          PROVE  v.att \in Changed(u)
      <4>1. v.att \in DOMAIN t.base => t.base[v.att] = Open
        BY <3>2 DEF Works, Kept
      <4>2. QED
        BY <1>1, <1>3, <3>2, <4>1 DEF Changed
    <3>3. QED
      BY <1>1, <1>2, <2>2, <3>1, <3>2
  <2>3. QED
    BY <2>1, <2>2
<1>8. u.kind = "reprocess" =>
          \A q \in Handles(u) : q.at \in DOMAIN A => q.at \in DOMAIN u.base
  BY <1>1 DEF Works
<1>9. Kept(u.base, A)
  BY <1>1 DEF Works
<1>10. QED
  BY <1>1, <1>4, <1>5, <1>7, <1>8, <1>9 DEF Works

LEMMA WorksFresh ==
    ASSUME NEW t, Fresh(t)
    PROVE  Works(t, atts)
<1>1. DOMAIN t.rows = {} /\ t.base = atts /\ t.atts = atts /\ Handles(t) = Range(t.todo)
  BY DEF Fresh
<1>2. QED
  BY <1>1 DEF Works, Kept

\* What a committing transaction has created is new, and what it has closed is open.
LEMMA CommitFits ==
    ASSUME Unguarded = {}, Base, Scope, NoSecondCopy, Ended, NEW s \in Sessions, Commit(s)
    PROVE  /\ Kept(atts, atts')
           /\ \A i \in Changed(txn[s]) : i \in DOMAIN atts => i \in DOMAIN txn[s].base
           /\ Ingesting(txn[s]) => Handles(txn[s]) \cap DOMAIN rows = {}
<1> DEFINE t == txn[s]
<1>1. /\ Merged(s) /\ Keeps(t) /\ t.kind # "idle" /\ Handles(t) = DOMAIN t.rows /\ ~Stale(t)
  BY CommittedOne
<1>2. /\ TxnTyped(t) /\ InScope(t, DOMAIN rows) /\ Clashes(t, DOMAIN rows) /\ Works(t, atts)
  BY <1>1 DEF Base, Typed, Scope, NoSecondCopy, Ended
<1>3. Ingesting(t) \/ t.kind = "reprocess"
  BY <1>1, <1>2 DEF TxnTyped, Ingesting
<1>4. Ingesting(t) => Handles(t) \cap DOMAIN rows = {}
  BY <1>1, <1>2, DoomedFails, GuardedRaise DEF Guarded, Clashes
<1>5. ASSUME NEW i \in Changed(t), i \in DOMAIN atts PROVE i \in DOMAIN t.base
  <2> SUFFICES ASSUME i \notin DOMAIN t.base PROVE FALSE
    OBVIOUS
  <2>1. PICK p \in DOMAIN t.rows : p.at = i
    BY <1>2, <1>5 DEF Works, Changed
  <2>2. PICK q \in DOMAIN rows : q.at = i
    BY <1>5 DEF Ended
  <2>3. p = q
    BY <1>1, <2>1, <2>2 DEF Base, Apart
  <2>4. t.kind = "reprocess"
    BY <1>1, <1>3, <1>4, <2>1, <2>2, <2>3
  <2>5. QED
    BY <1>1, <1>2, <1>5, <2>1, <2>4 DEF Works
<1>6. ASSUME NEW i \in Changed(t), i \in DOMAIN atts PROVE atts[i] = Open
  <2>1. i \in DOMAIN t.base /\ t.atts[i] # t.base[i]
    BY <1>5, <1>6 DEF Changed
  <2>2. t.base[i] = Open
    BY <1>2, <2>1 DEF Works, Kept
  <2>3. atts[i] = t.base[i]
    BY <1>1, <2>1 DEF Stale
  <2>4. QED
    BY <2>2, <2>3
<1>7. Kept(atts, atts')
  BY <1>1, <1>6 DEF Merged, Kept
<1>8. QED
  BY <1>4, <1>5, <1>7

LEMMA CommitEnded ==
    ASSUME Unguarded = {}, Base, Scope, NoSecondCopy, Ended, NEW s \in Sessions, Commit(s)
    PROVE  Ended'
<1> DEFINE t == txn[s]
<1>1. Merged(s) /\ Overtaken(s) /\ t.kind # "idle" /\ Handles(t) = DOMAIN t.rows
  BY CommittedOne
<1>2. TypeOK /\ Apart /\ TxnTyped(t) /\ Works(t, atts)
  BY <1>1 DEF Base, Typed, Ended
<1>3. /\ Kept(atts, atts')
      /\ \A i \in Changed(t) : i \in DOMAIN atts => i \in DOMAIN t.base
      /\ Ingesting(t) => Handles(t) \cap DOMAIN rows = {}
  BY CommitFits
<1>4. DOMAIN rows' = DOMAIN rows \cup DOMAIN t.rows /\ DOMAIN atts' = DOMAIN atts \cup Changed(t)
  BY <1>1 DEF Merged
<1>5. ProcessedIsRecorded'
  <2>1. \A p \in DOMAIN rows : Ends(p, rows[p], atts)
    BY DEF Ended, ProcessedIsRecorded, Ends
  <2>2. ASSUME NEW p \in DOMAIN rows' PROVE Ends(p, rows'[p], atts')
    <3>1. CASE p \notin DOMAIN t.rows
      <4>1. rows'[p] = rows[p] /\ p \in DOMAIN rows /\ p \in Punches
        BY <1>1, <1>2, <1>4, <2>2, <3>1 DEF Merged, TypeOK, Table
      <4>2. Ends(p, rows[p], atts)
        BY <2>1, <4>1
      <4>3. PICK A, r : A = atts' /\ r = rows'[p]
        OBVIOUS
      <4>4. Kept(atts, A) /\ Ends(p, r, atts)
        BY <1>3, <4>1, <4>2, <4>3
      <4>5. Ends(p, r, A)
        BY <4>1, <4>4, EndsStay
      <4>6. QED
        BY <4>3, <4>5
    <3>2. CASE p \in DOMAIN t.rows
      <4>1. rows'[p].state = t.rows[p].state /\ rows'[p].att = t.rows[p].att
        <5>1. rows'[p] = [state |-> t.rows[p].state, att |-> t.rows[p].att,
                          copies |-> t.rows[p].copies +
                                     IF p \in DOMAIN rows THEN rows[p].copies ELSE 0]
          BY <1>1, <3>2 DEF Merged
        <5>2. QED
          BY <5>1
      <4>2. SUFFICES ASSUME t.rows[p].state = "processed", NEW i, i = t.rows[p].att
                     PROVE  i \in DOMAIN atts' /\ p.at \in {i, atts'[i]}
        BY <4>1 DEF Ends
      <4>3. /\ i \in DOMAIN t.atts /\ p.at \in {i, t.atts[i]}
            /\ p.at = i \/ i \in Changed(t)
        BY <1>2, <3>2, <4>2 DEF Works, Ends
      <4>4. CASE i \in Changed(t)
        BY <1>1, <1>4, <4>3, <4>4 DEF Merged
      <4>5. CASE i \notin Changed(t)
        <5>1. i \in DOMAIN t.base
          BY <4>3, <4>5 DEF Changed
        <5>2. QED
          BY <1>2, <1>4, <4>3, <4>5, <5>1 DEF Works, Kept
      <4>6. QED
        BY <4>4, <4>5
    <3>3. QED
      BY <3>1, <3>2
  <2>3. QED
    BY <2>2 DEF ProcessedIsRecorded, Ends
<1>6. ASSUME NEW i \in DOMAIN atts' PROVE \E p \in DOMAIN rows' : p.at = i
  <2>1. CASE i \in DOMAIN atts
    BY <1>4, <2>1 DEF Ended
  <2>2. CASE i \notin DOMAIN atts
    <3>1. i \in DOMAIN t.atts \ DOMAIN t.base
      BY <1>2, <1>4, <1>6, <2>2 DEF Changed, Works, Kept
    <3>2. QED
      BY <1>2, <1>4, <3>1 DEF Works
  <2>3. QED
    BY <2>1, <2>2
<1>7. ASSUME NEW v \in Sessions \ {s}, txn'[v].kind # "idle"
      PROVE  Works(txn'[v], atts')
  <2> DEFINE x == txn[v]
  <2>1. Same(x, txn'[v])
    BY <1>1 DEF Overtaken
  <2>2. x.kind # "idle" /\ Works(x, atts) /\ InScope(x, DOMAIN rows)
    BY <1>7, <2>1 DEF Same, Ended, Scope
  <2>3. PICK A, y : A = atts' /\ y = txn'[v]
    OBVIOUS
  <2>4. Kept(x.base, A)
    BY <1>3, <2>2, <2>3, KeptTransitive DEF Works
  <2>5. ASSUME x.kind = "reprocess", NEW p \in Handles(x), p.at \in DOMAIN A
        PROVE  p.at \in DOMAIN x.base
    <3>1. CASE p.at \in DOMAIN atts
      BY <2>2, <2>5, <3>1 DEF Works
    <3>2. CASE p.at \notin DOMAIN atts
      <4>1. p.at \in DOMAIN t.atts \ DOMAIN t.base
        BY <1>2, <1>4, <2>3, <2>5, <3>2 DEF Changed, Works, Kept
      <4>2. PICK q \in DOMAIN t.rows : q.at = p.at
        BY <1>2, <4>1 DEF Works
      <4>3. q = p
        BY <1>1, <1>2, <2>5, <4>2 DEF Apart
      <4>4. p \in DOMAIN rows /\ p \in Handles(t)
        BY <1>1, <2>2, <2>5, <4>2, <4>3 DEF InScope
      <4>5. t.kind # "reprocess"
        BY <2>5 DEF Ended
      <4>6. Ingesting(t)
        BY <1>1, <1>2, <4>5 DEF TxnTyped, Ingesting
      <4>7. QED
        BY <1>3, <4>4, <4>6
    <3>3. QED
      BY <3>1, <3>2
  <2>6. Works(x, A)
    BY <2>2, <2>4, <2>5 DEF Works
  <2>7. Same(x, y)
    BY <2>1, <2>3
  <2>8. Works(y, A)
    BY <2>6, <2>7, WorksSame
  <2>9. QED
    BY <2>3, <2>8
<1>8. txn'[s].kind = "idle"
  BY <1>1, IdleLaws DEF Overtaken
<1>9. \A v, w \in Sessions : txn'[v].kind = "reprocess" /\ txn'[w].kind = "reprocess" => v = w
  BY <1>1, <1>8 DEF Overtaken, Same, Ended
<1>10. QED
  BY <1>5, <1>6, <1>7, <1>8, <1>9 DEF Ended

LEMMA EndedNext ==
    ASSUME Unguarded = {}, Base, Scope, NoSecondCopy, Ended, [Next]_vars
    PROVE  Ended'
<1>1. DOMAIN txn = Sessions /\ \A s \in Sessions : TxnTyped(txn[s])
  BY DEF Base, Typed, TypeOK
\* What becomes of one transaction, when nothing is stored.
<1>2. ASSUME UNCHANGED <<rows, atts>>,
             \A s \in Sessions : txn'[s].kind # "idle" => Works(txn'[s], atts),
             \A s, v \in Sessions :
                txn'[s].kind = "reprocess" /\ txn'[v].kind = "reprocess" => s = v
      PROVE  Ended'
  BY <1>2 DEF Ended, ProcessedIsRecorded
<1>3. CASE Lapse
  <2>1. ASSUME NEW s \in Sessions, txn'[s].kind # "idle" PROVE Works(txn'[s], atts)
    <3>1. Same(txn[s], txn'[s])
      BY <1>3, <2>1, IdleLaws DEF Lapse
    <3>2. Works(txn[s], atts)
      BY <2>1, <3>1 DEF Same, Ended
    <3>3. PICK u : u = txn'[s]
      OBVIOUS
    <3>4. Same(txn[s], u)
      BY <3>1, <3>3
    <3>5. Works(u, atts)
      BY <3>2, <3>4, WorksSame
    <3>6. QED
      BY <3>3, <3>5
  <2>2. \A s \in Sessions : txn'[s].kind = "reprocess" => txn[s].kind = "reprocess"
    BY <1>3, IdleLaws DEF Lapse, Same
  <2>3. QED
    BY <1>2, <1>3, <2>1, <2>2 DEF Lapse, Ended
<1>4. ASSUME NEW s \in Sessions, Begins(s) PROVE Ended'
  <2>1. PICK t : Fresh(t) /\ txn' = [txn EXCEPT ![s] = t]
    BY <1>4, BegunFresh
  <2>2. txn'[s] = t /\ \A v \in Sessions \ {s} : txn'[v] = txn[v]
    BY <1>1, <2>1
  <2>3. Works(t, atts)
    BY <2>1, WorksFresh
  <2>4. t.kind = "reprocess" => \A v \in Sessions : txn[v].kind # "reprocess"
    BY <2>1 DEF Fresh, Ingesting, Protocols
  <2>5. \A v \in Sessions : txn'[v].kind # "idle" => Works(txn'[v], atts)
    BY <2>2, <2>3 DEF Ended
  <2>6. \A v, w \in Sessions : txn'[v].kind = "reprocess" /\ txn'[w].kind = "reprocess" => v = w
    BY <2>2, <2>4 DEF Ended
  <2>7. UNCHANGED <<rows, atts>>
    BY <1>4, BegunFresh DEF tables
  <2>8. QED
    BY <1>2, <2>5, <2>6, <2>7
<1>5. ASSUME NEW s \in Sessions, Handle(s) PROVE Ended'
  <2>1. PICK p, x, u : /\ TxnTyped(u) /\ Handling(txn[s], p, x, u)
                       /\ txn' = [txn EXCEPT ![s] = u]
    BY <1>5, HandledOne
  <2>2. txn'[s] = u /\ \A v \in Sessions \ {s} : txn'[v] = txn[v]
    BY <1>1, <2>1
  <2>3. Works(txn[s], atts)
    BY <1>5, HandledOne DEF Ended
  <2>4. Works(u, atts)
    BY <1>1, <2>1, <2>3, WorksHandling
  <2>5. u.kind = txn[s].kind
    BY <2>1 DEF Handling
  <2>6. \A v \in Sessions : txn'[v].kind # "idle" => Works(txn'[v], atts)
    BY <2>2, <2>4 DEF Ended
  <2>7. \A v, w \in Sessions : txn'[v].kind = "reprocess" /\ txn'[w].kind = "reprocess" => v = w
    BY <2>2, <2>5 DEF Ended
  <2>8. UNCHANGED <<rows, atts>>
    BY <1>5, HandledOne DEF tables
  <2>9. QED
    BY <1>2, <2>6, <2>7, <2>8
<1>6. QED
  BY <1>3, <1>4, <1>5, CommitEnded, Steps

\* Where no punch can be stored twice, a processed punch stays one end of its
\* attendance, for any terminals and workers: no request, repeated batch or
\* reprocessing of _process_punches() gives that end to another punch or begins the
\* attendance a second time.
THEOREM AttendanceProcessedIsRecorded ==
    ASSUME Unguarded = {}
    PROVE  Spec => []ProcessedIsRecorded
<1>1. Init => Ended
  <2> SUFFICES ASSUME Init PROVE Ended
    OBVIOUS
  <2>1. /\ DOMAIN rows = {} /\ DOMAIN atts = {}
        /\ \A s \in Sessions : txn[s].kind = "idle"
    BY IdleLaws DEF Init
  <2>2. QED
    BY <2>1 DEF Ended, ProcessedIsRecorded
<1>2. Base /\ Scope /\ NoSecondCopy /\ Ended /\ [Next]_vars => Ended'
  BY EndedNext
<1>3. Ended => ProcessedIsRecorded
  BY DEF Ended
<1>4. QED
  BY <1>1, <1>2, <1>3, StoredInv, PTL DEF Spec

--------------------------------------------------------------------------------
(* KeepsRecord: what a commit adds to the attendances lies between stored punches. *)

\* Each of these attendances is open or ends at a later one of these punches.
EndsLater(A, S, P) ==
    \A i \in S : A[i] = Open \/ (i < A[i] /\ \E p \in P : p.at = A[i])

Dated ==
    /\ EndsLater(atts, DOMAIN atts, DOMAIN rows)
    /\ \A s \in Sessions : EndsLater(txn[s].atts, Changed(txn[s]), DOMAIN txn[s].rows)

LEMMA DatedIdle == EndsLater(Idle.atts, Changed(Idle), DOMAIN Idle.rows)
<1>1. DOMAIN Idle.atts = {}
  BY DEF Idle
<1>2. QED
  BY <1>1 DEF EndsLater, Changed

LEMMA DatedSame ==
    ASSUME NEW t, NEW u, Same(t, u), EndsLater(t.atts, Changed(t), DOMAIN t.rows)
    PROVE  EndsLater(u.atts, Changed(u), DOMAIN u.rows)
  BY DEF Same, EndsLater, Changed

LEMMA DatedHandling ==
    ASSUME NEW t, NEW p, NEW v, NEW u, TxnTyped(t), Handling(t, p, v, u),
           EndsLater(t.atts, Changed(t), DOMAIN t.rows)
    PROVE  EndsLater(u.atts, Changed(u), DOMAIN u.rows)
<1>1. u.base = t.base /\ u.atts = v.atts /\ DOMAIN u.rows = DOMAIN t.rows \cup {p}
  BY DEF Handling
<1>2. Advanced(t.atts, u.atts, p)
  <2> DEFINE known == Resolved(t, p.dev)
  <2>1. v = Process(t.atts, p, known) /\ known \in BOOLEAN /\ p \in Punches /\ Ledger(t.atts)
    BY DEF Handling, TxnTyped, Resolved
  <2> HIDE DEF known
  <2>2. Advanced(t.atts, v.atts, p)
    BY <2>1, ProcessLaws
  <2>3. QED
    BY <1>1, <2>2
<1>3. ASSUME NEW i \in Changed(u), u.atts[i] # Open
      PROVE  i < u.atts[i] /\ \E q \in DOMAIN u.rows : q.at = u.atts[i]
  <2>1. CASE i \in DOMAIN t.atts /\ u.atts[i] = t.atts[i]
    <3>1. i \in Changed(t)
      BY <1>1, <1>3, <2>1 DEF Changed
    <3>2. QED
      BY <1>1, <1>3, <2>1, <3>1 DEF EndsLater
  <2>2. CASE u.atts[i] = p.at /\ i < p.at
    BY <1>1, <2>2
  <2>3. QED
    BY <1>2, <1>3, <2>1, <2>2 DEF Advanced, Changed
<1>4. QED
  BY <1>3 DEF EndsLater

LEMMA DatedNext ==
    ASSUME Base, Dated, [Next]_vars
    PROVE  Dated'
<1>1. DOMAIN txn = Sessions /\ \A s \in Sessions : TxnTyped(txn[s])
  BY DEF Base, Typed, TypeOK
<1>2. ASSUME NEW s \in Sessions, txn'[s] = Idle \/ Same(txn[s], txn'[s])
      PROVE  EndsLater(txn'[s].atts, Changed(txn'[s]), DOMAIN txn'[s].rows)
  <2>1. PICK u : u = txn'[s]
    OBVIOUS
  <2>2. u = Idle \/ Same(txn[s], u)
    BY <1>2, <2>1
  <2>3. EndsLater(u.atts, Changed(u), DOMAIN u.rows)
    BY <2>2, DatedIdle, DatedSame DEF Dated
  <2>4. QED
    BY <2>1, <2>3
<1>3. CASE Lapse
  BY <1>2, <1>3 DEF Lapse, Dated
<1>4. ASSUME NEW s \in Sessions, Begins(s) PROVE Dated'
  <2>1. PICK t : Fresh(t) /\ txn' = [txn EXCEPT ![s] = t]
    BY <1>4, BegunFresh
  <2>2. Changed(t) = {}
    BY <2>1 DEF Fresh, Changed
  <2>3. EndsLater(t.atts, Changed(t), DOMAIN t.rows)
    BY <2>2 DEF EndsLater
  <2>4. UNCHANGED <<rows, atts>>
    BY <1>4, BegunFresh DEF tables
  <2>5. QED
    BY <1>1, <2>1, <2>3, <2>4 DEF Dated
<1>5. ASSUME NEW s \in Sessions, Handle(s) PROVE Dated'
  <2>1. PICK p, x, u : Handling(txn[s], p, x, u) /\ txn' = [txn EXCEPT ![s] = u]
    BY <1>5, HandledOne
  <2>2. EndsLater(u.atts, Changed(u), DOMAIN u.rows)
    BY <1>1, <2>1, DatedHandling DEF Dated
  <2>3. UNCHANGED <<rows, atts>>
    BY <1>5, HandledOne DEF tables
  <2>4. QED
    BY <1>1, <2>1, <2>2, <2>3 DEF Dated
<1>6. ASSUME NEW s \in Sessions, Commit(s) PROVE Dated'
  <2>1. Merged(s) /\ Overtaken(s)
    BY <1>6, CommittedOne
  <2>2. \A v \in Sessions : EndsLater(txn'[v].atts, Changed(txn'[v]), DOMAIN txn'[v].rows)
    BY <1>2, <2>1 DEF Overtaken
  <2>3. EndsLater(atts', DOMAIN atts', DOMAIN rows')
    BY <2>1 DEF Merged, EndsLater, Dated
  <2>4. QED
    BY <2>2, <2>3 DEF Dated
<1>7. QED
  BY <1>3, <1>4, <1>5, <1>6, Steps

\* Where no punch can be stored twice, the requests, repeated batches and roll-backs
\* of iot_attendance_device.py implement AttendanceRecord: attendances lie between
\* stored punches, and an end is for good.
THEOREM AttendanceImplementsRecord ==
    ASSUME Unguarded = {}
    PROVE  Spec => KeepsRecord
<1>1. ASSUME Init PROVE Ended /\ Dated /\ Record!Init
  <2>1. /\ DOMAIN rows = {} /\ atts = <<>> /\ DOMAIN atts = {}
        /\ \A s \in Sessions : txn[s] = Idle /\ txn[s].kind = "idle"
    BY <1>1, IdleLaws DEF Init
  <2>2. Ended
    BY <2>1 DEF Ended, ProcessedIsRecorded
  <2>3. Dated
    BY <2>1, DatedIdle DEF Dated, EndsLater
  <2>4. Record!Init
    BY <2>1 DEF Record!Init
  <2>5. QED
    BY <2>2, <2>3, <2>4
<1>2. ASSUME Base, Scope, NoSecondCopy, Ended, Dated, [Next]_vars
      PROVE  Ended' /\ Dated' /\ [Record!Store]_(Record!vars)
  <2>1. Ended' /\ Dated' /\ Base'
    BY <1>2, EndedNext, DatedNext, Steps
  <2>2. ASSUME NEW s \in Sessions, Commit(s) PROVE Record!Store
    <3> DEFINE S == {p.at : p \in DOMAIN rows}
               T == {p.at : p \in DOMAIN rows'}
    <3>1. Kept(atts, atts')
      BY <1>2, <2>2, CommitFits
    <3>2. DOMAIN rows \subseteq DOMAIN rows'
      BY <1>2, <2>2, CommittedOne DEF Merged
    <3>3. S \subseteq T /\ T \subseteq Times
      BY <2>1, <3>2 DEF Base, Typed, TypeOK, Table, Punches
    <3>4. ASSUME NEW i \in DOMAIN atts'
          PROVE  i \in T /\ (atts'[i] = Open \/ (atts'[i] \in T /\ i < atts'[i]))
      BY <2>1, <3>4 DEF Ended, Dated, EndsLater
    <3>5. QED
      BY <3>1, <3>3, <3>4 DEF Record!Store, Record!Between, Kept
  <2>3. ASSUME NEW s \in Sessions, Begins(s) \/ Handle(s) PROVE UNCHANGED <<rows, atts>>
    BY <1>2, <2>3, BegunFresh, HandledOne DEF tables
  <2>4. ASSUME UNCHANGED <<rows, atts>> PROVE UNCHANGED Record!vars
    BY <2>4 DEF Record!vars
  <2>5. Lapse => UNCHANGED <<rows, atts>>
    BY DEF Lapse
  <2>6. QED
    BY <1>2, <2>1, <2>2, <2>3, <2>4, <2>5, Steps
<1>3. QED
  BY <1>1, <1>2, StoredInv, PTL DEF Spec, KeepsRecord, Record!Spec
================================================================================
