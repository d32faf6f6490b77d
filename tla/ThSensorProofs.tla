----------------------------- MODULE ThSensorProofs -----------------------------
(***************************************************************************)
(* The open alerts are those of the packet committed last, and no reading  *)
(* is lost by the rollup, for every number of sessions, attempts, hours    *)
(* and limits.                                                             *)
(*                                                                         *)
(* The argument: a packet that has not been overtaken since its snapshot   *)
(* has seen the alerts as they are (SeenIsPresent), because only a commit  *)
(* changes them and a commit overtakes every packet under way; and what    *)
(* arrived since the rollup's snapshot is still there (LateIsThere).       *)
(***************************************************************************)
EXTENDS ThSensor, FiniteSetTheorems, TLAPS

SeenIsPresent ==
    \A s \in Sessions : txn[s].pc = "open" /\ ~txn[s].stale => txn[s].seen = alerts

LateIsThere == cron.late \subseteq raw

IInv ==
    /\ TypeOK
    /\ IsFiniteSet(alerts)
    /\ SeenIsPresent
    /\ LateIsThere
    /\ AlertsFollow

--------------------------------------------------------------------------------
(* What the operators return *)

\* The limits that apply are limits.
LEMMA EffectiveType ==
    ASSUME TypeOK
    PROVE  Effective \in Limits
BY ConstantsAssumption DEF TypeOK, Effective

LEMMA NoPacketType == NoPacket \in Packets /\ NoPacket.pc = "none"
<1>1. PICK chosen \in Values : TRUE
  BY ConstantsAssumption DEF Limits
<1>2. (CHOOSE v \in Values : TRUE) \in Values
  BY <1>1
<1>3. 1 \in Hours /\ 1 \in 1 .. MaxTries /\ Own \in Limits
  BY ConstantsAssumption DEF Hours
<1> QED
  BY <1>2, <1>3 DEF NoPacket, Packets

\* A packet in a new transaction has seen the alerts as they are.
LEMMA OpenedType ==
    ASSUME TypeOK, NEW value \in Values, NEW hour \in Hours, NEW tries \in 1 .. MaxTries
    PROVE  /\ Opened(value, hour, tries) \in Packets
           /\ Opened(value, hour, tries).seen = alerts
<1>1. Effective \in Limits
  BY EffectiveType
<1>2. alerts \in SUBSET (Kinds \X Nat)
  BY DEF TypeOK
<1> QED
  BY <1>1, <1>2 DEF Opened, Packets

\* Overtaking marks every packet under way, and changes nothing else.
LEMMA OvertakenType ==
    ASSUME NEW txns \in [Sessions -> Packets]
    PROVE  /\ Overtaken(txns) \in [Sessions -> Packets]
           /\ \A s \in Sessions : Overtaken(txns)[s].pc = "open" => Overtaken(txns)[s].stale
BY DEF Overtaken, Packets

\* On the alerts as they are, apply_reading() leaves those that its packet calls
\* for, and never a second one of a kind.
LEMMA AlertsAfterFollow ==
    ASSUME TypeOK, IsFiniteSet(alerts), AlertsFollow,
           NEW t \in Packets, t.seen = alerts
    PROVE  LET after == AlertsAfter(t) IN
           /\ after \in SUBSET (Kinds \X Nat)
           /\ IsFiniteSet(after)
           /\ \A k \in OutOfRange(t) : \E a \in after : a[1] = k
           /\ InRange(t) => after = {}
           /\ \A a, b \in after : a[1] = b[1] => a = b
<1> DEFINE number(k) == Cardinality({a \in alerts : a[1] = k}) + 1
           opens == OutOfRange(t) \ {a[1] : a \in alerts}
           after == AlertsAfter(t)
<1>1. alerts \in SUBSET (Kinds \X Nat)
  BY DEF TypeOK
<1>2. OutOfRange(t) \subseteq Kinds /\ opens \subseteq Kinds
  BY DEF OutOfRange
<1>3. ASSUME NEW k PROVE number(k) \in Nat
  <2>1. {a \in alerts : a[1] = k} \in SUBSET alerts
    OBVIOUS
  <2>2. IsFiniteSet({a \in alerts : a[1] = k})
    BY <2>1, FS_Subset
  <2>3. Cardinality({a \in alerts : a[1] = k}) \in Nat
    BY <2>2, FS_CardinalityType
  <2> QED
    BY <2>3
<1>4. t.value \in Nat /\ t.limits.low \in Nat /\ t.limits.high \in Nat
  BY ConstantsAssumption DEF Packets, Limits
<1>5. after = (alerts \ (IF InRange(t) THEN alerts ELSE {})) \cup {<<k, number(k)>> : k \in opens}
  BY DEF AlertsAfter
<1> HIDE DEF number, after
<1>6. CASE InRange(t)
  <2>1. OutOfRange(t) = {}
    BY <1>4, <1>6 DEF OutOfRange, InRange
  <2>2. after = {}
    BY <1>5, <1>6, <2>1
  <2> QED
    BY <2>1, <2>2, FS_EmptySet DEF after
<1>7. CASE ~InRange(t)
  <2>1. after = alerts \cup {<<k, number(k)>> : k \in opens}
    BY <1>5, <1>7
  <2>2. after \in SUBSET (Kinds \X Nat)
    BY <1>1, <1>2, <1>3, <2>1
  <2>3. IsFiniteSet(after)
    <3> DEFINE high == <<"temp_high", number("temp_high")>>
               low  == <<"temp_low", number("temp_low")>>
    <3>1. after \subseteq (alerts \cup {high}) \cup {low}
      BY <1>2, <2>1 DEF Kinds
    <3>2. IsFiniteSet((alerts \cup {high}) \cup {low})
      BY FS_AddElement
    <3> QED
      BY <3>1, <3>2, FS_Subset
  <2>4. \A k \in OutOfRange(t) : \E a \in after : a[1] = k
    <3>1. SUFFICES ASSUME NEW k \in OutOfRange(t) PROVE \E a \in after : a[1] = k
      OBVIOUS
    <3>2. CASE k \in opens
      <4>1. <<k, number(k)>> \in after
        BY <2>1, <3>2
      <4>2. <<k, number(k)>>[1] = k
        OBVIOUS
      <4> QED
        BY <4>1, <4>2
    <3>3. CASE k \notin opens
      <4>1. PICK a \in alerts : a[1] = k
        BY <3>1, <3>3
      <4> QED
        BY <2>1, <4>1
    <3> QED
      BY <3>2, <3>3
  <2>5. \A a, b \in after : a[1] = b[1] => a = b
    <3>1. SUFFICES ASSUME NEW a \in after, NEW b \in after, a[1] = b[1] PROVE a = b
      OBVIOUS
    <3>2. \A c \in after \ alerts : c[1] \in opens /\ c = <<c[1], number(c[1])>>
      BY <2>1
    <3>3. \A c \in alerts : c[1] \notin opens
      OBVIOUS
    <3>4. CASE a \in alerts /\ b \in alerts
      BY <3>1, <3>4 DEF AlertsFollow
    <3>5. CASE a \notin alerts /\ b \notin alerts
      BY <3>1, <3>2, <3>5
    <3> QED
      BY <3>1, <3>2, <3>3, <3>4, <3>5
  <2> QED
    BY <1>7, <2>2, <2>3, <2>4, <2>5 DEF after
<1> QED
  BY <1>6, <1>7

--------------------------------------------------------------------------------
(* The steps *)

LEMMA InitHolds == Init => IInv
<1> SUFFICES ASSUME Init PROVE IInv
  OBVIOUS
<1>1. Own.low \in Nat /\ Own.high \in Nat /\ Values \subseteq Nat
  BY ConstantsAssumption DEF Limits
<1>2. TypeOK
  <2>1. txn \in [Sessions -> Packets]
    BY NoPacketType DEF Init
  <2>2. now \in Hours /\ raw \subseteq Hours /\ rolled \subseteq Hours
    BY ConstantsAssumption DEF Init, Hours
  <2>3. temp \in Values
    BY ConstantsAssumption DEF Init
  <2>4. group \in [limits : GroupLimits, applies : BOOLEAN]
    BY DEF Init
  <2>5. last \in [value : Values, limits : Limits]
    BY <2>3, ConstantsAssumption DEF Init
  <2>6. alerts \in SUBSET (Kinds \X Nat) /\ changes \in 0 .. MaxChanges
    BY ConstantsAssumption DEF Init
  <2>7. cron \in [pc : {"idle", "batch", "count"}, hours : SUBSET Hours,
                  late : SUBSET Hours, stale : BOOLEAN]
    BY DEF Init, NoRollup
  <2> QED
    BY <2>1, <2>2, <2>3, <2>4, <2>5, <2>6, <2>7 DEF TypeOK
<1>3. IsFiniteSet(alerts)
  BY FS_EmptySet DEF Init
<1>4. SeenIsPresent
  BY NoPacketType DEF Init, SeenIsPresent
<1>5. LateIsThere
  BY DEF Init, LateIsThere, NoRollup
<1>6. AlertsFollow
  <2>1. last.value = temp /\ last.limits = Own /\ alerts = {}
    BY DEF Init
  <2>2. Own.low <= temp /\ temp <= Own.high /\ temp \in Nat
    BY <1>1 DEF Init
  <2>3. OutOfRange(last) = {}
    BY <1>1, <2>1, <2>2 DEF OutOfRange
  <2> QED
    BY <2>1, <2>3 DEF AlertsFollow
<1> QED
  BY <1>2, <1>3, <1>4, <1>5, <1>6 DEF IInv

\* What the world does touches neither tables nor transactions.
LEMMA WorldStep ==
    ASSUME IInv, World
    PROVE  IInv'
<1>1. /\ UNCHANGED <<alerts, raw, rolled, last, txn, cron>>
      /\ temp' \in Values /\ now' \in Hours /\ changes' \in 0 .. MaxChanges
      /\ group' \in [limits : GroupLimits, applies : BOOLEAN]
  <2>1. CASE TemperatureChanges
    BY <2>1, ConstantsAssumption DEF IInv, TypeOK, TemperatureChanges, Change, readings
  <2>2. CASE HourPasses
    BY <2>2, ConstantsAssumption DEF IInv, TypeOK, HourPasses, Hours, readings
  <2>3. CASE EditGroup
    BY <2>3, ConstantsAssumption DEF IInv, TypeOK, EditGroup, Change, readings
  <2> QED
    BY <2>1, <2>2, <2>3 DEF World
<1> QED
  BY <1>1 DEF IInv, TypeOK, SeenIsPresent, LateIsThere, AlertsFollow

\* A session begins a packet, afresh or again.
LEMMA OpenStep ==
    ASSUME IInv, NEW s \in Sessions, NEW value \in Values, NEW hour \in Hours,
           NEW tries \in 1 .. MaxTries,
           txn' = [txn EXCEPT ![s] = Opened(value, hour, tries)],
           UNCHANGED <<temp, now, group, alerts, raw, rolled, last, cron>>,
           changes' \in 0 .. MaxChanges
    PROVE  IInv'
<1>1. /\ Opened(value, hour, tries) \in Packets
      /\ Opened(value, hour, tries).seen = alerts
  BY OpenedType DEF IInv
<1>2. TypeOK'
  BY <1>1 DEF IInv, TypeOK
<1>3. SeenIsPresent'
  BY <1>1 DEF IInv, TypeOK, SeenIsPresent
<1> QED
  BY <1>2, <1>3 DEF IInv, LateIsThere, AlertsFollow

LEMMA BeginStep ==
    ASSUME IInv, NEW s \in Sessions,
           Report(s) \/ LateReport(s) \/ \E t \in Sessions : Repost(s, t)
    PROVE  IInv'
<1>0. /\ temp \in Values /\ now \in Hours /\ txn \in [Sessions -> Packets]
      /\ changes \in 0 .. MaxChanges /\ 1 \in 1 .. MaxTries
  BY ConstantsAssumption DEF IInv, TypeOK
<1>1. Change => changes' \in 0 .. MaxChanges
  BY <1>0, ConstantsAssumption DEF Change
<1>2. PICK value \in Values, hour \in Hours :
         /\ Begin(s, value, hour)
         /\ UNCHANGED <<temp, now, group>>
         /\ changes' \in 0 .. MaxChanges
  <2>1. CASE Report(s)
    BY <1>0, <2>1 DEF Report, world
  <2>2. CASE LateReport(s)
    <3>1. 1 .. now \subseteq Hours
      BY <1>0, ConstantsAssumption DEF Hours
    <3> QED
      BY <1>1, <2>2, <3>1 DEF LateReport
  <2>3. CASE \E t \in Sessions : Repost(s, t)
    <3>1. PICK t \in Sessions : Repost(s, t)
      BY <2>3
    <3>2. txn[t].value \in Values /\ txn[t].hour \in Hours
      BY <1>0 DEF Packets
    <3> QED
      BY <1>1, <3>1, <3>2 DEF Repost
  <2> QED
    BY <2>1, <2>2, <2>3
<1>3. /\ txn' = [txn EXCEPT ![s] = Opened(value, hour, 1)]
      /\ UNCHANGED <<alerts, raw, rolled, last, cron>>
  BY <1>2 DEF Begin, readings
<1> QED
  BY <1>0, <1>2, <1>3, OpenStep

\* A packet commits: the alerts become those it calls for, and whoever has
\* another snapshot is overtaken.
LEMMA CommitStep ==
    ASSUME IInv, NEW s \in Sessions, Commit(s)
    PROVE  IInv'
<1> DEFINE t == txn[s]
<1>0. TypeOK /\ IsFiniteSet(alerts) /\ AlertsFollow /\ SeenIsPresent /\ LateIsThere
  BY DEF IInv
<1>1. t \in Packets /\ t.pc = "open" /\ ~t.stale /\ t.seen = alerts
  BY <1>0 DEF Commit, TypeOK, SeenIsPresent
<1>2. /\ alerts' = AlertsAfter(t)
      /\ last' = [value |-> t.value, limits |-> t.limits]
      /\ raw' = raw \cup {t.hour} /\ UNCHANGED <<rolled, temp, now, group, changes>>
      /\ txn' = Overtaken([txn EXCEPT ![s] = NoPacket])
      /\ cron' = CronMisses(t.hour)
  BY DEF Commit, world
<1>3. t.hour \in Hours /\ t.value \in Values /\ t.limits \in Limits
  BY <1>1 DEF Packets
<1>4. /\ alerts' \in SUBSET (Kinds \X Nat)
      /\ IsFiniteSet(alerts')
      /\ \A k \in OutOfRange(t) : \E a \in alerts' : a[1] = k
      /\ InRange(t) => alerts' = {}
      /\ \A a, b \in alerts' : a[1] = b[1] => a = b
  BY <1>0, <1>1, <1>2, AlertsAfterFollow
<1>5. [txn EXCEPT ![s] = NoPacket] \in [Sessions -> Packets]
  BY <1>0, NoPacketType DEF TypeOK
<1>6. /\ txn' \in [Sessions -> Packets]
      /\ \A v \in Sessions : txn'[v].pc = "open" => txn'[v].stale
  BY <1>2, <1>5, OvertakenType
<1>7. /\ cron' \in [pc : {"idle", "batch", "count"}, hours : SUBSET Hours,
                    late : SUBSET Hours, stale : BOOLEAN]
      /\ cron'.late \subseteq raw'
  <2>1. cron \in [pc : {"idle", "batch", "count"}, hours : SUBSET Hours,
                  late : SUBSET Hours, stale : BOOLEAN]
    BY <1>0 DEF TypeOK
  <2> DEFINE counting == cron.pc = "count"
             later    == IF cron.pc = "batch" THEN cron.late \cup {t.hour} ELSE cron.late
  <2>2. cron' = [cron EXCEPT !.stale = counting, !.late = later]
    BY <1>2 DEF CronMisses
  <2>3. counting \in BOOLEAN
    OBVIOUS
  <2>4. later \subseteq Hours /\ later \subseteq raw'
    BY <1>0, <1>2, <1>3, <2>1 DEF LateIsThere
  <2> HIDE DEF counting, later
  <2> QED
    BY <2>1, <2>2, <2>3, <2>4
<1>8. TypeOK'
  BY <1>0, <1>2, <1>3, <1>4, <1>6, <1>7 DEF TypeOK
<1>9. AlertsFollow'
  <2>1. last'.value = t.value /\ last'.limits = t.limits
    BY <1>2
  <2>2. OutOfRange(last') = OutOfRange(t) /\ InRange(last') = InRange(t)
    BY <2>1 DEF OutOfRange, InRange
  <2> QED
    BY <1>4, <2>2 DEF AlertsFollow, OutOfRange, InRange
<1> QED
  BY <1>4, <1>6, <1>7, <1>8, <1>9 DEF IInv, SeenIsPresent, LateIsThere

\* A packet that was overtaken is dropped or read again.
LEMMA RetryStep ==
    ASSUME IInv, NEW s \in Sessions, Retry(s)
    PROVE  IInv'
<1>0. txn[s] \in Packets
  BY DEF IInv, TypeOK
<1>f. UNCHANGED <<temp, now, group, alerts, raw, rolled, last, cron, changes>>
  BY DEF Retry, readings, world
<1>1. CASE txn[s].tries = MaxTries
  <2>1. txn' = [txn EXCEPT ![s] = NoPacket]
    BY <1>1 DEF Retry
  <2>2. TypeOK'
    BY <1>f, <2>1, NoPacketType DEF IInv, TypeOK
  <2>3. SeenIsPresent'
    BY <1>f, <2>1, NoPacketType DEF IInv, TypeOK, SeenIsPresent
  <2> QED
    BY <1>f, <2>2, <2>3 DEF IInv, LateIsThere, AlertsFollow
<1>2. CASE txn[s].tries # MaxTries
  <2>1. txn' = [txn EXCEPT ![s] = Opened(txn[s].value, txn[s].hour, txn[s].tries + 1)]
    BY <1>2 DEF Retry
  <2>2. txn[s].value \in Values /\ txn[s].hour \in Hours /\ txn[s].tries + 1 \in 1 .. MaxTries
    BY <1>0, <1>2, ConstantsAssumption DEF Packets
  <2>3. changes' \in 0 .. MaxChanges
    BY <1>f DEF IInv, TypeOK
  <2> QED
    BY <1>f, <2>1, <2>2, <2>3, OpenStep
<1> QED
  BY <1>1, <1>2

\* The rollup touches readings and its own state, and overtakes at its end.
LEMMA RollupStep ==
    ASSUME IInv, Rollup
    PROVE  IInv'
<1>0. /\ raw \subseteq Hours /\ rolled \subseteq Hours /\ txn \in [Sessions -> Packets]
      /\ cron \in [pc : {"idle", "batch", "count"}, hours : SUBSET Hours,
                   late : SUBSET Hours, stale : BOOLEAN]
  BY DEF IInv, TypeOK
<1>f. UNCHANGED <<temp, now, group, alerts, last, changes>>
  BY DEF Rollup, SelectBatch, CommitBatch, FinishRollup, world
<1>1. /\ raw' \subseteq Hours /\ rolled' \subseteq Hours
      /\ cron' \in [pc : {"idle", "batch", "count"}, hours : SUBSET Hours,
                    late : SUBSET Hours, stale : BOOLEAN]
      /\ cron'.late = {}
      /\ txn' \in [Sessions -> Packets]
      /\ txn' = txn \/ \A s \in Sessions : txn'[s].pc = "open" => txn'[s].stale
  <2>1. CASE SelectBatch
    BY <1>0, <2>1 DEF SelectBatch, NoRollup, Old, readings
  <2>2. CASE CommitBatch
    BY <1>0, <2>2 DEF CommitBatch, NoRollup, Rolled, Survivors
  <2>3. CASE FinishRollup
    BY <1>0, <2>3, OvertakenType DEF FinishRollup, NoRollup, readings
  <2> QED
    BY <2>1, <2>2, <2>3 DEF Rollup
<1>2. TypeOK'
  BY <1>f, <1>1 DEF IInv, TypeOK
<1>3. SeenIsPresent'
  BY <1>f, <1>1 DEF IInv, SeenIsPresent
<1> QED
  BY <1>f, <1>1, <1>2, <1>3 DEF IInv, LateIsThere, AlertsFollow

LEMMA NextStep ==
    ASSUME IInv, [Next]_vars
    PROVE  IInv'
<1>1. CASE World
  BY <1>1, WorldStep
<1>2. ASSUME NEW s \in Sessions, Session(s) PROVE IInv'
  BY <1>2, BeginStep, CommitStep, RetryStep DEF Session
<1>3. CASE Rollup
  BY <1>3, RollupStep
<1>4. CASE UNCHANGED vars
  BY <1>4 DEF IInv, TypeOK, SeenIsPresent, LateIsThere, AlertsFollow, vars
<1> QED
  BY <1>1, <1>2, <1>3, <1>4 DEF Next

--------------------------------------------------------------------------------
(* Theorems *)

LEMMA Invariant == Spec => []IInv
<1>1. IInv /\ [Next]_vars => IInv'
  BY NextStep
<1> QED
  BY <1>1, InitHolds, PTL DEF Spec

\* Every packet, alert, reading and limit keeps its type.
THEOREM SensorTypeCorrect == Spec => []TypeOK
<1>1. IInv => TypeOK
  BY DEF IInv
<1> QED
  BY <1>1, Invariant, PTL

\* The open alerts are those of the packet committed last, however many sessions
\* process packets at once and however often each is tried.
THEOREM AlertsAlwaysFollow == Spec => []AlertsFollow
<1>1. IInv => AlertsFollow
  BY DEF IInv
<1> QED
  BY <1>1, Invariant, PTL

\* No step leaves an hour that has been measured without readings, unless they
\* average to (0, 0).
THEOREM HoursAreKept == Spec => HourIsKept
<1>1. [Next]_vars => \A h \in Hours \ ZeroHours : Measured(h) => Measured(h)'
  <2> SUFFICES ASSUME [Next]_vars, NEW h \in Hours \ ZeroHours, h \in raw \cup rolled
               PROVE  h \in raw' \cup rolled'
    BY DEF Measured
  <2>1. CASE raw \subseteq raw' /\ rolled' = rolled
    BY <2>1
  <2>2. CASE CommitBatch
    BY <2>2 DEF CommitBatch, Rolled, Survivors
  <2>3. CASE World
    BY <2>1, <2>3 DEF World, TemperatureChanges, HourPasses, EditGroup, readings
  <2>4. ASSUME NEW s \in Sessions, Session(s) PROVE raw \subseteq raw' /\ rolled' = rolled
    BY <2>4 DEF Session, Report, LateReport, Repost, Begin, Commit, Retry, readings
  <2>5. CASE SelectBatch \/ FinishRollup
    BY <2>1, <2>5 DEF SelectBatch, FinishRollup, readings
  <2>6. CASE UNCHANGED vars
    BY <2>1, <2>6 DEF vars
  <2> QED
    BY <2>1, <2>2, <2>3, <2>4, <2>5, <2>6 DEF Next, Rollup
<1> QED
  BY <1>1, PTL DEF Spec, HourIsKept

\* No step deletes a reading that arrived after the rollup's snapshot.
THEOREM LateIsAlwaysAveraged == Spec => LateIsAveraged
<1>1. IInv /\ [Next]_vars => \A h \in cron.late : h \in raw'
  <2> SUFFICES ASSUME IInv, [Next]_vars PROVE cron.late \subseteq raw'
    OBVIOUS
  <2>0. cron.late \subseteq raw
    BY DEF IInv, LateIsThere
  <2>1. CASE raw \subseteq raw'
    BY <2>0, <2>1
  <2>2. CASE CommitBatch
    BY <2>2 DEF CommitBatch, Survivors
  <2>3. CASE World
    BY <2>1, <2>3 DEF World, TemperatureChanges, HourPasses, EditGroup, readings
  <2>4. ASSUME NEW s \in Sessions, Session(s) PROVE raw \subseteq raw'
    BY <2>4 DEF Session, Report, LateReport, Repost, Begin, Commit, Retry, readings
  <2>5. CASE SelectBatch \/ FinishRollup
    BY <2>1, <2>5 DEF SelectBatch, FinishRollup, readings
  <2>6. CASE UNCHANGED vars
    BY <2>1, <2>6 DEF vars
  <2> QED
    BY <2>1, <2>2, <2>3, <2>4, <2>5, <2>6 DEF Next, Rollup
<1> QED
  BY <1>1, Invariant, PTL DEF Spec, LateIsAveraged

================================================================================
