------------------------- MODULE FirmwareUpgradeProofs -------------------------
(***************************************************************************)
(* Form and upgrade logs agree, "success" is never shown for a version     *)
(* that has not run, and only a new version or a failure settles an        *)
(* upgrade, for every number of devices, versions, pushes and faults.      *)
(*                                                                         *)
(* The argument: every version a module reports is one it has run, be the  *)
(* report on its way or retained by the broker (VersionsRan), and a report *)
(* that leaves the form "pending" leaves the logs alone.                   *)
(***************************************************************************)
EXTENDS FirmwareUpgrade, SequenceTheorems, TLAPS

\* What a module runs, and what it has reported, it has run.
VersionsRan ==
    \A d \in Devices :
        /\ mod[d].fw \in ran[d]
        /\ retained[d] # None => retained[d].fw \in ran[d]
        /\ \A i \in 1 .. Len(up[d]) : up[d][i].fw \in ran[d]

\* A push that has devices to go is open, and knows its version.
PushHasTarget ==
    /\ txn.pc = "open" => txn.target \in Versions
    /\ txn.todo # {} => txn.pc = "open"

IInv == TypeOK /\ PendingIsLogged /\ SuccessWasRun /\ VersionsRan /\ PushHasTarget

--------------------------------------------------------------------------------
(* Logs *)

\* A verdict on one log leaves the others alone; on a log that does not exist,
\* all of them.
LEMMA VerdictOnOne ==
    ASSUME NEW ls \in Seq(Logs), NEW i, NEW s \in Verdicts,
           NEW ns, ns = [ls EXCEPT ![i].state = s]
    PROVE  /\ ns \in Seq(Logs) /\ Len(ns) = Len(ls)
           /\ \A j \in 1 .. Len(ls) :
                 /\ ns[j].target = ls[j].target
                 /\ ns[j].state = IF j = i THEN s ELSE ls[j].state
<1>1. Len(ls) \in Nat /\ ls \in [1 .. Len(ls) -> Logs]
  BY LenProperties
<1>2. CASE i \in 1 .. Len(ls)
  <2> DEFINE e == [ls[i] EXCEPT !.state = s]
  <2>1. e \in Logs /\ e.target = ls[i].target /\ e.state = s
    BY <1>1, <1>2 DEF Logs
  <2>2. ns = [ls EXCEPT ![i] = e]
    OBVIOUS
  <2> HIDE DEF e
  <2> QED
    BY <1>2, <2>1, <2>2, ExceptSeq
<1>3. CASE i \notin 1 .. Len(ls)
  <2>1. ns = ls
    BY <1>1, <1>3
  <2>2. \A j \in 1 .. Len(ls) : j # i
    BY <1>3
  <2> QED
    BY <2>1, <2>2
<1> QED
  BY <1>2, <1>3

\* What the logs have to do with those before a report of this version.
Judged(ns, ls, v) ==
    /\ ns \in Seq(Logs) /\ Len(ns) = Len(ls)
    /\ \A j \in 1 .. Len(ls) :
          /\ ns[j].target = ls[j].target
          /\ ns[j].state = "success" => ls[j].state = "success" \/ ls[j].target = v

LEMMA VerdictSound ==
    ASSUME NEW ls \in Seq(Logs), NEW i, NEW report \in Reports
    PROVE  /\ Verdict(ls[i].target, report) \in {"success", "mismatch"}
           /\ Judged([ls EXCEPT ![i].state = Verdict(ls[i].target, report)], ls, report.fw)
<1> DEFINE s == Verdict(ls[i].target, report)
<1>1. s \in {"success", "mismatch"} /\ s \in Verdicts
  BY DEF Verdict, Verdicts
<1>2. s = "success" => ls[i].target = report.fw
  BY DEF Verdict
<1> HIDE DEF s
<1> DEFINE ns == [ls EXCEPT ![i].state = s]
<1>3. /\ ns \in Seq(Logs) /\ Len(ns) = Len(ls)
      /\ \A j \in 1 .. Len(ls) : /\ ns[j].target = ls[j].target
                                 /\ ns[j].state = IF j = i THEN s ELSE ls[j].state
  <2> HIDE DEF ns
  <2>1. \A x : x = ns => x = [ls EXCEPT ![i].state = s]
    BY DEF ns
  <2> QED
    BY <1>1, <2>1, VerdictOnOne
<1> HIDE DEF ns
<1>4. Judged(ns, ls, report.fw)
  BY <1>2, <1>3 DEF Judged
<1> QED
  BY <1>1, <1>4 DEF s, ns

\* apply_firmware_report()
LEMMA ReportedSound ==
    ASSUME NEW r \in Records, NEW ls \in Seq(Logs), NEW report \in Reports,
           NEW row, row = Reported(r, ls, report)
    PROVE  /\ row.rec \in Records /\ row.rec.fw = report.fw
           /\ Judged(row.logs, ls, report.fw)
           /\ row.rec.state = "pending" => r.state = "pending" /\ row.logs = ls
<1> DEFINE i == PendingLog(ls)
           known == Known(r, report)
           s == Verdict(ls[i].target, report)
           u == Verdict(r.target, report)
<1>1. /\ known \in Records /\ known.fw = report.fw /\ known.state = r.state
      /\ \A x \in Verdicts : /\ [known EXCEPT !.state = x] \in Records
                             /\ [known EXCEPT !.state = x].fw = report.fw
                             /\ [known EXCEPT !.state = x].state = x
  BY DEF Known, Records, Reports, Verdicts
<1>2. Judged(ls, ls, report.fw)
  BY DEF Judged
<1>3. /\ s \in {"success", "mismatch"} /\ s \in Verdicts
      /\ Judged([ls EXCEPT ![i].state = s], ls, report.fw)
  BY VerdictSound DEF Verdicts
<1>4. u \in {"success", "mismatch"} /\ u \in Verdicts
  BY DEF Verdict, Verdicts
<1> DEFINE judged == [ls EXCEPT ![i].state = s]
<1>5. \/ row.rec = known /\ row.logs = ls
      \/ row.rec = [known EXCEPT !.state = s] /\ row.logs = judged
      \/ row.rec = [known EXCEPT !.state = u] /\ row.logs = ls
  <2>1. \A x, y : Row(x, y).rec = x /\ Row(x, y).logs = y
    BY DEF Row
  <2> HIDE DEF known, i, s, u, judged
  <2>2. \/ row = Row(known, ls)
        \/ row = Row([known EXCEPT !.state = s], judged)
        \/ row = Row([known EXCEPT !.state = u], ls)
    BY DEF Reported, known, i, s, u, judged
  <2> QED
    BY <2>1, <2>2
<1>6. Judged(judged, ls, report.fw)
  BY <1>3 DEF judged
<1> HIDE DEF known, i, s, u, judged
<1>7. CASE row.rec = known /\ row.logs = ls
  BY <1>1, <1>2, <1>7
<1>8. CASE row.rec = [known EXCEPT !.state = s] /\ row.logs = judged
  BY <1>1, <1>3, <1>6, <1>8
<1>9. CASE row.rec = [known EXCEPT !.state = u] /\ row.logs = ls
  BY <1>1, <1>2, <1>4, <1>9
<1> QED
  BY <1>5, <1>7, <1>8, <1>9

\* apply_firmware_upgrade_feedback()
LEMMA FedBackSound ==
    ASSUME NEW r \in Records, NEW ls \in Seq(Logs), NEW report \in Reports,
           NEW row, row = FedBack(r, ls, report)
    PROVE  /\ row.rec \in Records /\ row.rec.fw = r.fw
           /\ row.logs \in Seq(Logs) /\ Len(row.logs) = Len(ls)
           /\ \A j \in 1 .. Len(ls) :
                 /\ row.logs[j].target = ls[j].target
                 /\ row.logs[j].state \in {ls[j].state, "failed"}
           /\ row.rec.state = "pending" => r.state = "pending" /\ row.logs = ls
<1> DEFINE i == PendingLog(ls)
           failed == [ls EXCEPT ![i].state = "failed"]
<1> HIDE DEF i
<1>1. /\ [r EXCEPT !.state = "failed"] \in Records /\ [r EXCEPT !.state = "failed"].fw = r.fw
      /\ [r EXCEPT !.state = "failed"].state = "failed"
  BY DEF Records, Verdicts
<1>2. /\ failed \in Seq(Logs) /\ Len(failed) = Len(ls)
      /\ \A j \in 1 .. Len(ls) : /\ failed[j].target = ls[j].target
                                 /\ failed[j].state \in {ls[j].state, "failed"}
  <2> HIDE DEF failed
  <2>1. "failed" \in Verdicts /\ \A x : x = failed => x = [ls EXCEPT ![i].state = "failed"]
    BY DEF failed, Verdicts
  <2>2. /\ failed \in Seq(Logs) /\ Len(failed) = Len(ls)
        /\ \A j \in 1 .. Len(ls) : /\ failed[j].target = ls[j].target
                                   /\ failed[j].state = IF j = i THEN "failed" ELSE ls[j].state
    BY <2>1, VerdictOnOne
  <2> QED
    BY <2>2
<1>3. \/ row.rec = r /\ row.logs = ls
      \/ row.rec = [r EXCEPT !.state = "failed"] /\ row.logs \in {ls, failed}
  BY DEF FedBack, Row, i
<1> HIDE DEF failed
<1>4. CASE row.rec = r /\ row.logs = ls
  BY <1>4
<1>5. CASE row.rec = [r EXCEPT !.state = "failed"] /\ row.logs \in {ls, failed}
  BY <1>1, <1>2, <1>5
<1> QED
  BY <1>3, <1>4, <1>5

--------------------------------------------------------------------------------
(* The steps *)

LEMMA InitHolds == Init => IInv
<1> SUFFICES ASSUME Init PROVE IInv
  OBVIOUS
<1>1. /\ mod \in [Devices -> Modules] /\ \A d \in Devices : mod[d].fw \in ran[d]
      /\ ran \in [Devices -> SUBSET Versions]
  <2>1. \A d \in Devices : mod[d] \in Modules /\ mod[d].fw \in Versions
    BY DEF Init, Modules
  <2>2. mod = [d \in Devices |-> mod[d]]
    BY DEF Init
  <2> QED
    BY <2>1, <2>2 DEF Init
<1>2. rec \in [Devices -> Records] /\ \A d \in Devices : rec[d].state = "none"
  BY DEF Init, Records
<1>3. Closed \in Txns /\ Closed.todo = {} /\ Closed.pc = "closed"
  BY ConstantsAssumption DEF Closed, Txns
<1>4. TypeOK
  BY <1>1, <1>2, <1>3, ConstantsAssumption, EmptySeq DEF Init, TypeOK
<1>5. PendingIsLogged /\ SuccessWasRun
  BY <1>2 DEF Init, PendingIsLogged, SuccessWasRun
<1>6. VersionsRan /\ PushHasTarget
  BY <1>1, <1>3 DEF Init, VersionsRan, PushHasTarget
<1> QED
  BY <1>4, <1>5, <1>6 DEF IInv

\* A step that leaves form and logs alone and forgets no version.
LEMMA RowsKept ==
    ASSUME IInv, UNCHANGED <<rec, logs>>, \A d \in Devices : ran[d] \subseteq ran'[d]
    PROVE  PendingIsLogged' /\ SuccessWasRun'
<1>1. PendingIsLogged'
  BY DEF IInv, PendingIsLogged, Latest
<1>2. SuccessWasRun'
  BY DEF IInv, SuccessWasRun
<1> QED
  BY <1>1, <1>2

LEMMA SentSound ==
    ASSUME IInv, NEW d \in Devices, NEW report \in Reports, Sent(d, report),
           \A e \in Devices : ran[e] \subseteq ran'[e], report.fw \in ran'[d]
    PROVE  /\ up' \in [Devices -> Seq(Reports)]
           /\ \A e \in Devices : \A i \in 1 .. Len(up'[e]) : up'[e][i].fw \in ran'[e]
<1>1. up \in [Devices -> Seq(Reports)]
  BY DEF IInv, TypeOK
<1>2. \A e \in Devices : \A i \in 1 .. Len(up[e]) : up[e][i].fw \in ran'[e]
  BY DEF IInv, VersionsRan
<1>3. /\ Append(up[d], report) \in Seq(Reports)
      /\ Len(Append(up[d], report)) = Len(up[d]) + 1 /\ Len(up[d]) \in Nat
      /\ \A i \in 1 .. Len(up[d]) : Append(up[d], report)[i] = up[d][i]
      /\ Append(up[d], report)[Len(up[d]) + 1] = report
  BY <1>1
<1>4. /\ up'[d] \in {up[d], Append(up[d], report)} /\ up' = [up EXCEPT ![d] = up'[d]]
      /\ \A e \in Devices \ {d} : up'[e] = up[e]
  BY <1>1 DEF Sent
<1>5. up' \in [Devices -> Seq(Reports)]
  BY <1>1, <1>3, <1>4
<1>6. ASSUME NEW i \in 1 .. Len(up'[d]) PROVE up'[d][i].fw \in ran'[d]
  <2>1. CASE up'[d] = up[d]
    BY <1>2, <2>1
  <2>2. CASE up'[d] = Append(up[d], report)
    <3>1. i \in 1 .. Len(up[d]) \/ i = Len(up[d]) + 1
      BY <1>3, <2>2
    <3> QED
      BY <1>2, <1>3, <2>2, <3>1
  <2> QED
    BY <1>4, <2>1, <2>2
<1> QED
  BY <1>2, <1>4, <1>5, <1>6

LEMMA StatusSound ==
    ASSUME IInv, NEW d \in Devices, PublishStatus(d), mod' \in [Devices -> Modules],
           \A e \in Devices : ran[e] \subseteq ran'[e] /\ mod'[e].fw \in ran'[e]
    PROVE  up' \in [Devices -> Seq(Reports)] /\ retained' \in [Devices -> Reports \cup {None}]
           /\ VersionsRan'
<1>1. Status(mod'[d]) \in Reports /\ Status(mod'[d]).fw = mod'[d].fw
  BY DEF Status, Modules, Reports
<1>2. /\ up' \in [Devices -> Seq(Reports)]
      /\ \A e \in Devices : \A i \in 1 .. Len(up'[e]) : up'[e][i].fw \in ran'[e]
  BY <1>1, SentSound DEF PublishStatus
<1>3. /\ retained \in [Devices -> Reports \cup {None}]
      /\ retained' = [retained EXCEPT ![d] = Status(mod'[d])]
      /\ \A e \in Devices : retained[e] # None => retained[e].fw \in ran'[e]
  BY DEF IInv, TypeOK, VersionsRan, PublishStatus
<1>4. /\ retained' \in [Devices -> Reports \cup {None}]
      /\ \A e \in Devices : retained'[e] # None => retained'[e].fw \in ran'[e]
  BY <1>1, <1>3
<1> QED
  BY <1>2, <1>4 DEF VersionsRan

\* A step of the module that publishes its status.
LEMMA ModuleStep ==
    ASSUME IInv, NEW d \in Devices, PublishStatus(d), mod' \in [Devices -> Modules],
           ran' \in [Devices -> SUBSET Versions], down' \in [Devices -> Seq(Versions)],
           \A e \in Devices : ran[e] \subseteq ran'[e] /\ mod'[e].fw \in ran'[e],
           UNCHANGED <<rec, logs, txn, pushes>>, events' \in 0 .. MaxEvents,
           faults' \in 0 .. MaxFaults
    PROVE  IInv'
<1>1. /\ up' \in [Devices -> Seq(Reports)] /\ retained' \in [Devices -> Reports \cup {None}]
      /\ VersionsRan'
  BY StatusSound
<1>2. TypeOK'
  BY <1>1 DEF IInv, TypeOK
<1>3. PushHasTarget'
  BY DEF IInv, PushHasTarget
<1> QED
  BY <1>1, <1>2, <1>3, RowsKept DEF IInv

LEMMA FaultType ==
    ASSUME TypeOK, Fault \/ UNCHANGED faults
    PROVE  faults' \in 0 .. MaxFaults
BY ConstantsAssumption DEF TypeOK, Fault

\* A module that keeps its version through a change of the rest.
LEMMA VersionKept ==
    ASSUME mod \in [Devices -> Modules], NEW d \in Devices, NEW m \in Modules,
           m.fw = mod[d].fw, mod' = [mod EXCEPT ![d] = m]
    PROVE  mod' \in [Devices -> Modules] /\ \A e \in Devices : mod'[e].fw = mod[e].fw
OBVIOUS

LEMMA HandleCommandStep ==
    ASSUME IInv, NEW d \in Devices, HandleCommand(d)
    PROVE  IInv'
<1>1. /\ mod \in [Devices -> Modules] /\ down \in [Devices -> Seq(Versions)]
      /\ ran \in [Devices -> SUBSET Versions]
  BY DEF IInv, TypeOK
<1>2. Head(down[d]) \in Versions /\ Tail(down[d]) \in Seq(Versions)
  BY <1>1, HeadTailProperties DEF HandleCommand
<1>3. down' \in [Devices -> Seq(Versions)]
  BY <1>1, <1>2 DEF HandleCommand
<1>4. mod' \in [Devices -> Modules] /\ \A e \in Devices : mod'[e].fw = mod[e].fw
  <2> DEFINE m == [mod[d] EXCEPT !.ota = "queued", !.url = Head(down[d])]
  <2>1. mod[d] \in Modules
    BY <1>1
  <2>2. m \in Modules /\ m.fw = mod[d].fw
    BY <2>1, <1>2 DEF Modules
  <2>3. mod' = [mod EXCEPT ![d] = m]
    BY <1>1 DEF HandleCommand, Modules
  <2> HIDE DEF m
  <2> QED
    BY <1>1, <2>2, <2>3, VersionKept
<1>5. events' \in 0 .. MaxEvents /\ faults' \in 0 .. MaxFaults
  BY DEF HandleCommand, IInv, TypeOK
<1> QED
  BY <1>1, <1>3, <1>4, <1>5, ModuleStep DEF HandleCommand, IInv, VersionsRan

LEMMA StartUpgradeStep ==
    ASSUME IInv, NEW d \in Devices, StartUpgrade(d)
    PROVE  IInv'
<1>1. /\ mod \in [Devices -> Modules] /\ down' \in [Devices -> Seq(Versions)]
      /\ ran \in [Devices -> SUBSET Versions]
      /\ events' \in 0 .. MaxEvents /\ faults' \in 0 .. MaxFaults
  BY DEF StartUpgrade, IInv, TypeOK
<1>2. mod' \in [Devices -> Modules] /\ \A e \in Devices : mod'[e].fw = mod[e].fw
  <2> DEFINE m == [mod[d] EXCEPT !.ota = "starting", !.busy = TRUE]
  <2>1. mod[d] \in Modules
    BY <1>1
  <2>2. m \in Modules /\ m.fw = mod[d].fw
    BY <2>1 DEF Modules
  <2>3. mod' = [mod EXCEPT ![d] = m]
    BY <1>1 DEF StartUpgrade, Modules
  <2> HIDE DEF m
  <2> QED
    BY <1>1, <2>2, <2>3, VersionKept
<1> QED
  BY <1>1, <1>2, ModuleStep DEF StartUpgrade, IInv, VersionsRan

LEMMA UpgradeSucceedsStep ==
    ASSUME IInv, NEW d \in Devices, UpgradeSucceeds(d)
    PROVE  IInv'
<1>1. /\ mod \in [Devices -> Modules] /\ down' \in [Devices -> Seq(Versions)]
      /\ ran \in [Devices -> SUBSET Versions] /\ events' \in 0 .. MaxEvents
  BY DEF UpgradeSucceeds, IInv, TypeOK
<1>2. faults' \in 0 .. MaxFaults
  BY FaultType DEF UpgradeSucceeds, IInv
<1>3. PICK v \in Versions : /\ mod' = [mod EXCEPT ![d] = Booted(v)]
                            /\ ran' = [ran EXCEPT ![d] = @ \cup {v}]
  BY DEF UpgradeSucceeds
<1>4. Booted(v) \in Modules /\ Booted(v).fw = v
  BY DEF Booted, Modules
<1>5. mod' \in [Devices -> Modules] /\ ran' \in [Devices -> SUBSET Versions]
  BY <1>1, <1>3, <1>4
<1>6. \A e \in Devices : ran[e] \subseteq ran'[e] /\ mod'[e].fw \in ran'[e]
  BY <1>1, <1>3, <1>4 DEF IInv, VersionsRan
<1> QED
  BY <1>1, <1>2, <1>5, <1>6, ModuleStep DEF UpgradeSucceeds

LEMMA UpgradeFailsStep ==
    ASSUME IInv, NEW d \in Devices, UpgradeFails(d)
    PROVE  IInv'
<1>1. /\ mod \in [Devices -> Modules] /\ down' \in [Devices -> Seq(Versions)]
      /\ ran \in [Devices -> SUBSET Versions] /\ events' \in 0 .. MaxEvents
  BY DEF UpgradeFails, IInv, TypeOK
<1>2. faults' \in 0 .. MaxFaults
  BY FaultType DEF UpgradeFails, IInv
<1>3. mod' \in [Devices -> Modules] /\ \A e \in Devices : mod'[e].fw = mod[e].fw
  <2> DEFINE m == [mod[d] EXCEPT !.ota = "failed", !.url = None, !.busy = FALSE]
  <2>1. mod[d] \in Modules
    BY <1>1
  <2>2. m \in Modules /\ m.fw = mod[d].fw
    BY <2>1 DEF Modules
  <2>3. mod' = [mod EXCEPT ![d] = m]
    BY <1>1 DEF UpgradeFails, Modules
  <2> HIDE DEF m
  <2> QED
    BY <1>1, <2>2, <2>3, VersionKept
<1> QED
  BY <1>1, <1>2, <1>3, ModuleStep DEF UpgradeFails, IInv, VersionsRan

LEMMA PowerCycleStep ==
    ASSUME IInv, NEW d \in Devices, PowerCycle(d)
    PROVE  IInv'
<1>1. /\ mod \in [Devices -> Modules] /\ down' \in [Devices -> Seq(Versions)]
      /\ ran \in [Devices -> SUBSET Versions] /\ events' \in 0 .. MaxEvents
  BY DEF PowerCycle, IInv, TypeOK
<1>2. faults' \in 0 .. MaxFaults
  BY FaultType DEF PowerCycle, IInv
<1>3. Booted(mod[d].fw) \in Modules /\ Booted(mod[d].fw).fw = mod[d].fw
  BY <1>1 DEF Booted, Modules
<1>4. mod' \in [Devices -> Modules] /\ \A e \in Devices : mod'[e].fw = mod[e].fw
  BY <1>1, <1>3 DEF PowerCycle
<1> QED
  BY <1>1, <1>2, <1>4, ModuleStep DEF PowerCycle, IInv, VersionsRan

LEMMA EventStep ==
    ASSUME IInv, NEW d \in Devices, Event(d)
    PROVE  IInv'
<1>1. /\ mod' \in [Devices -> Modules] /\ down' \in [Devices -> Seq(Versions)]
      /\ ran' \in [Devices -> SUBSET Versions] /\ faults' \in 0 .. MaxFaults
  BY DEF Event, IInv, TypeOK
<1>2. events' \in 0 .. MaxEvents
  BY ConstantsAssumption DEF Event, IInv, TypeOK
<1> QED
  BY <1>1, <1>2, ModuleStep DEF Event, IInv, VersionsRan

\* A step that sends nothing new.
LEMMA QuietStep ==
    ASSUME IInv, TypeOK', UNCHANGED <<rec, logs, mod, up, retained, ran>>, PushHasTarget'
    PROVE  IInv'
<1>1. VersionsRan'
  BY DEF IInv, VersionsRan
<1> QED
  BY <1>1, RowsKept DEF IInv

LEMMA MissCommandStep ==
    ASSUME IInv, NEW d \in Devices, MissCommand(d)
    PROVE  IInv'
<1>1. down[d] \in Seq(Versions) /\ down[d] # <<>>
  BY DEF IInv, TypeOK, MissCommand
<1>2. Tail(down[d]) \in Seq(Versions)
  BY <1>1, HeadTailProperties
<1>3. TypeOK'
  BY <1>2 DEF IInv, TypeOK, MissCommand
<1> QED
  BY <1>3, QuietStep DEF MissCommand, IInv, PushHasTarget

\* A push that begins, or begins again.
Begun(ds, v, n) ==
    [pc |-> "open", todo |-> ds, pushed |-> {}, stale |-> {}, target |-> v, run |-> n]

LEMMA BegunType ==
    ASSUME NEW ds \in SUBSET Devices, NEW v \in Versions, NEW n \in 1 .. Tries
    PROVE  Begun(ds, v, n) \in Txns /\ Begun(ds, v, n).pc = "open" /\ Begun(ds, v, n).target = v
BY DEF Begun, Txns

LEMMA PushStep ==
    ASSUME IInv, NEW ds \in SUBSET Devices, NEW v \in Versions, Push(ds, v)
    PROVE  IInv'
<1>1. txn' \in Txns /\ txn'.pc = "open" /\ txn'.target = v
  <2>1. 1 \in 1 .. Tries
    BY ConstantsAssumption
  <2>2. txn' = Begun(ds, v, 1)
    BY DEF Push, Closed, Begun
  <2> QED
    BY <2>1, <2>2, BegunType
<1>2. pushes' \in 0 .. MaxPushes
  BY ConstantsAssumption DEF Push, IInv, TypeOK
<1>3. TypeOK'
  BY <1>1, <1>2 DEF IInv, TypeOK, Push
<1> QED
  BY <1>1, <1>3, QuietStep DEF Push, PushHasTarget

LEMMA PublishStep ==
    ASSUME IInv, NEW d \in Devices, Publish(d)
    PROVE  IInv'
<1>1. txn \in Txns /\ txn.pc = "open" /\ txn.target \in Versions
  BY DEF IInv, TypeOK, PushHasTarget, Publish
<1>2. /\ txn' \in Txns /\ txn'.pc = "open" /\ txn'.target = txn.target
  <2>1. \/ txn' = [txn EXCEPT !.todo = @ \ {d}, !.pushed = @ \cup {d}]
        \/ txn' = [txn EXCEPT !.todo = @ \ {d}]
    BY DEF Publish
  <2>2. txn.todo \ {d} \in SUBSET Devices /\ txn.pushed \cup {d} \in SUBSET Devices
    BY <1>1 DEF Txns
  <2>3. CASE txn' = [txn EXCEPT !.todo = @ \ {d}, !.pushed = @ \cup {d}]
    BY <1>1, <2>2, <2>3 DEF Txns
  <2>4. CASE txn' = [txn EXCEPT !.todo = @ \ {d}]
    BY <1>1, <2>2, <2>4 DEF Txns
  <2> QED
    BY <2>1, <2>3, <2>4
<1>3. down' \in [Devices -> Seq(Versions)]
  <2>1. down \in [Devices -> Seq(Versions)]
    BY DEF IInv, TypeOK
  <2>2. Append(down[d], txn.target) \in Seq(Versions)
    BY <1>1, <2>1
  <2>3. down' = down \/ down' = [down EXCEPT ![d] = Append(down[d], txn.target)]
    BY DEF Publish
  <2> QED
    BY <2>1, <2>2, <2>3
<1>4. faults' \in 0 .. MaxFaults
  BY FaultType DEF Publish, IInv
<1>5. TypeOK'
  BY <1>2, <1>3, <1>4 DEF IInv, TypeOK, Publish
<1> QED
  BY <1>1, <1>2, <1>5, QuietStep DEF Publish, PushHasTarget

LEMMA CommitFailsStep ==
    ASSUME IInv, CommitFails
    PROVE  IInv'
<1>1. txn \in Txns /\ txn.target \in Versions
  BY DEF IInv, TypeOK, PushHasTarget, CommitFails
<1>2. txn' \in Txns /\ (txn'.pc = "open" => txn'.target \in Versions)
      /\ (txn'.todo # {} => txn'.pc = "open")
  <2>1. Closed \in Txns /\ Closed.pc = "closed" /\ Closed.todo = {}
    BY ConstantsAssumption DEF Closed, Txns
  <2>2. CASE txn' = Closed
    BY <2>1, <2>2
  <2>3. CASE /\ txn' = [Closed EXCEPT !.pc = "open", !.todo = txn.pushed,
                                      !.target = txn.target, !.run = txn.run + 1]
             /\ txn.run < Tries
    <3>1. txn.run + 1 \in 1 .. Tries /\ txn.pushed \in SUBSET Devices
      BY <1>1, <2>3, ConstantsAssumption DEF Txns
    <3>2. txn' = Begun(txn.pushed, txn.target, txn.run + 1)
      BY <2>3 DEF Closed, Begun
    <3> QED
      BY <1>1, <3>1, <3>2, BegunType
  <2> QED
    BY <2>2, <2>3 DEF CommitFails, MayRunAgain
<1>3. TypeOK'
  BY <1>2 DEF IInv, TypeOK, CommitFails
<1> QED
  BY <1>2, <1>3, QuietStep DEF CommitFails, PushHasTarget

\* The push marks its rows and adds a pending log to each.
LEMMA CommitStep ==
    ASSUME IInv, Commit
    PROVE  IInv'
<1>1. /\ rec \in [Devices -> Records] /\ logs \in [Devices -> Seq(Logs)]
      /\ txn.target \in Versions
  BY DEF IInv, TypeOK, PushHasTarget, Commit
<1> DEFINE entry == [target |-> txn.target, state |-> "pending"]
<1>2. entry \in Logs /\ entry.state = "pending"
  BY <1>1 DEF Logs, Verdicts
<1>3. ASSUME NEW d \in Devices
      PROVE  /\ rec'[d] \in Records /\ logs'[d] \in Seq(Logs)
             /\ \A i \in 1 .. Len(logs[d]) : logs'[d][i] = logs[d][i]
             /\ \/ rec'[d] = rec[d] /\ logs'[d] = logs[d]
                \/ /\ Len(logs'[d]) = Len(logs[d]) + 1
                   /\ logs'[d][Len(logs[d]) + 1] = entry
  <2>1. CASE d \in txn.pushed
    <3>1. rec'[d] = [rec[d] EXCEPT !.target = txn.target, !.state = "pending"]
      BY <2>1 DEF Commit
    <3>2. rec'[d] \in Records
      BY <1>1, <3>1 DEF Records, Verdicts
    <3>3. logs'[d] = Append(logs[d], entry)
      BY <2>1 DEF Commit, Logged
    <3> HIDE DEF entry
    <3> QED
      BY <1>1, <1>2, <3>2, <3>3
  <2>2. CASE d \notin txn.pushed
    <3>1. rec'[d] = rec[d] /\ logs'[d] = logs[d]
      BY <2>2 DEF Commit
    <3> QED
      BY <1>1, <3>1
  <2> QED
    BY <2>1, <2>2
<1> HIDE DEF entry
<1>4. \A d \in Devices : /\ Len(logs[d]) \in Nat /\ Len(logs'[d]) \in Nat
                          /\ DOMAIN logs[d] = 1 .. Len(logs[d])
                          /\ DOMAIN logs'[d] = 1 .. Len(logs'[d])
  BY <1>1, <1>3
<1>5. rec' \in [Devices -> Records] /\ logs' \in [Devices -> Seq(Logs)]
  BY <1>3 DEF Commit
<1>6. txn' \in Txns /\ PushHasTarget'
  <2>1. Closed \in Txns /\ Closed.pc = "closed" /\ Closed.todo = {}
    BY ConstantsAssumption DEF Closed, Txns
  <2> QED
    BY <2>1 DEF Commit, PushHasTarget
<1>7. TypeOK'
  BY <1>5, <1>6 DEF IInv, TypeOK, Commit
<1>8. PendingIsLogged'
  <2> SUFFICES ASSUME NEW d \in Devices, rec'[d].state = "pending"
               PROVE  logs'[d] # <<>> /\ logs'[d][Len(logs'[d])].state = "pending"
    BY DEF PendingIsLogged, Latest
  <2>1. CASE rec'[d] = rec[d] /\ logs'[d] = logs[d]
    BY <2>1 DEF IInv, PendingIsLogged, Latest
  <2>2. CASE Len(logs'[d]) = Len(logs[d]) + 1 /\ logs'[d][Len(logs[d]) + 1] = entry
    <3>1. Len(logs'[d]) # 0
      BY <1>4, <2>2
    <3> QED
      BY <1>2, <2>2, <3>1
  <2> QED
    BY <1>3, <2>1, <2>2
<1>9. SuccessWasRun'
  <2> SUFFICES ASSUME NEW d \in Devices, NEW i \in 1 .. Len(logs'[d]),
                      logs'[d][i].state = "success"
               PROVE  logs'[d][i].target \in ran[d]
    BY <1>4 DEF SuccessWasRun, Commit
  <2>1. CASE i \in 1 .. Len(logs[d])
    BY <1>3, <1>4, <2>1 DEF IInv, SuccessWasRun
  <2>2. CASE i \notin 1 .. Len(logs[d])
    <3>1. i = Len(logs[d]) + 1 /\ logs'[d][i] = entry
      BY <1>3, <1>4, <2>2
    <3> QED
      BY <1>2, <3>1
  <2> QED
    BY <2>1, <2>2
<1>11. VersionsRan'
  BY DEF IInv, VersionsRan, Commit
<1> QED
  BY <1>6, <1>7, <1>8, <1>9, <1>11 DEF IInv

\* The first report on its way is taken off it.
LEMMA TailSound ==
    ASSUME IInv, NEW d \in Devices, up[d] # <<>>, up' = [up EXCEPT ![d] = Tail(@)]
    PROVE  /\ Head(up[d]) \in Reports /\ Head(up[d]).fw \in ran[d]
           /\ up' \in [Devices -> Seq(Reports)]
           /\ UNCHANGED <<mod, retained, ran>> => VersionsRan'
<1>1. up \in [Devices -> Seq(Reports)] /\ up[d] \in Seq(Reports)
  BY DEF IInv, TypeOK
<1>2. /\ Head(up[d]) \in Reports /\ Tail(up[d]) \in Seq(Reports)
      /\ Len(Tail(up[d])) = Len(up[d]) - 1 /\ Len(up[d]) \in Nat \ {0}
      /\ \A i \in 1 .. Len(Tail(up[d])) : Tail(up[d])[i] = up[d][i + 1]
      /\ Head(up[d]) = up[d][1]
  BY <1>1, HeadTailProperties, EmptySeq
<1>3. \A e \in Devices : \A i \in 1 .. Len(up[e]) : up[e][i].fw \in ran[e]
  BY DEF IInv, VersionsRan
<1>4. Head(up[d]).fw \in ran[d]
  BY <1>2, <1>3
<1>5. \A i \in 1 .. Len(Tail(up[d])) : Tail(up[d])[i].fw \in ran[d]
  BY <1>2, <1>3
<1>6. up' \in [Devices -> Seq(Reports)] /\ up'[d] = Tail(up[d])
      /\ \A e \in Devices \ {d} : up'[e] = up[e]
  BY <1>1, <1>2
<1>7. \A e \in Devices : \A i \in 1 .. Len(up'[e]) : up'[e][i].fw \in ran[e]
  BY <1>3, <1>5, <1>6
<1>8. UNCHANGED <<mod, retained, ran>> => VersionsRan'
  BY <1>7 DEF IInv, VersionsRan
<1> QED
  BY <1>2, <1>4, <1>6, <1>8

LEMMA LoseReportStep ==
    ASSUME IInv, NEW d \in Devices, LoseReport(d)
    PROVE  IInv'
<1>1. up' \in [Devices -> Seq(Reports)] /\ VersionsRan'
  BY TailSound DEF LoseReport
<1>2. faults' \in 0 .. MaxFaults
  BY FaultType DEF LoseReport, IInv
<1>3. TypeOK' /\ PushHasTarget'
  BY <1>1, <1>2 DEF IInv, TypeOK, PushHasTarget, LoseReport
<1> QED
  BY <1>1, <1>3, RowsKept DEF IInv, LoseReport

LEMMA ProcessReportStep ==
    ASSUME IInv, NEW d \in Devices, ProcessReport(d)
    PROVE  IInv'
<1> DEFINE report == Head(up[d])
           first  == Reported(rec[d], logs[d], report)
           second == FedBack(first.rec, first.logs, report)
<1>1. /\ rec \in [Devices -> Records] /\ logs \in [Devices -> Seq(Logs)]
      /\ rec[d] \in Records /\ logs[d] \in Seq(Logs)
  BY DEF IInv, TypeOK
<1>2. report \in Reports /\ report.fw \in ran[d] /\ up' \in [Devices -> Seq(Reports)]
      /\ VersionsRan'
  BY TailSound DEF ProcessReport
<1>3. rec' = [rec EXCEPT ![d] = second.rec] /\ logs' = [logs EXCEPT ![d] = second.logs]
  BY DEF ProcessReport
<1>4. \A row : row = first => row = Reported(rec[d], logs[d], report)
  OBVIOUS
<1>5. \A row : row = second => row = FedBack(first.rec, first.logs, report)
  OBVIOUS
<1> HIDE DEF report, first, second
<1>6. /\ first.rec \in Records /\ first.rec.fw = report.fw
      /\ Judged(first.logs, logs[d], report.fw)
      /\ first.rec.state = "pending" => rec[d].state = "pending" /\ first.logs = logs[d]
  BY <1>1, <1>2, <1>4, ReportedSound
<1>7. first.logs \in Seq(Logs) /\ Len(first.logs) = Len(logs[d])
  BY <1>6 DEF Judged
<1>8. /\ second.rec \in Records /\ second.rec.fw = report.fw
      /\ second.logs \in Seq(Logs) /\ Len(second.logs) = Len(logs[d])
      /\ \A j \in 1 .. Len(logs[d]) :
            /\ second.logs[j].target = first.logs[j].target
            /\ second.logs[j].state \in {first.logs[j].state, "failed"}
      /\ second.rec.state = "pending" => rec[d].state = "pending" /\ second.logs = logs[d]
  BY <1>2, <1>5, <1>6, <1>7, FedBackSound
<1>9. /\ rec' \in [Devices -> Records] /\ logs' \in [Devices -> Seq(Logs)]
      /\ rec'[d] = second.rec /\ logs'[d] = second.logs
      /\ \A e \in Devices \ {d} : rec'[e] = rec[e] /\ logs'[e] = logs[e]
  BY <1>1, <1>3, <1>8
<1>10. DOMAIN logs[d] = 1 .. Len(logs[d]) /\ DOMAIN second.logs = 1 .. Len(logs[d])
  BY <1>1, <1>8, LenProperties
<1>11. txn' \in Txns /\ PushHasTarget'
  <2>1. txn \in Txns
    BY DEF IInv, TypeOK
  <2>2. Overtaken(d) \in Txns /\ Overtaken(d).pc = txn.pc /\ Overtaken(d).todo = txn.todo
        /\ Overtaken(d).target = txn.target
    BY <2>1 DEF Overtaken, Txns
  <2> QED
    BY <2>2 DEF ProcessReport, IInv, PushHasTarget
<1>12. TypeOK'
  BY <1>2, <1>9, <1>11 DEF IInv, TypeOK, ProcessReport
<1>13. PendingIsLogged'
  <2> SUFFICES ASSUME NEW e \in Devices, rec'[e].state = "pending"
               PROVE  logs'[e] # <<>> /\ logs'[e][Len(logs'[e])].state = "pending"
    BY DEF PendingIsLogged, Latest
  <2>1. rec[e].state = "pending" /\ logs'[e] = logs[e]
    BY <1>8, <1>9
  <2> QED
    BY <2>1 DEF IInv, PendingIsLogged, Latest
<1>14. SuccessWasRun'
  <2> SUFFICES ASSUME NEW e \in Devices, NEW i \in DOMAIN logs'[e],
                      logs'[e][i].state = "success"
               PROVE  logs'[e][i].target \in ran[e]
    BY DEF SuccessWasRun, ProcessReport
  <2>1. CASE e # d
    BY <1>9, <2>1 DEF IInv, SuccessWasRun
  <2>2. CASE e = d
    <3>1. i \in 1 .. Len(logs[d]) /\ first.logs[i].state = "success"
          /\ logs'[d][i].target = first.logs[i].target
      BY <1>8, <1>9, <1>10, <2>2
    <3>2. first.logs[i].target = logs[d][i].target
          /\ (logs[d][i].state = "success" \/ logs[d][i].target = report.fw)
      BY <1>6, <3>1 DEF Judged
    <3>3. logs[d][i].state = "success" => logs[d][i].target \in ran[d]
      BY <1>10, <3>1 DEF IInv, SuccessWasRun
    <3> QED
      BY <1>2, <2>2, <3>1, <3>2, <3>3
  <2> QED
    BY <2>1, <2>2
<1> QED
  BY <1>2, <1>11, <1>12, <1>13, <1>14 DEF IInv

LEMMA RedeliverStep ==
    ASSUME IInv, NEW d \in Devices, Redeliver(d)
    PROVE  IInv'
<1>1. retained[d] \in Reports /\ retained[d].fw \in ran[d]
  BY DEF IInv, TypeOK, VersionsRan, Redeliver
<1>2. Sent(d, retained[d]) /\ UNCHANGED ran
  BY DEF Redeliver, Sent
<1>3. /\ up' \in [Devices -> Seq(Reports)]
      /\ \A e \in Devices : \A i \in 1 .. Len(up'[e]) : up'[e][i].fw \in ran'[e]
  BY <1>1, <1>2, SentSound
<1>4. VersionsRan'
  BY <1>3 DEF IInv, VersionsRan, Redeliver
<1>5. faults' \in 0 .. MaxFaults
  BY FaultType DEF Redeliver, IInv
<1>6. TypeOK' /\ PushHasTarget'
  BY <1>3, <1>5 DEF IInv, TypeOK, PushHasTarget, Redeliver
<1> QED
  BY <1>4, <1>6, RowsKept DEF IInv, Redeliver

LEMMA TelemetryStep ==
    ASSUME IInv, NEW d \in Devices, Telemetry(d)
    PROVE  IInv'
<1> DEFINE report == [fw |-> mod[d].fw, ota |-> "none"]
<1>1. report \in Reports /\ report.fw \in ran[d]
  BY DEF IInv, TypeOK, VersionsRan, Modules, Reports
<1>2. Sent(d, report) /\ UNCHANGED ran
  BY DEF Telemetry
<1> HIDE DEF report
<1>3. /\ up' \in [Devices -> Seq(Reports)]
      /\ \A e \in Devices : \A i \in 1 .. Len(up'[e]) : up'[e][i].fw \in ran'[e]
  BY <1>1, <1>2, SentSound
<1>4. VersionsRan'
  BY <1>3 DEF IInv, VersionsRan, Telemetry
<1>5. TypeOK' /\ PushHasTarget'
  BY <1>3 DEF IInv, TypeOK, PushHasTarget, Telemetry
<1> QED
  BY <1>4, <1>5, RowsKept DEF IInv, Telemetry

LEMMA StepHolds == IInv /\ [Next]_vars => IInv'
<1> SUFFICES ASSUME IInv, [Next]_vars PROVE IInv'
  OBVIOUS
<1>1. CASE UNCHANGED vars
  <2>1. TypeOK' /\ PushHasTarget'
    BY <1>1 DEF vars, IInv, TypeOK, PushHasTarget
  <2> QED
    BY <1>1, <2>1, QuietStep DEF vars
<1>2. ASSUME NEW ds \in (SUBSET Devices) \ {{}}, NEW v \in Versions, Push(ds, v)
      PROVE  IInv'
  BY <1>2, PushStep
<1>3. CASE Commit \/ CommitFails
  BY <1>3, CommitStep, CommitFailsStep
<1>4. ASSUME NEW d \in Devices,
             \/ Publish(d) \/ ProcessReport(d) \/ LoseReport(d) \/ Redeliver(d)
             \/ HandleCommand(d) \/ MissCommand(d)
             \/ StartUpgrade(d) \/ UpgradeSucceeds(d) \/ UpgradeFails(d)
             \/ PowerCycle(d) \/ Event(d) \/ Telemetry(d)
      PROVE  IInv'
  BY <1>4, PublishStep, ProcessReportStep, LoseReportStep, RedeliverStep, HandleCommandStep,
     MissCommandStep, StartUpgradeStep, UpgradeSucceedsStep, UpgradeFailsStep, PowerCycleStep,
     EventStep, TelemetryStep
<1> QED
  BY <1>1, <1>2, <1>3, <1>4 DEF Next

--------------------------------------------------------------------------------
(* The theorems *)

LEMMA InvariantHolds == Spec => []IInv
BY InitHolds, StepHolds, PTL DEF Spec

\* Every state of pushes, logs, messages and modules has its type.
THEOREM UpgradeTypeCorrect == Spec => []TypeOK
BY InvariantHolds, PTL DEF IInv

\* Form and logs: pending on the form is pending in the latest log, whatever
\* pushes and reports of any number of devices do at once.
THEOREM PendingAlwaysLogged == Spec => []PendingIsLogged
BY InvariantHolds, PTL DEF IInv

\* A log that says "success" names a version the module has run, whatever was
\* lost, mislabelled or redelivered.
THEOREM SuccessAlwaysRan == Spec => []SuccessWasRun
BY InvariantHolds, PTL DEF IInv

================================================================================
