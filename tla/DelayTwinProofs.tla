---------------------------- MODULE DelayTwinProofs ----------------------------
(***************************************************************************)
(* Every state of DelayTwin has its type, and a delay is never shown on a  *)
(* switch that is shown off, for every duration, number of retries and     *)
(* length of the hops.                                                     *)
(***************************************************************************)
EXTENDS DelayTwin, TLAPS

--------------------------------------------------------------------------------
(* What the operators return *)

\* A countdown stays within its range, and an empty column stays empty.
LEMMA SoonerType ==
    ASSUME NEW t \in Times \cup {NoTime}
    PROVE  Sooner(t) \in Times \cup {NoTime} /\ (t \in Times => Sooner(t) \in Times)
BY ConstantsAssumption, SMT DEF Sooner, Times

\* apply_state_report() keeps a delay only on a relay that is on.
LEMMA SwitchedHeld ==
    ASSUME NEW r \in HeldRecords, NEW state \in {"off", "on"}
    PROVE  Switched(r, state) \in HeldRecords /\ Switched(r, state).relay = state
BY SMT DEF Switched, HeldRecords, Records

\* So does action_delay_toggle().
LEMMA ToggledHeld ==
    ASSUME NEW r \in HeldRecords
    PROVE  Toggled(r) \in HeldRecords
BY ConstantsAssumption, SMT DEF Toggled, HeldRecords, Records, Times

\* apply_delay_report() flags a delay only if the report does.
LEMMA DelayedHeld ==
    ASSUME NEW r \in HeldRecords, NEW report \in HeldReports, report.on => r.relay = "on"
    PROVE  Delayed(r, report) \in HeldRecords
<1>1. report.left \in Times /\ report.delay \in BOOLEAN /\ r \in Records
  BY DEF HeldReports, Reports, HeldRecords
<1>2. CASE ~report.delay
  <2>1. Delayed(r, report) = [r EXCEPT !.delay = FALSE, !.end = NoTime]
    BY <1>2 DEF Delayed
  <2> QED
    BY <1>1, <2>1 DEF HeldRecords, Records
<1>3. CASE report.delay /\ report.left > 0
  <2>1. ~(report.left = 0)
    BY <1>1, <1>3, SMT DEF Times
  <2>2. Delayed(r, report) = [r EXCEPT !.delay = TRUE, !.end = report.left]
    BY <1>3, <2>1, Zenon DEF Delayed
  <2> QED
    BY <1>1, <1>3, <2>2 DEF HeldRecords, HeldReports, Records
<1>4. CASE report.delay /\ report.left = 0
  <2>1. ~(report.left > 0)
    BY <1>1, <1>4, SMT DEF Times
  <2>2. Delayed(r, report) = [r EXCEPT !.delay = TRUE]
    BY <1>4, <2>1, Zenon DEF Delayed
  <2> QED
    BY <1>1, <1>4, <2>2 DEF HeldRecords, HeldReports, Records
<1>5. report.left > 0 \/ report.left = 0
  BY <1>1, SMT DEF Times
<1> QED
  BY <1>1, <1>2, <1>3, <1>4, <1>5

\* What the module reports of itself is right if the module is.
LEMMA ReportingHeld ==
    ASSUME NEW m \in HeldModules, up \in Seq(HeldReports), Reporting(m)
    PROVE  up' \in Seq(HeldReports)
<1>1. m.on \in BOOLEAN /\ m.delay \in BOOLEAN /\ m.left \in Times /\ (m.delay => m.on)
  BY DEF HeldModules, Modules
<1>2. CASE Len(up) = MaxWire
  BY <1>2 DEF Reporting
<1>3. CASE Len(up) # MaxWire
  <2>1. PICK left \in Remaining(m) :
            up' = Append(up, [on |-> m.on, delay |-> m.delay /\ m.left > 0, left |-> left])
    BY <1>3 DEF Reporting
  <2>2. left \in Times
    BY <1>1, ConstantsAssumption, SMT DEF Remaining, Times
  <2>3. [on |-> m.on, delay |-> m.delay /\ m.left > 0, left |-> left] \in HeldReports
    BY <1>1, <2>2 DEF HeldReports, Reports
  <2> QED
    BY <2>1, <2>3
<1> QED
  BY <1>2, <1>3

\* isDelayActive() only takes the flag away, and does if no delay is running.
LEMMA CheckedHeld ==
    ASSUME mod \in HeldModules
    PROVE  Checked(mod) \in HeldModules /\ (~Running => ~Checked(mod).delay)
<1>1. mod \in Modules /\ (mod.left > 0 \/ mod.left = 0)
  BY SMT DEF HeldModules, Modules, Times
<1>2. CASE mod.delay /\ mod.left = 0
  <2>1. Checked(mod) = [mod EXCEPT !.delay = FALSE]
    BY <1>2 DEF Checked
  <2> QED
    BY <1>1, <2>1 DEF HeldModules, Modules
<1>3. CASE ~(mod.delay /\ mod.left = 0)
  <2>1. Checked(mod) = mod
    BY <1>3 DEF Checked
  <2> QED
    BY <1>1, <1>3, <2>1 DEF Running
<1> QED
  BY <1>2, <1>3

\* What handleCommand() makes of the module.
LEMMA ObeyedHeld ==
    ASSUME NEW command \in Commands, mod \in HeldModules
    PROVE  Obeyed(command) \in HeldModules
<1>1. Off \in HeldModules /\ Started \in HeldModules
  BY ConstantsAssumption, SMT DEF Off, Started, HeldModules, Modules, Times
<1>2. ~Running => [Checked(mod) EXCEPT !.on = (command = "on")] \in HeldModules
  BY CheckedHeld DEF HeldModules, Modules
<1>3. \/ Obeyed(command) \in {Off, Started, mod}
      \/ ~Running /\ Obeyed(command) = [Checked(mod) EXCEPT !.on = (command = "on")]
  <2>1. command = "delay_toggle" /\ Running => Obeyed(command) = Off
    BY Zenon DEF Obeyed
  <2>2. command = "delay_toggle" /\ ~Running => Obeyed(command) = Started
    BY Zenon DEF Obeyed
  <2>3. command # "delay_toggle" /\ Running => Obeyed(command) = mod
    BY Zenon DEF Obeyed
  <2>4. command # "delay_toggle" /\ ~Running
           => Obeyed(command) = [Checked(mod) EXCEPT !.on = (command = "on")]
    BY Zenon DEF Obeyed
  <2> QED
    BY <2>1, <2>2, <2>3, <2>4
<1> QED
  BY <1>1, <1>2, <1>3

--------------------------------------------------------------------------------
(* Type correctness *)

LEMMA InitType == Init => TypeOK
<1> SUFFICES ASSUME Init PROVE TypeOK
  OBVIOUS
<1>1. rec \in Records /\ Blank \in Records
  BY SMT DEF Init, Blank, Records
<1>2. txn \in Txns
  BY <1>1, ConstantsAssumption, SMT DEF Init, Closed, Txns, Requests
<1>3. mod \in Modules
  BY ConstantsAssumption, SMT DEF Init, Modules, Times
<1>4. down \in Seq(Commands) /\ up \in Seq(Reports)
  BY DEF Init
<1>5. clicks \in 0 .. MaxClicks /\ presses \in 0 .. MaxPresses /\ faults \in 0 .. MaxFaults
  BY ConstantsAssumption, SMT DEF Init
<1> QED
  BY <1>1, <1>2, <1>3, <1>4, <1>5 DEF TypeOK

\* A message more may have been lost.
LEMMA FaultType ==
    ASSUME faults \in 0 .. MaxFaults, Fault
    PROVE  faults' \in 0 .. MaxFaults
BY ConstantsAssumption, SMT DEF Fault

\* The request under way keeps its type.
LEMMA TxnType ==
    ASSUME TypeOK
    PROVE  /\ Closed \in Txns
           /\ Overtaken \in Txns
           /\ [txn EXCEPT !.pc = "published"] \in Txns
           /\ \A kind \in Requests, run \in 1 .. Tries : Begun(kind, run) \in Txns
           /\ txn.run < Tries => Begun("delay", txn.run + 1) \in Txns
<1>1. txn \in Txns /\ rec \in Records /\ Blank \in Records /\ 1 \in 1 .. Tries
  BY ConstantsAssumption, SMT DEF TypeOK, Blank, Records
<1>2. Closed \in Txns
  BY <1>1 DEF Closed, Txns, Requests
<1>3. Overtaken \in Txns
  BY <1>1 DEF Overtaken, Txns
<1>4. [txn EXCEPT !.pc = "published"] \in Txns
  BY <1>1 DEF Txns
<1>5. \A kind \in Requests, run \in 1 .. Tries : Begun(kind, run) \in Txns
  BY <1>1 DEF Begun, Txns
<1>6. txn.run < Tries => txn.run + 1 \in 1 .. Tries
  <2>1. txn.run \in 1 .. Tries
    BY <1>1 DEF Txns
  <2> QED
    BY <2>1, ConstantsAssumption, SMT
<1>7. "delay" \in Requests
  BY DEF Requests
<1> QED
  BY <1>2, <1>3, <1>4, <1>5, <1>6, <1>7

--------------------------------------------------------------------------------
(* The inductive invariant *)

LEMMA InitHeld == Init => IInv
<1> SUFFICES ASSUME Init PROVE IInv
  OBVIOUS
<1>1. rec \in Records /\ mod \in Modules /\ txn.row = rec
  BY InitType DEF TypeOK, Init, Closed
<1>2. ~rec.delay /\ ~mod.delay /\ up = <<>>
  BY DEF Init, Blank
<1> QED
  BY <1>1, <1>2 DEF IInv, HeldRecords, HeldModules

\* The parts of the invariant a report can disturb.
LEMMA ReportStep ==
    ASSUME TypeOK, IInv, mod' \in HeldModules, Reporting(mod')
    PROVE  /\ mod' \in Modules
           /\ up' \in Seq(HeldReports) /\ up' \in Seq(Reports)
<1>1. up' \in Seq(HeldReports)
  <2>1. \A m \in HeldModules : Reporting(m) => up' \in Seq(HeldReports)
    BY ReportingHeld DEF IInv
  <2> QED
    BY <2>1
<1>2. up' \in Seq(Reports)
  <2>1. HeldReports \subseteq Reports
    BY DEF HeldReports
  <2> QED
    BY <1>1, <2>1
<1> QED
  BY <1>1, <1>2 DEF HeldModules

\* The parts a write of the record can disturb.
LEMMA RecordStep ==
    ASSUME TypeOK, IInv, rec' \in HeldRecords, txn' \in {Closed, Overtaken}
    PROVE  /\ rec' \in Records
           /\ txn' \in Txns /\ txn'.row \in HeldRecords
<1>1. txn' \in Txns
  BY TxnType
<1>2. Overtaken.row = txn.row
  BY DEF Overtaken, TypeOK, Txns
<1>3. Closed.row \in HeldRecords
  BY SMT DEF Closed, Blank, HeldRecords, Records
<1> QED
  BY <1>1, <1>2, <1>3 DEF HeldRecords, IInv

\* Time passes in the record, in the snapshot of the request and in the module.
LEMMA TickStep ==
    ASSUME TypeOK, IInv, Tick
    PROVE  /\ rec' \in HeldRecords /\ txn' \in Txns /\ txn'.row \in HeldRecords
           /\ mod' \in HeldModules
<1>1. rec \in HeldRecords /\ txn \in Txns /\ txn.row \in HeldRecords /\ mod \in HeldModules
  BY DEF TypeOK, IInv
<1>2. \A r \in HeldRecords : [r EXCEPT !.end = Sooner(@)] \in HeldRecords
  <2> SUFFICES ASSUME NEW r \in HeldRecords
               PROVE  [r EXCEPT !.end = Sooner(r.end)] \in HeldRecords
    OBVIOUS
  <2>1. Sooner(r.end) \in Times \cup {NoTime}
    BY SoonerType DEF HeldRecords, Records
  <2> QED
    BY <2>1 DEF HeldRecords, Records
<1>3. rec' \in HeldRecords
  BY <1>1, <1>2 DEF Tick
<1>4. txn' = [txn EXCEPT !.row = [txn.row EXCEPT !.end = Sooner(@)]]
  BY DEF Tick
<1>5. txn' \in Txns /\ txn'.row \in HeldRecords
  <2> DEFINE row == [txn.row EXCEPT !.end = Sooner(@)]
  <2>1. row \in HeldRecords /\ row \in Records
    BY <1>1, <1>2 DEF HeldRecords
  <2>2. txn' = [txn EXCEPT !.row = row]
    BY <1>4
  <2> HIDE DEF row
  <2> QED
    BY <1>1, <2>1, <2>2 DEF Txns
<1>6. mod' \in HeldModules
  <2>1. mod' = [mod EXCEPT !.left = Sooner(mod.left)]
    BY DEF Tick
  <2>2. Sooner(mod.left) \in Times
    BY <1>1, SoonerType DEF HeldModules, Modules
  <2> QED
    BY <1>1, <2>1, <2>2 DEF HeldModules, Modules
<1> QED
  BY <1>3, <1>5, <1>6

\* Every step keeps the type and the invariant; the named parts are in TypeOK
\* and IInv in the same order.
LEMMA NextStep ==
    ASSUME TypeOK, IInv, Next
    PROVE  TypeOK' /\ IInv'
<1> DEFINE Conclusion ==
        /\ rec' \in Records /\ rec' \in HeldRecords
        /\ txn' \in Txns /\ txn'.row \in HeldRecords
        /\ mod' \in Modules /\ mod' \in HeldModules
        /\ down' \in Seq(Commands)
        /\ up' \in Seq(Reports) /\ up' \in Seq(HeldReports)
        /\ clicks' \in 0 .. MaxClicks /\ presses' \in 0 .. MaxPresses /\ faults' \in 0 .. MaxFaults
<1> SUFFICES Conclusion
  BY DEF TypeOK, IInv
<1>a. /\ rec \in Records /\ rec \in HeldRecords
      /\ txn \in Txns /\ txn.row \in HeldRecords
      /\ mod \in Modules /\ mod \in HeldModules
      /\ down \in Seq(Commands)
      /\ up \in Seq(Reports) /\ up \in Seq(HeldReports)
      /\ clicks \in 0 .. MaxClicks /\ presses \in 0 .. MaxPresses /\ faults \in 0 .. MaxFaults
  BY DEF TypeOK, IInv
<1>b. txn.row \in Records /\ txn.kind \in Requests
  BY <1>a DEF Txns
<1>1. ASSUME NEW kind \in Requests, Click(kind) PROVE Conclusion
  <2>1. clicks' \in 0 .. MaxClicks
    BY <1>a, <1>1, ConstantsAssumption, SMT DEF Click
  <2>2. txn' = Begun(kind, 1) /\ 1 \in 1 .. Tries
    BY <1>1, ConstantsAssumption, SMT DEF Click
  <2>3. txn' \in Txns /\ txn'.row = rec
    BY <2>2, TxnType DEF Begun
  <2>f. UNCHANGED <<rec, mod, down, up, presses, faults>>
    BY <1>1 DEF Click
  <2> QED
    BY <1>a, <2>f, <2>1, <2>3
<1>2. CASE Publish
  <2>1. down' \in Seq(Commands)
    <3> DEFINE command == IF txn.kind = "delay" THEN "delay_toggle" ELSE txn.kind
    <3>1. command \in Commands
      BY <1>b DEF Requests, Commands
    <3>2. down' = Append(down, command) \/ down' = down
      BY <1>2, Zenon DEF Publish
    <3> HIDE DEF command
    <3> QED
      BY <1>a, <3>1, <3>2
  <2>2. txn' \in {[txn EXCEPT !.pc = "published"], Closed}
    BY <1>2, Zenon DEF Publish
  <2>3. txn' \in Txns /\ txn'.row \in HeldRecords
    <3>1. [txn EXCEPT !.pc = "published"].row = txn.row
      BY <1>a DEF Txns
    <3>2. Closed.row \in HeldRecords
      BY SMT DEF Closed, Blank, HeldRecords, Records
    <3> QED
      BY <1>a, <2>2, <3>1, <3>2, TxnType
  <2>4. faults' \in 0 .. MaxFaults
    BY <1>a, <1>2, FaultType, Zenon DEF Publish
  <2>f. UNCHANGED <<rec, mod, up, clicks, presses>>
    BY <1>2 DEF Publish
  <2> QED
    BY <1>a, <2>f, <2>1, <2>3, <2>4
<1>3. CASE WriteBack
  <2>1. rec' \in HeldRecords
    <3>1. txn.kind = "delay" \/ txn.kind \in {"off", "on"}
      BY <1>b DEF Requests
    <3> QED
      BY <1>a, <1>3, <3>1, ToggledHeld, SwitchedHeld DEF WriteBack
  <2>2. txn' \in {Closed, Overtaken}
    BY <1>3 DEF WriteBack
  <2>f. UNCHANGED <<mod, down, up, clicks, presses, faults>>
    BY <1>3 DEF WriteBack
  <2> QED
    BY <1>a, <2>f, <2>1, <2>2, RecordStep
<1>4. CASE WriteFails
  <2>f. UNCHANGED <<rec, mod, down, up, clicks, presses, faults>>
    BY <1>4 DEF WriteFails
  <2>1. CASE MayRunAgain(txn)
    <3>1. txn' = Begun("delay", txn.run + 1) /\ txn.run < Tries
      BY <1>4, <2>1 DEF WriteFails, MayRunAgain
    <3>2. txn' \in Txns /\ txn'.row = rec
      BY <3>1, TxnType DEF Begun
    <3> QED
      BY <1>a, <2>f, <3>2
  <2>2. CASE ~MayRunAgain(txn)
    <3>1. txn' \in {Closed, Overtaken} /\ rec' \in HeldRecords
      BY <1>a, <1>4, <2>2 DEF WriteFails
    <3> QED
      BY <1>a, <2>f, <3>1, RecordStep
  <2> QED
    BY <2>1, <2>2
<1>5. CASE ProcessReport
  <2>1. Head(up) \in HeldReports
    BY <1>a, <1>5 DEF ProcessReport
  <2>2. rec' \in HeldRecords
    <3> DEFINE state == IF Head(up).on THEN "on" ELSE "off"
    <3>1. state \in {"off", "on"} /\ (Head(up).on => state = "on")
      OBVIOUS
    <3>2. Switched(rec, state) \in HeldRecords /\ Switched(rec, state).relay = state
      BY <1>a, <3>1, SwitchedHeld
    <3>3. rec' = Delayed(Switched(rec, state), Head(up))
      BY <1>5 DEF ProcessReport
    <3> HIDE DEF state
    <3> QED
      BY <2>1, <3>1, <3>2, <3>3, DelayedHeld
  <2>3. txn' \in {Closed, Overtaken}
    BY <1>5 DEF ProcessReport
  <2>4. up' \in Seq(Reports) /\ up' \in Seq(HeldReports)
    BY <1>a, <1>5 DEF ProcessReport
  <2>f. UNCHANGED <<mod, down, clicks, presses, faults>>
    BY <1>5 DEF ProcessReport
  <2> QED
    BY <1>a, <2>f, <2>2, <2>3, <2>4, RecordStep
<1>6. CASE LoseReport
  <2>1. faults' \in 0 .. MaxFaults
    BY <1>a, <1>6, FaultType DEF LoseReport
  <2>2. up' \in Seq(Reports) /\ up' \in Seq(HeldReports)
    BY <1>a, <1>6 DEF LoseReport
  <2>f. UNCHANGED <<rec, txn, mod, down, clicks, presses>>
    BY <1>6 DEF LoseReport
  <2> QED
    BY <1>a, <2>f, <2>1, <2>2
<1>7. CASE ExpireRecord
  <2>1. rec' \in HeldRecords
    BY <1>a, <1>7 DEF ExpireRecord, HeldRecords, Records
  <2>2. txn' \in {Closed, Overtaken}
    BY <1>7 DEF ExpireRecord
  <2>f. UNCHANGED <<mod, down, up, clicks, presses, faults>>
    BY <1>7 DEF ExpireRecord
  <2> QED
    BY <1>a, <2>f, <2>1, <2>2, RecordStep
<1>8. CASE HandleCommand
  <2>1. Head(down) \in Commands /\ down' \in Seq(Commands)
    BY <1>a, <1>8 DEF HandleCommand
  <2>2. mod' \in HeldModules
    BY <1>a, <1>8, <2>1, ObeyedHeld DEF HandleCommand
  <2>3. Reporting(mod')
    BY <1>8, Zenon DEF HandleCommand
  <2>f. UNCHANGED <<rec, txn, clicks, presses, faults>>
    BY <1>8 DEF HandleCommand
  <2> QED
    BY <1>a, <2>f, <2>1, <2>2, <2>3, ReportStep
<1>9. CASE ButtonPressed
  <2>1. mod' \in HeldModules
    BY <1>a, <1>9, ConstantsAssumption, SMT DEF ButtonPressed, HeldModules, Modules, Times
  <2>2. Reporting(mod')
    BY <1>9, Zenon DEF ButtonPressed
  <2>3. presses' \in 0 .. MaxPresses
    BY <1>a, <1>9, ConstantsAssumption, SMT DEF ButtonPressed
  <2>f. UNCHANGED <<rec, txn, down, clicks, faults>>
    BY <1>9 DEF ButtonPressed
  <2> QED
    BY <1>a, <2>f, <2>1, <2>2, <2>3, ReportStep
<1>10. CASE DelayExpires
  <2>1. mod' \in HeldModules
    BY <1>10, ConstantsAssumption, SMT DEF DelayExpires, Off, HeldModules, Modules, Times
  <2>2. Reporting(mod')
    BY <1>10, Zenon DEF DelayExpires
  <2>f. UNCHANGED <<rec, txn, down, clicks, presses, faults>>
    BY <1>10 DEF DelayExpires
  <2> QED
    BY <1>a, <2>f, <2>1, <2>2, ReportStep
<1>11. CASE Telemetry
  <2>1. mod' \in HeldModules
    BY <1>a, <1>11, CheckedHeld DEF Telemetry
  <2>2. Reporting(mod')
    BY <1>11, Zenon DEF Telemetry
  <2>f. UNCHANGED <<rec, txn, down, clicks, presses, faults>>
    BY <1>11 DEF Telemetry
  <2> QED
    BY <1>a, <2>f, <2>1, <2>2, ReportStep
<1>12. CASE Tick
  <2>1. /\ rec' \in HeldRecords /\ rec' \in Records
        /\ mod' \in HeldModules /\ mod' \in Modules
    BY <1>12, TickStep DEF HeldRecords, HeldModules
  <2>f. UNCHANGED <<down, up, clicks, presses, faults>>
    BY <1>12 DEF Tick
  <2> QED
    BY <1>a, <1>12, <2>f, <2>1, TickStep
<1> HIDE DEF Conclusion
<1> QED
  BY <1>1, <1>2, <1>3, <1>4, <1>5, <1>6, <1>7, <1>8, <1>9, <1>10, <1>11, <1>12, Zenon DEF Next

\* Nothing changes in a stuttering step.
LEMMA StutterStep ==
    ASSUME TypeOK, IInv, UNCHANGED vars
    PROVE  TypeOK' /\ IInv'
BY DEF TypeOK, IInv, vars

--------------------------------------------------------------------------------
(* Theorems *)

LEMMA Invariant == Spec => [](TypeOK /\ IInv)
<1>1. Init => TypeOK /\ IInv
  BY InitType, InitHeld
<1>2. (TypeOK /\ IInv) /\ [Next]_vars => (TypeOK /\ IInv)'
  BY NextStep, StutterStep
<1> QED
  BY <1>1, <1>2, PTL DEF Spec

\* Every column, snapshot, message and countdown keeps its type.
THEOREM DelayTwinTypeCorrect == Spec => []TypeOK
BY Invariant, PTL

\* The record never shows a delay on a switch it shows off: whatever the
\* snapshot an overtaken request writes back from, and whatever report was still
\* on its way, both carry a delay only together with a relay that is on.
THEOREM DelayAlwaysShownOn == Spec => []DelayShownOn
<1>1. IInv => DelayShownOn
  BY DEF IInv, HeldRecords, DelayShownOn
<1> QED
  BY <1>1, Invariant, PTL

================================================================================
