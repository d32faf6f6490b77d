------------------------------ MODULE RelayProofs ------------------------------
(***************************************************************************)
(* Theorems about the relay module and what Odoo makes of its reports:     *)
(* RelayFirmware, for every schedule table, week length, set of delays and *)
(* number of power cycles; UptimeMeter, for any number of sessions and any *)
(* length of the minute; MqttIngest, for any batches, windows and faults.  *)
(***************************************************************************)
EXTENDS RelayFirmware, UptimeMeter, MqttIngest,
        FiniteSetTheorems, WellFoundedInduction, TLAPS

--------------------------------------------------------------------------------
(* The firmware *)

\* The handlers only take ~relayOn, Loaded(flash) and Due of well-typed values.
LEMMA LoadedType == ASSUME TypeOK PROVE Loaded(flash) \in Image
  BY ConstantsAssumption DEF TypeOK, Loaded, Default, Image

LEMMA ReadableType ==
    ASSUME TypeOK PROVE \A file \in {flash, Unreadable} : Loaded(file) \in Image
  BY LoadedType, ConstantsAssumption DEF Loaded, Default, Image

LEMMA ImageReadable == ASSUME NEW f \in Image PROVE f # Unreadable /\ Loaded(f) = f
  BY ConstantsAssumption DEF Image, Loaded

\* The reset writes well-typed values.
LEMMA ResetType ==
    ASSUME TypeOK, Reset,
           flash' \in Image \cup {Unreadable}, profileSet' \in BOOLEAN,
           restarts' \in 0 .. MaxRestarts, stored' \in BOOLEAN
    PROVE  TypeOK'
  BY ConstantsAssumption DEF TypeOK, Reset, Stages, Portal

\* What a save and a switch of the relay leave behind.
LEMMA SaveType ==
    ASSUME TypeOK, NEW image \in Image, Save(image)
    PROVE  flash' \in Image \cup {Unreadable} /\ stored' \in BOOLEAN
BY DEF TypeOK, Save

LEMMA SetRelayType ==
    ASSUME TypeOK, NEW on \in BOOLEAN, NEW who \in Setters, SetRelay(on, who)
    PROVE  /\ relayOn' \in BOOLEAN /\ setter' \in Setters
           /\ flash' \in Image \cup {Unreadable} /\ stored' \in BOOLEAN
<1>1. [relay |-> on, schedule |-> schedule] \in Image
  BY DEF TypeOK, Image
<1>. QED BY <1>1, SaveType DEF SetRelay

LEMMA ReportType ==
    ASSUME TypeOK, NEW on \in BOOLEAN, NEW running \in BOOLEAN, Report(on, running)
    PROVE  reported' \in [relay : BOOLEAN, delay : BOOLEAN]
BY DEF TypeOK, Report

LEMMA DelayType ==
    ASSUME TypeOK, CheckDelay \/ ClearDelay
    PROVE  delayActive' \in BOOLEAN /\ delayLeft' \in Nat /\ DelayRunning \in BOOLEAN
<1>1. DelayRunning \in BOOLEAN
  BY Zenon DEF DelayRunning
<1>2. CASE CheckDelay BY <1>1, <1>2 DEF TypeOK, CheckDelay
<1>3. CASE ClearDelay BY <1>1, <1>3 DEF TypeOK, ClearDelay
<1>. QED BY <1>2, <1>3

\* Every stage of loop() keeps the state well typed.
LEMMA LoopType == ASSUME TypeOK, Loop PROVE TypeOK'
<1> USE DEF env, timer, relay, sched, net
<1> DEFINE Switched ==
      /\ relayOn' \in BOOLEAN /\ setter' \in Setters
      /\ flash' \in Image \cup {Unreadable} /\ stored' \in BOOLEAN
<1>0. /\ relayOn \in BOOLEAN /\ DelayRunning \in BOOLEAN /\ delayActive \in BOOLEAN
      /\ delayLeft \in Nat /\ Delays \subseteq Nat
      /\ UserChose => minutePhase' \in {"fresh", "ran", "chosen"}
      /\ {"button", "command", "delay", "expiry", "schedule"} \subseteq Setters
  BY ConstantsAssumption, Zenon DEF TypeOK, DelayRunning, UserChose, Setters
<1>17. Stages = {"button", "mqtt", "command", "ota", "updating", "expiry", "schedule", "telemetry"}
  BY DEF Stages
<1>1. CASE ButtonIdle \/ NoConnect \/ NoCommand \/ NoUpdate \/ NotExpired \/ NoTelemetry
  BY <1>1, <1>17
  DEF ButtonIdle, NoConnect, NoCommand, NoUpdate, NotExpired, NoTelemetry, TypeOK
<1>2. CASE ButtonPressed
  <2>1. SetRelay(~relayOn, "button") /\ Report(~relayOn, FALSE) /\ ClearDelay /\ UserChose
    BY <1>2 DEF ButtonPressed
  <2>2. (~relayOn) \in BOOLEAN BY Zenon
  <2>3. Switched BY <1>0, <2>1, <2>2, SetRelayType
  <2>4. reported' \in [relay : BOOLEAN, delay : BOOLEAN] BY <2>1, <2>2, ReportType
  <2>. QED BY <1>0, <1>2, <1>17, <2>1, <2>3, <2>4, DelayType DEF ButtonPressed, TypeOK
<1>3. CASE Connect
  <2>1. reported' \in [relay : BOOLEAN, delay : BOOLEAN] BY <1>0, <1>3 DEF Connect
  <2>2. CheckDelay BY <1>3 DEF Connect
  <2>. QED BY <1>3, <1>17, <2>1, <2>2, DelayType DEF Connect, TypeOK
<1>4. CASE RelayRefused
  <2>1. reported' \in [relay : BOOLEAN, delay : BOOLEAN]
    BY <1>0, <1>4, ReportType DEF RelayRefused
  <2>. QED BY <1>4, <1>17, <2>1 DEF RelayRefused, TypeOK
<1>5. CASE RelayCommand
  <2>1. PICK on \in BOOLEAN : SetRelay(on, "command") /\ Report(on, FALSE)
    BY <1>5 DEF RelayCommand
  <2>2. Switched /\ reported' \in [relay : BOOLEAN, delay : BOOLEAN]
    BY <1>0, <2>1, SetRelayType, ReportType
  <2>3. CheckDelay /\ UserChose BY <1>5 DEF RelayCommand
  <2>. QED BY <1>0, <1>5, <1>17, <2>2, <2>3, DelayType DEF RelayCommand, TypeOK
<1>6. CASE DelayStart
  <2>1. Switched /\ reported' \in [relay : BOOLEAN, delay : BOOLEAN]
    BY <1>0, <1>6, SetRelayType, ReportType DEF DelayStart
  <2>2. delayActive' = TRUE /\ delayLeft' \in Nat
    BY <1>0, <1>6 DEF DelayStart
  <2>3. UserChose BY <1>6 DEF DelayStart
  <2>. QED BY <1>0, <1>6, <1>17, <2>1, <2>2, <2>3 DEF DelayStart, TypeOK
<1>7. CASE DelayCancel
  <2>1. Switched /\ reported' \in [relay : BOOLEAN, delay : BOOLEAN]
    BY <1>0, <1>7, SetRelayType, ReportType DEF DelayCancel
  <2>2. ClearDelay /\ UserChose BY <1>7 DEF DelayCancel
  <2>. QED BY <1>0, <1>7, <1>17, <2>1, <2>2, DelayType DEF DelayCancel, TypeOK
<1>8. CASE ScheduleCommand
  <2>1. schedule' \in Schedules /\ Save([relay |-> relayOn, schedule |-> schedule'])
    BY <1>8 DEF ScheduleCommand
  <2>2. [relay |-> relayOn, schedule |-> schedule'] \in Image
    BY <1>0, <2>1 DEF Image
  <2>3. flash' \in Image \cup {Unreadable} /\ stored' \in BOOLEAN
    BY <2>1, <2>2, SaveType
  <2>4. reported' \in [relay : BOOLEAN, delay : BOOLEAN]
    BY <1>0, <1>8, ReportType DEF ScheduleCommand
  <2>5. CheckDelay BY <1>8 DEF ScheduleCommand
  <2>. QED
    BY <1>8, <1>17, <2>1, <2>3, <2>4, <2>5, DelayType DEF ScheduleCommand, TypeOK
<1>9. CASE UpgradeCommand
  <2>1. reported' \in [relay : BOOLEAN, delay : BOOLEAN]
    BY <1>0, <1>9, ReportType DEF UpgradeCommand
  <2>2. CheckDelay BY <1>9 DEF UpgradeCommand
  <2>. QED BY <1>9, <1>17, <2>1, <2>2, DelayType DEF UpgradeCommand, TypeOK
<1>10. CASE BeginUpdate
  <2>1. reported' \in [relay : BOOLEAN, delay : BOOLEAN]
    BY <1>0, <1>10, ReportType DEF BeginUpdate
  <2>2. CheckDelay BY <1>10 DEF BeginUpdate
  <2>3. pc' \in {"expiry", "updating"} /\ mqtt' \in BOOLEAN /\ session' \in BOOLEAN
    BY <1>10 DEF BeginUpdate, TypeOK
  <2>. QED BY <1>10, <1>17, <2>1, <2>2, <2>3, DelayType DEF BeginUpdate, TypeOK
<1>11. CASE UpdateDone
  <2>1. flash' \in Image \cup {Unreadable} /\ profileSet' \in BOOLEAN
           /\ restarts' \in 0 .. MaxRestarts /\ stored' \in BOOLEAN
    BY <1>11 DEF UpdateDone, TypeOK
  <2>. QED BY <1>11, <2>1, ResetType DEF UpdateDone
<1>12. CASE UpdateFailed
  <2>1. mqtt' \in BOOLEAN /\ session' \in BOOLEAN
    BY <1>12 DEF UpdateFailed, TypeOK
  <2>2. reported' \in [relay : BOOLEAN, delay : BOOLEAN]
    BY <1>0, <1>12 DEF UpdateFailed, TypeOK
  <2>3. CheckDelay BY <1>12 DEF UpdateFailed
  <2>. QED BY <1>12, <1>17, <2>1, <2>2, <2>3, DelayType DEF UpdateFailed, TypeOK
<1>13. CASE DelayExpires
  <2>1. Switched /\ reported' \in [relay : BOOLEAN, delay : BOOLEAN]
    BY <1>0, <1>13, SetRelayType, ReportType DEF DelayExpires
  <2>2. CheckDelay BY <1>13 DEF DelayExpires
  <2>. QED BY <1>13, <1>17, <2>1, <2>2, DelayType DEF DelayExpires, TypeOK
<1>14. CASE ScheduleIdle
  <2>1. CheckDelay BY <1>14 DEF ScheduleIdle
  <2>. QED BY <1>14, <1>17, <2>1, DelayType DEF ScheduleIdle, TypeOK
<1>15. CASE RunSchedule
  <2> DEFINE on == Due[schedule][minute] = "on"
  <2>1. CheckDelay /\ minuteDone' = TRUE
    BY <1>15 DEF RunSchedule, MarkMinute
  <2>2. minutePhase' \in {"fresh", "ran", "chosen"}
    BY <1>15 DEF RunSchedule, TypeOK
  <2>3. Switched /\ reported' \in [relay : BOOLEAN, delay : BOOLEAN]
    <3>1. CASE UNCHANGED <<relay, reported>> BY <3>1 DEF TypeOK
    <3>2. CASE SetRelay(on, "schedule") /\ Report(on, FALSE)
      <4>1. on \in BOOLEAN BY Zenon
      <4> HIDE DEF on
      <4>. QED BY <1>0, <3>2, <4>1, SetRelayType, ReportType
    <3>. QED BY <1>15, <3>1, <3>2 DEF RunSchedule
  <2> HIDE DEF on
  <2>. QED BY <1>15, <1>17, <2>1, <2>2, <2>3, DelayType DEF RunSchedule, TypeOK
<1>16. CASE Telemetry
  <2>1. reported' \in [relay : BOOLEAN, delay : BOOLEAN]
    BY <1>0, <1>16, ReportType DEF Telemetry
  <2>2. CheckDelay BY <1>16 DEF Telemetry
  <2>. QED BY <1>16, <1>17, <2>1, <2>2, DelayType DEF Telemetry, TypeOK
<1>. QED
  BY <1>1, <1>2, <1>3, <1>4, <1>5, <1>6, <1>7, <1>8, <1>9, <1>10, <1>11, <1>12,
     <1>13, <1>14, <1>15, <1>16
  DEF Loop, Command

\* Type correctness of the relay module.
THEOREM FirmwareTypeCorrect == Spec => []TypeOK
<1>1. Init => TypeOK
  <2> SUFFICES ASSUME Init PROVE TypeOK
    OBVIOUS
  <2>1. Default \in Image
    BY ConstantsAssumption DEF Default, Image
  <2>2. minute \in 0 .. Minutes - 1 /\ restarts \in 0 .. MaxRestarts
    BY ConstantsAssumption DEF Init
  <2>. QED
    BY <2>1, <2>2, ConstantsAssumption DEF Init, TypeOK, Stages, Portal, Setters
<1>2. TypeOK /\ [Next]_vars => TypeOK'
  <2> SUFFICES ASSUME TypeOK, [Next]_vars PROVE TypeOK'
    OBVIOUS
  <2> USE ConstantsAssumption
  <2>1. CASE Loop BY <2>1, LoopType
  <2>2. CASE StartRuntime
    <3>1. relayOn' \in BOOLEAN /\ schedule' \in Schedules /\ stored' \in BOOLEAN
      <4>1. \A file \in {flash, Unreadable} : Loaded(file) \in Image
        BY ReadableType
      <4>2. PICK file \in {flash, Unreadable} :
               /\ relayOn' = Loaded(file).relay /\ schedule' = Loaded(file).schedule
               /\ stored' = (file = flash)
        BY <2>2 DEF StartRuntime
      <4>3. stored' \in BOOLEAN
        BY <4>2, Zenon
      <4>. QED BY <4>1, <4>2, <4>3 DEF Image
    <3>. QED
      BY <2>2, <3>1 DEF StartRuntime, TypeOK, env, timer, net, Stages, Portal
  <2>3. CASE PortalClient
    BY <2>3 DEF PortalClient, TypeOK, env, timer, relay, sched, net, Portal
  <2>4. CASE PortalSubmit
    BY <2>4 DEF PortalSubmit, TypeOK, timer, relay, sched, net, Portal
  <2>5. CASE PortalRestart
    <3>1. flash' \in Image \cup {Unreadable} /\ profileSet' \in BOOLEAN
             /\ restarts' \in 0 .. MaxRestarts /\ stored' \in BOOLEAN
      BY <2>5 DEF PortalRestart, TypeOK
    <3>. QED BY <2>5, <3>1, ResetType DEF PortalRestart
  <2>6. CASE PowerCycle
    <3>1. restarts' \in 0 .. MaxRestarts
      BY <2>6 DEF PowerCycle, TypeOK
    <3>2. flash' \in Image \cup {Unreadable} /\ stored' \in BOOLEAN
      BY <2>6 DEF PowerCycle, TypeOK
    <3>3. profileSet' \in BOOLEAN
      BY <2>6, Zenon DEF PowerCycle, TypeOK
    <3>. QED BY <2>6, <3>1, <3>2, <3>3, ResetType DEF PowerCycle
  <2>7. CASE TornSave
    <3>1. flash' \in Image \cup {Unreadable} /\ profileSet' \in BOOLEAN
             /\ restarts' \in 0 .. MaxRestarts /\ stored' \in BOOLEAN
      BY <2>7 DEF TornSave, TypeOK
    <3>. QED BY <2>7, <3>1, ResetType DEF TornSave
  <2>8. CASE Tick
    <3>1. minute' \in 0 .. Minutes - 1
      BY <2>8, SMTT(30) DEF Tick, TypeOK
    <3>2. delayLeft' \in Nat
      BY <2>8 DEF Tick, CountDown, TypeOK
    <3>3. /\ UNCHANGED <<pc, relayOn, delayActive, schedule, timeSynced, link, mqtt, session>>
          /\ UNCHANGED <<otaPending, flash, profileSet, reported, restarts, setter, stored>>
          /\ minuteDone' \in BOOLEAN /\ minutePhase' = "fresh"
      BY <2>8, Zenon DEF Tick, relay, net
    <3>. QED BY <3>1, <3>2, <3>3 DEF TypeOK
  <2>9. CASE NtpAnswer
    BY <2>9 DEF NtpAnswer, TypeOK, env, timer, relay, sched, net
  <2>10. CASE LinkUp
    <3>1. /\ UNCHANGED <<pc, relayOn, delayActive, delayLeft, schedule, minute, minuteDone>>
          /\ UNCHANGED <<timeSynced, mqtt, session, otaPending, flash, profileSet>>
          /\ UNCHANGED <<reported, restarts, setter, stored, minutePhase>>
          /\ link' = TRUE
      BY <2>10, Zenon DEF LinkUp, timer, relay, sched, net
    <3>. QED BY <3>1 DEF TypeOK
  <2>11. CASE LinkDown
    <3>1. /\ UNCHANGED <<pc, relayOn, delayActive, delayLeft, schedule, minute, minuteDone>>
          /\ UNCHANGED <<timeSynced, mqtt, otaPending, flash, profileSet>>
          /\ UNCHANGED <<reported, restarts, setter, stored, minutePhase>>
          /\ link' \in BOOLEAN /\ session' \in BOOLEAN
      BY <2>11, Zenon DEF LinkDown, timer, relay, sched
    <3>. QED BY <3>1 DEF TypeOK
  <2>12. CASE NoticeDown
    <3>1. /\ UNCHANGED <<pc, relayOn, delayActive, delayLeft, schedule, minute, minuteDone>>
          /\ UNCHANGED <<timeSynced, link, session, otaPending, flash, profileSet>>
          /\ UNCHANGED <<reported, restarts, setter, stored, minutePhase>>
          /\ mqtt' \in BOOLEAN
      BY <2>12, Zenon DEF NoticeDown, env, timer, relay, sched
    <3>. QED BY <3>1 DEF TypeOK
  <2>13. CASE UNCHANGED vars BY <2>13 DEF vars, TypeOK
  <2>. QED
    BY <2>1, <2>2, <2>3, <2>4, <2>5, <2>6, <2>7, <2>8, <2>9, <2>10, <2>11, <2>12, <2>13
    DEF Next, Boot, Power, Environment
<1>. QED BY <1>1, <1>2, PTL DEF Spec

--------------------------------------------------------------------------------
(* The safety invariants, one lemma per conjunct of IInv *)

\* The reset leaves every conjunct of IInv true: the portal is quiet.
LEMMA ResetSafe == ASSUME Reset PROVE IInv'
  BY DEF Reset, IInv, PortalIsQuiet, DelayHoldsRelay, FlashRestoresState,
         BrokerKnowsRelay, Running, Stages

\* The stages of loop() stay within loop(), unless they reset the module.
LEMMA LoopRuns == ASSUME Loop PROVE Reset \/ (Running /\ Running')
  BY DEF Loop, Command, ButtonIdle, ButtonPressed, NoConnect, Connect, NoCommand,
         RelayRefused, RelayCommand, DelayStart, DelayCancel, ScheduleCommand,
         UpgradeCommand, NoUpdate, BeginUpdate, UpdateDone, UpdateFailed,
         DelayExpires, NotExpired, ScheduleIdle, RunSchedule, NoTelemetry,
         Telemetry, Running, Stages

\* A stage that neither resets nor switches the relay or replaces the schedule
\* can only lower the delay flag, and reports the relay state as it is.
LoopKeepsRelay ==
    ButtonIdle \/ NoConnect \/ Connect \/ NoCommand \/ RelayRefused
    \/ UpgradeCommand \/ NoUpdate \/ BeginUpdate \/ UpdateFailed \/ NotExpired
    \/ ScheduleIdle \/ NoTelemetry \/ Telemetry

LEMMA KeepsRelay ==
    ASSUME TypeOK, LoopKeepsRelay
    PROVE  /\ UNCHANGED <<relayOn, flash, stored, schedule>>
           /\ delayActive' => delayActive
           /\ session' /\ ~session => mqtt' /\ reported'.relay = relayOn
           /\ session' /\ session => (mqtt => mqtt')
                /\ (reported' = reported \/ reported'.relay = relayOn)
<1> USE DEF env, timer, relay, sched, net, CheckDelay, Report, DelayRunning
<1>1. CASE ButtonIdle BY <1>1 DEF ButtonIdle
<1>2. CASE NoConnect BY <1>2 DEF NoConnect
<1>3. CASE Connect BY <1>3 DEF Connect
<1>4. CASE NoCommand BY <1>4 DEF NoCommand
<1>5. CASE RelayRefused BY <1>5 DEF RelayRefused
<1>6. CASE UpgradeCommand BY <1>6 DEF UpgradeCommand
<1>7. CASE NoUpdate BY <1>7 DEF NoUpdate
<1>8. CASE BeginUpdate
  <2>1. UNCHANGED <<relayOn, flash, stored, schedule>>
    BY <1>8 DEF BeginUpdate
  <2>2. (delayActive' => delayActive) /\ (UNCHANGED <<mqtt, session>> \/ ~session')
    BY <1>8, Zenon DEF BeginUpdate
  <2>3. reported' = reported \/ reported'.relay = relayOn
    BY <1>8 DEF BeginUpdate
  <2>. QED BY <2>1, <2>2, <2>3
<1>9. CASE UpdateFailed
  <2>1. UNCHANGED <<relayOn, flash, stored, schedule>> /\ (delayActive' => delayActive)
    BY <1>9, Zenon DEF UpdateFailed
  <2>2. UNCHANGED <<mqtt, session, reported>> \/ (mqtt' /\ reported'.relay = relayOn)
    BY <1>9 DEF UpdateFailed
  <2>. QED BY <2>1, <2>2
<1>10. CASE NotExpired BY <1>10 DEF NotExpired
<1>11. CASE ScheduleIdle BY <1>11 DEF ScheduleIdle
<1>12. CASE NoTelemetry BY <1>12 DEF NoTelemetry
<1>13. CASE Telemetry BY <1>13 DEF Telemetry
<1>. QED
  BY <1>1, <1>2, <1>3, <1>4, <1>5, <1>6, <1>7, <1>8, <1>9, <1>10, <1>11, <1>12,
     <1>13 DEF LoopKeepsRelay

\* setRelay() and ScheduleCommand are the stages that change what is stored.
LEMMA SwitchSafe ==
    ASSUME TypeOK, IInv, Running', NEW on \in BOOLEAN, NEW who,
           SetRelay(on, who), Report(on, delayActive'), UNCHANGED <<schedule, net>>,
           delayActive' => on
    PROVE  IInv'
<1>1. stored' => Loaded(flash)' = [relay |-> relayOn, schedule |-> schedule]'
  <2>1. [relay |-> on, schedule |-> schedule] \in Image
    BY DEF TypeOK, Image
  <2>2. stored' => flash' = [relay |-> on, schedule |-> schedule]
    BY DEF SetRelay, Save
  <2>. QED BY <2>1, <2>2, ImageReadable DEF SetRelay, Loaded
<1>2. PortalIsQuiet' BY DEF PortalIsQuiet, IInv, net
<1>3. DelayHoldsRelay' BY DEF DelayHoldsRelay, SetRelay
<1>4. FlashRestoresState' BY <1>1 DEF FlashRestoresState
<1>5. BrokerKnowsRelay' BY DEF BrokerKnowsRelay, SetRelay, Report, net
<1>. QED BY <1>2, <1>3, <1>4, <1>5 DEF IInv

\* Every stage of loop() preserves the inductive invariant.
LEMMA LoopSafe == ASSUME TypeOK, IInv, Loop PROVE IInv'
<1>1. CASE Reset BY <1>1, ResetSafe
<1>2. CASE Running /\ Running'
  <2> USE <1>2 DEF sched, env, timer, net
  <2>1. CASE LoopKeepsRelay
    BY <2>1, KeepsRelay
    DEF IInv, PortalIsQuiet, DelayHoldsRelay, FlashRestoresState,
        BrokerKnowsRelay, Loaded
  <2>2. CASE ButtonPressed
    <3>1. (~relayOn) \in BOOLEAN BY Zenon
    <3>2. SetRelay(~relayOn, "button") /\ Report(~relayOn, delayActive')
          /\ UNCHANGED <<schedule, net>> /\ ~delayActive'
      BY <2>2 DEF ButtonPressed, ClearDelay
    <3>. QED BY <3>1, <3>2, SwitchSafe
  <2>3. CASE RelayCommand
    <3>1. ~delayActive' /\ UNCHANGED <<schedule, net>>
      BY <2>3 DEF RelayCommand, RelayLocked, CheckDelay
    <3>2. PICK on \in BOOLEAN : SetRelay(on, "command") /\ Report(on, FALSE)
      BY <2>3 DEF RelayCommand
    <3>3. delayActive' = FALSE
      BY <2>3 DEF RelayCommand, RelayLocked, CheckDelay, DelayRunning
    <3>. QED BY <3>1, <3>2, <3>3, SwitchSafe
  <2>4. CASE DelayStart
    <3>1. SetRelay(TRUE, "delay") /\ Report(TRUE, delayActive')
          /\ UNCHANGED <<schedule, net>>
      BY <2>4 DEF DelayStart
    <3>. QED BY <3>1, SwitchSafe
  <2>5. CASE DelayCancel
    <3>1. SetRelay(FALSE, "delay") /\ Report(FALSE, delayActive')
          /\ UNCHANGED <<schedule, net>> /\ ~delayActive'
      BY <2>5 DEF DelayCancel, ClearDelay
    <3>. QED BY <3>1, SwitchSafe
  <2>6. CASE ScheduleCommand
    <3>1. /\ stored' => flash' = [relay |-> relayOn, schedule |-> schedule']
          /\ [relay |-> relayOn, schedule |-> schedule'] \in Image
          /\ UNCHANGED <<relayOn, mqtt, session>>
      BY <2>6 DEF ScheduleCommand, Save, TypeOK, Image
    <3>2. stored' => Loaded(flash)' = flash'
      BY <3>1, ImageReadable DEF Loaded
    <3>3. delayActive' => delayActive
      BY <2>6 DEF ScheduleCommand, CheckDelay, DelayRunning
    <3>4. session' => reported'.relay = relayOn'
      BY <2>6, <3>1 DEF ScheduleCommand, Report
    <3>. QED
      BY <3>1, <3>2, <3>3, <3>4
      DEF IInv, PortalIsQuiet, DelayHoldsRelay, FlashRestoresState,
          BrokerKnowsRelay
  <2>7. CASE DelayExpires
    <3>1. delayActive' = FALSE
      BY <2>7 DEF DelayExpires, CheckDelay, DelayRunning
    <3>2. SetRelay(FALSE, "expiry") /\ Report(FALSE, FALSE)
          /\ UNCHANGED <<schedule, net>>
      BY <2>7 DEF DelayExpires
    <3>. QED BY <3>1, <3>2, SwitchSafe
  <2>8. CASE RunSchedule
    <3> DEFINE due == Due[schedule][minute]
    <3>1. delayActive' = FALSE /\ UNCHANGED <<schedule, net>>
      BY <2>8 DEF RunSchedule, ScheduleBlocked, CheckDelay, DelayRunning
    <3>2. CASE UNCHANGED <<relay, reported>>
      BY <3>1, <3>2
      DEF relay, IInv, PortalIsQuiet, DelayHoldsRelay, FlashRestoresState,
          BrokerKnowsRelay, Loaded
    <3>3. CASE SetRelay(due = "on", "schedule") /\ Report(due = "on", FALSE)
      <4>1. (due = "on") \in BOOLEAN BY Zenon
      <4>. HIDE DEF due
      <4>. QED BY <3>1, <3>3, <4>1, SwitchSafe
    <3>. QED BY <2>8, <3>2, <3>3 DEF RunSchedule
  <2>9. CASE UpdateDone BY <2>9, ResetSafe DEF UpdateDone
  <2>. QED
    BY <2>1, <2>2, <2>3, <2>4, <2>5, <2>6, <2>7, <2>8, <2>9
    DEF Loop, Command, LoopKeepsRelay
<1>. QED BY <1>1, <1>2, LoopRuns

\* Every step preserves the inductive invariant.
LEMMA NextSafe == ASSUME TypeOK, IInv, [Next]_vars PROVE IInv'
<1> USE DEF IInv, PortalIsQuiet, DelayHoldsRelay, FlashRestoresState,
            BrokerKnowsRelay
<1>1. CASE Loop BY <1>1, LoopSafe
<1>2. CASE StartRuntime
  <2>1. Loaded(flash) \in Image BY LoadedType
  <2>2. Loaded(flash) = [relay |-> Loaded(flash).relay,
                         schedule |-> Loaded(flash).schedule]
    BY <2>1 DEF Image
  <2>3. Loaded(flash)' = Loaded(flash) BY <1>2 DEF StartRuntime, Loaded
  <2>4. stored' => relayOn' = Loaded(flash).relay /\ schedule' = Loaded(flash).schedule
    BY <1>2, Zenon DEF StartRuntime
  <2>5. UNCHANGED <<delayActive, mqtt, session, reported>> /\ ~Running /\ ~session
    BY <1>2 DEF StartRuntime, timer, net, Running, Stages
  <2>. QED
    BY <2>2, <2>3, <2>4, <2>5
<1>3. CASE PortalClient
  BY <1>3 DEF PortalClient, timer, relay, net, Running, Stages
<1>4. CASE PortalSubmit
  BY <1>4 DEF PortalSubmit, timer, relay, net, Running, Stages
<1>5. CASE PortalRestart BY <1>5, ResetSafe DEF PortalRestart
<1>6. CASE PowerCycle BY <1>6, ResetSafe DEF PowerCycle
<1>7. CASE TornSave BY <1>7, ResetSafe DEF TornSave
<1>8. CASE Tick BY <1>8 DEF Tick, relay, net, Running, Loaded
<1>9. CASE NtpAnswer
  BY <1>9 DEF NtpAnswer, timer, relay, sched, net, Running, Loaded
<1>10. CASE LinkUp BY <1>10 DEF LinkUp, timer, relay, sched, net, Running, Loaded
<1>11. CASE LinkDown BY <1>11 DEF LinkDown, timer, relay, sched, Running, Loaded
<1>12. CASE NoticeDown BY <1>12 DEF NoticeDown, timer, relay, sched, Running, Loaded
<1>13. CASE UNCHANGED vars BY <1>13 DEF vars, Running, Loaded
<1>. QED
  BY <1>1, <1>2, <1>3, <1>4, <1>5, <1>6, <1>7, <1>8, <1>9, <1>10, <1>11, <1>12, <1>13
  DEF Next, Boot, Power, Environment

LEMMA InitSafe == Init => IInv
  BY DEF Init, IInv, PortalIsQuiet, DelayHoldsRelay, FlashRestoresState,
         BrokerKnowsRelay, Running, Stages

LEMMA InvariantHolds == Spec => [](TypeOK /\ IInv)
<1>1. Init => IInv BY InitSafe
<1>2. TypeOK /\ IInv /\ [Next]_vars => IInv' BY NextSafe
<1>. QED BY <1>1, <1>2, FirmwareTypeCorrect, PTL DEF Spec

\* A running delay never coincides with a relay that is off, on any path.
THEOREM DelayAlwaysHoldsRelay == Spec => []DelayHoldsRelay
<1>1. IInv => DelayHoldsRelay BY DEF IInv
<1>. QED BY <1>1, InvariantHolds, PTL

\* Unless a save or a load failed since the last change, the state file restores
\* the relay and the schedule after a power cut that does not hit a write.
THEOREM FlashAlwaysRestores == Spec => []FlashRestoresState
<1>1. IInv => FlashRestoresState BY DEF IInv
<1>. QED BY <1>1, InvariantHolds, PTL

\* Every switch of the relay is reported as long as the broker gets what is
\* published, whatever the module believes of its connection.
THEOREM BrokerAlwaysKnows == Spec => []BrokerKnowsRelay
<1>1. IInv => BrokerKnowsRelay BY DEF IInv
<1>. QED BY <1>1, InvariantHolds, PTL

--------------------------------------------------------------------------------
(* Refinement of RelayPriority *)

\* The value the refinement mapping gives to RelayPriority's held.
Held == delayActive /\ delayLeft > 0

\* A step in which the abstract variables move as one of its actions allows.
LEMMA AbstractStep ==
    ASSUME TypeOK, TypeOK',
           \/ relayOn' = relayOn /\ (Held' <=> Held)
           \/ ~Held /\ ~Held'
           \/ ~Held /\ Held' /\ relayOn'
           \/ Held /\ ~Held' /\ (relayOn' = relayOn \/ ~relayOn')
    PROVE  [Priority!Next]_Priority!vars
<1>1. Held \in BOOLEAN /\ Held' \in BOOLEAN BY Zenon DEF Held
<1>2. relayOn \in BOOLEAN /\ relayOn' \in BOOLEAN BY DEF TypeOK
<1>3. CASE relayOn' = relayOn /\ (Held' <=> Held)
  <2>1. (delayActive' /\ delayLeft' > 0) = (delayActive /\ delayLeft > 0)
    BY <1>3, Zenon DEF Held
  <2>. QED BY <1>3, <2>1 DEF Priority!vars
<1>4. CASE ~Held /\ ~Held'
  <2>1. Priority!Switch BY <1>2, <1>4, Zenon DEF Held, Priority!Switch
  <2>. QED BY <2>1 DEF Priority!Next
<1>5. CASE ~Held /\ Held' /\ relayOn'
  <2>1. Priority!Hold BY <1>1, <1>2, <1>5, Zenon DEF Held, Priority!Hold
  <2>. QED BY <2>1 DEF Priority!Next
<1>6. CASE Held /\ ~Held' /\ relayOn' = relayOn
  <2>1. Priority!Lapse BY <1>1, <1>6, Zenon DEF Held, Priority!Lapse
  <2>. QED BY <2>1 DEF Priority!Next
<1>7. CASE Held /\ ~Held' /\ ~relayOn'
  <2>1. Priority!Override BY <1>1, <1>2, <1>7, Zenon DEF Held, Priority!Override
  <2>. QED BY <2>1 DEF Priority!Next
<1>. QED BY <1>3, <1>4, <1>5, <1>6, <1>7

\* isDelayActive() clears only a delay that holds nothing any more.
LEMMA CheckKeepsHeld == ASSUME CheckDelay PROVE Held' <=> Held
  BY DEF CheckDelay, DelayRunning, Held

LEMMA LoopAbstract ==
    ASSUME TypeOK, TypeOK', IInv, Loop PROVE [Priority!Next]_Priority!vars
<1> USE DEF timer, relay
<1>1. CASE \/ ButtonIdle \/ NoConnect \/ NoCommand \/ RelayRefused \/ NoUpdate
           \/ NotExpired \/ NoTelemetry
  <2>1. UNCHANGED <<relayOn, delayActive, delayLeft>>
    BY <1>1 DEF ButtonIdle, NoConnect, NoCommand, RelayRefused, NoUpdate,
                NotExpired, NoTelemetry
  <2>2. relayOn' = relayOn /\ (Held' <=> Held) BY <2>1 DEF Held
  <2>. QED BY <2>2, AbstractStep
<1>2. CASE \/ Connect \/ ScheduleCommand \/ UpgradeCommand \/ BeginUpdate
           \/ UpdateFailed \/ ScheduleIdle \/ Telemetry
  <2>1. relayOn' = relayOn /\ CheckDelay
    BY <1>2 DEF Connect, ScheduleCommand, UpgradeCommand, BeginUpdate,
                UpdateFailed, ScheduleIdle, Telemetry
  <2>. QED BY <2>1, CheckKeepsHeld, AbstractStep
<1>3. CASE ButtonPressed
  <2>1. ~Held' /\ (relayOn' = ~relayOn)
    BY <1>3 DEF ButtonPressed, ClearDelay, SetRelay, Held
  <2>2. Held => ~relayOn' BY <2>1 DEF IInv, DelayHoldsRelay, Held
  <2>. QED BY <2>1, <2>2, AbstractStep
<1>4. CASE RelayCommand \/ DelayExpires \/ RunSchedule
  <2>1. ~Held /\ CheckDelay
    BY <1>4 DEF RelayCommand, RelayLocked, DelayExpires, RunSchedule,
                ScheduleBlocked, DelayRunning, Held
  <2>. QED BY <2>1, CheckKeepsHeld, AbstractStep
<1>5. CASE DelayStart
  <2>1. ~Held /\ relayOn' = TRUE
    BY <1>5 DEF DelayStart, RelayLocked, DelayRunning, SetRelay, Held
  <2>. QED BY <2>1, AbstractStep
<1>6. CASE DelayCancel
  <2>1. ~Held' /\ relayOn' = FALSE
    BY <1>6 DEF DelayCancel, ClearDelay, SetRelay, Held
  <2>. QED BY <2>1, AbstractStep
<1>7. CASE UpdateDone
  <2>1. ~Held' /\ relayOn' = FALSE BY <1>7 DEF UpdateDone, Reset, Held
  <2>. QED BY <2>1, AbstractStep
<1>. QED BY <1>1, <1>2, <1>3, <1>4, <1>5, <1>6, <1>7 DEF Loop, Command

\* "Delay mode has top priority over normal switch/schedule actions": every step
\* of the firmware is a step of RelayPriority or leaves its variables alone.
THEOREM FirmwareImplementsPriority == Spec => DelayHasPriority
<1>1. Init => Priority!Init
  BY DEF Init, Priority!Init
<1>2. TypeOK /\ IInv /\ TypeOK' /\ [Next]_vars => [Priority!Next]_Priority!vars
  <2> SUFFICES ASSUME TypeOK, IInv, TypeOK', [Next]_vars
               PROVE  [Priority!Next]_Priority!vars
    OBVIOUS
  <2>1. CASE Loop BY <2>1, LoopAbstract
  <2>2. CASE StartRuntime
    <3>1. ~Held /\ ~Held'
      BY <2>2 DEF StartRuntime, timer, IInv, PortalIsQuiet, Running, Stages, Held
    <3>. QED BY <3>1, AbstractStep
  <2>3. CASE PortalRestart \/ PowerCycle \/ TornSave
    <3>1. ~Held' /\ relayOn' = FALSE
      BY <2>3 DEF PortalRestart, PowerCycle, TornSave, Reset, Held
    <3>. QED BY <3>1, AbstractStep
  <2>4. CASE Tick
    <3>1. relayOn' = relayOn /\ delayActive' = delayActive
             /\ (delayLeft' > 0 => delayLeft > 0)
      BY <2>4 DEF Tick, CountDown, relay, TypeOK
    <3>. QED BY <3>1, AbstractStep DEF Held
  <2>5. CASE \/ PortalClient \/ PortalSubmit \/ NtpAnswer \/ LinkUp \/ LinkDown \/ NoticeDown
             \/ UNCHANGED vars
    <3>1. UNCHANGED <<relayOn, delayActive, delayLeft>>
      BY <2>5 DEF PortalClient, PortalSubmit, NtpAnswer, LinkUp, LinkDown, NoticeDown, vars,
                  timer, relay
    <3>2. relayOn' = relayOn /\ (Held' <=> Held) BY <3>1 DEF Held
    <3>. QED BY <3>2, AbstractStep
  <2>. QED
    BY <2>1, <2>2, <2>3, <2>4, <2>5 DEF Next, Boot, Power, Environment
<1>. QED
  BY <1>1, <1>2, InvariantHolds, FirmwareTypeCorrect, PTL
  DEF Spec, DelayHasPriority, Priority!Spec

--------------------------------------------------------------------------------
(* The schedule and the user *)

\* Entries that have run in this minute are marked as run, and once a user has
\* switched the relay since, the schedule is not what set it.
UserHeld ==
    /\ minutePhase # "fresh" => minuteDone
    /\ minutePhase = "chosen" => setter # "schedule"

\* Only runLocalSchedule() chooses in the name of the schedule, and only in a
\* minute it has not marked.
LEMMA OnlyScheduleChooses ==
    ASSUME Next, ~RunSchedule
    PROVE  setter' \in {setter, "button", "command", "delay", "expiry"}
<1> USE DEF env, timer, relay, sched
<1>1. CASE Loop
  BY <1>1 DEF Loop, ButtonIdle, ButtonPressed, NoConnect, Connect, NoCommand, Command,
              RelayRefused, RelayCommand, DelayStart, DelayCancel, ScheduleCommand,
              UpgradeCommand, NoUpdate, BeginUpdate, UpdateDone, UpdateFailed, DelayExpires,
              NotExpired, ScheduleIdle, NoTelemetry, Telemetry, SetRelay, Reset
<1>2. CASE Boot \/ Power
  BY <1>2 DEF Boot, StartRuntime, PortalClient, PortalSubmit, PortalRestart, Power,
              PowerCycle, TornSave, Reset
<1>3. CASE Environment
  BY <1>3 DEF Environment, Tick, NtpAnswer, LinkUp, LinkDown, NoticeDown
<1>4. QED
  BY <1>1, <1>2, <1>3 DEF Next

\* A step forgets that the minute's entries have run only together with what it
\* knows of the user, and a user chooses in the user's name.
LEMMA PhaseMoves ==
    ASSUME Next, ~RunSchedule
    PROVE  \/ minutePhase' = "fresh"
           \/ UNCHANGED <<minuteDone, minutePhase>>
           \/ UNCHANGED minuteDone /\ UserChose /\ setter' \in {"button", "command", "delay"}
<1> USE DEF env, timer, relay, sched
<1>1. CASE Loop
  BY <1>1 DEF Loop, ButtonIdle, ButtonPressed, NoConnect, Connect, NoCommand, Command,
              RelayRefused, RelayCommand, DelayStart, DelayCancel, ScheduleCommand,
              UpgradeCommand, NoUpdate, BeginUpdate, UpdateDone, UpdateFailed, DelayExpires,
              NotExpired, ScheduleIdle, NoTelemetry, Telemetry, SetRelay, Reset
<1>2. CASE Boot \/ Power
  BY <1>2 DEF Boot, StartRuntime, PortalClient, PortalSubmit, PortalRestart, Power,
              PowerCycle, TornSave, Reset
<1>3. CASE Environment
  BY <1>3 DEF Environment, Tick, NtpAnswer, LinkUp, LinkDown, NoticeDown
<1>4. QED
  BY <1>1, <1>2, <1>3 DEF Next

\* In a minute in which a user has chosen, the schedule does not run again.
LEMMA UserStaysHeld ==
    ASSUME UserHeld, [Next]_vars
    PROVE  UserHeld' /\ (minutePhase = "chosen" => setter' # "schedule")
<1>1. CASE RunSchedule
  <2>1. minutePhase = "fresh" /\ minuteDone' = TRUE /\ minutePhase' = "ran"
    BY <1>1 DEF RunSchedule, ScheduleBlocked, MarkMinute, UserHeld
  <2>2. QED
    BY <2>1 DEF UserHeld
<1>2. CASE Next /\ ~RunSchedule
  <2>1. setter' \in {setter, "button", "command", "delay", "expiry"}
    BY <1>2, OnlyScheduleChooses
  <2>2. CASE minutePhase' = "fresh"
    BY <2>1, <2>2 DEF UserHeld
  <2>3. CASE UNCHANGED <<minuteDone, minutePhase>>
    BY <2>1, <2>3 DEF UserHeld
  <2>4. CASE /\ UNCHANGED minuteDone /\ UserChose
             /\ setter' \in {"button", "command", "delay"}
    BY <2>4 DEF UserHeld, UserChose
  <2>5. QED
    BY <1>2, <2>2, <2>3, <2>4, PhaseMoves
<1>3. CASE UNCHANGED vars
  BY <1>3 DEF vars, UserHeld
<1>4. QED
  BY <1>1, <1>2, <1>3

\* A user who switches the relay after the minute's entries have run is not
\* overruled by them in that minute: not after an expiring delay, a reconnection
\* or a failed update either, and whatever the schedule is.
THEOREM ScheduleAlwaysYields == Spec => ScheduleYieldsToUser
<1>1. Init => UserHeld
  BY DEF Init, UserHeld
<1>2. UserHeld /\ [Next]_vars => UserHeld'
  BY UserStaysHeld
<1>3. UserHeld /\ [Next]_vars
         => [minutePhase = "chosen" /\ relayOn' # relayOn => setter' # "schedule"]_vars
  BY UserStaysHeld
<1>4. QED
  BY <1>1, <1>2, <1>3, PTL DEF Spec, ScheduleYieldsToUser

--------------------------------------------------------------------------------
(* The ON time.  The inductive invariant adds to the accounting itself what *)
(* makes it work under concurrency: a transaction that has not been         *)
(* overtaken sees the committed row, one at a time holds it, and the times  *)
(* that transactions work with only go forward.                             *)

\* Counted, of a row and a time.
CountedOf(r, m) == r.total * Unit + (IF r.relay = "on" THEN m - r.since ELSE 0)

\* The row's columns fit together, and with the time of the last transaction.
Coherent(r, m) ==
    /\ r \in Rows
    /\ r.since # NoTime <=> r.relay = "on"
    /\ r.relay = "on" => r.since <= m

\* A transaction that may still write, or has written, the row.
Sound(t) ==
    /\ t \in Txns
    /\ t.pc = "open" /\ ~t.stale => t.row = rec /\ mark <= t.at /\ t.at <= now
    /\ t.pc = "written" => t.row = Effect(t.op, rec, t.at) /\ mark <= t.at /\ t.at <= now

OneWriter == \A v, w \in Workers : txn[v].pc = "written" /\ txn[w].pc = "written" => v = w

MeterIInv ==
    /\ MeterTypeOK
    /\ mark <= now
    /\ Coherent(rec, mark)
    /\ \A w \in Workers : Sound(txn[w])
    /\ OneWriter
    /\ UptimeAccounted

--------------------------------------------------------------------------------
(* Arithmetic *)

LEMMA FullMinutes ==
    ASSUME NEW d \in Nat
    PROVE  /\ d \div Unit \in Nat
           /\ (d \div Unit) * Unit \in Nat
           /\ (d \div Unit) * Unit <= d
           /\ d <= (d \div Unit) * Unit + (Unit - 1)
BY MeterAssumption, SMTT(30)

LEMMA Distributes ==
    ASSUME NEW a \in Int, NEW b \in Int, NEW c \in Int
    PROVE  (a + b) * c = a * c + b * c /\ a * c \in Int /\ b * c \in Int
BY SMTT(30)

LEMMA NotNegative ==
    ASSUME NEW a \in Nat, NEW b \in Nat
    PROVE  a * b \in Nat
BY SMTT(30)

--------------------------------------------------------------------------------
(* What the operations do to the time counted *)

LEMMA CountedIsNat ==
    ASSUME NEW r, NEW m \in Nat, Coherent(r, m)
    PROVE  CountedOf(r, m) \in Nat
<1>1. r.total \in Nat /\ Unit \in Nat /\ r.total * Unit \in Nat
  BY NotNegative, MeterAssumption DEF Coherent, Rows
<1>2. CASE r.relay = "on"
  <2>1. r.since \in Nat /\ r.since <= m
    BY <1>2, MeterAssumption DEF Coherent, Rows
  <2>2. QED
    BY <1>1, <1>2, <2>1 DEF CountedOf
<1>3. CASE r.relay # "on"
  BY <1>1, <1>3 DEF CountedOf
<1>4. QED
  BY <1>2, <1>3

\* Accumulating moves whole minutes from the running rest to the total.
LEMMA AccumulatedFacts ==
    ASSUME NEW r, NEW m \in Nat, NEW at \in Nat, Coherent(r, m), m <= at
    PROVE  /\ Coherent(Accumulated(r, at), at)
           /\ Accumulated(r, at).relay = r.relay
           /\ r.relay = "on" =>
                /\ CountedOf(Accumulated(r, at), at) = CountedOf(r, m) + (at - m)
                /\ at - Accumulated(r, at).since \in 0 .. Unit - 1
           /\ r.relay # "on" => Accumulated(r, at) = r
<1>0. Unit \in Nat \ {0}
  BY MeterAssumption
<1>1. CASE r.relay # "on"
  <2>1. Accumulated(r, at) = r
    BY <1>1 DEF Accumulated
  <2>2. Coherent(r, at)
    BY <1>1 DEF Coherent
  <2>3. QED
    BY <1>1, <2>1, <2>2
<1>2. CASE r.relay = "on"
  <2>1. r \in Rows /\ r.since \in Nat /\ r.since <= m /\ r.total \in Nat /\ r.since # NoTime
    BY <1>2, MeterAssumption DEF Coherent, Rows
  <2>2. CASE at <= r.since
    <3>1. at = m /\ r.since = at
      BY <2>1, <2>2
    <3>2. Accumulated(r, at) = r
      BY <2>1, <2>2, <3>1 DEF Accumulated
    <3>3. Coherent(r, at)
      BY <3>1
    <3>4. at - r.since \in 0 .. Unit - 1
      BY <1>0, <3>1
    <3>5. CountedOf(r, at) = CountedOf(r, m) + (at - m)
      <4>1. at - m = 0
        BY <3>1
      <4>2. CountedOf(r, m) \in Nat
        BY CountedIsNat
      <4>3. QED
        BY <3>1, <4>1, <4>2
    <3>6. QED
      BY <1>2, <3>2, <3>3, <3>4, <3>5
  <2>3. CASE at > r.since
    <3> DEFINE d == at - r.since
               q == d \div Unit
               n == Accumulated(r, at)
    <3>1. d \in Nat
      BY <2>1, <2>3
    <3>2. q \in Nat /\ q * Unit \in Nat /\ q * Unit <= d /\ d <= q * Unit + (Unit - 1)
      BY <3>1, FullMinutes
    <3>3. /\ n = [r EXCEPT !.total = @ + q, !.since = r.since + q * Unit]
      BY <1>2, <2>1, <2>3 DEF Accumulated, SinceMoved
    <3>4. n.relay = "on" /\ n.total = r.total + q /\ n.since = r.since + q * Unit
      BY <1>2, <2>1, <3>3 DEF Rows
    <3>5. n \in Rows
      <4>1. r.total + q \in Nat /\ r.since + q * Unit \in Nat
        BY <2>1, <3>2
      <4> HIDE DEF q
      <4>2. QED
        BY <2>1, <3>3, <4>1 DEF Rows
    <3>6. n.since \in Nat /\ n.since <= at /\ at - n.since \in 0 .. Unit - 1
      BY <1>0, <2>1, <2>3, <3>1, <3>2, <3>4
    <3>7. Coherent(n, at)
      BY <3>4, <3>5, <3>6, MeterAssumption DEF Coherent
    <3>8. n.total * Unit = r.total * Unit + q * Unit /\ r.total * Unit \in Int
      BY <1>0, <2>1, <3>2, <3>4, Distributes
    <3>9. CountedOf(n, at) = CountedOf(r, m) + (at - m)
      <4>1. CountedOf(n, at) = n.total * Unit + (at - n.since)
        BY <3>4 DEF CountedOf
      <4>2. CountedOf(r, m) = r.total * Unit + (m - r.since)
        BY <1>2 DEF CountedOf
      <4> HIDE DEF n, q, d
      <4>3. QED
        BY <2>1, <3>2, <3>4, <3>8, <4>1, <4>2
    <3>10. QED
      BY <1>2, <3>4, <3>6, <3>7, <3>9
  <2>4. QED
    BY <2>1, <2>2, <2>3
<1>3. QED
  BY <1>1, <1>2

\* The time to be counted for a step from time m to time at.
Elapsed(r, m, at) == IF r.relay = "on" THEN at - m ELSE 0

LEMMA EffectFacts ==
    ASSUME NEW r, NEW m \in Nat, NEW at \in Nat, Coherent(r, m), m <= at, NEW op \in Ops
    PROVE  /\ Coherent(Effect(op, r, at), at)
           /\ op = "reset" => CountedOf(Effect(op, r, at), at) = 0
           /\ op # "reset" =>
                /\ CountedOf(Effect(op, r, at), at) <= CountedOf(r, m) + Elapsed(r, m, at)
                /\ CountedOf(r, m) + Elapsed(r, m, at) <=
                     CountedOf(Effect(op, r, at), at)
                       + (IF r.relay = "on" /\ Effect(op, r, at).relay # "on" THEN Unit - 1 ELSE 0)
<1> DEFINE n == Effect(op, r, at)
           a == Accumulated(r, at)
<1>0. /\ Unit \in Nat \ {0} /\ r \in Rows /\ r.total \in Nat /\ NoTime \notin Int
      /\ r.since # NoTime <=> r.relay = "on"
      /\ CountedOf(r, m) \in Nat
  BY MeterAssumption, CountedIsNat DEF Coherent, Rows
<1>1. /\ Coherent(a, at) /\ a.relay = r.relay /\ a \in Rows
      /\ r.relay = "on" => /\ CountedOf(a, at) = CountedOf(r, m) + (at - m)
                           /\ at - a.since \in 0 .. Unit - 1
      /\ r.relay # "on" => a = r
  BY AccumulatedFacts DEF Coherent
<1>2. CASE op = "accrue"
  <2>1. n = a
    BY <1>2 DEF Effect, States
  <2>2. CASE r.relay = "on"
    BY <1>0, <1>1, <1>2, <2>1, <2>2 DEF Elapsed
  <2>3. CASE r.relay # "on"
    <3>1. CountedOf(r, at) = CountedOf(r, m)
      BY <2>3 DEF CountedOf
    <3>2. QED
      BY <1>0, <1>1, <1>2, <2>1, <2>3, <3>1 DEF Elapsed
  <2>4. QED
    BY <2>2, <2>3
<1>3. CASE op = "reset"
  <2>1. n = [r EXCEPT !.total = 0, !.since = IF r.relay = "on" THEN at ELSE NoTime]
    BY <1>3 DEF Effect, States, Zeroed
  <2>2. n.relay = r.relay /\ n.total = 0 /\ n.since = IF r.relay = "on" THEN at ELSE NoTime
    BY <1>0, <2>1 DEF Rows
  <2>3. n \in Rows
    <3> DEFINE x == IF r.relay = "on" THEN at ELSE NoTime
    <3>1. x \in Nat \cup {NoTime}
      OBVIOUS
    <3>2. n = [r EXCEPT !.total = 0, !.since = x]
      BY <2>1
    <3> HIDE DEF x, n
    <3>3. QED
      BY <1>0, <3>1, <3>2 DEF Rows
  <2>4. Coherent(n, at)
    BY <1>0, <2>2, <2>3 DEF Coherent
  <2>5. CountedOf(n, at) = 0
    <3>1. n.total * Unit = 0
      BY <1>0, <2>2, SMTT(30)
    <3>2. (IF n.relay = "on" THEN at - n.since ELSE 0) = 0
      BY <2>2
    <3>3. QED
      BY <3>1, <3>2 DEF CountedOf
  <2>6. QED
    BY <1>3, <2>4, <2>5
<1>4. CASE op \in States
  <2>0. n = Reported(r, op, at) /\ op # "reset"
    BY <1>4 DEF Effect, States
  <2>1. CASE r.relay = "on" /\ op # "on"
    <3>1. n = [a EXCEPT !.relay = op, !.since = NoTime]
      BY <2>0, <2>1 DEF Reported
    <3>2. n.relay = op /\ n.since = NoTime /\ n.total = a.total
      BY <1>1, <3>1 DEF Rows
    <3>3. n \in Rows
      BY <1>1, <1>4, <3>1 DEF Rows
    <3>4. Coherent(n, at)
      BY <2>1, <3>2, <3>3 DEF Coherent
    <3>5. CountedOf(n, at) = a.total * Unit + 0
      BY <2>1, <3>2 DEF CountedOf
    <3>6. CountedOf(a, at) = a.total * Unit + (at - a.since)
      BY <1>1, <2>1 DEF CountedOf
    <3>7. a.total * Unit \in Nat
      BY <1>0, <1>1, NotNegative DEF Rows
    <3>8. a.since \in Nat
      BY <1>1, <2>1, <1>0 DEF Coherent, Rows
    <3> HIDE DEF n, a
    <3>9. /\ CountedOf(n, at) <= CountedOf(r, m) + (at - m)
          /\ CountedOf(r, m) + (at - m) <= CountedOf(n, at) + (Unit - 1)
      BY <1>0, <1>1, <2>1, <3>5, <3>6, <3>7, <3>8
    <3>10. Elapsed(r, m, at) = at - m
      BY <2>1 DEF Elapsed
    <3>11. QED
      BY <2>0, <2>1, <3>2, <3>4, <3>9, <3>10 DEF n
  <2>2. CASE r.relay # "on" /\ op = "on"
    <3>1. n = [r EXCEPT !.relay = op, !.since = at]
      BY <2>0, <2>2 DEF Reported
    <3>2. n.relay = "on" /\ n.since = at /\ n.total = r.total
      BY <1>0, <2>2, <3>1 DEF Rows
    <3>3. n \in Rows
      BY <1>0, <1>4, <3>1 DEF Rows
    <3>4. Coherent(n, at)
      BY <1>0, <3>2, <3>3 DEF Coherent
    <3>5. CountedOf(n, at) = r.total * Unit + (at - at) /\ CountedOf(r, m) = r.total * Unit + 0
      BY <2>2, <3>2 DEF CountedOf
    <3>6. r.total * Unit \in Nat
      BY <1>0, NotNegative
    <3> HIDE DEF n
    <3>7. CountedOf(n, at) = CountedOf(r, m)
      BY <3>5, <3>6
    <3>8. Elapsed(r, m, at) = 0
      BY <2>2 DEF Elapsed
    <3>9. QED
      BY <1>0, <2>0, <2>2, <3>4, <3>7, <3>8 DEF n
  <2>3. CASE r.relay = "on" <=> op = "on"
    <3>1. n = [r EXCEPT !.relay = op]
      BY <2>0, <2>3 DEF Reported
    <3>2. n.relay = op /\ n.since = r.since /\ n.total = r.total
      BY <1>0, <3>1 DEF Rows
    <3>3. n \in Rows
      BY <1>0, <1>4, <3>1 DEF Rows
    <3>4. CASE op = "on"
      <4>1. r.since \in Nat /\ r.since <= m
        BY <1>0, <2>3, <3>4 DEF Coherent, Rows
      <4>2. Coherent(n, at)
        BY <1>0, <3>2, <3>3, <3>4, <4>1 DEF Coherent
      <4>3. /\ CountedOf(n, at) = r.total * Unit + (at - r.since)
            /\ CountedOf(r, m) = r.total * Unit + (m - r.since)
        BY <2>3, <3>2, <3>4 DEF CountedOf
      <4>4. r.total * Unit \in Nat
        BY <1>0, NotNegative
      <4>5. Elapsed(r, m, at) = at - m
        BY <2>3, <3>4 DEF Elapsed
      <4> HIDE DEF n
      <4>6. CountedOf(n, at) = CountedOf(r, m) + Elapsed(r, m, at) /\ CountedOf(n, at) \in Int
        BY <4>1, <4>3, <4>4, <4>5
      <4>7. QED
        BY <2>0, <3>2, <3>4, <4>2, <4>6 DEF n
    <3>5. CASE op # "on"
      <4>1. Coherent(n, at)
        BY <1>0, <2>3, <3>2, <3>3, <3>5 DEF Coherent
      <4>2. CountedOf(n, at) = CountedOf(r, m)
        BY <2>3, <3>2, <3>5 DEF CountedOf
      <4>3. Elapsed(r, m, at) = 0
        BY <2>3, <3>5 DEF Elapsed
      <4> HIDE DEF n
      <4>4. QED
        BY <1>0, <2>0, <2>3, <3>5, <4>1, <4>2, <4>3 DEF n
    <3>6. QED
      BY <3>4, <3>5
  <2>4. QED
    BY <2>1, <2>2, <2>3
<1>5. QED
  BY <1>2, <1>3, <1>4 DEF Ops

--------------------------------------------------------------------------------
(* The invariant *)

LEMMA InitHolds == MeterInit => MeterIInv
<1> SUFFICES ASSUME MeterInit PROVE MeterIInv
  OBVIOUS
<1> USE DEF MeterInit
<1>1. Unit \in Nat \ {0} /\ NoTime \notin Int
  BY MeterAssumption
<1>2. rec \in Rows /\ Closed \in Txns
  BY DEF Rows, Blank, Txns, Closed, States, Ops
<1>3. MeterTypeOK
  BY <1>2 DEF MeterTypeOK
<1>4. Coherent(rec, mark)
  BY <1>2 DEF Coherent, Blank
<1>5. ASSUME NEW w \in Workers PROVE Sound(txn[w])
  BY <1>2 DEF Sound, Closed
<1>6. OneWriter
  BY DEF OneWriter, Closed
<1>7. UptimeAccounted
  <2>1. Counted = 0
    BY <1>1, SMTT(30) DEF Counted, Blank
  <2>2. 0 * (Unit - 1) = 0
    BY <1>1, SMTT(30)
  <2>3. QED
    BY <2>1, <2>2 DEF UptimeAccounted
<1>8. QED
  BY <1>3, <1>4, <1>5, <1>6, <1>7 DEF MeterIInv

\* A step that changes only one transaction, to a sound one.
LEMMA OneTransaction ==
    ASSUME MeterIInv, NEW w \in Workers, NEW t, Sound(t),
           txn' = [txn EXCEPT ![w] = t],
           UNCHANGED <<rec, now, mark, onTime, cuts>>,
           t.pc = "written" => RowFree
    PROVE  MeterIInv'
<1> USE DEF MeterIInv
<1>1. t \in Txns /\ txn' \in [Workers -> Txns]
  BY DEF Sound, MeterTypeOK
<1>2. MeterTypeOK'
  BY <1>1 DEF MeterTypeOK
<1>3. ASSUME NEW v \in Workers PROVE Sound(txn[v])'
  <2>1. txn'[v] = IF v = w THEN t ELSE txn[v]
    BY DEF MeterTypeOK
  <2>2. QED
    BY <2>1 DEF Sound
<1>4. OneWriter'
  BY DEF OneWriter, RowFree, MeterTypeOK
<1>5. UptimeAccounted' /\ Coherent(rec, mark)' /\ (mark <= now)'
  BY DEF UptimeAccounted, Counted, Coherent
<1>6. QED
  BY <1>2, <1>3, <1>4, <1>5

LEMMA CommitPreserves ==
    ASSUME MeterIInv, NEW w \in Workers, Commit(w)
    PROVE  MeterIInv'
<1> DEFINE t == txn[w]
           n == Effect(t.op, rec, t.at)
<1> USE DEF MeterIInv
<1>0. /\ Unit \in Nat \ {0}
      /\ rec \in Rows /\ mark \in Nat /\ now \in Nat /\ onTime \in Nat /\ cuts \in Nat
      /\ t \in Txns /\ t.op \in Ops /\ t.at \in Nat
      /\ t.row = n /\ mark <= t.at /\ t.at <= now
  BY MeterAssumption DEF Commit, Sound, MeterTypeOK, Txns
<1>1. /\ Coherent(n, t.at)
      /\ t.op = "reset" => CountedOf(n, t.at) = 0
      /\ t.op # "reset" =>
           /\ CountedOf(n, t.at) <= CountedOf(rec, mark) + Elapsed(rec, mark, t.at)
           /\ CountedOf(rec, mark) + Elapsed(rec, mark, t.at) <=
                CountedOf(n, t.at) + (IF rec.relay = "on" /\ n.relay # "on" THEN Unit - 1 ELSE 0)
  BY <1>0, EffectFacts
<1>2. rec' = n /\ mark' = t.at /\ now' = now
  BY <1>0 DEF Commit
<1>3. /\ CountedOf(rec, mark) = Counted /\ (CountedOf(rec, mark))' = Counted'
      /\ CountedOf(n, t.at) = Counted'
      /\ Counted \in Nat
  <2>1. CountedOf(rec, mark) = Counted
    BY DEF CountedOf, Counted
  <2>2. Counted' = CountedOf(n, t.at)
    BY <1>2 DEF CountedOf, Counted
  <2>3. QED
    BY <1>0, <2>1, <2>2, CountedIsNat DEF CountedOf, Counted
<1>4. CountedOf(n, t.at) \in Nat
  BY <1>0, <1>1, CountedIsNat
<1>5. Elapsed(rec, mark, t.at) \in Nat
  BY <1>0 DEF Elapsed
<1>6. /\ t.op = "reset" => onTime' = 0 /\ cuts' = 0
      /\ t.op # "reset" =>
            /\ onTime' = onTime + Elapsed(rec, mark, t.at)
            /\ cuts' = IF rec.relay = "on" /\ n.relay # "on" THEN cuts + 1 ELSE cuts
  BY <1>0 DEF Commit, Elapsed
<1>7. onTime' \in Nat /\ cuts' \in Nat
  <2>1. CASE t.op = "reset"
    BY <1>6, <2>1
  <2>2. CASE t.op # "reset"
    <3> HIDE DEF t, n
    <3>1. QED
      BY <1>0, <1>5, <1>6, <2>2
  <2>3. QED
    BY <2>1, <2>2
<1>8. UptimeAccounted'
  <2>1. CASE t.op = "reset"
    <3>1. 0 * (Unit - 1) = 0
      BY <1>0, SMTT(30)
    <3>2. QED
      BY <1>1, <1>3, <1>6, <2>1, <3>1 DEF UptimeAccounted
  <2>2. CASE t.op # "reset" /\ rec.relay = "on" /\ n.relay # "on"
    <3> DEFINE lost == cuts * (Unit - 1)
    <3>1. (cuts + 1) * (Unit - 1) = cuts * (Unit - 1) + 1 * (Unit - 1)
      BY <1>0, Distributes
    <3>2. 1 * (Unit - 1) = Unit - 1 /\ lost \in Nat
      BY <1>0, NotNegative, SMTT(30)
    <3>3. cuts' * (Unit - 1) = lost + (Unit - 1)
      BY <1>6, <2>2, <3>1, <3>2
    <3>4. Counted <= onTime /\ onTime <= Counted + lost
      BY DEF UptimeAccounted
    <3> HIDE DEF t, n, lost
    <3>5. Counted' <= onTime' /\ onTime' <= Counted' + (lost + (Unit - 1))
      BY <1>0, <1>1, <1>3, <1>4, <1>5, <1>6, <2>2, <3>2, <3>4
    <3>6. QED
      BY <3>3, <3>5 DEF UptimeAccounted
  <2>3. CASE t.op # "reset" /\ ~(rec.relay = "on" /\ n.relay # "on")
    <3> DEFINE lost == cuts * (Unit - 1)
    <3>1. lost \in Nat
      BY <1>0, NotNegative
    <3>2. cuts' * (Unit - 1) = lost
      BY <1>6, <2>3
    <3>3. Counted <= onTime /\ onTime <= Counted + lost
      BY DEF UptimeAccounted
    <3> HIDE DEF t, n, lost
    <3>4. Counted' <= onTime' /\ onTime' <= Counted' + lost
      BY <1>0, <1>1, <1>3, <1>4, <1>5, <1>6, <2>3, <3>1, <3>3
    <3>5. QED
      BY <3>2, <3>4 DEF UptimeAccounted
  <2>4. QED
    BY <2>1, <2>2, <2>3
<1>9. ASSUME NEW v \in Workers
      PROVE  txn'[v] \in Txns /\ Sound(txn[v])' /\ txn'[v].pc # "written"
  <2>1. txn'[v] = IF v = w THEN Closed ELSE Overtaken(txn[v])
    BY DEF Commit
  <2>2. txn[v] \in Txns
    BY DEF MeterTypeOK
  <2>3. v # w => txn[v].pc # "written"
    BY DEF OneWriter, Commit
  <2>4. Closed \in Txns /\ Closed.pc = "closed"
    BY DEF Txns, Closed, Rows, Blank, States, Ops
  <2>5. txn'[v] \in Txns
    BY <2>1, <2>2, <2>4 DEF Overtaken, Txns
  <2>6. txn'[v].pc # "written" /\ ~(txn'[v].pc = "open" /\ ~txn'[v].stale)
    BY <2>1, <2>2, <2>3, <2>4 DEF Overtaken, Txns
  <2>7. QED
    BY <2>5, <2>6 DEF Sound
<1>10. MeterTypeOK'
  <2>1. txn' \in [Workers -> Txns]
    BY <1>9 DEF Commit
  <2>2. QED
    BY <1>0, <1>1, <1>2, <1>7, <2>1 DEF MeterTypeOK, Coherent
<1>11. OneWriter'
  BY <1>9 DEF OneWriter
<1>12. QED
  BY <1>0, <1>1, <1>2, <1>8, <1>9, <1>10, <1>11

LEMMA NextPreserves == MeterIInv /\ [MeterNext]_meterVars => MeterIInv'
<1> SUFFICES ASSUME MeterIInv, [MeterNext]_meterVars PROVE MeterIInv'
  OBVIOUS
<1>1. ASSUME NEW w \in Workers, NEW op \in Ops, Begin(w, op) PROVE MeterIInv'
  <2> DEFINE t == [pc |-> "open", op |-> op, row |-> rec, at |-> now, stale |-> FALSE]
  <2>1. Sound(t)
    BY DEF MeterIInv, MeterTypeOK, Sound, Txns
  <2>2. QED
    BY <1>1, <2>1, OneTransaction DEF Begin
<1>2. ASSUME NEW w \in Workers, Write(w) PROVE MeterIInv'
  <2>1. PICK at \in txn[w].at .. now :
          txn' = [txn EXCEPT ![w].pc = "written", ![w].at = at,
                             ![w].row = Effect(txn[w].op, txn[w].row, at)]
    BY <1>2 DEF Write
  <2> DEFINE t == [txn[w] EXCEPT !.pc = "written", !.at = at,
                                 !.row = Effect(txn[w].op, txn[w].row, at)]
  <2>2. /\ txn[w] \in Txns /\ txn[w].row = rec /\ mark <= txn[w].at /\ txn[w].at <= now
        /\ mark \in Nat /\ now \in Nat /\ txn[w].at \in Nat /\ txn[w].op \in Ops
    BY <1>2 DEF MeterIInv, Sound, Write, MeterTypeOK, Txns
  <2>3. at \in Nat /\ mark <= at /\ at <= now
    BY <2>1, <2>2
  <2>4. Effect(txn[w].op, rec, at) \in Rows
    BY <2>2, <2>3, EffectFacts DEF MeterIInv, Coherent
  <2>5. Sound(t)
    <3>1. t \in Txns
      BY <2>2, <2>3, <2>4 DEF Txns
    <3>2. t.pc = "written" /\ t.op = txn[w].op /\ t.at = at /\ t.row = Effect(txn[w].op, rec, at)
      BY <2>2 DEF Txns
    <3> HIDE DEF t
    <3>3. QED
      BY <2>3, <3>1, <3>2 DEF Sound
  <2>6. txn' = [txn EXCEPT ![w] = t] /\ UNCHANGED <<rec, now, mark, onTime, cuts>> /\ RowFree
    BY <1>2, <2>1, <2>2 DEF Write, MeterIInv, MeterTypeOK
  <2> HIDE DEF t
  <2>7. QED
    BY <2>5, <2>6, OneTransaction
<1>3. ASSUME NEW w \in Workers, Abort(w) PROVE MeterIInv'
  <2>1. Closed \in Txns /\ Closed.pc = "closed"
    BY DEF Txns, Closed, Rows, Blank, States, Ops
  <2>2. Sound(Closed)
    BY <2>1 DEF Sound
  <2>3. txn' = [txn EXCEPT ![w] = Closed] /\ UNCHANGED <<rec, now, mark, onTime, cuts>>
    BY <1>3 DEF Abort
  <2>4. QED
    BY <2>1, <2>2, <2>3, OneTransaction
<1>4. ASSUME NEW w \in Workers, Commit(w) PROVE MeterIInv'
  BY <1>4, CommitPreserves
<1>5. CASE MeterTick
  <2>1. now' = now + 1 /\ UNCHANGED <<rec, txn, mark, onTime, cuts>> /\ now \in Nat /\ mark \in Nat
    BY <1>5 DEF MeterTick, MeterIInv, MeterTypeOK
  <2>2. MeterTypeOK' /\ (mark <= now)'
    BY <2>1 DEF MeterIInv, MeterTypeOK
  <2>3. ASSUME NEW v \in Workers PROVE Sound(txn[v])'
    <3>1. txn[v] \in Txns /\ txn[v].at \in Nat /\ Sound(txn[v])
      BY DEF MeterIInv, MeterTypeOK, Txns
    <3>2. QED
      BY <2>1, <3>1 DEF Sound
  <2>4. OneWriter' /\ UptimeAccounted' /\ Coherent(rec, mark)'
    BY <2>1 DEF MeterIInv, OneWriter, UptimeAccounted, Counted, Coherent
  <2>5. QED
    BY <2>2, <2>3, <2>4 DEF MeterIInv
<1>6. CASE UNCHANGED meterVars
  BY <1>6 DEF meterVars, MeterIInv, MeterTypeOK, Coherent, Sound, OneWriter, UptimeAccounted, Counted
<1>7. QED
  BY <1>1, <1>2, <1>3, <1>4, <1>5, <1>6 DEF MeterNext

--------------------------------------------------------------------------------
(* The theorems *)

LEMMA MeterInvariantHolds == MeterSpec => []MeterIInv
BY InitHolds, NextPreserves, PTL DEF MeterSpec

\* Every state of the meter has its type: no total is ever negative.
THEOREM MeterTypeCorrect == MeterSpec => []MeterTypeOK
<1>1. MeterIInv => MeterTypeOK
  BY DEF MeterIInv
<1>2. QED
  BY <1>1, MeterInvariantHolds, PTL

\* on_since is filled in exactly while the relay is on.
THEOREM OnSinceKept == MeterSpec => []OnSinceWhileOn
<1>1. MeterIInv => OnSinceWhileOn
  BY DEF MeterIInv, Coherent, OnSinceWhileOn
<1>2. QED
  BY <1>1, MeterInvariantHolds, PTL

\* No instant is counted twice, and a switch-off loses less than a minute, for
\* any number of sessions and any length of the minute.
THEOREM NoTimeCountedTwice == MeterSpec => []UptimeAccounted
<1>1. MeterIInv => UptimeAccounted
  BY DEF MeterIInv
<1>2. QED
  BY <1>1, MeterInvariantHolds, PTL

--------------------------------------------------------------------------------
(* The messages *)

\* A set of natural numbers that is not empty has a least one.
LEMMA LeastNatural ==
    ASSUME NEW S \in SUBSET Nat, S # {}
    PROVE  \E m \in S : \A n \in S : m <= n
<1>1. PICK m \in S : \A n \in S : ~(<<n, m>> \in OpToRel(<, Nat))
  BY NatLessThanWellFounded, WFMin, Zenon
<1>2. ASSUME NEW n \in S PROVE m <= n
  <2>1. ~(<<n, m>> \in OpToRel(<, Nat))
    BY <1>1
  <2>2. ~(n < m)
    BY <2>1 DEF OpToRel
  <2>3. QED
    BY <2>2
<1>3. QED
  BY <1>2

\* The first and the last of some positions are among them.
LEMMA Extremes ==
    ASSUME NEW n \in Nat, NEW S \in SUBSET (1 .. n), S # {}
    PROVE  Min(S) \in S /\ Max(S) \in S
<1> DEFINE T == {n - i : i \in S}
<1>1. \E i \in S : \A j \in S : i <= j
  BY LeastNatural
<1>2. \A i \in S : n - i \in Nat
  OBVIOUS
<1>3. PICK m \in T : \A k \in T : m <= k
  <2>1. T \in SUBSET Nat
    BY <1>2
  <2>2. T # {}
    OBVIOUS
  <2>3. QED
    BY <2>1, <2>2, LeastNatural
<1>4. PICK i \in S : m = n - i
  OBVIOUS
<1>5. \A j \in S : i >= j
  BY <1>3, <1>4
<1>6. QED
  BY <1>1, <1>5 DEF Min, Max

\* The table is a sequence of messages.
LEMMA RowsType ==
    ASSUME IngestTypeOK
    PROVE  /\ rows \in [1 .. Len(rows) -> Messages]
           /\ Len(rows) \in Nat /\ DOMAIN rows = 1 .. Len(rows)
           /\ \A f : f \in [1 .. Len(rows) -> Messages] => f \in Seq(Messages)
<1>1. rows \in Seq(Messages)
  BY DEF IngestTypeOK
<1>2. Len(rows) \in Nat /\ DOMAIN rows = 1 .. Len(rows)
  BY <1>1
<1>3. rows \in [1 .. Len(rows) -> Messages]
  BY <1>1
<1>4. ASSUME NEW f \in [1 .. Len(rows) -> Messages] PROVE f \in Seq(Messages)
  BY <1>2
<1>5. QED
  BY <1>2, <1>3, <1>4

\* A batch that is not empty has a deciding message, and it is one of the batch.
LEMMA DecidingInBatch ==
    ASSUME IngestTypeOK, Batch # {}
    PROVE  Deciding \in Batch
<1>1. Len(rows) \in Nat /\ DOMAIN rows = 1 .. Len(rows)
  BY DEF IngestTypeOK
<1>2. \A kind \in Kinds : OfKind(kind) \in SUBSET Batch /\ Batch \in SUBSET (1 .. Len(rows))
  BY <1>1 DEF OfKind, Batch, New
<1>3. \A kind \in Kinds : OfKind(kind) # {} =>
         Min(OfKind(kind)) \in OfKind(kind) /\ Max(OfKind(kind)) \in OfKind(kind)
  BY <1>1, <1>2, Extremes
<1>4. \E kind \in Kinds : OfKind(kind) # {}
  <2>1. PICK i \in Batch : TRUE
    OBVIOUS
  <2>2. rows[i] \in Messages
    BY <2>1, RowsType DEF Batch, New
  <2>3. QED
    BY <2>1, <2>2 DEF OfKind, Messages
<1>5. OfKind("status") \cap OfKind("telemetry") = {}
  BY DEF OfKind
<1>6. \E kind \in Kinds :
         /\ OfKind(kind) # {}
         /\ \A other \in Kinds \ {kind} :
               OfKind(other) # {} => Min(OfKind(other)) < Min(OfKind(kind))
  <2>1. CASE OfKind("status") = {} \/ OfKind("telemetry") = {}
    BY <1>4, <2>1 DEF Kinds
  <2>2. CASE OfKind("status") # {} /\ OfKind("telemetry") # {}
    <3>1. /\ Min(OfKind("status")) \in 1 .. Len(rows)
          /\ Min(OfKind("telemetry")) \in 1 .. Len(rows)
          /\ Min(OfKind("status")) # Min(OfKind("telemetry"))
      BY <1>2, <1>3, <1>5, <2>2 DEF Kinds
    <3>2. CASE Min(OfKind("status")) < Min(OfKind("telemetry"))
      BY <2>2, <3>2 DEF Kinds
    <3>3. CASE Min(OfKind("telemetry")) < Min(OfKind("status"))
      BY <2>2, <3>3 DEF Kinds
    <3>4. QED
      BY <1>1, <3>1, <3>2, <3>3
  <2>3. QED
    BY <2>1, <2>2
<1>7. DecidingKind \in Kinds /\ OfKind(DecidingKind) # {}
  BY <1>6 DEF DecidingKind
<1>8. QED
  BY <1>2, <1>3, <1>7 DEF Deciding

\* One status or telemetry more, one less: what is in flight stays typed.
LEMMA WireType ==
    ASSUME IngestTypeOK
    PROVE  /\ wire # <<>> => Head(wire) \in Reports /\ Tail(wire) \in Seq(Reports)
           /\ stalled # <<>> => Head(stalled) \in Posts /\ Tail(stalled) \in Seq(Posts)
           /\ \A m \in Reports : Append(wire, m) \in Seq(Reports)
  BY DEF IngestTypeOK

\* Rows are written in place, and only rows that are there.
LEMMA ReusableThere ==
    ASSUME IngestTypeOK, NEW m \in Reports, Reusable(m) # {}
    PROVE  Max(Reusable(m)) \in Reusable(m)
<1>1. Len(rows) \in Nat /\ DOMAIN rows = 1 .. Len(rows)
  BY DEF IngestTypeOK
<1>2. Reusable(m) \in SUBSET (1 .. Len(rows))
  BY <1>1 DEF Reusable
<1>3. QED
  BY <1>1, <1>2, Extremes

\* What a stored message makes of the table, processed or not.
LEMMA StoredKeeps ==
    ASSUME IngestTypeOK, NEW m \in Reports, NEW done \in BOOLEAN
    PROVE  /\ Added(m, done) \in Seq(Messages)
           /\ Stored(m, done) => rows' \in Seq(Messages)
<1>1. rows \in Seq(Messages) /\ m.kind \in Kinds /\ m.on \in RelayStates
  BY DEF IngestTypeOK, Reports
<1> DEFINE new == [kind |-> m.kind, on |-> m.on,
                   state |-> IF done THEN "done" ELSE "new", recent |-> TRUE]
<1>2. new \in Messages
  BY <1>1 DEF Messages
<1>3. Added(m, done) = Append(rows, new)
  BY DEF Added
<1> HIDE DEF new
<1>4. Added(m, done) \in Seq(Messages)
  BY <1>1, <1>2, <1>3
<1>5. \A i \in DOMAIN rows : Refreshed(rows[i], m, done) \in Messages
  <2>1. \A i \in DOMAIN rows : rows[i] \in Messages
    BY <1>1
  <2>2. QED
    BY <1>1, <2>1 DEF Refreshed, Messages
<1>6. ASSUME Stored(m, done), Reusable(m) # {} PROVE rows' \in Seq(Messages)
  <2> DEFINE i == Max(Reusable(m))
  <2>1. i \in DOMAIN rows
    BY <1>6, ReusableThere DEF Reusable
  <2>2. rows' = [rows EXCEPT ![i] = Refreshed(rows[i], m, done)]
    BY <1>6 DEF Stored
  <2> HIDE DEF i
  <2>3. QED
    BY <1>1, <1>5, <2>1, <2>2
<1>7. QED
  BY <1>4, <1>6 DEF Stored

\* The counter of faults keeps to its bound.
LEMMA IngestFaults == IngestTypeOK /\ (Fault \/ UNCHANGED faults) => faults' \in 0 .. MaxFaults
BY IngestAssumption DEF IngestTypeOK, Fault

LEMMA IngestNextKeeps ==
    ASSUME IngestTypeOK, [IngestNext]_ingestVars
    PROVE  IngestTypeOK'
<1> USE IngestAssumption
<1>1. CASE ReportStatus
  <2>1. wire' \in Seq(Reports)
    BY <1>1, WireType DEF ReportStatus, Reports, Kinds
  <2>2. QED
    BY <1>1, <2>1 DEF ReportStatus, IngestTypeOK
<1>2. CASE ReportTelemetry
  <2>1. wire' \in Seq(Reports)
    BY <1>2, WireType DEF ReportTelemetry, Reports, Kinds, IngestTypeOK
  <2>2. QED
    BY <1>2, <2>1 DEF ReportTelemetry, IngestTypeOK
<1>3. CASE Arrive \/ ProcessingFails
  <2>1. Head(wire) \in Reports /\ wire' \in Seq(Reports) /\ Head(wire).on \in RelayStates
    BY <1>3, WireType DEF Arrive, ProcessingFails, Reports
  <2>2. PICK done \in BOOLEAN : Stored(Head(wire), done)
    BY <1>3 DEF Arrive, ProcessingFails, Store, IngestTypeOK
  <2>3. rows' \in Seq(Messages)
    BY <2>1, <2>2, StoredKeeps
  <2>4. twin' \in {twin, Head(wire).on}
    BY <1>3 DEF Arrive, ProcessingFails, Store, Processed
  <2>5. faults' \in 0 .. MaxFaults
    BY <1>3, IngestFaults DEF Arrive, ProcessingFails
  <2>6. UNCHANGED <<direct, actual, stalled, changes>>
    BY <1>3 DEF Arrive, ProcessingFails
  <2>7. QED
    BY <2>1, <2>3, <2>4, <2>5, <2>6 DEF IngestTypeOK
<1>4. CASE GiveUp
  <2>1. wire' \in Seq(Reports) /\ faults' \in 0 .. MaxFaults
    BY <1>4, WireType, IngestFaults DEF GiveUp
  <2>2. QED
    BY <1>4, <2>1 DEF GiveUp, IngestTypeOK
<1>5. CASE TimeOut
  <2>1. stalled' \in Seq(Posts) /\ faults' \in 0 .. MaxFaults
    BY <1>5, WireType, IngestFaults DEF TimeOut, Posts
  <2>2. QED
    BY <1>5, <2>1 DEF TimeOut, IngestTypeOK
<1>6. CASE StalledCommits
  <2>1. /\ Head(stalled) \in Posts /\ stalled' \in Seq(Posts)
        /\ UNCHANGED <<direct, actual, wire, changes, faults>>
    BY <1>6, WireType DEF StalledCommits
  <2>2. Head(stalled).msg \in Reports /\ Head(stalled).msg.on \in RelayStates
    BY <2>1 DEF Posts, Reports
  <2>3. rows' \in Seq(Messages)
    <3>1. \/ \E done \in BOOLEAN : Stored(Head(stalled).msg, done)
          \/ rows' = Added(Head(stalled).msg, FALSE)
      BY <1>6 DEF StalledCommits, Store, IngestTypeOK
    <3>2. QED
      BY <2>2, <3>1, StoredKeeps
  <2>4. twin' \in {twin, Head(stalled).msg.on}
    BY <1>6 DEF StalledCommits, Store, Processed
  <2>5. QED
    BY <2>1, <2>2, <2>3, <2>4 DEF IngestTypeOK
<1>7. ASSUME NEW bad \in SUBSET DOMAIN rows, ProcessBatch(bad) PROVE IngestTypeOK'
  <2>1. Deciding \in DOMAIN rows
    BY <1>7, DecidingInBatch DEF ProcessBatch, Batch, New
  <2>2. rows' \in Seq(Messages)
    <3>1. \A i \in DOMAIN rows, x \in {"done", "error"} :
             [rows[i] EXCEPT !.state = x] \in Messages
      BY RowsType DEF Messages
    <3>2. rows' \in [1 .. Len(rows) -> Messages]
      BY <1>7, <3>1, RowsType DEF ProcessBatch
    <3>3. QED
      BY <3>2, RowsType
  <2>3. twin' \in RelayStates \cup {Unknown}
    <3>1. \A i \in DOMAIN rows : rows[i].on \in RelayStates
      BY RowsType DEF Messages
    <3>2. Selected \subseteq DOMAIN rows
      BY DEF Selected, Batch, New
    <3>3. QED
      BY <1>7, <2>1, <3>1, <3>2 DEF ProcessBatch, IngestTypeOK
  <2>4. faults' \in 0 .. MaxFaults
    BY <1>7, IngestFaults DEF ProcessBatch
  <2>5. QED
    BY <1>7, <2>2, <2>3, <2>4 DEF ProcessBatch, IngestTypeOK
<1>8. ASSUME NEW i \in 1 .. MaxRows, Age(i) PROVE IngestTypeOK'
  <2>1. rows' \in Seq(Messages)
    <3>1. i \in DOMAIN rows /\ rows' = [rows EXCEPT ![i].recent = FALSE]
      BY <1>8 DEF Age
    <3>2. [rows[i] EXCEPT !.recent = FALSE] \in Messages
      BY <3>1, RowsType DEF Messages
    <3>3. rows' \in [1 .. Len(rows) -> Messages]
      BY <3>1, <3>2, RowsType
    <3>4. QED
      BY <3>3, RowsType
  <2>2. QED
    BY <1>8, <2>1 DEF Age, IngestTypeOK
<1>9. ASSUME NEW gone \in SUBSET DOMAIN rows, Purge(gone) PROVE IngestTypeOK'
  <2> DEFINE kept == DOMAIN rows \ gone
             n    == Cardinality(kept)
  <2>1. n \in Nat /\ kept \subseteq DOMAIN rows
    <3>1. kept \subseteq 1 .. Len(rows) /\ Len(rows) \in Nat
      BY DEF IngestTypeOK
    <3>2. 1 \in Int /\ Len(rows) \in Int
      BY <3>1
    <3>3. IsFiniteSet(1 .. Len(rows))
      BY <3>2, FS_Interval
    <3>4. IsFiniteSet(kept)
      BY <3>1, <3>3, FS_Subset
    <3>5. QED
      BY <3>1, <3>4, FS_CardinalityType
  <2>2. PICK at \in [1 .. n -> kept] : rows' = [k \in 1 .. n |-> rows[at[k]]]
    BY <1>9 DEF Purge
  <2>3. UNCHANGED <<direct, actual, wire, stalled, twin, changes>> /\ faults' \in 0 .. MaxFaults
    BY <1>9, IngestFaults DEF Purge
  <2> HIDE DEF kept, n
  <2>4. rows' \in Seq(Messages)
    BY <2>1, <2>2 DEF IngestTypeOK
  <2>5. QED
    BY <2>3, <2>4 DEF IngestTypeOK
<1>10. CASE UNCHANGED ingestVars
  BY <1>10 DEF ingestVars, IngestTypeOK
<1>11. QED
  BY <1>1, <1>2, <1>3, <1>4, <1>5, <1>6, <1>7, <1>8, <1>9, <1>10 DEF IngestNext

\* Reports, posts and rows stay well typed; a batch always has a message that
\* decides, so that the cron job never writes a state no report carried.
THEOREM IngestTypeCorrect == IngestSpec => []IngestTypeOK
<1>1. IngestInit => IngestTypeOK
  BY IngestAssumption DEF IngestInit, IngestTypeOK
<1>2. QED
  BY <1>1, IngestNextKeeps, PTL DEF IngestSpec
================================================================================
