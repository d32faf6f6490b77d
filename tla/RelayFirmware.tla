----------------------------- MODULE RelayFirmware -----------------------------
(***************************************************************************)
(* The ESP8266 relay module (firmware/esp8266_relay/.../esp8266_relay.ino).*)
(*                                                                         *)
(* One action per stage of loop(), in the order loop() calls them, with    *)
(* the environment (clock, network, wall button, power) between any two.   *)
(* A Tick is one minute, the granularity of the schedule; delays count     *)
(* down in Ticks.  A stored schedule (version and entries together) is one *)
(* value; Due[s][m] is the action of the last entry of s that matches      *)
(* minute m of the week, which is the one that sticks when several do.     *)
(***************************************************************************)
EXTENDS Naturals

CONSTANTS Schedules,    \* the schedule tables the server may send
          NoEntries,    \* the empty table
          Due,          \* Due[s][m]: "none", "on" or "off"
          Minutes,      \* bound: minutes in the modelled week
          Delays,       \* delay durations a command may ask for, in Ticks
          MaxRestarts,  \* bound: power cycles in a behaviour
          Unreadable    \* flash contents loadState() cannot parse

ASSUME ConstantsAssumption ==
    /\ NoEntries \in Schedules
    /\ Minutes \in Nat \ {0}
    /\ Delays \subseteq Nat
    /\ MaxRestarts \in Nat
    /\ Due \in [Schedules -> [0 .. Minutes - 1 -> {"none", "on", "off"}]]
    /\ Unreadable \notin [relay : BOOLEAN, schedule : Schedules]

VARIABLES
    pc,           \* the stage of loop() that runs next
    relayOn,      \* relayOn, and the pin it drives
    delayActive,  \* delayActive
    delayLeft,    \* Ticks until delayEndAtMs; 0 once millis() has reached it
    schedule,     \* schedules[], scheduleCount and scheduleVersion in RAM
    minute,       \* minute of the week
    minuteDone,   \* globalMinuteKey = lastExecMinuteKey
    timeSynced,   \* timeSynced(): NTP has answered since power-on
    link,         \* Wi-Fi up and broker reachable
    mqtt,         \* mqttClient.connected(), which a dead link leaves true for a while
    session,      \* the broker gets what is published
    otaPending,   \* otaPending
    flash,        \* STATE_FILE
    profileSet,   \* CONFIG_FILE names a board profile
    reported,     \* relay state and delay flag the broker last got
    restarts,     \* power cycles so far
    setter,       \* history: who last chose the relay state
    stored,       \* history: the relay or schedule has been saved, or loaded, since
                  \* it last changed
    minutePhase   \* history: have the entries of this minute run ("ran"), and
                  \* has a user switched the relay since ("chosen")?

env    == <<minute, link, restarts, profileSet>>
timer  == <<delayActive, delayLeft>>
relay  == <<relayOn, flash, stored, setter>>
net    == <<mqtt, session>>
sched  == <<schedule, minuteDone>>
vars   == <<pc, relayOn, delayActive, delayLeft, schedule, minute, minuteDone,
            timeSynced, link, mqtt, session, otaPending, flash, profileSet, reported,
            restarts, setter, stored, minutePhase>>

Stages   == {"button", "mqtt", "command", "ota", "updating", "expiry",
             "schedule", "telemetry"}
Portal   == {"portal", "portal_client", "portal_restart"}
Setters  == {"boot", "button", "command", "delay", "expiry", "schedule"}
Image    == [relay : BOOLEAN, schedule : Schedules]
Default  == [relay |-> FALSE, schedule |-> NoEntries]
Running  == pc \in Stages

TypeOK ==
    /\ pc \in Stages \cup Portal
    /\ relayOn \in BOOLEAN
    /\ delayActive \in BOOLEAN
    /\ delayLeft \in Nat
    /\ schedule \in Schedules
    /\ minute \in 0 .. Minutes - 1
    /\ minuteDone \in BOOLEAN
    /\ timeSynced \in BOOLEAN
    /\ link \in BOOLEAN
    /\ mqtt \in BOOLEAN
    /\ session \in BOOLEAN
    /\ otaPending \in BOOLEAN
    /\ flash \in Image \cup {Unreadable}
    /\ profileSet \in BOOLEAN
    /\ reported \in [relay : BOOLEAN, delay : BOOLEAN]
    /\ restarts \in 0 .. MaxRestarts
    /\ setter \in Setters
    /\ stored \in BOOLEAN
    /\ minutePhase \in {"fresh", "ran", "chosen"}

--------------------------------------------------------------------------------
(* Helpers of the handlers *)

\* History: a user switched the relay after the minute's entries ran.
UserChose == minutePhase' = IF minutePhase = "fresh" THEN "fresh" ELSE "chosen"

\* What isDelayActive() returns.
DelayRunning == delayActive /\ delayLeft > 0

\* Mutant: the expiry is reported but the flag is left set.
CheckDelayPure == UNCHANGED <<delayActive, delayLeft>>

\* isDelayActive() also clears an expired delay, whoever calls it.
CheckDelay == delayActive' = DelayRunning /\ UNCHANGED delayLeft

\* Mutant: the deadline is reset, the flag forgotten.
ClearTimerOnly == UNCHANGED delayActive /\ delayLeft' = 0

\* delayActive, delayEndAtMs and delayDurationSec reset.
ClearDelay == delayActive' = FALSE /\ delayLeft' = 0

\* Mutant: the pin is driven, the state file is not written.
SetRelayNoSave(on, who) ==
    relayOn' = on /\ setter' = who /\ UNCHANGED <<flash, stored>>

\* saveState(): the file cannot be opened and stays, or has no room and stays
\* truncated, and no caller looks.
Save(image) ==
    \/ flash' = image /\ stored' = TRUE
    \/ flash' \in {flash, Unreadable} /\ stored' = FALSE

\* setRelay(on) with persist: drive the pin and save the state file.
SetRelay(on, who) ==
    /\ relayOn' = on
    /\ setter' = who
    /\ Save([relay |-> on, schedule |-> schedule])

\* Mutant: the status is built before the relay is switched.
ReportEarly(on, running) ==
    reported' = IF session THEN [relay |-> relayOn, delay |-> running] ELSE reported

\* publishStatus() and publishTelemetry(), at QoS 0: lost without a session, also
\* while the module still believes in the one it had.
Report(on, running) ==
    reported' = IF session THEN [relay |-> on, delay |-> running] ELSE reported

\* loadState(): a file that is missing or does not parse gives the defaults.
Loaded(file) == IF file = Unreadable THEN Default ELSE file

\* RAM as the reset leaves it, before startRuntime() reads the state file.
Reset ==
    /\ pc' = "portal"
    /\ relayOn' = FALSE
    /\ delayActive' = FALSE
    /\ delayLeft' = 0
    /\ schedule' = NoEntries
    /\ minuteDone' = FALSE
    /\ timeSynced' = FALSE
    /\ mqtt' = FALSE /\ session' = FALSE
    /\ otaPending' = FALSE
    /\ minutePhase' = "fresh"
    /\ UNCHANGED <<minute, link, reported, setter>>

--------------------------------------------------------------------------------
(* Power-on: the configuration portal, then the runtime *)

Init ==
    /\ pc = "portal"
    /\ relayOn = FALSE
    /\ delayActive = FALSE
    /\ delayLeft = 0
    /\ schedule = NoEntries
    /\ minute = 0
    /\ minuteDone = FALSE
    /\ timeSynced = FALSE
    /\ link = FALSE
    /\ mqtt = FALSE /\ session = FALSE
    /\ otaPending = FALSE
    /\ flash = Default
    /\ profileSet \in BOOLEAN
    /\ reported = [relay |-> FALSE, delay |-> FALSE]
    /\ restarts = 0
    /\ setter = "boot" /\ stored = TRUE
    /\ minutePhase = "fresh"

\* No client joined the access point within the window: startRuntime(), which
\* starts from the defaults if the file cannot be opened.
StartRuntime ==
    /\ pc = "portal"
    /\ profileSet
    /\ pc' = "button"
    /\ \E file \in {flash, Unreadable} :
          /\ relayOn' = Loaded(file).relay
          /\ schedule' = Loaded(file).schedule
          /\ stored' = (file = flash)
    /\ UNCHANGED <<env, timer, minuteDone, timeSynced, net, otaPending, flash,
                   reported, setter, minutePhase>>

\* A client joins the access point: the portal no longer times out.
PortalClient ==
    /\ pc = "portal"
    /\ pc' = "portal_client"
    /\ UNCHANGED <<env, timer, relay, sched, timeSynced, net, otaPending,
                   reported, minutePhase>>

\* The page's Save (which may pick a profile), Reboot or Factory Default.
PortalSubmit ==
    /\ pc = "portal_client"
    /\ profileSet' \in BOOLEAN
    /\ pc' = "portal_restart"
    /\ UNCHANGED <<timer, relay, sched, minute, timeSynced, link, net,
                   otaPending, reported, restarts, minutePhase>>

\* ESP.restart() five seconds after the submission.
PortalRestart ==
    /\ pc = "portal_restart"
    /\ Reset
    /\ UNCHANGED <<flash, stored, profileSet, restarts>>

\* Power is cut between two stages.  The user may hold a button at power-on,
\* which sets the board profile.
PowerCycle ==
    /\ restarts < MaxRestarts
    /\ restarts' = restarts + 1
    /\ profileSet' \in {profileSet, TRUE}
    /\ Reset
    /\ UNCHANGED <<flash, stored>>

--------------------------------------------------------------------------------
(* The stages of loop() *)

\* handleButton(): a debounced press flips the relay and ends any delay.
ButtonIdle ==
    /\ pc = "button"
    /\ pc' = "mqtt"
    /\ UNCHANGED <<env, timer, relay, sched, timeSynced, net, otaPending,
                   reported, minutePhase>>

ButtonPressed ==
    /\ pc = "button"
    /\ pc' = "mqtt"
    /\ ClearDelay
    /\ SetRelay(~relayOn, "button")
    /\ Report(~relayOn, FALSE)
    /\ UserChose
    /\ UNCHANGED <<env, sched, timeSynced, net, otaPending>>

\* ensureMqtt(): already connected, no link, throttled, or refused.
NoConnect ==
    /\ pc = "mqtt"
    /\ pc' = "command"
    /\ UNCHANGED <<env, timer, relay, sched, timeSynced, net, otaPending,
                   reported, minutePhase>>

\* ensureMqtt(): connected; subscribe and publishStatus().
Connect ==
    /\ pc = "mqtt"
    /\ link /\ ~mqtt
    /\ pc' = "command"
    /\ mqtt' = TRUE /\ session' = TRUE
    /\ CheckDelay
    /\ reported' = [relay |-> relayOn, delay |-> DelayRunning]
    /\ UNCHANGED <<env, relay, sched, timeSynced, otaPending, minutePhase>>

\* mqttClient.loop() delivers nothing, or a payload handleCommand() drops:
\* no JSON, an unknown command, an upgrade without url, a set without entries.
NoCommand ==
    /\ pc = "command"
    /\ pc' = "ota"
    /\ UNCHANGED <<env, timer, relay, sched, timeSynced, net, otaPending,
                   reported, minutePhase>>

\* Mutant: the relay command does not look at the delay.
NeverLocked == FALSE

\* "relay" is refused while a delay runs: only the status is published.
RelayLocked == DelayRunning

RelayRefused ==
    /\ pc = "command" /\ mqtt
    /\ RelayLocked
    /\ pc' = "ota"
    /\ Report(relayOn, TRUE)
    /\ UNCHANGED <<env, timer, relay, sched, timeSynced, net, otaPending,
                   minutePhase>>

\* "relay" with state on, off or toggle (toggle is one of the two).
RelayCommand ==
    /\ pc = "command" /\ mqtt
    /\ ~RelayLocked
    /\ pc' = "ota"
    /\ CheckDelay
    /\ \E on \in BOOLEAN :
          /\ SetRelay(on, "command")
          /\ Report(on, FALSE)
    /\ UserChose
    /\ UNCHANGED <<env, sched, timeSynced, net, otaPending>>

\* "delay_toggle" with no delay running starts one; 0 means one minute.
DelayStart ==
    /\ pc = "command" /\ mqtt
    /\ ~DelayRunning
    /\ pc' = "ota"
    /\ delayActive' = TRUE
    /\ \E d \in Delays : delayLeft' = IF d = 0 THEN 1 ELSE d
    /\ SetRelay(TRUE, "delay")
    /\ Report(TRUE, TRUE)
    /\ UserChose
    /\ UNCHANGED <<env, sched, timeSynced, net, otaPending>>

\* "delay_cancel", or "delay_toggle" while a delay runs.
DelayCancel ==
    /\ pc = "command" /\ mqtt
    /\ pc' = "ota"
    /\ ClearDelay
    /\ SetRelay(FALSE, "delay")
    /\ Report(FALSE, FALSE)
    /\ UserChose
    /\ UNCHANGED <<env, sched, timeSynced, net, otaPending>>

\* "schedule_set" and "schedule_clear": replace the table, allow the current
\* minute to run again, save, publish.
ScheduleCommand ==
    /\ pc = "command" /\ mqtt
    /\ pc' = "ota"
    /\ schedule' \in Schedules
    /\ minuteDone' = FALSE
    /\ Save([relay |-> relayOn, schedule |-> schedule'])
    /\ CheckDelay
    /\ Report(relayOn, DelayRunning)
    /\ minutePhase' = "fresh"
    /\ UNCHANGED <<env, relayOn, setter, timeSynced, net, otaPending>>

\* "upgrade" with a url: queued, and reported.
UpgradeCommand ==
    /\ pc = "command" /\ mqtt
    /\ pc' = "ota"
    /\ otaPending' = TRUE
    /\ CheckDelay
    /\ Report(relayOn, DelayRunning)
    /\ UNCHANGED <<env, relay, sched, timeSynced, net, minutePhase>>

NoUpdate ==
    /\ pc = "ota" /\ ~otaPending
    /\ pc' = "expiry"
    /\ UNCHANGED <<env, timer, relay, sched, timeSynced, net, otaPending,
                   reported, minutePhase>>

\* doUpgrade(): a url that is not https is refused ("expiry"); otherwise the
\* module reports "starting", disconnects and blocks in the download.
BeginUpdate ==
    /\ pc = "ota" /\ otaPending
    /\ otaPending' = FALSE
    /\ CheckDelay
    /\ Report(relayOn, DelayRunning)
    /\ \/ pc' = "expiry" /\ UNCHANGED net
       \/ pc' = "updating" /\ mqtt' = FALSE /\ session' = FALSE
    /\ UNCHANGED <<env, relay, sched, timeSynced, minutePhase>>

\* The new image is written: publishStatus() finds no connection, restart.
UpdateDone ==
    /\ pc = "updating"
    /\ Reset
    /\ UNCHANGED <<flash, stored, profileSet, restarts>>

\* The download failed: ensureMqtt(), which may connect, then publishStatus().
UpdateFailed ==
    /\ pc = "updating"
    /\ pc' = "expiry"
    /\ CheckDelay
    /\ \/ /\ link
          /\ mqtt' = TRUE /\ session' = TRUE
          /\ reported' = [relay |-> relayOn, delay |-> DelayRunning]
       \/ UNCHANGED <<net, reported>>
    /\ UNCHANGED <<env, relay, sched, timeSynced, otaPending, minutePhase>>

\* if (delayActive && !isDelayActive()) { setRelay(false); publishStatus(); }
DelayExpires ==
    /\ pc = "expiry"
    /\ delayActive /\ ~DelayRunning
    /\ pc' = "schedule"
    /\ CheckDelay
    /\ SetRelay(FALSE, "expiry")
    /\ Report(FALSE, FALSE)
    /\ UNCHANGED <<env, sched, timeSynced, net, otaPending, minutePhase>>

NotExpired ==
    /\ pc = "expiry"
    /\ delayActive => DelayRunning
    /\ pc' = "schedule"
    /\ UNCHANGED <<env, timer, relay, sched, timeSynced, net, otaPending,
                   reported, minutePhase>>

\* Mutant: the schedule waits for the broker.
BlockedOffline ==
    DelayRunning \/ ~timeSynced \/ schedule = NoEntries \/ minuteDone \/ ~mqtt

\* runLocalSchedule() returns early.
ScheduleBlocked ==
    DelayRunning \/ ~timeSynced \/ schedule = NoEntries \/ minuteDone

ScheduleIdle ==
    /\ pc = "schedule"
    /\ ScheduleBlocked
    /\ pc' = "telemetry"
    /\ CheckDelay
    /\ UNCHANGED <<env, relay, sched, timeSynced, net, otaPending, reported,
                   minutePhase>>

\* Mutant: lastExecMinuteKey is not updated.
MinuteNotMarked == UNCHANGED minuteDone

\* lastExecMinuteKey = globalMinuteKey
MarkMinute == minuteDone' = TRUE

\* runLocalSchedule() in a minute it has not run yet.
RunSchedule ==
    /\ pc = "schedule"
    /\ ~ScheduleBlocked
    /\ pc' = "telemetry"
    /\ CheckDelay
    /\ MarkMinute
    /\ minutePhase' = IF minutePhase = "fresh" THEN "ran" ELSE minutePhase
    /\ LET due == Due[schedule][minute] IN
          \/ due = "none" /\ UNCHANGED <<relay, reported>>
          \/ due # "none" /\ SetRelay(due = "on", "schedule")
                          /\ Report(due = "on", FALSE)
    /\ UNCHANGED <<env, schedule, timeSynced, net, otaPending>>

\* publishTelemetry(): not yet due, or every 30 seconds.
NoTelemetry ==
    /\ pc = "telemetry"
    /\ pc' = "button"
    /\ UNCHANGED <<env, timer, relay, sched, timeSynced, net, otaPending,
                   reported, minutePhase>>

Telemetry ==
    /\ pc = "telemetry"
    /\ pc' = "button"
    /\ CheckDelay
    /\ Report(relayOn, DelayRunning)
    /\ UNCHANGED <<env, relay, sched, timeSynced, net, otaPending, minutePhase>>

--------------------------------------------------------------------------------
(* Power cut while saveState() rewrites the file it has just truncated *)

\* The step about to run calls saveState().
AboutToSave ==
    \/ pc = "button"
    \/ pc = "command" /\ mqtt
    \/ pc = "expiry" /\ delayActive /\ ~DelayRunning
    \/ /\ pc = "schedule" /\ ~ScheduleBlocked
       /\ Due[schedule][minute] # "none"

TornSave ==
    /\ AboutToSave
    /\ restarts < MaxRestarts
    /\ restarts' = restarts + 1
    /\ flash' = Unreadable
    /\ Reset
    /\ UNCHANGED <<stored, profileSet>>

--------------------------------------------------------------------------------
(* Clock and network *)

\* millis() approaches delayEndAtMs, and stays past it.
CountDown == IF delayLeft > 0 THEN delayLeft - 1 ELSE 0

Tick ==
    /\ minute' = (minute + 1) % Minutes
    /\ minuteDone' = FALSE
    /\ minutePhase' = "fresh"
    /\ delayLeft' = CountDown
    /\ UNCHANGED <<pc, delayActive, relay, schedule, timeSynced, link, net,
                   otaPending, profileSet, reported, restarts>>

NtpAnswer ==
    /\ Running /\ link
    /\ timeSynced' = TRUE
    /\ UNCHANGED <<pc, env, timer, relay, sched, net, otaPending, reported,
                   minutePhase>>

LinkUp ==
    /\ link' = TRUE
    /\ UNCHANGED <<pc, minute, restarts, profileSet, timer, relay, sched,
                   timeSynced, net, otaPending, reported, minutePhase>>

\* Wi-Fi or broker lost, and the session with it; the module may not know yet.
LinkDown ==
    /\ link' = FALSE
    /\ session' = FALSE
    /\ UNCHANGED <<pc, minute, restarts, profileSet, timer, relay, sched,
                   timeSynced, mqtt, otaPending, reported, minutePhase>>

\* A dead session is noticed by the Wi-Fi, a failing write or the missing answer
\* to a keepalive, 60 s later at most.
NoticeDown ==
    /\ mqtt /\ ~session
    /\ mqtt' = FALSE
    /\ UNCHANGED <<pc, env, timer, relay, sched, timeSynced, session, otaPending,
                   reported, minutePhase>>

--------------------------------------------------------------------------------
Command == RelayRefused \/ RelayCommand \/ DelayStart \/ DelayCancel
              \/ ScheduleCommand \/ UpgradeCommand

\* What the module does on its own: every stage, with or without input.
Loop ==
    \/ ButtonIdle \/ ButtonPressed \/ NoConnect \/ Connect \/ NoCommand
    \/ Command \/ NoUpdate \/ BeginUpdate \/ UpdateDone \/ UpdateFailed
    \/ DelayExpires \/ NotExpired \/ ScheduleIdle \/ RunSchedule
    \/ NoTelemetry \/ Telemetry

Boot == StartRuntime \/ PortalClient \/ PortalSubmit \/ PortalRestart

Power == PowerCycle \/ TornSave

Environment == Tick \/ NtpAnswer \/ LinkUp \/ LinkDown \/ NoticeDown

Next == Loop \/ Boot \/ Power \/ Environment

Spec == Init /\ [][Next]_vars

\* loop() is called again and again by the core, the boot window ends, time
\* passes, and SNTP is answered if the network keeps coming back.  Nothing is
\* assumed of users, power or network.
Fairness ==
    /\ WF_vars(Loop)
    /\ WF_vars(StartRuntime)
    /\ WF_vars(Tick)
    /\ SF_vars(NtpAnswer)

FairSpec == Spec /\ Fairness

--------------------------------------------------------------------------------
(* Properties *)

\* A delay is never flagged on a relay that is off: command, schedule, button,
\* expiry and restart all keep the flag and the pin together (ino:158-173).
DelayHoldsRelay == delayActive => relayOn

\* Unless a save, or the load at power-on, failed since the last change, the state
\* file restores what the module is doing, so that a power cut between two stages
\* changes nothing: every writer of the relay or of the schedule also saves, with
\* what the file has to hold then (ino:187-221, 439-489).
FlashRestoresState ==
    Running /\ stored => Loaded(flash) = [relay |-> relayOn, schedule |-> schedule]

\* As long as the broker gets what is published it holds the true relay state:
\* whatever switched the relay, on line, before the connection came up or while
\* the module believed in a dead session, is reported.
BrokerKnowsRelay == session => reported.relay = relayOn

\* In the portal nothing is connected and nothing is timed; there is no session
\* the module does not know of.
PortalIsQuiet == (~Running => ~delayActive /\ ~mqtt) /\ (session => mqtt)

\* The inductive invariant behind the three above.
IInv == PortalIsQuiet /\ DelayHoldsRelay /\ FlashRestoresState /\ BrokerKnowsRelay

\* Once the entries of a minute have run and a user has switched the relay, the
\* schedule does not fight back in that minute unless it is replaced or the
\* module restarts (lastExecMinuteKey, ino:825-828).
ScheduleYieldsToUser ==
    [][minutePhase = "chosen" /\ relayOn' # relayOn => setter' # "schedule"]_vars

\* "Delay mode has top priority over normal switch/schedule actions": the
\* firmware implements RelayPriority.
Priority == INSTANCE RelayPriority WITH on <- relayOn,
                                        held <- delayActive /\ delayLeft > 0
DelayHasPriority == Priority!Spec

\* The user starts a new delay again and again.
KeepsDelaying == []<><<DelayStart>>_vars

\* A countdown ends: unless the user goes on starting delays, none stays flagged
\* for ever, whatever the network does and even if the loop blocks in an update.
DelayEnds == KeepsDelaying \/ (delayActive ~> ~delayActive)

\* A module that has the time keeps executing its schedule with no network: the
\* entries of the minute that loop() finds are looked up.  (A minute that passes
\* while loop() blocks in a download or a connection attempt is skipped.)
ScheduleNeedsNoNetwork ==
    (Running /\ timeSynced /\ schedule # NoEntries)
        ~> (minuteDone \/ delayActive \/ ~timeSynced \/ schedule = NoEntries)

\* README_MANUAL_zh_en_th.md:111, "`Delay` turns ON with countdown": a relay
\* that a delay switched on is switched off (or taken over) in the end.
DelayReleasesRelay ==
    \/ KeepsDelaying
    \/ (relayOn /\ setter = "delay") ~> ~(relayOn /\ setter = "delay")

================================================================================
