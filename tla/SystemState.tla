----------------------------- MODULE SystemState -----------------------------
(***************************************************************************)
(* The work mode of the unit: the state machine of main/States.cpp, the    *)
(* configuration requests it makes (GnssConfig) and the tasks that drive   *)
(* them.  The main task repeats HAL_Update: stateUpdate, if more than      *)
(* 500 ms have passed since it last ran, then gnssUpdate.  The Bluetooth   *)
(* read task handles the app's work mode command: it writes the settings,  *)
(* then asks for a state with two plain stores that the main task reads    *)
(* without a lock.                                                         *)
(*                                                                         *)
(* STATE_BASE_CASTER_NOT_STARTED, STATE_BASE_ASSIST_NOT_STARTED,           *)
(* STATE_PROFILE and STATE_SHUTDOWN are entered by no code of the          *)
(* repository and are left out, as is NTP, which no build enables.         *)
(***************************************************************************)
EXTENDS GnssConfig

CONSTANTS SurveyLimit,  (* ticks after which a survey is given up (900 s)   *)
          MaxAsked      (* bound: commands from the app in one behaviour    *)

ASSUME SystemStateAssumption ==
    /\ SurveyLimit \in Nat
    /\ MaxAsked \in Nat

States == {"NOT_SET"} \union RoverStates \union BaseStates \union WebConfigStates
RtkModes == {"ROVER", "BASE_UNDECIDED", "BASE_SURVEY_IN", "BASE_FIXED", "WEB_CONFIG"}

(* A tick beyond both limits changes nothing any more.                      *)
AgeCap == (IF SurveyLimit > ObservationSeconds THEN SurveyLimit ELSE ObservationSeconds) + 1

VARIABLES
    online,                   (* online_devices.gnss, set once by gnssBegin *)
    main,                     (* where the main task is in HAL_Update       *)
    requestedSystemState,     (* requestedSystemState                       *)
    newSystemStateRequested,  (* newSystemStateRequested                    *)
    rtkMode,                  (* RTK_MODE                                   *)
    bluetooth,                (* the app can reach the unit                 *)
    bt,                       (* where the Bluetooth read task is           *)
    btState,                  (* the state it is asking for                 *)
    asked                     (* number of commands the app has sent        *)

mailbox == <<requestedSystemState, newSystemStateRequested>>
app == <<bt, btState, asked>>
vars == <<gnss, settings, systemState, online, main, mailbox, rtkMode, bluetooth, app>>

Init ==
    /\ GnssInit
    /\ systemState = "NOT_SET"
    /\ online \in BOOLEAN
    /\ main = "state"
    /\ requestedSystemState = "NOT_SET"
    /\ newSystemStateRequested = FALSE
    /\ rtkMode = "ROVER"
    /\ bluetooth = TRUE
    /\ bt = "idle" /\ btState = "NOT_SET" /\ asked = 0

-----------------------------------------------------------------------------
(* stateUpdate.                                                             *)

gnssConfigure(bit) == gnssConfigureRequest' = gnssConfigureRequest \union {bit}
changeState(state) == systemState' = state

(* It looks at the mailbox first: the flag is read and cleared, then the    *)
(* requested state is read; the read task may write both in between.        *)
StateUpdateBegin ==
    /\ main = "state"
    /\ main' = IF newSystemStateRequested THEN "take" ELSE "switch"
    /\ newSystemStateRequested' = FALSE
    /\ UNCHANGED <<gnss, settings, systemState, online, requestedSystemState, rtkMode,
                   bluetooth, app>>

TakeRequest ==
    /\ main = "take"
    /\ changeState(requestedSystemState)
    /\ main' = "switch"
    /\ UNCHANGED <<gnss, settings, online, mailbox, rtkMode, bluetooth, app>>

(* Less than 500 ms since the last time: stateUpdate does nothing.          *)
StateUpdateSkipped ==
    /\ main = "state"
    /\ main' = "gnss"
    /\ UNCHANGED <<gnss, settings, systemState, online, mailbox, rtkMode, bluetooth, app>>

(* What one case of the switch leaves alone.                                *)
SwitchFrame == UNCHANGED <<turn, driver, saved, settings, online, mailbox, app>>
KeepReceiver == UNCHANGED <<receiver, observed>>

NotSet ==
    /\ systemState = "NOT_SET"
    /\ gnssConfigure("ONCE")
    /\ changeState("ROVER_NOT_STARTED")
    /\ KeepReceiver /\ UNCHANGED <<rtkMode, bluetooth>>

RoverNotStarted ==
    /\ systemState = "ROVER_NOT_STARTED"
    /\ rtkMode' = "ROVER"
    /\ gnssConfigure("ROVER")
    /\ changeState(IF online THEN "ROVER_CONFIG_WAIT" ELSE "ROVER_NO_FIX")
    /\ KeepReceiver /\ UNCHANGED bluetooth

RoverConfigWait ==
    /\ systemState = "ROVER_CONFIG_WAIT"
    /\ changeState(IF gnssConfigureComplete THEN "ROVER_NO_FIX" ELSE systemState)
    /\ KeepReceiver /\ UNCHANGED <<gnssConfigureRequest, rtkMode, bluetooth>>

(* The four states of a working rover follow the fix the receiver reports.  *)
RoverFollowsFix ==
    /\ systemState \in {"ROVER_NO_FIX", "ROVER_FIX", "ROVER_RTK_FLOAT", "ROVER_RTK_FIX"}
    /\ \E fix \in IF online THEN {"none", "fix", "float", "rtk"} ELSE {"none"} :
         changeState(
           CASE fix = "none" -> "ROVER_NO_FIX"
             [] fix # "none" /\ systemState = "ROVER_NO_FIX" -> "ROVER_FIX"
             [] fix = "fix" /\ systemState # "ROVER_NO_FIX" -> "ROVER_FIX"
             [] fix = "float" /\ systemState # "ROVER_NO_FIX" -> "ROVER_RTK_FLOAT"
             [] fix = "rtk" /\ systemState # "ROVER_NO_FIX" -> "ROVER_RTK_FIX")
    /\ KeepReceiver /\ UNCHANGED <<gnssConfigureRequest, rtkMode, bluetooth>>

BaseNotStarted ==
    /\ systemState = "BASE_NOT_STARTED"
    /\ rtkMode' = "BASE_UNDECIDED"
    /\ IF online
         THEN gnssConfigure("BASE") /\ changeState("BASE_CONFIG_WAIT")
         ELSE UNCHANGED <<gnssConfigureRequest, systemState>>
    /\ KeepReceiver /\ UNCHANGED bluetooth

BaseConfigWait ==
    /\ systemState = "BASE_CONFIG_WAIT"
    /\ \/ ~gnssConfigureComplete /\ UNCHANGED <<gnssConfigureRequest, systemState, rtkMode>>
       \/ /\ gnssConfigureComplete /\ ~fixedBase
          /\ changeState("BASE_TEMP_SETTLE")
          /\ rtkMode' = "BASE_SURVEY_IN"
          /\ UNCHANGED gnssConfigureRequest
       \/ /\ gnssConfigureComplete /\ fixedBase
          /\ gnssConfigure("BASE_FIXED")
          /\ changeState("BASE_FIXED_NOT_STARTED")
          /\ rtkMode' = "BASE_FIXED"
    /\ KeepReceiver /\ UNCHANGED bluetooth

(* Wait for the horizontal accuracy to get below surveyInStartingAccuracy.  *)
BaseTempSettle ==
    /\ systemState = "BASE_TEMP_SETTLE"
    /\ \E accurate \in BOOLEAN :
         IF accurate
           THEN gnssConfigure("BASE_SURVEY") /\ changeState("BASE_TEMP_SURVEY_STARTED")
           ELSE UNCHANGED <<gnssConfigureRequest, systemState>>
    /\ KeepReceiver /\ UNCHANGED <<rtkMode, bluetooth>>

isSurveyInComplete == surveyAge > ObservationSeconds

(* surveyInReset, tried up to three times, puts the receiver into rover mode. *)
SurveyInReset ==
    \E outcome \in Outcomes : ModeCommand(Executed(outcome), "rover", NoPosition)

BaseTempSurveyStarted ==
    /\ systemState = "BASE_TEMP_SURVEY_STARTED"
    /\ \/ /\ isSurveyInComplete
          /\ rtkMode' = "BASE_FIXED"
          /\ changeState("BASE_TEMP_TRANSMITTING")
          /\ KeepReceiver
       \/ /\ ~isSurveyInComplete /\ surveyAge > SurveyLimit
          /\ SurveyInReset
          /\ changeState("ROVER_NOT_STARTED")
          /\ UNCHANGED rtkMode
       \/ /\ ~isSurveyInComplete /\ surveyAge <= SurveyLimit
          /\ KeepReceiver /\ UNCHANGED <<systemState, rtkMode>>
    /\ UNCHANGED <<gnssConfigureRequest, bluetooth>>

BaseFixedNotStarted ==
    /\ systemState = "BASE_FIXED_NOT_STARTED"
    /\ changeState(IF gnssConfigureComplete THEN "BASE_FIXED_TRANSMITTING" ELSE systemState)
    /\ KeepReceiver /\ UNCHANGED <<gnssConfigureRequest, rtkMode, bluetooth>>

(* bluetoothEnd, then webServerStart.                                       *)
WebConfigNotStarted ==
    /\ systemState = "WEB_CONFIG_NOT_STARTED"
    /\ bluetooth' = FALSE
    /\ rtkMode' = "WEB_CONFIG"
    /\ changeState("WEB_CONFIG_WAIT_FOR_NETWORK")
    /\ KeepReceiver /\ UNCHANGED gnssConfigureRequest

WebConfigWaitForNetwork ==
    /\ systemState = "WEB_CONFIG_WAIT_FOR_NETWORK"
    /\ changeState("WEB_CONFIG")
    /\ KeepReceiver /\ UNCHANGED <<gnssConfigureRequest, rtkMode, bluetooth>>

(* States with nothing to do.                                               *)
Rest ==
    /\ systemState \in {"BASE_TEMP_TRANSMITTING", "BASE_FIXED_TRANSMITTING", "WEB_CONFIG"}
    /\ KeepReceiver /\ UNCHANGED <<gnssConfigureRequest, systemState, rtkMode, bluetooth>>

StateSwitch ==
    /\ main = "switch"
    /\ \/ NotSet \/ RoverNotStarted \/ RoverConfigWait \/ RoverFollowsFix
       \/ BaseNotStarted \/ BaseConfigWait \/ BaseTempSettle \/ BaseTempSurveyStarted
       \/ BaseFixedNotStarted \/ WebConfigNotStarted \/ WebConfigWaitForNetwork \/ Rest
    /\ main' = "gnss"
    /\ SwitchFrame

-----------------------------------------------------------------------------
(* gnssUpdate, called next: it returns at once if the receiver is offline,  *)
(* if nothing is requested, or in web config mode.                          *)

GnssUpdateBegin ==
    /\ main = "gnss"
    /\ IF online /\ ~gnssConfigureComplete /\ ~inWebConfigMode
         THEN main' = "pass" /\ turn' = 1
         ELSE main' = "state" /\ UNCHANGED turn
    /\ UNCHANGED <<gnssConfigureRequest, driver, receiver, saved, observed, settings, systemState,
                   online, mailbox, rtkMode, bluetooth, app>>

GnssUpdateService ==
    /\ main = "pass"
    /\ ServiceNext
    /\ UNCHANGED <<settings, systemState, online, main, mailbox, rtkMode, bluetooth, app>>

GnssUpdateEnd ==
    /\ main = "pass"
    /\ PassDone
    /\ main' = "state"
    /\ UNCHANGED <<settings, systemState, online, mailbox, rtkMode, bluetooth, app>>

-----------------------------------------------------------------------------
(* The Bluetooth read task, and the clock.                                  *)

(* bluetoothUpdate reports a connection only after the first stateUpdate.   *)
MayAsk == bt = "idle" /\ bluetooth /\ systemState # "NOT_SET" /\ asked < MaxAsked

(* handleWorkMode, accepted: base at a known point (with its position),     *)
(* base by survey, or rover.                                                *)
WorkMode ==
    /\ MayAsk
    /\ \/ \E p \in Positions :
            fixedBase' = TRUE /\ fixedPosition' = p /\ btState' = "BASE_NOT_STARTED"
       \/ \E state \in {"BASE_NOT_STARTED", "ROVER_NOT_STARTED"} :
            fixedBase' = FALSE /\ UNCHANGED fixedPosition /\ btState' = state
    /\ bt' = "asking"
    /\ asked' = asked + 1
    /\ UNCHANGED <<gnss, systemState, online, main, mailbox, rtkMode, bluetooth>>

(* handleWifiControl, accepted.                                             *)
WifiControl ==
    /\ MayAsk
    /\ btState' = "WEB_CONFIG_NOT_STARTED"
    /\ bt' = "asking"
    /\ asked' = asked + 1
    /\ UNCHANGED <<gnss, settings, systemState, online, main, mailbox, rtkMode, bluetooth>>

StoreState(at, next) ==
    /\ bt = at /\ bt' = next
    /\ requestedSystemState' = btState
    /\ UNCHANGED newSystemStateRequested

StoreFlag(at, next) ==
    /\ bt = at /\ bt' = next
    /\ newSystemStateRequested' = TRUE
    /\ UNCHANGED requestedSystemState

(* Slip: the flag is raised before the state is there.                      *)
RequestFlagFirst ==
    /\ StoreFlag("asking", "half asked") \/ StoreState("half asked", "idle")
    /\ UNCHANGED <<gnss, settings, systemState, online, main, rtkMode, bluetooth, btState,
                   asked>>

(* First the state, then the flag.                                          *)
requestChangeState ==
    /\ StoreState("asking", "half asked") \/ StoreFlag("half asked", "idle")
    /\ UNCHANGED <<gnss, settings, systemState, online, main, rtkMode, bluetooth, btState,
                   asked>>

OneMore(n, cap) == IF n < cap THEN n + 1 ELSE n

Tick ==
    /\ surveyAge' = OneMore(surveyAge, AgeCap)
    /\ observed' = IF HoldsSurvey
                     THEN OneMore(observed, ObservationSeconds + 1) ELSE observed
    /\ UNCHANGED <<gnssConfigureRequest, turn, model, firstTime, rtcmEnabled, misled, receiver,
                   saved, settings, systemState, online, main, mailbox, rtkMode, bluetooth, app>>

(* The receiver by itself.                                                  *)
ReceiverSettles ==
    /\ SurveyEnds
    /\ UNCHANGED <<settings, systemState, online, main, mailbox, rtkMode, bluetooth, app>>

-----------------------------------------------------------------------------
StateUpdate == StateUpdateBegin \/ TakeRequest \/ StateSwitch
GnssUpdate == GnssUpdateBegin \/ GnssUpdateService \/ GnssUpdateEnd
ReadTask == WorkMode \/ WifiControl \/ requestChangeState

Next == StateUpdate \/ StateUpdateSkipped \/ GnssUpdate \/ ReadTask \/ Tick \/ ReceiverSettles

(* The main loop goes on, and 500 ms pass again and again; the read task    *)
(* finishes what it began; time passes.  Nothing obliges the app to ask.    *)
Fairness ==
    /\ WF_vars(StateUpdate \/ StateUpdateSkipped \/ GnssUpdate)
    /\ SF_vars(StateUpdateBegin)
    /\ WF_vars(requestChangeState)
    /\ WF_vars(Tick)

Spec == Init /\ [][Next]_vars /\ Fairness

(* On top of that the receiver sooner or later does what it is asked over   *)
(* and over: setting up NMEA does not fail for ever, nor does everything    *)
(* else that is requested.                                                  *)
Succeeds(bits) ==
    \E bit \in bits : /\ bit \in gnssConfigureRequest
                     /\ GnssUpdateService
                     /\ bit \notin gnssConfigureRequest'

RetrySpec == Spec /\ SF_vars(Succeeds({"NMEA"})) /\ SF_vars(Succeeds(Bits \ {"NMEA"}))

-----------------------------------------------------------------------------
(* Every variable keeps its range.                                          *)
TypeOK ==
    /\ gnssConfigureRequest \subseteq Bits
    /\ turn \in 0 .. Len(Order) + 1
    /\ model \in Modes
    /\ firstTime \in BOOLEAN /\ misled \in BOOLEAN
    /\ surveyAge \in 0 .. AgeCap
    /\ rtcmEnabled \subseteq Groups
    /\ fixedBase \in BOOLEAN /\ fixedPosition \in Positions
    /\ receiver \in Configurations /\ saved \in Configurations
    /\ observed \in 0 .. ObservationSeconds + 1
    /\ systemState \in States /\ requestedSystemState \in States
    /\ online \in BOOLEAN /\ newSystemStateRequested \in BOOLEAN
    /\ bluetooth \in BOOLEAN
    /\ main \in {"state", "take", "switch", "gnss", "pass"}
    /\ rtkMode \in RtkModes
    /\ bt \in {"idle", "asking", "half asked"} /\ btState \in States
    /\ asked \in 0 .. MaxAsked

WorkingRover == systemState \in {"ROVER_NO_FIX", "ROVER_FIX", "ROVER_RTK_FLOAT", "ROVER_RTK_FIX"}
Transmitting == systemState \in {"BASE_TEMP_TRANSMITTING", "BASE_FIXED_TRANSMITTING"}

(* Nothing is left to configure, and no command of the app is on its way.   *)
(* (Its settings take effect before its request does: until the request is  *)
(* taken up the unit may run a mixture of the old mode and the new one.)    *)
Settled ==
    /\ online /\ gnssConfigureComplete
    /\ bt = "idle" /\ ~newSystemStateRequested /\ main # "take"

(* What the unit shows is what the receiver does: when all is settled, a    *)
(* working rover's receiver is a rover ("Rover configured"),                *)
RoverConfigured == Settled /\ WorkingRover => receiver.mode = "rover"

(* a unit that transmits as a fixed base runs a receiver in that mode,      *)
(* however often _model was stale on the way - except after the one step    *)
(* that misleads the driver for good: the first base asked for while the    *)
(* receiver still ran that kind of base from before it was powered up.      *)
FixedBaseRuns ==
    Settled /\ systemState = "BASE_FIXED_TRANSMITTING" => receiver.mode = "fixed" \/ misled

(* With that exception, a unit that announced "Base survey complete!" runs  *)
(* a receiver that began its survey more than observationSeconds ago, and   *)
(* that still surveys or is a fixed base at the position it found.          *)
SurveyRan ==
    Settled /\ systemState = "BASE_TEMP_TRANSMITTING" =>
        (HoldsSurvey /\ observed > ObservationSeconds) \/ misled

(* A fixed base transmits the position the app gave last.  The code does    *)
(* not keep it: a running base is not given a new position.                 *)
PositionApplied ==
    Settled /\ systemState = "BASE_FIXED_TRANSMITTING" => receiver.position = fixedPosition

(* The message groups follow the mode although each NMEA setup switches all *)
(* of them off: NMEA is on, a transmitting base puts out base corrections,  *)
(* a rover does not.                                                        *)
OutputAsShown ==
    /\ Settled /\ (WorkingRover \/ Transmitting) => "nmea" \in receiver.output
    /\ Settled /\ Transmitting => "rtcm_base" \in receiver.output
    /\ Settled /\ WorkingRover => "rtcm_base" \notin receiver.output

(* The states that a configuration is still to begin in, or that have none. *)
Unconfigured == {"NOT_SET", "ROVER_NOT_STARTED", "BASE_NOT_STARTED"} \union WebConfigStates

(* When nothing is left to configure the receiver has saved what it runs: a *)
(* power cycle changes nothing it was told, whatever failed on the way.  (A *)
(* survey that is given up puts it in rover mode unsaved: the configuration *)
(* that begins next saves.  Web configuration begins none.)                 *)
ConfigurationSaved ==
    /\ TypeOK
    /\ online /\ gnssConfigureComplete /\ systemState \notin Unconfigured =>
          saved = Told(receiver)

(* No command of the app is lost between the two tasks, and the last one    *)
(* wins: the unit ends up, and stays, in the mode asked for last.  (A base  *)
(* whose survey is given up ends up as a rover.)                            *)
LastRequestWins ==
    <>[](/\ btState = "ROVER_NOT_STARTED" => systemState \in RoverStates
         /\ btState = "WEB_CONFIG_NOT_STARTED" => systemState \in WebConfigStates
         /\ btState = "BASE_NOT_STARTED" =>
              systemState \in BaseStates \union
                             (IF ObservationSeconds > SurveyLimit THEN RoverStates ELSE {}))

(* Bits that ask for each other, and bits set behind the pass that services *)
(* them, never keep the unit waiting for the end of the configuration.      *)
Waiting == systemState \in {"ROVER_CONFIG_WAIT", "BASE_CONFIG_WAIT", "BASE_FIXED_NOT_STARTED"}
ConfigurationCompletes == Waiting ~> ~Waiting

-----------------------------------------------------------------------------
(* What makes ConfigurationSaved inductive: the app asks only for states    *)
(* that begin a configuration, or have none.                                *)
RequestsBegin == requestedSystemState \in Unconfigured /\ btState \in Unconfigured

IInv == ConfigurationSaved /\ RequestsBegin

(* What makes the four facts about a settled unit inductive, for a receiver *)
(* that does what it is told, whatever it powers up as.  A bit is set only  *)
(* in the states that begin or follow its configuration,                    *)
Asked(bit) == bit \in gnssConfigureRequest

RoverShown == WorkingRover \/ systemState = "ROVER_CONFIG_WAIT"
BaseConfigured ==
    systemState \in {"BASE_TEMP_SETTLE", "BASE_TEMP_SURVEY_STARTED", "BASE_TEMP_TRANSMITTING",
                     "BASE_FIXED_NOT_STARTED", "BASE_FIXED_TRANSMITTING"}

BitsBelong ==
    /\ Asked("ONCE") => systemState = "ROVER_NOT_STARTED"
    /\ Asked("MODEL") => ~BaseConfigured
    /\ Asked("ROVER") \/ Asked("RTCM_ROVER") => systemState = "ROVER_CONFIG_WAIT"
    /\ Asked("BASE") \/ Asked("RTCM_BASE") => systemState = "BASE_CONFIG_WAIT"
    /\ Asked("NMEA") => systemState \in {"ROVER_CONFIG_WAIT", "BASE_CONFIG_WAIT"}
    /\ Asked("BASE_SURVEY") => systemState = "BASE_TEMP_SURVEY_STARTED"
    /\ Asked("BASE_FIXED") => systemState = "BASE_FIXED_NOT_STARTED"

(* and serviced in the pass that follows: only MODEL, which is asked for    *)
(* behind its turn, is left for the next one, to come before ROVER or BASE. *)
BitsInTurn ==
    /\ main \in {"state", "take", "switch"} => gnssConfigureRequest \subseteq {"MODEL"}
    /\ Asked("SAVE") => main = "pass"
    /\ main = "pass" =>
          \A i \in DOMAIN Order : i < turn /\ Asked(Order[i]) => Order[i] = "MODEL"
    /\ main = "pass" /\ Asked("MODEL") /\ (Asked("ROVER") \/ Asked("BASE")) => turn <= 2

(* No state of a base comes before the first configureBase.                 *)
FirstBase ==
    /\ firstTime => ~BaseConfigured
    /\ firstTime /\ systemState = "BASE_CONFIG_WAIT" => Asked("BASE")

(* The receiver's survey began no later than the observation timer.         *)
SurveyTimed ==
    HoldsSurvey => surveyAge <= observed \/ observed > ObservationSeconds

(* A rover's receiver is one, or will be made one.                          *)
RoverMode == RoverShown => receiver.mode = "rover" \/ Asked("MODEL") \/ Asked("ROVER")

(* While no command of the app is on its way, a base has its mode, or the   *)
(* driver's belief will not keep it from being given that mode.             *)
Pending == bt # "idle" \/ newSystemStateRequested \/ main = "take"
Wanted == IF fixedBase THEN "fixed" ELSE "survey"

Runs(wanted) == IF wanted = "survey" THEN HoldsSurvey ELSE receiver.mode = wanted

BaseMode ==
    ~Pending /\ ~misled =>
    /\ systemState = "BASE_CONFIG_WAIT" =>
          Asked("BASE") \/ (model = Wanted => Runs(Wanted) /\ ~Asked("MODEL"))
    /\ systemState = "BASE_TEMP_SETTLE" => (model = "survey" => HoldsSurvey)
    /\ systemState = "BASE_TEMP_SURVEY_STARTED" =>
          HoldsSurvey \/ (Asked("BASE_SURVEY") /\ model # "survey")
    /\ systemState = "BASE_TEMP_TRANSMITTING" =>
          HoldsSurvey /\ observed > ObservationSeconds
    /\ systemState = "BASE_FIXED_NOT_STARTED" =>
          receiver.mode = "fixed" \/ (Asked("BASE_FIXED") /\ model # "fixed")
    /\ systemState = "BASE_FIXED_TRANSMITTING" => receiver.mode = "fixed"

(* A unit that is or was a base is known to put out RTCM messages, so that  *)
(* they are asked for again whenever NMEA is set up.                        *)
RtcmKnown == firstTime \/ rtcmEnabled # {} \/ Asked("RTCM_BASE") \/ Asked("RTCM_ROVER")

RoverOutput ==
    RoverShown => \/ Asked("ROVER") \/ Asked("NMEA")
                  \/ "nmea" \in receiver.output /\ "rtcm_base" \notin receiver.output

BaseOutput ==
    (systemState = "BASE_CONFIG_WAIT" \/ BaseConfigured) /\ ~Asked("BASE") =>
      /\ Asked("NMEA") \/ "nmea" \in receiver.output
      /\ \/ Asked("RTCM_BASE")
         \/ rtcmEnabled # {} /\ (Asked("NMEA") \/ "rtcm_base" \in receiver.output)

ReceiverFollows ==
    /\ BitsBelong /\ BitsInTurn
    /\ FirstBase /\ SurveyTimed /\ RoverMode /\ BaseMode
    /\ RtcmKnown /\ RoverOutput /\ BaseOutput

SoundInv == online => ReceiverFollows
==============================================================================
