-------------------------- MODULE SystemStateProofs ------------------------
(***************************************************************************)
(* What SystemState says of what the receiver has saved, for any number of *)
(* commands of the app, any positions, boot modes and lengths of a survey; *)
(* and, for a receiver that does what it is told, whatever it powers up    *)
(* as, that it follows what the unit shows.                                *)
(***************************************************************************)
EXTENDS SystemState, TLAPS

(* The requests, spelled out.                                               *)
LEMMA BitsAre ==
    /\ DOMAIN Order = 1 .. 10 /\ Len(Order) = 10
    /\ Bits = {"ONCE", "MODEL", "ROVER", "BASE", "BASE_SURVEY", "BASE_FIXED",
               "NMEA", "RTCM_ROVER", "RTCM_BASE", "SAVE"}
  <1>1. /\ DOMAIN Order = 1 .. 10 /\ Len(Order) = 10
        /\ Order[1] = "ONCE" /\ Order[2] = "MODEL" /\ Order[3] = "ROVER" /\ Order[4] = "BASE"
        /\ Order[5] = "BASE_SURVEY" /\ Order[6] = "BASE_FIXED" /\ Order[7] = "NMEA"
        /\ Order[8] = "RTCM_ROVER" /\ Order[9] = "RTCM_BASE" /\ Order[10] = "SAVE"
    BY DEF Order
  <1>2. 1 .. 10 = {1, 2, 3, 4, 5, 6, 7, 8, 9, 10}
    OBVIOUS
  <1> QED BY <1>1, <1>2 DEF Bits

(* The part of the types that belongs to the receiver and its driver.       *)
DriverTypes ==
    /\ gnssConfigureRequest \subseteq Bits
    /\ model \in Modes
    /\ firstTime \in BOOLEAN /\ misled \in BOOLEAN
    /\ surveyAge \in 0 .. AgeCap
    /\ rtcmEnabled \subseteq Groups
    /\ receiver \in Configurations /\ saved \in Configurations
    /\ observed \in 0 .. ObservationSeconds + 1

(* Limits of the two clocks.                                                *)
LEMMA Limits ==
    /\ ObservationSeconds \in Nat /\ SurveyLimit \in Nat /\ AgeCap \in Nat
    /\ 0 \in 0 .. AgeCap /\ 0 \in 0 .. ObservationSeconds + 1
  BY GnssConfigAssumption, SystemStateAssumption DEF AgeCap

(* A mode and the position that goes with it in a command.                  *)
Matching(mode, position) ==
    \/ mode \in {"rover", "survey"} /\ position = NoPosition
    \/ mode = "fixed" /\ position \in Positions

(* The configurations a command leads to.                                   *)
LEMMA ConfigurationsClosed ==
    ASSUME NEW c \in Configurations
    PROVE  /\ c.mode \in Modes /\ c.output \subseteq Groups
           /\ \A mode, position : Matching(mode, position) =>
                 [c EXCEPT !.mode = mode, !.position = position] \in Configurations
           /\ \A groups \in SUBSET Groups : [c EXCEPT !.output = groups] \in Configurations
           /\ Told(c) \in Configurations
  <1>1. CASE c \in [mode : {"rover", "survey"}, position : {NoPosition}, output : SUBSET Groups]
    BY <1>1 DEF Configurations, Told, Matching, Modes, NoPosition, Surveyed
  <1>2. CASE c \in [mode : {"fixed"}, position : Positions \union {Surveyed},
                    output : SUBSET Groups]
    BY <1>2 DEF Configurations, Told, Matching, Modes, NoPosition, Surveyed
  <1> QED BY <1>1, <1>2 DEF Configurations

(* A survey that ended by itself is what the receiver was told to run.      *)
LEMMA ToldSurvey ==
    ASSUME NEW c \in Configurations, c.mode = "survey"
    PROVE  /\ [c EXCEPT !.mode = "fixed", !.position = Surveyed] \in Configurations
           /\ Told([c EXCEPT !.mode = "fixed", !.position = Surveyed]) = Told(c)
  <1> DEFINE d == [c EXCEPT !.mode = "fixed", !.position = Surveyed]
             e == [d EXCEPT !.mode = "survey", !.position = NoPosition]
  <1>1. c \in [mode : {"rover", "survey"}, position : {NoPosition}, output : SUBSET Groups]
    BY DEF Configurations
  <1>2. c.position = NoPosition /\ NoPosition # Surveyed
    BY <1>1 DEF NoPosition, Surveyed
  <1>3. d \in [mode : {"fixed"}, position : Positions \union {Surveyed}, output : SUBSET Groups]
    BY <1>1
  <1>4. e = c
    BY <1>1, <1>2
  <1>5. d.position = Surveyed
    BY <1>1
  <1> HIDE DEF d
  <1>6. Told(c) = c
    BY <1>2 DEF Told
  <1>7. Told(d) = c
    BY <1>4, <1>5 DEF Told
  <1> QED BY <1>3, <1>6, <1>7 DEF Configurations, d

(* A mode command leaves a configuration and an observation time.           *)
LEMMA ModeCommandTypes ==
    ASSUME DriverTypes, NEW executed, NEW mode, NEW position, Matching(mode, position),
           ModeCommand(executed, mode, position)
    PROVE  receiver' \in Configurations /\ observed' \in 0 .. ObservationSeconds + 1
  <1>1. receiver \in Configurations /\ observed \in 0 .. ObservationSeconds + 1
    BY DEF DriverTypes
  <1>2. [receiver EXCEPT !.mode = mode, !.position = position] \in Configurations
    BY <1>1, ConfigurationsClosed
  <1>3. CASE executed
    BY <1>2, <1>3, Limits DEF ModeCommand
  <1>4. CASE ~executed
    BY <1>1, <1>4 DEF ModeCommand
  <1> QED BY <1>3, <1>4

(* What is requested after a service stays among the requests.              *)
LEMMA FinishTypes ==
    ASSUME DriverTypes, NEW bit, NEW ok, NEW followUp \in SUBSET Bits,
           Finish(bit, ok, followUp) \/ Serviced(bit, followUp)
    PROVE  gnssConfigureRequest' \subseteq Bits
  BY DEF Finish, Serviced, DriverTypes

(* Every service keeps the types of the driver,                             *)
LEMMA ServiceTypes ==
    ASSUME DriverTypes, fixedPosition \in Positions, NEW bit, Service(bit)
    PROVE  DriverTypes'
  <1> USE DEF driver
  <1>1. CASE ConfigureOnce
    <2>1. {"SAVE"} \in SUBSET Bits
      BY BitsAre
    <2>2. gnssConfigureRequest' \subseteq Bits
      BY <1>1, <2>1, FinishTypes DEF ConfigureOnce
    <2>3. receiver' \in Configurations
      BY <1>1, ConfigurationsClosed DEF ConfigureOnce, WithOutput, DriverTypes
    <2>4. saved' \in {Told(receiver'), saved}
      BY <1>1 DEF ConfigureOnce
    <2>5. saved' \in Configurations
      BY <2>3, <2>4, ConfigurationsClosed DEF DriverTypes
    <2> QED BY <1>1, <2>2, <2>3, <2>5 DEF ConfigureOnce, DriverTypes
  <1>2. CASE SetModel
    <2>1. {"SAVE"} \in SUBSET Bits
      BY BitsAre
    <2>2. gnssConfigureRequest' \subseteq Bits
      BY <1>2, <2>1, FinishTypes DEF SetModel
    <2>3. receiver' \in Configurations /\ observed' \in 0 .. ObservationSeconds + 1
      BY <1>2, ModeCommandTypes DEF SetModel, Matching
    <2> QED BY <1>2, <2>2, <2>3 DEF SetModel, DriverTypes
  <1>3. CASE ConfigureRover
    <2>1. PICK outcome \in QueryOutcomes :
             /\ model' = ModelAfter(outcome)
             /\ Serviced("ROVER", {"NMEA", "SAVE"} \union
                             (IF ModelReturned(outcome) \in {"survey", "fixed"}
                                THEN {"MODEL", "RTCM_ROVER"} ELSE {}))
             /\ UNCHANGED <<firstTime, surveyAge, rtcmEnabled, misled, receiver, saved, observed>>
      BY <1>3 DEF ConfigureRover
    <2>2. gnssConfigureRequest' \subseteq Bits
      BY <2>1, BitsAre DEF Serviced, DriverTypes
    <2>3. model' \in Modes
      BY <2>1, ConfigurationsClosed DEF ModelAfter, DriverTypes
    <2> QED BY <2>1, <2>2, <2>3 DEF DriverTypes
  <1>4. CASE ConfigureBase
    <2>1. PICK outcome \in QueryOutcomes :
             /\ model' = ModelAfter(outcome)
             /\ firstTime' = FALSE
             /\ misled' = (firstTime /\ AlreadyBase(ModelSeen(outcome)))
             /\ Serviced("BASE", {"NMEA", "SAVE"} \union
                            (IF ~firstTime /\ AlreadyBase(ModelSeen(outcome))
                               THEN {} ELSE {"MODEL", "RTCM_BASE"}))
             /\ UNCHANGED <<surveyAge, rtcmEnabled, receiver, saved, observed>>
      BY <1>4 DEF ConfigureBase
    <2>2. gnssConfigureRequest' \subseteq Bits
      BY <2>1, BitsAre DEF Serviced, DriverTypes
    <2>3. model' \in Modes
      BY <2>1, ConfigurationsClosed DEF ModelAfter, DriverTypes
    <2> QED BY <2>1, <2>2, <2>3 DEF DriverTypes
  <1>5. CASE SurveyInStart
    <2>1. {"SAVE"} \in SUBSET Bits
      BY BitsAre
    <2>2. gnssConfigureRequest' \subseteq Bits
      BY <1>5, <2>1, FinishTypes DEF SurveyInStart
    <2>3. receiver' \in Configurations /\ observed' \in 0 .. ObservationSeconds + 1
      BY <1>5, ModeCommandTypes DEF SurveyInStart, Matching, DriverTypes
    <2>4. surveyAge' \in 0 .. AgeCap
      BY <1>5, Limits DEF SurveyInStart, DriverTypes
    <2> QED BY <1>5, <2>2, <2>3, <2>4 DEF SurveyInStart, DriverTypes
  <1>6. CASE FixedBaseStart
    <2>1. {"SAVE"} \in SUBSET Bits
      BY BitsAre
    <2>2. gnssConfigureRequest' \subseteq Bits
      BY <1>6, <2>1, FinishTypes DEF FixedBaseStart
    <2>3. receiver' \in Configurations /\ observed' \in 0 .. ObservationSeconds + 1
      BY <1>6, ModeCommandTypes DEF FixedBaseStart, Matching, DriverTypes
    <2> QED BY <1>6, <2>2, <2>3 DEF FixedBaseStart, DriverTypes
  <1>7. CASE SetMessagesNMEA
    <2>1. PICK off \in Outcomes, on \in Outcomes :
            LET left == IF Executed(off) THEN {} ELSE receiver.output IN
            /\ receiver' = WithOutput(IF Executed(on) THEN left \union {"nmea"} ELSE left)
            /\ rtcmEnabled' = {}
            /\ gnssConfigureRequest' =
                   (IF ReportedOk(on) THEN (gnssConfigureRequest \ {"NMEA"}) \union {"SAVE"}
                                      ELSE gnssConfigureRequest) \union RtcmAgain
            /\ UNCHANGED <<model, firstTime, surveyAge, misled, saved, observed>>
      BY <1>7 DEF SetMessagesNMEA
    <2>2. gnssConfigureRequest' \subseteq Bits
      BY <2>1, BitsAre DEF RtcmAgain, DriverTypes
    <2>3. receiver' \in Configurations
      BY <2>1, ConfigurationsClosed DEF WithOutput, Groups, DriverTypes
    <2> QED BY <2>1, <2>2, <2>3 DEF DriverTypes
  <1>8. ASSUME NEW group \in Groups, SetMessagesRTCM(bit, group)
        PROVE  DriverTypes'
    <2>1. {"SAVE"} \in SUBSET Bits
      BY BitsAre
    <2>2. gnssConfigureRequest' \subseteq Bits
      BY <1>8, <2>1, FinishTypes DEF SetMessagesRTCM
    <2>3. receiver' \in Configurations /\ rtcmEnabled' \subseteq Groups
      BY <1>8, ConfigurationsClosed DEF SetMessagesRTCM, WithOutput, DriverTypes
    <2> QED BY <1>8, <2>2, <2>3 DEF SetMessagesRTCM, DriverTypes
  <1>9. CASE SaveConfiguration
    <2>1. gnssConfigureRequest' \subseteq Bits
      BY <1>9, FinishTypes DEF SaveConfiguration
    <2>2. saved' \in Configurations
      BY <1>9, ConfigurationsClosed DEF SaveConfiguration, DriverTypes
    <2> QED BY <1>9, <2>1, <2>2 DEF SaveConfiguration, DriverTypes
  <1>10. "rtcm_rover" \in Groups /\ "rtcm_base" \in Groups
    BY DEF Groups
  <1> QED BY <1>1, <1>2, <1>3, <1>4, <1>5, <1>6, <1>7, <1>8, <1>9, <1>10 DEF Service

(* and none but a successful save empties the requests.                     *)
LEMMA ServiceSaves ==
    ASSUME "phantom" \notin Faults, NEW bit, Service(bit), gnssConfigureRequest' = {},
           bit \in gnssConfigureRequest
    PROVE  saved' = Told(receiver')
  <1>1. \A outcome \in Outcomes : ReportedOk(outcome) => Executed(outcome)
    BY DEF Outcomes, ReportedOk, Executed
  <1>2. \A b, ok, followUp : Finish(b, ok, followUp) /\ bit = b =>
            ok /\ "SAVE" \notin followUp
    BY DEF Finish, Serviced
  <1>4. ~(bit = "ONCE" /\ ConfigureOnce)
    BY <1>2 DEF ConfigureOnce
  <1>5. ~(bit = "MODEL" /\ SetModel)
    BY <1>2 DEF SetModel
  <1>6. ~ConfigureRover
    <2> SUFFICES ASSUME ConfigureRover PROVE FALSE
      OBVIOUS
    <2>1. "SAVE" \in gnssConfigureRequest'
      BY DEF ConfigureRover, Serviced
    <2> QED BY <2>1
  <1>7. ~ConfigureBase
    <2> SUFFICES ASSUME ConfigureBase PROVE FALSE
      OBVIOUS
    <2>1. "SAVE" \in gnssConfigureRequest'
      BY DEF ConfigureBase, Serviced
    <2> QED BY <2>1
  <1>8. ~(bit = "BASE_SURVEY" /\ SurveyInStart)
    BY <1>2 DEF SurveyInStart
  <1>9. ~(bit = "BASE_FIXED" /\ FixedBaseStart)
    BY <1>2 DEF FixedBaseStart
  <1>10. ~(bit = "NMEA" /\ SetMessagesNMEA)
    BY DEF SetMessagesNMEA
  <1>11. \A group : ~SetMessagesRTCM(bit, group)
    BY <1>2 DEF SetMessagesRTCM
  <1>12. SaveConfiguration /\ bit = "SAVE"
    BY <1>4, <1>5, <1>6, <1>7, <1>8, <1>9, <1>10, <1>11 DEF Service
  <1>13. PICK outcome \in Outcomes :
            /\ saved' = IF Executed(outcome) THEN Told(receiver) ELSE saved
            /\ Finish("SAVE", ReportedOk(outcome), {})
            /\ UNCHANGED <<driver, receiver, observed>>
    BY <1>12 DEF SaveConfiguration
  <1>14. ReportedOk(outcome)
    BY <1>2, <1>12, <1>13
  <1> QED BY <1>1, <1>13, <1>14

-----------------------------------------------------------------------------
(* The rest of the types.                                                   *)
UnitTypes ==
    /\ turn \in 0 .. Len(Order) + 1
    /\ fixedBase \in BOOLEAN /\ fixedPosition \in Positions
    /\ systemState \in States /\ requestedSystemState \in States
    /\ online \in BOOLEAN /\ newSystemStateRequested \in BOOLEAN
    /\ bluetooth \in BOOLEAN
    /\ main \in {"state", "take", "switch", "gnss", "pass"}
    /\ rtkMode \in RtkModes
    /\ bt \in {"idle", "asking", "half asked"} /\ btState \in States
    /\ asked \in 0 .. MaxAsked

(* The types of the driver and of the unit are all of them.                 *)
LEMMA TypesSplit == /\ TypeOK <=> DriverTypes /\ UnitTypes
                    /\ TypeOK' <=> DriverTypes' /\ UnitTypes'
  BY DEF TypeOK, DriverTypes, UnitTypes

(* The states, spelled out.                                                 *)
LEMMA StatesAre ==
    /\ States = {"NOT_SET",
                 "ROVER_NOT_STARTED", "ROVER_CONFIG_WAIT", "ROVER_NO_FIX", "ROVER_FIX",
                 "ROVER_RTK_FLOAT", "ROVER_RTK_FIX",
                 "BASE_NOT_STARTED", "BASE_CONFIG_WAIT", "BASE_TEMP_SETTLE",
                 "BASE_TEMP_SURVEY_STARTED", "BASE_TEMP_TRANSMITTING",
                 "BASE_FIXED_NOT_STARTED", "BASE_FIXED_TRANSMITTING",
                 "WEB_CONFIG_NOT_STARTED", "WEB_CONFIG_WAIT_FOR_NETWORK", "WEB_CONFIG"}
    /\ Unconfigured = {"NOT_SET", "ROVER_NOT_STARTED", "BASE_NOT_STARTED",
                       "WEB_CONFIG_NOT_STARTED", "WEB_CONFIG_WAIT_FOR_NETWORK", "WEB_CONFIG"}
  BY DEF States, Unconfigured, RoverStates, BaseStates, WebConfigStates

(* One step of the state machine: its types, and where it leaves the unit.  *)
LEMMA SwitchStep ==
    ASSUME DriverTypes, UnitTypes, StateSwitch
    PROVE  /\ DriverTypes' /\ UnitTypes'
           /\ \/ systemState' \in Unconfigured \/ gnssConfigureRequest' # {} \/ ~online
              \/ /\ systemState \notin Unconfigured /\ gnssConfigureRequest = {}
                 /\ receiver' = receiver
  <1>1. /\ UNCHANGED <<turn, model, firstTime, surveyAge, rtcmEnabled, misled, saved, fixedBase,
                       fixedPosition, online, requestedSystemState, newSystemStateRequested,
                       bt, btState, asked>>
        /\ main' = "gnss"
    BY DEF StateSwitch, SwitchFrame, driver, settings, mailbox, app
  <1>2. \A bit \in Bits : gnssConfigure(bit) =>
            gnssConfigureRequest' \subseteq Bits /\ gnssConfigureRequest' # {}
    BY DEF gnssConfigure, DriverTypes
  <1> DEFINE Kept == /\ receiver' = receiver /\ observed' = observed
                     /\ gnssConfigureRequest' \subseteq Bits
             Moved == /\ systemState' \in States /\ rtkMode' \in RtkModes
                      /\ bluetooth' \in BOOLEAN
             Left == \/ systemState' \in Unconfigured \/ gnssConfigureRequest' # {}
                     \/ ~online
                     \/ /\ systemState \notin Unconfigured /\ gnssConfigureRequest = {}
                        /\ receiver' = receiver
  <1>3. /\ gnssConfigureRequest \subseteq Bits /\ systemState \in States
        /\ rtkMode \in RtkModes /\ bluetooth \in BOOLEAN
    BY DEF DriverTypes, UnitTypes
  <1>4. CASE NotSet
    <2>1. Kept
      BY <1>4, <1>2, BitsAre DEF NotSet, KeepReceiver
    <2>2. Moved /\ Left
      BY <1>3, <1>4, StatesAre DEF NotSet, changeState
    <2> QED BY <1>1, <2>1, <2>2 DEF DriverTypes, UnitTypes
  <1>5. CASE RoverNotStarted
    <2>1. Kept /\ gnssConfigureRequest' # {}
      BY <1>5, <1>2, BitsAre DEF RoverNotStarted, KeepReceiver
    <2>2. Moved
      BY <1>3, <1>5, StatesAre DEF RoverNotStarted, changeState, RtkModes
    <2> QED BY <1>1, <2>1, <2>2 DEF DriverTypes, UnitTypes
  <1>6. CASE RoverConfigWait
    <2>1. Kept /\ gnssConfigureRequest' = gnssConfigureRequest
      BY <1>3, <1>6 DEF RoverConfigWait, KeepReceiver
    <2>2. Moved
      BY <1>3, <1>6, StatesAre DEF RoverConfigWait, changeState
    <2>3. systemState \notin Unconfigured
      BY <1>6, StatesAre DEF RoverConfigWait
    <2> QED BY <1>1, <2>1, <2>2, <2>3 DEF DriverTypes, UnitTypes
  <1>7. CASE RoverFollowsFix
    <2>1. Kept /\ gnssConfigureRequest' = gnssConfigureRequest
      BY <1>3, <1>7 DEF RoverFollowsFix, KeepReceiver
    <2>2. Moved
      <3>1. PICK fix \in {"none", "fix", "float", "rtk"} :
               changeState(
                 CASE fix = "none" -> "ROVER_NO_FIX"
                   [] fix # "none" /\ systemState = "ROVER_NO_FIX" -> "ROVER_FIX"
                   [] fix = "fix" /\ systemState # "ROVER_NO_FIX" -> "ROVER_FIX"
                   [] fix = "float" /\ systemState # "ROVER_NO_FIX" -> "ROVER_RTK_FLOAT"
                   [] fix = "rtk" /\ systemState # "ROVER_NO_FIX" -> "ROVER_RTK_FIX")
        BY <1>7 DEF RoverFollowsFix
      <3>2. systemState' \in {"ROVER_NO_FIX", "ROVER_FIX", "ROVER_RTK_FLOAT", "ROVER_RTK_FIX"}
        <4>1. CASE fix = "none"
          BY <3>1, <4>1 DEF changeState
        <4>2. CASE fix # "none" /\ systemState = "ROVER_NO_FIX"
          BY <3>1, <4>2 DEF changeState
        <4>3. CASE fix = "fix" /\ systemState # "ROVER_NO_FIX"
          BY <3>1, <4>3 DEF changeState
        <4>4. CASE fix = "float" /\ systemState # "ROVER_NO_FIX"
          BY <3>1, <4>4 DEF changeState
        <4>5. CASE fix = "rtk" /\ systemState # "ROVER_NO_FIX"
          BY <3>1, <4>5 DEF changeState
        <4> QED BY <4>1, <4>2, <4>3, <4>4, <4>5
      <3> QED BY <1>3, <1>7, <3>2, StatesAre DEF RoverFollowsFix
    <2>3. systemState \notin Unconfigured
      BY <1>7, StatesAre DEF RoverFollowsFix
    <2> QED BY <1>1, <2>1, <2>2, <2>3 DEF DriverTypes, UnitTypes
  <1>8. CASE BaseNotStarted
    <2>1. Kept /\ (gnssConfigureRequest' # {} \/ ~online)
      BY <1>2, <1>3, <1>8, BitsAre DEF BaseNotStarted, KeepReceiver
    <2>2. Moved
      BY <1>3, <1>8, StatesAre DEF BaseNotStarted, changeState, RtkModes
    <2> QED BY <1>1, <2>1, <2>2 DEF DriverTypes, UnitTypes
  <1>9. CASE BaseConfigWait
    <2>1. Kept /\ (gnssConfigureRequest' # {} \/ gnssConfigureRequest' = gnssConfigureRequest)
      BY <1>2, <1>3, <1>9, BitsAre DEF BaseConfigWait, KeepReceiver
    <2>2. Moved
      BY <1>3, <1>9, StatesAre DEF BaseConfigWait, changeState, RtkModes
    <2>3. systemState \notin Unconfigured
      BY <1>9, StatesAre DEF BaseConfigWait
    <2> QED BY <1>1, <2>1, <2>2, <2>3 DEF DriverTypes, UnitTypes
  <1>10. CASE BaseTempSettle
    <2>1. Kept /\ (gnssConfigureRequest' # {} \/ gnssConfigureRequest' = gnssConfigureRequest)
      BY <1>2, <1>3, <1>10, BitsAre DEF BaseTempSettle, KeepReceiver
    <2>2. Moved
      BY <1>3, <1>10, StatesAre DEF BaseTempSettle, changeState
    <2>3. systemState \notin Unconfigured
      BY <1>10, StatesAre DEF BaseTempSettle
    <2> QED BY <1>1, <2>1, <2>2, <2>3 DEF DriverTypes, UnitTypes
  <1>11. CASE BaseTempSurveyStarted
    <2>1. Moved /\ gnssConfigureRequest' = gnssConfigureRequest
      BY <1>3, <1>11, StatesAre DEF BaseTempSurveyStarted, changeState, RtkModes
    <2>2. systemState \notin Unconfigured
      BY <1>11, StatesAre DEF BaseTempSurveyStarted
    <2>3. CASE KeepReceiver
      BY <1>1, <2>1, <2>2, <2>3 DEF KeepReceiver, DriverTypes, UnitTypes
    <2>4. CASE SurveyInReset /\ systemState' = "ROVER_NOT_STARTED"
      <3>2. receiver' \in Configurations /\ observed' \in 0 .. ObservationSeconds + 1
        BY <2>4, ModeCommandTypes DEF SurveyInReset, Matching
      <3>3. systemState' \in Unconfigured
        BY <2>4, StatesAre
      <3> QED BY <1>1, <2>1, <3>2, <3>3 DEF DriverTypes, UnitTypes
    <2> QED BY <1>11, <2>3, <2>4 DEF BaseTempSurveyStarted, changeState
  <1>12. CASE BaseFixedNotStarted
    <2>1. Kept /\ gnssConfigureRequest' = gnssConfigureRequest
      BY <1>3, <1>12 DEF BaseFixedNotStarted, KeepReceiver
    <2>2. Moved
      BY <1>3, <1>12, StatesAre DEF BaseFixedNotStarted, changeState
    <2>3. systemState \notin Unconfigured
      BY <1>12, StatesAre DEF BaseFixedNotStarted
    <2> QED BY <1>1, <2>1, <2>2, <2>3 DEF DriverTypes, UnitTypes
  <1>13. CASE WebConfigNotStarted \/ WebConfigWaitForNetwork
    <2>1. Kept
      BY <1>3, <1>13 DEF WebConfigNotStarted, WebConfigWaitForNetwork, KeepReceiver
    <2>2. Moved /\ Left
      BY <1>3, <1>13, StatesAre
         DEF WebConfigNotStarted, WebConfigWaitForNetwork, changeState, RtkModes
    <2> QED BY <1>1, <2>1, <2>2 DEF DriverTypes, UnitTypes
  <1>14. CASE Rest
    <2>1. Kept /\ Moved /\ Left
      BY <1>3, <1>14, StatesAre DEF Rest, KeepReceiver
    <2> QED BY <1>1, <2>1 DEF DriverTypes, UnitTypes
  <1> QED
    BY <1>4, <1>5, <1>6, <1>7, <1>8, <1>9, <1>10, <1>11, <1>12, <1>13, <1>14 DEF StateSwitch

-----------------------------------------------------------------------------
(* The invariant, step by step.                                             *)
LEMMA Parts ==
    IInv <=> /\ DriverTypes /\ UnitTypes
             /\ online /\ gnssConfigureRequest = {} /\ systemState \notin Unconfigured
                   => saved = Told(receiver)
             /\ requestedSystemState \in Unconfigured /\ btState \in Unconfigured
  BY TypesSplit DEF IInv, ConfigurationSaved, RequestsBegin, gnssConfigureComplete

(* The same for the state after a step.                                     *)
LEMMA PartsNext ==
    ASSUME DriverTypes', UnitTypes',
           online' /\ gnssConfigureRequest' = {} /\ systemState' \notin Unconfigured
               => saved' = Told(receiver'),
           requestedSystemState' \in Unconfigured, btState' \in Unconfigured
    PROVE  IInv'
  BY TypesSplit DEF IInv, ConfigurationSaved, RequestsBegin, gnssConfigureComplete

(* The main task runs the state machine.                                    *)
LEMMA StateUpdateStep ==
    ASSUME IInv, StateUpdate \/ StateUpdateSkipped
    PROVE  IInv'
  <1>1. /\ DriverTypes /\ UnitTypes
        /\ online /\ gnssConfigureRequest = {} /\ systemState \notin Unconfigured
              => saved = Told(receiver)
        /\ requestedSystemState \in Unconfigured /\ btState \in Unconfigured
    BY Parts
  <1>2. CASE StateUpdateBegin \/ StateUpdateSkipped
    <2>1. /\ UNCHANGED <<gnss, settings, systemState, online, requestedSystemState, rtkMode,
                         bluetooth, app>>
          /\ main' \in {"take", "switch", "gnss"}
          /\ newSystemStateRequested' \in BOOLEAN
      BY <1>1, <1>2 DEF StateUpdateBegin, StateUpdateSkipped, mailbox, UnitTypes
    <2>2. DriverTypes' /\ UnitTypes'
      BY <1>1, <2>1 DEF gnss, driver, settings, app, DriverTypes, UnitTypes
    <2> QED BY <1>1, <2>1, <2>2, PartsNext DEF gnss, driver, app
  <1>3. CASE TakeRequest
    <2>1. /\ UNCHANGED <<gnss, settings, online, mailbox, rtkMode, bluetooth, app>>
          /\ main' = "switch" /\ systemState' = requestedSystemState
      BY <1>3 DEF TakeRequest, changeState
    <2>2. DriverTypes' /\ UnitTypes'
      BY <1>1, <2>1 DEF gnss, driver, settings, app, mailbox, DriverTypes, UnitTypes
    <2> QED BY <1>1, <2>1, <2>2, PartsNext DEF mailbox, app
  <1>4. CASE StateSwitch
    <2>1. /\ DriverTypes' /\ UnitTypes'
          /\ \/ systemState' \in Unconfigured \/ gnssConfigureRequest' # {} \/ ~online
             \/ /\ systemState \notin Unconfigured /\ gnssConfigureRequest = {}
                /\ receiver' = receiver
      BY <1>1, <1>4, SwitchStep
    <2>2. UNCHANGED <<saved, online, mailbox, app>>
      BY <1>4 DEF StateSwitch, SwitchFrame
    <2>3. online' /\ gnssConfigureRequest' = {} /\ systemState' \notin Unconfigured
              => saved' = Told(receiver')
      BY <1>1, <2>1, <2>2
    <2> QED BY <1>1, <2>1, <2>2, <2>3, PartsNext DEF mailbox, app
  <1> QED BY <1>2, <1>3, <1>4 DEF StateUpdate

(* The main task serves the requests of the receiver.                       *)
LEMMA GnssUpdateStep ==
    ASSUME "phantom" \notin Faults, IInv, GnssUpdate
    PROVE  IInv'
  <1>1. /\ DriverTypes /\ UnitTypes
        /\ online /\ gnssConfigureRequest = {} /\ systemState \notin Unconfigured
              => saved = Told(receiver)
        /\ requestedSystemState \in Unconfigured /\ btState \in Unconfigured
    BY Parts
  <1>2. CASE GnssUpdateBegin \/ GnssUpdateEnd
    <2>1. /\ UNCHANGED <<gnssConfigureRequest, driver, receiver, saved, observed, settings,
                         systemState, online, mailbox, rtkMode, bluetooth, app>>
          /\ main' \in {"pass", "state"} /\ turn' \in {0, 1, turn}
      BY <1>2 DEF GnssUpdateBegin, GnssUpdateEnd, PassDone
    <2>2. DriverTypes'
      BY <1>1, <2>1 DEF driver, DriverTypes
    <2>3. UnitTypes'
      <3>1. turn' \in 0 .. Len(Order) + 1
        <4>1. turn \in 0 .. Len(Order) + 1 /\ Len(Order) = 10
          BY <1>1, BitsAre DEF UnitTypes
        <4>2. turn' = 0 \/ turn' = 1 \/ turn' = turn
          BY <2>1
        <4> QED BY <4>1, <4>2
      <3> QED BY <1>1, <2>1, <3>1 DEF settings, mailbox, app, UnitTypes
    <2> QED BY <1>1, <2>1, <2>2, <2>3, PartsNext DEF mailbox, app
  <1>3. CASE GnssUpdateService
    <2>1. PICK i \in DOMAIN Order : Requested(i) /\ Service(Order[i]) /\ turn' = i + 1
      BY <1>3 DEF GnssUpdateService, ServiceNext
    <2>2. UNCHANGED <<settings, systemState, online, main, mailbox, rtkMode, bluetooth, app>>
      BY <1>3 DEF GnssUpdateService
    <2>3. DriverTypes'
      BY <1>1, <2>1, ServiceTypes DEF UnitTypes
    <2>4. turn' \in 0 .. Len(Order) + 1
      BY <2>1, BitsAre
    <2>5. UnitTypes'
      BY <1>1, <2>2, <2>4 DEF settings, mailbox, app, UnitTypes
    <2>6. gnssConfigureRequest' = {} => saved' = Told(receiver')
      BY <2>1, ServiceSaves DEF Requested
    <2> QED BY <1>1, <2>2, <2>3, <2>5, <2>6, PartsNext DEF mailbox, app
  <1> QED BY <1>2, <1>3 DEF GnssUpdate

(* The app's task asks for another mode.                                    *)
LEMMA ReadTaskStep ==
    ASSUME IInv, ReadTask
    PROVE  IInv'
  <1>1. /\ DriverTypes /\ UnitTypes
        /\ online /\ gnssConfigureRequest = {} /\ systemState \notin Unconfigured
              => saved = Told(receiver)
        /\ requestedSystemState \in Unconfigured /\ btState \in Unconfigured
    BY Parts
  <1>2. UNCHANGED <<gnss, systemState, online, main, rtkMode, bluetooth>>
    BY DEF ReadTask, WorkMode, WifiControl, requestChangeState
  <1>3. DriverTypes'
    BY <1>1, <1>2 DEF gnss, driver, DriverTypes
  <1>4. CASE WorkMode \/ WifiControl
    <2>1. /\ fixedBase' \in BOOLEAN /\ fixedPosition' \in Positions
          /\ btState' \in {"BASE_NOT_STARTED", "ROVER_NOT_STARTED", "WEB_CONFIG_NOT_STARTED"}
          /\ bt' = "asking" /\ asked' = asked + 1 /\ asked < MaxAsked /\ UNCHANGED mailbox
      BY <1>1, <1>4 DEF WorkMode, WifiControl, MayAsk, settings, UnitTypes
    <2>2. asked' \in 0 .. MaxAsked
      <3>1. asked \in 0 .. MaxAsked /\ MaxAsked \in Nat
        BY <1>1, SystemStateAssumption DEF UnitTypes
      <3> QED BY <2>1, <3>1
    <2>3. UnitTypes' /\ btState' \in Unconfigured
      BY <1>1, <1>2, <2>1, <2>2, StatesAre DEF mailbox, gnss, UnitTypes
    <2> QED BY <1>1, <1>2, <1>3, <2>1, <2>3, PartsNext DEF gnss, mailbox
  <1>5. CASE requestChangeState
    <2>1. /\ bt' \in {"half asked", "idle"} /\ UNCHANGED <<settings, btState, asked>>
          /\ requestedSystemState' \in {requestedSystemState, btState}
          /\ newSystemStateRequested' \in {newSystemStateRequested, TRUE}
      BY <1>5 DEF requestChangeState, StoreState, StoreFlag
    <2>2. UnitTypes'
      BY <1>1, <1>2, <2>1 DEF settings, gnss, UnitTypes
    <2> QED BY <1>1, <1>2, <1>3, <2>1, <2>2, PartsNext DEF gnss
  <1> QED BY <1>4, <1>5 DEF ReadTask

(* Time passes.                                                             *)
LEMMA TickStep ==
    ASSUME IInv, Tick
    PROVE  IInv'
  <1>1. /\ DriverTypes /\ UnitTypes
        /\ online /\ gnssConfigureRequest = {} /\ systemState \notin Unconfigured
              => saved = Told(receiver)
        /\ requestedSystemState \in Unconfigured /\ btState \in Unconfigured
    BY Parts
  <1>2. /\ surveyAge' \in 0 .. AgeCap /\ observed' \in 0 .. ObservationSeconds + 1
        /\ UNCHANGED <<gnssConfigureRequest, turn, model, firstTime, rtcmEnabled, misled, receiver,
                       saved, settings, systemState, online, main, mailbox, rtkMode,
                       bluetooth, app>>
    BY <1>1, Limits DEF Tick, OneMore, DriverTypes
  <1>3. DriverTypes' /\ UnitTypes'
    BY <1>1, <1>2 DEF settings, mailbox, app, DriverTypes, UnitTypes
  <1> QED BY <1>1, <1>2, <1>3, PartsNext DEF mailbox, app

(* The receiver ends its survey by itself: what it was told stays the same. *)
LEMMA SettlesStep ==
    ASSUME IInv, ReceiverSettles
    PROVE  IInv'
  <1>1. /\ DriverTypes /\ UnitTypes
        /\ online /\ gnssConfigureRequest = {} /\ systemState \notin Unconfigured
              => saved = Told(receiver)
        /\ requestedSystemState \in Unconfigured /\ btState \in Unconfigured
    BY Parts
  <1>2. /\ UNCHANGED <<gnssConfigureRequest, turn, driver, saved, observed>>
        /\ UNCHANGED <<settings, systemState, online, main, mailbox, rtkMode, bluetooth, app>>
        /\ receiver.mode = "survey"
        /\ receiver' = [receiver EXCEPT !.mode = "fixed", !.position = Surveyed]
    BY DEF ReceiverSettles, SurveyEnds
  <1>3. receiver' \in Configurations /\ Told(receiver') = Told(receiver)
    BY <1>1, <1>2, ToldSurvey DEF DriverTypes
  <1>4. DriverTypes' /\ UnitTypes'
    BY <1>1, <1>2, <1>3 DEF driver, settings, mailbox, app, DriverTypes, UnitTypes
  <1> QED BY <1>1, <1>2, <1>3, <1>4, PartsNext DEF mailbox, app

(* A step that changes nothing.                                             *)
LEMMA StutterStep ==
    ASSUME IInv, UNCHANGED vars
    PROVE  IInv'
  <1>1. /\ DriverTypes /\ UnitTypes
        /\ online /\ gnssConfigureRequest = {} /\ systemState \notin Unconfigured
              => saved = Told(receiver)
        /\ requestedSystemState \in Unconfigured /\ btState \in Unconfigured
    BY Parts
  <1>2. DriverTypes' /\ UnitTypes'
    BY <1>1 DEF vars, gnss, driver, settings, mailbox, app, DriverTypes, UnitTypes
  <1> QED BY <1>1, <1>2, PartsNext DEF vars, gnss, driver, mailbox, app

(* The unit starts unconfigured.                                            *)
LEMMA InitialStep == Init => IInv
  <1> SUFFICES ASSUME Init PROVE IInv
    OBVIOUS
  <1>1. /\ receiver \in Configurations /\ saved = Told(receiver)
        /\ saved \in Configurations
    BY ConfigurationsClosed DEF Init, GnssInit
  <1>2. DriverTypes
    BY <1>1, Limits DEF Init, GnssInit, DriverTypes, Modes
  <1>3. fixedPosition \in Positions
    BY GnssConfigAssumption DEF Init, GnssInit
  <1>4. UnitTypes
    <2>1. 0 \in 0 .. Len(Order) + 1 /\ 0 \in 0 .. MaxAsked
      BY BitsAre, SystemStateAssumption
    <2> QED BY <1>3, <2>1, StatesAre DEF Init, GnssInit, UnitTypes, RtkModes
  <1> QED BY <1>1, <1>2, <1>4, Parts, StatesAre DEF Init

(* Unless a late answer passes for that of a command that was not done: a   *)
(* unit with nothing left to configure has saved what its receiver was told *)
(* to run, whatever was refused, lost, or asked for again on the way.       *)
THEOREM FinishedIsSaved ==
    ASSUME "phantom" \notin Faults
    PROVE  Spec => []ConfigurationSaved
  <1>1. Init => IInv
    BY InitialStep
  <1>2. IInv /\ [Next]_vars => IInv'
    BY StateUpdateStep, GnssUpdateStep, ReadTaskStep, TickStep, SettlesStep, StutterStep
       DEF Next
  <1>3. IInv => ConfigurationSaved
    BY DEF IInv
  <1> QED BY <1>1, <1>2, <1>3, PTL DEF Spec

-----------------------------------------------------------------------------
(* With a receiver that does what it is told there is one outcome.          *)
LEMMA ObedientOutcomes ==
    ASSUME Faults = {}
    PROVE  /\ \A outcome \in Outcomes : outcome = "done"
           /\ \A outcome \in QueryOutcomes : outcome = "done"
  BY DEF Outcomes, QueryOutcomes

(* What is asked for, spelled out: no request that a pass has gone by is    *)
(* set, except MODEL.                                                       *)
GoneBy(R, n) ==
    /\ n > 1 => "ONCE" \notin R
    /\ n > 3 => "ROVER" \notin R
    /\ n > 4 => "BASE" \notin R
    /\ n > 5 => "BASE_SURVEY" \notin R
    /\ n > 6 => "BASE_FIXED" \notin R
    /\ n > 7 => "NMEA" \notin R
    /\ n > 8 => "RTCM_ROVER" \notin R
    /\ n > 9 => "RTCM_BASE" \notin R
    /\ n > 10 => "SAVE" \notin R

(* The order of the bits, one by one.                                       *)
LEMMA OrderIs ==
    /\ DOMAIN Order = 1 .. 10
    /\ Order[1] = "ONCE" /\ Order[2] = "MODEL" /\ Order[3] = "ROVER" /\ Order[4] = "BASE"
    /\ Order[5] = "BASE_SURVEY" /\ Order[6] = "BASE_FIXED" /\ Order[7] = "NMEA"
    /\ Order[8] = "RTCM_ROVER" /\ Order[9] = "RTCM_BASE" /\ Order[10] = "SAVE"
  BY DEF Order

(* It is what the invariant says of the bits that are in turn.              *)
LEMMA GoneBySpelled ==
    ASSUME NEW R, NEW n \in Int
    PROVE  (\A i \in DOMAIN Order : i < n /\ Order[i] \in R => Order[i] = "MODEL")
               <=> GoneBy(R, n)
  <1>1. \A i \in 1 .. 10 : i \in {1, 2, 3, 4, 5, 6, 7, 8, 9, 10}
    OBVIOUS
  <1>2. ASSUME GoneBy(R, n), NEW i \in DOMAIN Order, i < n, Order[i] \in R
        PROVE  Order[i] = "MODEL"
    BY <1>1, <1>2, OrderIs DEF GoneBy
  <1>3. ASSUME \A i \in DOMAIN Order : i < n /\ Order[i] \in R => Order[i] = "MODEL"
        PROVE  GoneBy(R, n)
    <2>1. \A i \in DOMAIN Order : i < n /\ Order[i] # "MODEL" => Order[i] \notin R
      BY <1>3
    <2>2. /\ 1 \in DOMAIN Order /\ 3 \in DOMAIN Order /\ 4 \in DOMAIN Order
          /\ 5 \in DOMAIN Order /\ 6 \in DOMAIN Order /\ 7 \in DOMAIN Order
          /\ 8 \in DOMAIN Order /\ 9 \in DOMAIN Order /\ 10 \in DOMAIN Order
      BY OrderIs
    <2> QED BY <2>1, <2>2, OrderIs DEF GoneBy
  <1> QED BY <1>2, <1>3

(* The bit whose turn it is, and that no other is asked for before it but   *)
(* MODEL, behind its turn.                                                  *)
LEMMA NextInTurn ==
    ASSUME GoneBy(gnssConfigureRequest, turn), turn \in Nat, ServiceNext
    PROVE  \E i \in {1, 2, 3, 4, 5, 6, 7, 8, 9, 10} :
              /\ Asked(Order[i]) /\ Service(Order[i]) /\ turn' = i + 1
              /\ i > 1 => ~Asked("ONCE")
              /\ i > 2 /\ Asked("MODEL") => turn > 2
              /\ i > 3 => ~Asked("ROVER")
              /\ i > 4 => ~Asked("BASE")
              /\ i > 5 => ~Asked("BASE_SURVEY")
              /\ i > 6 => ~Asked("BASE_FIXED")
              /\ i > 7 => ~Asked("NMEA")
              /\ i > 8 => ~Asked("RTCM_ROVER")
              /\ i > 9 => ~Asked("RTCM_BASE")
  <1>1. PICK i \in DOMAIN Order :
           /\ Requested(i) /\ \A j \in DOMAIN Order : Requested(j) => i <= j
           /\ Service(Order[i]) /\ turn' = i + 1
    BY DEF ServiceNext
  <1>2. i \in {1, 2, 3, 4, 5, 6, 7, 8, 9, 10}
    BY OrderIs
  <1>3. \A j \in DOMAIN Order : j < i /\ Order[j] \in gnssConfigureRequest => j < turn
    BY <1>1, <1>2, OrderIs DEF Requested
  <1>4. \A j \in {1, 2, 3, 4, 5, 6, 7, 8, 9, 10} :
           j < i /\ Order[j] \in gnssConfigureRequest => j < turn
    BY <1>3, OrderIs
  <1>5. \A j \in {1, 2, 3, 4, 5, 6, 7, 8, 9, 10} :
           j < i /\ Order[j] \in gnssConfigureRequest => Order[j] = "MODEL"
    <2>1. turn \in Int
      OBVIOUS
    <2> QED BY <1>4, <2>1, OrderIs, GoneBySpelled
  <1> QED BY <1>1, <1>2, <1>4, <1>5, OrderIs DEF Requested, Asked

(* Two changes of the receiver's configuration.                             *)
LEMMA ReceiverChanges ==
    ASSUME receiver \in Configurations
    PROVE  /\ \A mode, position :
                 /\ [receiver EXCEPT !.mode = mode, !.position = position].mode = mode
                 /\ [receiver EXCEPT !.mode = mode, !.position = position].position = position
                 /\ [receiver EXCEPT !.mode = mode, !.position = position].output = receiver.output
           /\ \A groups : WithOutput(groups).mode = receiver.mode
                          /\ WithOutput(groups).position = receiver.position
                          /\ WithOutput(groups).output = groups
  BY DEF Configurations, WithOutput

(* No position of the app is one the receiver found.                        *)
LEMMA NotSurveyed ==
    NoPosition # Surveyed /\ \A p \in Positions : p # Surveyed
  BY GnssConfigAssumption DEF NoPosition, Surveyed

(* What a mode command does.                                                *)
LEMMA ModeCommanded ==
    ASSUME receiver \in Configurations, NEW mode, NEW position, ModeCommand(TRUE, mode, position)
    PROVE  /\ receiver'.mode = mode /\ receiver'.position = position
           /\ receiver'.output = receiver.output /\ observed' = 0
  <1>1. /\ receiver' = [receiver EXCEPT !.mode = mode, !.position = position]
        /\ observed' = 0
    BY DEF ModeCommand
  <1> QED BY <1>1, ReceiverChanges

(* What each service does with an obedient receiver.                        *)
OutputKept == receiver'.output = receiver.output
(* It keeps the mode, its position, and what was seen of the survey.        *)
ModeKept ==
    /\ receiver'.mode = receiver.mode /\ receiver'.position = receiver.position
    /\ observed' = observed

(* The bit is reset and asks for what has to follow.                        *)
Becomes(bit, followUp) == gnssConfigureRequest' = (gnssConfigureRequest \ {bit}) \union followUp

(* The settings that are made once.                                         *)
LEMMA OnceEffect ==
    ASSUME Faults = {}, receiver \in Configurations, ConfigureOnce
    PROVE  /\ ModeKept /\ UNCHANGED <<model, firstTime, surveyAge, rtcmEnabled, misled>>
           /\ Becomes("ONCE", {"SAVE"})
  BY ObedientOutcomes, ReceiverChanges
     DEF ConfigureOnce, Finish, Serviced, Executed, ReportedOk, ModeKept, Becomes, driver

(* The dynamics model, which is set as a rover.                             *)
LEMMA ModelEffect ==
    ASSUME Faults = {}, receiver \in Configurations, SetModel
    PROVE  /\ receiver'.mode = "rover" /\ receiver'.position = NoPosition /\ OutputKept
           /\ UNCHANGED <<model, firstTime, surveyAge, rtcmEnabled, misled>>
           /\ Becomes("MODEL", {"SAVE"})
  <1>1. PICK outcome \in Outcomes :
           /\ ModeCommand(Executed(outcome), "rover", NoPosition)
           /\ Finish("MODEL", ReportedOk(outcome), {"SAVE"})
           /\ UNCHANGED <<driver, saved>>
    BY DEF SetModel
  <1>2. Executed(outcome) = TRUE /\ ReportedOk(outcome)
    BY ObedientOutcomes DEF Executed, ReportedOk
  <1> QED BY <1>1, <1>2, ModeCommanded DEF OutputKept, Finish, Serviced, Becomes, driver

(* The rover: what it reports tells whether the model must be set.          *)
LEMMA RoverEffect ==
    ASSUME Faults = {}, receiver \in Configurations, ConfigureRover
    PROVE  /\ ModeKept /\ OutputKept /\ model' = receiver.mode
           /\ UNCHANGED <<firstTime, surveyAge, rtcmEnabled, misled>>
           /\ Becomes("ROVER", {"NMEA", "SAVE"} \union
                     (IF receiver.mode = "rover" THEN {} ELSE {"MODEL", "RTCM_ROVER"}))
  <1>1. receiver.mode \in {"rover", "survey", "fixed"}
    BY DEF Configurations, Modes
  <1> QED BY <1>1, ObedientOutcomes
          DEF ConfigureRover, ModelAfter, ModelReturned, ModelSeen, Serviced, Becomes,
              ModeKept, OutputKept

(* The base, which the first time is always configured.                     *)
LEMMA BaseEffect ==
    ASSUME Faults = {}, receiver \in Configurations, ConfigureBase
    PROVE  /\ ModeKept /\ OutputKept /\ model' = receiver.mode /\ firstTime' = FALSE
           /\ misled' = (firstTime /\ receiver.mode = Wanted) /\ UNCHANGED <<surveyAge,
                                                                             rtcmEnabled>>
           /\ Becomes("BASE", {"NMEA", "SAVE"} \union
                     (IF ~firstTime /\ receiver.mode = Wanted THEN {} ELSE {"MODEL", "RTCM_BASE"}))
  BY ObedientOutcomes
     DEF ConfigureBase, ModelAfter, ModelSeen, AlreadyBase, Wanted, Serviced, Becomes,
         ModeKept, OutputKept

(* The survey starts, unless the receiver already reports one.              *)
LEMMA SurveyEffect ==
    ASSUME Faults = {}, receiver \in Configurations, SurveyInStart
    PROVE  /\ OutputKept /\ UNCHANGED <<model, firstTime, rtcmEnabled, misled>>
           /\ IF model = "survey" THEN ModeKept /\ UNCHANGED surveyAge
              ELSE receiver'.mode = "survey" /\ surveyAge' = 0 /\ observed' = 0
           /\ Becomes("BASE_SURVEY", {"SAVE"})
  <1>1. CASE model = "survey"
    BY <1>1 DEF SurveyInStart, Finish, Serviced, Becomes, ModeKept, OutputKept, driver
  <1>2. CASE model # "survey"
    <2>1. PICK outcome \in Outcomes :
            /\ ModeCommand(Executed(outcome), "survey", NoPosition)
            /\ surveyAge' = IF ReportedOk(outcome) THEN 0 ELSE surveyAge
            /\ Finish("BASE_SURVEY", ReportedOk(outcome), {"SAVE"})
      BY <1>2 DEF SurveyInStart
    <2>2. Executed(outcome) = TRUE /\ ReportedOk(outcome)
      BY ObedientOutcomes DEF Executed, ReportedOk
    <2>3. UNCHANGED <<model, firstTime, rtcmEnabled, misled>>
      BY <1>2 DEF SurveyInStart
    <2> QED BY <1>2, <2>1, <2>2, <2>3, ModeCommanded DEF Finish, Serviced, Becomes, OutputKept
  <1> QED BY <1>1, <1>2

(* The fixed base starts, unless the receiver already reports one.          *)
LEMMA FixedEffect ==
    ASSUME Faults = {}, receiver \in Configurations, FixedBaseStart
    PROVE  /\ OutputKept /\ UNCHANGED <<model, firstTime, surveyAge, rtcmEnabled, misled>>
           /\ IF model = "fixed" THEN ModeKept
              ELSE receiver'.mode = "fixed" /\ receiver'.position = fixedPosition
           /\ Becomes("BASE_FIXED", {"SAVE"})
  <1>1. CASE model = "fixed"
    BY <1>1 DEF FixedBaseStart, Finish, Serviced, Becomes, ModeKept, OutputKept, driver
  <1>2. CASE model # "fixed"
    <2>1. PICK outcome \in Outcomes :
            /\ ModeCommand(Executed(outcome), "fixed", fixedPosition)
            /\ Finish("BASE_FIXED", ReportedOk(outcome), {"SAVE"})
      BY <1>2 DEF FixedBaseStart
    <2>2. Executed(outcome) = TRUE /\ ReportedOk(outcome)
      BY ObedientOutcomes DEF Executed, ReportedOk
    <2>3. UNCHANGED <<model, firstTime, surveyAge, rtcmEnabled, misled>>
      BY <1>2 DEF FixedBaseStart, driver
    <2> QED BY <1>2, <2>1, <2>2, <2>3, ModeCommanded DEF Finish, Serviced, Becomes, OutputKept
  <1> QED BY <1>1, <1>2

(* The NMEA messages: everything else is off, and asked for again.          *)
LEMMA NmeaEffect ==
    ASSUME Faults = {}, receiver \in Configurations, SetMessagesNMEA
    PROVE  /\ ModeKept /\ receiver'.output = {"nmea"} /\ rtcmEnabled' = {}
           /\ UNCHANGED <<model, firstTime, surveyAge, misled>>
           /\ Becomes("NMEA", {"SAVE"} \union (RtcmAgain \ {"NMEA"}))
  <1>1. PICK off \in Outcomes, on \in Outcomes :
            LET left == IF Executed(off) THEN {} ELSE receiver.output IN
            /\ receiver' = WithOutput(IF Executed(on) THEN left \union {"nmea"} ELSE left)
            /\ rtcmEnabled' = {}
            /\ gnssConfigureRequest' =
                   (IF ReportedOk(on) THEN (gnssConfigureRequest \ {"NMEA"}) \union {"SAVE"}
                                      ELSE gnssConfigureRequest) \union RtcmAgain
            /\ UNCHANGED <<model, firstTime, surveyAge, misled, saved, observed>>
    BY DEF SetMessagesNMEA
  <1>2. Executed(off) /\ Executed(on) /\ ReportedOk(on)
    BY ObedientOutcomes DEF Executed, ReportedOk
  <1>3. receiver' = WithOutput({"nmea"})
    BY <1>1, <1>2
  <1>4. "NMEA" \notin RtcmAgain
    BY DEF RtcmAgain
  <1> QED BY <1>1, <1>2, <1>3, <1>4, ReceiverChanges DEF Becomes, ModeKept

(* The RTCM messages of a rover, or of a base.                              *)
LEMMA RtcmEffect ==
    ASSUME Faults = {}, receiver \in Configurations, NEW bit, NEW group,
           SetMessagesRTCM(bit, group)
    PROVE  /\ ModeKept /\ receiver'.output = receiver.output \union {group}
           /\ rtcmEnabled' = {group}
           /\ UNCHANGED <<model, firstTime, surveyAge, misled>>
           /\ Becomes(bit, {"SAVE"})
  BY ObedientOutcomes, ReceiverChanges
     DEF SetMessagesRTCM, Finish, Serviced, Executed, ReportedOk, ModeKept, Becomes

(* The configuration is saved.                                              *)
LEMMA SaveEffect ==
    ASSUME Faults = {}, SaveConfiguration
    PROVE  /\ ModeKept /\ OutputKept /\ UNCHANGED <<model, firstTime, surveyAge, rtcmEnabled,
                                                    misled>>
           /\ Becomes("SAVE", {})
  BY ObedientOutcomes
     DEF SaveConfiguration, Finish, Serviced, Executed, ReportedOk, ModeKept, OutputKept,
         Becomes, driver
-----------------------------------------------------------------------------
(* A service changes nothing else of the unit.                              *)
ServiceFrame ==
    /\ main = "pass" /\ main' = "pass"
    /\ UNCHANGED <<systemState, fixedBase, bt, newSystemStateRequested>>

(* What NextInTurn says of the bit at i.                                    *)
TurnAt(i) ==
    /\ turn' = i + 1
    /\ i > 1 => ~Asked("ONCE")
    /\ i > 2 /\ Asked("MODEL") => turn > 2
    /\ i > 3 => ~Asked("ROVER")
    /\ i > 4 => ~Asked("BASE")
    /\ i > 5 => ~Asked("BASE_SURVEY")
    /\ i > 6 => ~Asked("BASE_FIXED")
    /\ i > 7 => ~Asked("NMEA")
    /\ i > 8 => ~Asked("RTCM_ROVER")
    /\ i > 9 => ~Asked("RTCM_BASE")

(* What is asked for after a service.                                       *)
LEMMA AskedAfter ==
    ASSUME NEW bit, NEW followUp, Becomes(bit, followUp)
    PROVE  \A b : Asked(b)' <=> (Asked(b) /\ b # bit) \/ b \in followUp
  BY DEF Becomes, Asked

(* The part of BitsInTurn that is about a pass.                             *)
LEMMA StillInTurn ==
    ASSUME main' = "pass", turn' \in Int, GoneBy(gnssConfigureRequest', turn'),
           Asked("MODEL")' /\ (Asked("ROVER")' \/ Asked("BASE")') => turn' <= 2
    PROVE  BitsInTurn'
  <1>1. \A i \in DOMAIN Order :
           i < turn' /\ Order[i] \in gnssConfigureRequest' => Order[i] = "MODEL"
    BY GoneBySpelled
  <1> QED BY <1>1 DEF BitsInTurn, Asked

(* The pass begins with the receiver's basic configuration.                 *)
LEMMA OnceStep ==
    ASSUME Faults = {}, receiver \in Configurations, ReceiverFollows, ServiceFrame,
           TurnAt(1), ConfigureOnce, Asked("ONCE")
    PROVE  ReceiverFollows'
  <1>1. /\ ModeKept /\ UNCHANGED <<model, firstTime, surveyAge, rtcmEnabled, misled>>
        /\ Becomes("ONCE", {"SAVE"})
    BY OnceEffect
  <1>2. BitsBelong'
    BY <1>1, AskedAfter DEF ReceiverFollows, BitsBelong, ServiceFrame, BaseConfigured
  <1>3. BitsInTurn'
    <2>1. GoneBy(gnssConfigureRequest', turn')
      BY <1>1 DEF TurnAt, GoneBy, Becomes
    <2>2. turn' = 2
      BY DEF TurnAt
    <2> QED BY <2>1, <2>2, StillInTurn DEF ServiceFrame
  <1>4. FirstBase' /\ SurveyTimed'
    BY <1>1, AskedAfter
       DEF ReceiverFollows, FirstBase, SurveyTimed, HoldsSurvey, ServiceFrame, ModeKept,
           BaseConfigured
  <1>5. RoverMode'
    BY <1>1, AskedAfter
       DEF ReceiverFollows, RoverMode, RoverShown, WorkingRover, ServiceFrame, ModeKept
  <1>6. BaseMode'
    BY <1>1, AskedAfter
       DEF ReceiverFollows, BaseMode, Runs, HoldsSurvey, Pending, Wanted, ServiceFrame, ModeKept
  <1>7. RtcmKnown'
    BY <1>1, AskedAfter DEF ReceiverFollows, RtcmKnown, ModeKept
  <1>8. RoverOutput' /\ BaseOutput'
    BY DEF ReceiverFollows, BitsBelong, RoverOutput, BaseOutput, RoverShown, BaseConfigured,
           ServiceFrame, WorkingRover
  <1> QED BY <1>2, <1>3, <1>4, <1>5, <1>6, <1>7, <1>8 DEF ReceiverFollows
(* The receiver is put into rover mode.                                     *)
LEMMA ModelStep ==
    ASSUME Faults = {}, receiver \in Configurations, ReceiverFollows, ServiceFrame,
           TurnAt(2), SetModel, Asked("MODEL")
    PROVE  ReceiverFollows'
  <1>1. /\ receiver'.mode = "rover" /\ receiver'.position = NoPosition /\ OutputKept
        /\ UNCHANGED <<model, firstTime, surveyAge, rtcmEnabled, misled>>
        /\ Becomes("MODEL", {"SAVE"})
    BY ModelEffect
  <1>2. BitsBelong'
    BY <1>1, AskedAfter DEF ReceiverFollows, BitsBelong, ServiceFrame
  <1>3. BitsInTurn'
    <2>1. GoneBy(gnssConfigureRequest', turn')
      BY <1>1 DEF TurnAt, GoneBy, Becomes, Asked
    <2>2. turn' = 3
      BY DEF TurnAt
    <2>3. Asked("MODEL")' /\ (Asked("ROVER")' \/ Asked("BASE")') => turn' <= 2
      BY <1>1, AskedAfter
    <2> QED BY <2>1, <2>2, <2>3, StillInTurn DEF ServiceFrame
  <1>4. FirstBase'
    BY <1>1, AskedAfter DEF ReceiverFollows, FirstBase, ServiceFrame, BaseConfigured
  <1>5. SurveyTimed'
    BY <1>1, NotSurveyed DEF SurveyTimed, HoldsSurvey
  <1>6. RoverMode'
    BY <1>1 DEF RoverMode
  <1>7. BaseMode'
    BY <1>1, AskedAfter
       DEF ReceiverFollows, BitsBelong, BaseMode, Runs, HoldsSurvey, Pending, Wanted,
           BaseConfigured,
           ServiceFrame
  <1>8. RtcmKnown'
    BY <1>1, AskedAfter DEF ReceiverFollows, RtcmKnown
  <1>9. RoverOutput'
    BY <1>1, AskedAfter
       DEF ReceiverFollows, RoverOutput, RoverShown, WorkingRover, ServiceFrame, OutputKept
  <1>10. BaseOutput'
    BY <1>1, AskedAfter DEF ReceiverFollows, BaseOutput, BaseConfigured, ServiceFrame, OutputKept
  <1> QED BY <1>2, <1>3, <1>4, <1>5, <1>6, <1>7, <1>8, <1>9, <1>10 DEF ReceiverFollows

(* The configuration of a rover begins.                                     *)
LEMMA RoverStep ==
    ASSUME Faults = {}, receiver \in Configurations, ReceiverFollows, ServiceFrame,
           TurnAt(3), ConfigureRover, Asked("ROVER"), turn \in Nat
    PROVE  ReceiverFollows'
  <1>1. /\ ModeKept /\ OutputKept /\ model' = receiver.mode
        /\ UNCHANGED <<firstTime, surveyAge, rtcmEnabled, misled>>
        /\ Becomes("ROVER", {"NMEA", "SAVE"} \union
                  (IF receiver.mode = "rover" THEN {} ELSE {"MODEL", "RTCM_ROVER"}))
    BY RoverEffect
  <1>2. BitsBelong'
    BY <1>1, AskedAfter DEF ReceiverFollows, BitsBelong, ServiceFrame, BaseConfigured
  <1>3. BitsInTurn'
    <2>1. GoneBy(gnssConfigureRequest', turn')
      BY <1>1 DEF TurnAt, GoneBy, Becomes, Asked
    <2>2. turn' = 4
      BY DEF TurnAt
    <2>3. Asked("MODEL")' /\ (Asked("ROVER")' \/ Asked("BASE")') => turn' <= 2
      BY <1>1, AskedAfter DEF ReceiverFollows, BitsBelong
    <2> QED BY <2>1, <2>2, <2>3, StillInTurn DEF ServiceFrame
  <1>4. FirstBase'
    BY <1>1, AskedAfter DEF ReceiverFollows, FirstBase, ServiceFrame, ModeKept, BaseConfigured
  <1>5. SurveyTimed'
    BY <1>1 DEF ReceiverFollows, SurveyTimed, HoldsSurvey, ModeKept
  <1>6. RoverMode'
    BY <1>1, AskedAfter DEF RoverMode, ModeKept
  <1>7. BaseMode'
    BY DEF ReceiverFollows, BitsBelong, BaseMode, ServiceFrame
  <1>8. RtcmKnown'
    BY <1>1, AskedAfter DEF ReceiverFollows, RtcmKnown
  <1>9. RoverOutput'
    BY <1>1, AskedAfter DEF RoverOutput
  <1>10. BaseOutput'
    BY <1>1, AskedAfter DEF ReceiverFollows, BaseOutput, BaseConfigured, ServiceFrame
  <1> QED BY <1>2, <1>3, <1>4, <1>5, <1>6, <1>7, <1>8, <1>9, <1>10 DEF ReceiverFollows

(* The configuration of a base begins.                                      *)
LEMMA BaseStep ==
    ASSUME Faults = {}, receiver \in Configurations, ReceiverFollows, ServiceFrame,
           TurnAt(4), ConfigureBase, Asked("BASE"), turn \in Nat
    PROVE  ReceiverFollows'
  <1>1. /\ ModeKept /\ OutputKept /\ model' = receiver.mode /\ firstTime' = FALSE
        /\ misled' = (firstTime /\ receiver.mode = Wanted) /\ UNCHANGED <<surveyAge, rtcmEnabled>>
        /\ Becomes("BASE", {"NMEA", "SAVE"} \union
                  (IF ~firstTime /\ receiver.mode = Wanted THEN {} ELSE {"MODEL", "RTCM_BASE"}))
    BY BaseEffect
  <1>2. BitsBelong'
    BY <1>1, AskedAfter DEF ReceiverFollows, BitsBelong, ServiceFrame, BaseConfigured
  <1>3. BitsInTurn'
    <2>1. GoneBy(gnssConfigureRequest', turn')
      BY <1>1 DEF TurnAt, GoneBy, Becomes, Asked
    <2>2. turn' = 5
      BY DEF TurnAt
    <2>3. Asked("MODEL")' /\ (Asked("ROVER")' \/ Asked("BASE")') => turn' <= 2
      BY <1>1, AskedAfter DEF ReceiverFollows, BitsBelong
    <2> QED BY <2>1, <2>2, <2>3, StillInTurn DEF ServiceFrame
  <1>4. FirstBase'
    BY <1>1 DEF FirstBase
  <1>5. SurveyTimed'
    BY <1>1 DEF ReceiverFollows, SurveyTimed, HoldsSurvey, ModeKept
  <1>6. RoverMode'
    BY <1>1, AskedAfter
       DEF ReceiverFollows, RoverMode, RoverShown, WorkingRover, ServiceFrame, ModeKept
  <1>7. BaseMode'
    <2>1. systemState' = "BASE_CONFIG_WAIT" /\ Wanted' = Wanted
      BY DEF ReceiverFollows, BitsBelong, ServiceFrame, Wanted
    <2>2. receiver.mode = Wanted => Runs(Wanted)'
      BY <1>1, <2>1 DEF Runs, HoldsSurvey, ModeKept
    <2>3. ~firstTime /\ receiver.mode = Wanted => ~Asked("MODEL")'
      BY <1>1, AskedAfter DEF ReceiverFollows, BitsInTurn, ServiceFrame, TurnAt
    <2>4. ~misled' /\ model' = Wanted' => Runs(Wanted)' /\ ~Asked("MODEL")'
      BY <1>1, <2>1, <2>2, <2>3
    <2> QED BY <2>1, <2>4 DEF BaseMode
  <1>8. RtcmKnown'
    BY <1>1, AskedAfter DEF ReceiverFollows, RtcmKnown, ModeKept
  <1>9. RoverOutput'
    BY <1>1, AskedAfter DEF RoverOutput
  <1>10. BaseOutput'
    BY <1>1, AskedAfter DEF ReceiverFollows, BitsBelong, RtcmKnown, BaseOutput, Wanted
  <1> QED BY <1>2, <1>3, <1>4, <1>5, <1>6, <1>7, <1>8, <1>9, <1>10 DEF ReceiverFollows

(* A survey is begun.                                                       *)
LEMMA SurveyStep ==
    ASSUME Faults = {}, receiver \in Configurations, ReceiverFollows, ServiceFrame,
           TurnAt(5), SurveyInStart, Asked("BASE_SURVEY"),
           surveyAge \in Nat, observed \in Nat, ObservationSeconds \in Nat
    PROVE  ReceiverFollows'
  <1>1. /\ OutputKept /\ UNCHANGED <<model, firstTime, rtcmEnabled, misled>>
        /\ IF model = "survey" THEN ModeKept /\ UNCHANGED surveyAge
           ELSE receiver'.mode = "survey" /\ surveyAge' = 0 /\ observed' = 0
        /\ Becomes("BASE_SURVEY", {"SAVE"})
    BY SurveyEffect
  <1>2. BitsBelong'
    BY <1>1, AskedAfter DEF ReceiverFollows, BitsBelong, BaseConfigured
  <1>3. BitsInTurn'
    <2>1. GoneBy(gnssConfigureRequest', turn')
      BY <1>1 DEF TurnAt, GoneBy, Becomes, Asked
    <2>2. turn' = 6
      BY DEF TurnAt
    <2>3. Asked("MODEL")' /\ (Asked("ROVER")' \/ Asked("BASE")') => turn' <= 2
      BY <1>1, AskedAfter DEF ReceiverFollows, BitsBelong
    <2> QED BY <2>1, <2>2, <2>3, StillInTurn DEF ServiceFrame
  <1>4. FirstBase'
    BY <1>1 DEF ReceiverFollows, BitsBelong, FirstBase, BaseConfigured
  <1>5. SurveyTimed'
    BY <1>1 DEF ReceiverFollows, SurveyTimed, HoldsSurvey, ModeKept
  <1>6. RoverMode'
    BY DEF ReceiverFollows, BitsBelong, RoverMode, RoverShown, WorkingRover, ServiceFrame
  <1>7. BaseMode'
    BY <1>1
       DEF ReceiverFollows, BitsBelong, BaseMode, Runs, HoldsSurvey, Pending, ServiceFrame, ModeKept
  <1>8. RtcmKnown'
    BY <1>1 DEF ReceiverFollows, BitsBelong, RtcmKnown, BaseOutput, BaseConfigured
  <1>9. RoverOutput'
    BY <1>1, AskedAfter
       DEF ReceiverFollows, RoverOutput, RoverShown, WorkingRover, ServiceFrame, OutputKept
  <1>10. BaseOutput'
    BY <1>1, AskedAfter DEF ReceiverFollows, BaseOutput, BaseConfigured, ServiceFrame, OutputKept
  <1> QED BY <1>2, <1>3, <1>4, <1>5, <1>6, <1>7, <1>8, <1>9, <1>10 DEF ReceiverFollows

(* A fixed base is begun.                                                   *)
LEMMA FixedStep ==
    ASSUME Faults = {}, receiver \in Configurations, ReceiverFollows, ServiceFrame,
           TurnAt(6), FixedBaseStart, Asked("BASE_FIXED"), fixedPosition \in Positions
    PROVE  ReceiverFollows'
  <1>1. /\ OutputKept /\ UNCHANGED <<model, firstTime, surveyAge, rtcmEnabled, misled>>
        /\ IF model = "fixed" THEN ModeKept
              ELSE receiver'.mode = "fixed" /\ receiver'.position = fixedPosition
        /\ Becomes("BASE_FIXED", {"SAVE"})
    BY FixedEffect
  <1>2. BitsBelong'
    BY <1>1, AskedAfter DEF ReceiverFollows, BitsBelong, BaseConfigured
  <1>3. BitsInTurn'
    <2>1. GoneBy(gnssConfigureRequest', turn')
      BY <1>1 DEF TurnAt, GoneBy, Becomes, Asked
    <2>2. turn' = 7
      BY DEF TurnAt
    <2>3. Asked("MODEL")' /\ (Asked("ROVER")' \/ Asked("BASE")') => turn' <= 2
      BY <1>1, AskedAfter DEF ReceiverFollows, BitsBelong
    <2> QED BY <2>1, <2>2, <2>3, StillInTurn DEF ServiceFrame
  <1>4. FirstBase'
    BY <1>1 DEF ReceiverFollows, BitsBelong, FirstBase, BaseConfigured
  <1>5. SurveyTimed'
    BY <1>1, NotSurveyed DEF ReceiverFollows, SurveyTimed, HoldsSurvey, ModeKept
  <1>6. RoverMode'
    BY DEF ReceiverFollows, BitsBelong, RoverMode, RoverShown, WorkingRover, ServiceFrame
  <1>7. BaseMode'
    BY <1>1
       DEF ReceiverFollows, BitsBelong, BaseMode, Runs, HoldsSurvey, Pending, ServiceFrame, ModeKept
  <1>8. RtcmKnown'
    BY <1>1 DEF ReceiverFollows, BitsBelong, RtcmKnown, BaseOutput, BaseConfigured
  <1>9. RoverOutput'
    BY <1>1, AskedAfter
       DEF ReceiverFollows, RoverOutput, RoverShown, WorkingRover, ServiceFrame, OutputKept
  <1>10. BaseOutput'
    BY <1>1, AskedAfter DEF ReceiverFollows, BaseOutput, BaseConfigured, ServiceFrame, OutputKept
  <1> QED BY <1>2, <1>3, <1>4, <1>5, <1>6, <1>7, <1>8, <1>9, <1>10 DEF ReceiverFollows

(* The NMEA messages are set up.                                            *)
LEMMA NmeaStep ==
    ASSUME Faults = {}, receiver \in Configurations, ReceiverFollows, ServiceFrame,
           TurnAt(7), SetMessagesNMEA, Asked("NMEA")
    PROVE  ReceiverFollows'
  <1>1. /\ ModeKept /\ receiver'.output = {"nmea"} /\ rtcmEnabled' = {}
        /\ UNCHANGED <<model, firstTime, surveyAge, misled>>
        /\ Becomes("NMEA", {"SAVE"} \union (RtcmAgain \ {"NMEA"}))
    BY NmeaEffect
  <1>2. BitsBelong'
    BY <1>1, AskedAfter
       DEF ReceiverFollows, BitsBelong, ServiceFrame, BaseConfigured, RtcmAgain, inBaseMode,
           BaseStates
  <1>3. BitsInTurn'
    <2>1. GoneBy(gnssConfigureRequest', turn')
      BY <1>1 DEF TurnAt, GoneBy, Becomes, Asked, RtcmAgain
    <2>2. turn' = 8
      BY DEF TurnAt
    <2>3. Asked("MODEL")' /\ (Asked("ROVER")' \/ Asked("BASE")') => turn' <= 2
      BY <1>1, AskedAfter DEF TurnAt, RtcmAgain
    <2> QED BY <2>1, <2>2, <2>3, StillInTurn DEF ServiceFrame
  <1>4. FirstBase'
    BY <1>1, AskedAfter DEF ReceiverFollows, FirstBase, ServiceFrame, ModeKept, BaseConfigured
  <1>5. SurveyTimed'
    BY <1>1 DEF ReceiverFollows, SurveyTimed, HoldsSurvey, ModeKept
  <1>6. RoverMode'
    BY <1>1, AskedAfter
       DEF ReceiverFollows, RoverMode, RoverShown, WorkingRover, ServiceFrame, ModeKept
  <1>7. BaseMode'
    BY <1>1, AskedAfter
       DEF ReceiverFollows, BaseMode, Runs, HoldsSurvey, Pending, Wanted, ServiceFrame,
           ModeKept, RtcmAgain
  <1>8. RtcmKnown'
    BY <1>1, AskedAfter DEF ReceiverFollows, RtcmKnown, ModeKept, RtcmAgain
  <1>9. RoverOutput'
    BY <1>1 DEF RoverOutput
  <1>10. BaseOutput'
    BY <1>1, AskedAfter
       DEF ReceiverFollows, BaseOutput, BaseConfigured, ServiceFrame, RtcmAgain, inBaseMode,
           BaseStates
  <1> QED BY <1>2, <1>3, <1>4, <1>5, <1>6, <1>7, <1>8, <1>9, <1>10 DEF ReceiverFollows

(* The corrections of a rover are set up.                                   *)
LEMMA RtcmRoverStep ==
    ASSUME Faults = {}, receiver \in Configurations, ReceiverFollows, ServiceFrame,
           TurnAt(8), SetMessagesRTCM("RTCM_ROVER", "rtcm_rover"), Asked("RTCM_ROVER")
    PROVE  ReceiverFollows'
  <1>1. /\ ModeKept /\ receiver'.output = receiver.output \union {"rtcm_rover"}
        /\ rtcmEnabled' = {"rtcm_rover"} /\ UNCHANGED <<model, firstTime, surveyAge, misled>>
        /\ Becomes("RTCM_ROVER", {"SAVE"})
    BY RtcmEffect
  <1>2. BitsBelong'
    BY <1>1, AskedAfter DEF ReceiverFollows, BitsBelong, ServiceFrame, BaseConfigured
  <1>3. BitsInTurn'
    <2>1. GoneBy(gnssConfigureRequest', turn')
      BY <1>1 DEF TurnAt, GoneBy, Becomes, Asked
    <2>2. turn' = 9
      BY DEF TurnAt
    <2>3. Asked("MODEL")' /\ (Asked("ROVER")' \/ Asked("BASE")') => turn' <= 2
      BY <1>1, AskedAfter DEF TurnAt
    <2> QED BY <2>1, <2>2, <2>3, StillInTurn DEF ServiceFrame
  <1>4. FirstBase'
    BY <1>1, AskedAfter DEF ReceiverFollows, FirstBase, ServiceFrame, ModeKept, BaseConfigured
  <1>5. SurveyTimed'
    BY <1>1 DEF ReceiverFollows, SurveyTimed, HoldsSurvey, ModeKept
  <1>6. RoverMode'
    BY <1>1, AskedAfter
       DEF ReceiverFollows, RoverMode, RoverShown, WorkingRover, ServiceFrame, ModeKept
  <1>7. BaseMode'
    BY <1>1, AskedAfter
       DEF ReceiverFollows, BaseMode, Runs, HoldsSurvey, Pending, Wanted, ServiceFrame, ModeKept
  <1>8. RtcmKnown'
    BY <1>1 DEF RtcmKnown
  <1>9. RoverOutput'
    BY <1>1, AskedAfter DEF ReceiverFollows, RoverOutput, RoverShown, WorkingRover, ServiceFrame
  <1>10. BaseOutput'
    BY <1>1, AskedAfter DEF ReceiverFollows, BaseOutput, BaseConfigured, ServiceFrame
  <1> QED BY <1>2, <1>3, <1>4, <1>5, <1>6, <1>7, <1>8, <1>9, <1>10 DEF ReceiverFollows

(* The corrections of a base are set up.                                    *)
LEMMA RtcmBaseStep ==
    ASSUME Faults = {}, receiver \in Configurations, ReceiverFollows, ServiceFrame,
           TurnAt(9), SetMessagesRTCM("RTCM_BASE", "rtcm_base"), Asked("RTCM_BASE")
    PROVE  ReceiverFollows'
  <1>1. /\ ModeKept /\ receiver'.output = receiver.output \union {"rtcm_base"}
        /\ rtcmEnabled' = {"rtcm_base"} /\ UNCHANGED <<model, firstTime, surveyAge, misled>>
        /\ Becomes("RTCM_BASE", {"SAVE"})
    BY RtcmEffect
  <1>2. BitsBelong'
    BY <1>1, AskedAfter DEF ReceiverFollows, BitsBelong, ServiceFrame, BaseConfigured
  <1>3. BitsInTurn'
    <2>1. GoneBy(gnssConfigureRequest', turn')
      BY <1>1 DEF TurnAt, GoneBy, Becomes, Asked
    <2>2. turn' = 10
      BY DEF TurnAt
    <2>3. Asked("MODEL")' /\ (Asked("ROVER")' \/ Asked("BASE")') => turn' <= 2
      BY <1>1, AskedAfter DEF TurnAt
    <2> QED BY <2>1, <2>2, <2>3, StillInTurn DEF ServiceFrame
  <1>4. FirstBase'
    BY <1>1, AskedAfter DEF ReceiverFollows, FirstBase, ServiceFrame, ModeKept, BaseConfigured
  <1>5. SurveyTimed'
    BY <1>1 DEF ReceiverFollows, SurveyTimed, HoldsSurvey, ModeKept
  <1>6. RoverMode'
    BY <1>1, AskedAfter
       DEF ReceiverFollows, RoverMode, RoverShown, WorkingRover, ServiceFrame, ModeKept
  <1>7. BaseMode'
    BY <1>1, AskedAfter
       DEF ReceiverFollows, BaseMode, Runs, HoldsSurvey, Pending, Wanted, ServiceFrame, ModeKept
  <1>8. RtcmKnown'
    BY <1>1 DEF RtcmKnown
  <1>9. RoverOutput'
    BY DEF ReceiverFollows, BitsBelong, RoverOutput, RoverShown, WorkingRover, ServiceFrame
  <1>10. BaseOutput'
    BY <1>1, AskedAfter DEF ReceiverFollows, BaseOutput, BaseConfigured, ServiceFrame
  <1> QED BY <1>2, <1>3, <1>4, <1>5, <1>6, <1>7, <1>8, <1>9, <1>10 DEF ReceiverFollows

(* The configuration is saved.                                              *)
LEMMA SaveStep ==
    ASSUME Faults = {}, receiver \in Configurations, ReceiverFollows, ServiceFrame,
           TurnAt(10), SaveConfiguration, Asked("SAVE")
    PROVE  ReceiverFollows'
  <1>1. /\ ModeKept /\ OutputKept
        /\ UNCHANGED <<model, firstTime, surveyAge, rtcmEnabled, misled>>
        /\ Becomes("SAVE", {})
    BY SaveEffect
  <1>2. BitsBelong'
    BY <1>1, AskedAfter DEF ReceiverFollows, BitsBelong, ServiceFrame, BaseConfigured
  <1>3. BitsInTurn'
    <2>1. GoneBy(gnssConfigureRequest', turn')
      BY <1>1 DEF TurnAt, GoneBy, Becomes, Asked
    <2>2. turn' = 11
      BY DEF TurnAt
    <2>3. Asked("MODEL")' /\ (Asked("ROVER")' \/ Asked("BASE")') => turn' <= 2
      BY <1>1, AskedAfter DEF TurnAt
    <2> QED BY <2>1, <2>2, <2>3, StillInTurn DEF ServiceFrame
  <1>4. FirstBase'
    BY <1>1, AskedAfter DEF ReceiverFollows, FirstBase, ServiceFrame, ModeKept, BaseConfigured
  <1>5. SurveyTimed'
    BY <1>1 DEF ReceiverFollows, SurveyTimed, HoldsSurvey, ModeKept
  <1>6. RoverMode'
    BY <1>1, AskedAfter
       DEF ReceiverFollows, RoverMode, RoverShown, WorkingRover, ServiceFrame, ModeKept
  <1>7. BaseMode'
    BY <1>1, AskedAfter
       DEF ReceiverFollows, BaseMode, Runs, HoldsSurvey, Pending, Wanted, ServiceFrame, ModeKept
  <1>8. RtcmKnown'
    BY <1>1, AskedAfter DEF ReceiverFollows, RtcmKnown, ModeKept
  <1>9. RoverOutput'
    BY <1>1, AskedAfter
       DEF ReceiverFollows, RoverOutput, RoverShown, WorkingRover, ServiceFrame, OutputKept
  <1>10. BaseOutput'
    BY <1>1, AskedAfter DEF ReceiverFollows, BaseOutput, BaseConfigured, ServiceFrame, OutputKept
  <1> QED BY <1>2, <1>3, <1>4, <1>5, <1>6, <1>7, <1>8, <1>9, <1>10 DEF ReceiverFollows

-----------------------------------------------------------------------------
(* A pass of gnssUpdate services the next bit.                              *)
LEMMA SoundService ==
    ASSUME Faults = {}, IInv, ReceiverFollows, GnssUpdateService
    PROVE  ReceiverFollows'
  <1>1. ServiceFrame /\ ServiceNext
    BY DEF GnssUpdateService, ServiceFrame, settings, mailbox, app
  <1>2. DriverTypes /\ UnitTypes
    BY Parts
  <1>3. receiver \in Configurations /\ turn \in Nat
    <2>1. receiver \in Configurations /\ turn \in 0 .. Len(Order) + 1
      BY <1>2 DEF DriverTypes, UnitTypes
    <2> QED BY <2>1
  <1>4. surveyAge \in Nat /\ observed \in Nat /\ ObservationSeconds \in Nat
    <2>1. surveyAge \in 0 .. AgeCap /\ observed \in 0 .. ObservationSeconds + 1
      BY <1>2 DEF DriverTypes
    <2> QED BY <2>1, Limits
  <1>5. GoneBy(gnssConfigureRequest, turn)
    <2>1. \A i \in DOMAIN Order :
             i < turn /\ Order[i] \in gnssConfigureRequest => Order[i] = "MODEL"
      BY <1>1 DEF ReceiverFollows, BitsInTurn, Asked, ServiceFrame
    <2> QED BY <1>3, <2>1, GoneBySpelled
  <1>6. PICK i \in {1, 2, 3, 4, 5, 6, 7, 8, 9, 10} :
              /\ Asked(Order[i]) /\ Service(Order[i]) /\ turn' = i + 1
              /\ i > 1 => ~Asked("ONCE")
              /\ i > 2 /\ Asked("MODEL") => turn > 2
              /\ i > 3 => ~Asked("ROVER")
              /\ i > 4 => ~Asked("BASE")
              /\ i > 5 => ~Asked("BASE_SURVEY")
              /\ i > 6 => ~Asked("BASE_FIXED")
              /\ i > 7 => ~Asked("NMEA")
              /\ i > 8 => ~Asked("RTCM_ROVER")
              /\ i > 9 => ~Asked("RTCM_BASE")
    BY <1>1, <1>3, <1>5, NextInTurn
  <1>7. TurnAt(i)
    BY <1>6 DEF TurnAt
  <1>8. CASE i = 1
    <2>1. ConfigureOnce /\ Asked("ONCE")
      BY <1>6, <1>8, OrderIs DEF Service
    <2> QED BY <1>1, <1>3, <1>7, <1>8, <2>1, OnceStep
  <1>9. CASE i = 2
    <2>1. SetModel /\ Asked("MODEL")
      BY <1>6, <1>9, OrderIs DEF Service
    <2> QED BY <1>1, <1>3, <1>7, <1>9, <2>1, ModelStep
  <1>10. CASE i = 3
    <2>1. ConfigureRover /\ Asked("ROVER")
      BY <1>6, <1>10, OrderIs DEF Service
    <2> QED BY <1>1, <1>3, <1>7, <1>10, <2>1, RoverStep
  <1>11. CASE i = 4
    <2>1. ConfigureBase /\ Asked("BASE")
      BY <1>6, <1>11, OrderIs DEF Service
    <2> QED BY <1>1, <1>3, <1>7, <1>11, <2>1, BaseStep
  <1>12. CASE i = 5
    <2>1. SurveyInStart /\ Asked("BASE_SURVEY")
      BY <1>6, <1>12, OrderIs DEF Service
    <2> QED BY <1>1, <1>3, <1>4, <1>7, <1>12, <2>1, SurveyStep
  <1>13. CASE i = 6
    <2>1. FixedBaseStart /\ Asked("BASE_FIXED")
      BY <1>6, <1>13, OrderIs DEF Service
    <2>2. fixedPosition \in Positions
      BY <1>2 DEF UnitTypes
    <2> QED BY <1>1, <1>3, <1>7, <1>13, <2>1, <2>2, FixedStep
  <1>14. CASE i = 7
    <2>1. SetMessagesNMEA /\ Asked("NMEA")
      BY <1>6, <1>14, OrderIs DEF Service
    <2> QED BY <1>1, <1>3, <1>7, <1>14, <2>1, NmeaStep
  <1>15. CASE i = 8
    <2>1. SetMessagesRTCM("RTCM_ROVER", "rtcm_rover") /\ Asked("RTCM_ROVER")
      BY <1>6, <1>15, OrderIs DEF Service
    <2> QED BY <1>1, <1>3, <1>7, <1>15, <2>1, RtcmRoverStep
  <1>16. CASE i = 9
    <2>1. SetMessagesRTCM("RTCM_BASE", "rtcm_base") /\ Asked("RTCM_BASE")
      BY <1>6, <1>16, OrderIs DEF Service
    <2> QED BY <1>1, <1>3, <1>7, <1>16, <2>1, RtcmBaseStep
  <1>17. CASE i = 10
    <2>1. SaveConfiguration /\ Asked("SAVE")
      BY <1>6, <1>17, OrderIs DEF Service
    <2> QED BY <1>1, <1>3, <1>7, <1>17, <2>1, SaveStep
  <1> QED BY <1>8, <1>9, <1>10, <1>11, <1>12, <1>13, <1>14, <1>15, <1>16, <1>17

(* Steps of the main task that change neither the receiver, its driver, nor *)
(* the state of the unit.                                                   *)
OnlyMain == UNCHANGED <<gnssConfigureRequest, model, firstTime, surveyAge, rtcmEnabled, misled,
                        receiver,
                        observed, fixedBase, systemState, bt>>

(* They keep all but BitsInTurn, if no request of the app is forgotten.     *)
LEMMA OnlyMainKeeps ==
    ASSUME ReceiverFollows, OnlyMain, BitsInTurn', Pending => Pending'
    PROVE  ReceiverFollows'
  <1>1. BitsBelong' /\ FirstBase' /\ SurveyTimed' /\ RtcmKnown'
    BY DEF ReceiverFollows, OnlyMain, BitsBelong, FirstBase, SurveyTimed, HoldsSurvey,
    RtcmKnown, Asked,
           BaseConfigured
  <1>2. RoverMode' /\ RoverOutput' /\ BaseOutput'
    BY DEF ReceiverFollows, OnlyMain, RoverMode, RoverOutput, BaseOutput, RoverShown,
           WorkingRover, Asked, BaseConfigured
  <1>3. BaseMode'
    BY DEF ReceiverFollows, OnlyMain, BaseMode, Runs, HoldsSurvey, Wanted, Asked
  <1> QED BY <1>1, <1>2, <1>3 DEF ReceiverFollows

(* Outside a pass only MODEL is left.                                       *)
LEMMA OutsidePass ==
    ASSUME gnssConfigureRequest' \subseteq {"MODEL"}, main' # "pass"
    PROVE  BitsInTurn'
  BY DEF BitsInTurn, Asked

(* gnssUpdate begins a pass, or has nothing to do.                          *)
LEMMA SoundUpdateBegin ==
    ASSUME IInv, online, ReceiverFollows, GnssUpdateBegin
    PROVE  ReceiverFollows'
  <1>1. OnlyMain /\ main = "gnss" /\ UNCHANGED newSystemStateRequested
    BY DEF GnssUpdateBegin, OnlyMain, driver, settings, mailbox, app
  <1>2. CASE online /\ ~gnssConfigureComplete /\ ~inWebConfigMode
    <2>1. main' = "pass" /\ turn' = 1
      BY <1>2 DEF GnssUpdateBegin
    <2>2. GoneBy(gnssConfigureRequest', turn')
      BY <2>1 DEF GoneBy
    <2>3. BitsInTurn'
      BY <2>1, <2>2, StillInTurn
    <2>4. Pending => Pending'
      BY <1>1 DEF Pending, OnlyMain
    <2> QED BY <1>1, <2>3, <2>4, OnlyMainKeeps
  <1>3. CASE ~(online /\ ~gnssConfigureComplete /\ ~inWebConfigMode)
    <2>1. main' = "state"
      BY <1>3 DEF GnssUpdateBegin
    <2>2. gnssConfigureRequest \subseteq Bits
      BY Parts DEF DriverTypes
    <2>3. CASE gnssConfigureRequest = {}
      <3>1. BitsInTurn'
        BY <1>1, <2>1, <2>3, OutsidePass DEF OnlyMain
      <3> QED BY <1>1, <3>1, OnlyMainKeeps DEF Pending, OnlyMain
    <2>4. CASE inWebConfigMode
      <3>1. /\ ~Asked("ONCE") /\ ~Asked("ROVER") /\ ~Asked("RTCM_ROVER") /\ ~Asked("BASE")
            /\ ~Asked("RTCM_BASE") /\ ~Asked("NMEA") /\ ~Asked("BASE_SURVEY")
            /\ ~Asked("BASE_FIXED") /\ ~Asked("SAVE")
        BY <1>1, <2>4
           DEF ReceiverFollows, BitsBelong, BitsInTurn, inWebConfigMode, WebConfigStates
      <3>2. gnssConfigureRequest \subseteq {"MODEL"}
        BY <2>2, <3>1, BitsAre DEF Asked
      <3>3. BitsInTurn'
        BY <1>1, <2>1, <3>2, OutsidePass DEF OnlyMain
      <3> QED BY <1>1, <3>3, OnlyMainKeeps DEF Pending, OnlyMain
    <2> QED BY <1>3, <2>3, <2>4 DEF gnssConfigureComplete
  <1> QED BY <1>2, <1>3

(* The pass ends: every bit but MODEL has been serviced.                    *)
LEMMA SoundUpdateEnd ==
    ASSUME IInv, ReceiverFollows, GnssUpdateEnd
    PROVE  ReceiverFollows'
  <1>1. /\ OnlyMain /\ main = "pass" /\ main' = "state" /\ UNCHANGED newSystemStateRequested
        /\ \A i \in DOMAIN Order : ~Requested(i)
    BY DEF GnssUpdateEnd, PassDone, OnlyMain, driver, settings, mailbox, app
  <1>2. gnssConfigureRequest \subseteq Bits /\ turn \in Int
    <2>1. gnssConfigureRequest \subseteq Bits /\ turn \in 0 .. Len(Order) + 1
      BY Parts DEF DriverTypes, UnitTypes
    <2> QED BY <2>1
  <1>3. \A i \in DOMAIN Order : Order[i] \in gnssConfigureRequest => Order[i] = "MODEL"
    <2> SUFFICES ASSUME NEW i \in DOMAIN Order, Order[i] \in gnssConfigureRequest
                 PROVE  Order[i] = "MODEL"
      OBVIOUS
    <2>1. i < turn
      BY <1>1, <1>2, OrderIs DEF Requested
    <2> QED BY <1>1, <2>1 DEF ReceiverFollows, BitsInTurn, Asked
  <1>4. gnssConfigureRequest \subseteq {"MODEL"}
    BY <1>2, <1>3 DEF Bits
  <1>5. BitsInTurn'
    BY <1>1, <1>4, OutsidePass DEF OnlyMain
  <1> QED BY <1>1, <1>5, OnlyMainKeeps DEF Pending, OnlyMain

(* stateUpdate begins, or is skipped.                                       *)
LEMMA SoundStateBegin ==
    ASSUME ReceiverFollows, StateUpdateBegin \/ StateUpdateSkipped
    PROVE  ReceiverFollows'
  <1>1. OnlyMain /\ main = "state" /\ main' \in {"take", "switch", "gnss"}
    BY DEF StateUpdateBegin, StateUpdateSkipped, OnlyMain, gnss, driver, settings, app
  <1>2. BitsInTurn'
    BY <1>1, OutsidePass DEF OnlyMain, ReceiverFollows, BitsInTurn
  <1>3. CASE StateUpdateBegin
    <2>1. Pending => Pending'
      BY <1>1, <1>3 DEF StateUpdateBegin, Pending, OnlyMain
    <2> QED BY <1>1, <1>2, <2>1, OnlyMainKeeps
  <1>4. CASE StateUpdateSkipped
    <2>1. Pending => Pending'
      BY <1>1, <1>4 DEF StateUpdateSkipped, Pending, OnlyMain, mailbox
    <2> QED BY <1>1, <1>2, <2>1, OnlyMainKeeps
  <1> QED BY <1>3, <1>4

(* The unit goes to a state without a configuration.                        *)
LEMMA NothingConfigured ==
    ASSUME ReceiverFollows, gnssConfigureRequest \subseteq {"MODEL"},
           systemState' \in Unconfigured,
           main' \in {"switch", "gnss"},
           UNCHANGED <<gnssConfigureRequest, model, firstTime, surveyAge, rtcmEnabled, misled,
                       receiver,
                       observed>>
    PROVE  ReceiverFollows'
  <1>1. /\ systemState' \in {"NOT_SET", "ROVER_NOT_STARTED", "BASE_NOT_STARTED",
                             "WEB_CONFIG_NOT_STARTED", "WEB_CONFIG_WAIT_FOR_NETWORK", "WEB_CONFIG"}
    BY StatesAre
  <1>2. ~RoverShown' /\ ~BaseConfigured' /\ systemState' # "BASE_CONFIG_WAIT"
    BY <1>1 DEF RoverShown, WorkingRover, BaseConfigured
  <1>3. BitsBelong'
    BY <1>2 DEF BitsBelong, Asked
  <1>4. BitsInTurn'
    BY OutsidePass
  <1>5. FirstBase' /\ SurveyTimed'
    BY <1>2 DEF ReceiverFollows, FirstBase, SurveyTimed, HoldsSurvey
  <1>6. RoverMode' /\ RoverOutput' /\ BaseOutput'
    BY <1>2 DEF RoverMode, RoverOutput, BaseOutput
  <1>7. BaseMode'
    BY <1>2 DEF BaseMode, BaseConfigured
  <1>8. RtcmKnown'
    BY DEF ReceiverFollows, RtcmKnown, Asked
  <1> QED BY <1>3, <1>4, <1>5, <1>6, <1>7, <1>8 DEF ReceiverFollows

(* The state the app asked for is taken up.                                 *)
LEMMA SoundTake ==
    ASSUME IInv, ReceiverFollows, TakeRequest
    PROVE  ReceiverFollows'
  <1>1. systemState' \in Unconfigured
    BY Parts DEF TakeRequest, changeState
  <1>2. gnssConfigureRequest \subseteq {"MODEL"}
    BY DEF TakeRequest, ReceiverFollows, BitsInTurn
  <1> QED BY <1>1, <1>2, NothingConfigured DEF TakeRequest, gnss, driver

(* The app's task writes the settings and asks for a state.                 *)
LEMMA SoundReadTask ==
    ASSUME ReceiverFollows, ReadTask
    PROVE  ReceiverFollows'
  <1>1. UNCHANGED <<gnss, systemState, main>>
    BY DEF ReadTask, WorkMode, WifiControl, requestChangeState
  <1>2. Pending'
    BY DEF ReadTask, WorkMode, WifiControl, requestChangeState, StoreState, StoreFlag, Pending
  <1>3. BitsBelong' /\ BitsInTurn' /\ FirstBase' /\ SurveyTimed' /\ RtcmKnown'
    BY <1>1
       DEF gnss, driver, ReceiverFollows, BitsBelong, BitsInTurn, FirstBase, SurveyTimed,
           HoldsSurvey,
           RtcmKnown, Asked, BaseConfigured
  <1>4. RoverMode' /\ RoverOutput' /\ BaseOutput'
    BY <1>1
       DEF gnss, driver, ReceiverFollows, RoverMode, RoverOutput, BaseOutput, RoverShown,
           WorkingRover, Asked, BaseConfigured
  <1>5. BaseMode'
    BY <1>2 DEF BaseMode
  <1> QED BY <1>3, <1>4, <1>5 DEF ReceiverFollows

(* Time passes.                                                             *)
LEMMA SoundTick ==
    ASSUME IInv, ReceiverFollows, Tick
    PROVE  ReceiverFollows'
  <1>1. /\ UNCHANGED <<gnssConfigureRequest, turn, model, firstTime, rtcmEnabled, misled, receiver,
                       fixedBase, systemState, main, newSystemStateRequested, bt>>
        /\ surveyAge' = OneMore(surveyAge, AgeCap)
        /\ observed' = IF HoldsSurvey
                         THEN OneMore(observed, ObservationSeconds + 1) ELSE observed
    BY DEF Tick, settings, mailbox, app
  <1>2. /\ surveyAge \in Nat /\ observed \in Nat /\ observed <= ObservationSeconds + 1
        /\ ObservationSeconds \in Nat /\ AgeCap \in Nat
    BY Parts, Limits DEF DriverTypes
  <1>3. observed > ObservationSeconds => observed' > ObservationSeconds
    BY <1>1, <1>2 DEF OneMore
  <1>4. BitsBelong' /\ BitsInTurn' /\ FirstBase' /\ RtcmKnown'
    BY <1>1
       DEF ReceiverFollows, BitsBelong, BitsInTurn, FirstBase, RtcmKnown, Asked,
           BaseConfigured
  <1>5. SurveyTimed'
    BY <1>1, <1>2 DEF ReceiverFollows, SurveyTimed, HoldsSurvey, OneMore
  <1>6. RoverMode' /\ RoverOutput' /\ BaseOutput'
    BY <1>1
       DEF ReceiverFollows, RoverMode, RoverOutput, BaseOutput, RoverShown, WorkingRover,
           Asked, BaseConfigured
  <1>7. BaseMode'
    BY <1>1, <1>3 DEF ReceiverFollows, BaseMode, Runs, HoldsSurvey, Pending, Wanted, Asked
  <1> QED BY <1>4, <1>5, <1>6, <1>7 DEF ReceiverFollows

(* The receiver ends its survey by itself.                                  *)
LEMMA SoundSettles ==
    ASSUME IInv, ReceiverFollows, ReceiverSettles
    PROVE  ReceiverFollows'
  <1>1. /\ UNCHANGED <<gnssConfigureRequest, turn, model, firstTime, surveyAge, rtcmEnabled, misled,
                       observed, fixedBase, systemState, main, newSystemStateRequested, bt>>
        /\ receiver.mode = "survey"
        /\ receiver' = [receiver EXCEPT !.mode = "fixed", !.position = Surveyed]
    BY DEF ReceiverSettles, SurveyEnds, driver, settings, mailbox, app
  <1>2. receiver \in Configurations
    BY Parts DEF DriverTypes
  <1>3. /\ receiver'.mode = "fixed" /\ receiver'.position = Surveyed
        /\ receiver'.output = receiver.output
    BY <1>1, <1>2, ReceiverChanges
  <1>4. BitsBelong' /\ BitsInTurn' /\ FirstBase' /\ RtcmKnown'
    BY <1>1
       DEF ReceiverFollows, BitsBelong, BitsInTurn, FirstBase, RtcmKnown, Asked,
           BaseConfigured
  <1>5. SurveyTimed'
    BY <1>1 DEF ReceiverFollows, SurveyTimed, HoldsSurvey
  <1>6. RoverMode' /\ RoverOutput' /\ BaseOutput'
    BY <1>1, <1>3
       DEF ReceiverFollows, RoverMode, RoverOutput, BaseOutput, RoverShown, WorkingRover,
           Asked, BaseConfigured
  <1>7. BaseMode'
    BY <1>1, <1>3 DEF ReceiverFollows, BaseMode, Runs, HoldsSurvey, Pending, Wanted, Asked
  <1> QED BY <1>4, <1>5, <1>6, <1>7 DEF ReceiverFollows

-----------------------------------------------------------------------------
(* The four states of a working rover.                                      *)
LEMMA FollowsFix ==
    ASSUME RoverFollowsFix
    PROVE  WorkingRover /\ WorkingRover'
  <1>1. PICK fix \in {"none", "fix", "float", "rtk"} :
           changeState(
             CASE fix = "none" -> "ROVER_NO_FIX"
               [] fix # "none" /\ systemState = "ROVER_NO_FIX" -> "ROVER_FIX"
               [] fix = "fix" /\ systemState # "ROVER_NO_FIX" -> "ROVER_FIX"
               [] fix = "float" /\ systemState # "ROVER_NO_FIX" -> "ROVER_RTK_FLOAT"
               [] fix = "rtk" /\ systemState # "ROVER_NO_FIX" -> "ROVER_RTK_FIX")
    BY DEF RoverFollowsFix
  <1>2. systemState' \in {"ROVER_NO_FIX", "ROVER_FIX", "ROVER_RTK_FLOAT", "ROVER_RTK_FIX"}
    <2>1. CASE fix = "none"
      BY <1>1 DEF changeState
    <2>2. CASE fix # "none" /\ systemState = "ROVER_NO_FIX"
      BY <1>1 DEF changeState
    <2>3. CASE fix = "fix" /\ systemState # "ROVER_NO_FIX"
      BY <1>1 DEF changeState
    <2>4. CASE fix = "float" /\ systemState # "ROVER_NO_FIX"
      BY <1>1 DEF changeState
    <2>5. CASE fix = "rtk" /\ systemState # "ROVER_NO_FIX"
      BY <1>1 DEF changeState
    <2> QED BY <2>1, <2>2, <2>3, <2>4, <2>5
  <1> QED BY <1>2 DEF RoverFollowsFix, WorkingRover

(* What every case of the switch leaves alone.                              *)
SwitchKept ==
    /\ main = "switch" /\ main' = "gnss"
    /\ UNCHANGED <<model, firstTime, surveyAge, rtcmEnabled, misled, fixedBase,
                   newSystemStateRequested, bt>>
(* A step of the unit leaves the receiver alone.                            *)
ReceiverKept == receiver' = receiver /\ observed' = observed

(* A case that asks for nothing, or for what belongs to the state it goes   *)
(* to, keeps the parts that are about the receiver alone.                   *)
LEMMA SwitchKeeps ==
    ASSUME ReceiverFollows, SwitchKept, ReceiverKept,
           gnssConfigureRequest \subseteq gnssConfigureRequest', Asked("SAVE")' => Asked("SAVE")
    PROVE  /\ gnssConfigureRequest \subseteq {"MODEL"}
           /\ BitsInTurn' /\ SurveyTimed' /\ RtcmKnown'
  BY DEF ReceiverFollows, BitsInTurn, SurveyTimed, HoldsSurvey, RtcmKnown, Asked, SwitchKept,
  ReceiverKept

(* The first state asks for the basic configuration.                        *)
LEMMA SwitchNotSet ==
    ASSUME online, ReceiverFollows, SwitchKept, NotSet
    PROVE  ReceiverFollows'
  <1>1. /\ ReceiverKept
        /\ systemState = "NOT_SET" /\ systemState' = "ROVER_NOT_STARTED"
        /\ gnssConfigureRequest' = gnssConfigureRequest \union {"ONCE"}
    BY DEF NotSet, gnssConfigure, changeState, KeepReceiver, ReceiverKept
  <1>2. /\ gnssConfigureRequest \subseteq {"MODEL"}
        /\ BitsInTurn' /\ SurveyTimed' /\ RtcmKnown'
    <2>1. gnssConfigureRequest \subseteq gnssConfigureRequest'
      BY <1>1
    <2>2. Asked("SAVE")' => Asked("SAVE")
      BY <1>1 DEF Asked
    <2> QED BY <1>1, <2>2, SwitchKeeps
  <1>3. BitsBelong'
    BY <1>1, <1>2 DEF BitsBelong, BaseConfigured, Asked
  <1>4. FirstBase'
    BY <1>1 DEF ReceiverFollows, FirstBase, BaseConfigured, SwitchKept, ReceiverKept
  <1>5. RoverMode'
    BY <1>1 DEF RoverMode, RoverShown, WorkingRover
  <1>6. BaseMode'
    BY <1>1 DEF BaseMode
  <1>7. RoverOutput'
    BY <1>1 DEF RoverOutput, RoverShown, WorkingRover
  <1>8. BaseOutput'
    BY <1>1 DEF BaseOutput, BaseConfigured
  <1> QED BY <1>2, <1>3, <1>4, <1>5, <1>6, <1>7, <1>8 DEF ReceiverFollows

(* A rover asks for its configuration.                                      *)
LEMMA SwitchRoverNotStarted ==
    ASSUME online, ReceiverFollows, SwitchKept, RoverNotStarted
    PROVE  ReceiverFollows'
  <1>1. /\ ReceiverKept
        /\ systemState = "ROVER_NOT_STARTED" /\ systemState' = "ROVER_CONFIG_WAIT"
        /\ gnssConfigureRequest' = gnssConfigureRequest \union {"ROVER"}
    BY DEF RoverNotStarted, gnssConfigure, changeState, KeepReceiver, ReceiverKept
  <1>2. /\ gnssConfigureRequest \subseteq {"MODEL"}
        /\ BitsInTurn' /\ SurveyTimed' /\ RtcmKnown'
    <2>1. gnssConfigureRequest \subseteq gnssConfigureRequest'
      BY <1>1
    <2>2. Asked("SAVE")' => Asked("SAVE")
      BY <1>1 DEF Asked
    <2> QED BY <1>1, <2>2, SwitchKeeps
  <1>3. BitsBelong'
    BY <1>1, <1>2 DEF BitsBelong, BaseConfigured, Asked
  <1>4. FirstBase'
    BY <1>1 DEF ReceiverFollows, FirstBase, BaseConfigured, SwitchKept, ReceiverKept
  <1>5. RoverMode'
    BY <1>1 DEF RoverMode, Asked
  <1>6. BaseMode'
    BY <1>1 DEF BaseMode
  <1>7. RoverOutput'
    BY <1>1 DEF RoverOutput, Asked
  <1>8. BaseOutput'
    BY <1>1 DEF BaseOutput, BaseConfigured
  <1> QED BY <1>2, <1>3, <1>4, <1>5, <1>6, <1>7, <1>8 DEF ReceiverFollows

(* A rover works once it is configured.                                     *)
LEMMA SwitchRoverConfigWait ==
    ASSUME online, ReceiverFollows, SwitchKept, RoverConfigWait
    PROVE  ReceiverFollows'
  <1>1. /\ ReceiverKept
        /\ systemState = "ROVER_CONFIG_WAIT"
        /\ gnssConfigureRequest' = gnssConfigureRequest
        /\ \/ systemState' = "ROVER_CONFIG_WAIT"
           \/ systemState' = "ROVER_NO_FIX" /\ gnssConfigureRequest = {}
    BY DEF RoverConfigWait, changeState, KeepReceiver, ReceiverKept, gnssConfigureComplete
  <1>2. /\ gnssConfigureRequest \subseteq {"MODEL"}
        /\ BitsInTurn' /\ SurveyTimed' /\ RtcmKnown'
    <2>1. gnssConfigureRequest \subseteq gnssConfigureRequest'
      BY <1>1
    <2>2. Asked("SAVE")' => Asked("SAVE")
      BY <1>1 DEF Asked
    <2> QED BY <1>1, <2>2, SwitchKeeps
  <1>3. BitsBelong'
    BY <1>1, <1>2 DEF BitsBelong, BaseConfigured, Asked
  <1>4. FirstBase'
    BY <1>1 DEF ReceiverFollows, FirstBase, BaseConfigured, SwitchKept, ReceiverKept
  <1>5. RoverMode'
    BY <1>1 DEF ReceiverFollows, RoverMode, RoverShown, Asked, ReceiverKept
  <1>6. BaseMode'
    BY <1>1 DEF BaseMode
  <1>7. RoverOutput'
    BY <1>1 DEF ReceiverFollows, RoverOutput, RoverShown, Asked, ReceiverKept
  <1>8. BaseOutput'
    BY <1>1 DEF BaseOutput, BaseConfigured
  <1> QED BY <1>2, <1>3, <1>4, <1>5, <1>6, <1>7, <1>8 DEF ReceiverFollows

(* A working rover goes on working.                                         *)
LEMMA SwitchRoverFollowsFix ==
    ASSUME online, ReceiverFollows, SwitchKept, RoverFollowsFix
    PROVE  ReceiverFollows'
  <1>1. /\ ReceiverKept
        /\ WorkingRover /\ WorkingRover'
        /\ gnssConfigureRequest' = gnssConfigureRequest
    BY FollowsFix DEF RoverFollowsFix, KeepReceiver, ReceiverKept
  <1>2. /\ gnssConfigureRequest \subseteq {"MODEL"}
        /\ BitsInTurn' /\ SurveyTimed' /\ RtcmKnown'
    <2>1. gnssConfigureRequest \subseteq gnssConfigureRequest'
      BY <1>1
    <2>2. Asked("SAVE")' => Asked("SAVE")
      BY <1>1 DEF Asked
    <2> QED BY <1>1, <2>2, SwitchKeeps
  <1>3. BitsBelong'
    BY <1>1, <1>2 DEF BitsBelong, BaseConfigured, Asked, WorkingRover
  <1>4. FirstBase'
    BY <1>1
       DEF ReceiverFollows, FirstBase, BaseConfigured, SwitchKept, ReceiverKept,
           WorkingRover
  <1>5. RoverMode'
    BY <1>1 DEF ReceiverFollows, RoverMode, RoverShown, Asked, ReceiverKept
  <1>6. BaseMode'
    BY <1>1 DEF BaseMode, WorkingRover
  <1>7. RoverOutput'
    BY <1>1 DEF ReceiverFollows, RoverOutput, RoverShown, Asked, ReceiverKept
  <1>8. BaseOutput'
    BY <1>1 DEF BaseOutput, BaseConfigured, WorkingRover
  <1> QED BY <1>2, <1>3, <1>4, <1>5, <1>6, <1>7, <1>8 DEF ReceiverFollows

(* A base asks for its configuration.                                       *)
LEMMA SwitchBaseNotStarted ==
    ASSUME online, ReceiverFollows, SwitchKept, BaseNotStarted
    PROVE  ReceiverFollows'
  <1>1. /\ ReceiverKept
        /\ systemState = "BASE_NOT_STARTED" /\ systemState' = "BASE_CONFIG_WAIT"
        /\ gnssConfigureRequest' = gnssConfigureRequest \union {"BASE"}
    BY DEF BaseNotStarted, gnssConfigure, changeState, KeepReceiver, ReceiverKept
  <1>2. /\ gnssConfigureRequest \subseteq {"MODEL"}
        /\ BitsInTurn' /\ SurveyTimed' /\ RtcmKnown'
    <2>1. gnssConfigureRequest \subseteq gnssConfigureRequest'
      BY <1>1
    <2>2. Asked("SAVE")' => Asked("SAVE")
      BY <1>1 DEF Asked
    <2> QED BY <1>1, <2>2, SwitchKeeps
  <1>3. BitsBelong'
    BY <1>1, <1>2 DEF BitsBelong, BaseConfigured, Asked
  <1>4. FirstBase'
    BY <1>1 DEF ReceiverFollows, FirstBase, BaseConfigured, Asked, SwitchKept, ReceiverKept
  <1>5. RoverMode'
    BY <1>1 DEF RoverMode, RoverShown, WorkingRover
  <1>6. BaseMode'
    BY <1>1 DEF BaseMode, Asked
  <1>7. RoverOutput'
    BY <1>1 DEF RoverOutput, RoverShown, WorkingRover
  <1>8. BaseOutput'
    BY <1>1 DEF BaseOutput, Asked
  <1> QED BY <1>2, <1>3, <1>4, <1>5, <1>6, <1>7, <1>8 DEF ReceiverFollows

(* A base that is configured goes on to its survey or to its fixed position.*)
LEMMA SwitchBaseConfigWait ==
    ASSUME online, ReceiverFollows, SwitchKept, BaseConfigWait
    PROVE  ReceiverFollows'
  <1>1. /\ ReceiverKept
        /\ systemState = "BASE_CONFIG_WAIT"
        /\ \/ systemState' = "BASE_CONFIG_WAIT" /\ gnssConfigureRequest' = gnssConfigureRequest
           \/ /\ gnssConfigureRequest = {} /\ ~fixedBase
              /\ systemState' = "BASE_TEMP_SETTLE" /\ gnssConfigureRequest' = {}
           \/ /\ gnssConfigureRequest = {} /\ fixedBase
              /\ systemState' = "BASE_FIXED_NOT_STARTED" /\ gnssConfigureRequest' = {"BASE_FIXED"}
    BY DEF BaseConfigWait, gnssConfigure, changeState, KeepReceiver, ReceiverKept,
           gnssConfigureComplete
  <1>2. /\ gnssConfigureRequest \subseteq {"MODEL"}
        /\ BitsInTurn' /\ SurveyTimed' /\ RtcmKnown'
    <2>1. gnssConfigureRequest \subseteq gnssConfigureRequest'
      BY <1>1
    <2>2. Asked("SAVE")' => Asked("SAVE")
      BY <1>1 DEF Asked
    <2> QED BY <1>1, <2>2, SwitchKeeps
  <1>3. BitsBelong'
    BY <1>1, <1>2 DEF BitsBelong, BaseConfigured, Asked
  <1>4. FirstBase'
    BY <1>1, <1>2 DEF ReceiverFollows, FirstBase, Asked, SwitchKept
  <1>5. RoverMode'
    BY <1>1 DEF RoverMode, RoverShown, WorkingRover
  <1>6. BaseMode'
    BY <1>1
       DEF ReceiverFollows, BaseMode, Runs, HoldsSurvey, Pending, Wanted, Asked, SwitchKept,
           ReceiverKept
  <1>7. RoverOutput'
    BY <1>1 DEF RoverOutput, RoverShown, WorkingRover
  <1>8. BaseOutput'
    BY <1>1 DEF ReceiverFollows, BaseOutput, Asked, SwitchKept, ReceiverKept
  <1> QED BY <1>2, <1>3, <1>4, <1>5, <1>6, <1>7, <1>8 DEF ReceiverFollows

(* A settled base asks for its survey.                                      *)
LEMMA SwitchBaseTempSettle ==
    ASSUME online, ReceiverFollows, SwitchKept, BaseTempSettle
    PROVE  ReceiverFollows'
  <1>1. /\ ReceiverKept
        /\ systemState = "BASE_TEMP_SETTLE"
        /\ \/ systemState' = "BASE_TEMP_SETTLE" /\ gnssConfigureRequest' = gnssConfigureRequest
           \/ /\ systemState' = "BASE_TEMP_SURVEY_STARTED"
              /\ gnssConfigureRequest' = gnssConfigureRequest \union {"BASE_SURVEY"}
    BY DEF BaseTempSettle, gnssConfigure, changeState, KeepReceiver, ReceiverKept
  <1>2. /\ gnssConfigureRequest \subseteq {"MODEL"}
        /\ BitsInTurn' /\ SurveyTimed' /\ RtcmKnown'
    <2>1. gnssConfigureRequest \subseteq gnssConfigureRequest'
      BY <1>1
    <2>2. Asked("SAVE")' => Asked("SAVE")
      BY <1>1 DEF Asked
    <2> QED BY <1>1, <2>2, SwitchKeeps
  <1>3. BitsBelong'
    BY <1>1 DEF ReceiverFollows, BitsBelong, BaseConfigured, Asked
  <1>4. FirstBase'
    BY <1>1 DEF ReceiverFollows, FirstBase, BaseConfigured, SwitchKept
  <1>5. RoverMode'
    BY <1>1 DEF RoverMode, RoverShown, WorkingRover
  <1>6. BaseMode'
    BY <1>1
       DEF ReceiverFollows, BaseMode, Runs, HoldsSurvey, Pending, Asked, SwitchKept, ReceiverKept
  <1>7. RoverOutput'
    BY <1>1 DEF RoverOutput, RoverShown, WorkingRover
  <1>8. BaseOutput'
    BY <1>1 DEF ReceiverFollows, BaseOutput, BaseConfigured, Asked, SwitchKept, ReceiverKept
  <1> QED BY <1>2, <1>3, <1>4, <1>5, <1>6, <1>7, <1>8 DEF ReceiverFollows

(* A fixed base transmits once it is configured.                            *)
LEMMA SwitchBaseFixedNotStarted ==
    ASSUME online, ReceiverFollows, SwitchKept, BaseFixedNotStarted
    PROVE  ReceiverFollows'
  <1>1. /\ ReceiverKept
        /\ systemState = "BASE_FIXED_NOT_STARTED"
        /\ gnssConfigureRequest' = gnssConfigureRequest
        /\ \/ systemState' = "BASE_FIXED_NOT_STARTED"
           \/ systemState' = "BASE_FIXED_TRANSMITTING" /\ gnssConfigureRequest = {}
    BY DEF BaseFixedNotStarted, changeState, KeepReceiver, ReceiverKept, gnssConfigureComplete
  <1>2. /\ gnssConfigureRequest \subseteq {"MODEL"}
        /\ BitsInTurn' /\ SurveyTimed' /\ RtcmKnown'
    <2>1. gnssConfigureRequest \subseteq gnssConfigureRequest'
      BY <1>1
    <2>2. Asked("SAVE")' => Asked("SAVE")
      BY <1>1 DEF Asked
    <2> QED BY <1>1, <2>2, SwitchKeeps
  <1>3. BitsBelong'
    BY <1>1 DEF ReceiverFollows, BitsBelong, BaseConfigured, Asked
  <1>4. FirstBase'
    BY <1>1 DEF ReceiverFollows, FirstBase, BaseConfigured, SwitchKept
  <1>5. RoverMode'
    BY <1>1 DEF RoverMode, RoverShown, WorkingRover
  <1>6. BaseMode'
    BY <1>1
       DEF ReceiverFollows, BaseMode, Runs, HoldsSurvey, Pending, Asked, SwitchKept, ReceiverKept
  <1>7. RoverOutput'
    BY <1>1 DEF RoverOutput, RoverShown, WorkingRover
  <1>8. BaseOutput'
    BY <1>1 DEF ReceiverFollows, BaseOutput, BaseConfigured, Asked, SwitchKept, ReceiverKept
  <1> QED BY <1>2, <1>3, <1>4, <1>5, <1>6, <1>7, <1>8 DEF ReceiverFollows

(* A base or the web configuration goes on.                                 *)
LEMMA SwitchRest ==
    ASSUME online, ReceiverFollows, SwitchKept, Rest
    PROVE  ReceiverFollows'
  <1>1. /\ ReceiverKept
        /\ systemState' = systemState
        /\ gnssConfigureRequest' = gnssConfigureRequest
    BY DEF Rest, KeepReceiver, ReceiverKept
  <1>2. /\ gnssConfigureRequest \subseteq {"MODEL"}
        /\ BitsInTurn' /\ SurveyTimed' /\ RtcmKnown'
    <2>1. gnssConfigureRequest \subseteq gnssConfigureRequest'
      BY <1>1
    <2>2. Asked("SAVE")' => Asked("SAVE")
      BY <1>1 DEF Asked
    <2> QED BY <1>1, <2>2, SwitchKeeps
  <1>3. BitsBelong'
    BY <1>1 DEF ReceiverFollows, BitsBelong, BaseConfigured, Asked
  <1>4. FirstBase'
    BY <1>1 DEF ReceiverFollows, FirstBase, BaseConfigured, Asked, SwitchKept, ReceiverKept
  <1>5. RoverMode'
    BY <1>1 DEF ReceiverFollows, RoverMode, RoverShown, WorkingRover, Asked, ReceiverKept
  <1>6. BaseMode'
    BY <1>1
       DEF ReceiverFollows, BaseMode, Runs, HoldsSurvey, Pending, Wanted, Asked, SwitchKept,
           ReceiverKept
  <1>7. RoverOutput'
    BY <1>1 DEF ReceiverFollows, RoverOutput, RoverShown, WorkingRover, Asked, ReceiverKept
  <1>8. BaseOutput'
    BY <1>1 DEF ReceiverFollows, BaseOutput, BaseConfigured, Asked, SwitchKept, ReceiverKept
  <1> QED BY <1>2, <1>3, <1>4, <1>5, <1>6, <1>7, <1>8 DEF ReceiverFollows

(* A survey is complete, is given up, or goes on.                           *)
LEMMA SwitchBaseTempSurveyStarted ==
    ASSUME IInv, online, ReceiverFollows, SwitchKept, Faults = {}, BaseTempSurveyStarted
    PROVE  ReceiverFollows'
  <1>1. /\ systemState = "BASE_TEMP_SURVEY_STARTED" /\ gnssConfigureRequest' = gnssConfigureRequest
        /\ gnssConfigureRequest \subseteq {"MODEL"}
        /\ gnssConfigureRequest' \subseteq {"MODEL"}
    BY DEF BaseTempSurveyStarted, SwitchKept, ReceiverFollows, BitsInTurn
  <1>2. gnssConfigureRequest = {}
    BY <1>1 DEF ReceiverFollows, BitsBelong, BaseConfigured, Asked
  <1>3. BitsInTurn'
    BY <1>1, OutsidePass DEF SwitchKept
  <1>4. BitsBelong'
    BY <1>1, <1>2 DEF BitsBelong, Asked
  <1>5. receiver \in Configurations
    BY Parts DEF DriverTypes
  <1>6. surveyAge \in Nat /\ observed \in Nat /\ ObservationSeconds \in Nat
    <2>1. surveyAge \in 0 .. AgeCap /\ observed \in 0 .. ObservationSeconds + 1
      BY Parts DEF DriverTypes
    <2> QED BY <2>1, Limits
  <1>7. ASSUME systemState' \in {"BASE_TEMP_SURVEY_STARTED", "BASE_TEMP_TRANSMITTING"},
               ReceiverKept,
               systemState' = "BASE_TEMP_TRANSMITTING" => isSurveyInComplete
        PROVE  ReceiverFollows'
    <2>1. FirstBase' /\ SurveyTimed' /\ RtcmKnown'
      BY <1>1, <1>7
         DEF ReceiverFollows, FirstBase, SurveyTimed, HoldsSurvey, RtcmKnown, BaseConfigured, Asked,
             SwitchKept, ReceiverKept
    <2>2. RoverMode' /\ RoverOutput'
      BY <1>7 DEF RoverMode, RoverOutput, RoverShown, WorkingRover
    <2>3. ~Pending /\ ~misled => HoldsSurvey
      BY <1>1 DEF ReceiverFollows, BaseMode, Asked
    <2>4. HoldsSurvey /\ isSurveyInComplete => observed > ObservationSeconds
      BY <1>6 DEF ReceiverFollows, SurveyTimed, isSurveyInComplete
    <2>5. BaseMode'
      BY <1>7, <2>3, <2>4 DEF BaseMode, Pending, HoldsSurvey, SwitchKept, ReceiverKept
    <2>6. BaseOutput'
      BY <1>1, <1>7
         DEF ReceiverFollows, BaseOutput, BaseConfigured, Asked, SwitchKept, ReceiverKept
    <2> QED BY <1>3, <1>4, <2>1, <2>2, <2>5, <2>6 DEF ReceiverFollows
  <1>8. ASSUME systemState' = "ROVER_NOT_STARTED", receiver'.mode = "rover",
               receiver'.position = NoPosition
        PROVE  ReceiverFollows'
    <2>1. FirstBase' /\ SurveyTimed' /\ RtcmKnown'
      BY <1>1, <1>8, NotSurveyed
         DEF ReceiverFollows, FirstBase, SurveyTimed, HoldsSurvey, RtcmKnown, BaseConfigured, Asked,
             SwitchKept
    <2>2. RoverMode' /\ RoverOutput' /\ BaseMode' /\ BaseOutput'
      BY <1>8
         DEF RoverMode, RoverOutput, BaseMode, BaseOutput, RoverShown, WorkingRover,
             BaseConfigured
    <2> QED BY <1>3, <1>4, <2>1, <2>2 DEF ReceiverFollows
  <1>9. CASE isSurveyInComplete /\ changeState("BASE_TEMP_TRANSMITTING") /\ KeepReceiver
    BY <1>7, <1>9 DEF changeState, KeepReceiver, ReceiverKept
  <1>10. CASE SurveyInReset /\ changeState("ROVER_NOT_STARTED")
    <2>1. PICK outcome \in Outcomes : ModeCommand(Executed(outcome), "rover", NoPosition)
      BY <1>10 DEF SurveyInReset
    <2>2. Executed(outcome) = TRUE
      BY ObedientOutcomes DEF Executed
    <2>3. receiver'.mode = "rover" /\ receiver'.position = NoPosition
      BY <1>5, <2>1, <2>2, ModeCommanded
    <2> QED BY <1>8, <1>10, <2>3 DEF changeState
  <1>11. CASE KeepReceiver /\ systemState' = systemState
    BY <1>1, <1>7, <1>11 DEF KeepReceiver, ReceiverKept
  <1> QED BY <1>9, <1>10, <1>11 DEF BaseTempSurveyStarted

(* The web configuration begins.                                            *)
LEMMA SwitchWeb ==
    ASSUME ReceiverFollows, SwitchKept, WebConfigNotStarted \/ WebConfigWaitForNetwork
    PROVE  ReceiverFollows'
  <1>1. ReceiverKept /\ gnssConfigureRequest' = gnssConfigureRequest
    BY DEF WebConfigNotStarted, WebConfigWaitForNetwork, KeepReceiver, ReceiverKept
  <1>2. systemState' \in Unconfigured
    BY StatesAre DEF WebConfigNotStarted, WebConfigWaitForNetwork, changeState
  <1>3. gnssConfigureRequest \subseteq {"MODEL"}
    BY DEF SwitchKept, ReceiverFollows, BitsInTurn
  <1> QED BY <1>1, <1>2, <1>3, NothingConfigured DEF SwitchKept, ReceiverKept

(* The state machine takes a step.                                          *)
LEMMA SoundSwitch ==
    ASSUME Faults = {}, IInv, online, ReceiverFollows, StateSwitch
    PROVE  ReceiverFollows'
  <1>1. SwitchKept
    BY DEF StateSwitch, SwitchFrame, SwitchKept, driver, settings, mailbox, app
  <1> QED
    BY <1>1, SwitchNotSet, SwitchRoverNotStarted, SwitchRoverConfigWait,
       SwitchRoverFollowsFix, SwitchBaseNotStarted, SwitchBaseConfigWait,
       SwitchBaseTempSettle, SwitchBaseTempSurveyStarted, SwitchBaseFixedNotStarted,
       SwitchWeb, SwitchRest
       DEF StateSwitch

(* Nothing is asked for at first.                                           *)
LEMMA SoundInit ==
    ASSUME Init
    PROVE  ReceiverFollows
  <1>1. /\ gnssConfigureRequest = {} /\ systemState = "NOT_SET" /\ main = "state"
        /\ firstTime = TRUE /\ surveyAge = 0 /\ observed = 0
    BY DEF Init, GnssInit
  <1>2. BitsBelong /\ BitsInTurn
    BY <1>1 DEF BitsBelong, BitsInTurn, Asked
  <1>3. FirstBase /\ SurveyTimed /\ RtcmKnown
    BY <1>1 DEF FirstBase, SurveyTimed, RtcmKnown, BaseConfigured
  <1>4. RoverMode /\ RoverOutput /\ BaseMode /\ BaseOutput
    BY <1>1
       DEF RoverMode, RoverOutput, BaseMode, BaseOutput, RoverShown, WorkingRover,
           BaseConfigured
  <1> QED BY <1>2, <1>3, <1>4 DEF ReceiverFollows

(* A step that changes nothing.                                             *)
LEMMA SoundStutter ==
    ASSUME ReceiverFollows, UNCHANGED vars
    PROVE  ReceiverFollows'
  <1>1. /\ UNCHANGED <<gnssConfigureRequest, turn, model, firstTime, surveyAge, rtcmEnabled, misled,
                       receiver, observed, fixedBase>>
        /\ UNCHANGED <<systemState, main, newSystemStateRequested, bt>>
    BY DEF vars, gnss, driver, settings, mailbox, app
  <1>2. OnlyMain /\ (Pending => Pending')
    BY <1>1 DEF OnlyMain, Pending
  <1>3. BitsInTurn'
    BY <1>1 DEF ReceiverFollows, BitsInTurn, Asked
  <1> QED BY <1>2, <1>3, OnlyMainKeeps

(* With a receiver that does what it is told, whatever it powered up as: it *)
(* follows what a unit that is online shows.                                *)
THEOREM SoundReceiver ==
    ASSUME Faults = {}
    PROVE  Spec => [](IInv /\ SoundInv)
  <1>1. Init => IInv /\ SoundInv
    BY InitialStep, SoundInit DEF SoundInv
  <1>2. IInv /\ SoundInv /\ [Next]_vars => (IInv /\ SoundInv)'
    <2> SUFFICES ASSUME IInv, SoundInv, [Next]_vars
                 PROVE  IInv' /\ SoundInv'
      OBVIOUS
    <2>1. IInv'
      BY StateUpdateStep, GnssUpdateStep, ReadTaskStep, TickStep, SettlesStep, StutterStep
       DEF Next
    <2>2. ASSUME online PROVE ReceiverFollows'
      <3>1. ReceiverFollows
        BY <2>2 DEF SoundInv
      <3>2. CASE StateUpdate \/ StateUpdateSkipped
        BY <2>2, <3>1, <3>2, SoundStateBegin, SoundTake, SoundSwitch DEF StateUpdate
      <3>3. CASE GnssUpdate
        BY <2>2, <3>1, <3>3, SoundUpdateBegin, SoundService, SoundUpdateEnd DEF GnssUpdate
      <3>4. CASE ReadTask \/ Tick \/ ReceiverSettles \/ UNCHANGED vars
        BY <3>1, <3>4, SoundReadTask, SoundTick, SoundSettles, SoundStutter
      <3> QED BY <3>2, <3>3, <3>4 DEF Next
    <2>3. online' = online
      BY DEF Next, StateUpdate, StateUpdateBegin, TakeRequest, StateSwitch, SwitchFrame,
             StateUpdateSkipped, GnssUpdate, GnssUpdateBegin, GnssUpdateService,
             GnssUpdateEnd, ReadTask, WorkMode, WifiControl, requestChangeState, Tick,
             ReceiverSettles, vars
    <2> QED BY <2>1, <2>2, <2>3 DEF SoundInv
  <1> QED BY <1>1, <1>2, PTL DEF Spec

(* When all is settled nothing is asked for or on its way.                  *)
LEMMA WhenSettled ==
    ASSUME SoundInv, Settled
    PROVE  ReceiverFollows /\ ~Pending /\ \A bit : ~Asked(bit)
  BY DEF SoundInv, Settled, Pending, Asked, gnssConfigureComplete

(* A working rover's receiver is a rover, whatever modes the app asked for  *)
(* before and at whatever moment its last command came in.                  *)
THEOREM ShownRoverIsRover ==
    ASSUME Faults = {}
    PROVE  Spec => []RoverConfigured
  <1>1. SoundInv => RoverConfigured
    <2> SUFFICES ASSUME SoundInv, Settled, WorkingRover PROVE receiver.mode = "rover"
      BY DEF RoverConfigured
    <2> QED BY WhenSettled DEF ReceiverFollows, RoverMode, RoverShown
  <1> QED BY <1>1, SoundReceiver, PTL

(* A unit that transmits as a fixed base runs a receiver in that mode,      *)
(* unless the first base was asked for while the receiver still ran one of  *)
(* that kind from before it was powered up.                                 *)
THEOREM ShownFixedBaseRuns ==
    ASSUME Faults = {}
    PROVE  Spec => []FixedBaseRuns
  <1>1. SoundInv => FixedBaseRuns
    <2> SUFFICES ASSUME SoundInv, Settled, systemState = "BASE_FIXED_TRANSMITTING"
                 PROVE  receiver.mode = "fixed" \/ misled
      BY DEF FixedBaseRuns
    <2> QED BY WhenSettled DEF ReceiverFollows, BaseMode
  <1> QED BY <1>1, SoundReceiver, PTL

(* A unit that announced the end of its survey has, with that exception, a  *)
(* receiver that began a survey more than observationSeconds ago and still  *)
(* runs it, or is a fixed base at the position it found.                    *)
THEOREM ShownSurveyRan ==
    ASSUME Faults = {}
    PROVE  Spec => []SurveyRan
  <1>1. SoundInv => SurveyRan
    <2> SUFFICES ASSUME SoundInv, Settled, systemState = "BASE_TEMP_TRANSMITTING"
                 PROVE  (HoldsSurvey /\ observed > ObservationSeconds) \/ misled
      BY DEF SurveyRan
    <2> QED BY WhenSettled DEF ReceiverFollows, BaseMode
  <1> QED BY <1>1, SoundReceiver, PTL

(* The message groups the receiver puts out are those of the mode shown.    *)
THEOREM ShownOutput ==
    ASSUME Faults = {}
    PROVE  Spec => []OutputAsShown
  <1>1. SoundInv => OutputAsShown
    <2>1. ASSUME SoundInv, Settled, WorkingRover
          PROVE  "nmea" \in receiver.output /\ "rtcm_base" \notin receiver.output
      BY <2>1, WhenSettled DEF ReceiverFollows, RoverOutput, RoverShown
    <2>2. ASSUME SoundInv, Settled, Transmitting
          PROVE  "nmea" \in receiver.output /\ "rtcm_base" \in receiver.output
      BY <2>2, WhenSettled DEF ReceiverFollows, BaseOutput, BaseConfigured, Transmitting
    <2> QED BY <2>1, <2>2 DEF OutputAsShown
  <1> QED BY <1>1, SoundReceiver, PTL
============================================================================
