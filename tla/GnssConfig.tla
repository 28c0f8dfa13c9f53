----------------------------- MODULE GnssConfig -----------------------------
(***************************************************************************)
(* How the firmware configures the receiver (main/GNSS.cpp and the mode    *)
(* and output commands of main/Unicore_UM980.cpp): a bit per request,      *)
(* serviced in a fixed order by gnssUpdate in the main task.  A bit whose  *)
(* service fails stays set for the next pass; some services set more bits. *)
(*                                                                         *)
(* The receiver is external.  Of its configuration the model keeps the     *)
(* mode, the position a fixed base was given and which message groups it   *)
(* puts out, both as they run and as SAVECONFIG stored them.  What becomes *)
(* of a command is one of Outcomes (UnicoreCommand shows how each arises): *)
(*   done      the receiver did it and the caller was told OK              *)
(*   refused   nothing changed, the caller was told so                     *)
(*   unheard   the receiver did it, the caller timed out                   *)
(*   phantom   nothing changed, a late answer made the caller see OK       *)
(*   stale     (a query) OK, but the answer is stored only afterwards      *)
(* For a query, refused means that no answer ever comes and unheard that   *)
(* it comes, and is stored, after the caller has timed out.                *)
(***************************************************************************)
EXTENDS Integers, Sequences, FiniteSets

CONSTANTS Positions,           (* positions the app may give a fixed base   *)
          Faults,              (* outcomes other than "done" that may occur *)
          BootModes,           (* modes the receiver may power up in        *)
          BootOutputs,         (* sets of message groups it may power up with *)
          ObservationSeconds   (* settings.observationSeconds, in ticks     *)

Modes == {"rover", "survey", "fixed"}
Groups == {"nmea", "rtcm_rover", "rtcm_base"}
NoPosition == "no position"
Surveyed == "surveyed"       (* a position the receiver found by itself *)

ASSUME GnssConfigAssumption ==
    /\ Faults \subseteq {"refused", "unheard", "phantom", "stale"}
    /\ BootModes \subseteq Modes
    /\ BootOutputs \subseteq SUBSET Groups
    /\ Positions # {} /\ Positions \intersect {NoPosition, Surveyed} = {}
    /\ ObservationSeconds \in Nat

(* The bits the firmware ever sets, in the order gnssUpdate services them.  *)
(* (The others are set by nobody, or cleared at once as unsupported.)       *)
Order == <<"ONCE", "MODEL", "ROVER", "BASE", "BASE_SURVEY", "BASE_FIXED",
           "NMEA", "RTCM_ROVER", "RTCM_BASE", "SAVE">>
Bits == {Order[i] : i \in DOMAIN Order}

VARIABLES
    gnssConfigureRequest,  (* settings.gnssConfigureRequest, as a set       *)
    turn,                  (* gnssUpdate: index in Order of the next test,  *)
                           (* 0 outside a pass                              *)
    model,                 (* UnicoreUM980::_model                          *)
    firstTime,             (* the static of configureBase                   *)
    surveyAge,             (* ticks since _autoBaseStartTimer, up to AgeCap *)
    rtcmEnabled,           (* which of um980MessagesEnabled_RTCM_* are set  *)
    fixedBase,             (* settings.fixedBase                            *)
    fixedPosition,         (* settings.fixedLat, fixedLong, fixedAltitude   *)
    systemState,           (* systemState of States.cpp, read here          *)
    receiver,              (* external: the receiver's running configuration *)
    saved,                 (* external: what its last SAVECONFIG stored     *)
    observed,              (* external: ticks since it began the survey that *)
                           (* it runs or took its position from, 0 if none, *)
                           (* up to ObservationSeconds + 1                  *)
    misled                 (* history: see ConfigureBase                    *)

settings == <<fixedBase, fixedPosition>>
driver == <<model, firstTime, surveyAge, rtcmEnabled, misled>>
gnss == <<gnssConfigureRequest, turn, driver, receiver, saved, observed>>

Configurations ==
    [mode : {"rover", "survey"}, position : {NoPosition}, output : SUBSET Groups] \union
    [mode : {"fixed"}, position : Positions \union {Surveyed}, output : SUBSET Groups]

BaseStates ==
    {"BASE_NOT_STARTED", "BASE_CONFIG_WAIT", "BASE_TEMP_SETTLE",
     "BASE_TEMP_SURVEY_STARTED", "BASE_TEMP_TRANSMITTING",
     "BASE_FIXED_NOT_STARTED", "BASE_FIXED_TRANSMITTING"}
RoverStates ==
    {"ROVER_NOT_STARTED", "ROVER_CONFIG_WAIT", "ROVER_NO_FIX", "ROVER_FIX",
     "ROVER_RTK_FLOAT", "ROVER_RTK_FIX"}
WebConfigStates ==
    {"WEB_CONFIG_NOT_STARTED", "WEB_CONFIG_WAIT_FOR_NETWORK", "WEB_CONFIG"}

inBaseMode == systemState \in BaseStates
inWebConfigMode == systemState \in WebConfigStates

gnssConfigureComplete == gnssConfigureRequest = {}

(* A receiver that took its position from a survey was told to survey; that *)
(* is what saved is compared with (the code never sees what was stored).    *)
Told(config) ==
    IF config.position = Surveyed
      THEN [config EXCEPT !.mode = "survey", !.position = NoPosition] ELSE config

(* At power-up the receiver runs what it had saved; nothing else is known.  *)
GnssInit ==
    /\ gnssConfigureRequest = {}
    /\ turn = 0
    /\ model = "rover"
    /\ firstTime = TRUE
    /\ surveyAge = 0
    /\ rtcmEnabled = {}
    /\ fixedBase = FALSE
    /\ fixedPosition = CHOOSE p \in Positions : TRUE
    /\ receiver \in {c \in Configurations :
                       c.mode \in BootModes /\ c.output \in BootOutputs}
    /\ saved = Told(receiver)
    /\ observed = 0
    /\ misled = FALSE

-----------------------------------------------------------------------------
(* Commands.                                                                *)

Outcomes == {"done"} \union (Faults \ {"stale"})
Executed(outcome) == outcome \in {"done", "unheard"}
ReportedOk(outcome) == outcome \in {"done", "phantom"}

(* A MODE command, executed or not; a survey begins anew.                   *)
ModeCommand(executed, mode, position) ==
    IF executed
      THEN /\ receiver' = [receiver EXCEPT !.mode = mode, !.position = position]
           /\ observed' = 0
      ELSE UNCHANGED <<receiver, observed>>

WithOutput(groups) == [receiver EXCEPT !.output = groups]

(* A receiver that surveys ends that by itself once it has seen enough, and *)
(* runs on as a fixed base at the position it found (Unicore_UM980.cpp:283). *)
SurveyEnds ==
    /\ receiver.mode = "survey" /\ observed > 0
    /\ receiver' = [receiver EXCEPT !.mode = "fixed", !.position = Surveyed]
    /\ UNCHANGED <<gnssConfigureRequest, turn, driver, saved, observed>>

HoldsSurvey == receiver.mode = "survey" \/ receiver.position = Surveyed

(* Only a MODE query's answer ever sets _model: setMode does not.           *)
(* requestModel returns 0 ("unknown") unless the query came back with OK.   *)
QueryOutcomes == {"done"} \union (Faults \ {"phantom"})
ModelAfter(outcome) == IF outcome = "refused" THEN model ELSE receiver.mode
ModelSeen(outcome) == IF outcome = "done" THEN receiver.mode ELSE model
ModelReturned(outcome) ==
    IF outcome \in {"done", "stale"} THEN ModelSeen(outcome) ELSE "unknown"

-----------------------------------------------------------------------------
(* The services.  Each clears its bit on success and asks for what must     *)
(* follow; on failure the bit stays.                                        *)

Serviced(bit, followUp) ==
    gnssConfigureRequest' = (gnssConfigureRequest \ {bit}) \union followUp

(* Slip: the bit is not cleared.                                            *)
FinishKeepBit(bit, ok, followUp) ==
    IF ok THEN gnssConfigureRequest' = gnssConfigureRequest \union followUp
          ELSE UNCHANGED gnssConfigureRequest

(* Slip: a success is not saved.                                            *)
FinishUnsaved(bit, ok, followUp) ==
    IF ok THEN Serviced(bit, followUp \ {"SAVE"}) ELSE UNCHANGED gnssConfigureRequest

Finish(bit, ok, followUp) ==
    IF ok THEN Serviced(bit, followUp) ELSE UNCHANGED gnssConfigureRequest

(* configure(): all outputs off, basic settings, save; up to three tries.   *)
ConfigureOnce ==
    \E outcome \in Outcomes, savedToo \in BOOLEAN :
        /\ receiver' = IF Executed(outcome) THEN WithOutput({}) ELSE receiver
        /\ saved' = IF outcome = "done" \/ (outcome = "unheard" /\ savedToo)
                      THEN Told(receiver') ELSE saved
        /\ Finish("ONCE", ReportedOk(outcome), {"SAVE"})
        /\ UNCHANGED <<driver, observed>>

(* setModel: settings.dynamicModel is never anything but a rover model.     *)
SetModel ==
    \E outcome \in Outcomes :
        /\ ModeCommand(Executed(outcome), "rover", NoPosition)
        /\ Finish("MODEL", ReportedOk(outcome), {"SAVE"})
        /\ UNCHANGED <<driver, saved>>

(* Slip: a base is left running when the unit becomes a rover.              *)
ConfigureRoverKeepModel ==
    \E outcome \in QueryOutcomes :
        /\ model' = ModelAfter(outcome)
        /\ Serviced("ROVER", {"NMEA", "SAVE"} \union
                             (IF ModelReturned(outcome) \in {"survey", "fixed"}
                                THEN {"RTCM_ROVER"} ELSE {}))
        /\ UNCHANGED <<firstTime, surveyAge, rtcmEnabled, misled, receiver, saved, observed>>

(* configureRover: its result is ignored, the bit is cleared in any case.   *)
ConfigureRover ==
    \E outcome \in QueryOutcomes :
        /\ model' = ModelAfter(outcome)
        /\ Serviced("ROVER", {"NMEA", "SAVE"} \union
                             (IF ModelReturned(outcome) \in {"survey", "fixed"}
                                THEN {"MODEL", "RTCM_ROVER"} ELSE {}))
        /\ UNCHANGED <<firstTime, surveyAge, rtcmEnabled, misled, receiver, saved, observed>>

AlreadyBase(mode) == mode = (IF fixedBase THEN "fixed" ELSE "survey")

(* configureBase: the result of its query is ignored, _model is looked at.  *)
(* The first time it has the receiver made a rover even if that runs the    *)
(* base wanted already; misled then notes that _model will go on saying so. *)
ConfigureBase ==
    \E outcome \in QueryOutcomes :
        /\ model' = ModelAfter(outcome)
        /\ firstTime' = FALSE
        /\ misled' = (firstTime /\ AlreadyBase(ModelSeen(outcome)))
        /\ Serviced("BASE", {"NMEA", "SAVE"} \union
                            (IF ~firstTime /\ AlreadyBase(ModelSeen(outcome))
                               THEN {} ELSE {"MODEL", "RTCM_BASE"}))
        /\ UNCHANGED <<surveyAge, rtcmEnabled, receiver, saved, observed>>

(* Slip: the observation timer is not restarted with the survey.            *)
SurveyInStartKeepTimer ==
    \/ /\ model = "survey"
       /\ Finish("BASE_SURVEY", TRUE, {"SAVE"})
       /\ UNCHANGED <<driver, receiver, saved, observed>>
    \/ /\ model # "survey"
       /\ \E outcome \in Outcomes :
            /\ ModeCommand(Executed(outcome), "survey", NoPosition)
            /\ Finish("BASE_SURVEY", ReportedOk(outcome), {"SAVE"})
       /\ UNCHANGED <<driver, saved>>

(* surveyInStart: nothing to do if _model says a survey runs; otherwise a   *)
(* success restarts the observation timer.                                  *)
SurveyInStart ==
    \/ /\ model = "survey"
       /\ Finish("BASE_SURVEY", TRUE, {"SAVE"})
       /\ UNCHANGED <<driver, receiver, saved, observed>>
    \/ /\ model # "survey"
       /\ \E outcome \in Outcomes :
            /\ ModeCommand(Executed(outcome), "survey", NoPosition)
            /\ surveyAge' = IF ReportedOk(outcome) THEN 0 ELSE surveyAge
            /\ Finish("BASE_SURVEY", ReportedOk(outcome), {"SAVE"})
       /\ UNCHANGED <<model, firstTime, rtcmEnabled, misled, saved>>

(* Slip: any base mode counts as the fixed one.                             *)
FixedBaseStartAnyBase ==
    \/ /\ model # "rover"
       /\ Finish("BASE_FIXED", TRUE, {"SAVE"})
       /\ UNCHANGED <<driver, receiver, saved, observed>>
    \/ /\ model = "rover"
       /\ \E outcome \in Outcomes :
            /\ ModeCommand(Executed(outcome), "fixed", fixedPosition)
            /\ Finish("BASE_FIXED", ReportedOk(outcome), {"SAVE"})
       /\ UNCHANGED <<driver, saved>>

(* fixedBaseStart: nothing to do if _model says a fixed base runs.          *)
FixedBaseStart ==
    \/ /\ model = "fixed"
       /\ Finish("BASE_FIXED", TRUE, {"SAVE"})
       /\ UNCHANGED <<driver, receiver, saved, observed>>
    \/ /\ model # "fixed"
       /\ \E outcome \in Outcomes :
            /\ ModeCommand(Executed(outcome), "fixed", fixedPosition)
            /\ Finish("BASE_FIXED", ReportedOk(outcome), {"SAVE"})
       /\ UNCHANGED <<driver, saved>>

(* Slip: the RTCM messages it switched off are not asked for again.         *)
RtcmAgainNever == {}

(* setMessagesNMEA switches everything off, so RTCM must be set up again.   *)
RtcmAgain ==
    IF rtcmEnabled = {} THEN {}
    ELSE IF inBaseMode THEN {"RTCM_BASE"} ELSE {"RTCM_ROVER"}

(* setMessagesNMEA: the result of switching off is overwritten by the       *)
(* result of switching NMEA on; RTCM is asked for before either is known.   *)
SetMessagesNMEA ==
    \E off, on \in Outcomes :
        LET left == IF Executed(off) THEN {} ELSE receiver.output IN
        /\ receiver' = WithOutput(IF Executed(on) THEN left \union {"nmea"} ELSE left)
        /\ rtcmEnabled' = {}
        /\ gnssConfigureRequest' =
               (IF ReportedOk(on) THEN (gnssConfigureRequest \ {"NMEA"}) \union {"SAVE"}
                                  ELSE gnssConfigureRequest) \union RtcmAgain
        /\ UNCHANGED <<model, firstTime, surveyAge, misled, saved, observed>>

(* setMessagesRTCMRover and setMessagesRTCMBase.                            *)
SetMessagesRTCM(bit, group) ==
    \E outcome \in Outcomes :
        /\ receiver' = IF Executed(outcome) THEN WithOutput(receiver.output \union {group})
                                            ELSE receiver
        /\ rtcmEnabled' = IF ReportedOk(outcome) THEN {group} ELSE rtcmEnabled
        /\ Finish(bit, ReportedOk(outcome), {"SAVE"})
        /\ UNCHANGED <<model, firstTime, surveyAge, misled, saved, observed>>

SaveConfiguration ==
    \E outcome \in Outcomes :
        /\ saved' = IF Executed(outcome) THEN Told(receiver) ELSE saved
        /\ Finish("SAVE", ReportedOk(outcome), {})
        /\ UNCHANGED <<driver, receiver, observed>>

Service(bit) ==
    \/ bit = "ONCE" /\ ConfigureOnce
    \/ bit = "MODEL" /\ SetModel
    \/ bit = "ROVER" /\ ConfigureRover
    \/ bit = "BASE" /\ ConfigureBase
    \/ bit = "BASE_SURVEY" /\ SurveyInStart
    \/ bit = "BASE_FIXED" /\ FixedBaseStart
    \/ bit = "NMEA" /\ SetMessagesNMEA
    \/ bit = "RTCM_ROVER" /\ SetMessagesRTCM("RTCM_ROVER", "rtcm_rover")
    \/ bit = "RTCM_BASE" /\ SetMessagesRTCM("RTCM_BASE", "rtcm_base")
    \/ bit = "SAVE" /\ SaveConfiguration

-----------------------------------------------------------------------------
(* One pass of gnssUpdate.  Between two services the other tasks may run.   *)

Requested(i) == i >= turn /\ Order[i] \in gnssConfigureRequest

(* The pass gets to the first requested bit it has not passed yet: a bit    *)
(* set behind it waits for the next pass.                                   *)
ServiceNext ==
    /\ turn > 0
    /\ \E i \in DOMAIN Order :
         /\ Requested(i) /\ \A j \in DOMAIN Order : Requested(j) => i <= j
         /\ Service(Order[i])
         /\ turn' = i + 1

PassDone ==
    /\ turn > 0
    /\ \A i \in DOMAIN Order : ~Requested(i)
    /\ turn' = 0
    /\ UNCHANGED <<gnssConfigureRequest, driver, receiver, saved, observed>>
=============================================================================
