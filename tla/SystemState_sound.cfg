\* The receiver powers up in any mode, with any message groups, and every
\* command works.  Three commands of the app reach every mode from every other
\* and meet the unit at every point of a configuration.
CONSTANTS
    Positions = {"p1"}
    Faults = {}
    BootModes = {"rover", "survey", "fixed"}
    BootOutputs = {{}, {"nmea", "rtcm_base"}}
    ObservationSeconds = 1
    SurveyLimit = 2
    MaxAsked = 3
SPECIFICATION Spec
INVARIANTS
    RoverConfigured
    FixedBaseRuns
    SurveyRan
    OutputAsShown
PROPERTIES
    LastRequestWins
