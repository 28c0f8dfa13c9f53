\* Commands may be refused or lost any number of times, not for ever, and a survey
\* takes longer than the unit waits for it.
CONSTANTS
    Positions = {"p1"}
    Faults = {"refused", "unheard", "stale"}
    BootModes = {"rover"}
    BootOutputs = {{}}
    ObservationSeconds = 1
    SurveyLimit = 0
    MaxAsked = 1
SPECIFICATION RetrySpec
INVARIANTS
    ConfigurationSaved
PROPERTIES
    ConfigurationCompletes
