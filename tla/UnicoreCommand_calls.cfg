\* MODE ROVER SURVEY has no expected text, UNLOG expects its own ack, the query
\* MODE expects the #MODE line.  Three calls: one that times out, one its late
\* answer can reach, one more for what the second left behind.
CONSTANTS
    Commands = {"SETMODE", "UNLOG", "MODE"}
    Expected = {"UNLOG", "MODE"}
    Queries = {"MODE"}
    MaxCalls = 3
SPECIFICATION Spec
CHECK_DEADLOCK FALSE
INVARIANTS
    CleanCallsSound
    CleanCallOwnsSlot
PROPERTIES
    CallsReturn
