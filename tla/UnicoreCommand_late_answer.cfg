\* One command without expected text called twice: the first times out, its
\* late acknowledgement completes the second, which the receiver refuses.
CONSTANTS
    Commands = {"SETMODE"}
    Expected = {}
    Queries = {}
    MaxCalls = 2
SPECIFICATION Spec
CHECK_DEADLOCK FALSE
INVARIANTS
    OkMeansAccepted
