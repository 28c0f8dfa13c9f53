\* Two sockets for pages that open their WebSocket twice, and a station whose network and
\* consumers come and go.  No symmetry: liveness is checked.
CONSTANTS
    NetworkSaved = TRUE
    Sockets = {s1, s2}
    MaxOpenings = 2
    MaxStarts = 1
    MaxEvents = 1
    None = None
SPECIFICATION FairSpec
INVARIANTS
    ServerMatchesState
PROPERTIES
    LonePageKeepsSession
    SessionEnds
    ServerRuns
    StationGoesOffline
