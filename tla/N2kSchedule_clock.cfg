\* A clock of 12 ticks: the schedules meet its wrap, its zero and its half at
\* every phase.
CONSTANTS
    Pgns = {"129026"}
    ClockRange = 12
    DefaultInterval = 3
    DefaultOffset <- MCDefaultOffset
    MinInterval = 2
    MaxInterval = 4
    MaxOffset = 4
    Asked = {1, 2, 4, 5}
    AskedOffsets = {0, 4, 5}
    MaxDelay = 2
SPECIFICATION FairSpec
INVARIANTS
    NothingOverdue
PROPERTIES
    PeriodKept
    SendingResumes
