\* The same segments: a damaged message of the receiver reaches the callback.
CONSTANTS
    Segments <- MCSegments
    MaxSegments = 1
    BufferLength = 16
    HeaderLength = 6
    NameLimit = 5
SPECIFICATION Spec
INVARIANTS
    ChecksumsHold
\* The stream may end.
CHECK_DEADLOCK FALSE
