\* Every sequence of three of the segments: whole, damaged and cut off messages of
\* every format, and noise that looks like the beginning of one.
CONSTANTS
    Segments <- MCSegments
    MaxSegments = 3
    BufferLength = 16
    HeaderLength = 6
    NameLimit = 5
SPECIFICATION Spec
INVARIANTS
    MessagesGenuine
    WholeMessagesDelivered
\* The stream may end.
CHECK_DEADLOCK FALSE
