\* Frames of 1, 3 and 4 bytes in a ring of 4 bytes and 4 table entries: a write
\* can be short of bytes, of table entries or of both, and a frame can be as
\* large as the ring.  Five frames wrap the table once and the ring several
\* times.  No symmetry: liveness is checked.
CONSTANTS
    Subscribers = {s1, s2}
    RingSize = 4
    OffsetSize = 4
    FrameSizes = {1, 3, 4}
    BufferSizes = {1, 4}
    MaxFrames = 5
SPECIFICATION FairSpec
INVARIANTS
    TypeOK
    TableMatchesStream
    RetainedBytesIntact
    ReadersPlaced
    SmallFramesReadable
PROPERTIES
    IsFrameStream
    OperationsEnd
