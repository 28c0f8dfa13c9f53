----------------------------- MODULE RingBuffer -----------------------------
(***************************************************************************)
(* class ringBuffer (components/DataCenter/ringBuffer): the cache a        *)
(* publisher account writes frames to and its subscribers read them from.  *)
(*                                                                         *)
(* Frames lie end to end in a ring of RingSize bytes; a second ring, the   *)
(* offset table, holds where each retained frame ends.  Every operation    *)
(* runs under one mutex.  The two loops inside the operations (make room   *)
(* for a write, release what everyone has read) are modelled one turn at a *)
(* time, with op naming the operation that holds the mutex.  An operation  *)
(* that times out on the mutex, or fails a check, returns false and leaves *)
(* the object as it was: that is a stuttering step here.                   *)
(*                                                                         *)
(* A byte is represented by its number in the stream of all bytes ever     *)
(* written (see FrameStream), 0 standing for the zeroes of calloc.  The    *)
(* history variables ends and past record that stream's frame boundaries   *)
(* and what each subscriber has been given; the code has no such state.    *)
(***************************************************************************)
EXTENDS Integers, Sequences

CONSTANTS Subscribers,  (* accounts that may subscribe to the publisher     *)
          RingSize,     (* _ringBufferSize                                  *)
          OffsetSize,   (* _rbOffsetSize                                    *)
          FrameSizes,   (* sizes passed to WriteToRingBuf                   *)
          BufferSizes,  (* sizes of the buffers passed to ReadRingBuf       *)
          MaxFrames     (* bound: frames written in one behaviour           *)

UINT16_MAX == 65535

(* Init() rejects any other ring size and raises the table to 4 entries.    *)
ASSUME RingBufferAssumption ==
    /\ RingSize \in 1 .. UINT16_MAX
    /\ OffsetSize \in Nat /\ OffsetSize >= 4
    /\ FrameSizes \subseteq Nat
    /\ BufferSizes \subseteq Nat
    /\ MaxFrames \in Nat

VARIABLES
    bytes,       (* _ringBuffer                                             *)
    offset,      (* _rbOffsetArray: end position of each frame              *)
    offsetHead,  (* _rbOffsetHead                                           *)
    offsetTail,  (* _rbOffsetTail                                           *)
    dataHead,    (* _dataHead                                               *)
    dataTail,    (* _dataTail                                               *)
    used,        (* _usedBytes                                              *)
    free,        (* _freeSpace                                              *)
    frameCount,  (* _frameCount                                             *)
    subs,        (* the accounts with an entry in subscriberReads           *)
    readPos,     (* SubscriberReadInfo_t::readPos                           *)
    readIndex,   (* SubscriberReadInfo_t::readOffsetIndex                   *)
    lost,        (* SubscriberReadInfo_t::lostFrames                        *)
    op,          (* the operation that holds _mutex, "idle" if none         *)
    pending,     (* totalSize of the write in progress, 0 if none           *)
    out,         (* what ReadRingBuf has copied out and not yet returned    *)
    ends,        (* history: ends[n] = bytes written up to frame n          *)
    past         (* history: frames before s subscribed or delivered to s   *)

ring == <<bytes, offset, offsetHead, offsetTail, dataHead, dataTail, used, free, frameCount>>
readers == <<subs, readPos, readIndex, lost, past>>
vars == <<ring, readers, op, pending, out, ends>>

Positions == 0 .. RingSize - 1
Indices == 0 .. OffsetSize - 1
None == [s \in Subscribers |-> 0]

-----------------------------------------------------------------------------
(* Helpers of the class.                                                    *)

Distance(from, to) == IF to >= from THEN to - from ELSE RingSize - from + to

(* CopyToRing(dataHead, n bytes) of the n bytes that follow byte k.         *)
CopyToRing(n, k) ==
    [p \in Positions |->
        IF Distance(dataHead, p) < n THEN k + Distance(dataHead, p) + 1 ELSE bytes[p]]

CopyFromRing(from, n) == [i \in 1 .. n |-> bytes[(from + i - 1) % RingSize]]

(* The oldest frame, whose end offset[offsetTail] holds.                    *)
OldestEnd == offset[offsetTail]
OldestSize == Distance(dataTail, OldestEnd)

WaitingForOldest(s) == s \in subs /\ readIndex[s] = offsetTail

(* The condition of the loop in WriteToRingBuf, and three slips in it.      *)
NeedsRoomOffByOne == frameCount >= OffsetSize - 1 \/ free + 1 < pending
NeedsRoomIgnoresTable == frameCount >= OffsetSize \/ free < pending
NeedsRoomEager == frameCount >= OffsetSize - 1 \/ free <= pending

NeedsRoom == frameCount >= OffsetSize - 1 \/ free < pending

-----------------------------------------------------------------------------
(* DropOldestFrame(forcedDrop).                                             *)

(* Slip: the empty case returns without giving the space back.              *)
ResetNothing == UNCHANGED <<ring, readers>>

(* With no frame left it resets the space accounting.                       *)
ResetSpace ==
    /\ dataTail' = dataHead
    /\ used' = 0
    /\ free' = RingSize
    /\ UNCHANGED <<bytes, offset, offsetHead, offsetTail, dataHead, frameCount,
                   subs, readPos, readIndex, lost, past>>

(* Slip: the offset index moves on, the byte position does not.             *)
RemoveOldestIndexOnly ==
    /\ offsetTail' = (offsetTail + 1) % OffsetSize
    /\ frameCount' = frameCount - 1
    /\ used' = IF used >= OldestSize THEN used - OldestSize ELSE 0
    /\ free' = RingSize - used'
    /\ UNCHANGED <<bytes, offset, offsetHead, dataHead, dataTail>>

RemoveOldest ==
    /\ dataTail' = OldestEnd
    /\ offsetTail' = (offsetTail + 1) % OffsetSize
    /\ frameCount' = frameCount - 1
    /\ used' = IF used >= OldestSize THEN used - OldestSize ELSE 0
    /\ free' = RingSize - used'
    /\ UNCHANGED <<bytes, offset, offsetHead, dataHead>>

(* Slip: the readers are moved to the next index but keep their position.   *)
SkipOldestKeepPos ==
    /\ readIndex' = [s \in Subscribers |->
                        IF WaitingForOldest(s) THEN offsetTail' ELSE readIndex[s]]
    /\ lost' = [s \in Subscribers |-> IF WaitingForOldest(s) THEN lost[s] + 1 ELSE lost[s]]
    /\ UNCHANGED <<subs, readPos, past>>

(* Slip: the loss is not counted.                                           *)
SkipOldestSilently ==
    /\ readIndex' = [s \in Subscribers |->
                        IF WaitingForOldest(s) THEN offsetTail' ELSE readIndex[s]]
    /\ readPos' = [s \in Subscribers |-> IF WaitingForOldest(s) THEN dataTail' ELSE readPos[s]]
    /\ UNCHANGED <<subs, lost, past>>

(* A forced drop moves everyone who had still to read the frame past it.    *)
SkipOldest ==
    /\ readIndex' = [s \in Subscribers |->
                        IF WaitingForOldest(s) THEN offsetTail' ELSE readIndex[s]]
    /\ readPos' = [s \in Subscribers |-> IF WaitingForOldest(s) THEN dataTail' ELSE readPos[s]]
    /\ lost' = [s \in Subscribers |-> IF WaitingForOldest(s) THEN lost[s] + 1 ELSE lost[s]]
    /\ UNCHANGED <<subs, past>>

-----------------------------------------------------------------------------
(* The operations.                                                          *)

Init ==
    /\ bytes = [p \in Positions |-> 0]
    /\ offset = [i \in Indices |-> 0]
    /\ offsetHead = 0 /\ offsetTail = 0
    /\ dataHead = 0 /\ dataTail = 0
    /\ used = 0 /\ free = RingSize /\ frameCount = 0
    /\ subs = {} /\ readPos = None /\ readIndex = None /\ lost = None
    /\ op = "idle" /\ pending = 0 /\ out = <<>>
    /\ ends = <<>> /\ past = None

(* WriteToRingBuf up to the lock: a frame of 1 .. RingSize bytes.           *)
WriteBegin(n) ==
    /\ op = "idle"
    /\ n \in 1 .. RingSize
    /\ Len(ends) < MaxFrames
    /\ op' = "write"
    /\ pending' = n
    /\ UNCHANGED <<ring, readers, out, ends>>

(* One turn of its loop.                                                    *)
WriteDrop ==
    /\ op = "write"
    /\ NeedsRoom
    /\ \/ frameCount = 0 /\ ResetSpace
       \/ frameCount > 0 /\ RemoveOldest /\ SkipOldest
    /\ UNCHANGED <<op, pending, out, ends>>

(* The rest of it, once the loop has made room.                             *)
WriteStore ==
    LET total == IF ends = <<>> THEN 0 ELSE ends[Len(ends)] IN
    /\ op = "write"
    /\ ~NeedsRoom
    /\ bytes' = CopyToRing(pending, total)
    /\ dataHead' = (dataHead + pending) % RingSize
    /\ offset' = [offset EXCEPT ![offsetHead] = dataHead']
    /\ offsetHead' = (offsetHead + 1) % OffsetSize
    /\ frameCount' = frameCount + 1
    /\ used' = used + pending
    /\ free' = RingSize - used'
    /\ ends' = Append(ends, total + pending)
    /\ op' = "idle"
    /\ pending' = 0
    /\ UNCHANGED <<offsetTail, dataTail, readers, out>>

(* ReadRingBuf into a buffer of capacity bytes: nothing to read, a frame of *)
(* apparent size 0 and a buffer too small all return false.                 *)
ReadRingBuf(s, capacity) ==
    LET frameEnd == offset[readIndex[s]]
        frameSize == Distance(readPos[s], frameEnd)
    IN  /\ op = "idle"
        /\ s \in subs
        /\ readIndex[s] # offsetHead
        /\ frameSize \in 1 .. RingSize
        /\ frameSize <= capacity
        /\ out' = CopyFromRing(readPos[s], frameSize)
        /\ readPos' = [readPos EXCEPT ![s] = frameEnd]
        /\ readIndex' = [readIndex EXCEPT ![s] = (@ + 1) % OffsetSize]
        /\ past' = [past EXCEPT ![s] = @ + 1]
        /\ op' = "release"
        /\ UNCHANGED <<ring, subs, lost, pending, ends>>

(* One turn of UpdateFreeSpaceLocked, which ends ReadRingBuf,               *)
(* RemoveSubscriber and UpdateFreeSpace.                                    *)
ReleaseOldest ==
    /\ op = "release"
    /\ frameCount > 0
    /\ \A s \in Subscribers : ~WaitingForOldest(s)
    /\ RemoveOldest
    /\ UNCHANGED <<readers, op, pending, out, ends>>

ReleaseDone ==
    /\ op = "release"
    /\ frameCount = 0 \/ \E s \in Subscribers : WaitingForOldest(s)
    /\ op' = "idle"
    /\ out' = <<>>
    /\ UNCHANGED <<ring, readers, pending, ends>>

UpdateFreeSpace ==
    /\ op = "idle"
    /\ op' = "release"
    /\ UNCHANGED <<ring, readers, pending, out, ends>>

AddSubscriber(s) ==
    /\ op = "idle"
    /\ s \notin subs
    /\ subs' = subs \cup {s}
    /\ readPos' = [readPos EXCEPT ![s] = dataHead]
    /\ readIndex' = [readIndex EXCEPT ![s] = offsetHead]
    /\ lost' = [lost EXCEPT ![s] = 0]
    /\ past' = [past EXCEPT ![s] = Len(ends)]
    /\ UNCHANGED <<ring, op, pending, out, ends>>

RemoveSubscriber(s) ==
    /\ op = "idle"
    /\ s \in subs
    /\ subs' = subs \ {s}
    /\ readPos' = [readPos EXCEPT ![s] = 0]
    /\ readIndex' = [readIndex EXCEPT ![s] = 0]
    /\ lost' = [lost EXCEPT ![s] = 0]
    /\ past' = [past EXCEPT ![s] = 0]
    /\ op' = "release"
    /\ UNCHANGED <<ring, pending, out, ends>>

Next ==
    \/ \E n \in FrameSizes : WriteBegin(n)
    \/ WriteDrop
    \/ WriteStore
    \/ \E s \in Subscribers :
          \/ \E capacity \in BufferSizes : ReadRingBuf(s, capacity)
          \/ AddSubscriber(s)
          \/ RemoveSubscriber(s)
    \/ ReleaseOldest
    \/ ReleaseDone
    \/ UpdateFreeSpace

Spec == Init /\ [][Next]_vars

(* The task inside an operation runs on: a loop turn is never put off       *)
(* for ever.  Nothing obliges anyone to call an operation.                  *)
Fairness == /\ WF_vars(WriteDrop)
            /\ WF_vars(WriteStore)
            /\ WF_vars(ReleaseOldest)
            /\ WF_vars(ReleaseDone)

FairSpec == Spec /\ Fairness

-----------------------------------------------------------------------------
(* The stream the ring stands for.                                          *)

End(n) == IF n = 0 THEN 0 ELSE ends[n]
Written == Len(ends)
Base == Written - frameCount
NextFrame(s) == past[s] + lost[s] + 1
FrameLength(n) == End(n) - End(n - 1)

(* Every variable keeps to the range its C++ type and the ring allow.       *)
TypeOK ==
    /\ bytes \in [Positions -> Nat]
    /\ offset \in [Indices -> Positions]
    /\ offsetHead \in Indices /\ offsetTail \in Indices
    /\ dataHead \in Positions /\ dataTail \in Positions
    /\ used \in 0 .. RingSize /\ free \in 0 .. RingSize
    /\ frameCount \in 0 .. OffsetSize - 1
    /\ subs \subseteq Subscribers
    /\ readPos \in [Subscribers -> Positions]
    /\ readIndex \in [Subscribers -> Indices]
    /\ lost \in [Subscribers -> Nat]
    /\ op \in {"idle", "write", "release"}
    /\ pending \in 0 .. RingSize
    /\ out \in Seq(Nat)
    /\ ends \in Seq(Nat)
    /\ past \in [Subscribers -> Nat]

(* The two index pairs and the offset table describe exactly the last       *)
(* frameCount frames written: a wrap of either ring, a forced drop or a     *)
(* release never leaves them disagreeing (WriteToRingBuf, DropOldestFrame). *)
TableMatchesStream ==
    /\ frameCount <= Written
    /\ offsetHead = Written % OffsetSize
    /\ offsetTail = Base % OffsetSize
    /\ dataHead = End(Written) % RingSize
    /\ dataTail = End(Base) % RingSize
    /\ \A n \in Base + 1 .. Written : offset[(n - 1) % OffsetSize] = End(n) % RingSize

(* _usedBytes and _freeSpace always add up to the ring, and _usedBytes is   *)
(* the size of the retained frames.  The exception is the state a frame as  *)
(* large as the ring leaves behind: DropOldestFrame takes its size for 0,   *)
(* so the ring looks full with no frame in it until the next write.         *)
SpaceAccounted ==
    /\ used + free = RingSize
    /\ \/ used = End(Written) - End(Base)
       \/ frameCount = 0 /\ used = RingSize

(* No byte of a retained frame is overwritten: the bytes a later read will  *)
(* copy are the bytes that were written (CopyToRing against the room made). *)
RetainedBytesIntact ==
    \A k \in End(Base) + 1 .. End(Written) : bytes[(k - 1) % RingSize] = k

(* Every subscriber stands at the start of the oldest frame that it was     *)
(* neither given nor told it lost, and that frame is still in the ring: it  *)
(* never points at a table entry or a position that was reused.             *)
ReadersPlaced ==
    \A s \in subs :
        /\ NextFrame(s) \in Base + 1 .. Written + 1
        /\ readIndex[s] = (NextFrame(s) - 1) % OffsetSize
        /\ readPos[s] = End(NextFrame(s) - 1) % RingSize

FrameReadable(s) ==
    Distance(readPos[s], offset[readIndex[s]]) = FrameLength(NextFrame(s))

(* A frame that waits for a subscriber has, in ReadRingBuf, the size it was *)
(* committed with.  WriteToRingBuf accepts every frame that is not larger   *)
(* than the ring, so Commit's "true" promises as much.  The code does not   *)
(* keep it: a frame as large as the ring has size 0 for ReadRingBuf.        *)
WaitingFrameReadable ==
    \A s \in subs : readIndex[s] # offsetHead => FrameReadable(s)

(* That is so for every frame smaller than the ring, also when a frame as   *)
(* large as the ring (whose size ReadRingBuf takes for 0) was written,      *)
(* dropped or left behind before it: only that frame itself is lost.        *)
SmallFramesReadable ==
    \A s \in subs :
        readIndex[s] # offsetHead /\ FrameLength(NextFrame(s)) < RingSize
            => FrameReadable(s)

(* The loop of WriteToRingBuf always ends, whatever the ring holds, and so  *)
(* does the release loop: nobody keeps the mutex for ever.                  *)
OperationsEnd == op # "idle" ~> op = "idle"

(* What makes these facts inductive: frames are neither empty nor larger    *)
(* than the ring, only the mutex holder has a frame pending, and only a     *)
(* read that has not yet returned has an output.                            *)
StreamOrdered ==
    /\ \A i, j \in 0 .. Written : i < j => End(i) < End(j)
    /\ \A n \in 1 .. Written : FrameLength(n) <= RingSize

CallsConsistent ==
    /\ (op = "write") = (pending > 0)
    /\ out # <<>> => op = "release"

IInv == /\ TypeOK
        /\ StreamOrdered
        /\ CallsConsistent
        /\ TableMatchesStream
        /\ SpaceAccounted
        /\ RetainedBytesIntact
        /\ ReadersPlaced

(* The cache is a FrameStream: each subscriber gets every frame committed   *)
(* after it joined, whole, once and in order, except those it is told it    *)
(* lost; frames are taken away only when the incoming one has no room.      *)
Stream == INSTANCE FrameStream WITH
              Capacity <- RingSize,
              MaxRetained <- OffsetSize - 1,
              base <- Base,
              incoming <- pending

IsFrameStream == Stream!Spec
=============================================================================
