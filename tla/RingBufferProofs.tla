-------------------------- MODULE RingBufferProofs --------------------------
(***************************************************************************)
(* The invariants of RingBuffer for every ring size, table size, set of    *)
(* subscribers and number of frames.                                       *)
(***************************************************************************)
EXTENDS RingBuffer, TLAPS

(* Positions that wrap: x % m is where unit x of a stream lies in a ring of *)
(* m places, and Way(m, a, b) is the way forward from place a to place b.   *)
Way(m, a, b) == IF b >= a THEN b - a ELSE m - a + b

(* Division with remainder, as the provers know it.                         *)
LEMMA DivMod ==
    ASSUME NEW m \in Nat \ {0}, NEW x \in Nat
    PROVE  /\ x \div m \in Nat
           /\ x % m \in 0 .. m - 1
           /\ x = m * (x \div m) + (x % m)
  OBVIOUS

(* The remainder is the only one there can be.                              *)
LEMMA ModUnique ==
    ASSUME NEW m \in Nat \ {0}, NEW x \in Nat, NEW q \in Nat, NEW r \in 0 .. m - 1,
           x = m * q + r
    PROVE  x % m = r
  <1> DEFINE d == (x \div m) - q
  <1>1. x = m * (x \div m) + (x % m) /\ x \div m \in Nat /\ x % m \in 0 .. m - 1
    BY DivMod
  <1>2. m * d = r - (x % m)
    BY <1>1
  <1>3. d = 0
    <2>1. CASE d >= 1
      <3>1. m * d >= m
        BY <2>1, <1>1
      <3> QED BY <3>1, <1>1, <1>2
    <2>2. CASE d <= -1
      <3>1. m * d <= -m
        BY <2>2, <1>1
      <3> QED BY <3>1, <1>1, <1>2
    <2> QED BY <2>1, <2>2, <1>1
  <1> QED BY <1>2, <1>3, <1>1

(* A place inside the first lap is the unit's own number.                   *)
LEMMA ModSmall ==
    ASSUME NEW m \in Nat \ {0}, NEW x \in 0 .. m - 1
    PROVE  x % m = x
  <1>1. x = m * 0 + x
    OBVIOUS
  <1> QED BY <1>1, ModUnique

(* k places further on, for k up to one lap: the place moves by k, less m   *)
(* where it passes the end.                                                 *)
LEMMA ModStep ==
    ASSUME NEW m \in Nat \ {0}, NEW x \in Nat, NEW k \in 0 .. m
    PROVE  /\ x % m \in 0 .. m - 1
           /\ (x + k) % m = IF (x % m) + k < m THEN (x % m) + k ELSE (x % m) + k - m
  <1> DEFINE q == x \div m
             a == x % m
  <1>1. q \in Nat /\ a \in 0 .. m - 1 /\ x = m * q + a
    BY DivMod
  <1> HIDE DEF q, a
  <1>2. CASE a + k < m
    <2>1. x + k = m * q + (a + k) /\ a + k \in 0 .. m - 1 /\ x + k \in Nat
      BY <1>1, <1>2
    <2>2. (x + k) % m = a + k
      BY <2>1, <1>1, ModUnique
    <2> QED BY <2>2, <1>1, <1>2 DEF a
  <1>3. CASE a + k >= m
    <2>1. x + k = m * (q + 1) + (a + k - m)
      BY <1>1
    <2>2. a + k - m \in 0 .. m - 1 /\ q + 1 \in Nat /\ x + k \in Nat
      BY <1>1, <1>3
    <2>3. (x + k) % m = a + k - m
      BY <2>1, <2>2, ModUnique
    <2> QED BY <2>3, <1>1, <1>3 DEF a
  <1> QED BY <1>1, <1>2, <1>3

(* Wrapping first and stepping then is the same as stepping first.          *)
LEMMA ModAdd ==
    ASSUME NEW m \in Nat \ {0}, NEW x \in Nat, NEW k \in 0 .. m
    PROVE  ((x % m) + k) % m = (x + k) % m
  <1> DEFINE a == x % m
  <1>1. a \in 0 .. m - 1
    BY DivMod
  <1>2. (x + k) % m = IF a + k < m THEN a + k ELSE a + k - m
    BY ModStep
  <1>3. a % m = a
    BY <1>1, ModSmall
  <1> HIDE DEF a
  <1>4. (a + k) % m = IF (a % m) + k < m THEN (a % m) + k ELSE (a % m) + k - m
    <2>1. a \in Nat
      BY <1>1
    <2> QED BY <2>1, ModStep
  <1> QED BY <1>2, <1>3, <1>4 DEF a

(* The way between two units less than a lap apart is their distance.       *)
LEMMA WayForward ==
    ASSUME NEW m \in Nat \ {0}, NEW x \in Nat, NEW k \in 0 .. m - 1
    PROVE  Way(m, x % m, (x + k) % m) = k
  <1> DEFINE a == x % m
             b == (x + k) % m
  <1>0. k \in 0 .. m
    OBVIOUS
  <1>1. /\ a \in 0 .. m - 1
        /\ b = IF a + k < m THEN a + k ELSE a + k - m
    BY <1>0, ModStep
  <1> HIDE DEF a, b
  <1>2. Way(m, a, b) = k
    BY <1>1 DEF Way
  <1> QED BY <1>2 DEF a, b

(* One whole lap on is the same place, so the way to it is 0.               *)
LEMMA WayLap ==
    ASSUME NEW m \in Nat \ {0}, NEW x \in Nat
    PROVE  /\ (x + m) % m = x % m
           /\ Way(m, x % m, (x + m) % m) = 0
  <1> DEFINE a == x % m
             b == (x + m) % m
  <1>0. m \in 0 .. m
    OBVIOUS
  <1>1. /\ a \in 0 .. m - 1
        /\ b = IF a + m < m THEN a + m ELSE a + m - m
    BY <1>0, ModStep
  <1> HIDE DEF a, b
  <1>2. b = a
    BY <1>1
  <1>3. Way(m, a, b) = 0
    BY <1>1, <1>2 DEF Way
  <1> QED BY <1>2, <1>3 DEF a, b

(* Units less than a lap apart lie in different places.                     *)
LEMMA ModApart ==
    ASSUME NEW m \in Nat \ {0}, NEW x \in Nat, NEW y \in Nat, x < y, y - x < m
    PROVE  x % m # y % m
  <1> DEFINE k == y - x
  <1>1. k \in 1 .. m - 1 /\ k \in 0 .. m /\ x + k = y
    OBVIOUS
  <1> HIDE DEF k
  <1>2. /\ x % m \in 0 .. m - 1
        /\ (x + k) % m = IF (x % m) + k < m THEN (x % m) + k ELSE (x % m) + k - m
    BY <1>1, ModStep
  <1>3. (x + k) % m # x % m
    BY <1>1, <1>2
  <1> QED BY <1>1, <1>3

(* The way from a unit to one up to a lap behind it goes round the ring.    *)
LEMMA WayBack ==
    ASSUME NEW m \in Nat \ {0}, NEW x \in Nat, NEW j \in 1 .. m
    PROVE  Way(m, (x + j) % m, x % m) = m - j
  <1> DEFINE y == x + j
             k == m - j
  <1>1. y \in Nat /\ k \in 0 .. m - 1 /\ y + k = x + m
    OBVIOUS
  <1> HIDE DEF y, k
  <1>2. Way(m, y % m, (y + k) % m) = k
    BY <1>1, WayForward
  <1>3. (x + m) % m = x % m
    BY WayLap
  <1> QED BY <1>1, <1>2, <1>3 DEF y, k

-----------------------------------------------------------------------------
(* What the proofs use of the sizes; that positions fit 16 bits is not      *)
(* needed.                                                                  *)
LEMMA SizeFacts ==
    /\ RingSize \in Nat \ {0}
    /\ OffsetSize \in Nat \ {0} /\ OffsetSize >= 4
    /\ FrameSizes \subseteq Nat
    /\ BufferSizes \subseteq Nat
  <1>1. UINT16_MAX \in Nat
    BY DEF UINT16_MAX
  <1> QED BY <1>1, RingBufferAssumption

USE SizeFacts

(* Distance(from, to) of the code is the way forward in the ring.           *)
LEMMA DistanceIsWay ==
    ASSUME NEW a, NEW b
    PROVE  Distance(a, b) = Way(RingSize, a, b)
  BY DEF Distance, Way

LEMMA DistanceType ==
    ASSUME NEW a \in Positions, NEW b \in Positions
    PROVE  Distance(a, b) \in Positions
  BY DEF Distance, Positions

(* Stepping an offset table index stays in the table, and a byte position   *)
(* in the ring.                                                             *)
LEMMA StepType ==
    ASSUME NEW x \in Nat
    PROVE  /\ x % OffsetSize \in Indices
           /\ x % RingSize \in Positions
  <1>1. OffsetSize \in Nat \ {0} /\ RingSize \in Nat \ {0}
    OBVIOUS
  <1> QED BY <1>1, DivMod DEF Indices, Positions

-----------------------------------------------------------------------------
(* Types.                                                                   *)

TypeInv == TypeOK /\ used + free = RingSize

LEMMA InitType == Init => TypeInv
  BY DEF Init, TypeInv, TypeOK, Positions, Indices, None

(* Taking the oldest frame away keeps the ring's variables in range.        *)
LEMMA RemoveOldestType ==
    ASSUME TypeInv, frameCount > 0, RemoveOldest
    PROVE  /\ bytes' \in [Positions -> Nat]
           /\ offset' \in [Indices -> Positions]
           /\ offsetHead' \in Indices /\ offsetTail' \in Indices
           /\ dataHead' \in Positions /\ dataTail' \in Positions
           /\ used' \in 0 .. RingSize /\ free' \in 0 .. RingSize
           /\ frameCount' \in 0 .. OffsetSize - 1
           /\ used' + free' = RingSize
  <1>1. OldestEnd \in Positions /\ OldestSize \in Positions
    BY DistanceType DEF TypeInv, TypeOK, OldestEnd, OldestSize
  <1>2. offsetTail' \in Indices
    <2>1. offsetTail + 1 \in Nat
      BY DEF TypeInv, TypeOK, Indices
    <2> QED BY <2>1, StepType DEF RemoveOldest
  <1>3. used' \in 0 .. RingSize
    BY <1>1 DEF RemoveOldest, TypeInv, TypeOK, Positions
  <1>4. free' \in 0 .. RingSize /\ used' + free' = RingSize
    BY <1>3 DEF RemoveOldest
  <1>5. frameCount' \in 0 .. OffsetSize - 1
    BY DEF RemoveOldest, TypeInv, TypeOK
  <1> QED BY <1>1, <1>2, <1>3, <1>4, <1>5 DEF RemoveOldest, TypeInv, TypeOK

LEMMA SkipOldestType ==
    ASSUME TypeInv, frameCount > 0, RemoveOldest, SkipOldest
    PROVE  /\ readPos' \in [Subscribers -> Positions]
           /\ readIndex' \in [Subscribers -> Indices]
           /\ lost' \in [Subscribers -> Nat]
  <1>1. offsetTail' \in Indices /\ dataTail' \in Positions
    BY RemoveOldestType
  <1> QED BY <1>1 DEF SkipOldest, TypeInv, TypeOK

LEMMA CopyType ==
    ASSUME TypeInv
    PROVE  /\ \A n, k \in Nat : CopyToRing(n, k) \in [Positions -> Nat]
           /\ \A from, n \in Nat : CopyFromRing(from, n) \in Seq(Nat)
  <1>1. ASSUME NEW n \in Nat, NEW k \in Nat
        PROVE  CopyToRing(n, k) \in [Positions -> Nat]
    <2>1. \A p \in Positions : Distance(dataHead, p) \in Nat
      <3>1. dataHead \in Positions
        BY DEF TypeInv, TypeOK
      <3>2. \A p \in Positions : Distance(dataHead, p) \in Positions
        BY <3>1, DistanceType
      <3>3. \A p \in Positions : p \in Nat
        BY DEF Positions
      <3> QED BY <3>2, <3>3
    <2>2. \A p \in Positions : bytes[p] \in Nat
      BY DEF TypeInv, TypeOK
    <2> QED BY <2>1, <2>2 DEF CopyToRing
  <1>2. ASSUME NEW from \in Nat, NEW n \in Nat
        PROVE  CopyFromRing(from, n) \in Seq(Nat)
    <2>1. \A i \in 1 .. n : (from + i - 1) % RingSize \in Positions
      <3>1. TAKE i \in 1 .. n
      <3>2. from + i - 1 \in Nat
        OBVIOUS
      <3> QED BY <3>2, StepType
    <2>2. \A i \in 1 .. n : bytes[(from + i - 1) % RingSize] \in Nat
      BY <2>1 DEF TypeInv, TypeOK
    <2> QED BY <2>2 DEF CopyFromRing
  <1> QED BY <1>1, <1>2

LEMMA NextType == TypeInv /\ [Next]_vars => TypeInv'
  <1> SUFFICES ASSUME TypeInv, [Next]_vars PROVE TypeInv'
    OBVIOUS
  <1>1. ASSUME NEW n \in FrameSizes, WriteBegin(n) PROVE TypeInv'
    BY <1>1 DEF WriteBegin, ring, readers, TypeInv, TypeOK
  <1>2. ASSUME WriteDrop PROVE TypeInv'
    <2>1. CASE frameCount = 0 /\ ResetSpace
      BY <1>2, <2>1 DEF WriteDrop, ResetSpace, TypeInv, TypeOK
    <2>2. CASE frameCount > 0 /\ RemoveOldest /\ SkipOldest
      <3>1. UNCHANGED <<subs, past, op, pending, out, ends>>
        BY <1>2, <2>2 DEF WriteDrop, SkipOldest
      <3> QED BY <2>2, <3>1, RemoveOldestType, SkipOldestType DEF TypeInv, TypeOK
    <2> QED BY <1>2, <2>1, <2>2 DEF WriteDrop
  <1>3. ASSUME WriteStore PROVE TypeInv'
    <2> DEFINE total == IF ends = <<>> THEN 0 ELSE ends[Len(ends)]
    <2>1. total \in Nat /\ pending \in Nat
      BY DEF TypeInv, TypeOK
    <2>2. bytes' \in [Positions -> Nat]
      BY <1>3, <2>1, CopyType DEF WriteStore
    <2>3. dataHead' \in Positions
      <3>1. dataHead + pending \in Nat
        BY DEF TypeInv, TypeOK, Positions
      <3> QED BY <1>3, <3>1, StepType DEF WriteStore
    <2>4. offsetHead' \in Indices
      <3>1. offsetHead + 1 \in Nat
        BY DEF TypeInv, TypeOK, Indices
      <3> QED BY <1>3, <3>1, StepType DEF WriteStore
    <2>5. offset' \in [Indices -> Positions]
      BY <1>3, <2>3 DEF WriteStore, TypeInv, TypeOK
    <2>6. frameCount' \in 0 .. OffsetSize - 1
      BY <1>3 DEF WriteStore, NeedsRoom, TypeInv, TypeOK
    <2>7. used' \in 0 .. RingSize /\ free' \in 0 .. RingSize /\ used' + free' = RingSize
      BY <1>3 DEF WriteStore, NeedsRoom, TypeInv, TypeOK
    <2>8. ends' \in Seq(Nat)
      <3>1. ends' = Append(ends, total + pending)
        BY <1>3 DEF WriteStore
      <3>2. ends \in Seq(Nat)
        BY DEF TypeInv, TypeOK
      <3>3. total + pending \in Nat
        BY <2>1
      <3> HIDE DEF total
      <3> QED BY <3>1, <3>2, <3>3
    <2>9. /\ op' = "idle" /\ pending' = 0
          /\ UNCHANGED <<offsetTail, dataTail, subs, readPos, readIndex, lost, past, out>>
      BY <1>3 DEF WriteStore, readers
    <2>10. op' \in {"idle", "write", "release"} /\ pending' \in 0 .. RingSize
      BY <2>9
    <2> HIDE DEF total
    <2> QED BY <2>2, <2>3, <2>4, <2>5, <2>6, <2>7, <2>8, <2>9, <2>10 DEF TypeInv, TypeOK
  <1>4. ASSUME NEW s \in Subscribers, NEW c \in BufferSizes, ReadRingBuf(s, c) PROVE TypeInv'
    <2> DEFINE frameEnd == offset[readIndex[s]]
               frameSize == Distance(readPos[s], frameEnd)
    <2>1. frameEnd \in Positions /\ readPos[s] \in Nat
      BY DEF TypeInv, TypeOK, Positions
    <2>2. frameSize \in Nat
      BY <1>4 DEF ReadRingBuf
    <2>3. out' \in Seq(Nat)
      BY <1>4, <2>1, <2>2, CopyType DEF ReadRingBuf
    <2>4. readPos' \in [Subscribers -> Positions]
      BY <1>4, <2>1 DEF ReadRingBuf, TypeInv, TypeOK
    <2>5. (readIndex[s] + 1) % OffsetSize \in Indices
      <3>1. readIndex[s] + 1 \in Nat
        BY DEF TypeInv, TypeOK, Indices
      <3> QED BY <3>1, StepType
    <2>6. readIndex' \in [Subscribers -> Indices]
      BY <1>4, <2>5 DEF ReadRingBuf, TypeInv, TypeOK
    <2>7. past' \in [Subscribers -> Nat]
      <3>1. past \in [Subscribers -> Nat]
        BY DEF TypeInv, TypeOK
      <3>2. past' = [past EXCEPT ![s] = @ + 1]
        BY <1>4 DEF ReadRingBuf
      <3> QED BY <3>1, <3>2
    <2>8. op' = "release" /\ UNCHANGED <<ring, subs, lost, pending, ends>>
      BY <1>4 DEF ReadRingBuf
    <2> QED BY <2>3, <2>4, <2>6, <2>7, <2>8 DEF TypeInv, TypeOK, ring
  <1>5. ASSUME NEW s \in Subscribers, AddSubscriber(s) PROVE TypeInv'
    BY <1>5 DEF AddSubscriber, ring, TypeInv, TypeOK
  <1>6. ASSUME NEW s \in Subscribers, RemoveSubscriber(s) PROVE TypeInv'
    <2>1. 0 \in Positions /\ 0 \in Indices /\ 0 \in Nat
      BY DEF Positions, Indices
    <2>2. subs' \subseteq Subscribers /\ op' = "release"
      BY <1>6 DEF RemoveSubscriber, TypeInv, TypeOK
    <2>3. readPos' \in [Subscribers -> Positions]
      BY <1>6, <2>1 DEF RemoveSubscriber, TypeInv, TypeOK
    <2>4. readIndex' \in [Subscribers -> Indices]
      BY <1>6, <2>1 DEF RemoveSubscriber, TypeInv, TypeOK
    <2>5. lost' \in [Subscribers -> Nat] /\ past' \in [Subscribers -> Nat]
      BY <1>6, <2>1 DEF RemoveSubscriber, TypeInv, TypeOK
    <2>6. UNCHANGED <<bytes, offset, offsetHead, offsetTail, dataHead, dataTail, used, free,
                      frameCount, pending, out, ends>>
      BY <1>6 DEF RemoveSubscriber, ring
    <2> QED BY <2>2, <2>3, <2>4, <2>5, <2>6 DEF TypeInv, TypeOK
  <1>7. ASSUME ReleaseOldest PROVE TypeInv'
    <2>1. frameCount > 0 /\ RemoveOldest /\ UNCHANGED <<readers, op, pending, out, ends>>
      BY <1>7 DEF ReleaseOldest
    <2> QED BY <2>1, RemoveOldestType DEF readers, TypeInv, TypeOK
  <1>8. ASSUME ReleaseDone PROVE TypeInv'
    BY <1>8 DEF ReleaseDone, ring, readers, TypeInv, TypeOK
  <1>9. ASSUME UpdateFreeSpace PROVE TypeInv'
    BY <1>9 DEF UpdateFreeSpace, ring, readers, TypeInv, TypeOK
  <1>10. CASE UNCHANGED vars
    BY <1>10 DEF vars, ring, readers, TypeInv, TypeOK
  <1> QED BY <1>1, <1>2, <1>3, <1>4, <1>5, <1>6, <1>7, <1>8, <1>9, <1>10 DEF Next

(* Every operation of the ring keeps every variable in its C++ range: no    *)
(* index leaves the table, no position leaves the ring, the space counters  *)
(* never go below 0 or above the ring size.                                 *)
THEOREM TypeCorrect == Spec => []TypeOK
  <1>1. Init => TypeInv
    BY InitType
  <1>2. TypeInv /\ [Next]_vars => TypeInv'
    BY NextType
  <1>3. TypeInv => TypeOK
    BY DEF TypeInv
  <1> QED BY <1>1, <1>2, <1>3, PTL DEF Spec

-----------------------------------------------------------------------------
(* The stream of frames and the ring that holds its end.                    *)

LEMMA StreamFacts ==
    ASSUME TypeOK, StreamOrdered
    PROVE  /\ Written \in Nat
           /\ \A n \in 0 .. Written : End(n) \in Nat
           /\ \A n \in 1 .. Written : /\ FrameLength(n) \in 1 .. RingSize
                                      /\ End(n) = End(n - 1) + FrameLength(n)
  <1>1. Written \in Nat
    BY DEF TypeOK, Written
  <1>2. \A n \in 0 .. Written : End(n) \in Nat
    BY <1>1 DEF TypeOK, Written, End
  <1>3. ASSUME NEW n \in 1 .. Written
        PROVE  FrameLength(n) \in 1 .. RingSize /\ End(n) = End(n - 1) + FrameLength(n)
    <2>1. n \in 0 .. Written /\ n - 1 \in 0 .. Written /\ n - 1 < n
      BY <1>1
    <2>2. End(n) \in Nat /\ End(n - 1) \in Nat /\ End(n - 1) < End(n)
      BY <1>2, <2>1 DEF StreamOrdered
    <2>3. FrameLength(n) <= RingSize
      BY DEF StreamOrdered
    <2> QED BY <2>2, <2>3 DEF FrameLength
  <1> QED BY <1>1, <1>2, <1>3

(* The retained frames are among those written, and fill the used bytes     *)
(* unless a frame of the size of the ring has just been dropped.            *)
LEMMA BaseFacts ==
    ASSUME IInv
    PROVE  /\ Base \in 0 .. Written /\ Written \in Nat
           /\ frameCount = Written - Base
           /\ frameCount \in 0 .. OffsetSize - 1
           /\ End(Base) \in Nat /\ End(Written) \in Nat
           /\ End(Base) <= End(Written)
           /\ End(Written) - End(Base) <= RingSize
  <1>1. Written \in Nat /\ frameCount \in 0 .. OffsetSize - 1 /\ frameCount <= Written
    BY StreamFacts DEF IInv, TypeOK, TableMatchesStream
  <1>2. Base \in 0 .. Written /\ frameCount = Written - Base
    BY <1>1 DEF Base
  <1>3. End(Base) \in Nat /\ End(Written) \in Nat
    BY <1>1, <1>2, StreamFacts DEF IInv
  <1>4. Base = Written \/ End(Base) < End(Written)
    BY <1>1, <1>2 DEF IInv, StreamOrdered
  <1>5. End(Written) - End(Base) <= RingSize
    <2>1. used \in 0 .. RingSize
      BY DEF IInv, TypeOK
    <2>2. CASE frameCount = 0
      BY <2>2, <1>1, <1>2, <1>3
    <2>3. CASE frameCount # 0
      BY <2>1, <2>3 DEF IInv, SpaceAccounted
    <2> QED BY <2>2, <2>3
  <1> QED BY <1>1, <1>2, <1>3, <1>4, <1>5

(* What DropOldestFrame and the release loop compute from the offset table: *)
(* the size of the oldest frame, or 0 for one as large as the ring, which   *)
(* is then the only one.                                                    *)
LEMMA OldestFrame ==
    ASSUME IInv, frameCount > 0
    PROVE  /\ Base + 1 \in 1 .. Written
           /\ OldestEnd = End(Base + 1) % RingSize
           /\ used = End(Written) - End(Base)
           /\ \/ OldestSize = FrameLength(Base + 1)
              \/ OldestSize = 0 /\ FrameLength(Base + 1) = RingSize /\ Base + 1 = Written
  <1> DEFINE len == FrameLength(Base + 1)
  <1>1. Base \in Nat /\ Base + 1 \in 1 .. Written /\ Written \in Nat
    BY BaseFacts, StreamFacts DEF IInv
  <1>2. OldestEnd = End(Base + 1) % RingSize
    <2>1. Base + 1 \in Base + 1 .. Written /\ (Base + 1) - 1 = Base
      BY <1>1
    <2>2. offset[Base % OffsetSize] = End(Base + 1) % RingSize
      BY <2>1 DEF IInv, TableMatchesStream
    <2> QED BY <2>2 DEF OldestEnd, IInv, TableMatchesStream
  <1>3. used = End(Written) - End(Base)
    BY DEF IInv, SpaceAccounted
  <1>4. len \in 1 .. RingSize /\ End(Base + 1) = End(Base) + len
    <2>1. (Base + 1) - 1 = Base
      BY <1>1
    <2> QED BY <1>1, <2>1, StreamFacts DEF IInv
  <1> HIDE DEF len
  <1>5. OldestSize = Way(RingSize, End(Base) % RingSize, (End(Base) + len) % RingSize)
    BY <1>2, <1>4, DistanceIsWay DEF OldestSize, IInv, TableMatchesStream
  <1>6. End(Base) \in Nat
    BY BaseFacts
  <1>7. CASE len < RingSize
    <2>1. len \in 0 .. RingSize - 1
      BY <1>4, <1>7
    <2>2. OldestSize = len
      BY <1>5, <1>6, <2>1, WayForward
    <2> QED BY <1>1, <1>2, <1>3, <2>2 DEF len
  <1>8. CASE len = RingSize
    <2>1. OldestSize = 0
      BY <1>5, <1>6, <1>8, WayLap
    <2>2. Base + 1 = Written
      <3>1. End(Written) <= End(Base + 1)
        BY <1>4, <1>6, <1>8, BaseFacts
      <3>2. ~(Base + 1 < Written)
        <4>1. ASSUME Base + 1 < Written PROVE FALSE
          <5>1. End(Base + 1) < End(Written)
            BY <1>1, <4>1 DEF IInv, StreamOrdered
          <5>2. End(Base + 1) \in Nat /\ End(Written) \in Nat
            BY <1>4, <1>6, BaseFacts
          <5> QED BY <3>1, <5>1, <5>2
        <4> QED BY <4>1
      <3> QED BY <1>1, <3>2
    <2> QED BY <1>1, <1>2, <1>3, <1>8, <2>1, <2>2 DEF len
  <1> QED BY <1>4, <1>7, <1>8

(* Stepping a table index that stands at frame n + 1 makes it stand at the  *)
(* next frame.                                                              *)
LEMMA NextIndex ==
    ASSUME NEW n \in Nat
    PROVE  ((n % OffsetSize) + 1) % OffsetSize = (n + 1) % OffsetSize
  <1>1. 1 \in 0 .. OffsetSize /\ OffsetSize \in Nat \ {0}
    OBVIOUS
  <1> QED BY <1>1, ModAdd

(* Taking the oldest frame away leaves the table, the space and the bytes   *)
(* describing the frames that are left.                                     *)
RingParts == StreamOrdered /\ TableMatchesStream /\ SpaceAccounted /\ RetainedBytesIntact

LEMMA RemoveOldestParts ==
    ASSUME IInv, frameCount > 0, RemoveOldest, UNCHANGED ends
    PROVE  RingParts' /\ Base' = Base + 1
  <1>1. Written' = Written /\ \A n : End(n)' = End(n) /\ FrameLength(n)' = FrameLength(n)
    BY DEF Written, End, FrameLength
  <1>2. /\ Base \in Nat /\ Written \in Nat /\ Base + 1 \in 1 .. Written
        /\ frameCount = Written - Base /\ frameCount \in 0 .. OffsetSize - 1
    BY BaseFacts, OldestFrame, StreamFacts DEF IInv
  <1>3. Base' = Base + 1
    BY <1>1, <1>2 DEF Base, RemoveOldest
  <1>4. StreamOrdered'
    BY <1>1 DEF IInv, StreamOrdered
  <1>5. TableMatchesStream'
    <2>1. offsetTail' = (Base + 1) % OffsetSize
      BY <1>2, NextIndex DEF RemoveOldest, IInv, TableMatchesStream
    <2>2. dataTail' = End(Base + 1) % RingSize
      BY OldestFrame DEF RemoveOldest
    <2>3. offsetHead' = Written % OffsetSize /\ dataHead' = End(Written) % RingSize
      BY DEF RemoveOldest, IInv, TableMatchesStream
    <2>4. \A n \in (Base + 1) + 1 .. Written :
              offset'[(n - 1) % OffsetSize] = End(n) % RingSize
      BY <1>2 DEF RemoveOldest, IInv, TableMatchesStream
    <2>5. frameCount' <= Written
      BY <1>2 DEF RemoveOldest
    <2> QED BY <1>1, <1>3, <2>1, <2>2, <2>3, <2>4, <2>5 DEF TableMatchesStream
  <1>6. SpaceAccounted'
    <2> DEFINE len == FrameLength(Base + 1)
    <2>1. len \in 1 .. RingSize /\ End(Base + 1) = End(Base) + len
      <3>1. (Base + 1) - 1 = Base
        BY <1>2
      <3> QED BY <1>2, <3>1, StreamFacts DEF IInv
    <2>2. /\ used \in 0 .. RingSize /\ End(Base) \in Nat /\ End(Written) \in Nat
          /\ used = End(Written) - End(Base)
      BY OldestFrame, BaseFacts DEF IInv, TypeOK
    <2>3. End(Base + 1) <= End(Written)
      BY <1>2, <2>1, <2>2 DEF IInv, StreamOrdered
    <2> HIDE DEF len
    <2>4. CASE OldestSize = len
      <3>1. used' = End(Written) - End(Base + 1)
        BY <2>1, <2>2, <2>3, <2>4 DEF RemoveOldest
      <3>2. used' + free' = RingSize
        BY <3>1, <2>1, <2>2 DEF RemoveOldest
      <3> QED BY <1>1, <1>3, <3>1, <3>2 DEF SpaceAccounted
    <2>5. CASE OldestSize = 0 /\ len = RingSize /\ Base + 1 = Written
      <3>1. used = RingSize
        BY <2>1, <2>2, <2>5
      <3>2. used' = RingSize /\ free' = 0
        BY <3>1, <2>5 DEF RemoveOldest
      <3>3. frameCount' = 0
        BY <1>2, <2>5 DEF RemoveOldest
      <3> QED BY <3>2, <3>3 DEF SpaceAccounted
    <2> QED BY <2>4, <2>5, OldestFrame DEF len
  <1>7. RetainedBytesIntact'
    <2>1. End(Base) < End(Base + 1) /\ End(Base) \in Nat /\ End(Base + 1) \in Nat
      BY <1>2, BaseFacts, StreamFacts DEF IInv, StreamOrdered
    <2>2. \A k \in End(Base + 1) + 1 .. End(Written) : bytes[(k - 1) % RingSize] = k
      <3>1. TAKE k \in End(Base + 1) + 1 .. End(Written)
      <3>2. k \in End(Base) + 1 .. End(Written)
        BY <2>1, BaseFacts
      <3> QED BY <3>2 DEF IInv, RetainedBytesIntact
    <2> QED BY <1>1, <1>3, <2>2 DEF RetainedBytesIntact, RemoveOldest
  <1> QED BY <1>3, <1>4, <1>5, <1>6, <1>7 DEF RingParts

(* A subscriber waits for the oldest frame exactly when its index says so:  *)
(* the table is never so full that two frames share an entry.               *)
LEMMA WaitingIsNext ==
    ASSUME IInv, NEW s \in subs
    PROVE  WaitingForOldest(s) <=> NextFrame(s) = Base + 1
  <1> DEFINE n == NextFrame(s) - 1
  <1>1. n \in Base .. Written /\ readIndex[s] = n % OffsetSize
    <2>1. NextFrame(s) \in Base + 1 .. Written + 1 /\ readIndex[s] = (NextFrame(s) - 1) % OffsetSize
      BY DEF IInv, ReadersPlaced
    <2> QED BY <2>1, BaseFacts
  <1>2. Base \in Nat /\ n \in Nat /\ n - Base < OffsetSize
    BY <1>1, BaseFacts
  <1>3. offsetTail = Base % OffsetSize
    BY DEF IInv, TableMatchesStream
  <1>4. NextFrame(s) \in Int
    <2>1. past[s] \in Nat /\ lost[s] \in Nat
      BY DEF IInv, TypeOK
    <2> QED BY <2>1 DEF NextFrame
  <1>5. NextFrame(s) = Base + 1 <=> n = Base
    <2> HIDE DEF NextFrame
    <2> QED BY <1>4, <1>2
  <1> HIDE DEF n
  <1>6. n % OffsetSize = Base % OffsetSize <=> n = Base
    <2>1. CASE n = Base
      BY <2>1
    <2>2. CASE Base < n
      <3>1. Base % OffsetSize # n % OffsetSize
        BY <1>2, <2>2, ModApart
      <3> QED BY <2>2, <3>1, <1>2
    <2> QED BY <1>1, <1>2, <2>1, <2>2
  <1> QED BY <1>1, <1>3, <1>5, <1>6 DEF WaitingForOldest

(* A step that leaves the ring alone.                                       *)
LEMMA RingKept ==
    ASSUME IInv, UNCHANGED ring, UNCHANGED ends
    PROVE  RingParts' /\ Base' = Base /\ Written' = Written /\ (\A n : End(n)' = End(n))
  <1>1. Written' = Written /\ Base' = Base /\ \A n : End(n)' = End(n) /\ FrameLength(n)' = FrameLength(n)
    BY DEF Written, Base, End, FrameLength, ring
  <1>2. StreamOrdered' /\ SpaceAccounted'
    BY <1>1 DEF IInv, StreamOrdered, SpaceAccounted, ring
  <1>3. TableMatchesStream'
    BY <1>1 DEF IInv, TableMatchesStream, ring
  <1>4. RetainedBytesIntact'
    BY <1>1 DEF IInv, RetainedBytesIntact, ring
  <1> QED BY <1>1, <1>2, <1>3, <1>4 DEF RingParts

(* Where a subscriber stands, as a fact of one subscriber.                  *)
Placed(s) ==
    /\ NextFrame(s) \in Base + 1 .. Written + 1
    /\ readIndex[s] = (NextFrame(s) - 1) % OffsetSize
    /\ readPos[s] = End(NextFrame(s) - 1) % RingSize

(* A write stores the new frame behind the retained ones without touching   *)
(* any of their bytes or table entries.                                     *)
LEMMA StoreParts ==
    ASSUME IInv, WriteStore
    PROVE  /\ RingParts'
           /\ Base' = Base /\ Written' = Written + 1
           /\ \A n \in 0 .. Written : End(n)' = End(n)
  <1> DEFINE total == IF ends = <<>> THEN 0 ELSE ends[Len(ends)]
  <1>1. /\ Written \in Nat /\ Base \in 0 .. Written
        /\ frameCount = Written - Base /\ frameCount \in 0 .. OffsetSize - 1
        /\ End(Base) \in Nat /\ End(Written) \in Nat /\ End(Base) <= End(Written)
    BY BaseFacts, StreamFacts DEF IInv
  <1>2. total = End(Written)
    BY DEF End, Written, IInv, TypeOK
  <1>3. pending \in 1 .. RingSize
    <2>1. pending \in 0 .. RingSize /\ pending > 0
      BY DEF IInv, TypeOK, CallsConsistent, WriteStore
    <2> QED BY <2>1
  <1>4. ends' = Append(ends, End(Written) + pending) /\ ends \in Seq(Nat)
    BY <1>2 DEF WriteStore, IInv, TypeOK
  <1> HIDE DEF total
  <1>5. /\ Written' = Written + 1
        /\ \A n \in 0 .. Written : End(n)' = End(n)
        /\ \A n \in {Written + 1} : End(n)' = End(Written) + pending
    <2>1. Written' = Written + 1
      BY <1>4 DEF Written
    <2>2. ASSUME NEW n \in 0 .. Written PROVE End(n)' = End(n)
      BY <1>4 DEF Written, End
    <2>3. ASSUME NEW n \in {Written + 1} PROVE End(n)' = End(Written) + pending
      <3>1. n # 0 /\ n = Len(ends) + 1
        BY <1>1 DEF Written
      <3>2. End(n)' = ends'[n]
        BY <3>1 DEF End
      <3> QED BY <1>4, <3>1, <3>2
    <2> QED BY <2>1, <2>2, <2>3
  <1>6. frameCount' = frameCount + 1 /\ Base' = Base
    BY <1>1, <1>5 DEF WriteStore, Base
  <1>7. /\ frameCount < OffsetSize - 1
        /\ free >= pending /\ used = RingSize - free
        /\ used = End(Written) - End(Base)
    <2>1. frameCount < OffsetSize - 1 /\ free >= pending
      BY <1>1, <1>3 DEF WriteStore, NeedsRoom, IInv, TypeOK
    <2>2. used + free = RingSize /\ used \in Nat /\ free \in Nat
      BY DEF IInv, TypeOK, SpaceAccounted
    <2>3. used < RingSize
      BY <1>3, <2>1, <2>2
    <2> QED BY <2>1, <2>2, <2>3 DEF IInv, SpaceAccounted
  <1>8. StreamOrdered'
    <2>1. ASSUME NEW i \in 0 .. Written + 1, NEW j \in 0 .. Written + 1, i < j
          PROVE  End(i)' < End(j)'
      <3>1. i \in 0 .. Written
        BY <1>1, <2>1
      <3>2. CASE j \in 0 .. Written
        BY <1>5, <2>1, <3>1, <3>2 DEF IInv, StreamOrdered
      <3>3. CASE j = Written + 1
        <4>1. i = Written \/ End(i) < End(Written)
          BY <1>1, <3>1 DEF IInv, StreamOrdered
        <4>2. End(i) \in Nat
          BY <3>1, StreamFacts DEF IInv
        <4> QED BY <1>1, <1>3, <1>5, <3>1, <3>3, <4>1, <4>2
      <3> QED BY <1>1, <3>2, <3>3
    <2>2. ASSUME NEW n \in 1 .. Written + 1
          PROVE  FrameLength(n)' <= RingSize
      <3>1. CASE n \in 1 .. Written
        <4>1. n \in 0 .. Written /\ n - 1 \in 0 .. Written
          BY <1>1, <3>1
        <4>2. FrameLength(n) \in 1 .. RingSize
          BY <3>1, StreamFacts DEF IInv
        <4> QED BY <1>5, <4>1, <4>2 DEF FrameLength
      <3>2. CASE n = Written + 1
        <4>1. n - 1 = Written /\ Written \in 0 .. Written
          BY <1>1, <3>2
        <4> QED BY <1>1, <1>3, <1>5, <3>2, <4>1 DEF FrameLength
      <3> QED BY <1>1, <3>1, <3>2
    <2> QED BY <1>5, <2>1, <2>2 DEF StreamOrdered
  <1>9. dataHead = End(Written) % RingSize /\ offsetHead = Written % OffsetSize
    BY DEF IInv, TableMatchesStream
  <1>10. dataHead' = (End(Written) + pending) % RingSize
    <2>1. pending \in 0 .. RingSize
      BY <1>3
    <2> QED BY <1>1, <1>9, <2>1, ModAdd DEF WriteStore
  <1>11. TableMatchesStream'
    <2>1. offsetHead' = (Written + 1) % OffsetSize
      BY <1>1, <1>9, NextIndex DEF WriteStore
    <2>2. offsetTail' = Base % OffsetSize /\ dataTail' = End(Base) % RingSize
      BY DEF WriteStore, IInv, TableMatchesStream
    <2>3. ASSUME NEW n \in Base + 1 .. Written + 1
          PROVE  offset'[(n - 1) % OffsetSize] = End(n)' % RingSize
      <3>1. n - 1 \in Nat /\ (n - 1) % OffsetSize \in Indices
        <4>1. n - 1 \in Nat
          BY <1>1
        <4> QED BY <4>1, StepType
      <3>2. offset' = [offset EXCEPT ![Written % OffsetSize] = dataHead']
        BY <1>9 DEF WriteStore
      <3>3. offset \in [Indices -> Positions]
        BY DEF IInv, TypeOK
      <3>4. CASE n = Written + 1
        <4>1. n - 1 = Written
          BY <1>1, <3>4
        <4> QED BY <1>5, <1>10, <3>1, <3>2, <3>3, <3>4, <4>1
      <3>5. CASE n \in Base + 1 .. Written
        <4>1. n - 1 < Written /\ Written - (n - 1) < OffsetSize
          BY <1>1, <3>5
        <4>2. (n - 1) % OffsetSize # Written % OffsetSize
          BY <1>1, <3>1, <4>1, ModApart
        <4>3. offset[(n - 1) % OffsetSize] = End(n) % RingSize
          BY <3>5 DEF IInv, TableMatchesStream
        <4>4. n \in 0 .. Written
          BY <1>1, <3>5
        <4> QED BY <1>5, <3>1, <3>2, <3>3, <4>2, <4>3, <4>4
      <3> QED BY <1>1, <3>4, <3>5
    <2>4. frameCount' <= Written + 1
      BY <1>1, <1>6
    <2>5. Base \in 0 .. Written
      BY <1>1
    <2> QED BY <1>5, <1>6, <1>10, <2>1, <2>2, <2>3, <2>4, <2>5 DEF TableMatchesStream
  <1>12. SpaceAccounted'
    <2>1. used' = End(Written) + pending - End(Base) /\ used' + free' = RingSize
      <3>1. used' = used + pending /\ free' = RingSize - used'
        BY DEF WriteStore
      <3> QED BY <1>1, <1>3, <1>7, <3>1
    <2>2. Base \in 0 .. Written
      BY <1>1
    <2>3. End(Written)' = End(Written) + pending /\ End(Base)' = End(Base)
      BY <1>5, <1>6, <2>2
    <2>4. used' = End(Written)' - End(Base)'
      BY <1>1, <1>3, <2>1, <2>3
    <2> QED BY <2>1, <2>4 DEF SpaceAccounted
  <1>13. RetainedBytesIntact'
    <2>1. ASSUME NEW k \in End(Base) + 1 .. End(Written) + pending
          PROVE  bytes'[(k - 1) % RingSize] = k
      <3> DEFINE p == (k - 1) % RingSize
      <3>1. k - 1 \in Nat /\ p \in Positions
        <4>1. k - 1 \in Nat
          BY <1>1, <1>3
        <4> QED BY <4>1, StepType
      <3>2. bytes'[p] = IF Distance(dataHead, p) < pending
                        THEN End(Written) + Distance(dataHead, p) + 1 ELSE bytes[p]
        <4>1. bytes' = CopyToRing(pending, total)
          BY DEF WriteStore, total
        <4> QED BY <1>2, <3>1, <4>1 DEF CopyToRing
      <3>3. CASE k <= End(Written)
        <4> DEFINE j == End(Written) - (k - 1)
        <4>1. j \in 1 .. RingSize /\ j <= RingSize - pending /\ (k - 1) + j = End(Written)
          <5>1. used \in Nat /\ free \in Nat
            BY DEF IInv, TypeOK
          <5> QED BY <1>1, <1>3, <1>7, <3>1, <3>3, <5>1
        <4> HIDE DEF j
        <4>2. Way(RingSize, ((k - 1) + j) % RingSize, (k - 1) % RingSize) = RingSize - j
          BY <3>1, <4>1, WayBack
        <4>3. Distance(dataHead, p) = RingSize - j
          BY <1>9, <4>1, <4>2, DistanceIsWay
        <4>4. bytes'[p] = bytes[p]
          BY <1>3, <3>2, <4>1, <4>3
        <4>5. k \in End(Base) + 1 .. End(Written)
          BY <1>1, <3>3
        <4>6. bytes[p] = k
          BY <4>5 DEF IInv, RetainedBytesIntact
        <4> QED BY <4>4, <4>6
      <3>4. CASE k > End(Written)
        <4> DEFINE i == (k - 1) - End(Written)
        <4>1. i \in 0 .. RingSize - 1 /\ i < pending /\ End(Written) + i = k - 1
          BY <1>1, <1>3, <3>1, <3>4
        <4> HIDE DEF i
        <4>2. Way(RingSize, End(Written) % RingSize, (End(Written) + i) % RingSize) = i
          BY <1>1, <4>1, WayForward
        <4>3. Distance(dataHead, p) = i
          BY <1>9, <4>1, <4>2, DistanceIsWay
        <4>4. bytes'[p] = End(Written) + i + 1
          BY <3>2, <4>1, <4>3
        <4> QED BY <1>1, <4>1, <4>4
      <3> QED BY <1>1, <3>3, <3>4
    <2>2. Base \in 0 .. Written
      BY <1>1
    <2> QED BY <1>5, <1>6, <2>1, <2>2 DEF RetainedBytesIntact
  <1> QED BY <1>5, <1>6, <1>8, <1>11, <1>12, <1>13 DEF RingParts

(* A subscriber nobody moves stays where it should be, as long as the frame *)
(* it waits for is kept.                                                    *)
LEMMA StandsStill ==
    ASSUME NEW s, Placed(s), NEW base \in Nat, NEW written \in Nat,
           Base \in Nat, Written \in Nat,
           past'[s] = past[s], lost'[s] = lost[s],
           readIndex'[s] = readIndex[s], readPos'[s] = readPos[s],
           Base' = base, Written' = written,
           NextFrame(s) # Base + 1 \/ base = Base, base \in {Base, Base + 1},
           written >= Written,
           \A n \in 0 .. Written : End(n)' = End(n)
    PROVE  Placed(s)'
  <1>1. NextFrame(s)' = NextFrame(s)
    BY DEF NextFrame
  <1>2. NextFrame(s) \in Base + 1 .. Written + 1
    BY DEF Placed
  <1>3. NextFrame(s) \in base + 1 .. written + 1 /\ NextFrame(s) - 1 \in 0 .. Written
    BY <1>2
  <1>4. \A n \in 0 .. Written : n = NextFrame(s) - 1 => End(n)' = End(NextFrame(s) - 1)
    OBVIOUS
  <1>5. End(NextFrame(s) - 1)' = End(NextFrame(s) - 1)
    BY <1>1, <1>3, <1>4
  <1> QED BY <1>1, <1>3, <1>5 DEF Placed

(* A forced drop moves those who stood at the oldest frame to the next one. *)
LEMMA SkipOldestPlaced ==
    ASSUME IInv, frameCount > 0, RemoveOldest, SkipOldest, UNCHANGED ends
    PROVE  ReadersPlaced'
  <1>1. /\ Base \in Nat /\ Written \in Nat /\ Base + 1 \in 1 .. Written /\ Written' = Written
        /\ Base' = Base + 1 /\ \A n : End(n)' = End(n)
    BY BaseFacts, OldestFrame, RemoveOldestParts DEF Written, End
  <1>2. subs' = subs /\ past' = past /\ subs \subseteq Subscribers
    BY DEF SkipOldest, IInv, TypeOK
  <1>3. offsetTail' = (Base + 1) % OffsetSize /\ dataTail' = End(Base + 1) % RingSize
    BY <1>1, NextIndex, OldestFrame DEF RemoveOldest, IInv, TableMatchesStream
  <1>4. ASSUME NEW s \in subs PROVE Placed(s)'
    <2>1. Placed(s) /\ s \in Subscribers
      BY <1>2 DEF IInv, ReadersPlaced, Placed
    <2>2. past[s] \in Nat /\ lost[s] \in Nat
      BY <2>1 DEF IInv, TypeOK
    <2>3. CASE WaitingForOldest(s)
      <3>1. NextFrame(s) = Base + 1
        BY <2>3, WaitingIsNext
      <3>2. /\ readIndex'[s] = offsetTail' /\ readPos'[s] = dataTail'
            /\ lost'[s] = lost[s] + 1
        BY <2>1, <2>3 DEF SkipOldest
      <3>3. NextFrame(s)' = NextFrame(s) + 1
        BY <1>2, <2>2, <3>2 DEF NextFrame
      <3>4. Base + 2 \in Base' + 1 .. Written' + 1 /\ (Base + 2) - 1 = Base + 1
        BY <1>1
      <3>5. NextFrame(s)' = Base + 2 /\ NextFrame(s)' - 1 = Base + 1
        BY <1>1, <3>1, <3>3
      <3>6. End(NextFrame(s) - 1)' = End(Base + 1)
        BY <1>1, <3>5
      <3> QED BY <1>3, <3>2, <3>4, <3>5, <3>6 DEF Placed
    <2>4. CASE ~WaitingForOldest(s)
      <3>1. NextFrame(s) # Base + 1
        BY <2>4, WaitingIsNext
      <3>2. /\ readIndex'[s] = readIndex[s] /\ readPos'[s] = readPos[s]
            /\ lost'[s] = lost[s]
        BY <2>1, <2>4 DEF SkipOldest
      <3> QED BY <1>1, <1>2, <2>1, <3>1, <3>2, StandsStill
    <2> QED BY <2>3, <2>4
  <1> QED BY <1>2, <1>4 DEF ReadersPlaced, Placed

-----------------------------------------------------------------------------
(* The invariant.                                                           *)

LEMMA InitInv == Init => IInv
  <1> SUFFICES ASSUME Init PROVE IInv
    OBVIOUS
  <1>1. TypeOK
    BY InitType DEF TypeInv
  <1>2. Written = 0 /\ Base = 0 /\ \A n \in {0} : End(n) = 0
    BY DEF Init, Written, Base, End
  <1>3. 0 % OffsetSize = 0 /\ 0 % RingSize = 0
    <2>1. 0 \in 0 .. OffsetSize - 1 /\ 0 \in 0 .. RingSize - 1
      OBVIOUS
    <2> QED BY <2>1, ModSmall
  <1>4. StreamOrdered /\ RetainedBytesIntact
    BY <1>2 DEF StreamOrdered, RetainedBytesIntact
  <1>5. TableMatchesStream /\ SpaceAccounted
    BY <1>2, <1>3 DEF TableMatchesStream, SpaceAccounted, Init
  <1>6. CallsConsistent /\ ReadersPlaced
    BY DEF CallsConsistent, ReadersPlaced, Init
  <1> QED BY <1>1, <1>4, <1>5, <1>6 DEF IInv

(* A read hands out the frame the subscriber stands at and leaves it at the *)
(* next one.                                                                *)
LEMMA ReadFacts ==
    ASSUME IInv, NEW s \in Subscribers, NEW c \in BufferSizes, ReadRingBuf(s, c)
    PROVE  /\ s \in subs /\ Placed(s) /\ NextFrame(s) \in Base + 1 .. Written
           /\ offset[readIndex[s]] = End(NextFrame(s)) % RingSize
  <1>1. s \in subs /\ Placed(s) /\ readIndex[s] # offsetHead
    BY DEF ReadRingBuf, IInv, ReadersPlaced, Placed
  <1>2. NextFrame(s) \in Base + 1 .. Written + 1 /\ Base \in Nat /\ Written \in Nat
    BY <1>1, BaseFacts DEF Placed
  <1>3. NextFrame(s) # Written + 1
    <2> SUFFICES ASSUME NextFrame(s) = Written + 1 PROVE FALSE
      OBVIOUS
    <2>1. NextFrame(s) - 1 = Written
      BY <1>2
    <2> QED BY <1>1, <2>1 DEF Placed, IInv, TableMatchesStream
  <1>4. NextFrame(s) \in Base + 1 .. Written
    BY <1>2, <1>3
  <1> QED BY <1>1, <1>4 DEF Placed, IInv, TableMatchesStream

LEMMA ReadPlaced ==
    ASSUME IInv, NEW s \in Subscribers, NEW c \in BufferSizes, ReadRingBuf(s, c)
    PROVE  ReadersPlaced'
  <1>1. /\ UNCHANGED <<ring, subs, lost, ends>>
        /\ s \in subs /\ Placed(s) /\ NextFrame(s) \in Base + 1 .. Written
        /\ offset[readIndex[s]] = End(NextFrame(s)) % RingSize
    BY ReadFacts DEF ReadRingBuf
  <1>2. /\ Base \in Nat /\ Written \in Nat /\ Base' = Base /\ Written' = Written
        /\ \A n : End(n)' = End(n)
    BY <1>1, RingKept, BaseFacts
  <1>3. /\ past \in [Subscribers -> Nat] /\ lost \in [Subscribers -> Nat]
        /\ readPos \in [Subscribers -> Positions] /\ readIndex \in [Subscribers -> Indices]
        /\ subs \subseteq Subscribers
    BY DEF IInv, TypeOK
  <1>4. ASSUME NEW t \in subs PROVE Placed(t)'
    <2>1. CASE t = s
      <3>1. past'[s] = past[s] + 1 /\ lost'[s] = lost[s]
        BY <1>1, <1>3 DEF ReadRingBuf
      <3>2. NextFrame(s)' = NextFrame(s) + 1
        BY <1>3, <3>1 DEF NextFrame
      <3>3. readPos'[s] = End(NextFrame(s)) % RingSize
        BY <1>1, <1>3 DEF ReadRingBuf
      <3>4. readIndex'[s] = NextFrame(s) % OffsetSize
        <4>1. readIndex[s] = (NextFrame(s) - 1) % OffsetSize
          BY <1>1 DEF Placed
        <4>2. NextFrame(s) - 1 \in Nat /\ (NextFrame(s) - 1) + 1 = NextFrame(s)
          BY <1>1, <1>2
        <4>3. (readIndex[s] + 1) % OffsetSize = NextFrame(s) % OffsetSize
          BY <4>1, <4>2, NextIndex
        <4>4. readIndex'[s] = (readIndex[s] + 1) % OffsetSize
          BY <1>3 DEF ReadRingBuf
        <4> QED BY <4>3, <4>4
      <3>5. NextFrame(s) + 1 \in Base + 1 .. Written + 1 /\ (NextFrame(s) + 1) - 1 = NextFrame(s)
        BY <1>1, <1>2
      <3>6. NextFrame(s)' - 1 = NextFrame(s)
        BY <3>2, <3>5
      <3>7. End(NextFrame(s) - 1)' = End(NextFrame(s))
        BY <1>2, <3>6
      <3> QED BY <1>2, <2>1, <3>2, <3>3, <3>4, <3>5, <3>6, <3>7 DEF Placed
    <2>2. CASE t # s
      <3>1. Placed(t) /\ t \in Subscribers
        BY <1>3 DEF IInv, ReadersPlaced, Placed
      <3>2. past'[t] = past[t] /\ readPos'[t] = readPos[t] /\ readIndex'[t] = readIndex[t]
        BY <1>3, <2>2, <3>1 DEF ReadRingBuf
      <3> QED BY <1>1, <1>2, <3>1, <3>2, StandsStill
    <2> QED BY <2>1, <2>2
  <1> QED BY <1>1, <1>4 DEF ReadersPlaced, Placed

(* Subscribing puts the newcomer at the live end; nobody else moves.        *)
LEMMA AddPlaced ==
    ASSUME IInv, NEW s \in Subscribers, AddSubscriber(s)
    PROVE  ReadersPlaced'
  <1>1. UNCHANGED <<ring, ends>> /\ subs' = subs \cup {s}
    BY DEF AddSubscriber
  <1>2. /\ Base \in 0 .. Written /\ Base \in Nat /\ Written \in Nat
        /\ Base' = Base /\ Written' = Written
        /\ \A n : End(n)' = End(n)
    BY <1>1, RingKept, BaseFacts
  <1>3. /\ past \in [Subscribers -> Nat] /\ lost \in [Subscribers -> Nat]
        /\ readPos \in [Subscribers -> Positions] /\ readIndex \in [Subscribers -> Indices]
        /\ subs \subseteq Subscribers
    BY DEF IInv, TypeOK
  <1>4. ASSUME NEW t \in subs' PROVE Placed(t)'
    <2>1. CASE t = s
      <3>1. /\ past'[s] = Written /\ lost'[s] = 0
            /\ readPos'[s] = dataHead /\ readIndex'[s] = offsetHead
        BY <1>3 DEF AddSubscriber, Written
      <3>2. NextFrame(s)' = Written + 1
        BY <1>2, <3>1 DEF NextFrame
      <3>3. Written + 1 \in Base + 1 .. Written + 1 /\ (Written + 1) - 1 = Written
        BY <1>2
      <3>4. NextFrame(s)' - 1 = Written
        BY <3>2, <3>3
      <3>5. End(NextFrame(s) - 1)' = End(Written)
        BY <1>2, <3>4
      <3>6. dataHead = End(Written) % RingSize /\ offsetHead = Written % OffsetSize
        BY DEF IInv, TableMatchesStream
      <3> QED BY <1>2, <2>1, <3>1, <3>2, <3>3, <3>4, <3>5, <3>6 DEF Placed
    <2>2. CASE t # s
      <3>1. t \in subs /\ t \in Subscribers
        BY <1>1, <1>3, <2>2
      <3>2. Placed(t)
        BY <3>1 DEF IInv, ReadersPlaced, Placed
      <3>3. /\ past'[t] = past[t] /\ lost'[t] = lost[t]
            /\ readPos'[t] = readPos[t] /\ readIndex'[t] = readIndex[t]
        BY <1>3, <2>2, <3>1 DEF AddSubscriber
      <3> QED BY <1>2, <3>2, <3>3, StandsStill
    <2> QED BY <2>1, <2>2
  <1> QED BY <1>4 DEF ReadersPlaced, Placed

(* Steps that move no reader of those that remain.                          *)
LEMMA KeptPlaced ==
    ASSUME IInv, NEW base \in Nat, NEW written \in Nat,
           Base' = base, Written' = written, written >= Written,
           subs' \subseteq subs,
           \A s \in subs' : /\ past'[s] = past[s] /\ lost'[s] = lost[s]
                            /\ readIndex'[s] = readIndex[s] /\ readPos'[s] = readPos[s],
           base \in {Base, Base + 1},
           base = Base \/ \A s \in subs' : ~WaitingForOldest(s),
           \A n \in 0 .. Written : End(n)' = End(n)
    PROVE  ReadersPlaced'
  <1>1. Base \in Nat /\ Written \in Nat
    BY BaseFacts
  <1>2. ASSUME NEW s \in subs' PROVE Placed(s)'
    <2>1. Placed(s) /\ s \in subs
      BY DEF IInv, ReadersPlaced, Placed
    <2>2. NextFrame(s) # Base + 1 \/ base = Base
      BY <2>1, WaitingIsNext
    <2> QED BY <1>1, <2>1, <2>2, StandsStill
  <1> QED BY <1>2 DEF ReadersPlaced, Placed

LEMMA NextInv == IInv /\ [Next]_vars => IInv'
  <1> SUFFICES ASSUME IInv, [Next]_vars PROVE IInv'
    OBVIOUS
  <1>1. TypeOK'
    <2>1. TypeInv
      BY DEF IInv, TypeInv, SpaceAccounted
    <2> QED BY <2>1, NextType DEF TypeInv
  <1>2. Base \in 0 .. Written /\ Base \in Nat /\ Written \in Nat
    BY BaseFacts
  <1> SUFFICES RingParts' /\ ReadersPlaced' /\ CallsConsistent'
    BY <1>1 DEF RingParts, IInv
  <1>3. ASSUME NEW n \in FrameSizes, WriteBegin(n)
        PROVE  RingParts' /\ ReadersPlaced' /\ CallsConsistent'
    <2>1. RingParts' /\ Base' = Base /\ Written' = Written /\ \A k : End(k)' = End(k)
      BY <1>3, RingKept DEF WriteBegin
    <2>2. ReadersPlaced'
      BY <1>2, <1>3, <2>1, KeptPlaced DEF WriteBegin, readers
    <2>3. CallsConsistent'
      BY <1>3 DEF WriteBegin, IInv, CallsConsistent
    <2> QED BY <2>1, <2>2, <2>3
  <1>4. ASSUME WriteDrop
        PROVE  RingParts' /\ ReadersPlaced' /\ CallsConsistent'
    <2>1. CallsConsistent'
      BY <1>4 DEF WriteDrop, IInv, CallsConsistent
    <2>2. CASE frameCount = 0 /\ ResetSpace
      <3>1. Base = Written
        BY <1>2, <2>2 DEF Base
      <3>2. /\ Written' = Written /\ Base' = Base
            /\ \A k : End(k)' = End(k) /\ FrameLength(k)' = FrameLength(k)
        BY <1>4, <2>2 DEF WriteDrop, ResetSpace, Written, Base, End, FrameLength
      <3>3. StreamOrdered'
        BY <3>2 DEF IInv, StreamOrdered
      <3>4. TableMatchesStream'
        BY <2>2, <3>1, <3>2 DEF ResetSpace, IInv, TableMatchesStream
      <3>5. SpaceAccounted'
        <4>1. used' = 0 /\ free' = RingSize
          BY <2>2 DEF ResetSpace
        <4>2. End(Written)' = End(Written) /\ End(Base)' = End(Written)
          BY <3>1, <3>2
        <4>3. End(Written)' - End(Base)' = 0
          BY <4>2, BaseFacts
        <4> QED BY <4>1, <4>3 DEF SpaceAccounted
      <3>6. RetainedBytesIntact'
        BY <2>2, <3>2 DEF ResetSpace, IInv, RetainedBytesIntact
      <3>7. ReadersPlaced'
        BY <1>2, <2>2, <3>2, KeptPlaced DEF ResetSpace
      <3> QED BY <2>1, <3>3, <3>4, <3>5, <3>6, <3>7 DEF RingParts
    <2>3. CASE frameCount > 0 /\ RemoveOldest /\ SkipOldest
      <3>1. UNCHANGED ends
        BY <1>4 DEF WriteDrop
      <3> QED BY <2>1, <2>3, <3>1, RemoveOldestParts, SkipOldestPlaced
    <2> QED BY <1>4, <2>2, <2>3 DEF WriteDrop
  <1>5. ASSUME WriteStore
        PROVE  RingParts' /\ ReadersPlaced' /\ CallsConsistent'
    <2>1. /\ RingParts' /\ Base' = Base /\ Written' = Written + 1
          /\ \A n \in 0 .. Written : End(n)' = End(n)
      BY <1>5, StoreParts
    <2>2. UNCHANGED <<subs, past, lost, readIndex, readPos>>
      BY <1>5 DEF WriteStore, readers
    <2>3. Written + 1 \in Nat /\ Written + 1 >= Written
      BY <1>2
    <2>4. ReadersPlaced'
      BY <1>2, <2>1, <2>2, <2>3, KeptPlaced
    <2>5. CallsConsistent'
      BY <1>5 DEF WriteStore, IInv, CallsConsistent
    <2> QED BY <2>1, <2>4, <2>5
  <1>6. ASSUME NEW s \in Subscribers, NEW c \in BufferSizes, ReadRingBuf(s, c)
        PROVE  RingParts' /\ ReadersPlaced' /\ CallsConsistent'
    <2>1. RingParts'
      BY <1>6, RingKept DEF ReadRingBuf
    <2>2. CallsConsistent'
      BY <1>6 DEF ReadRingBuf, IInv, CallsConsistent
    <2> QED BY <1>6, <2>1, <2>2, ReadPlaced
  <1>7. ASSUME NEW s \in Subscribers, AddSubscriber(s)
        PROVE  RingParts' /\ ReadersPlaced' /\ CallsConsistent'
    <2>1. RingParts'
      BY <1>7, RingKept DEF AddSubscriber
    <2>2. CallsConsistent'
      BY <1>7 DEF AddSubscriber, IInv, CallsConsistent
    <2> QED BY <1>7, <2>1, <2>2, AddPlaced
  <1>8. ASSUME NEW s \in Subscribers, RemoveSubscriber(s)
        PROVE  RingParts' /\ ReadersPlaced' /\ CallsConsistent'
    <2>1. RingParts' /\ Base' = Base /\ Written' = Written /\ \A k : End(k)' = End(k)
      BY <1>8, RingKept DEF RemoveSubscriber
    <2>2. CallsConsistent'
      BY <1>8 DEF RemoveSubscriber, IInv, CallsConsistent
    <2>3. subs' \subseteq subs /\ s \notin subs' /\ subs' \subseteq Subscribers
      BY <1>8 DEF RemoveSubscriber, IInv, TypeOK
    <2>4. \A t \in subs' : /\ past'[t] = past[t] /\ lost'[t] = lost[t]
                           /\ readIndex'[t] = readIndex[t] /\ readPos'[t] = readPos[t]
      BY <1>8, <2>3 DEF RemoveSubscriber, IInv, TypeOK
    <2>5. ReadersPlaced'
      BY <1>2, <2>1, <2>3, <2>4, KeptPlaced
    <2> QED BY <2>1, <2>2, <2>5
  <1>9. ASSUME ReleaseOldest
        PROVE  RingParts' /\ ReadersPlaced' /\ CallsConsistent'
    <2>1. /\ frameCount > 0 /\ RemoveOldest /\ UNCHANGED <<readers, op, pending, out, ends>>
          /\ \A s \in Subscribers : ~WaitingForOldest(s)
      BY <1>9 DEF ReleaseOldest
    <2>2. RingParts' /\ Base' = Base + 1
      BY <2>1, RemoveOldestParts
    <2>3. Written' = Written /\ \A k : End(k)' = End(k)
      BY <2>1 DEF Written, End
    <2>4. Base + 1 \in Nat
      BY <1>2
    <2>5. subs' \subseteq Subscribers /\ UNCHANGED <<subs, past, lost, readIndex, readPos>>
      BY <2>1 DEF readers, IInv, TypeOK
    <2>6. ReadersPlaced'
      BY <1>2, <2>1, <2>2, <2>3, <2>4, <2>5, KeptPlaced
    <2>7. CallsConsistent'
      BY <2>1 DEF IInv, CallsConsistent
    <2> QED BY <2>2, <2>6, <2>7
  <1>10. ASSUME ReleaseDone \/ UpdateFreeSpace \/ UNCHANGED vars
         PROVE  RingParts' /\ ReadersPlaced' /\ CallsConsistent'
    <2>1. UNCHANGED <<ring, readers, ends>>
      BY <1>10 DEF ReleaseDone, UpdateFreeSpace, vars
    <2>2. RingParts' /\ Base' = Base /\ Written' = Written /\ \A k : End(k)' = End(k)
      BY <2>1, RingKept
    <2>3. ReadersPlaced'
      BY <1>2, <2>1, <2>2, KeptPlaced DEF readers
    <2>4. CallsConsistent'
      BY <1>10 DEF ReleaseDone, UpdateFreeSpace, vars, IInv, CallsConsistent
    <2> QED BY <2>2, <2>3, <2>4
  <1> QED BY <1>3, <1>4, <1>5, <1>6, <1>7, <1>8, <1>9, <1>10 DEF Next

LEMMA Invariance == Spec => []IInv
  <1>1. Init => IInv
    BY InitInv
  <1>2. IInv /\ [Next]_vars => IInv'
    BY NextInv
  <1> QED BY <1>1, <1>2, PTL DEF Spec

(* WriteToRingBuf never overwrites a byte of a frame that is still to be    *)
(* read, however the head, the tail and the frame sizes meet.               *)
THEOREM RetainedBytesSafe == Spec => []RetainedBytesIntact
  <1>1. IInv => RetainedBytesIntact
    BY DEF IInv
  <1> QED BY <1>1, Invariance, PTL

(* No subscriber is ever left at a table entry or position that was reused, *)
(* and what it was given plus what it is told it lost is all it missed.     *)
THEOREM ReadersSafe == Spec => []ReadersPlaced
  <1>1. IInv => ReadersPlaced
    BY DEF IInv
  <1> QED BY <1>1, Invariance, PTL

(* The offset table describes the retained frames, and the space counters   *)
(* their size, in every state.                                              *)
THEOREM TableSafe == Spec => [](TableMatchesStream /\ SpaceAccounted)
  <1>1. IInv => TableMatchesStream /\ SpaceAccounted
    BY DEF IInv
  <1> QED BY <1>1, Invariance, PTL

-----------------------------------------------------------------------------
(* ReadRingBuf sees every waiting frame that is smaller than the ring with  *)
(* the size it was committed with, whatever frames went before it.          *)
THEOREM SmallFramesSafe == Spec => []SmallFramesReadable
  <1>1. IInv => SmallFramesReadable
    <2> SUFFICES ASSUME IInv, NEW s \in subs, readIndex[s] # offsetHead,
                        FrameLength(NextFrame(s)) < RingSize
                 PROVE  Distance(readPos[s], offset[readIndex[s]]) = FrameLength(NextFrame(s))
      BY DEF SmallFramesReadable, FrameReadable
    <2> DEFINE n == NextFrame(s)
               len == FrameLength(n)
    <2>1. Placed(s) /\ Base \in Nat /\ Written \in Nat
      BY BaseFacts DEF IInv, ReadersPlaced, Placed
    <2>2. n \in Base + 1 .. Written
      <3>1. n # Written + 1
        <4> SUFFICES ASSUME n = Written + 1 PROVE FALSE
          OBVIOUS
        <4>1. n - 1 = Written
          BY <2>1
        <4> QED BY <2>1, <4>1 DEF Placed, IInv, TableMatchesStream
      <3> QED BY <2>1, <3>1 DEF Placed
    <2>3. offset[readIndex[s]] = End(n) % RingSize /\ readPos[s] = End(n - 1) % RingSize
      BY <2>1, <2>2 DEF Placed, IInv, TableMatchesStream
    <2>4. n \in 1 .. Written /\ n - 1 \in 0 .. Written
      BY <2>1, <2>2
    <2>5. len < RingSize
      OBVIOUS
    <2> HIDE DEF n
    <2>6. len \in 0 .. RingSize - 1 /\ End(n) = End(n - 1) + len /\ End(n - 1) \in Nat
      <3>1. len \in 1 .. RingSize /\ End(n) = End(n - 1) + len /\ End(n - 1) \in Nat
        BY <2>4, StreamFacts DEF IInv
      <3> QED BY <2>5, <3>1
    <2> HIDE DEF len
    <2>7. Distance(readPos[s], offset[readIndex[s]]) = len
      BY <2>3, <2>6, DistanceIsWay, WayForward
    <2> QED BY <2>7 DEF n, len
  <1> QED BY <1>1, Invariance, PTL

-----------------------------------------------------------------------------
(* The ring implements the stream.                                          *)

LEMMA StreamInit == Init => Stream!Init
  <1>1. Init => Written = 0 /\ Base = 0
    BY DEF Init, Written, Base
  <1> QED BY <1>1 DEF Init, None, Stream!Init

(* One frame is handed out as the bytes it was committed with.              *)
LEMMA DeliverStep ==
    ASSUME IInv, NEW s \in Subscribers, NEW c \in BufferSizes, ReadRingBuf(s, c)
    PROVE  Stream!Deliver(s)
  <1> DEFINE n == NextFrame(s)
             len == FrameLength(n)
             frameEnd == offset[readIndex[s]]
             frameSize == Distance(readPos[s], frameEnd)
  <1>1. /\ s \in subs /\ Placed(s) /\ n \in Base + 1 .. Written
        /\ frameEnd = End(n) % RingSize /\ readPos[s] = End(n - 1) % RingSize
    BY ReadFacts DEF Placed
  <1>2. Base \in 0 .. Written /\ Base \in Nat /\ Written \in Nat /\ n \in 1 .. Written
        /\ n - 1 \in 0 .. Written /\ Base <= n - 1
    BY <1>1, BaseFacts
  <1>3. len \in 1 .. RingSize /\ End(n) = End(n - 1) + len /\ End(n - 1) \in Nat
    BY <1>2, StreamFacts DEF IInv
  <1>4. /\ frameSize \in 1 .. RingSize /\ out' = CopyFromRing(readPos[s], frameSize)
        /\ op = "idle" /\ past' = [past EXCEPT ![s] = @ + 1]
        /\ UNCHANGED <<ring, subs, lost, pending, ends>>
    BY DEF ReadRingBuf
  <1> HIDE DEF n, len
  <1>5. frameSize = len
    <2>1. frameSize = Way(RingSize, End(n - 1) % RingSize, (End(n - 1) + len) % RingSize)
      BY <1>1, <1>3, DistanceIsWay
    <2> HIDE DEF frameSize
    <2>2. CASE len < RingSize
      <3>1. len \in 0 .. RingSize - 1
        BY <1>3, <2>2
      <3> QED BY <1>3, <2>1, <3>1, WayForward
    <2>3. CASE len = RingSize
      <3>1. frameSize = 0
        BY <1>3, <2>1, <2>3, WayLap
      <3> QED BY <1>4, <3>1
    <2> QED BY <1>3, <2>2, <2>3
  <1> HIDE DEF frameSize
  <1>6. out' = [i \in 1 .. len |-> End(n - 1) + i]
    <2>1. ASSUME NEW i \in 1 .. len
          PROVE  bytes[(readPos[s] + i - 1) % RingSize] = End(n - 1) + i
      <3>1. i - 1 \in 0 .. RingSize
        BY <1>3
      <3>2. ((End(n - 1) % RingSize) + (i - 1)) % RingSize = (End(n - 1) + (i - 1)) % RingSize
        BY <1>3, <3>1, ModAdd
      <3>3. readPos[s] + i - 1 = (End(n - 1) % RingSize) + (i - 1)
        <4>1. readPos[s] \in Nat
          BY DEF IInv, TypeOK, Positions, ReadRingBuf
        <4> QED BY <1>1, <1>3, <4>1
      <3>4. End(n - 1) + i \in End(Base) + 1 .. End(Written)
        <4>1. End(Base) <= End(n - 1)
          <5>1. Base = n - 1 \/ End(Base) < End(n - 1)
            BY <1>2 DEF IInv, StreamOrdered
          <5> QED BY <1>3, <5>1, BaseFacts
        <4>2. End(n) <= End(Written)
          BY <1>2, <1>3, BaseFacts DEF IInv, StreamOrdered
        <4> QED BY <1>3, <4>1, <4>2, BaseFacts
      <3>5. bytes[((End(n - 1) + i) - 1) % RingSize] = End(n - 1) + i
        BY <3>4 DEF IInv, RetainedBytesIntact
      <3>6. (End(n - 1) + i) - 1 = End(n - 1) + (i - 1)
        BY <1>3
      <3> QED BY <3>2, <3>3, <3>5, <3>6
    <2>2. out' = [i \in 1 .. len |-> bytes[(readPos[s] + i - 1) % RingSize]]
      BY <1>4, <1>5 DEF CopyFromRing
    <2> QED BY <2>1, <2>2
  <1>7. out' = Stream!FrameBytes(Stream!NextFrame(s))
    <2>1. Stream!NextFrame(s) = n /\ Stream!End(n) = End(n) /\ Stream!End(n - 1) = End(n - 1)
      BY DEF n, NextFrame, End, Stream!NextFrame, Stream!End
    <2>2. Stream!End(n) - Stream!End(n - 1) = len
      BY <1>3, <2>1
    <2> QED BY <1>6, <2>1, <2>2 DEF Stream!FrameBytes
  <1>8. pending = 0 /\ out = <<>>
    BY <1>4 DEF IInv, TypeOK, CallsConsistent
  <1>9. Base' = Base
    BY <1>4 DEF Base, Written, ring
  <1>10. Stream!NextFrame(s) <= Len(ends)
    BY <1>2 DEF n, NextFrame, Written, Stream!NextFrame
  <1> QED BY <1>1, <1>4, <1>7, <1>8, <1>9, <1>10 DEF Stream!Deliver

LEMMA StreamNext == IInv /\ [Next]_vars => [Stream!Next]_(Stream!vars)
  <1> SUFFICES ASSUME IInv, [Next]_vars PROVE Stream!Next \/ UNCHANGED Stream!vars
    OBVIOUS
  <1>1. ASSUME UNCHANGED <<ring, ends>> PROVE Base' = Base
    BY <1>1 DEF ring, Base, Written
  <1>2. op # "write" => pending = 0
    BY DEF IInv, TypeOK, CallsConsistent
  <1>3. op # "release" => out = <<>>
    BY DEF IInv, CallsConsistent
  <1>4. ASSUME NEW n \in FrameSizes, WriteBegin(n) PROVE Stream!Next
    <2>1. Stream!Offer(n)
      BY <1>1, <1>2, <1>3, <1>4 DEF WriteBegin, readers, Stream!Offer
    <2> QED BY <2>1 DEF Stream!Next
  <1>5. ASSUME WriteDrop PROVE Stream!Next \/ UNCHANGED Stream!vars
    <2>1. CASE frameCount = 0 /\ ResetSpace
      <3>1. Base' = Base
        BY <1>5, <2>1 DEF WriteDrop, ResetSpace, Base, Written
      <3> QED BY <1>5, <2>1, <3>1 DEF WriteDrop, ResetSpace, Stream!vars
    <2>2. CASE frameCount > 0 /\ RemoveOldest /\ SkipOldest
      <3>1. pending > 0 /\ NeedsRoom /\ UNCHANGED <<ends, subs, past, pending, out>>
        BY <1>5, <2>2 DEF WriteDrop, SkipOldest, IInv, CallsConsistent
      <3>2. Base' = Base + 1 /\ Base + 1 \in 1 .. Written /\ Base \in Nat /\ Written \in Nat
        BY <2>2, <3>1, RemoveOldestParts, OldestFrame, BaseFacts
      <3>3. ~Stream!Room
        <4>1. CASE frameCount >= OffsetSize - 1
          BY <4>1, BaseFacts DEF Stream!Room, Base, Written
        <4>2. CASE free < pending
          <5>1. used = End(Written) - End(Base)
            BY <2>2, OldestFrame
          <5>2. /\ used + free = RingSize /\ used \in Nat /\ free \in Nat /\ pending \in Nat
                /\ End(Written) \in Nat /\ End(Base) \in Nat
            BY BaseFacts DEF IInv, TypeOK, SpaceAccounted
          <5>3. ~(End(Written) - End(Base) + pending <= RingSize)
            BY <4>2, <5>1, <5>2
          <5> QED BY <5>3 DEF Stream!Room, Stream!End, End, Written
        <4> QED BY <3>1, <4>1, <4>2 DEF NeedsRoom
      <3>4. lost' = [s \in Subscribers |->
                        IF s \in subs /\ Stream!NextFrame(s) = Base + 1
                        THEN lost[s] + 1 ELSE lost[s]]
        <4>1. \A s \in Subscribers :
                  WaitingForOldest(s) <=> (s \in subs /\ NextFrame(s) = Base + 1)
          BY WaitingIsNext DEF WaitingForOldest
        <4>2. lost' = [s \in Subscribers |->
                          IF WaitingForOldest(s) THEN lost[s] + 1 ELSE lost[s]]
          BY <2>2 DEF SkipOldest
        <4> QED BY <4>1, <4>2 DEF NextFrame, Stream!NextFrame
      <3>5. Base < Len(ends)
        BY <3>2 DEF Written
      <3>6. Stream!Lose
        BY <3>1, <3>2, <3>3, <3>4, <3>5 DEF Stream!Lose
      <3> QED BY <3>6 DEF Stream!Next
    <2> QED BY <1>5, <2>1, <2>2 DEF WriteDrop
  <1>6. ASSUME WriteStore PROVE Stream!Next
    <2>1. /\ Base' = Base /\ Base \in Nat /\ Written \in Nat /\ frameCount = Written - Base
          /\ End(Base) \in Nat /\ End(Written) \in Nat
      BY <1>6, StoreParts, BaseFacts
    <2>2. pending > 0 /\ ~NeedsRoom /\ pending \in Nat /\ frameCount \in Nat /\ free \in Nat
          /\ used \in Nat
      BY <1>6 DEF WriteStore, IInv, TypeOK, CallsConsistent
    <2>3. Stream!Room
      <3>1. Written - Base < OffsetSize - 1
        BY <2>1, <2>2 DEF NeedsRoom
      <3>2. End(Written) - End(Base) <= used /\ used + free = RingSize /\ free >= pending
        <4>1. used + free = RingSize
          BY DEF IInv, SpaceAccounted
        <4>2. free >= pending
          BY <2>2 DEF NeedsRoom
        <4>3. used = End(Written) - End(Base) \/ used = RingSize
          BY DEF IInv, SpaceAccounted
        <4> QED BY <2>1, <2>2, <4>1, <4>2, <4>3, BaseFacts
      <3>3. End(Written) - End(Base) + pending <= RingSize
        BY <2>1, <2>2, <3>2
      <3> QED BY <3>1, <3>3 DEF Stream!Room, Stream!End, End, Written
    <2>4. ends' = Append(ends, Stream!End(Len(ends)) + pending)
      BY <1>6 DEF WriteStore, Stream!End, IInv, TypeOK
    <2>5. pending' = 0 /\ UNCHANGED <<subs, past, lost, out>>
      BY <1>6 DEF WriteStore, readers
    <2>6. Stream!Commit
      BY <2>1, <2>2, <2>3, <2>4, <2>5 DEF Stream!Commit
    <2> QED BY <2>6 DEF Stream!Next
  <1>7. ASSUME NEW s \in Subscribers, NEW c \in BufferSizes, ReadRingBuf(s, c) PROVE Stream!Next
    BY <1>7, DeliverStep DEF Stream!Next
  <1>8. ASSUME NEW s \in Subscribers, AddSubscriber(s) PROVE Stream!Next
    <2>1. Stream!Join(s)
      BY <1>1, <1>8 DEF AddSubscriber, Stream!Join
    <2> QED BY <2>1 DEF Stream!Next
  <1>9. ASSUME NEW s \in Subscribers, RemoveSubscriber(s) PROVE Stream!Next
    <2>1. Stream!Leave(s)
      BY <1>1, <1>9 DEF RemoveSubscriber, Stream!Leave
    <2> QED BY <2>1 DEF Stream!Next
  <1>10. ASSUME ReleaseOldest PROVE Stream!Next
    <2>1. /\ frameCount > 0 /\ RemoveOldest /\ UNCHANGED <<readers, pending, out, ends>>
          /\ \A s \in Subscribers : ~WaitingForOldest(s)
      BY <1>10 DEF ReleaseOldest
    <2>2. Base' = Base + 1 /\ Base + 1 \in 1 .. Written /\ Base \in Nat /\ Written \in Nat
      BY <2>1, RemoveOldestParts, OldestFrame, BaseFacts
    <2>3. ASSUME NEW s \in subs PROVE Stream!NextFrame(s) > Base + 1
      <3>1. s \in Subscribers
        BY DEF IInv, TypeOK
      <3>2. NextFrame(s) # Base + 1 /\ NextFrame(s) \in Base + 1 .. Written + 1
        BY <2>1, <3>1, WaitingIsNext DEF IInv, ReadersPlaced
      <3>3. NextFrame(s) > Base + 1
        BY <2>2, <3>2
      <3> QED BY <3>3 DEF NextFrame, Stream!NextFrame
    <2>4. Base < Len(ends)
      BY <2>2 DEF Written
    <2>5. Stream!Release
      BY <2>1, <2>2, <2>3, <2>4 DEF readers, Stream!Release
    <2> QED BY <2>5 DEF Stream!Next
  <1>11. ASSUME ReleaseDone PROVE Stream!Next \/ UNCHANGED Stream!vars
    <2>1. out' = <<>> /\ Base' = Base /\ UNCHANGED <<subs, past, lost, pending, ends>>
      BY <1>1, <1>11 DEF ReleaseDone, readers
    <2>2. CASE out = <<>>
      BY <2>1, <2>2 DEF Stream!vars
    <2>3. CASE out # <<>>
      BY <2>1, <2>3 DEF Stream!Return, Stream!Next
    <2> QED BY <2>2, <2>3
  <1>12. ASSUME UpdateFreeSpace \/ UNCHANGED vars PROVE UNCHANGED Stream!vars
    BY <1>1, <1>12 DEF UpdateFreeSpace, vars, readers, Stream!vars
  <1> QED BY <1>4, <1>5, <1>6, <1>7, <1>8, <1>9, <1>10, <1>11, <1>12 DEF Next

(* Seen from outside, the cache is the stream of whole frames that          *)
(* FrameStream promises: every operation of ringBuffer is one step of it.   *)
THEOREM RingImplementsStream == Spec => IsFrameStream
  <1>1. Init => Stream!Init
    BY StreamInit
  <1>2. IInv /\ [Next]_vars => [Stream!Next]_(Stream!vars)
    BY StreamNext
  <1> QED BY <1>1, <1>2, Invariance, PTL DEF Spec, IsFrameStream, Stream!Spec
=============================================================================
