--------------------------- MODULE DataBusProofs ---------------------------
(***************************************************************************)
(* What DataBus says of accounts, for any accounts and names, any caches   *)
(* and callbacks, and any bounds on retained frames and timeouts.          *)
(***************************************************************************)
EXTENDS DataBus, FiniteSetTheorems, SequenceTheorems, TLAPS

(* The types, in three parts: the lists,                                    *)
ListTypes ==
    /\ alive \subseteq Accounts /\ Main \in alive
    /\ pool \subseteq alive \ {Main}
    /\ ring \subseteq alive \cap Cached
    /\ publishers \in [Accounts -> SUBSET Accounts]
    /\ subscribers \in [Accounts -> SUBSET Accounts]

(* the caches,                                                              *)
CacheTypes ==
    /\ frames \in [Accounts -> Seq(Sizes)]
    /\ \A a \in Accounts : Len(frames[a]) <= MaxRetained
    /\ unread \in [Accounts -> [Accounts -> NoReader .. MaxRetained]]
    /\ missed \in [Accounts -> [Accounts -> 0 .. MaxRetained]]

(* and the rest.                                                            *)
RestTypes ==
    /\ handler \subseteq alive
    /\ call = None \/ call \in [pub : ring, left : SUBSET alive]
    /\ timeouts \in 0 .. MaxTimeouts
    /\ unremoved \subseteq Accounts \X Accounts

(* The three parts are all of the types, now and after a step.              *)
LEMMA TypesSplit == /\ TypeOK <=> ListTypes /\ CacheTypes /\ RestTypes
                    /\ TypeOK' <=> ListTypes' /\ CacheTypes' /\ RestTypes'
  BY DEF TypeOK, ListTypes, CacheTypes, RestTypes

(* The lists, and what they promise.                                        *)
ListsInv == ListTypes /\ ListsMirror /\ NamesApart

(* The readers of the rings, and what they promise.                         *)
ReadersInv == OnlyRingsRead /\ ReadersAreSubscribers /\ BacklogIsMissed

(* The invariant, part by part.                                             *)
LEMMA Parts ==
    /\ IInv <=> ListsInv /\ CacheTypes /\ RestTypes /\ ReadersInv
    /\ IInv' <=> ListsInv' /\ CacheTypes' /\ RestTypes' /\ ReadersInv'
  BY TypesSplit DEF IInv, ListsInv, ReadersInv

-----------------------------------------------------------------------------
(* Releasing frames leaves some of the frames there were.                   *)
LEMMA RetainedType ==
    ASSUME NEW fs \in Seq(Sizes), NEW u
    PROVE  Retained(fs, u) \in Seq(Sizes) /\ Len(Retained(fs, u)) <= Len(fs)
  <1> DEFINE some == {i \in 1 .. Len(fs) : \E s \in Readers(u) : i <= u[s]}
             k == Cardinality(some)
  <1>1. Len(fs) \in Nat
    OBVIOUS
  <1>2. k \in 0 .. Len(fs)
    <2>1. IsFiniteSet(1 .. Len(fs)) /\ Cardinality(1 .. Len(fs)) = Len(fs)
      BY <1>1, FS_Interval
    <2>2. IsFiniteSet(some) /\ k <= Len(fs)
      BY <2>1, FS_Subset
    <2> QED BY <2>2, <1>1, FS_CardinalityType
  <1> HIDE DEF k
  <1>3. /\ SubSeq(fs, Len(fs) - k + 1, Len(fs)) \in Seq(Sizes)
        /\ Len(SubSeq(fs, Len(fs) - k + 1, Len(fs))) = k
    BY <1>1, <1>2, SubSeqProperties
  <1> QED BY <1>2, <1>3 DEF Retained, k

(* So the cache stays within its bound.                                     *)
LEMMA ReleasedType ==
    ASSUME NEW fs \in Seq(Sizes), Len(fs) <= MaxRetained, NEW u
    PROVE  Retained(fs, u) \in Seq(Sizes) /\ Len(Retained(fs, u)) <= MaxRetained
  <1> DEFINE r == Retained(fs, u)
  <1>1. r \in Seq(Sizes) /\ Len(r) <= Len(fs)
    BY RetainedType
  <1> HIDE DEF r
  <1>2. Len(r) \in Nat /\ Len(fs) \in Nat
    BY <1>1
  <1>3. r \in Seq(Sizes) /\ Len(r) <= MaxRetained
    BY <1>1, <1>2, BoundsAssumption
  <1> QED BY <1>3 DEF r

(* A cache with one more frame, after some were forced out.                 *)
LEMMA CommittedType ==
    ASSUME NEW fs \in Seq(Sizes), NEW d \in 0 .. Len(fs), NEW size \in Sizes, NEW u,
           Room(Len(fs) - d)
    PROVE  LET q == Retained(Append(SubSeq(fs, d + 1, Len(fs)), size), u)
           IN  q \in Seq(Sizes) /\ Len(q) <= MaxRetained
  <1> DEFINE rest == SubSeq(fs, d + 1, Len(fs))
  <1>1. Len(fs) \in Nat
    OBVIOUS
  <1>2. rest \in Seq(Sizes) /\ Len(rest) = Len(fs) - d
    BY <1>1, SubSeqProperties
  <1> HIDE DEF rest
  <1>3. Append(rest, size) \in Seq(Sizes) /\ Len(Append(rest, size)) = Len(fs) - d + 1
    BY <1>2
  <1>4. Len(fs) - d + 1 <= MaxRetained
    BY <1>1, BoundsAssumption DEF Room
  <1> DEFINE q == Retained(Append(rest, size), u)
  <1>5. q \in Seq(Sizes) /\ Len(q) <= Len(fs) - d + 1 /\ Len(q) \in Nat
    <2>1. q \in Seq(Sizes) /\ Len(q) <= Len(fs) - d + 1
      BY <1>3, RetainedType
    <2> QED BY <2>1
  <1>6. Len(q) <= MaxRetained
    BY <1>1, <1>4, <1>5, BoundsAssumption
  <1> QED BY <1>5, <1>6 DEF rest

(* What a subscription says of the accounts at its ends.                    *)
LEMMA Linked ==
    ASSUME ListsInv, NEW s \in Accounts, NEW p \in Accounts
    PROVE  /\ p \in publishers[s] <=> s \in subscribers[p]
           /\ p \in publishers[s] => s \in alive /\ p \in pool /\ p \in alive
  BY DEF ListsInv, ListsMirror, ListTypes

(* The timeouts of one call.                                                *)
LEMMA LateCounted ==
    ASSUME RestTypes, NEW late, late \subseteq Accounts,
           timeouts + Cardinality(late) <= MaxTimeouts
    PROVE  timeouts + Cardinality(late) \in 0 .. MaxTimeouts
  <1>1. IsFiniteSet(late)
    BY AccountsAssumption, FS_Subset
  <1>2. Cardinality(late) \in Nat
    BY <1>1, FS_CardinalityType
  <1> QED BY <1>2, BoundsAssumption DEF RestTypes

-----------------------------------------------------------------------------
(* A step that leaves the lists, the readers and the publication alone.     *)
LEMMA QuietStep ==
    ASSUME IInv, UNCHANGED <<lists, cache, call, unremoved>>
    PROVE  ListsInv' /\ CacheTypes' /\ ReadersInv'
  <1>1. ListsInv'
    BY Parts DEF ListsInv, ListTypes, ListsMirror, NamesApart, lists
  <1>2. CacheTypes'
    BY Parts DEF CacheTypes, cache
  <1>3. ReadersInv'
    BY Parts DEF ReadersInv, OnlyRingsRead, ReadersAreSubscribers, BacklogIsMissed, Idle,
                 lists, cache
  <1> QED BY <1>1, <1>2, <1>3

(* An account is constructed.                                               *)
LEMMA CreateStep ==
    ASSUME IInv, NEW a \in Accounts, NEW allocated \in BOOLEAN, Create(a, allocated)
    PROVE  IInv'
  <1> DEFINE added == (a \in Cached => allocated) /\ Find(pool, NameOf(a)) = {}
  <1>1. ListsInv /\ CacheTypes /\ RestTypes /\ ReadersInv
    BY Parts
  <1>2. /\ call = None /\ a \notin alive
        /\ alive' = alive \cup {a}
        /\ pool' = IF added THEN pool \cup {a} ELSE pool
        /\ ring' = IF a \in Cached /\ allocated THEN ring \cup {a} ELSE ring
        /\ publishers' = IF added /\ a \notin Cached
                           THEN [publishers EXCEPT ![Main] = @ \cup {a}] ELSE publishers
        /\ subscribers' = IF added /\ a \notin Cached
                            THEN [subscribers EXCEPT ![a] = {Main}] ELSE subscribers
        /\ UNCHANGED <<frames, unread, missed, handler, call, timeouts, unremoved>>
    BY DEF Create, Idle, cache
  <1>3. /\ alive \subseteq Accounts /\ Main \in alive /\ pool \subseteq alive \ {Main}
        /\ ring \subseteq alive \cap Cached
        /\ publishers \in [Accounts -> SUBSET Accounts]
        /\ subscribers \in [Accounts -> SUBSET Accounts]
        /\ Main \in Accounts \ Cached /\ a # Main
    BY <1>1, <1>2, AccountsAssumption DEF ListsInv, ListTypes
  <1>4. \A s \in Accounts : s \notin subscribers[a] /\ a \notin publishers[s]
    BY <1>1, <1>2, Linked
  <1>5. ListsInv'
    <2>1. ListTypes'
      BY <1>2, <1>3 DEF ListTypes
    <2>2. NamesApart'
      BY <1>1, <1>2, <1>3 DEF NamesApart, ListsInv, Find
    <2>3. ListsMirror'
      <3>1. CASE added /\ a \notin Cached
        <4>1. /\ publishers' = [publishers EXCEPT ![Main] = @ \cup {a}]
              /\ subscribers' = [subscribers EXCEPT ![a] = {Main}]
              /\ pool' = pool \cup {a}
          BY <1>2, <3>1
        <4>2. ASSUME NEW s \in Accounts, NEW p \in Accounts
              PROVE  /\ p \in publishers'[s] <=> p \in publishers[s] \/ (s = Main /\ p = a)
                     /\ s \in subscribers'[p] <=> s \in subscribers[p] \/ (s = Main /\ p = a)
          BY <4>1, <1>3, <1>4
        <4> QED BY <1>1, <1>2, <1>3, <4>1, <4>2 DEF ListsMirror, ListsInv
      <3>2. CASE ~(added /\ a \notin Cached)
        BY <1>1, <1>2, <3>2 DEF ListsMirror, ListsInv
      <3> QED BY <3>1, <3>2
    <2> QED BY <2>1, <2>2, <2>3 DEF ListsInv
  <1>6. CacheTypes' /\ RestTypes'
    BY <1>1, <1>2 DEF CacheTypes, RestTypes
  <1>7. ReadersInv'
    <2>1. \A s \in Accounts : unread[a][s] = NoReader
      BY <1>1, <1>2, <1>3 DEF ReadersInv, OnlyRingsRead
    <2>2. OnlyRingsRead'
      BY <1>1, <1>2 DEF ReadersInv, OnlyRingsRead
    <2>3. ASSUME NEW p \in ring'
          PROVE  /\ p \in ring \/ p = a
                 /\ subscribers'[p] = subscribers[p]
      BY <1>2, <1>3
    <2>4. ReadersAreSubscribers'
      BY <1>1, <1>2, <1>4, <2>1, <2>3 DEF ReadersInv, ReadersAreSubscribers
    <2>5. BacklogIsMissed'
      BY <1>1, <1>2, <1>3, <1>4, <2>3 DEF ReadersInv, BacklogIsMissed, Idle
    <2> QED BY <2>2, <2>4, <2>5 DEF ReadersInv
  <1> QED BY <1>5, <1>6, <1>7, Parts

(* Leaving a publisher: its lists, its ring.                                *)
LEMMA UnlinkLists ==
    ASSUME ListsInv, NEW s \in Accounts, NEW p \in Accounts, p \in publishers[s],
           Unlink(s, {p}), UNCHANGED <<alive, pool, ring>>
    PROVE  /\ ListsInv'
           /\ subscribers' = [subscribers EXCEPT ![p] = @ \ {s}]
  <1>1. /\ publishers' = [publishers EXCEPT ![s] = @ \ {p}]
        /\ subscribers' = [q \in Accounts |->
                              IF q \in {p} THEN subscribers[q] \ {s} ELSE subscribers[q]]
    BY DEF Unlink
  <1>2. /\ publishers \in [Accounts -> SUBSET Accounts]
        /\ subscribers \in [Accounts -> SUBSET Accounts]
    BY DEF ListsInv, ListTypes
  <1>3. subscribers' = [subscribers EXCEPT ![p] = @ \ {s}]
    BY <1>1, <1>2
  <1>4. ListTypes'
    BY <1>1, <1>2, <1>3 DEF ListsInv, ListTypes
  <1>5. ListsMirror'
    <2>1. ASSUME NEW x \in Accounts, NEW q \in Accounts
          PROVE  /\ q \in publishers'[x] <=> q \in publishers[x] /\ ~(x = s /\ q = p)
                 /\ x \in subscribers'[q] <=> x \in subscribers[q] /\ ~(x = s /\ q = p)
      BY <1>1, <1>2, <1>3
    <2> QED BY <2>1 DEF ListsMirror, ListsInv
  <1>6. NamesApart'
    BY DEF NamesApart, ListsInv
  <1> QED BY <1>3, <1>4, <1>5, <1>6 DEF ListsInv

(* What leaving does to the readers.                                        *)
LEMMA LeaveReaders ==
    ASSUME ListsInv, CacheTypes, RestTypes, NEW s \in Accounts, NEW p \in Accounts,
           NEW late \in SUBSET {p}, Leave(s, {p}, late)
    PROVE  /\ frames' \in [Accounts -> Seq(Sizes)]
           /\ \A a \in Accounts : Len(frames'[a]) <= MaxRetained
           /\ unread' \in [Accounts -> [Accounts -> NoReader .. MaxRetained]]
           /\ timeouts' \in 0 .. MaxTimeouts
           /\ unremoved \subseteq unremoved' /\ unremoved' \subseteq Accounts \X Accounts
           /\ \A q, x \in Accounts :
                 unread'[q][x] = IF q = p /\ x = s /\ p \in ring \ late THEN NoReader
                                 ELSE unread[q][x]
           /\ p \in ring => p \in ring \ late \/ <<p, s>> \in unremoved'
  <1> DEFINE gone == ({p} \cap ring) \ late
             left == [q \in Accounts |->
                        IF q \in gone THEN [unread[q] EXCEPT ![s] = NoReader] ELSE unread[q]]
  <1>1. /\ late \subseteq {p} \cap ring
        /\ timeouts + Cardinality(late) <= MaxTimeouts
        /\ timeouts' = timeouts + Cardinality(late)
        /\ unremoved' = unremoved \cup (late \X {s})
        /\ unread' = left
        /\ frames' = [q \in Accounts |->
                         IF q \in gone THEN Retained(frames[q], left[q]) ELSE frames[q]]
    BY DEF Leave
  <1>2. /\ frames \in [Accounts -> Seq(Sizes)]
        /\ \A a \in Accounts : Len(frames[a]) <= MaxRetained
        /\ unread \in [Accounts -> [Accounts -> NoReader .. MaxRetained]]
        /\ MaxRetained \in Nat /\ NoReader \in NoReader .. MaxRetained
    BY BoundsAssumption DEF CacheTypes, NoReader
  <1>3. left \in [Accounts -> [Accounts -> NoReader .. MaxRetained]]
    BY <1>2
  <1>4. ASSUME NEW q \in Accounts
        PROVE  /\ Retained(frames[q], left[q]) \in Seq(Sizes)
               /\ Len(Retained(frames[q], left[q])) <= MaxRetained
    <2> HIDE DEF left
    <2> QED BY <1>2, ReleasedType
  <1>5. frames' \in [Accounts -> Seq(Sizes)] /\ \A a \in Accounts : Len(frames'[a]) <= MaxRetained
    <2> HIDE DEF left, gone
    <2> QED BY <1>1, <1>2, <1>4
  <1>6. timeouts' \in 0 .. MaxTimeouts
    BY <1>1, LateCounted
  <1>7. unremoved \subseteq unremoved' /\ unremoved' \subseteq Accounts \X Accounts
    BY <1>1 DEF RestTypes
  <1>8. \A q, x \in Accounts :
            unread'[q][x] = IF q = p /\ x = s /\ p \in ring \ late THEN NoReader
                            ELSE unread[q][x]
    BY <1>1, <1>2
  <1>9. p \in ring => p \in ring \ late \/ <<p, s>> \in unremoved'
    BY <1>1
  <1> QED BY <1>1, <1>3, <1>5, <1>6, <1>7, <1>8, <1>9

(* An account leaves another, wherever it is called.  Its own history of    *)
(* missed publications no longer counts; others may have one more.          *)
LEMMA UnsubscribeStep ==
    ASSUME IInv, NEW s \in Accounts, NEW p \in Accounts, Unsubscribe(s, p),
           missed' \in [Accounts -> [Accounts -> 0 .. MaxRetained]],
           call' = None \/ call' \in [pub : ring, left : SUBSET alive],
           \A q \in ring : \A x \in subscribers[q] : ~(q = p /\ x = s) =>
               unread[q][x] <= missed'[q][x]
                   + (IF ~Idle' /\ call'.pub = q /\ x \in call'.left THEN 1 ELSE 0)
    PROVE  IInv'
  <1>1. ListsInv /\ CacheTypes /\ RestTypes /\ ReadersInv
    BY Parts
  <1>2. PICK late \in SUBSET {p} : Leave(s, {p}, late)
    BY DEF Unsubscribe
  <1>3. /\ Unlink(s, {p}) /\ p \in publishers[s]
        /\ UNCHANGED <<alive, pool, ring, handler>>
    BY DEF Unsubscribe
  <1>4. /\ ListsInv'
        /\ subscribers' = [subscribers EXCEPT ![p] = @ \ {s}]
        /\ subscribers \in [Accounts -> SUBSET Accounts]
    BY <1>1, <1>3, UnlinkLists DEF ListsInv, ListTypes
  <1>5. /\ frames' \in [Accounts -> Seq(Sizes)]
        /\ \A a \in Accounts : Len(frames'[a]) <= MaxRetained
        /\ unread' \in [Accounts -> [Accounts -> NoReader .. MaxRetained]]
        /\ timeouts' \in 0 .. MaxTimeouts
        /\ unremoved \subseteq unremoved' /\ unremoved' \subseteq Accounts \X Accounts
        /\ \A q, x \in Accounts :
              unread'[q][x] = IF q = p /\ x = s /\ p \in ring \ late THEN NoReader
                              ELSE unread[q][x]
        /\ p \in ring => p \in ring \ late \/ <<p, s>> \in unremoved'
    BY <1>1, <1>2, LeaveReaders
  <1>6. CacheTypes' /\ RestTypes'
    BY <1>1, <1>3, <1>5 DEF CacheTypes, RestTypes
  <1>7. ring' = ring /\ ring \subseteq Accounts
    BY <1>1, <1>3 DEF ListsInv, ListTypes
  <1>8. \A q, x \in Accounts :
            x \in subscribers'[q] <=> x \in subscribers[q] /\ ~(q = p /\ x = s)
    BY <1>4
  <1>9. OnlyRingsRead'
    BY <1>1, <1>5, <1>7 DEF ReadersInv, OnlyRingsRead
  <1>10. ReadersAreSubscribers'
    <2> SUFFICES ASSUME NEW q \in ring, NEW x \in Accounts
                 PROVE  /\ x \in subscribers'[q] => unread'[q][x] # NoReader
                        /\ unread'[q][x] # NoReader =>
                               x \in subscribers'[q] \/ <<q, x>> \in unremoved'
      BY <1>7 DEF ReadersAreSubscribers
    <2>1. /\ x \in subscribers[q] => unread[q][x] # NoReader
          /\ unread[q][x] # NoReader => x \in subscribers[q] \/ <<q, x>> \in unremoved
      BY <1>1 DEF ReadersInv, ReadersAreSubscribers
    <2>2. CASE q = p /\ x = s
      BY <1>5, <1>7, <1>8, <2>1, <2>2
    <2>3. CASE ~(q = p /\ x = s)
      BY <1>5, <1>7, <1>8, <2>1, <2>3
    <2> QED BY <2>2, <2>3
  <1>11. BacklogIsMissed'
    <2> SUFFICES ASSUME NEW q \in ring, NEW x \in Accounts, x \in subscribers'[q]
                 PROVE  unread'[q][x] <= missed'[q][x]
                            + (IF ~Idle' /\ call'.pub = q /\ x \in call'.left THEN 1 ELSE 0)
      BY <1>4, <1>7 DEF BacklogIsMissed, ListsInv, ListTypes
    <2>1. x \in subscribers[q] /\ ~(q = p /\ x = s)
      BY <1>7, <1>8
    <2>2. unread'[q][x] = unread[q][x]
      BY <1>5, <1>7, <2>1
    <2> QED BY <2>1, <2>2
  <1> QED BY <1>4, <1>6, <1>9, <1>10, <1>11, Parts DEF ReadersInv

(* An account leaves another outside a publication,                         *)
LEMMA LeavesStep ==
    ASSUME IInv, NEW a \in Accounts, NEW p \in Accounts, Idle, Unsubscribe(a, p),
           missed' = [missed EXCEPT ![p][a] = 0], UNCHANGED call
    PROVE  IInv'
  <1>1. ListsInv /\ CacheTypes /\ RestTypes /\ ReadersInv
    BY Parts
  <1>2. missed \in [Accounts -> [Accounts -> 0 .. MaxRetained]] /\ MaxRetained \in Nat
    BY <1>1, BoundsAssumption DEF CacheTypes
  <1>3. missed' \in [Accounts -> [Accounts -> 0 .. MaxRetained]]
    BY <1>2
  <1>4. \A q \in ring : \A x \in subscribers[q] : unread[q][x] <= missed[q][x]
               + (IF ~Idle /\ call.pub = q /\ x \in call.left THEN 1 ELSE 0)
    BY <1>1 DEF ReadersInv, BacklogIsMissed
  <1>5. \A q \in ring : \A x \in subscribers[q] :
            q \in Accounts /\ x \in Accounts /\ (~(q = p /\ x = a) => missed'[q][x] = missed[q][x])
    BY <1>1, <1>2 DEF ListsInv, ListTypes
  <1>6. Idle' <=> Idle
    BY DEF Idle
  <1> QED BY <1>1, <1>3, <1>4, <1>5, <1>6, UnsubscribeStep DEF RestTypes

(* or in a callback, which then pulls nothing.                              *)
LEMMA CallbackUnsubscribesStep ==
    ASSUME IInv, NEW s \in Accounts, NEW x \in Accounts, CallbackUnsubscribes(s, x)
    PROVE  IInv'
  <1>1. ListsInv /\ CacheTypes /\ RestTypes /\ ReadersInv
    BY Parts
  <1> DEFINE p == call.pub
  <1>2. /\ call # None /\ s \in call.left
        /\ Unsubscribe(x, p)
        /\ missed' = [missed EXCEPT ![p][s] = Least(@ + 1, MaxRetained)]
        /\ call' = [call EXCEPT !.left = @ \ {s}]
    BY DEF CallbackUnsubscribes, Idle, Missed
  <1>3. /\ call \in [pub : ring, left : SUBSET alive]
        /\ p \in ring /\ p \in Accounts
        /\ call' \in [pub : ring, left : SUBSET alive]
        /\ call'.pub = p /\ call'.left = call.left \ {s}
    BY <1>1, <1>2 DEF RestTypes, ListsInv, ListTypes
  <1>4. /\ missed \in [Accounts -> [Accounts -> 0 .. MaxRetained]] /\ MaxRetained \in Nat
        /\ unread \in [Accounts -> [Accounts -> NoReader .. MaxRetained]]
    BY <1>1, BoundsAssumption DEF CacheTypes
  <1>5. /\ missed' \in [Accounts -> [Accounts -> 0 .. MaxRetained]]
        /\ \A q, y \in Accounts :
              missed'[q][y] = IF q = p /\ y = s THEN Least(missed[q][y] + 1, MaxRetained)
                              ELSE missed[q][y]
    BY <1>2, <1>3, <1>4 DEF Least
  <1>6. ASSUME NEW q \in ring, NEW y \in subscribers[q]
        PROVE  unread[q][y] <= missed'[q][y]
                   + (IF ~Idle' /\ call'.pub = q /\ y \in call'.left THEN 1 ELSE 0)
    <2>1. /\ q \in Accounts /\ y \in Accounts
          /\ unread[q][y] <= missed[q][y]
               + (IF ~Idle /\ call.pub = q /\ y \in call.left THEN 1 ELSE 0)
      BY <1>1 DEF ReadersInv, BacklogIsMissed, ListsInv, ListTypes
    <2>2. missed[q][y] \in 0 .. MaxRetained /\ unread[q][y] \in NoReader .. MaxRetained
      BY <1>4, <2>1
    <2>3. ~Idle /\ ~Idle'
      BY <1>2, <1>3, NoneAssumption, <1>1 DEF Idle, ListsInv, ListTypes
    <2>4. CASE q = p /\ y = s
      BY <1>2, <1>3, <1>4, <1>5, <2>1, <2>2, <2>3, <2>4 DEF Least, NoReader
    <2>5. CASE ~(q = p /\ y = s)
      BY <1>2, <1>3, <1>4, <1>5, <2>1, <2>2, <2>3, <2>5 DEF NoReader
    <2> QED BY <2>4, <2>5
  <1> QED BY <1>2, <1>3, <1>5, <1>6, UnsubscribeStep

-----------------------------------------------------------------------------
(* An account is destroyed: nobody is left in its lists, and only removals  *)
(* that timed out leave it in a ring.                                       *)
LEMMA DestroyStep ==
    ASSUME IInv, NEW a \in Accounts, Destroy(a)
    PROVE  IInv'
  <1>1. ListsInv /\ CacheTypes /\ RestTypes /\ ReadersInv
    BY Parts
  <1>2. PICK late \in SUBSET publishers[a] :
          LET kept == (publishers[a] \cap ring) \ late
              left == [p \in Accounts |->
                          IF p = a THEN Nobody
                          ELSE IF p \in kept THEN [unread[p] EXCEPT ![a] = NoReader]
                          ELSE unread[p]]
          IN  /\ late \subseteq ring
              /\ timeouts + Cardinality(late) <= MaxTimeouts
              /\ timeouts' = timeouts + Cardinality(late)
              /\ unremoved' = {x \in unremoved : x[1] # a} \cup (late \X {a})
              /\ unread' = left
              /\ frames' = [p \in Accounts |->
                               IF p = a THEN <<>>
                               ELSE IF p \in kept THEN Retained(frames[p], left[p])
                               ELSE frames[p]]
    BY DEF Destroy
  <1> DEFINE kept == (publishers[a] \cap ring) \ late
  <1>3. /\ call = None /\ call' = None /\ a \in alive /\ a # Main
        /\ alive' = alive \ {a} /\ pool' = pool \ {a} /\ ring' = ring \ {a}
        /\ publishers' = [s \in Accounts |-> IF s = a THEN {} ELSE publishers[s] \ {a}]
        /\ subscribers' = [p \in Accounts |-> IF p = a THEN {} ELSE subscribers[p] \ {a}]
        /\ handler' = handler \ {a}
        /\ missed' = [p \in Accounts |-> IF p = a THEN [s \in Accounts |-> 0]
                                                  ELSE [missed[p] EXCEPT ![a] = 0]]
    BY DEF Destroy, Idle, DestroyLists
  <1>4. /\ alive \subseteq Accounts /\ Main \in alive /\ pool \subseteq alive \ {Main}
        /\ ring \subseteq alive \cap Cached
        /\ publishers \in [Accounts -> SUBSET Accounts]
        /\ subscribers \in [Accounts -> SUBSET Accounts]
    BY <1>1 DEF ListsInv, ListTypes
  <1>5. /\ frames \in [Accounts -> Seq(Sizes)]
        /\ \A p \in Accounts : Len(frames[p]) <= MaxRetained
        /\ unread \in [Accounts -> [Accounts -> NoReader .. MaxRetained]]
        /\ missed \in [Accounts -> [Accounts -> 0 .. MaxRetained]]
        /\ MaxRetained \in Nat /\ NoReader \in NoReader .. MaxRetained
    BY <1>1, BoundsAssumption DEF CacheTypes, NoReader
  <1>6. ListsInv'
    <2>1. ListTypes'
      BY <1>3, <1>4 DEF ListTypes
    <2>2. NamesApart'
      BY <1>1, <1>3 DEF NamesApart, ListsInv
    <2>3. ListsMirror'
      <3>1. ASSUME NEW s \in Accounts, NEW p \in Accounts
            PROVE  /\ p \in publishers'[s] <=> p \in publishers[s] /\ s # a /\ p # a
                   /\ s \in subscribers'[p] <=> s \in subscribers[p] /\ s # a /\ p # a
        BY <1>3, <1>4
      <3> QED BY <1>1, <1>3, <3>1 DEF ListsMirror, ListsInv
    <2> QED BY <2>1, <2>2, <2>3 DEF ListsInv
  <1> DEFINE left == [p \in Accounts |->
                         IF p = a THEN Nobody
                         ELSE IF p \in kept THEN [unread[p] EXCEPT ![a] = NoReader]
                         ELSE unread[p]]
  <1>7. /\ unread' = left
        /\ left \in [Accounts -> [Accounts -> NoReader .. MaxRetained]]
        /\ \A q, s \in Accounts :
              left[q][s] = IF q = a \/ (q \in kept /\ s = a) THEN NoReader ELSE unread[q][s]
    BY <1>2, <1>5 DEF Nobody
  <1>8. CacheTypes'
    <2>1. /\ frames' = [p \in Accounts |->
                            IF p = a THEN <<>>
                            ELSE IF p \in kept THEN Retained(frames[p], left[p])
                            ELSE frames[p]]
      BY <1>2
    <2> HIDE DEF left, kept
    <2>2. ASSUME NEW q \in Accounts
          PROVE  /\ Retained(frames[q], left[q]) \in Seq(Sizes)
                 /\ Len(Retained(frames[q], left[q])) <= MaxRetained
      BY <1>5, ReleasedType
    <2>3. <<>> \in Seq(Sizes) /\ Len(<<>>) <= MaxRetained
      BY <1>5
    <2>4. frames' \in [Accounts -> Seq(Sizes)] /\ \A q \in Accounts : Len(frames'[q]) <= MaxRetained
      BY <1>5, <2>1, <2>2, <2>3
    <2>5. missed' \in [Accounts -> [Accounts -> 0 .. MaxRetained]]
      BY <1>3, <1>5
    <2> QED BY <1>7, <2>4, <2>5 DEF CacheTypes
  <1>9. RestTypes'
    <2>1. late \subseteq Accounts
      BY <1>4
    <2>2. timeouts' \in 0 .. MaxTimeouts
      BY <1>1, <1>2, <2>1, LateCounted
    <2>3. unremoved' \subseteq Accounts \X Accounts
      BY <1>1, <1>2, <2>1 DEF RestTypes
    <2> QED BY <1>1, <1>3, <2>2, <2>3 DEF RestTypes
  <1>11. ASSUME NEW q \in ring'
         PROVE  /\ q \in ring /\ q # a /\ q \in Accounts
                /\ subscribers'[q] = subscribers[q] \ {a}
    BY <1>3, <1>4
  <1>12. OnlyRingsRead'
    BY <1>1, <1>3, <1>7 DEF ReadersInv, OnlyRingsRead
  <1>13. ReadersAreSubscribers'
    <2> SUFFICES ASSUME NEW q \in ring', NEW s \in Accounts
                 PROVE  /\ s \in subscribers'[q] => unread'[q][s] # NoReader
                        /\ unread'[q][s] # NoReader =>
                               s \in subscribers'[q] \/ <<q, s>> \in unremoved'
      BY DEF ReadersAreSubscribers
    <2>1. /\ s \in subscribers[q] => unread[q][s] # NoReader
          /\ unread[q][s] # NoReader => s \in subscribers[q] \/ <<q, s>> \in unremoved
      BY <1>1, <1>11 DEF ReadersInv, ReadersAreSubscribers
    <2>2. <<q, s>> \in unremoved => <<q, s>> \in unremoved'
      BY <1>2, <1>11
    <2>3. unread'[q][s] = IF q \in kept /\ s = a THEN NoReader ELSE unread[q][s]
      BY <1>7, <1>11
    <2>4. CASE s # a
      BY <1>11, <2>1, <2>2, <2>3, <2>4
    <2>5. CASE s = a /\ q \in publishers[a]
      BY <1>2, <1>11, <2>3, <2>5
    <2>6. CASE s = a /\ q \notin publishers[a]
      <3>1. s \notin subscribers[q]
        BY <1>1, <1>11, <2>6, Linked
      <3> QED BY <1>11, <2>1, <2>2, <2>3, <2>6, <3>1
    <2> QED BY <2>4, <2>5, <2>6
  <1>14. BacklogIsMissed'
    <2> SUFFICES ASSUME NEW q \in ring', NEW s \in subscribers'[q]
                 PROVE  unread'[q][s] <= missed'[q][s]
                            + (IF ~Idle' /\ call'.pub = q /\ s \in call'.left THEN 1 ELSE 0)
      BY DEF BacklogIsMissed
    <2>1. q \in ring /\ q # a /\ s \in subscribers[q] /\ s # a /\ q \in Accounts /\ s \in Accounts
      BY <1>4, <1>11
    <2>2. unread'[q][s] = unread[q][s] /\ missed'[q][s] = missed[q][s]
      BY <1>3, <1>5, <1>7, <2>1
    <2>3. unread[q][s] <= missed[q][s]
                + (IF ~Idle /\ call.pub = q /\ s \in call.left THEN 1 ELSE 0)
      BY <1>1, <2>1 DEF ReadersInv, BacklogIsMissed
    <2> QED BY <1>3, <2>2, <2>3 DEF Idle
  <1> QED BY <1>6, <1>8, <1>9, <1>12, <1>13, <1>14, Parts DEF ReadersInv

(* A subscription that is made.                                             *)
LEMMA JoinStep ==
    ASSUME IInv, NEW s \in Accounts, NEW p \in Accounts, Subscribe(s, p), Join(s, p),
           p \in ring => unread[p][s] = NoReader
    PROVE  IInv'
  <1>1. ListsInv /\ CacheTypes /\ RestTypes /\ ReadersInv
    BY Parts
  <1>2. /\ call = None /\ s \in alive /\ p \in pool
        /\ UNCHANGED <<alive, pool, ring, frames, handler, call,
                       timeouts, unremoved>>
        /\ publishers' = [publishers EXCEPT ![s] = @ \cup {p}]
        /\ subscribers' = [subscribers EXCEPT ![p] = @ \cup {s}]
        /\ missed' = [missed EXCEPT ![p][s] = 0]
        /\ unread' = IF p \in ring THEN [unread EXCEPT ![p][s] = 0] ELSE unread
    BY DEF Subscribe, Join, Idle
  <1>3. /\ publishers \in [Accounts -> SUBSET Accounts]
        /\ subscribers \in [Accounts -> SUBSET Accounts] /\ ring \subseteq Accounts
    BY <1>1 DEF ListsInv, ListTypes
  <1>4. /\ unread \in [Accounts -> [Accounts -> NoReader .. MaxRetained]]
        /\ missed \in [Accounts -> [Accounts -> 0 .. MaxRetained]]
        /\ MaxRetained \in Nat /\ 0 \in NoReader .. MaxRetained /\ 0 \in 0 .. MaxRetained
        /\ 0 # NoReader
    BY <1>1, BoundsAssumption DEF CacheTypes, NoReader
  <1>5. ASSUME NEW x \in Accounts, NEW q \in Accounts
        PROVE  /\ q \in publishers'[x] <=> q \in publishers[x] \/ (x = s /\ q = p)
               /\ x \in subscribers'[q] <=> x \in subscribers[q] \/ (x = s /\ q = p)
               /\ unread'[q][x] = IF x = s /\ q = p /\ p \in ring THEN 0 ELSE unread[q][x]
               /\ missed'[q][x] = IF x = s /\ q = p THEN 0 ELSE missed[q][x]
    BY <1>2, <1>3, <1>4
  <1>6. ListsInv'
    <2>1. ListTypes'
      BY <1>1, <1>2, <1>3 DEF ListTypes, ListsInv
    <2>2. ListsMirror'
      BY <1>1, <1>2, <1>5 DEF ListsMirror, ListsInv
    <2>3. NamesApart'
      BY <1>1, <1>2 DEF NamesApart, ListsInv
    <2> QED BY <2>1, <2>2, <2>3 DEF ListsInv
  <1>7. CacheTypes'
    <2>1. /\ unread' \in [Accounts -> [Accounts -> NoReader .. MaxRetained]]
          /\ missed' \in [Accounts -> [Accounts -> 0 .. MaxRetained]]
      BY <1>2, <1>4
    <2> QED BY <1>1, <1>2, <2>1 DEF CacheTypes
  <1>8. RestTypes'
    BY <1>1, <1>2 DEF RestTypes
  <1>9. OnlyRingsRead'
    BY <1>1, <1>2, <1>5 DEF ReadersInv, OnlyRingsRead
  <1>10. ReadersAreSubscribers'
    <2> SUFFICES ASSUME NEW q \in ring, NEW x \in Accounts
                 PROVE  /\ x \in subscribers'[q] => unread'[q][x] # NoReader
                        /\ unread'[q][x] # NoReader =>
                               x \in subscribers'[q] \/ <<q, x>> \in unremoved
      BY <1>2 DEF ReadersAreSubscribers
    <2>1. /\ x \in subscribers[q] => unread[q][x] # NoReader
          /\ unread[q][x] # NoReader => x \in subscribers[q] \/ <<q, x>> \in unremoved
      BY <1>1 DEF ReadersInv, ReadersAreSubscribers
    <2> QED BY <1>3, <1>4, <1>5, <2>1
  <1>11. BacklogIsMissed'
    <2> SUFFICES ASSUME NEW q \in ring, NEW x \in subscribers'[q]
                 PROVE  unread'[q][x] <= missed'[q][x]
                            + (IF ~Idle' /\ call'.pub = q /\ x \in call'.left THEN 1 ELSE 0)
      BY <1>2 DEF BacklogIsMissed
    <2>1. q \in Accounts /\ x \in Accounts /\ Idle /\ Idle'
      BY <1>2, <1>3 DEF Idle
    <2>2. CASE x = s /\ q = p
      BY <1>5, <2>1, <2>2
    <2>3. CASE ~(x = s /\ q = p)
      <3>1. x \in subscribers[q] /\ unread'[q][x] = unread[q][x] /\ missed'[q][x] = missed[q][x]
        BY <1>5, <2>1, <2>3
      <3> QED BY <1>1, <2>1, <3>1 DEF ReadersInv, BacklogIsMissed
    <2> QED BY <2>2, <2>3
  <1> QED BY <1>6, <1>7, <1>8, <1>9, <1>10, <1>11, Parts DEF ReadersInv

(* A subscription, made or refused.                                         *)
LEMMA SubscribeStep ==
    ASSUME IInv, NEW s \in Accounts, NEW p \in Accounts, Subscribe(s, p)
    PROVE  IInv'
  <1>1. CASE Join(s, p) /\ (p \in ring => unread[p][s] = NoReader)
    BY <1>1, JoinStep
  <1>2. CASE JoinRefused(s, p)
    <2>1. UNCHANGED <<lists, cache, call, unremoved, handler>>
      BY <1>2 DEF Subscribe, JoinRefused, lists, cache
    <2>2. ListsInv' /\ CacheTypes' /\ ReadersInv'
      BY <2>1, QuietStep
    <2>3. timeouts \in 0 .. MaxTimeouts /\ MaxTimeouts \in Nat
      BY Parts, BoundsAssumption DEF RestTypes
    <2>4. timeouts' \in 0 .. MaxTimeouts
      BY <1>2, <2>3 DEF JoinRefused
    <2>5. RestTypes'
      BY <2>1, <2>4, Parts DEF RestTypes, lists
    <2> QED BY <2>2, <2>5, Parts
  <1> QED BY <1>1, <1>2 DEF Subscribe

-----------------------------------------------------------------------------
(* A frame is committed, and everybody who follows is to hear of it.        *)
LEMMA DataHandlerStep ==
    ASSUME IInv, NEW p \in Accounts, NEW size \in Sizes, DataHandler(p, size)
    PROVE  IInv'
  <1>1. ListsInv /\ CacheTypes /\ RestTypes /\ ReadersInv
    BY Parts
  <1>2. PICK dropped \in 0 .. Len(frames[p]) :
          LET kept == Len(frames[p]) - dropped IN
          /\ Room(kept)
          /\ unread' = [unread EXCEPT ![p] =
                 [s \in Accounts |->
                     IF @[s] = NoReader THEN NoReader ELSE Least(@[s], kept) + 1]]
          /\ frames' = [frames EXCEPT ![p] =
                 Retained(Append(SubSeq(@, dropped + 1, Len(@)), size), unread'[p])]
    BY DEF DataHandler
  <1>3. /\ call = None /\ p \in ring
        /\ call' = [pub |-> p, left |-> subscribers[p]]
        /\ UNCHANGED <<alive, pool, publishers, subscribers, ring, handler, timeouts, missed, unremoved>>
    BY DEF DataHandler, Idle, lists
  <1>4. /\ frames \in [Accounts -> Seq(Sizes)]
        /\ \A a \in Accounts : Len(frames[a]) <= MaxRetained
        /\ unread \in [Accounts -> [Accounts -> NoReader .. MaxRetained]]
        /\ missed \in [Accounts -> [Accounts -> 0 .. MaxRetained]]
        /\ MaxRetained \in Nat /\ NoReader \in NoReader .. MaxRetained
    BY <1>1, BoundsAssumption DEF CacheTypes, NoReader
  <1>5. frames[p] \in Seq(Sizes) /\ Len(frames[p]) \in Nat
    BY <1>4
  <1> DEFINE kept == Len(frames[p]) - dropped
  <1>6. kept \in Nat /\ kept + 1 <= MaxRetained
    BY <1>2, <1>4, <1>5 DEF Room
  <1>7. ASSUME NEW s \in Accounts
        PROVE  /\ unread'[p][s] = IF unread[p][s] = NoReader THEN NoReader
                                  ELSE Least(unread[p][s], kept) + 1
               /\ unread[p][s] # NoReader =>
                     unread'[p][s] \in 1 .. MaxRetained /\ unread'[p][s] <= unread[p][s] + 1
    <2>1. unread'[p][s] = IF unread[p][s] = NoReader THEN NoReader
                          ELSE Least(unread[p][s], kept) + 1
      BY <1>2, <1>4
    <2>2. unread[p][s] \in NoReader .. MaxRetained
      BY <1>4
    <2>3. \A u \in NoReader .. MaxRetained, k \in Nat :
             k + 1 <= MaxRetained /\ u # NoReader =>
                 Least(u, k) + 1 \in 1 .. MaxRetained /\ Least(u, k) + 1 <= u + 1
      BY BoundsAssumption DEF Least, NoReader
    <2> HIDE DEF kept
    <2> QED BY <1>6, <2>1, <2>2, <2>3
  <1>8. \A q \in Accounts : q # p => unread'[q] = unread[q]
    BY <1>2, <1>4
  <1>9. CacheTypes'
    <2>1. unread' \in [Accounts -> [Accounts -> NoReader .. MaxRetained]]
      <3>1. unread' = [unread EXCEPT ![p] = unread'[p]]
        BY <1>2, <1>4
      <3>2. unread'[p] \in [Accounts -> NoReader .. MaxRetained]
        <4>1. unread'[p] = [s \in Accounts |-> unread'[p][s]]
          BY <1>2, <1>4
        <4>2. \A s \in Accounts : unread'[p][s] \in NoReader .. MaxRetained
          <5> SUFFICES ASSUME NEW s \in Accounts PROVE unread'[p][s] \in NoReader .. MaxRetained
            OBVIOUS
          <5>1. CASE unread[p][s] = NoReader
            BY <1>4, <1>7, <5>1
          <5>2. CASE unread[p][s] # NoReader
            <6>1. unread'[p][s] \in 1 .. MaxRetained
              BY <1>7, <5>2
            <6> QED BY <1>6, <6>1 DEF NoReader
          <5> QED BY <5>1, <5>2
        <4> QED BY <4>1, <4>2
      <3> QED BY <1>4, <3>1, <3>2
    <2> DEFINE f == Retained(Append(SubSeq(frames[p], dropped + 1, Len(frames[p])), size),
                             unread'[p])
    <2>2. f \in Seq(Sizes) /\ Len(f) <= MaxRetained
      BY <1>2, <1>5, CommittedType
    <2>3. frames' = [frames EXCEPT ![p] = f]
      BY <1>2, <1>4
    <2> HIDE DEF f
    <2>4. frames' \in [Accounts -> Seq(Sizes)] /\ \A a \in Accounts : Len(frames'[a]) <= MaxRetained
      BY <1>4, <2>2, <2>3
    <2> QED BY <1>3, <1>4, <2>1, <2>4 DEF CacheTypes
  <1>10. ListsInv'
    BY <1>1, <1>3 DEF ListsInv, ListTypes, ListsMirror, NamesApart
  <1>11. /\ subscribers[p] \subseteq alive
         /\ subscribers \in [Accounts -> SUBSET Accounts] /\ ring \subseteq Accounts
    BY <1>1, Linked DEF ListsInv, ListTypes
  <1>12. /\ call' \in [pub : ring, left : SUBSET alive] /\ call'.pub = p
         /\ call'.left = subscribers[p]
    BY <1>3, <1>11
  <1>13. RestTypes'
    BY <1>1, <1>3, <1>12 DEF RestTypes
  <1>14. ~Idle'
    BY <1>11, <1>12, <1>1, NoneAssumption DEF Idle, ListsInv, ListTypes
  <1>15. OnlyRingsRead'
    BY <1>1, <1>3, <1>8 DEF ReadersInv, OnlyRingsRead
  <1>16. \A q, s \in Accounts : unread'[q][s] = NoReader <=> unread[q][s] = NoReader
    <2> SUFFICES ASSUME NEW q \in Accounts, NEW s \in Accounts
                 PROVE  unread'[q][s] = NoReader <=> unread[q][s] = NoReader
      OBVIOUS
    <2>1. CASE q = p
      BY <1>4, <1>7, <2>1 DEF NoReader
    <2>2. CASE q # p
      BY <1>8, <2>2
    <2> QED BY <2>1, <2>2
  <1>17. ReadersAreSubscribers'
    BY <1>1, <1>3, <1>11, <1>16 DEF ReadersInv, ReadersAreSubscribers
  <1>18. BacklogIsMissed'
    <2> SUFFICES ASSUME NEW q \in ring, NEW s \in subscribers[q]
                 PROVE  unread'[q][s] <= missed[q][s]
                            + (IF ~Idle' /\ call'.pub = q /\ s \in call'.left THEN 1 ELSE 0)
      BY <1>3 DEF BacklogIsMissed
    <2>1. /\ q \in Accounts /\ s \in Accounts /\ unread[q][s] <= missed[q][s]
          /\ unread[q][s] # NoReader /\ missed[q][s] \in 0 .. MaxRetained
      <3>1. q \in Accounts /\ s \in Accounts
        BY <1>11
      <3>2. missed[q][s] \in 0 .. MaxRetained
        BY <1>4, <3>1
      <3>3. unread[q][s] <= missed[q][s]
                + (IF ~Idle /\ call.pub = q /\ s \in call.left THEN 1 ELSE 0)
        BY <1>1 DEF ReadersInv, BacklogIsMissed
      <3>4. Idle
        BY <1>3 DEF Idle
      <3>5. unread[q][s] <= missed[q][s]
        BY <3>2, <3>3, <3>4
      <3>6. unread[q][s] # NoReader
        BY <1>1, <3>1 DEF ReadersInv, ReadersAreSubscribers
      <3> QED BY <3>1, <3>2, <3>5, <3>6
    <2>2. CASE q = p
      <3>1. /\ unread'[q][s] \in 1 .. MaxRetained /\ unread'[q][s] <= unread[q][s] + 1
            /\ unread[q][s] \in NoReader .. MaxRetained
        BY <1>4, <1>7, <2>1, <2>2
      <3> QED BY <1>4, <1>12, <1>14, <2>1, <2>2, <3>1 DEF NoReader
    <2>3. CASE q # p
      BY <1>8, <1>12, <2>1, <2>3
    <2> QED BY <2>2, <2>3
  <1> QED BY <1>9, <1>10, <1>13, <1>15, <1>17, <1>18, Parts DEF ReadersInv

(* One subscriber hears of it: it takes a frame, or misses one more.        *)
LEMMA CallbackStep ==
    ASSUME IInv, NEW s \in Accounts, Callback(s)
    PROVE  IInv'
  <1>1. ListsInv /\ CacheTypes /\ RestTypes /\ ReadersInv
    BY Parts
  <1> DEFINE p == call.pub
  <1>2. /\ call # None /\ s \in call.left
        /\ call' = [call EXCEPT !.left = @ \ {s}]
        /\ UNCHANGED <<alive, pool, publishers, subscribers, ring, handler, unremoved>>
        /\ PullOk(s) \/ PullFails(s)
    BY DEF Callback, Idle, lists
  <1>3. /\ ring \subseteq Accounts /\ subscribers \in [Accounts -> SUBSET Accounts]
        /\ call \in [pub : ring, left : SUBSET alive] /\ p \in ring /\ p \in Accounts
        /\ call' \in [pub : ring, left : SUBSET alive]
        /\ call'.pub = p /\ call'.left = call.left \ {s}
    BY <1>1, <1>2 DEF RestTypes, ListsInv, ListTypes
  <1>4. /\ frames \in [Accounts -> Seq(Sizes)]
        /\ \A a \in Accounts : Len(frames[a]) <= MaxRetained
        /\ unread \in [Accounts -> [Accounts -> NoReader .. MaxRetained]]
        /\ missed \in [Accounts -> [Accounts -> 0 .. MaxRetained]]
        /\ MaxRetained \in Nat /\ MaxTimeouts \in Nat /\ timeouts \in 0 .. MaxTimeouts
    BY <1>1, BoundsAssumption DEF CacheTypes, RestTypes
  <1>5. ~Idle /\ ~Idle'
    BY <1>1, <1>2, <1>3, NoneAssumption DEF Idle, ListsInv, ListTypes
  <1>6. CASE PullOk(s)
    <2>1. /\ unread[p][s] > 0 /\ unread[p][s] \in NoReader .. MaxRetained
          /\ unread' = [unread EXCEPT ![p][s] = @ - 1]
          /\ frames' = [frames EXCEPT ![p] = Retained(@, unread'[p])]
          /\ UNCHANGED <<timeouts, missed>>
      BY <1>3, <1>4, <1>6 DEF PullOk
    <2>2. unread[p][s] \in 1 .. MaxRetained /\ unread[p][s] - 1 \in NoReader .. MaxRetained
          /\ unread[p][s] - 1 # NoReader
      <3>1. \A u \in NoReader .. MaxRetained : u > 0 =>
               u \in 1 .. MaxRetained /\ u - 1 \in NoReader .. MaxRetained /\ u - 1 # NoReader
        BY BoundsAssumption DEF NoReader
      <3> QED BY <2>1, <3>1
    <2>3. \A q, x \in Accounts :
              unread'[q][x] = IF q = p /\ x = s THEN unread[p][s] - 1 ELSE unread[q][x]
      BY <1>3, <1>4, <2>1
    <2>4. CacheTypes'
      <3>1. unread' \in [Accounts -> [Accounts -> NoReader .. MaxRetained]]
        BY <1>4, <2>1, <2>2
      <3>2. /\ Retained(frames[p], unread'[p]) \in Seq(Sizes)
            /\ Len(Retained(frames[p], unread'[p])) <= MaxRetained
        BY <1>3, <1>4, ReleasedType
      <3>3. /\ frames' \in [Accounts -> Seq(Sizes)]
            /\ \A a \in Accounts : Len(frames'[a]) <= MaxRetained
        BY <1>3, <1>4, <2>1, <3>2
      <3> QED BY <1>4, <2>1, <3>1, <3>3 DEF CacheTypes
    <2>5. OnlyRingsRead'
      BY <1>1, <1>2, <1>3, <2>3 DEF ReadersInv, OnlyRingsRead
    <2>6. ReadersAreSubscribers'
      <3>1. \A q \in ring : q \in Accounts
        BY <1>3
      <3>2. unread[p][s] # NoReader
        BY <2>2 DEF NoReader
      <3>3. \A q, x \in Accounts : unread'[q][x] = NoReader <=> unread[q][x] = NoReader
        BY <2>2, <2>3, <3>2
      <3> QED BY <1>1, <1>2, <3>1, <3>3 DEF ReadersInv, ReadersAreSubscribers
    <2>7. BacklogIsMissed'
      <3> SUFFICES ASSUME NEW q \in ring, NEW x \in subscribers[q]
                   PROVE  unread'[q][x] <= missed[q][x]
                              + (IF ~Idle' /\ call'.pub = q /\ x \in call'.left THEN 1 ELSE 0)
        BY <1>2, <2>1 DEF BacklogIsMissed
      <3>1. /\ q \in Accounts /\ x \in Accounts
            /\ unread[q][x] <= missed[q][x]
                 + (IF ~Idle /\ call.pub = q /\ x \in call.left THEN 1 ELSE 0)
        BY <1>1, <1>3 DEF ReadersInv, BacklogIsMissed
      <3>2. unread[q][x] \in NoReader .. MaxRetained /\ missed[q][x] \in 0 .. MaxRetained
        BY <1>4, <3>1
      <3>3. CASE q = p /\ x = s
        <4>1. unread[p][s] <= missed[p][s] + 1 /\ unread'[q][x] = unread[p][s] - 1
          BY <1>2, <1>3, <1>5, <2>3, <3>1, <3>3
        <4>2. unread'[q][x] <= missed[q][x]
          BY <1>4, <2>2, <3>2, <3>3, <4>1
        <4>3. x \notin call'.left
          BY <1>3, <3>3
        <4> QED BY <3>2, <4>2, <4>3
      <3>4. CASE ~(q = p /\ x = s)
        BY <1>2, <1>3, <1>5, <2>3, <3>1, <3>2, <3>4
      <3> QED BY <3>3, <3>4
    <2>8. ListsInv' /\ RestTypes'
      BY <1>1, <1>2, <1>3, <2>1
         DEF ListsInv, ListTypes, ListsMirror, NamesApart, RestTypes
    <2> QED BY <2>4, <2>5, <2>6, <2>7, <2>8, Parts DEF ReadersInv
  <1>7. CASE PullFails(s)
    <2>1. /\ timeouts' \in 0 .. MaxTimeouts
          /\ missed' = [missed EXCEPT ![p][s] = Least(@ + 1, MaxRetained)]
          /\ UNCHANGED <<frames, unread>>
      BY <1>4, <1>7 DEF PullFails, Missed
    <2>2. \A q, x \in Accounts :
              missed'[q][x] = IF q = p /\ x = s THEN Least(missed[p][s] + 1, MaxRetained)
                              ELSE missed[q][x]
      BY <1>3, <1>4, <2>1
    <2>3. CacheTypes'
      <3>1. missed' \in [Accounts -> [Accounts -> 0 .. MaxRetained]]
        BY <1>3, <1>4, <2>1 DEF Least
      <3> QED BY <1>4, <2>1, <3>1 DEF CacheTypes
    <2>4. OnlyRingsRead' /\ ReadersAreSubscribers'
      BY <1>1, <1>2, <2>1 DEF ReadersInv, OnlyRingsRead, ReadersAreSubscribers
    <2>5. BacklogIsMissed'
      <3> SUFFICES ASSUME NEW q \in ring, NEW x \in subscribers[q]
                   PROVE  unread[q][x] <= missed'[q][x]
                              + (IF ~Idle' /\ call'.pub = q /\ x \in call'.left THEN 1 ELSE 0)
        BY <1>2, <2>1 DEF BacklogIsMissed
      <3>1. /\ q \in Accounts /\ x \in Accounts
            /\ unread[q][x] <= missed[q][x]
                 + (IF ~Idle /\ call.pub = q /\ x \in call.left THEN 1 ELSE 0)
        BY <1>1, <1>3 DEF ReadersInv, BacklogIsMissed
      <3>2. unread[q][x] \in NoReader .. MaxRetained /\ missed[q][x] \in 0 .. MaxRetained
        BY <1>4, <3>1
      <3>3. CASE q = p /\ x = s
        <4>1. /\ unread[q][x] <= missed[q][x] + 1
              /\ missed'[q][x] = Least(missed[q][x] + 1, MaxRetained)
          BY <1>2, <1>3, <1>5, <2>2, <3>1, <3>3
        <4>2. \A u \in NoReader .. MaxRetained, m \in 0 .. MaxRetained :
                 u <= m + 1 => /\ u <= Least(m + 1, MaxRetained)
                               /\ Least(m + 1, MaxRetained) \in Nat
          BY BoundsAssumption DEF NoReader, Least
        <4>3. unread[q][x] <= missed'[q][x] /\ missed'[q][x] \in Nat
          BY <3>2, <4>1, <4>2
        <4>4. x \notin call'.left
          BY <1>3, <3>3
        <4> QED BY <4>3, <4>4
      <3>4. CASE ~(q = p /\ x = s)
        BY <1>2, <1>3, <1>5, <2>2, <3>1, <3>2, <3>4
      <3> QED BY <3>3, <3>4
    <2>6. ListsInv' /\ RestTypes'
      BY <1>1, <1>2, <1>3, <2>1
         DEF ListsInv, ListTypes, ListsMirror, NamesApart, RestTypes
    <2> QED BY <2>3, <2>4, <2>5, <2>6, Parts DEF ReadersInv
  <1> QED BY <1>2, <1>6, <1>7

(* Everybody has heard of it.                                               *)
LEMMA PublishDoneStep ==
    ASSUME IInv, PublishDone
    PROVE  IInv'
  <1>1. ListsInv /\ CacheTypes /\ RestTypes /\ ReadersInv
    BY Parts
  <1>2. /\ call # None /\ call.left = {} /\ call' = None
        /\ UNCHANGED <<alive, pool, publishers, subscribers, ring, frames, unread, missed,
                       handler, timeouts, unremoved>>
    BY DEF PublishDone, Idle, lists, cache
  <1>3. ListsInv' /\ CacheTypes' /\ RestTypes'
    BY <1>1, <1>2 DEF ListsInv, ListTypes, ListsMirror, NamesApart, CacheTypes, RestTypes
  <1>4. OnlyRingsRead' /\ ReadersAreSubscribers'
    BY <1>1, <1>2 DEF ReadersInv, OnlyRingsRead, ReadersAreSubscribers
  <1>5. BacklogIsMissed'
    BY <1>1, <1>2 DEF ReadersInv, BacklogIsMissed, Idle
  <1> QED BY <1>3, <1>4, <1>5, Parts DEF ReadersInv

-----------------------------------------------------------------------------
(* What setting the callback of an account and a timeout change.            *)
LEMMA AsideStep ==
    ASSUME IInv, NEW a \in Accounts,
           \/ SetEventCallback(a)
           \/ DataHandlerTimesOut(a)
    PROVE  IInv'
  <1>1. ListsInv /\ CacheTypes /\ RestTypes /\ ReadersInv
    BY Parts
  <1>2. UNCHANGED <<lists, cache, call, unremoved>>
    BY DEF SetEventCallback, DataHandlerTimesOut
  <1>3. ListsInv' /\ CacheTypes' /\ ReadersInv'
    BY <1>2, QuietStep
  <1>4. handler' \subseteq alive /\ timeouts' \in 0 .. MaxTimeouts
    <2>1. handler \subseteq alive /\ timeouts \in 0 .. MaxTimeouts /\ MaxTimeouts \in Nat
      BY <1>1, BoundsAssumption DEF RestTypes
    <2> QED BY <2>1 DEF SetEventCallback, DataHandlerTimesOut
  <1> QED BY <1>1, <1>2, <1>3, <1>4, Parts DEF RestTypes, lists

(* At the start only the data center's own account exists.                  *)
LEMMA InitialStep == Init => IInv
  <1> SUFFICES ASSUME Init PROVE IInv
    OBVIOUS
  <1>1. Main \in Accounts /\ MaxRetained \in Nat /\ MaxTimeouts \in Nat
    BY AccountsAssumption, BoundsAssumption
  <1>2. ListsInv
    BY <1>1 DEF Init, ListsInv, ListTypes, ListsMirror, NamesApart
  <1>3. CacheTypes
    <2>1. <<>> \in Seq(Sizes) /\ Len(<<>>) <= MaxRetained
      BY <1>1
    <2>2. NoReader \in NoReader .. MaxRetained /\ 0 \in 0 .. MaxRetained
      BY <1>1 DEF NoReader
    <2> QED BY <2>1, <2>2 DEF Init, CacheTypes, Nobody
  <1>4. RestTypes
    BY <1>1 DEF Init, RestTypes
  <1>5. ReadersInv
    BY DEF Init, ReadersInv, OnlyRingsRead, ReadersAreSubscribers, BacklogIsMissed, Nobody
  <1> QED BY <1>2, <1>3, <1>4, <1>5, Parts

(* The invariant holds in every state.                                      *)
LEMMA Invariance == Spec => []IInv
  <1>1. Init => IInv
    BY InitialStep
  <1>2. IInv /\ [Next]_vars => IInv'
    <2> SUFFICES ASSUME IInv, [Next]_vars PROVE IInv'
      OBVIOUS
    <2>1. CASE \E a \in Accounts :
                  \/ \E allocated \in BOOLEAN : Create(a, allocated)
                  \/ Destroy(a)
                  \/ \E size \in Sizes : DataHandler(a, size)
                  \/ Callback(a)
      BY <2>1, CreateStep, DestroyStep, DataHandlerStep, CallbackStep
    <2>2. CASE \E a \in Accounts :
                  \/ SetEventCallback(a)
                  \/ DataHandlerTimesOut(a)
      BY <2>2, AsideStep
    <2>3. CASE \E a, p \in Accounts :
                  \/ Subscribe(a, p)
                  \/ /\ Idle
                     /\ Unsubscribe(a, p)
                     /\ missed' = [missed EXCEPT ![p][a] = 0]
                     /\ UNCHANGED call
                  \/ CallbackUnsubscribes(a, p)
      BY <2>3, SubscribeStep, LeavesStep, CallbackUnsubscribesStep
    <2>4. CASE PublishDone
      BY <2>4, PublishDoneStep
    <2>5. CASE UNCHANGED vars
      <3>1. UNCHANGED <<lists, cache, call, unremoved, handler, timeouts>>
        BY <2>5 DEF vars
      <3>2. ListsInv' /\ CacheTypes' /\ ReadersInv'
        BY <3>1, QuietStep
      <3>3. RestTypes'
        BY <3>1, Parts DEF RestTypes, lists
      <3> QED BY <3>2, <3>3, Parts
    <2> QED BY <2>1, <2>2, <2>3, <2>4, <2>5 DEF Next
  <1> QED BY <1>1, <1>2, PTL DEF Spec

-----------------------------------------------------------------------------
(* Of a list of accounts of different names Find finds at most one.         *)
LEMMA FindsOne ==
    ASSUME NEW list, NEW name,
           \A a, b \in list : NameOf(a) = NameOf(b) => a = b
    PROVE  Cardinality(Find(list, name)) <= 1
  <1>1. CASE Find(list, name) = {}
    BY <1>1, FS_EmptySet
  <1>2. CASE Find(list, name) # {}
    <2>1. PICK a \in Find(list, name) : TRUE
      BY <1>2
    <2>2. Find(list, name) = {a}
      BY <2>1 DEF Find
    <2>3. Cardinality({a}) = 1
      BY FS_Singleton
    <2>4. Cardinality(Find(list, name)) = 1
      BY <2>2, <2>3
    <2> QED BY <2>4
  <1> QED BY <1>1, <1>2

(* A subscription stands in the lists of both its ends or of neither, its   *)
(* ends exist, and a name leads to one account: what Subscribe,             *)
(* Unsubscribe, ~Account and Publish rely on when they use a pointer.       *)
THEOREM ListsCorrect == Spec => []ListsAgree
  <1>1. IInv => ListsAgree
    <2> SUFFICES ASSUME IInv PROVE ListsAgree
      OBVIOUS
    <2>1. TypeOK /\ ListsInv
      BY Parts DEF IInv
    <2>2. ASSUME NEW s \in Accounts, NEW p \in Accounts
          PROVE  /\ p \in publishers[s] <=> s \in subscribers[p]
                 /\ p \in publishers[s] => {s, p} \subseteq alive
      BY <2>1, Linked
    <2>3. ASSUME NEW s \in Accounts, NEW n
          PROVE  /\ Cardinality(Find(publishers[s], n)) <= 1
                 /\ Cardinality(Find(pool, n)) <= 1
      <3>1. publishers[s] \subseteq pool
        <4>1. publishers[s] \subseteq Accounts
          BY <2>1 DEF ListsInv, ListTypes
        <4> QED BY <2>1, <4>1, Linked
      <3>2. \A a, b \in pool : NameOf(a) = NameOf(b) => a = b
        BY <2>1 DEF ListsInv, NamesApart
      <3> QED BY <3>1, <3>2, FindsOne
    <2> QED BY <2>1, <2>2, <2>3 DEF ListsAgree
  <1> QED BY <1>1, Invariance, PTL

(* Everyone listed as a subscriber of a ring reads it, and a reader nobody  *)
(* is listed for stems from a removal that timed out (Account.cpp:190).     *)
THEOREM ReadersCorrect == Spec => []ReadersAreSubscribers
  <1>1. IInv => ReadersAreSubscribers
    BY DEF IInv
  <1> QED BY <1>1, Invariance, PTL

(* A subscriber waits for the frame being published and for one frame of    *)
(* each publication that gave it none, no more (Account::Publish).          *)
THEOREM BacklogCorrect == Spec => []BacklogIsMissed
  <1>1. IInv => BacklogIsMissed
    BY DEF IInv
  <1> QED BY <1>1, Invariance, PTL
=============================================================================
