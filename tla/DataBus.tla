------------------------------ MODULE DataBus ------------------------------
(***************************************************************************)
(* The accounts of the data center (components/DataCenter/Account.cpp and  *)
(* DataCenter.cpp) and the nodes the program builds from them: a publisher *)
(* whose cache is filled by DP_GNSS_DataHandler, and subscribers whose     *)
(* callback pulls one frame per publication (DP_Bluetooth.cpp).            *)
(*                                                                         *)
(* Calls on accounts are made by one task at a time, so a call is a step;  *)
(* a publication is one step per callback, because a callback may itself   *)
(* change the lists.  The cache is taken at the level of FrameStream,      *)
(* which RingBuffer is proved to implement: here it is the sizes of the    *)
(* frames that some reader has still to read, and how many each reader     *)
(* has.  Every call that takes the ring's mutex may time out.  An account's *)
(* timer, which touches none of this, is left out.                         *)
(***************************************************************************)
EXTENDS Integers, FiniteSets, Sequences

CONSTANTS Accounts,     (* objects; one may be created again once deleted   *)
          Main,         (* the data center's own account AccountMain        *)
          Cached,       (* accounts constructed with a buffer size          *)
          NameOf(_),    (* the ID an account is constructed with            *)
          MaxRetained,  (* bound: frames a cache retains                    *)
          MaxTimeouts,  (* bound: calls that time out on the mutex          *)
          None          (* no publication in progress                       *)

ASSUME AccountsAssumption == IsFiniteSet(Accounts) /\ Main \in Accounts \ Cached
ASSUME BoundsAssumption == MaxRetained \in Nat \ {0} /\ MaxTimeouts \in Nat
ASSUME NoneAssumption == None \notin [pub : Accounts, left : SUBSET Accounts]

VARIABLES alive,        (* constructed and not destroyed                    *)
          pool,         (* AccountPool                                      *)
          publishers,   (* _publishers of each account                      *)
          subscribers,  (* _subscribers of each account                     *)
          ring,         (* accounts that have a ring buffer                 *)
          frames,       (* the cache of each account, oldest frame first    *)
          unread,       (* unread[p][s]: frames of p that s has to read     *)
          handler,      (* accounts whose event callback is set             *)
          call,         (* the publication in progress                      *)
          timeouts,     (* timeouts so far                                  *)
          missed,       (* history: publications that gave s no frame       *)
          unremoved     (* history: removals that timed out                 *)

lists == <<alive, pool, publishers, subscribers, ring>>
cache == <<frames, unread, missed>>
vars == <<lists, cache, handler, call, timeouts, unremoved>>

NoReader == -1
Nobody == [s \in Accounts |-> NoReader]
Sizes == {"fits", "large"}      (* against the 256 bytes of DP_Bluetooth    *)

Least(a, b) == IF a < b THEN a ELSE b
Idle == call = None

(* Find: the account of that name in a list, as a set of at most one.       *)
Find(list, name) == {a \in list : NameOf(a) = name}

Readers(u) == {s \in Accounts : u[s] # NoReader}

(* UpdateFreeSpaceLocked: only what somebody has still to read is kept.     *)
Retained(fs, u) ==
    LET longest == Cardinality({i \in 1 .. Len(fs) : \E s \in Readers(u) : i <= u[s]})
    IN  SubSeq(fs, Len(fs) - longest + 1, Len(fs))

Init ==
    /\ alive = {Main} /\ pool = {} /\ ring = {}
    /\ publishers = [a \in Accounts |-> {}]
    /\ subscribers = [a \in Accounts |-> {}]
    /\ frames = [a \in Accounts |-> <<>>]
    /\ unread = [a \in Accounts |-> Nobody]
    /\ missed = [a \in Accounts |-> [s \in Accounts |-> 0]]
    /\ handler = {}
    /\ call = None
    /\ timeouts = 0
    /\ unremoved = {}

-----------------------------------------------------------------------------
(* The constructor.  The id of a living account is refused by AddAccount,   *)
(* and one whose ring cannot be allocated never calls it: the object lives  *)
(* on outside the pool.  AccountMain follows every account without a ring.  *)
Create(a, allocated) ==
    LET added == /\ a \in Cached => allocated
                 /\ Find(pool, NameOf(a)) = {}
        followed == added /\ a \notin Cached
    IN  /\ Idle
        /\ a \notin alive
        /\ alive' = alive \cup {a}
        /\ pool' = IF added THEN pool \cup {a} ELSE pool
        /\ ring' = IF a \in Cached /\ allocated THEN ring \cup {a} ELSE ring
        /\ publishers' = IF followed
                           THEN [publishers EXCEPT ![Main] = @ \cup {a}] ELSE publishers
        /\ subscribers' = IF followed
                            THEN [subscribers EXCEPT ![a] = {Main}] ELSE subscribers
        /\ UNCHANGED <<cache, handler, call, timeouts, unremoved>>

-----------------------------------------------------------------------------
(* Leaving.  The lists change first; RemoveSubscriber of the publishers in  *)
(* late then times out, and the reader stays in their ring.                 *)
Leave(s, ps, late) ==
    LET gone == (ps \cap ring) \ late
        left == [p \in Accounts |->
                    IF p \in gone THEN [unread[p] EXCEPT ![s] = NoReader] ELSE unread[p]]
    IN  /\ late \subseteq ps \cap ring
        /\ timeouts + Cardinality(late) <= MaxTimeouts
        /\ timeouts' = timeouts + Cardinality(late)
        /\ unremoved' = unremoved \cup (late \X {s})
        /\ unread' = left
        /\ frames' = [p \in Accounts |->
                         IF p \in gone THEN Retained(frames[p], left[p]) ELSE frames[p]]

Unlink(s, ps) ==
    /\ publishers' = [publishers EXCEPT ![s] = @ \ ps]
    /\ subscribers' = [p \in Accounts |->
                          IF p \in ps THEN subscribers[p] \ {s} ELSE subscribers[p]]

Unsubscribe(s, p) ==
    /\ s \in alive
    /\ p \in publishers[s]
    /\ Unlink(s, {p})
    /\ \E late \in SUBSET {p} : Leave(s, {p}, late)
    /\ UNCHANGED <<alive, pool, ring, handler>>

(* Slip: the destructor lets its subscribers go but stays in the lists of   *)
(* the accounts it follows.                                                 *)
DestroyLists_SubscribersOnly(a) ==
    /\ publishers' = [s \in Accounts |-> publishers[s] \ {a}]
    /\ subscribers' = [subscribers EXCEPT ![a] = {}]

(* The destructor: subscribers unfollow, then the account leaves everyone   *)
(* it follows.                                                              *)
DestroyLists(a) ==
    /\ publishers' = [s \in Accounts |-> IF s = a THEN {} ELSE publishers[s] \ {a}]
    /\ subscribers' = [p \in Accounts |-> IF p = a THEN {} ELSE subscribers[p] \ {a}]

(* What the subscribers' removals from its own ring leave behind goes with  *)
(* the ring.                                                                *)
Destroy(a) ==
    /\ Idle
    /\ a \in alive \ {Main}
    /\ alive' = alive \ {a}
    /\ pool' = pool \ {a}
    /\ ring' = ring \ {a}
    /\ DestroyLists(a)
    /\ handler' = handler \ {a}
    /\ \E late \in SUBSET publishers[a] :
          LET kept == (publishers[a] \cap ring) \ late
              left == [p \in Accounts |->
                          IF p = a THEN Nobody
                          ELSE IF p \in kept THEN [unread[p] EXCEPT ![a] = NoReader]
                          ELSE unread[p]]
          IN  /\ late \subseteq ring
              /\ timeouts + Cardinality(late) <= MaxTimeouts
              /\ timeouts' = timeouts + Cardinality(late)
              /\ unremoved' = {x \in unremoved : x[1] # a} \cup (late \X {a})
              /\ unread' = left
              /\ frames' = [p \in Accounts |->
                               IF p = a THEN <<>>
                               ELSE IF p \in kept THEN Retained(frames[p], left[p])
                               ELSE frames[p]]
    /\ missed' = [p \in Accounts |-> IF p = a THEN [s \in Accounts |-> 0]
                                              ELSE [missed[p] EXCEPT ![a] = 0]]
    /\ UNCHANGED call

-----------------------------------------------------------------------------
(* Subscribe.  Itself, a name already followed and a name nobody in the     *)
(* pool has are refused without a trace.  A ring that times out, or still   *)
(* holds a reader of this account, undoes both lists.                       *)
Join(s, p) ==
    /\ publishers' = [publishers EXCEPT ![s] = @ \cup {p}]
    /\ subscribers' = [subscribers EXCEPT ![p] = @ \cup {s}]
    /\ missed' = [missed EXCEPT ![p][s] = 0]
    /\ unread' = IF p \in ring THEN [unread EXCEPT ![p][s] = 0] ELSE unread
    /\ UNCHANGED timeouts

(* Slip: neither list is undone.                                            *)
JoinRefused_Kept(s, p) ==
    /\ p \in ring
    /\ \/ unread[p][s] # NoReader /\ UNCHANGED timeouts
       \/ timeouts < MaxTimeouts /\ timeouts' = timeouts + 1
    /\ publishers' = [publishers EXCEPT ![s] = @ \cup {p}]
    /\ subscribers' = [subscribers EXCEPT ![p] = @ \cup {s}]
    /\ UNCHANGED <<missed, unread>>

JoinRefused(s, p) ==
    /\ p \in ring
    /\ \/ unread[p][s] # NoReader /\ UNCHANGED timeouts
       \/ timeouts < MaxTimeouts /\ timeouts' = timeouts + 1
    /\ UNCHANGED <<publishers, subscribers, missed, unread>>

Subscribe(s, p) ==
    /\ Idle
    /\ s \in alive \ {Main}
    /\ p \in pool
    /\ NameOf(p) # NameOf(s)
    /\ Find(publishers[s], NameOf(p)) = {}
    /\ \/ /\ p \in ring => unread[p][s] = NoReader
          /\ Join(s, p)
       \/ JoinRefused(s, p)
    /\ UNCHANGED <<alive, pool, ring, frames, handler, call, unremoved>>

SetEventCallback(a) ==
    /\ Idle
    /\ a \in alive \ (handler \cup {Main})
    /\ handler' = handler \cup {a}
    /\ UNCHANGED <<lists, cache, call, timeouts, unremoved>>

-----------------------------------------------------------------------------
Room(kept) == kept < MaxRetained

(* DP_GNSS_DataHandler: a frame is committed, and published if that worked. *)
(* The oldest frames are forced out as far as the incoming one needs: at    *)
(* least one of a full table, more when bytes are short.  Publish goes on   *)
(* with the subscribers of this moment.                                     *)
DataHandler(p, size) ==
    /\ Idle
    /\ p \in ring
    /\ \E dropped \in 0 .. Len(frames[p]) :
          LET kept == Len(frames[p]) - dropped IN
          /\ Room(kept)
          /\ unread' = [unread EXCEPT ![p] =
                 [s \in Accounts |->
                     IF @[s] = NoReader THEN NoReader ELSE Least(@[s], kept) + 1]]
          /\ frames' = [frames EXCEPT ![p] =
                 Retained(Append(SubSeq(@, dropped + 1, Len(@)), size), unread'[p])]
    /\ call' = [pub |-> p, left |-> subscribers[p]]
    /\ UNCHANGED <<lists, handler, timeouts, missed, unremoved>>

DataHandlerTimesOut(p) ==
    /\ Idle
    /\ p \in ring
    /\ timeouts < MaxTimeouts
    /\ timeouts' = timeouts + 1
    /\ UNCHANGED <<lists, cache, handler, call, unremoved>>

NextSize(p, s) == frames[p][Len(frames[p]) - unread[p][s] + 1]

Missed(s) == missed' = [missed EXCEPT ![call.pub][s] = Least(@ + 1, MaxRetained)]

(* Pull by the callback of s: the frame is copied if the buffer holds it.   *)
PullOk(s) ==
    LET p == call.pub IN
    /\ s \in handler
    /\ p \in publishers[s]
    /\ unread[p][s] > 0
    /\ NextSize(p, s) = "fits"
    /\ unread' = [unread EXCEPT ![p][s] = @ - 1]
    /\ frames' = [frames EXCEPT ![p] = Retained(@, unread'[p])]
    /\ UNCHANGED <<timeouts, missed>>

(* No callback, a frame too large for the buffer, nothing to read, the      *)
(* publisher no longer followed, or a timeout: the ring keeps what it has.  *)
PullFails(s) ==
    LET p == call.pub IN
    /\ \/ /\ \/ s \notin handler
             \/ p \notin publishers[s]
             \/ unread[p][s] = 0
             \/ unread[p][s] > 0 /\ NextSize(p, s) = "large"
          /\ UNCHANGED timeouts
       \/ s \in handler /\ timeouts < MaxTimeouts /\ timeouts' = timeouts + 1
    /\ Missed(s)
    /\ UNCHANGED <<frames, unread>>

(* Slip: the publication ends with the first callback that fails.           *)
CallbackEndsPublication(s) ==
    /\ ~Idle
    /\ s \in call.left
    /\ \/ PullOk(s) /\ call' = [call EXCEPT !.left = @ \ {s}]
       \/ PullFails(s) /\ call' = [call EXCEPT !.left = {}]
    /\ UNCHANGED <<lists, handler, unremoved>>

(* One turn of Publish.                                                     *)
Callback(s) ==
    /\ ~Idle
    /\ s \in call.left
    /\ call' = [call EXCEPT !.left = @ \ {s}]
    /\ PullOk(s) \/ PullFails(s)
    /\ UNCHANGED <<lists, handler, unremoved>>

(* A callback that pulls nothing and takes an account, its own or another,  *)
(* off the publisher.                                                       *)
CallbackUnsubscribes(s, x) ==
    /\ ~Idle
    /\ s \in call.left \cap handler
    /\ Unsubscribe(x, call.pub)
    /\ Missed(s)
    /\ call' = [call EXCEPT !.left = @ \ {s}]

PublishDone ==
    /\ ~Idle
    /\ call.left = {}
    /\ call' = None
    /\ UNCHANGED <<lists, cache, handler, timeouts, unremoved>>

-----------------------------------------------------------------------------
Next ==
    \/ \E a \in Accounts :
          \/ \E allocated \in BOOLEAN : Create(a, allocated)
          \/ Destroy(a)
          \/ SetEventCallback(a)
          \/ \E size \in Sizes : DataHandler(a, size)
          \/ DataHandlerTimesOut(a)
          \/ Callback(a)
          \/ \E p \in Accounts :
                \/ Subscribe(a, p)
                \/ /\ Idle
                   /\ Unsubscribe(a, p)
                   /\ missed' = [missed EXCEPT ![p][a] = 0]
                   /\ UNCHANGED call
                \/ CallbackUnsubscribes(a, p)
    \/ PublishDone

Spec == Init /\ [][Next]_vars

-----------------------------------------------------------------------------
TypeOK ==
    /\ alive \subseteq Accounts /\ Main \in alive
    /\ pool \subseteq alive \ {Main}
    /\ ring \subseteq alive \cap Cached
    /\ publishers \in [Accounts -> SUBSET Accounts]
    /\ subscribers \in [Accounts -> SUBSET Accounts]
    /\ frames \in [Accounts -> Seq(Sizes)]
    /\ \A a \in Accounts : Len(frames[a]) <= MaxRetained
    /\ unread \in [Accounts -> [Accounts -> NoReader .. MaxRetained]]
    /\ missed \in [Accounts -> [Accounts -> 0 .. MaxRetained]]
    /\ handler \subseteq alive
    /\ call = None \/ call \in [pub : ring, left : SUBSET alive]
    /\ timeouts \in 0 .. MaxTimeouts
    /\ unremoved \subseteq Accounts \X Accounts

(* The two lists of a subscription always agree, nobody follows two         *)
(* accounts of one name, the pool holds one account per name, and no list   *)
(* mentions an account that was destroyed: Publish and Pull use these       *)
(* pointers without asking (Subscribe, Unsubscribe, ~Account, AddAccount).  *)
ListsAgree ==
    /\ TypeOK
    /\ \A s, p \in Accounts :
          /\ p \in publishers[s] <=> s \in subscribers[p]
          /\ p \in publishers[s] => {s, p} \subseteq alive
    /\ \A s \in Accounts, n \in {NameOf(a) : a \in Accounts} :
          /\ Cardinality(Find(publishers[s], n)) <= 1
          /\ Cardinality(Find(pool, n)) <= 1

(* Whoever is listed as a subscriber of an account with a ring has a reader *)
(* in that ring, and a reader nobody is listed for, which pins frames and   *)
(* bars its account from subscribing again, stems from a removal that timed *)
(* out after the lists were changed (Account.cpp:190), from nothing else.   *)
ReadersAreSubscribers ==
    \A p \in ring, s \in Accounts :
        /\ s \in subscribers[p] => unread[p][s] # NoReader
        /\ unread[p][s] # NoReader => s \in subscribers[p] \/ <<p, s>> \in unremoved

(* A subscriber has no frame waiting but the one being published and one    *)
(* for each publication that gave it none: it is as recent as its own       *)
(* failed pulls allow.  It never catches up either: a publication pulls one *)
(* frame, and a frame larger than the buffer stays in front until the ring  *)
(* forces it out (DP_Bluetooth.cpp:16, Account::Publish).                   *)
BacklogIsMissed ==
    \A p \in ring : \A s \in subscribers[p] :
        unread[p][s] <= missed[p][s]
            + (IF ~Idle /\ call.pub = p /\ s \in call.left THEN 1 ELSE 0)

-----------------------------------------------------------------------------
(* What makes these properties inductive: only accounts of the pool, whose  *)
(* names differ, are followed, and an account without a ring has no reader. *)
ListsMirror ==
    \A s, p \in Accounts :
        /\ p \in publishers[s] <=> s \in subscribers[p]
        /\ p \in publishers[s] => s \in alive /\ p \in pool

NamesApart == \A a, b \in pool : NameOf(a) = NameOf(b) => a = b

OnlyRingsRead == \A p \in Accounts \ ring : \A s \in Accounts : unread[p][s] = NoReader

(* The inductive invariant.                                                 *)
IInv == /\ TypeOK /\ ListsMirror /\ NamesApart
        /\ OnlyRingsRead /\ ReadersAreSubscribers /\ BacklogIsMissed
=============================================================================
