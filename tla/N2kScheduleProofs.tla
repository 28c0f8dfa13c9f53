------------------------- MODULE N2kScheduleProofs -------------------------
(***************************************************************************)
(* What N2kSchedule says of the messages on the bus, for every range of    *)
(* the clock (2^32 ms in the code), any PGNs, periods and offsets.         *)
(***************************************************************************)
EXTENDS N2kSchedule, TLAPS

(* The sizes that the arithmetic needs.                                     *)
LEMMA Sizes ==
    /\ ClockRange \in Nat \ {0} /\ HalfRange \in Nat \ {0}
    /\ ClockRange = HalfRange + HalfRange
    /\ MaxInterval < HalfRange - 1 /\ MaxOffset < HalfRange - 1
    /\ MinInterval \in Nat \ {0} /\ MaxInterval \in Nat /\ MaxOffset \in Nat
    /\ MaxDelay \in 1 .. HalfRange
  BY N2kScheduleAssumption DEF HalfRange

(* In the first lap a time is its own remainder, in the second it is one    *)
(* lap less.                                                                *)
LEMMA FirstLap ==
    ASSUME NEW m \in Nat \ {0}, NEW x \in 0 .. m - 1
    PROVE  x % m = x
  OBVIOUS

LEMMA SecondLap ==
    ASSUME NEW m \in Nat \ {0}, NEW x \in m .. m + m - 1
    PROVE  x % m = x - m
  OBVIOUS

(* Setting a time ahead of the clock, up to one lap.                        *)
LEMMA WrapAhead ==
    ASSUME NEW x \in 0 .. ClockRange - 1, NEW k \in 0 .. ClockRange
    PROVE  /\ Wrap(x + k) = IF x + k < ClockRange THEN x + k ELSE x + k - ClockRange
           /\ Wrap(x + k) \in 0 .. ClockRange - 1
  <1>1. ClockRange \in Nat \ {0}
    BY Sizes
  <1>2. CASE x + k < ClockRange
    <2>1. x + k \in 0 .. ClockRange - 1
      BY <1>1, <1>2
    <2> QED BY <1>1, <1>2, <2>1, FirstLap DEF Wrap
  <1>3. CASE x + k >= ClockRange
    <2>1. x + k \in ClockRange .. ClockRange + ClockRange - 1
      BY <1>1, <1>3
    <2>2. Wrap(x + k) = x + k - ClockRange
      BY <1>1, <2>1, SecondLap DEF Wrap
    <2> QED BY <1>1, <1>3, <2>2
  <1> QED BY <1>1, <1>2, <1>3

(* Division with remainder of a negative number.                            *)
LEMMA WrapBehind ==
    ASSUME NEW x \in 1 .. ClockRange - 1
    PROVE  Wrap(-x) = ClockRange - x
  <1> DEFINE q == (-x) \div ClockRange
             r == (-x) % ClockRange
  <1>1. ClockRange \in Nat \ {0} /\ -x \in Int
    BY Sizes
  <1>2. q \in Int /\ r \in 0 .. ClockRange - 1 /\ -x = ClockRange * q + r
    BY <1>1
  <1> HIDE DEF q, r
  <1>3. q = -1
    <2>1. CASE q >= 0
      <3>1. ClockRange * q >= 0
        BY <2>1, <1>1, <1>2
      <3> QED BY <3>1, <1>1, <1>2
    <2>2. CASE q <= -2
      <3>1. ClockRange * q <= -2 * ClockRange
        BY <2>2, <1>1, <1>2
      <3> QED BY <3>1, <1>1, <1>2
    <2> QED BY <2>1, <2>2, <1>2
  <1>4. r = ClockRange - x
    BY <1>1, <1>2, <1>3
  <1> QED BY <1>4 DEF r, Wrap

(* N2kIsTimeBefore, for two times of the clock.                             *)
LEMMA Before ==
    ASSUME NEW t1 \in 0 .. ClockRange - 1, NEW t2 \in 0 .. ClockRange - 1
    PROVE  IsTimeBefore(t1, t2) <=>
               (IF t2 >= t1 THEN t2 - t1 ELSE ClockRange - (t1 - t2)) < HalfRange - 1
  <1>1. ClockRange \in Nat \ {0}
    BY Sizes
  <1>2. CASE t2 >= t1
    <2>1. Wrap(t2 - t1) = t2 - t1
      BY <1>1, <1>2, FirstLap DEF Wrap
    <2> QED BY <1>2, <2>1 DEF IsTimeBefore
  <1>3. CASE t2 < t1
    <2>1. t1 - t2 \in 1 .. ClockRange - 1 /\ t2 - t1 = -(t1 - t2)
      BY <1>1, <1>3
    <2>2. Wrap(t2 - t1) = ClockRange - (t1 - t2)
      BY <2>1, WrapBehind
    <2> QED BY <1>1, <1>3, <2>2 DEF IsTimeBefore
  <1> QED BY <1>1, <1>2, <1>3

-----------------------------------------------------------------------------
(* The types of what belongs to one PGN.                                    *)
LEMMA PgnTypes ==
    ASSUME TypeOK, NEW p \in Pgns
    PROVE  /\ schedule[p] \in [interval : MinInterval .. MaxInterval, offset : 0 .. MaxOffset,
                               nextSend : 0 .. ClockRange - 1, enabled : BOOLEAN]
           /\ arm[p] \in [by : {"boot", "send", "request", "zero"},
                          since : 0 .. ClockRange, lost : BOOLEAN]
           /\ schedule[p].interval \in 0 .. HalfRange - 2
           /\ schedule[p].offset \in 0 .. HalfRange - 2
           /\ schedule[p].nextSend \in 0 .. ClockRange - 1
           /\ Wait(p) \in 0 .. HalfRange - 2
           /\ arm[p].since \in 0 .. ClockRange
           /\ Overdue(p) = arm[p].since - Wait(p) /\ Overdue(p) \in Int
           /\ now \in 0 .. ClockRange - 1
  <1>1. /\ schedule[p] \in [interval : MinInterval .. MaxInterval, offset : 0 .. MaxOffset,
                             nextSend : 0 .. ClockRange - 1, enabled : BOOLEAN]
        /\ arm[p] \in [by : {"boot", "send", "request", "zero"},
                        since : 0 .. ClockRange, lost : BOOLEAN]
        /\ now \in 0 .. ClockRange - 1
    BY DEF TypeOK
  <1>2. /\ schedule[p].interval \in 0 .. HalfRange - 2
        /\ schedule[p].offset \in 0 .. HalfRange - 2
        /\ schedule[p].nextSend \in 0 .. ClockRange - 1
        /\ arm[p].since \in 0 .. ClockRange
    BY <1>1, Sizes
  <1>3. Wait(p) \in 0 .. HalfRange - 2
    BY <1>2 DEF Wait
  <1>4. Overdue(p) = arm[p].since - Wait(p) /\ Overdue(p) \in Int
    BY <1>2, <1>3, Sizes DEF Overdue
  <1> QED BY <1>1, <1>2, <1>3, <1>4

(* Steps that touch neither clock nor schedules.                            *)
LEMMA QuietStep ==
    ASSUME IInv, UNCHANGED <<now, schedule, arm>>, TypeOK',
           at' = at \/ at' = "idle", at' = "idle" /\ served' => served /\ at = "idle",
           failed' = failed
    PROVE  IInv'
  <1>1. ASSUME NEW p \in Pgns
        PROVE  TimeTrue(p)' /\ Overdue(p)' = Overdue(p)
    BY DEF IInv, TimeTrue, Overdue, Wait
  <1>2. NothingOverdue'
    BY <1>1 DEF IInv, NothingOverdue
  <1> QED BY <1>1, <1>2 DEF IInv

(* A history that has grown older.                                          *)
LEMMA Ageing ==
    ASSUME NEW a \in [by : {"boot", "send", "request", "zero"},
                      since : 0 .. ClockRange, lost : BOOLEAN],
           NEW since \in 0 .. ClockRange, NEW lost \in BOOLEAN, NEW b,
           b = [a EXCEPT !.since = since, !.lost = lost]
    PROVE  /\ b \in [by : {"boot", "send", "request", "zero"},
                      since : 0 .. ClockRange, lost : BOOLEAN]
           /\ b.by = a.by /\ b.since = since /\ b.lost = lost
  OBVIOUS

(* Time passes.                                                             *)
LEMMA TickStep ==
    ASSUME IInv, NEW d \in 1 .. MaxDelay, Tick(d)
    PROVE  IInv'
  <1>1. TypeOK /\ at = "idle"
    BY DEF IInv, NothingOverdue, Tick
  <1>2. /\ now' = Wrap(now + d) /\ at' = "parse" /\ failed' = {}
        /\ arm' = [p \in Pgns |-> Aged(p, d)]
        /\ schedule' = schedule /\ gnssValid' = gnssValid /\ served' = served
    BY DEF Tick
  <1>3. d \in 0 .. ClockRange /\ d \in 1 .. HalfRange
    BY Sizes
  <1>4. /\ now \in 0 .. ClockRange - 1 /\ now' \in 0 .. ClockRange - 1
        /\ now' = IF now + d < ClockRange THEN now + d ELSE now + d - ClockRange
    BY <1>1, <1>2, <1>3, WrapAhead DEF TypeOK
  <1>5. ASSUME NEW p \in Pgns
        PROVE  /\ arm'[p] \in [by : {"boot", "send", "request", "zero"},
                               since : 0 .. ClockRange, lost : BOOLEAN]
               /\ TimeTrue(p)'
    <2> DEFINE since == IF arm[p].since + d > ClockRange THEN ClockRange ELSE arm[p].since + d
               lost == arm[p].lost \/ since - Wait(p) > HalfRange + 1
    <2>1. arm'[p] = [arm[p] EXCEPT !.since = since, !.lost = lost]
      BY <1>2 DEF Aged
    <2>2. /\ arm[p] \in [by : {"boot", "send", "request", "zero"},
                          since : 0 .. ClockRange, lost : BOOLEAN]
          /\ arm[p].since \in 0 .. ClockRange /\ Wait(p) \in 0 .. HalfRange - 2
          /\ Overdue(p) = arm[p].since - Wait(p) /\ Overdue(p) \in Int
          /\ schedule[p].nextSend \in 0 .. ClockRange - 1
      BY <1>1, PgnTypes
    <2>3. since \in 1 .. ClockRange /\ lost \in BOOLEAN /\ since >= arm[p].since
      BY <1>3, <2>2, Sizes
    <2>4. /\ arm'[p].by = arm[p].by /\ arm'[p].since = since /\ arm'[p].lost = lost
          /\ arm'[p] \in [by : {"boot", "send", "request", "zero"},
                          since : 0 .. ClockRange, lost : BOOLEAN]
      <3> HIDE DEF since, lost
      <3>1. since \in 0 .. ClockRange
        BY <2>3, Sizes
      <3> QED BY <2>1, <2>2, <2>3, <3>1, Ageing
    <2>5. Wait(p)' = Wait(p) /\ Overdue(p)' = since - Wait(p)
      BY <1>2, <2>4 DEF Wait, Overdue
    <2>6. /\ arm[p].by = "boot" => schedule[p].enabled /\ schedule[p].nextSend = 0
          /\ arm[p].lost <=> Overdue(p) > HalfRange + 1
          /\ \/ arm[p].by = "boot" \/ arm[p].lost
             \/ now - schedule[p].nextSend \in
                    {Overdue(p) - ClockRange, Overdue(p), Overdue(p) + ClockRange}
      BY DEF IInv, TimeTrue
    <2> HIDE DEF since
    <2>7. lost <=> since - Wait(p) > HalfRange + 1
      BY <2>2, <2>3, <2>6, Sizes
    <2>8. ~lost => since = arm[p].since + d
      BY <2>2, <2>3, <2>7, <1>3, Sizes DEF since
    <2>9. ~lost => ~arm[p].lost /\ since - Wait(p) = Overdue(p) + d
                   /\ since - Wait(p) <= HalfRange + 1
      BY <2>2, <2>3, <2>7, <2>8, <1>3, Sizes
    <2>10. ~lost /\ arm[p].by # "boot" =>
              now' - schedule[p].nextSend \in
                 {since - Wait(p) - ClockRange, since - Wait(p), since - Wait(p) + ClockRange}
      BY <1>3, <1>4, <2>2, <2>3, <2>6, <2>9, Sizes
    <2> HIDE DEF lost
    <2> QED BY <1>2, <2>3, <2>4, <2>5, <2>6, <2>7, <2>10 DEF TimeTrue
  <1>6. TypeOK'
    BY <1>1, <1>2, <1>4, <1>5 DEF TypeOK
  <1>7. NothingOverdue'
    BY <1>2, <1>6 DEF NothingOverdue
  <1> QED BY <1>5, <1>7 DEF IInv

-----------------------------------------------------------------------------
(* A next time that is set ahead of the clock.                              *)
LEMMA SetAhead ==
    ASSUME TypeOK, NEW p \in Pgns, NEW by \in {"send", "request", "zero"},
           NEW w \in 0 .. HalfRange - 2,
           arm'[p] = Armed(by), now' = now,
           schedule'[p].nextSend = Wrap(now + w), Wait(p)' = w,
           at' = "idle" \/ by = "request"
    PROVE  /\ TimeTrue(p)' /\ Overdue(p)' <= 0
           /\ arm'[p] \in [by : {"boot", "send", "request", "zero"},
                           since : 0 .. ClockRange, lost : BOOLEAN]
           /\ schedule'[p].nextSend \in 0 .. ClockRange - 1
  <1>1. /\ arm'[p].by = by /\ arm'[p].since = 0 /\ arm'[p].lost = FALSE
        /\ arm'[p] \in [by : {"boot", "send", "request", "zero"},
                        since : 0 .. ClockRange, lost : BOOLEAN]
    BY Sizes DEF Armed
  <1>2. Overdue(p)' = -w
    BY <1>1 DEF Overdue
  <1>3. w \in 0 .. ClockRange /\ now \in 0 .. ClockRange - 1
    BY Sizes DEF TypeOK
  <1>4. /\ schedule'[p].nextSend \in 0 .. ClockRange - 1
        /\ schedule'[p].nextSend = IF now + w < ClockRange THEN now + w ELSE now + w - ClockRange
    BY <1>3, WrapAhead
  <1>5. now' - schedule'[p].nextSend \in {-w - ClockRange, -w, -w + ClockRange}
    BY <1>3, <1>4, Sizes
  <1>6. TimeTrue(p)'
    BY <1>1, <1>2, <1>5, Sizes DEF TimeTrue
  <1> QED BY <1>1, <1>2, <1>4, <1>6, Sizes

(* The schedule that an acceptable request leaves behind.                   *)
LEMMA RequestedSchedule ==
    ASSUME TypeOK, NEW p \in Pgns, NEW i, NEW o, Acceptable(i, o)
    PROVE  LET r == Requested(p, i, o)
           IN  /\ r \in [interval : MinInterval .. MaxInterval, offset : 0 .. MaxOffset,
                         nextSend : 0 .. ClockRange - 1, enabled : BOOLEAN]
               /\ r.nextSend = Wrap(now + r.offset)
  <1> DEFINE s == schedule[p]
             base == CASE i = Keep -> s
                       [] i = Restore -> [s EXCEPT !.interval = DefaultInterval,
                                                   !.offset = DefaultOffset[p],
                                                   !.enabled = TRUE]
                       [] i = Off -> [s EXCEPT !.enabled = FALSE]
                       [] OTHER -> [s EXCEPT !.interval = i, !.enabled = TRUE]
             offset == IF o = Keep THEN base.offset ELSE o
  <1>1. s \in [interval : MinInterval .. MaxInterval, offset : 0 .. MaxOffset,
               nextSend : 0 .. ClockRange - 1, enabled : BOOLEAN]
    BY PgnTypes
  <1>2. base \in [interval : MinInterval .. MaxInterval, offset : 0 .. MaxOffset,
                  nextSend : 0 .. ClockRange - 1, enabled : BOOLEAN]
    <2> HIDE DEF s
    <2>1. DefaultInterval \in MinInterval .. MaxInterval /\ DefaultOffset[p] \in 0 .. MaxOffset
      BY N2kScheduleAssumption
    <2>2. i \in {Keep, Restore, Off} \/ i \in MinInterval .. MaxInterval
      BY DEF Acceptable
    <2>3. CASE i = Keep
      <3>1. base = s
        BY <2>3 DEF Keep, Restore, Off
      <3> HIDE DEF base
      <3> QED BY <1>1, <2>3, <3>1
    <2>4. CASE i # Keep /\ i = Restore
      <3>1. base = [s EXCEPT !.interval = DefaultInterval, !.offset = DefaultOffset[p],
                                 !.enabled = TRUE]
        BY <2>4 DEF Keep, Restore, Off
      <3> HIDE DEF base
      <3> QED BY <1>1, <2>1, <2>4, <3>1
    <2>5. CASE i # Keep /\ i # Restore /\ i = Off
      <3>1. base = [s EXCEPT !.enabled = FALSE]
        BY <2>5 DEF Keep, Restore, Off
      <3> HIDE DEF base
      <3> QED BY <1>1, <2>5, <3>1
    <2>6. CASE i \notin {Keep, Restore, Off}
      <3>1. base = [s EXCEPT !.interval = i, !.enabled = TRUE]
        BY <2>6 DEF Keep, Restore, Off
      <3> HIDE DEF base
      <3> QED BY <1>1, <2>2, <2>6, <3>1
    <2> QED BY <2>2, <2>3, <2>4, <2>5, <2>6
  <1>3. offset \in 0 .. MaxOffset
    BY <1>2 DEF Acceptable
  <1>4. Wrap(now + offset) \in 0 .. ClockRange - 1
    <2> HIDE DEF offset
    <2>1. offset \in 0 .. ClockRange /\ now \in 0 .. ClockRange - 1
      BY <1>3, Sizes DEF TypeOK
    <2> QED BY <2>1, WrapAhead
  <1>5. Requested(p, i, o) = [base EXCEPT !.offset = offset, !.nextSend = Wrap(now + offset)]
    BY DEF Requested
  <1> HIDE DEF base, offset
  <1> QED BY <1>2, <1>3, <1>4, <1>5

(* A group function sets a schedule anew.                                   *)
LEMMA RequestStep ==
    ASSUME IInv, NEW p \in Pgns, NEW i, NEW o, HandleRequest(p, i, o)
    PROVE  IInv'
  <1>1. TypeOK /\ at = "parse" /\ Acceptable(i, o)
    BY DEF IInv, NothingOverdue, HandleRequest
  <1>2. /\ schedule' = [schedule EXCEPT ![p] = Requested(p, i, o)]
        /\ arm' = [arm EXCEPT ![p] = Armed("request")]
        /\ UNCHANGED <<now, gnssValid, at, failed, served>>
    BY DEF HandleRequest
  <1>3. /\ schedule'[p] = Requested(p, i, o) /\ arm'[p] = Armed("request")
        /\ \A q \in Pgns \ {p} : schedule'[q] = schedule[q] /\ arm'[q] = arm[q]
    BY <1>1, <1>2 DEF TypeOK
  <1>4. /\ schedule'[p] \in [interval : MinInterval .. MaxInterval, offset : 0 .. MaxOffset,
                             nextSend : 0 .. ClockRange - 1, enabled : BOOLEAN]
        /\ schedule'[p].nextSend = Wrap(now + schedule'[p].offset)
    BY <1>1, <1>3, RequestedSchedule
  <1>5. /\ schedule'[p].offset \in 0 .. HalfRange - 2
        /\ Wait(p)' = schedule'[p].offset
    BY <1>3, <1>4, Sizes DEF Wait, Armed
  <1>6. TimeTrue(p)' /\ arm'[p] \in [by : {"boot", "send", "request", "zero"},
                                     since : 0 .. ClockRange, lost : BOOLEAN]
    BY <1>1, <1>2, <1>3, <1>4, <1>5, SetAhead
  <1>7. ASSUME NEW q \in Pgns \ {p} PROVE TimeTrue(q)'
    BY <1>2, <1>3 DEF IInv, TimeTrue, Overdue, Wait
  <1>8. TypeOK'
    BY <1>1, <1>2, <1>3, <1>4, <1>6 DEF TypeOK
  <1>9. NothingOverdue'
    BY <1>1, <1>2, <1>8 DEF NothingOverdue
  <1> QED BY <1>6, <1>7, <1>9 DEF IInv

-----------------------------------------------------------------------------
(* A next time that is not lost lies ahead of the clock, for the code's     *)
(* comparison, exactly until it has been waited for.                        *)
LEMMA BeforeIsEarly ==
    ASSUME TypeOK, NEW p \in Pgns, TimeTrue(p), arm[p].by # "boot", ~arm[p].lost
    PROVE  IsTimeBefore(now, schedule[p].nextSend) <=> Overdue(p) <= 0
  <1> DEFINE next == schedule[p].nextSend
             late == Overdue(p)
  <1>1. /\ now \in 0 .. ClockRange - 1 /\ next \in 0 .. ClockRange - 1
        /\ Wait(p) \in 0 .. HalfRange - 2 /\ arm[p].since \in 0 .. ClockRange
        /\ late = arm[p].since - Wait(p)
    BY PgnTypes
  <1>2. /\ now - next \in {late - ClockRange, late, late + ClockRange}
        /\ late <= HalfRange + 1
    BY <1>1, Sizes DEF TimeTrue
  <1>3. IsTimeBefore(now, next) <=>
            (IF next >= now THEN next - now ELSE ClockRange - (now - next)) < HalfRange - 1
    BY <1>1, Before
  <1> HIDE DEF next, late
  <1>4. late \in -(HalfRange - 2) .. HalfRange + 1
    BY <1>1, <1>2, Sizes
  <1>5. IsTimeBefore(now, next) <=> late <= 0
    <2>1. CASE late <= 0
      BY <1>1, <1>2, <1>3, <1>4, <2>1, Sizes
    <2>2. CASE late > 0
      BY <1>1, <1>2, <1>3, <1>4, <2>2, Sizes
    <2> QED BY <1>4, <2>1, <2>2
  <1> QED BY <1>5 DEF next, late

(* A schedule that gets its first next time is not due.                     *)
LEMMA StartsNotDue ==
    ASSUME TypeOK, NEW p \in Pgns, Starts(p)
    PROVE  p \notin Due
  <1> DEFINE w == schedule[p].offset
  <1>1. /\ schedule[p] \in [interval : MinInterval .. MaxInterval, offset : 0 .. MaxOffset,
                             nextSend : 0 .. ClockRange - 1, enabled : BOOLEAN]
        /\ w \in 0 .. HalfRange - 2 /\ now \in 0 .. ClockRange - 1
    BY PgnTypes
  <1>2. Started(p).nextSend = Wrap(now + w)
    BY <1>1 DEF Started
  <1> HIDE DEF w
  <1>3. /\ Wrap(now + w) = IF now + w < ClockRange THEN now + w ELSE now + w - ClockRange
        /\ Wrap(now + w) \in 0 .. ClockRange - 1
    <2>1. w \in 0 .. ClockRange
      BY <1>1, Sizes
    <2> QED BY <1>1, <2>1, WrapAhead
  <1>4. IsTimeBefore(now, Wrap(now + w))
    <2>1. IsTimeBefore(now, Wrap(now + w)) <=>
              (IF Wrap(now + w) >= now THEN Wrap(now + w) - now
               ELSE ClockRange - (now - Wrap(now + w))) < HalfRange - 1
      BY <1>1, <1>3, Before
    <2> QED BY <1>1, <1>3, <2>1, Sizes
  <1> QED BY <1>2, <1>4 DEF Due

(* What is due was waited for.                                              *)
LEMMA DueWaited ==
    ASSUME IInv, NEW p \in Due
    PROVE  arm[p].since >= Wait(p)
  <1>1. TypeOK /\ p \in Pgns /\ schedule[p].enabled /\ TimeTrue(p)
    BY DEF IInv, NothingOverdue, Due
  <1>2. ~Starts(p)
    BY <1>1, StartsNotDue
  <1>3. arm[p].by # "boot"
    BY <1>1, <1>2 DEF TimeTrue, Starts
  <1>4. ~IsTimeBefore(now, schedule[p].nextSend)
    BY <1>2 DEF Due, Started
  <1>5. /\ Wait(p) \in 0 .. HalfRange - 2 /\ arm[p].since \in 0 .. ClockRange
        /\ Overdue(p) = arm[p].since - Wait(p)
    BY <1>1, PgnTypes
  <1>6. CASE arm[p].lost
    <2>1. Overdue(p) > HalfRange + 1
      BY <1>1, <1>6 DEF TimeTrue
    <2> QED BY <1>5, <2>1, Sizes
  <1>7. CASE ~arm[p].lost
    <2>1. ~(Overdue(p) <= 0)
      BY <1>1, <1>3, <1>4, <1>7, BeforeIsEarly
    <2> QED BY <1>5, <2>1, Sizes
  <1> QED BY <1>6, <1>7

(* A callback with data sends what the bus takes.                           *)
LEMMA SendStep ==
    ASSUME IInv, NEW taken, SendDue(taken)
    PROVE  IInv'
  <1>1. TypeOK /\ taken \subseteq Due /\ Due \subseteq Pgns
    BY DEF IInv, NothingOverdue, SendDue, Due
  <1>2. /\ schedule' = [p \in Pgns |-> IF p \in taken THEN Sent(p) ELSE Started(p)]
        /\ arm' = [p \in Pgns |-> IF p \in taken THEN Armed("send")
                                  ELSE IF Starts(p) THEN Armed("zero")
                                  ELSE arm[p]]
        /\ failed' = Due \ taken /\ served' = TRUE
        /\ at' = "idle" /\ now' = now /\ gnssValid' = gnssValid
    BY DEF SendDue
  <1>3. ASSUME NEW p \in Pgns
        PROVE  /\ schedule'[p] \in [interval : MinInterval .. MaxInterval,
                                    offset : 0 .. MaxOffset,
                                    nextSend : 0 .. ClockRange - 1, enabled : BOOLEAN]
               /\ arm'[p] \in [by : {"boot", "send", "request", "zero"},
                               since : 0 .. ClockRange, lost : BOOLEAN]
               /\ TimeTrue(p)'
               /\ schedule'[p].enabled /\ p \notin failed' /\ ~arm'[p].lost
                      => Overdue(p)' <= 0
    <2>1. /\ schedule[p] \in [interval : MinInterval .. MaxInterval, offset : 0 .. MaxOffset,
                              nextSend : 0 .. ClockRange - 1, enabled : BOOLEAN]
          /\ arm[p] \in [by : {"boot", "send", "request", "zero"},
                         since : 0 .. ClockRange, lost : BOOLEAN]
          /\ schedule[p].interval \in 0 .. HalfRange - 2
          /\ schedule[p].offset \in 0 .. HalfRange - 2
      BY <1>1, PgnTypes
    <2>2. CASE p \in taken
      <3>1. schedule'[p] = Sent(p) /\ arm'[p] = Armed("send")
        BY <1>2, <2>2
      <3>2. /\ schedule'[p].nextSend = Wrap(now + schedule[p].interval)
            /\ schedule'[p].interval = schedule[p].interval
        BY <2>1, <3>1 DEF Sent
      <3>3. Wait(p)' = schedule[p].interval
        BY <3>1, <3>2 DEF Wait, Armed
      <3>4. /\ TimeTrue(p)' /\ Overdue(p)' <= 0
            /\ arm'[p] \in [by : {"boot", "send", "request", "zero"},
                            since : 0 .. ClockRange, lost : BOOLEAN]
            /\ schedule'[p].nextSend \in 0 .. ClockRange - 1
        BY <1>1, <1>2, <2>1, <3>1, <3>2, <3>3, SetAhead
      <3>5. Wrap(now + schedule[p].interval) \in 0 .. ClockRange - 1
        BY <3>2, <3>4
      <3>6. schedule'[p] \in [interval : MinInterval .. MaxInterval, offset : 0 .. MaxOffset,
                              nextSend : 0 .. ClockRange - 1, enabled : BOOLEAN]
        BY <2>1, <3>1, <3>5 DEF Sent
      <3> QED BY <3>4, <3>6
    <2>3. CASE p \notin taken /\ Starts(p)
      <3>1. /\ schedule'[p] = [schedule[p] EXCEPT !.nextSend = Wrap(now + schedule[p].offset)]
            /\ arm'[p] = Armed("zero")
        BY <1>2, <2>3 DEF Started
      <3>2. /\ schedule'[p].nextSend = Wrap(now + schedule[p].offset)
            /\ schedule'[p].offset = schedule[p].offset
        BY <2>1, <3>1
      <3>3. Wait(p)' = schedule[p].offset
        BY <3>1, <3>2 DEF Wait, Armed
      <3>4. /\ TimeTrue(p)' /\ Overdue(p)' <= 0
            /\ arm'[p] \in [by : {"boot", "send", "request", "zero"},
                            since : 0 .. ClockRange, lost : BOOLEAN]
            /\ schedule'[p].nextSend \in 0 .. ClockRange - 1
        BY <1>1, <1>2, <2>1, <3>1, <3>2, <3>3, SetAhead
      <3>5. Wrap(now + schedule[p].offset) \in 0 .. ClockRange - 1
        BY <3>2, <3>4
      <3>6. schedule'[p] \in [interval : MinInterval .. MaxInterval, offset : 0 .. MaxOffset,
                              nextSend : 0 .. ClockRange - 1, enabled : BOOLEAN]
        BY <2>1, <3>1, <3>5
      <3> QED BY <3>4, <3>6
    <2>4. CASE p \notin taken /\ ~Starts(p)
      <3>1. schedule'[p] = schedule[p] /\ arm'[p] = arm[p] /\ TimeTrue(p)
        BY <1>2, <2>4 DEF Started, IInv
      <3>2. Wait(p)' = Wait(p) /\ Overdue(p)' = Overdue(p)
        BY <3>1 DEF Wait, Overdue
      <3>3. TimeTrue(p)'
        BY <1>2, <3>1, <3>2 DEF TimeTrue
      <3>4. ASSUME schedule[p].enabled, p \notin Due \ taken, ~arm[p].lost
            PROVE  Overdue(p) <= 0
        <4>1. p \notin Due
          BY <2>4, <3>4
        <4>2. IsTimeBefore(now, schedule[p].nextSend)
          BY <2>4, <3>4, <4>1 DEF Due, Started
        <4>3. arm[p].by # "boot"
          BY <2>4, <3>1 DEF TimeTrue, Starts
        <4> QED BY <1>1, <3>1, <3>4, <4>2, <4>3, BeforeIsEarly
      <3> QED BY <1>2, <2>1, <3>1, <3>2, <3>3, <3>4
    <2> QED BY <2>2, <2>3, <2>4
  <1>4. TypeOK'
    BY <1>1, <1>2, <1>3 DEF TypeOK
  <1>5. NothingOverdue'
    BY <1>3, <1>4 DEF NothingOverdue
  <1> QED BY <1>3, <1>5 DEF IInv

-----------------------------------------------------------------------------
(* The invariant holds in every state.                                      *)
LEMMA Invariance == Spec => []IInv
  <1>1. Init => IInv
    <2> SUFFICES ASSUME Init PROVE IInv
      OBVIOUS
    <2>1. ASSUME NEW p \in Pgns
          PROVE  /\ schedule[p] \in [interval : MinInterval .. MaxInterval,
                                    offset : 0 .. MaxOffset,
                                    nextSend : 0 .. ClockRange - 1, enabled : BOOLEAN]
                 /\ schedule[p].enabled /\ schedule[p].nextSend = 0
                 /\ arm[p] \in [by : {"boot", "send", "request", "zero"},
                                since : 0 .. ClockRange, lost : BOOLEAN]
                 /\ arm[p].by = "boot" /\ arm[p].since = 0 /\ arm[p].lost = FALSE
      <3>1. /\ 0 \in 0 .. ClockRange - 1 /\ 0 \in 0 .. ClockRange
            /\ DefaultInterval \in MinInterval .. MaxInterval
            /\ DefaultOffset[p] \in 0 .. MaxOffset
        BY Sizes, N2kScheduleAssumption
      <3>2. schedule[p] = [interval |-> DefaultInterval, offset |-> DefaultOffset[p],
                           nextSend |-> 0, enabled |-> TRUE]
        BY DEF Init
      <3>3. arm[p] = [by |-> "boot", since |-> 0, lost |-> FALSE]
        BY DEF Init, Armed
      <3>4. /\ arm[p] \in [by : {"boot", "send", "request", "zero"},
                           since : 0 .. ClockRange, lost : BOOLEAN]
            /\ arm[p].by = "boot" /\ arm[p].since = 0 /\ arm[p].lost = FALSE
        BY <3>1, <3>3
      <3> QED BY <3>1, <3>2, <3>4
    <2>2. TypeOK
      BY <2>1 DEF Init, TypeOK
    <2>3. ASSUME NEW p \in Pgns PROVE TimeTrue(p)
      <3>1. arm[p].since = 0 /\ arm[p].by = "boot" /\ arm[p].lost = FALSE
        BY <2>1
      <3>2. Wait(p) \in 0 .. HalfRange - 2 /\ Overdue(p) = 0 - Wait(p)
        BY <2>2, <3>1, PgnTypes
      <3>3. at = "idle" /\ schedule[p].enabled /\ schedule[p].nextSend = 0
        BY <2>1 DEF Init
      <3>4. arm[p].lost <=> Overdue(p) > HalfRange + 1
        BY <3>1, <3>2, Sizes
      <3> QED BY <3>1, <3>3, <3>4 DEF TimeTrue
    <2> QED BY <2>2, <2>3 DEF Init, IInv, NothingOverdue
  <1>2. IInv /\ [Next]_vars => IInv'
    <2> SUFFICES ASSUME IInv, [Next]_vars PROVE IInv'
      OBVIOUS
    <2>1. CASE \E d \in 1 .. MaxDelay : Tick(d)
      BY <2>1, TickStep
    <2>2. CASE \E p \in Pgns, i \in {Keep, Restore, Off} \union Asked,
                 o \in {Keep} \union AskedOffsets : HandleRequest(p, i, o)
      BY <2>2, RequestStep
    <2>3. CASE \E taken \in SUBSET Pgns : SendDue(taken)
      BY <2>3, SendStep
    <2>4. CASE NothingToSend
      <3>1. TypeOK'
        BY <2>4 DEF NothingToSend, IInv, NothingOverdue, TypeOK
      <3>2. /\ UNCHANGED <<now, schedule, arm>> /\ failed' = failed
            /\ at' = at \/ at' = "idle"
            /\ at' = "idle" /\ served' => served /\ at = "idle"
        BY <2>4 DEF NothingToSend
      <3> QED BY <3>1, <3>2, QuietStep
    <2>5. CASE FixChange
      <3>1. TypeOK'
        BY <2>5 DEF FixChange, IInv, NothingOverdue, TypeOK
      <3>2. /\ UNCHANGED <<now, schedule, arm>> /\ failed' = failed
            /\ at' = at \/ at' = "idle"
            /\ at' = "idle" /\ served' => served /\ at = "idle"
        BY <2>5 DEF FixChange
      <3> QED BY <3>1, <3>2, QuietStep
    <2>6. CASE UNCHANGED vars
      BY <2>6, QuietStep DEF vars, IInv, NothingOverdue, TypeOK
    <2> QED BY <2>1, <2>2, <2>3, <2>4, <2>5, <2>6 DEF Next, OnEvent
  <1> QED BY <1>1, <1>2, PTL DEF Spec

(* Wherever the clock wraps, whatever was asked for and however long the    *)
(* fix was lost: a callback that had data leaves no PGN overdue that is on  *)
(* and that the bus took, unless half the clock's range went by without one.*)
THEOREM CallbacksLeaveNothingOverdue == Spec => []NothingOverdue
  <1>1. IInv => NothingOverdue
    BY DEF IInv
  <1> QED BY <1>1, Invariance, PTL

(* And no message goes out before its time.                                 *)
THEOREM PeriodsKept == Spec => PeriodKept
  <1>1. IInv /\ [Next]_vars =>
            \A p \in Pgns : at = "parse" /\ JustSent(p)' => arm[p].since >= Wait(p)
    <2> SUFFICES ASSUME IInv, [Next]_vars, NEW p \in Pgns, at = "parse", JustSent(p)'
                 PROVE  arm[p].since >= Wait(p)
      OBVIOUS
    <2>1. /\ TypeOK /\ TimeTrue(p)
          /\ at' = "idle" /\ arm'[p].by = "send" /\ arm'[p].since = 0
      BY DEF IInv, NothingOverdue, JustSent
    <2>2. ~(arm[p].by = "send" /\ arm[p].since = 0)
      BY <2>1 DEF TimeTrue
    <2>3. CASE \E taken \in SUBSET Pgns : SendDue(taken)
      <3> PICK taken \in SUBSET Pgns : SendDue(taken)
        BY <2>3
      <3>1. taken \subseteq Due
        BY DEF SendDue
      <3>2. p \in taken
        BY <2>1, <2>2 DEF SendDue, Armed
      <3> QED BY <3>1, <3>2, DueWaited
    <2>4. CASE NothingToSend
      BY <2>1, <2>2, <2>4 DEF NothingToSend
    <2>5. CASE UNCHANGED vars
      BY <2>1, <2>5 DEF vars
    <2>6. CASE \E d \in 1 .. MaxDelay : Tick(d)
      BY <2>6 DEF Tick
    <2>7. CASE \E q \in Pgns, i \in {Keep, Restore, Off} \union Asked,
                 o \in {Keep} \union AskedOffsets : HandleRequest(q, i, o)
      BY <2>1, <2>7 DEF HandleRequest
    <2>8. CASE FixChange
      BY <2>8 DEF FixChange
    <2> QED BY <2>3, <2>4, <2>5, <2>6, <2>7, <2>8 DEF Next, OnEvent
  <1>2. IInv /\ [Next]_vars =>
            [\A p \in Pgns : at = "parse" /\ JustSent(p)' => arm[p].since >= Wait(p)]_vars
    BY <1>1
  <1> QED BY <1>2, Invariance, PTL DEF Spec, PeriodKept
============================================================================
