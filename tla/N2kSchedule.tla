----------------------------- MODULE N2kSchedule -----------------------------
(***************************************************************************)
(* When the gateway sends its GNSS messages on the NMEA2000 bus.           *)
(*                                                                         *)
(* Every PGN has a schedule: a period, an offset, the time of its next     *)
(* message and whether it is on.  A timer runs onEvent every 10 ms (later, *)
(* when the timer task is busy: callbacks that were missed are skipped).   *)
(* The callback first lets the bus library parse what came in, which calls *)
(* HandleRequest for every group function that asks for another period or  *)
(* offset, and then sends what is due.  Nothing is sent, and no schedule   *)
(* moves, while the receiver has no fix; a message that the bus does not   *)
(* take is due again at the next callback.                                 *)
(*                                                                         *)
(* Time is counted in callback periods and wraps at ClockRange, as         *)
(* N2kMillis does at 2^32.  Zero is also how a schedule says that it has   *)
(* no next time yet, whatever the clock meant by it.                       *)
(***************************************************************************)
EXTENDS Integers

CONSTANTS Pgns,
          ClockRange,        (* N2kMillis counts modulo this                *)
          DefaultInterval, DefaultOffset,
          MinInterval, MaxInterval, MaxOffset,
          Asked,             (* periods that requests ask for               *)
          AskedOffsets,      (* offsets that requests ask for               *)
          MaxDelay           (* bound: between two runs of the callback     *)

Keep == -1                   (* N2k_KEEP_TRANSMISSION_INTERVAL, and 0xffff  *)
                             (* for an offset                               *)
Restore == -2                (* N2k_RESTORE_TRANSMISSION_INTERVAL           *)
Off == 0
HalfRange == ClockRange \div 2

ASSUME N2kScheduleAssumption ==
    /\ ClockRange \in Nat /\ ClockRange % 2 = 0
    /\ MinInterval \in Nat \ {0} /\ MaxInterval \in Nat /\ MaxOffset \in Nat
    /\ DefaultInterval \in MinInterval .. MaxInterval
    /\ DefaultOffset \in [Pgns -> 0 .. MaxOffset]
    /\ MaxInterval < HalfRange - 1 /\ MaxOffset < HalfRange - 1
    /\ Asked \subseteq Nat /\ AskedOffsets \subseteq Nat
    /\ MaxDelay \in 1 .. HalfRange

VARIABLES
    now,        (* N2kMillis()                                              *)
    schedule,   (* txSchedules                                              *)
    gnssValid,  (* ReadGatewayGnssData and BuildGatewayN2kMessages succeed  *)
    at,         (* "idle", or "parse": the callback is in ParseMessages     *)
    failed,     (* history: PGNs the bus did not take in the last callback  *)
    served,     (* history: the last callback had data to send              *)
    arm         (* history: what set each next time, how long ago, and      *)
                (* whether it is so long past that it looks like the future *)

vars == <<now, schedule, gnssValid, at, failed, served, arm>>

Wrap(t) == t % ClockRange

(* Slip: a comparison that forgets that the clock wraps.                    *)
IsTimeBeforeUnwrapped(t1, t2) == t1 < t2

(* N2kIsTimeBefore: also true of equal times.                               *)
IsTimeBefore(t1, t2) == Wrap(t2 - t1) < HalfRange - 1

Armed(by) == [by |-> by, since |-> 0, lost |-> FALSE]

(* What the next time was set ahead of the clock, and how far past it is.   *)
Wait(p) == IF arm[p].by = "send" THEN schedule[p].interval ELSE schedule[p].offset
Overdue(p) == arm[p].since - Wait(p)

Init ==
    /\ now \in 0 .. ClockRange - 1
    /\ schedule = [p \in Pgns |-> [interval |-> DefaultInterval, offset |-> DefaultOffset[p],
                                   nextSend |-> 0, enabled |-> TRUE]]
    /\ gnssValid = FALSE
    /\ at = "idle"
    /\ failed = {} /\ served = FALSE
    /\ arm = [p \in Pgns |-> Armed("boot")]

-----------------------------------------------------------------------------

(* Time passes and the timer's callback begins.                             *)
Aged(p, d) ==
    LET since == IF arm[p].since + d > ClockRange THEN ClockRange ELSE arm[p].since + d
    IN  [arm[p] EXCEPT !.since = since,
                       !.lost = @ \/ since - Wait(p) > HalfRange + 1]

Tick(d) ==
    /\ at = "idle"
    /\ now' = Wrap(now + d)
    /\ arm' = [p \in Pgns |-> Aged(p, d)]
    /\ at' = "parse"
    /\ failed' = {}
    /\ UNCHANGED <<schedule, gnssValid, served>>

(* GetRequestGroupFunctionTransmissionOrPriorityErrorCode of the library.   *)
Acceptable(i, o) ==
    /\ i \in {Keep, Restore, Off} \/ i \in MinInterval .. MaxInterval
    /\ o = Keep \/ o \in 0 .. MaxOffset

(* ApplyRequest: what a schedule becomes.                                   *)
Requested(p, i, o) ==
    LET s == schedule[p]
        base == CASE i = Keep -> s
                  [] i = Restore -> [s EXCEPT !.interval = DefaultInterval,
                                              !.offset = DefaultOffset[p],
                                              !.enabled = TRUE]
                  [] i = Off -> [s EXCEPT !.enabled = FALSE]
                  [] OTHER -> [s EXCEPT !.interval = i, !.enabled = TRUE]
        offset == IF o = Keep THEN base.offset ELSE o
    IN  [base EXCEPT !.offset = offset, !.nextSend = Wrap(now + offset)]

(* A request that is not acceptable, or has parameters, is answered and     *)
(* changes nothing.                                                         *)
HandleRequest(p, i, o) ==
    /\ at = "parse"
    /\ Acceptable(i, o)
    /\ schedule' = [schedule EXCEPT ![p] = Requested(p, i, o)]
    /\ arm' = [arm EXCEPT ![p] = Armed("request")]
    /\ UNCHANGED <<now, gnssValid, at, failed, served>>

(* A schedule without a next time gets one (which may be zero again).       *)
Starts(p) == schedule[p].enabled /\ schedule[p].nextSend = 0

Started(p) ==
    IF Starts(p)
    THEN [schedule[p] EXCEPT !.nextSend = Wrap(now + schedule[p].offset)]
    ELSE schedule[p]

Due == {p \in Pgns : schedule[p].enabled /\ ~IsTimeBefore(now, Started(p).nextSend)}

(* Slip: the next time counts on from the last one, not from the clock.     *)
SentFromSchedule(p) ==
    [schedule[p] EXCEPT !.nextSend = Wrap(@ + schedule[p].interval)]

Sent(p) == [schedule[p] EXCEPT !.nextSend = Wrap(now + schedule[p].interval)]

(* Slip: the time moves on although the bus did not take the message.       *)
SendDueForgetsFailure(taken) ==
    /\ at = "parse" /\ gnssValid
    /\ taken \subseteq Due
    /\ schedule' = [p \in Pgns |-> IF p \in Due THEN Sent(p) ELSE Started(p)]
    /\ arm' = [p \in Pgns |-> IF p \in taken THEN Armed("send")
                              ELSE IF Starts(p) THEN Armed("zero")
                              ELSE arm[p]]
    /\ failed' = Due \ taken /\ served' = TRUE
    /\ at' = "idle"
    /\ UNCHANGED <<now, gnssValid>>

(* sendDueGnssMessages: the bus takes some of what is due.                  *)
SendDue(taken) ==
    /\ at = "parse" /\ gnssValid
    /\ taken \subseteq Due
    /\ schedule' = [p \in Pgns |-> IF p \in taken THEN Sent(p) ELSE Started(p)]
    /\ arm' = [p \in Pgns |-> IF p \in taken THEN Armed("send")
                              ELSE IF Starts(p) THEN Armed("zero")
                              ELSE arm[p]]
    /\ failed' = Due \ taken /\ served' = TRUE
    /\ at' = "idle"
    /\ UNCHANGED <<now, gnssValid>>

(* The early return without data.                                           *)
NothingToSend ==
    /\ at = "parse" /\ ~gnssValid
    /\ served' = FALSE
    /\ at' = "idle"
    /\ UNCHANGED <<now, schedule, gnssValid, failed, arm>>

(* The receiver gets or loses its fix, the time or the date.                *)
FixChange ==
    /\ at = "idle"
    /\ gnssValid' = ~gnssValid
    /\ UNCHANGED <<now, schedule, at, failed, served, arm>>

OnEvent == NothingToSend \/ \E taken \in SUBSET Pgns : SendDue(taken)

Next ==
    \/ \E d \in 1 .. MaxDelay : Tick(d)
    \/ \E p \in Pgns, i \in {Keep, Restore, Off} \union Asked, o \in {Keep} \union AskedOffsets :
           HandleRequest(p, i, o)
    \/ OnEvent
    \/ FixChange

Spec == Init /\ [][Next]_vars

(* The timer runs and its callback ends.                                    *)
FairSpec == Spec /\ WF_vars(\E d \in 1 .. MaxDelay : Tick(d)) /\ WF_vars(OnEvent)
-----------------------------------------------------------------------------

(* Type correctness of the schedules and the histories.                     *)
TypeOK ==
    /\ now \in 0 .. ClockRange - 1
    /\ schedule \in [Pgns -> [interval : MinInterval .. MaxInterval, offset : 0 .. MaxOffset,
                              nextSend : 0 .. ClockRange - 1, enabled : BOOLEAN]]
    /\ gnssValid \in BOOLEAN /\ served \in BOOLEAN
    /\ at \in {"idle", "parse"}
    /\ failed \subseteq Pgns
    /\ arm \in [Pgns -> [by : {"boot", "send", "request", "zero"},
                         since : 0 .. ClockRange, lost : BOOLEAN]]

(* The callback that has just ended sent p.                                 *)
JustSent(p) == at = "idle" /\ arm[p].by = "send" /\ arm[p].since = 0

(* A callback that had data leaves no PGN overdue that is on and that the   *)
(* bus took, wherever the clock wraps, whatever was asked for and however   *)
(* long the fix was lost, except when it was lost for half the clock's      *)
(* range (24.8 days): then the next time looks like one to come, and the    *)
(* PGN stays silent until the clock has come round to it.                   *)
NothingOverdue ==
    /\ TypeOK
    /\ at = "idle" /\ served =>
           \A p \in Pgns : schedule[p].enabled /\ p \notin failed /\ ~arm[p].lost
                               => Overdue(p) <= 0

(* No message goes out before the period since the last one, or the offset  *)
(* since a request or the start, has passed: the clock's wrap, failures and *)
(* outages delay messages and never double them.  (Where the next time      *)
(* happens to be zero, it is set anew from the offset: arm.by = "zero".)    *)
PeriodKept ==
    [][\A p \in Pgns : at = "parse" /\ JustSent(p)' => arm[p].since >= Wait(p)]_vars

(* However long the fix was lost and wherever the clock stands, a PGN that  *)
(* stays on is sent again and again, once the fix stays, the bus takes      *)
(* messages, and requests end (a peer that keeps asking for an offset       *)
(* longer than its own pauses silences the PGN).                            *)
SendingResumes ==
    \A p \in Pgns :
        /\ <>[](schedule[p].enabled /\ gnssValid /\ p \notin failed)
        /\ <>[][at' = "parse" /\ at = "parse" => arm'[p] = arm[p]]_vars
        => []<>JustSent(p)

-----------------------------------------------------------------------------
(* What makes them inductive: the histories tell the truth about the clock. *)
(* A next time that is not lost lies where its history says, up to one lap  *)
(* of the clock; the time of the first callback is still to be set.         *)
TimeTrue(p) ==
    /\ arm[p].by = "boot" => schedule[p].enabled /\ schedule[p].nextSend = 0
    /\ arm[p].lost <=> Overdue(p) > HalfRange + 1
    /\ \/ arm[p].by = "boot" \/ arm[p].lost
       \/ now - schedule[p].nextSend \in
              {Overdue(p) - ClockRange, Overdue(p), Overdue(p) + ClockRange}
    /\ at = "parse" => arm[p].by = "request" \/ arm[p].since >= 1

(* The inductive invariant.                                                 *)
IInv == NothingOverdue /\ \A p \in Pgns : TimeTrue(p)
=============================================================================
