--------------------------- MODULE UnicoreCommand ---------------------------
(***************************************************************************)
(* The command slot of UnicoreGNSSLibrary: one task sends a command to the *)
(* receiver and sleeps on a binary semaphore; the unicore_rx task parses   *)
(* what the receiver says and completes whatever command is pending.       *)
(*                                                                         *)
(* The client task runs sendCommandAndWait, split where the other task can *)
(* observe it: inside the critical section that arms the slot (rx reads    *)
(* the slot without the mutex), between unlocking and transmitting, while  *)
(* it sleeps, and around completePendingCommand after a timeout.  The rx   *)
(* task is split at its unlocked test, its unlocked match, the locked      *)
(* completion, the xSemaphoreGive after it and the callback after that.    *)
(*                                                                         *)
(* A command stands for its first word, which is all either side matches.  *)
(* The receiver answers a command with an acknowledgement ("ack", whose    *)
(* text has OK in it), for a query followed by the sentence that carries   *)
(* the answer ("data"), or with an "error"; commands and sentences may be  *)
(* lost, and an answer may come at any time, after the client stopped      *)
(* waiting too.  A sentence damaged on the line is given out all the same  *)
(* (parserBadChecksumCallback answers that it is good, see MessageParser): *)
(* the matching then either still finds the words it looks for, as in an   *)
(* intact one, or finds none of them, as if it were lost.  Damage that     *)
(* turns the words of one answer into those of another is left out.        *)
(***************************************************************************)
EXTENDS Integers, Sequences, FiniteSets

CONSTANTS Commands,  (* first words of the commands the firmware sends      *)
          Expected,  (* those sent with an expectedResponse                 *)
          Queries,   (* those whose expectedResponse only a data line has   *)
          MaxCalls   (* bound: calls of sendCommandAndWait in a behaviour   *)

ASSUME UnicoreCommandAssumption ==
    /\ Queries \subseteq Expected /\ Expected \subseteq Commands
    /\ MaxCalls \in Nat
    /\ "none" \notin Commands

NoCommand == "none"
Results == {"waiting", "ok", "error", "timeout"}
Calls == 1 .. MaxCalls

VARIABLES
    commandPending,   (* _commandPending                                    *)
    pendingCommand,   (* _pendingCommand                                    *)
    pendingExpected,  (* _pendingExpectedResponse is not empty              *)
    lastResult,       (* _lastCommandResult                                 *)
    done,             (* _commandDoneSemaphore                              *)
    client,           (* where the calling task is                          *)
    rx,               (* where the rx task is, with its sentence and verdict *)
    wire,             (* commands on their way to the receiver              *)
    line,             (* sentences on their way to the rx task              *)
    call,             (* history: number of the current or last call        *)
    clean,            (* history: nothing of an older call was under way    *)
    accepted,         (* history: the calls the receiver carried out        *)
    returned,         (* history: the last call that returned, its result   *)
    told              (* history: the call whose data the callback has seen *)

slot == <<commandPending, pendingCommand, pendingExpected, lastResult>>
link == <<wire, line, accepted>>
vars == <<slot, done, client, rx, link, call, clean, returned, told>>

Sentences == [call : Calls, command : Commands, kind : {"ack", "data", "error"}]
RxIdle == [at |-> "idle"]

Init ==
    /\ commandPending = FALSE
    /\ pendingCommand = NoCommand
    /\ pendingExpected = FALSE
    /\ lastResult = "waiting"
    /\ done = 0
    /\ client = "idle"
    /\ rx = RxIdle
    /\ wire = <<>> /\ line = <<>>
    /\ call = 0 /\ clean = TRUE /\ accepted = {} /\ told = 0
    /\ returned = [call |-> 0, command |-> NoCommand, result |-> "timeout", clean |-> FALSE]

-----------------------------------------------------------------------------
(* The calling task: sendCommandAsync, then waitForCommandResponse.         *)

(* Nothing of an earlier call is left anywhere on the link.                 *)
Quiet == wire = <<>> /\ line = <<>> /\ rx = RxIdle

Return(number, command, result, wasClean) ==
    /\ returned' = [call |-> number, command |-> command, result |-> result,
                    clean |-> wasClean]
    /\ client' = "idle"

(* The slot is taken, or its mutex was not free within 50 ms: the call is   *)
(* rejected and nothing is sent.                                            *)
Rejected(c, result) ==
    /\ client = "idle" /\ call < MaxCalls
    /\ call' = call + 1
    /\ Return(call + 1, c, result, FALSE)
    /\ UNCHANGED <<slot, done, rx, link, clean, told>>

SendBusy(c) == commandPending /\ Rejected(c, "waiting")

SendLockTimeout(c) == rx.at = "complete" /\ Rejected(c, "timeout")

(* clearCommandResult, and the command's text copied into the slot.         *)
SendClear(c) ==
    /\ client = "idle" /\ call < MaxCalls
    /\ ~commandPending
    /\ call' = call + 1
    /\ clean' = Quiet
    /\ lastResult' = "waiting"
    /\ pendingCommand' = c
    /\ pendingExpected' = FALSE
    /\ client' = "arming"
    /\ UNCHANGED <<commandPending, done, rx, link, returned, told>>

(* Slip: the semaphore is not drained before the slot is armed.             *)
SendArmUndrained ==
    /\ client = "arming"
    /\ pendingExpected' = (pendingCommand \in Expected)
    /\ commandPending' = TRUE
    /\ client' = "transmit"
    /\ UNCHANGED <<pendingCommand, lastResult, done, rx, link, call, clean, returned, told>>

(* The expected text is copied, the semaphore drained, the slot armed and   *)
(* the mutex given back.                                                    *)
SendArm ==
    /\ client = "arming"
    /\ pendingExpected' = (pendingCommand \in Expected)
    /\ done' = 0
    /\ commandPending' = TRUE
    /\ client' = "transmit"
    /\ UNCHANGED <<pendingCommand, lastResult, rx, link, call, clean, returned, told>>

Transmit ==
    /\ client = "transmit"
    /\ wire' = Append(wire, [call |-> call, command |-> pendingCommand])
    /\ client' = "wait"
    /\ UNCHANGED <<slot, done, rx, line, accepted, call, clean, returned, told>>

(* xSemaphoreTake succeeded: whatever lastResult is now is the answer.      *)
WaitDone ==
    /\ client = "wait" /\ done = 1
    /\ done' = 0
    /\ Return(call, pendingCommand, lastResult, clean)
    /\ UNCHANGED <<slot, rx, link, call, clean, told>>

(* Slip: the wait has no time limit.                                        *)
WaitForever == FALSE /\ UNCHANGED vars

WaitTimeout ==
    /\ client = "wait" /\ done = 0
    /\ client' = "expired"
    /\ UNCHANGED <<slot, done, rx, link, call, clean, returned, told>>

(* Slip: an expired command is left in the slot.                            *)
ExpireKeepSlot ==
    /\ client = "expired"
    /\ lastResult' = "timeout"
    /\ client' = "drain"
    /\ UNCHANGED <<commandPending, pendingCommand, pendingExpected, done, rx, link,
                   call, clean, returned, told>>

(* completePendingCommand(TIMEOUT_RESPONSE), under the mutex.               *)
Expire ==
    /\ client = "expired"
    /\ lastResult' = "timeout"
    /\ commandPending' = FALSE
    /\ client' = "drain"
    /\ UNCHANGED <<pendingCommand, pendingExpected, done, rx, link, call, clean,
                   returned, told>>

(* It gives the semaphore itself; the caller then drains it.                *)
Drain ==
    /\ client = "drain"
    /\ done' = 0
    /\ Return(call, pendingCommand, "timeout", clean)
    /\ UNCHANGED <<slot, rx, link, call, clean, told>>

-----------------------------------------------------------------------------
(* The rx task: updateCommandResultFromSentence and what follows it.        *)

(* pendingExpectedMatches: only a query's text is missing from its own ack. *)
ContainsExpected(s) ==
    /\ pendingExpected
    /\ s.command = pendingCommand
    /\ pendingCommand \in Queries => s.kind = "data"

(* Without an expected text the ack of the pending command completes it,    *)
(* and so does any sentence with OK in it.                                  *)
AckOrGenericSuccess(s) == ~pendingExpected /\ s.kind = "ack"

Verdict(s) ==
    CASE s.kind = "error" -> "error"
      [] s.kind # "error" /\ (ContainsExpected(s) \/ AckOrGenericSuccess(s)) -> "ok"
      [] OTHER -> "none"

RxAt(at, s, verdict) == rx' = [at |-> at, sentence |-> s, verdict |-> verdict]

RxTake ==
    /\ rx.at = "idle" /\ line # <<>>
    /\ line' = Tail(line)
    /\ RxAt(IF commandPending /\ lastResult = "waiting" THEN "match" ELSE "callback",
            Head(line), "none")
    /\ UNCHANGED <<slot, done, client, wire, accepted, call, clean, returned, told>>

RxMatch ==
    /\ rx.at = "match"
    /\ RxAt(IF Verdict(rx.sentence) = "none" THEN "callback" ELSE "complete",
            rx.sentence, Verdict(rx.sentence))
    /\ UNCHANGED <<slot, done, client, link, call, clean, returned, told>>

(* completePendingCommand, under the mutex, which the arming client holds.  *)
RxComplete ==
    /\ rx.at = "complete" /\ client # "arming"
    /\ IF commandPending \/ rx.verdict # "ok"
         THEN lastResult' = rx.verdict /\ commandPending' = FALSE
         ELSE UNCHANGED <<lastResult, commandPending>>
    /\ RxAt("give", rx.sentence, rx.verdict)
    /\ UNCHANGED <<pendingCommand, pendingExpected, done, client, link, call, clean,
                   returned, told>>

RxGive ==
    /\ rx.at = "give"
    /\ done' = 1
    /\ RxAt("callback", rx.sentence, rx.verdict)
    /\ UNCHANGED <<slot, client, link, call, clean, returned, told>>

(* The nmea or hash callback; for a data sentence it stores the answer (the *)
(* callback of UnicoreUM980 keeps the mode the receiver reported).          *)
RxCallback ==
    /\ rx.at = "callback"
    /\ told' = IF rx.sentence.kind = "data" THEN rx.sentence.call ELSE told
    /\ rx' = RxIdle
    /\ UNCHANGED <<slot, done, client, link, call, clean, returned>>

-----------------------------------------------------------------------------
(* The receiver and the serial line, as the code counts on them.            *)

Answer(m, kind) == [call |-> m.call, command |-> m.command, kind |-> kind]

ReceiverAccepts ==
    /\ wire # <<>>
    /\ LET m == Head(wire) IN
         /\ line' = line \o <<Answer(m, "ack")>>
                         \o (IF m.command \in Queries THEN <<Answer(m, "data")>> ELSE <<>>)
         /\ accepted' = accepted \union {m.call}
    /\ wire' = Tail(wire)

ReceiverRejects ==
    /\ wire # <<>>
    /\ line' = Append(line, Answer(Head(wire), "error"))
    /\ wire' = Tail(wire)
    /\ UNCHANGED accepted

CommandLost ==
    /\ wire # <<>>
    /\ wire' = Tail(wire)
    /\ UNCHANGED <<line, accepted>>

(* Lost, or so damaged that none of the words looked for is left in it.     *)
SentenceLost ==
    /\ line # <<>>
    /\ line' = Tail(line)
    /\ UNCHANGED <<wire, accepted>>

Environment ==
    /\ ReceiverAccepts \/ ReceiverRejects \/ CommandLost \/ SentenceLost
    /\ UNCHANGED <<slot, done, client, rx, call, clean, returned, told>>

-----------------------------------------------------------------------------
Start == \E c \in Commands : SendBusy(c) \/ SendLockTimeout(c) \/ SendClear(c)

Client == SendArm \/ Transmit \/ WaitDone \/ WaitTimeout \/ Expire \/ Drain

Rx == RxTake \/ RxMatch \/ RxComplete \/ RxGive \/ RxCallback

Next == Start \/ Client \/ Rx \/ Environment

(* A calling task keeps running and its timeout runs out; nothing obliges   *)
(* the receiver to answer, the rx task to keep up or anyone to send more.   *)
Spec == Init /\ [][Next]_vars /\ WF_vars(Client)

-----------------------------------------------------------------------------
(* Every variable keeps its range; the done semaphore stays binary.         *)
TypeOK ==
    /\ commandPending \in BOOLEAN
    /\ pendingCommand \in Commands \union {NoCommand}
    /\ pendingExpected \in BOOLEAN
    /\ lastResult \in Results
    /\ done \in {0, 1}
    /\ client \in {"idle", "arming", "transmit", "wait", "expired", "drain"}
    /\ \/ rx = RxIdle
       \/ rx \in [at : {"match", "complete", "give", "callback"}, sentence : Sentences,
                  verdict : {"none", "ok", "error"}]
    /\ wire \in Seq([call : Calls, command : Commands])
    /\ line \in Seq(Sentences)
    /\ call \in 0 .. MaxCalls /\ told \in 0 .. MaxCalls
    /\ clean \in BOOLEAN
    /\ accepted \subseteq Calls
    /\ returned \in [call : 0 .. MaxCalls, command : Commands \union {NoCommand},
                     result : Results, clean : BOOLEAN]

(* A call that started with nothing of an older call under way returns the  *)
(* truth: OK only for a command the receiver carried out, ERROR only for    *)
(* one it did not, and never "still waiting" - whatever the two tasks'      *)
(* interleaving, stray semaphore gives and losses were before and since.    *)
CleanCallsSound ==
    returned.clean =>
        /\ returned.result = "ok" => returned.call \in accepted
        /\ returned.result = "error" => returned.call \notin accepted
        /\ returned.result # "waiting"

(* During and after such a call the slot is pending only while the client   *)
(* is on its way to wait for it or to give it up: such a call never leaves  *)
(* it to block later commands as "busy" with nobody to time it out.  (A     *)
(* call that met a late give can: it returns before its slot is freed.)     *)
CleanCallOwnsSlot ==
    /\ TypeOK
    /\ commandPending /\ clean => client \in {"transmit", "wait", "expired"}

(* A caller is never left asleep: each call returns, even if the receiver   *)
(* never answers and whatever the rx task is doing.                         *)
CallsReturn == (client # "idle") ~> (client = "idle")

(* What sendCommandAndWait says of itself: OK is a success of that command. *)
(* (A late answer to an earlier call breaks it.)                            *)
OkMeansAccepted == returned.result = "ok" => returned.call \in accepted

(* When a query returns OK its answer is there to be read.  The code does   *)
(* not keep it: the rx task wakes the caller before it runs the callback    *)
(* that stores the answer.                                                  *)
AnswerThere ==
    returned.result = "ok" /\ returned.command \in Queries => told >= returned.call
-----------------------------------------------------------------------------
(* What makes the two facts about clean calls inductive.                    *)

(* Calls are numbered in order; the receiver and the line know only of      *)
(* calls that were sent; a verdict is reached before it is stored.          *)
Numbered ==
    /\ accepted \subseteq 1 .. call
    /\ \A i \in 1 .. Len(wire) : wire[i].call <= call
    /\ returned.call <= call
    /\ client # "idle" => returned.call < call /\ pendingCommand \in Commands
    /\ rx.at = "complete" => rx.verdict # "none"

(* A command that was answered with an error is no longer on its way.       *)
ErrorsFinal ==
    returned.clean /\ returned.result = "error" =>
        \A i \in 1 .. Len(wire) : wire[i].call # returned.call

(* Sentences of the current call tell the truth about it.                   *)
Truthful(kind) == (kind = "error") <=> (call \notin accepted)

(* A clean call that is waiting: its command is alone on the link, or what  *)
(* is on the link are its answers, and the slot holds its result, if any.   *)
OnlyItsCommand ==
    wire # <<>> =>
        /\ Len(wire) = 1 /\ line = <<>> /\ rx = RxIdle
        /\ commandPending /\ done = 0
        /\ wire[1].call = call /\ call \notin accepted

OnlyItsAnswers ==
    /\ \A i \in 1 .. Len(line) : Truthful(line[i].kind)
    /\ rx.at # "idle" =>
          /\ Truthful(rx.sentence.kind)
          /\ rx.verdict # "none" => Truthful(rx.verdict)

SlotHoldsResult ==
    /\ commandPending => lastResult = "waiting" /\ done = 0 /\ rx.at # "give"
    /\ ~commandPending => lastResult \in {"ok", "error"} /\ Truthful(lastResult)

CleanCall ==
    clean =>
        /\ client \in {"arming", "transmit"} =>
              Quiet /\ lastResult = "waiting" /\ call \notin accepted
        /\ client = "transmit" => commandPending /\ done = 0
        /\ client = "wait" => OnlyItsCommand /\ OnlyItsAnswers /\ SlotHoldsResult

(* The inductive invariant.                                                 *)
IInv == CleanCallOwnsSlot /\ CleanCallsSound /\ Numbered /\ ErrorsFinal /\ CleanCall
=============================================================================
