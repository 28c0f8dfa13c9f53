------------------------------ MODULE Bluetooth ------------------------------
(***************************************************************************)
(* The Bluetooth link to the phone app: the serial port and its state      *)
(* (main/Bluetooth.cpp), and the tasks that use it.                        *)
(*                                                                         *)
(*   main task  repeats HAL_Update: a pass of the state machine, which     *)
(*              ends Bluetooth when web configuration starts, then         *)
(*              bluetoothUpdate, then the switch of the data interface;    *)
(*   read task  btReadTask: reads what the phone sent into a local buffer  *)
(*              of up to 512 bytes and answers the commands in it;         *)
(*   rx task    the GNSS receive task: passes each published sentence on   *)
(*              to the phone (App/DataProc/DP_Bluetooth.cpp).              *)
(*                                                                         *)
(* The three share the port object, its state and the data interface flag  *)
(* without a lock.  A method of the port takes time: it is a step that     *)
(* begins it and a step that ends it.  A method that runs on a port that   *)
(* was deleted may stop the unit, which then starts again (a reset, with   *)
(* every setting back at its default), or return anything.                 *)
(*                                                                         *)
(* The phone and the radio stack are external.  The radio type is serial   *)
(* port profile, the only one the program can be in.  What the state       *)
(* machine does in a working mode is SystemState's; here it takes the      *)
(* requested state in one step.                                            *)
(***************************************************************************)
EXTENDS AppProtocol

CONSTANTS
    Commands,     (* the commands the phone may send                        *)
    MaxSent,      (* bound: commands sent between two starts of the unit    *)
    QueueSize,    (* commands that fit the port's receive queue             *)
    BatchSize     (* commands that fit the read task's buffer               *)

ASSUME BluetoothAssumption ==
    /\ MaxSent \in Nat
    /\ QueueSize \in Nat \ {0}
    /\ BatchSize \in Nat \ {0}
    /\ \A c \in Commands :
         c.message = "wifi" /\ c.type = "set" => c.payload.length >= 5

VARIABLES
    bluetoothState,                 (* bluetoothState                       *)
    bluetoothDataInterfaceEnabled,  (* bluetoothDataInterfaceEnabled        *)
    port,       (* the object bluetoothSerialSpp points to                  *)
    online,     (* online_devices.bluetooth                                 *)
    main,       (* where the main task is in HAL_Update                     *)
    systemState,(* "rover", "base", or the web configuration states         *)
    requested,  (* the state asked for, if one is                           *)
    settings,   (* the settings the commands change                         *)
    reader,     (* where the read task is                                   *)
    batch,      (* what is left of the read task's buffer                   *)
    rx,         (* where the rx task is in DP_Bluetooth                     *)
    peer,       (* a phone is connected                                     *)
    inbox,      (* received by the port and not read yet                    *)
    sent,       (* history: the commands the port took in since the unit    *)
                (* started                                                  *)
    handled,    (* history: the commands handled since then                 *)
    answers,    (* history: what the phone received for them                *)
    caught,     (* history: tasks that had passed their test of the state   *)
                (* when the main task turned it off                         *)
    late        (* history: a working mode was asked for after the web      *)
                (* configuration was                                        *)

link == <<bluetoothState, bluetoothDataInterfaceEnabled, port, online>>
unit == <<main, systemState>>
work == <<requested, settings, late>>
reading == <<reader, batch>>
phone == <<peer, inbox, sent>>
history == <<handled, answers>>
vars == <<link, unit, work, reading, rx, phone, history, caught>>

Number == 1..MaxSent

Init ==
    /\ bluetoothState = "OFF" /\ bluetoothDataInterfaceEnabled = TRUE
    /\ port = "none" /\ online = FALSE
    /\ main = "boot" /\ systemState = "rover"
    /\ requested = NoState /\ settings = DefaultSettings /\ late = FALSE
    /\ reader = "none" /\ batch = <<>>
    /\ rx = "idle"
    /\ peer = FALSE /\ inbox = <<>> /\ sent = <<>>
    /\ handled = <<>> /\ answers = <<>>
    /\ caught = {}

(* The unit stops in a method of a deleted port and starts again.           *)
Reset ==
    /\ bluetoothState' = "OFF" /\ bluetoothDataInterfaceEnabled' = TRUE
    /\ port' = "none" /\ online' = FALSE
    /\ main' = "boot" /\ systemState' = "rover"
    /\ requested' = NoState /\ settings' = DefaultSettings /\ late' = FALSE
    /\ reader' = "none" /\ batch' = <<>>
    /\ rx' = "idle"
    /\ peer' = FALSE /\ inbox' = <<>> /\ sent' = <<>>
    /\ handled' = <<>> /\ answers' = <<>>
    /\ caught' = {}

Gone == port = "deleted"

-----------------------------------------------------------------------------
(* The main task.                                                           *)

(* bluetoothInit, before the loop starts: bluetoothStart makes the port.    *)
(* Without Bluetooth there is no read task.                                 *)
BluetoothStart ==
    /\ main = "boot" /\ main' = "state"
    /\ \/ /\ port' = "running" /\ online' = TRUE /\ bluetoothState' = "NOTCONNECTED"
          /\ reader' = "test"
       \/ /\ port' = "stopped"
          /\ UNCHANGED <<online, bluetoothState, reader>>
    /\ UNCHANGED <<bluetoothDataInterfaceEnabled, systemState, work, batch, rx, phone,
                   history, caught>>

(* Slip: the unit returns to the rover once the server is started.          *)
StateUpdateReturns ==
    LET state == IF requested # NoState THEN requested ELSE systemState
    IN  /\ main = "state"
        /\ requested' = NoState
        /\ systemState' = IF state = "web wait" THEN "rover" ELSE state
        /\ main' = IF state # "web" THEN "update" ELSE IF online THEN "end" ELSE "ended"
        /\ UNCHANGED <<link, settings, late, reading, rx, phone, history, caught>>

(* stateUpdate: take the requested state, then act on the state.  Of the    *)
(* states only those of the web configuration concern Bluetooth.            *)
StateUpdate ==
    LET state == IF requested # NoState THEN requested ELSE systemState
    IN  /\ main = "state"
        /\ requested' = NoState
        /\ systemState' = IF state = "web wait" THEN "web config" ELSE state
        /\ main' = IF state # "web" THEN "update" ELSE IF online THEN "end" ELSE "ended"
        /\ UNCHANGED <<link, settings, late, reading, rx, phone, history, caught>>

(* bluetoothEnd, the state first: "Indicate to tasks that BT is             *)
(* unavailable".  A task is caught if it has passed its test of the state.  *)
EndStateOff ==
    /\ main = "end" /\ main' = "flush"
    /\ bluetoothState' = "OFF"
    /\ caught' = {t \in {"reader", "rx"} :
                    IF t = "reader" THEN reader \notin {"none", "test"} ELSE rx # "idle"}
    /\ UNCHANGED <<bluetoothDataInterfaceEnabled, port, online, systemState, work, reading,
                   rx, phone, history>>

(* flush, disconnect and end.                                               *)
EndPort ==
    /\ main = "flush" /\ main' = "delete"
    /\ port' = "stopped" /\ peer' = FALSE
    /\ UNCHANGED <<bluetoothState, bluetoothDataInterfaceEnabled, online, systemState, work,
                   reading, rx, inbox, sent, history, caught>>

EndDelete ==
    /\ main = "delete" /\ main' = "ended"
    /\ port' = "deleted" /\ online' = FALSE
    /\ inbox' = <<>>
    /\ UNCHANGED <<bluetoothState, bluetoothDataInterfaceEnabled, systemState, work, reading,
                   rx, peer, sent, history, caught>>

(* Slip: the state is turned off after the port is gone.                    *)
EndDeleteThenOff ==
    /\ main \in {"end", "flush"} /\ main' = (IF main = "end" THEN "flush" ELSE "ended")
    /\ IF main = "end"
         THEN port' = "deleted" /\ peer' = FALSE /\ inbox' = <<>> /\ online' = FALSE
              /\ UNCHANGED <<bluetoothState, caught>>
         ELSE bluetoothState' = "OFF" /\ caught' = {}
              /\ UNCHANGED <<port, peer, inbox, online>>
    /\ UNCHANGED <<bluetoothDataInterfaceEnabled, systemState, work, reading, rx, sent, history>>

BluetoothEnd == EndStateOff \/ EndPort \/ EndDelete

(* The web server is started and the state machine goes on.                 *)
WebStarted ==
    /\ main = "ended" /\ main' = "update"
    /\ systemState' = "web wait"
    /\ UNCHANGED <<link, work, reading, rx, phone, history, caught>>

(* Slip: a phone that left turns the state off.                             *)
BluetoothPollOff ==
    /\ main = "update" /\ main' = "data"
    /\ bluetoothState' = IF bluetoothState = "OFF" THEN "OFF"
                         ELSE IF peer THEN "CONNECTED"
                         ELSE IF bluetoothState = "CONNECTED" THEN "OFF" ELSE "NOTCONNECTED"
    /\ UNCHANGED <<bluetoothDataInterfaceEnabled, port, online, systemState, work, reading, rx,
                   phone, history, caught>>

(* bluetoothUpdate asks the port whether a phone is connected, unless the   *)
(* state is off, ...                                                        *)
BluetoothPoll ==
    /\ main = "update" /\ main' = "data"
    /\ bluetoothState' = IF bluetoothState = "OFF" THEN "OFF"
                         ELSE IF peer THEN "CONNECTED" ELSE "NOTCONNECTED"
    /\ UNCHANGED <<bluetoothDataInterfaceEnabled, port, online, systemState, work, reading, rx,
                   phone, history, caught>>

(* ... and does nothing when it last asked less than 100 ms ago.            *)
BluetoothPollSkipped ==
    /\ main = "update" /\ main' = "data"
    /\ UNCHANGED <<link, systemState, work, reading, rx, phone, history, caught>>

(* The last of HAL_Update: the data interface is off while a browser is in  *)
(* an active session, which only a started web server has.                  *)
SetDataInterface ==
    /\ main = "data" /\ main' = "state"
    /\ \E session \in IF Gone \/ systemState = "web config" THEN BOOLEAN ELSE {FALSE} :
         bluetoothDataInterfaceEnabled' = ~session
    /\ UNCHANGED <<bluetoothState, port, online, systemState, work, reading, rx, phone,
                   history, caught>>

Main == BluetoothStart \/ StateUpdate \/ BluetoothEnd \/ WebStarted \/ BluetoothPoll
        \/ BluetoothPollSkipped \/ SetDataInterface

-----------------------------------------------------------------------------
(* The read task.                                                           *)

ReaderFrame == UNCHANGED <<link, unit, rx, phone>>

(* The test at the top of the loop, and the wait when it fails.             *)
ReaderTest ==
    /\ reader = "test"
    /\ bluetoothState = "CONNECTED" /\ bluetoothDataInterfaceEnabled
    /\ reader' = "available"
    /\ UNCHANGED <<work, batch, history, caught>> /\ ReaderFrame

BackToTest == reader' = "test" /\ caught' = caught \ {"reader"}

(* bluetoothRxDataAvailable begins, unless the data interface is off.       *)
AvailableBegin ==
    /\ reader = "available"
    /\ IF bluetoothDataInterfaceEnabled
         THEN reader' = "in available" /\ UNCHANGED caught
         ELSE BackToTest
    /\ UNCHANGED <<work, batch, history>> /\ ReaderFrame

AvailableEnd ==
    /\ reader = "in available"
    /\ \/ (inbox # <<>> \/ Gone) /\ reader' = "read" /\ UNCHANGED caught
       \/ (inbox = <<>> \/ Gone) /\ BackToTest
    /\ UNCHANGED <<work, batch, history>> /\ ReaderFrame

(* bluetoothRead begins; without the data interface it returns 0 bytes,     *)
(* which ends the inner loop.                                               *)
ReadBegin ==
    /\ reader = "read"
    /\ IF bluetoothDataInterfaceEnabled
         THEN reader' = "in read" /\ UNCHANGED caught
         ELSE BackToTest
    /\ UNCHANGED <<work, batch, history>> /\ ReaderFrame

(* The buffer takes what fits of what the port holds.  A deleted port       *)
(* delivers nothing.                                                        *)
ReadEnd ==
    /\ reader = "in read"
    /\ IF inbox = <<>>
         THEN BackToTest /\ UNCHANGED <<batch, inbox>>
         ELSE \E n \in 1..BatchSize :
                /\ n <= Len(inbox)
                /\ batch' = SubSeq(inbox, 1, n)
                /\ inbox' = SubSeq(inbox, n + 1, Len(inbox))
                /\ reader' = "parse" /\ UNCHANGED caught
    /\ UNCHANGED <<link, unit, work, rx, peer, sent, history>>

(* processBluetoothAppMessage up to the answer: settings and request.       *)
Handle ==
    /\ reader = "parse" /\ batch # <<>>
    /\ LET c == sent[Head(batch)]
           state == RequestedState(c)
       IN  /\ settings' = Settings(settings, c)
           /\ requested' = IF state = NoState THEN requested ELSE state
           /\ late' = (late \/ (state \in {"rover", "base"}
                                /\ (requested = "web" \/ systemState \notin {"rover", "base"})))
           /\ handled' = Append(handled, Head(batch))
           /\ IF Answer(c) = "none"
                THEN reader' = "parse" /\ batch' = Tail(batch)
                ELSE reader' = "answer" /\ UNCHANGED batch
    /\ UNCHANGED <<answers, caught>> /\ ReaderFrame

(* sendResponse: bluetoothWrite begins, or returns 0 with the data          *)
(* interface off, and the answer is dropped.                                *)
AnswerBegin ==
    /\ reader = "answer"
    /\ IF bluetoothDataInterfaceEnabled
         THEN reader' = "in answer" /\ UNCHANGED batch
         ELSE reader' = "parse" /\ batch' = Tail(batch)
    /\ UNCHANGED <<work, history, caught>> /\ ReaderFrame

(* Slip: the answer is built for the command the phone sent last.           *)
AnswerEndNewest ==
    /\ reader = "in answer"
    /\ peer /\ port = "running"
    /\ answers' = Append(answers, [to |-> Len(sent), type |-> ResponseType(sent[Len(sent)]),
                                   answer |-> Answer(sent[Len(sent)])])
    /\ reader' = "parse" /\ batch' = Tail(batch)
    /\ UNCHANGED <<work, handled, caught>> /\ ReaderFrame

(* Slip: after an answer that was not written the buffer is given up.       *)
AnswerEndGivesUp ==
    /\ reader = "in answer"
    /\ LET c == sent[Head(batch)]
       IN  \/ /\ peer /\ port = "running"
              /\ answers' = Append(answers, [to |-> Head(batch), type |-> ResponseType(c),
                                             answer |-> Answer(c)])
              /\ batch' = Tail(batch)
           \/ batch' = <<>> /\ UNCHANGED answers
    /\ reader' = "parse"
    /\ UNCHANGED <<work, handled, caught>> /\ ReaderFrame

(* The write ends: the phone has the answer, or it is gone, or less than    *)
(* the whole was written, which is only logged.                             *)
AnswerEnd ==
    /\ reader = "in answer"
    /\ LET c == sent[Head(batch)]
       IN  \/ /\ peer /\ port = "running"
              /\ answers' = Append(answers, [to |-> Head(batch), type |-> ResponseType(c),
                                             answer |-> Answer(c)])
           \/ UNCHANGED answers
    /\ reader' = "parse" /\ batch' = Tail(batch)
    /\ UNCHANGED <<work, handled, caught>> /\ ReaderFrame

(* The buffer is used up: back to the inner loop, which tests neither the   *)
(* state nor the object again.                                              *)
BatchDone ==
    /\ reader = "parse" /\ batch = <<>>
    /\ reader' = "available"
    /\ UNCHANGED <<work, batch, history, caught>> /\ ReaderFrame

(* A read task that uses the deleted port may bring the unit down.          *)
ReaderFault ==
    /\ Gone /\ reader \in {"in available", "in read", "in answer"}
    /\ Reset

Reader == ReaderTest \/ AvailableBegin \/ AvailableEnd \/ ReadBegin \/ ReadEnd \/ Handle
          \/ AnswerBegin \/ AnswerEnd \/ BatchDone

-----------------------------------------------------------------------------
(* The rx task: DP_Bluetooth's handler for one published sentence.          *)

RxFrame == UNCHANGED <<link, unit, work, reading, phone, history>>

(* bluetoothIsConnected: no when the state is off, else the port is asked.  *)
RxTest ==
    /\ rx = "idle"
    /\ bluetoothState # "OFF"
    /\ rx' = "in connected"
    /\ UNCHANGED caught /\ RxFrame

RxDone == rx' = "idle" /\ caught' = caught \ {"rx"}

RxConnected ==
    /\ rx = "in connected"
    /\ \/ (peer \/ Gone) /\ rx' = "write" /\ UNCHANGED caught
       \/ (~peer \/ Gone) /\ RxDone
    /\ RxFrame

RxWriteBegin ==
    /\ rx = "write"
    /\ IF bluetoothDataInterfaceEnabled THEN rx' = "in write" /\ UNCHANGED caught ELSE RxDone
    /\ RxFrame

RxWriteEnd == rx = "in write" /\ RxDone /\ RxFrame

RxFault ==
    /\ Gone /\ rx \in {"in connected", "in write"}
    /\ Reset

Rx == RxTest \/ RxConnected \/ RxWriteBegin \/ RxWriteEnd

-----------------------------------------------------------------------------
(* The phone (external).                                                    *)

PhoneFrame == UNCHANGED <<link, unit, work, reading, rx, history, caught>>

Connect == port = "running" /\ ~peer /\ peer' = TRUE /\ UNCHANGED <<inbox, sent>> /\ PhoneFrame

Disconnect == peer /\ peer' = FALSE /\ UNCHANGED <<inbox, sent>> /\ PhoneFrame

(* A command reaches the port if its receive queue (settings.sppRxQueueSize) *)
(* has room; bytes that find none are dropped by the radio stack, and what  *)
(* is left of their command is no frame (MessageParser).                    *)
Send ==
    /\ peer /\ port = "running" /\ Len(sent) < MaxSent /\ Len(inbox) < QueueSize
    /\ \E c \in Commands :
         /\ sent' = Append(sent, c)
         /\ inbox' = Append(inbox, Len(sent) + 1)
    /\ UNCHANGED peer /\ PhoneFrame

Phone == Connect \/ Disconnect \/ Send

-----------------------------------------------------------------------------
Next == Main \/ Reader \/ ReaderFault \/ Rx \/ RxFault \/ Phone

Spec == Init /\ [][Next]_vars

(* The scheduler runs every task that is ready, and the clock reaches the   *)
(* next 100 ms.  Nothing is assumed of the phone.                           *)
FairSpec ==
    /\ Spec
    /\ WF_vars(Main) /\ SF_vars(BluetoothPoll)
    /\ WF_vars(Reader \/ ReaderFault) /\ WF_vars(Rx \/ RxFault)

-----------------------------------------------------------------------------
(* Properties.                                                              *)

Tasks == {"reader", "rx"}

TypeOK ==
    /\ bluetoothState \in {"OFF", "NOTCONNECTED", "CONNECTED"}
    /\ bluetoothDataInterfaceEnabled \in BOOLEAN
    /\ port \in {"none", "running", "stopped", "deleted"}
    /\ online \in BOOLEAN
    /\ main \in {"boot", "state", "end", "flush", "delete", "ended", "update", "data"}
    /\ systemState \in {"rover", "base", "web", "web wait", "web config"}
    /\ requested \in {NoState, "rover", "base", "web"}
    /\ settings.position \in Positions \union {NoPosition}
    /\ reader \in {"none", "test", "available", "in available", "read", "in read", "parse",
                   "answer", "in answer"}
    /\ batch \in Seq(Number) /\ inbox \in Seq(Number) /\ handled \in Seq(Number)
    /\ rx \in {"idle", "in connected", "write", "in write"}
    /\ peer \in BOOLEAN
    /\ sent \in Seq(Commands)
    /\ caught \subseteq Tasks
    /\ late \in BOOLEAN

InsidePort(t) == IF t = "reader" THEN reader \in {"in available", "in read", "in answer"}
                                 ELSE rx \in {"in connected", "in write"}

(* What the state protects: a task is inside a method of a port that was    *)
(* stopped or deleted only if it had passed its own test of the state       *)
(* before bluetoothEnd turned it off; every pass begun later stays out.     *)
(* (The program has nothing that waits for the tasks that were caught.)     *)
LatePassesStayOut ==
    port \in {"stopped", "deleted"} => \A t \in Tasks : InsidePort(t) => t \in caught

Answering == reader \in {"answer", "in answer"}

(* What is left to handle: the command being answered is handled and still  *)
(* in the buffer.                                                           *)
Pending == IF Answering THEN Tail(batch) ELSE batch

(* Nothing the port took in is lost, doubled or reordered while the unit is *)
(* up and has not ended Bluetooth: what was handled, what is left of the    *)
(* buffer and what the port still holds are those commands, in order.       *)
CommandsAccounted ==
    /\ TypeOK
    /\ ~Gone => handled \o Pending \o inbox = [i \in 1..Len(sent) |-> i]

(* Every answer the phone has is the answer to the command it names, and    *)
(* they come in the order of the commands, at most one for each.            *)
AnswersMatch ==
    /\ \A i \in 1..Len(answers) :
         LET c == sent[answers[i].to] IN
         answers[i] = [to |-> answers[i].to, type |-> ResponseType(c), answer |-> Answer(c)]
    /\ \A i, j \in 1..Len(answers) : i < j => answers[i].to < answers[j].to

(* The work mode commands among those handled that were answered OK.        *)
Accepted == {i \in 1..Len(handled) :
                LET c == sent[handled[i]] IN
                c.message = "workMode" /\ c.type = "set" /\ Answer(c) = "ok"}

IsLast(i, accepted) == i \in accepted /\ \A j \in accepted : j <= i

(* The known point the base will be given is always the position of the     *)
(* last work mode command that was answered OK, whatever refused commands   *)
(* were handled since: a refusal leaves the mode and its position alone.    *)
KnownPointAccepted ==
    LET last == sent[handled[CHOOSE i \in Accepted : IsLast(i, Accepted)]].payload
    IN  IF Accepted = {} THEN ~settings.fixedBase
        ELSE /\ settings.fixedBase <=> KnownPoint(last)
             /\ settings.fixedBase => settings.position = last.position

(* A working unit whose app can no longer reach it, because Bluetooth was   *)
(* ended, got there one way only: by a work mode command handled after the  *)
(* one that started the web configuration.                                  *)
BluetoothLostLate ==
    (Gone /\ main \in {"state", "update", "data"} /\ systemState \in {"rover", "base"})
       => late

(* A command the unit has received is handled, unless the link is lost, a   *)
(* web configuration begins or the unit starts again.                       *)
CommandsHandled ==
    \A n \in Number :
      n <= Len(sent) ~> \/ n > Len(sent)
                        \/ \E i \in 1..Len(handled) : handled[i] = n
                        \/ ~peer \/ main = "boot"
                        \/ systemState \notin {"rover", "base"}
-----------------------------------------------------------------------------
(* What makes the invariants inductive (with TypeOK, AnswersMatch and       *)
(* KnownPointAccepted).                                                     *)

(* While the state is off every task past its test is one that was caught.  *)
PassesCaught ==
    bluetoothState = "OFF" =>
        /\ reader \notin {"none", "test"} => "reader" \in caught
        /\ rx # "idle" => "rx" \in caught

(* The port is stopped with the state off, and deleted once.                *)
PortOff ==
    /\ port \in {"stopped", "deleted"} => bluetoothState = "OFF"
    /\ main \in {"flush", "delete"} => bluetoothState = "OFF"
    /\ main = "boot" => bluetoothState = "OFF" /\ port = "none" /\ reader = "none"
    /\ main \in {"end", "flush", "delete"} => online
    /\ online => ~Gone

(* Once Bluetooth has ended, or is about to, a working mode is asked for or *)
(* taken only late.                                                         *)
WebAsked ==
    LET working == systemState \in {"rover", "base"} IN
    /\ main \in {"end", "flush", "delete", "ended"} => ~working
    /\ Gone => ~working \/ late
    /\ (~working \/ Gone) /\ requested \in {"rover", "base"} => late

(* Every buffer holds numbers of commands sent, the read task's only while  *)
(* it works on it.                                                          *)
Buffers ==
    /\ handled \in Seq(1..Len(sent)) /\ batch \in Seq(1..Len(sent))
    /\ inbox \in Seq(1..Len(sent))
    /\ Len(sent) <= MaxSent
    /\ reader \notin {"parse", "answer", "in answer"} => batch = <<>>
    /\ Answering => /\ batch # <<>> /\ handled # <<>>
                    /\ Head(batch) = handled[Len(handled)]

(* CommandsAccounted, number by number.                                     *)
InOrder ==
    ~Gone => /\ Len(handled) + Len(Pending) + Len(inbox) = Len(sent)
             /\ \A i \in 1..Len(handled) : handled[i] = i
             /\ \A i \in 1..Len(Pending) : Pending[i] = Len(handled) + i
             /\ \A i \in 1..Len(inbox) : inbox[i] = Len(handled) + Len(Pending) + i

SettingsTypes == /\ DOMAIN settings = DOMAIN DefaultSettings
                 /\ settings.fixedBase \in BOOLEAN

(* How many commands will not be answered any more.                         *)
Settled == Len(handled) - (IF Answering THEN 1 ELSE 0)

(* Answers are given for commands handled and no longer in the buffer.      *)
Answered ==
    /\ answers \in Seq([to : Nat, type : {"query response", "set response"},
                        answer : {"data", "ok", "error", "none"}])
    /\ \A k \in 1..Len(answers) : /\ answers[k].to \in 1..Len(sent)
                                  /\ ~Gone => answers[k].to <= Settled

LastExists == Accepted # {} => \E i \in Accepted : IsLast(i, Accepted)
=============================================================================
