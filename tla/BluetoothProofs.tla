--------------------------- MODULE BluetoothProofs --------------------------
(***************************************************************************)
(* What Bluetooth says of the port, the commands and the settings, for any *)
(* commands the phone may send, any positions and any size of the read     *)
(* task's buffer.                                                          *)
(***************************************************************************)
EXTENDS Bluetooth, SequenceTheorems, TLAPS

(* The states a command may ask for.                                        *)
LEMMA RequestedStates ==
    ASSUME NEW c
    PROVE  RequestedState(c) \in {NoState, "rover", "base", "web"}
  BY DEF RequestedState

(* The types of where the tasks are and of what they share, the flags apart *)
(* from the rest.                                                           *)
StateTypes ==
    /\ bluetoothState \in {"OFF", "NOTCONNECTED", "CONNECTED"}
    /\ port \in {"none", "running", "stopped", "deleted"}
    /\ main \in {"boot", "state", "end", "flush", "delete", "ended", "update", "data"}

TaskTypes ==
    /\ systemState \in {"rover", "base", "web", "web wait", "web config"}
    /\ reader \in {"none", "test", "available", "in available", "read", "in read", "parse",
                   "answer", "in answer"}
    /\ rx \in {"idle", "in connected", "write", "in write"}

RequestTypes == requested \in {NoState, "rover", "base", "web"} /\ caught \subseteq Tasks

FlagTypes ==
    /\ bluetoothDataInterfaceEnabled \in BOOLEAN /\ online \in BOOLEAN
    /\ peer \in BOOLEAN /\ late \in BOOLEAN

(* What the tasks share, and what keeps it in step.                         *)
ControlInv == StateTypes /\ TaskTypes /\ RequestTypes /\ FlagTypes /\ PassesCaught /\ PortOff /\ WebAsked

-----------------------------------------------------------------------------
(* The main task's steps.                                                   *)
LEMMA MainControl ==
    ASSUME ControlInv, Main
    PROVE  ControlInv'
  <1> USE DEF BluetoothStart, StateUpdate, EndStateOff, EndPort, EndDelete, WebStarted,
              BluetoothPoll, BluetoothPollSkipped, SetDataInterface,
              link, unit, work, reading, phone, history
  <1>0. StateTypes /\ TaskTypes /\ RequestTypes /\ FlagTypes /\ PassesCaught /\ PortOff /\ WebAsked
    BY DEF ControlInv
  <1>1. StateTypes'
    BY <1>0 DEF Main, BluetoothEnd, StateTypes
  <1>2. TaskTypes'
    BY <1>0 DEF Main, BluetoothEnd, TaskTypes, RequestTypes, NoState
  <1>3. RequestTypes'
    BY <1>0 DEF Main, BluetoothEnd, RequestTypes, Tasks, NoState
  <1>4. FlagTypes'
    BY <1>0 DEF Main, BluetoothEnd, FlagTypes
  <1>5. PassesCaught'
    <2>1. CASE EndStateOff
      BY <1>0, <2>1 DEF PassesCaught, TaskTypes
    <2>2. CASE BluetoothStart
      BY <1>0, <2>2 DEF PassesCaught, PortOff
    <2>3. CASE Main /\ ~EndStateOff /\ ~BluetoothStart
      <3>1. UNCHANGED <<caught, reader, rx>>
        BY <2>3 DEF Main, BluetoothEnd
      <3>2. bluetoothState' = "OFF" => bluetoothState = "OFF"
        BY <2>3 DEF Main, BluetoothEnd
      <3> QED BY <1>0, <3>1, <3>2 DEF PassesCaught
    <2> QED BY <2>1, <2>2, <2>3
  <1>6. PortOff'
    <2>1. CASE BluetoothStart
      BY <1>0, <2>1 DEF PortOff, Gone
    <2>2. CASE StateUpdate
      BY <1>0, <2>2 DEF PortOff, Gone
    <2>3. CASE EndStateOff
      BY <1>0, <2>3 DEF PortOff, Gone
    <2>4. CASE EndPort
      BY <1>0, <2>4 DEF PortOff, Gone
    <2>5. CASE EndDelete
      BY <1>0, <2>5 DEF PortOff, Gone
    <2>6. CASE WebStarted
      BY <1>0, <2>6 DEF PortOff, Gone
    <2>7. CASE BluetoothPoll \/ BluetoothPollSkipped
      BY <1>0, <2>7 DEF PortOff, Gone
    <2>8. CASE SetDataInterface
      BY <1>0, <2>8 DEF PortOff, Gone
    <2> QED BY <2>1, <2>2, <2>3, <2>4, <2>5, <2>6, <2>7, <2>8 DEF Main, BluetoothEnd
  <1>7. WebAsked'
    BY <1>0 DEF Main, BluetoothEnd, WebAsked, Gone, NoState, StateTypes, TaskTypes
  <1> QED BY <1>1, <1>2, <1>3, <1>4, <1>5, <1>6, <1>7 DEF ControlInv

(* The read task's steps.                                                   *)
LEMMA ReaderControl ==
    ASSUME ControlInv, Reader
    PROVE  ControlInv'
  <1> USE DEF ReaderTest, AvailableBegin, AvailableEnd, ReadBegin, ReadEnd, Handle,
              AnswerBegin, AnswerEnd, BatchDone, BackToTest, ReaderFrame,
              link, unit, work, reading, phone, history
  <1>0. StateTypes /\ TaskTypes /\ RequestTypes /\ FlagTypes /\ PassesCaught /\ PortOff /\ WebAsked
    BY DEF ControlInv
  <1>1. StateTypes'
    BY <1>0 DEF Reader, StateTypes
  <1>2. TaskTypes'
    BY <1>0 DEF Reader, TaskTypes, RequestTypes, NoState
  <1>3. RequestTypes'
    <2>1. requested' = requested \/ requested' \in {NoState, "rover", "base", "web"}
      BY RequestedStates DEF Reader
    <2>2. caught' \subseteq caught
      BY DEF Reader
    <2> QED BY <1>0, <2>1, <2>2 DEF RequestTypes
  <1>4. FlagTypes'
    BY <1>0 DEF Reader, FlagTypes
  <1>5. PassesCaught'
    BY <1>0 DEF Reader, PassesCaught, StateTypes, TaskTypes
  <1>6. PortOff'
    <2>1. UNCHANGED <<bluetoothState, port, main, online>> /\ reader # "none"
      BY DEF Reader
    <2> QED BY <1>0, <2>1 DEF PortOff, Gone
  <1>7. WebAsked'
    BY <1>0 DEF Reader, WebAsked, Gone, NoState, StateTypes, TaskTypes
  <1> QED BY <1>1, <1>2, <1>3, <1>4, <1>5, <1>6, <1>7 DEF ControlInv

(* The rx task, the phone, a reset, and a step that changes nothing.        *)
LEMMA OtherControl ==
    ASSUME ControlInv, Rx \/ Phone \/ Reset \/ UNCHANGED vars
    PROVE  ControlInv'
  <1> USE DEF RxTest, RxConnected, RxWriteBegin, RxWriteEnd, RxDone, RxFrame,
              Connect, Disconnect, Send, PhoneFrame, Reset, vars,
              link, unit, work, reading, phone, history
  <1>0. StateTypes /\ TaskTypes /\ RequestTypes /\ FlagTypes /\ PassesCaught /\ PortOff /\ WebAsked
    BY DEF ControlInv
  <1>1. StateTypes'
    BY <1>0 DEF Rx, Phone, StateTypes
  <1>2. TaskTypes'
    BY <1>0 DEF Rx, Phone, TaskTypes, RequestTypes, NoState
  <1>3. RequestTypes'
    BY <1>0 DEF Rx, Phone, RequestTypes, Tasks, NoState
  <1>4. FlagTypes'
    BY <1>0 DEF Rx, Phone, FlagTypes
  <1>5. PassesCaught'
    BY <1>0 DEF Rx, Phone, PassesCaught, StateTypes, TaskTypes
  <1>6. PortOff'
    <2>1. CASE Rx \/ Phone \/ UNCHANGED vars
      <3>1. UNCHANGED <<bluetoothState, port, main, online, reader>>
        BY <2>1 DEF Rx, Phone
      <3> QED BY <1>0, <3>1 DEF PortOff, Gone
    <2>2. CASE Reset
      BY <2>2 DEF PortOff, Gone
    <2> QED BY <2>1, <2>2
  <1>7. WebAsked'
    BY <1>0 DEF Rx, Phone, WebAsked, Gone, NoState, StateTypes, TaskTypes
  <1> QED BY <1>1, <1>2, <1>3, <1>4, <1>5, <1>6, <1>7 DEF ControlInv

(* All of them.                                                             *)
LEMMA ControlStep == ControlInv /\ [Next]_vars => ControlInv'
  <1> SUFFICES ASSUME ControlInv, [Next]_vars PROVE ControlInv'
    OBVIOUS
  <1> QED BY MainControl, ReaderControl, OtherControl DEF Next, ReaderFault, RxFault

(* The start.                                                               *)
LEMMA ControlInit == Init => ControlInv
  BY DEF Init, ControlInv, StateTypes, TaskTypes, RequestTypes, Tasks, FlagTypes, PassesCaught, PortOff, WebAsked, Gone, NoState

(* A task is inside a port that was stopped or deleted only if it had       *)
(* passed its test of the state before bluetoothEnd turned it off.          *)
THEOREM LatePassesKeptOut == Spec => []LatePassesStayOut
  <1>1. ControlInv => LatePassesStayOut
    BY DEF ControlInv, PassesCaught, PortOff, LatePassesStayOut, InsidePort, Tasks
  <1> QED BY <1>1, ControlInit, ControlStep, PTL DEF Spec

(* An app that can no longer reach a working unit asked for that mode after *)
(* it had asked for web configuration.                                      *)
THEOREM LostOnlyLate == Spec => []BluetoothLostLate
  <1>1. ControlInv => BluetoothLostLate
    BY DEF ControlInv, WebAsked, BluetoothLostLate
  <1> QED BY <1>1, ControlInit, ControlStep, PTL DEF Spec

-----------------------------------------------------------------------------
(* The members of a sequence, its head and its tail.                        *)
LEMMA SeqFacts ==
    ASSUME NEW S, NEW q \in Seq(S)
    PROVE  /\ Len(q) \in Nat
           /\ \A i \in 1..Len(q) : q[i] \in S
           /\ q # <<>> => /\ Len(q) > 0 /\ Head(q) \in S /\ Head(q) = q[1]
                         /\ Tail(q) \in Seq(S) /\ Len(Tail(q)) = Len(q) - 1
                         /\ \A i \in 1..Len(q) - 1 : Tail(q)[i] = q[i + 1]
  OBVIOUS

-----------------------------------------------------------------------------
(* The settings.                                                            *)

(* A work mode command answered OK.                                         *)
IsAccepted(c) == c.message = "workMode" /\ c.type = "set" /\ Answer(c) = "ok"

(* A work mode command is answered OK unless it is refused.                 *)
LEMMA WorkModeAnswer ==
    ASSUME NEW c, c.message = "workMode", c.type = "set"
    PROVE  IsAccepted(c) <=> ~WorkModeRefused(c.payload)
  <1>1. Answer(c) = IF WorkModeRefused(c.payload) THEN "error" ELSE "ok"
    BY DEF Answer, Reports, Toggles
  <1> QED BY <1>1 DEF IsAccepted

(* What a command does to the mode and its position: an accepted work mode  *)
(* command sets both as it says, any other leaves them as they are.         *)
LEMMA SettingsEffect ==
    ASSUME NEW s, DOMAIN s = DOMAIN DefaultSettings, s.fixedBase \in BOOLEAN, NEW c
    PROVE  LET new == Settings(s, c)
               p == c.payload
           IN  /\ DOMAIN new = DOMAIN DefaultSettings
               /\ new.fixedBase \in BOOLEAN
               /\ IsAccepted(c) =>
                     /\ new.fixedBase <=> KnownPoint(p)
                     /\ IF KnownPoint(p) THEN new.position = p.position /\ p.position \in Positions
                        ELSE new.position = s.position
               /\ ~IsAccepted(c) => /\ new.fixedBase <=> s.fixedBase
                                    /\ new.position = s.position
  <1> DEFINE p == c.payload
             new == Settings(s, c)
             named == WithName(s, p)
  <1>1. DOMAIN DefaultSettings = {"baseId", "fixedBase", "position", "height", "tilt", "ppp",
                                  "minElev"}
    BY DEF DefaultSettings
  <1>2. /\ DOMAIN named = DOMAIN s /\ named.fixedBase = s.fixedBase
        /\ named.position = s.position
    BY <1>1 DEF WithName
  <1>3. CASE c.message = "workMode" /\ c.type = "set"
    <2>1. new = SetWorkMode(s, p)
      BY <1>3 DEF Settings
    <2>2. IsAccepted(c) <=> ~WorkModeRefused(p)
      BY <1>3, WorkModeAnswer
    <2>3. CASE ~ModeBytesValid(p)
      BY <2>1, <2>2, <2>3 DEF SetWorkMode, WorkModeRefused
    <2>4. CASE ModeBytesValid(p) /\ ~KnownPoint(p)
      <3>1. new = [named EXCEPT !.fixedBase = FALSE] /\ IsAccepted(c)
        BY <2>1, <2>2, <2>4 DEF SetWorkMode, WorkModeRefused
      <3>2. DOMAIN new = DOMAIN s /\ new.fixedBase = FALSE /\ new.position = s.position
        BY <1>1, <1>2, <3>1
      <3> QED BY <2>4, <3>1, <3>2
    <2>5. CASE ModeBytesValid(p) /\ KnownPoint(p) /\ PositionAccepted(p)
      <3>1. new = [named EXCEPT !.fixedBase = TRUE, !.position = p.position] /\ IsAccepted(c)
        BY <2>1, <2>2, <2>5 DEF SetWorkMode, WorkModeRefused
      <3>2. DOMAIN new = DOMAIN s /\ new.fixedBase = TRUE /\ new.position = p.position
        BY <1>1, <1>2, <3>1
      <3> QED BY <2>5, <3>1, <3>2 DEF PositionAccepted
    <2>6. CASE ModeBytesValid(p) /\ KnownPoint(p) /\ ~PositionAccepted(p)
      BY <1>2, <2>1, <2>2, <2>6 DEF SetWorkMode, WorkModeRefused
    <2> QED BY <2>3, <2>4, <2>5, <2>6
  <1>4. CASE ~(c.message = "workMode" /\ c.type = "set")
    <2>1. ~IsAccepted(c)
      BY <1>4 DEF IsAccepted
    <2>2. \/ new = s
          \/ new = [s EXCEPT !.minElev = p.value]
          \/ new = [s EXCEPT !.height = p.value]
          \/ new = [s EXCEPT !.tilt = (p.value # 0)]
          \/ new = [s EXCEPT !.ppp = (p.value # 0)]
      BY <1>4 DEF Settings
    <2>3. DOMAIN new = DOMAIN s /\ new.fixedBase = s.fixedBase /\ new.position = s.position
      BY <1>1, <2>2
    <2> QED BY <2>1, <2>3
  <1> QED BY <1>3, <1>4

(* The last of some numbers, if there is one.                               *)
LEMMA ChosenLast ==
    ASSUME NEW A, \E i \in A : IsLast(i, A)
    PROVE  IsLast(CHOOSE i \in A : IsLast(i, A), A)
  BY DEF IsLast

(* A greater number added to some is the last of them.                      *)
LEMMA NewLast ==
    ASSUME NEW n \in Nat, NEW A, A \subseteq 1..n, NEW B, B = A \union {n + 1}
    PROVE  IsLast(n + 1, B) /\ (CHOOSE i \in B : IsLast(i, B)) = n + 1
  <1>1. IsLast(n + 1, B)
    BY DEF IsLast
  <1>2. \A i \in B : IsLast(i, B) => i = n + 1
    <2> SUFFICES ASSUME NEW i \in B, IsLast(i, B) PROVE i = n + 1
      OBVIOUS
    <2>1. i \in 1..n + 1 /\ n + 1 <= i
      BY DEF IsLast
    <2> QED BY <2>1
  <1> QED BY <1>1, <1>2

(* The settings and the commands they stem from.                            *)
SettingsInv ==
    /\ SettingsTypes /\ settings.position \in Positions \union {NoPosition}
    /\ LastExists /\ KnownPointAccepted

(* The accepted commands are among those handled.                           *)
LEMMA AcceptedFacts ==
    /\ Accepted = {i \in 1..Len(handled) : IsAccepted(sent[handled[i]])}
    /\ Accepted' = {i \in 1..Len(handled') : IsAccepted(sent'[handled'[i]])}
  BY DEF Accepted, IsAccepted

(* A step that handles no command, or receives one more.                    *)
LEMMA SettingsKept ==
    ASSUME SettingsInv, Buffers, UNCHANGED <<settings, handled>>,
           \A k \in 1..Len(sent) : sent'[k] = sent[k]
    PROVE  SettingsInv'
  <1>1. \A i \in 1..Len(handled) : handled[i] \in 1..Len(sent)
    <2>1. handled \in Seq(1..Len(sent))
      BY DEF Buffers
    <2> QED BY <2>1, SeqFacts
  <1>2. Accepted' = Accepted /\ Accepted \subseteq 1..Len(handled)
    BY <1>1, AcceptedFacts
  <1>3. LastExists'
    BY <1>2 DEF SettingsInv, LastExists
  <1>4. KnownPointAccepted'
    <2> DEFINE i == CHOOSE i \in Accepted : IsLast(i, Accepted)
    <2>1. (CHOOSE k \in Accepted' : IsLast(k, Accepted')) = i
      BY <1>2
    <2>2. CASE Accepted = {}
      BY <1>2, <2>2 DEF SettingsInv, KnownPointAccepted
    <2>3. CASE Accepted # {}
      <3>1. IsLast(i, Accepted)
        BY <2>3, ChosenLast DEF SettingsInv, LastExists
      <3>2. i \in 1..Len(handled)
        BY <1>2, <3>1 DEF IsLast
      <3>3. sent'[handled'[i]] = sent[handled[i]]
        BY <1>1, <3>2
      <3> HIDE DEF i
      <3>4. LET last == sent[handled[i]].payload
            IN  /\ settings.fixedBase <=> KnownPoint(last)
                /\ settings.fixedBase => settings.position = last.position
        BY <2>3 DEF SettingsInv, KnownPointAccepted, i
      <3> QED BY <1>2, <2>1, <2>3, <3>3, <3>4 DEF KnownPointAccepted
    <2> QED BY <2>2, <2>3
  <1> QED BY <1>3, <1>4 DEF SettingsInv, SettingsTypes

(* A command is handled.                                                    *)
LEMMA SettingsHandle ==
    ASSUME SettingsInv, Buffers, Handle
    PROVE  SettingsInv'
  <1> DEFINE n == Len(handled)
             c == sent[Head(batch)]
  <1>1. /\ batch # <<>> /\ UNCHANGED sent
        /\ settings' = Settings(settings, c)
        /\ handled' = Append(handled, Head(batch))
    BY DEF Handle, ReaderFrame, phone
  <1>2. handled \in Seq(1..Len(sent)) /\ Head(batch) \in 1..Len(sent) /\ n \in Nat
    <2>1. handled \in Seq(1..Len(sent)) /\ batch \in Seq(1..Len(sent))
      BY DEF Buffers
    <2> QED BY <1>1, <2>1, SeqFacts
  <1>3. /\ Len(handled') = n + 1 /\ handled'[n + 1] = Head(batch)
        /\ \A i \in 1..n : handled'[i] = handled[i]
    BY <1>1, <1>2
  <1>4. /\ Accepted \subseteq 1..n
        /\ Accepted' = Accepted \union (IF IsAccepted(c) THEN {n + 1} ELSE {})
    BY <1>1, <1>2, <1>3, AcceptedFacts
  <1>5. /\ DOMAIN settings' = DOMAIN DefaultSettings
        /\ settings'.fixedBase \in BOOLEAN
        /\ IsAccepted(c) =>
              /\ settings'.fixedBase <=> KnownPoint(c.payload)
              /\ IF KnownPoint(c.payload)
                   THEN settings'.position = c.payload.position /\ c.payload.position \in Positions
                   ELSE settings'.position = settings.position
        /\ ~IsAccepted(c) => /\ settings'.fixedBase <=> settings.fixedBase
                             /\ settings'.position = settings.position
    <2>1. DOMAIN settings = DOMAIN DefaultSettings /\ settings.fixedBase \in BOOLEAN
      BY DEF SettingsInv, SettingsTypes
    <2> HIDE DEF c
    <2> QED BY <1>1, <2>1, SettingsEffect
  <1>6. SettingsTypes' /\ settings'.position \in Positions \union {NoPosition}
    <2>1. DOMAIN DefaultSettings' = DOMAIN DefaultSettings
      BY DEF DefaultSettings
    <2>2. settings'.position \in Positions \union {NoPosition}
      BY <1>5 DEF SettingsInv
    <2> QED BY <1>5, <2>2 DEF SettingsTypes, DefaultSettings
  <1>7. CASE IsAccepted(c)
    <2>1. Accepted' = Accepted \union {n + 1}
      BY <1>4, <1>7
    <2>2. /\ IsLast(n + 1, Accepted')
          /\ (CHOOSE i \in Accepted' : IsLast(i, Accepted')) = n + 1
      BY <1>2, <1>4, <2>1, NewLast
    <2>3. LastExists'
      BY <2>2 DEF LastExists, IsLast
    <2>4. sent'[handled'[n + 1]] = c /\ Accepted' # {}
      BY <1>1, <1>3, <2>1
    <2>5. KnownPointAccepted'
      BY <1>5, <1>7, <2>2, <2>4 DEF KnownPointAccepted
    <2> QED BY <1>6, <2>3, <2>5 DEF SettingsInv
  <1>8. CASE ~IsAccepted(c)
    <2> DEFINE i == CHOOSE i \in Accepted : IsLast(i, Accepted)
    <2>1. Accepted' = Accepted
      BY <1>4, <1>8
    <2>2. LastExists'
      BY <2>1 DEF SettingsInv, LastExists
    <2>3. (CHOOSE k \in Accepted' : IsLast(k, Accepted')) = i
      BY <2>1
    <2>4. CASE Accepted = {}
      <3>1. KnownPointAccepted'
        BY <1>5, <1>8, <2>1, <2>4 DEF SettingsInv, KnownPointAccepted
      <3> QED BY <1>6, <2>2, <3>1 DEF SettingsInv
    <2>5. CASE Accepted # {}
      <3>1. i \in 1..n
        BY <1>4, <2>5, ChosenLast DEF SettingsInv, LastExists, IsLast
      <3>2. sent'[handled'[i]] = sent[handled[i]]
        BY <1>1, <1>3, <3>1
      <3> HIDE DEF i, c
      <3>3. LET last == sent[handled[i]].payload
            IN  /\ settings.fixedBase <=> KnownPoint(last)
                /\ settings.fixedBase => settings.position = last.position
        BY <2>5 DEF SettingsInv, KnownPointAccepted, i
      <3>4. KnownPointAccepted'
        BY <1>5, <1>8, <2>1, <2>3, <2>5, <3>2, <3>3 DEF KnownPointAccepted
      <3> QED BY <1>6, <2>2, <3>4 DEF SettingsInv
    <2> QED BY <2>4, <2>5
  <1> QED BY <1>7, <1>8

(* The unit starts with no known point.                                     *)
LEMMA SettingsStart ==
    /\ settings = DefaultSettings /\ handled = <<>> => SettingsInv
    /\ settings' = DefaultSettings /\ handled' = <<>> => SettingsInv'
  <1>1. /\ DefaultSettings.fixedBase = FALSE /\ DefaultSettings.position = NoPosition
    BY DEF DefaultSettings
  <1>2. ASSUME settings = DefaultSettings, handled = <<>> PROVE SettingsInv
    <2>1. Accepted = {}
      BY <1>2 DEF Accepted
    <2> QED BY <1>1, <1>2, <2>1 DEF SettingsInv, SettingsTypes, LastExists, KnownPointAccepted
  <1>3. ASSUME settings' = DefaultSettings, handled' = <<>> PROVE SettingsInv'
    <2>1. Accepted' = {}
      BY <1>3, AcceptedFacts
    <2> QED BY <1>1, <1>3, <2>1 DEF SettingsInv, SettingsTypes, LastExists, KnownPointAccepted
  <1> QED BY <1>2, <1>3

-----------------------------------------------------------------------------
(* The commands on their way.                                               *)
BuffersInv == sent \in Seq(Commands) /\ Buffers /\ InOrder

(* Numbers in a row: their first n, and the others.                         *)
LEMMA NumbersSplit ==
    ASSUME NEW h \in Nat, NEW l \in Nat, NEW n \in 1..l,
           NEW q, \A i \in 1..l : q[i] = h + i,
           NEW a, \A i \in 1..n : a[i] = q[i],
           NEW b, \A i \in 1..l - n : b[i] = q[n + i]
    PROVE  /\ \A i \in 1..n : a[i] = h + i
           /\ \A i \in 1..l - n : b[i] = h + n + i
           /\ h + n + (l - n) = h + l
  <1>1. ASSUME NEW i \in 1..n PROVE a[i] = h + i
    <2>1. i \in 1..l
      OBVIOUS
    <2> QED BY <2>1
  <1>2. ASSUME NEW i \in 1..l - n PROVE b[i] = h + n + i
    <2>1. n + i \in 1..l /\ h + (n + i) = h + n + i
      OBVIOUS
    <2> QED BY <2>1
  <1> QED BY <1>1, <1>2

(* One more of them.                                                        *)
LEMMA NumbersMore ==
    ASSUME NEW h \in Nat, NEW l \in Nat,
           NEW q, \A i \in 1..l : q[i] = h + i,
           NEW a, \A i \in 1..l : a[i] = q[i], a[l + 1] = h + l + 1
    PROVE  \A i \in 1..l + 1 : a[i] = h + i
  <1> SUFFICES ASSUME NEW i \in 1..l + 1 PROVE a[i] = h + i
    OBVIOUS
  <1>1. CASE i \in 1..l
    BY <1>1
  <1>2. CASE i = l + 1
    BY <1>2
  <1> QED BY <1>1, <1>2

(* What the buffers hold.                                                   *)
LEMMA BufferFacts ==
    ASSUME BuffersInv
    PROVE  /\ sent \in Seq(Commands) /\ Len(sent) \in 0..MaxSent
           /\ handled \in Seq(1..Len(sent)) /\ batch \in Seq(1..Len(sent))
           /\ inbox \in Seq(1..Len(sent))
           /\ Len(handled) \in Nat /\ Len(batch) \in Nat /\ Len(inbox) \in Nat
           /\ batch # <<>> => /\ Len(batch) > 0 /\ Head(batch) \in 1..Len(sent)
                              /\ Head(batch) = batch[1]
                              /\ Tail(batch) \in Seq(1..Len(sent))
                              /\ Len(Tail(batch)) = Len(batch) - 1
                              /\ \A i \in 1..Len(batch) - 1 : Tail(batch)[i] = batch[i + 1]
  <1>1. /\ sent \in Seq(Commands) /\ Len(sent) <= MaxSent
        /\ handled \in Seq(1..Len(sent)) /\ batch \in Seq(1..Len(sent))
        /\ inbox \in Seq(1..Len(sent))
    BY DEF BuffersInv, Buffers
  <1>2. Len(sent) \in 0..MaxSent
    <2>1. Len(sent) \in Nat
      BY <1>1, SeqFacts
    <2> QED BY <1>1, <2>1, BluetoothAssumption
  <1> QED BY <1>1, <1>2, SeqFacts

(* A step that touches no buffer.                                           *)
LEMMA BuffersKept ==
    ASSUME BuffersInv, UNCHANGED <<batch, inbox, sent, handled>>, Gone => Gone',
           Answering' <=> Answering,
           reader' \notin {"parse", "answer", "in answer"} => batch = <<>>
    PROVE  BuffersInv'
  BY DEF BuffersInv, Buffers, InOrder, Pending

(* The read task fills its buffer.                                          *)
LEMMA BuffersRead ==
    ASSUME BuffersInv, ReadEnd
    PROVE  BuffersInv'
  <1>1. /\ reader = "in read" /\ UNCHANGED <<port, sent, handled>>
        /\ batch = <<>> /\ Pending = <<>> /\ ~Answering
    BY DEF ReadEnd, link, history, BuffersInv, Buffers, Pending, Answering
  <1>2. CASE inbox = <<>>
    BY <1>1, <1>2, BuffersKept DEF ReadEnd, BackToTest, Answering, Gone
  <1>3. CASE inbox # <<>>
    <2>1. PICK n \in 1..BatchSize :
            /\ n <= Len(inbox)
            /\ batch' = SubSeq(inbox, 1, n)
            /\ inbox' = SubSeq(inbox, n + 1, Len(inbox))
            /\ reader' = "parse"
      BY <1>3 DEF ReadEnd
    <2>2. /\ inbox \in Seq(1..Len(sent)) /\ Len(inbox) \in Nat /\ n \in 1..Len(inbox)
          /\ \A i \in 1..Len(inbox) : inbox[i] \in 1..Len(sent)
      <3>1. inbox \in Seq(1..Len(sent)) /\ Len(inbox) \in Nat
        BY BufferFacts
      <3> QED BY <2>1, <3>1, SeqFacts, BluetoothAssumption
    <2>3. /\ batch' \in Seq(1..Len(sent)) /\ Len(batch') = n
          /\ \A i \in 1..n : batch'[i] = inbox[i]
      BY <2>1, <2>2, SubSeqProperties
    <2>4. /\ inbox' \in Seq(1..Len(sent)) /\ Len(inbox') = Len(inbox) - n
          /\ \A i \in 1..Len(inbox) - n : inbox'[i] = inbox[n + i]
      BY <2>1, <2>2, SubSeqProperties
    <2>5. Pending' = batch' /\ ~Answering'
      BY <2>1 DEF Pending, Answering
    <2>6. Buffers'
      BY <1>1, <2>1, <2>3, <2>4, <2>5 DEF BuffersInv, Buffers
    <2>7. InOrder'
      <3> SUFFICES ASSUME ~Gone PROVE InOrder'
        BY <1>1 DEF InOrder, Gone
      <3> DEFINE h == Len(handled)
                 l == Len(inbox)
      <3>1. /\ h \in Nat /\ l \in Nat
            /\ h + 0 + l = Len(sent)
            /\ \A i \in 1..h : handled[i] = i
            /\ \A i \in 1..l : inbox[i] = h + 0 + i
        <4>1. Len(Pending) = 0
          BY <1>1
        <4>2. h \in Nat /\ l \in Nat
          BY BufferFacts
        <4> HIDE DEF h, l
        <4> QED BY <4>1, <4>2 DEF BuffersInv, InOrder, h, l
      <3>2. h + l = Len(sent) /\ \A i \in 1..l : inbox[i] = h + i
        <4> HIDE DEF h, l
        <4> QED BY <3>1
      <3>3. /\ \A i \in 1..n : batch'[i] = h + i
            /\ \A i \in 1..l - n : inbox'[i] = h + n + i
            /\ h + n + (l - n) = h + l
        <4>1. n \in 1..l
          BY <2>2
        <4>2. /\ \A i \in 1..n : batch'[i] = inbox[i]
              /\ \A i \in 1..l - n : inbox'[i] = inbox[n + i]
          BY <2>3, <2>4
        <4>3. h \in Nat /\ l \in Nat
          BY <3>1
        <4> HIDE DEF h, l
        <4> QED BY <3>2, <4>1, <4>2, <4>3, NumbersSplit
      <3> QED BY <1>1, <2>3, <2>4, <2>5, <3>1, <3>2, <3>3 DEF InOrder
    <2> QED BY <1>1, <2>6, <2>7 DEF BuffersInv
  <1> QED BY <1>2, <1>3

(* A command is handled.                                                    *)
LEMMA BuffersHandle ==
    ASSUME BuffersInv, Handle
    PROVE  BuffersInv'
  <1> DEFINE n == Len(handled)
  <1>1. /\ reader = "parse" /\ batch # <<>> /\ UNCHANGED <<port, sent, inbox>>
        /\ handled' = Append(handled, Head(batch))
        /\ \/ reader' = "parse" /\ batch' = Tail(batch)
           \/ reader' = "answer" /\ batch' = batch
    BY DEF Handle, ReaderFrame, phone, link
  <1>2. Pending = batch /\ Pending' = Tail(batch)
    BY <1>1 DEF Pending, Answering
  <1>3. /\ handled \in Seq(1..Len(sent)) /\ n \in Nat /\ Len(batch) \in Nat
        /\ Len(inbox) \in Nat /\ batch \in Seq(1..Len(sent))
        /\ Len(batch) > 0 /\ Head(batch) \in 1..Len(sent) /\ Head(batch) = batch[1]
        /\ Tail(batch) \in Seq(1..Len(sent)) /\ Len(Tail(batch)) = Len(batch) - 1
        /\ \A i \in 1..Len(batch) - 1 : Tail(batch)[i] = batch[i + 1]
    BY <1>1, BufferFacts
  <1>4. /\ handled' \in Seq(1..Len(sent)) /\ handled' # <<>> /\ Len(handled') = n + 1
        /\ \A i \in 1..n : handled'[i] = handled[i]
        /\ handled'[n + 1] = Head(batch)
    BY <1>1, <1>3, AppendProperties
  <1>5. Buffers'
    <2>1. batch' \in Seq(1..Len(sent))
      BY <1>1, <1>3
    <2>2. Answering' => batch' # <<>> /\ Head(batch') = handled'[Len(handled')]
      BY <1>1, <1>4 DEF Answering
    <2> QED BY <1>1, <1>4, <2>1, <2>2 DEF BuffersInv, Buffers
  <1>6. InOrder'
    <2> SUFFICES ASSUME ~Gone PROVE InOrder'
      BY <1>1 DEF InOrder, Gone
    <2>1. /\ n + Len(batch) + Len(inbox) = Len(sent)
          /\ \A i \in 1..n : handled[i] = i
          /\ \A i \in 1..Len(batch) : batch[i] = n + i
          /\ \A i \in 1..Len(inbox) : inbox[i] = n + Len(batch) + i
      BY <1>2 DEF BuffersInv, InOrder
    <2> DEFINE l == Len(batch)
               b == Tail(batch)
    <2>2. /\ n \in Nat /\ l \in Nat /\ 1 \in 1..l
          /\ \A i \in 1..l : batch[i] = n + i
          /\ \A i \in 1..l - 1 : b[i] = batch[1 + i]
      <3>1. l > 0 /\ \A i \in 1..l - 1 : b[i] = batch[i + 1]
        BY <1>3
      <3>2. n \in Nat /\ l \in Nat /\ \A i \in 1..l : batch[i] = n + i
        BY <1>3, <2>1
      <3> HIDE DEF l, b, n
      <3>3. \A i \in 1..l - 1 : i + 1 = 1 + i
        BY <3>2
      <3> QED BY <3>1, <3>2, <3>3
    <2>3. /\ \A i \in 1..l - 1 : b[i] = n + 1 + i
          /\ n + 1 + (l - 1) = n + l
      <3> HIDE DEF l, b, n
      <3> DEFINE a == [i \in 1..1 |-> batch[i]]
      <3>1. \A i \in 1..1 : a[i] = batch[i]
        OBVIOUS
      <3> HIDE DEF a
      <3> QED BY <2>2, <3>1, NumbersSplit
    <2>4. handled'[n + 1] = 0 + n + 1 /\ \A i \in 1..n : handled[i] = 0 + i
      <3>1. handled'[n + 1] = batch[1] /\ batch[1] = n + 1
        BY <1>3, <1>4, <2>2
      <3>2. \A i \in 1..n : handled[i] = i
        BY <2>1
      <3> HIDE DEF n
      <3> QED BY <2>2, <3>1, <3>2
    <2>5. \A i \in 1..n + 1 : handled'[i] = i
      <3>1. \A i \in 1..n : handled'[i] = handled[i]
        BY <1>4
      <3> HIDE DEF n
      <3>2. \A i \in 1..n + 1 : handled'[i] = 0 + i
        BY <2>2, <2>4, <3>1, NumbersMore
      <3> QED BY <2>2, <3>2
    <2> QED BY <1>1, <1>2, <1>3, <1>4, <2>1, <2>3, <2>5 DEF InOrder
  <1> QED BY <1>1, <1>5, <1>6 DEF BuffersInv

(* The command that was answered, or whose answer is dropped, leaves the    *)
(* buffer.                                                                  *)
LEMMA BuffersDropped ==
    ASSUME BuffersInv, Answering, reader' = "parse", batch' = Tail(batch),
           UNCHANGED <<port, sent, inbox, handled>>
    PROVE  BuffersInv'
  <1>1. batch # <<>>
    BY DEF BuffersInv, Buffers
  <1>2. Tail(batch) \in Seq(1..Len(sent))
    BY <1>1, BufferFacts
  <1>3. Pending' = Pending /\ ~Answering'
    BY DEF Pending, Answering
  <1> QED BY <1>2, <1>3 DEF BuffersInv, Buffers, InOrder, Gone

(* The port is deleted with what it holds.                                  *)
LEMMA BuffersDeleted ==
    ASSUME BuffersInv, EndDelete
    PROVE  BuffersInv'
  <1>1. /\ Gone' /\ inbox' = <<>> /\ UNCHANGED <<reader, batch, handled, sent>>
    BY DEF EndDelete, Gone, reading, history
  <1>2. inbox' \in Seq(1..Len(sent))
    BY <1>1
  <1> QED BY <1>1, <1>2 DEF BuffersInv, Buffers, InOrder, Answering

(* The phone sends one more.                                                *)
LEMMA BuffersSent ==
    ASSUME BuffersInv, Send
    PROVE  BuffersInv' /\ Len(sent') = Len(sent) + 1
           /\ \A k \in 1..Len(sent) : sent'[k] = sent[k]
  <1> DEFINE n == Len(sent)
  <1>1. /\ port = "running" /\ n < MaxSent /\ UNCHANGED <<port, reader, batch, handled>>
        /\ inbox' = Append(inbox, n + 1)
    BY DEF Send, PhoneFrame, link, reading, history
  <1>2. PICK c \in Commands : sent' = Append(sent, c)
    BY DEF Send
  <1>3. /\ sent \in Seq(Commands) /\ n \in Nat
        /\ handled \in Seq(1..n) /\ batch \in Seq(1..n) /\ inbox \in Seq(1..n)
        /\ Len(handled) \in Nat /\ Len(inbox) \in Nat
    BY BufferFacts
  <1>4. /\ sent' \in Seq(Commands) /\ Len(sent') = n + 1
        /\ \A k \in 1..n : sent'[k] = sent[k]
    BY <1>2, <1>3, AppendProperties
  <1>5. 1..n \subseteq 1..n + 1 /\ n + 1 \in 1..n + 1
    BY <1>3
  <1>6. /\ handled \in Seq(1..n + 1) /\ batch \in Seq(1..n + 1) /\ inbox \in Seq(1..n + 1)
    BY <1>3, <1>5, SeqMonotonic
  <1>7. /\ inbox' \in Seq(1..n + 1) /\ Len(inbox') = Len(inbox) + 1
        /\ \A i \in 1..Len(inbox) : inbox'[i] = inbox[i]
        /\ inbox'[Len(inbox) + 1] = n + 1
    BY <1>1, <1>5, <1>6, AppendProperties
  <1>8. Pending' = Pending /\ (Answering' <=> Answering)
    BY <1>1 DEF Pending, Answering
  <1>9. Len(Pending) \in Nat
    <2>1. CASE Answering
      <3>1. batch # <<>>
        BY <2>1 DEF BuffersInv, Buffers
      <3>2. Tail(batch) \in Seq(1..n)
        BY <3>1, BufferFacts
      <3> QED BY <2>1, <3>2, SeqFacts DEF Pending
    <2>2. CASE ~Answering
      BY <1>3, <2>2, SeqFacts DEF Pending
    <2> QED BY <2>1, <2>2
  <1>10. Buffers'
    <2>1. Len(sent') <= MaxSent
      BY <1>1, <1>3, <1>4, BluetoothAssumption
    <2> QED BY <1>1, <1>4, <1>6, <1>7, <1>8, <2>1 DEF BuffersInv, Buffers
  <1>11. InOrder'
    <2>1. /\ Len(handled) + Len(Pending) + Len(inbox) = n
          /\ \A i \in 1..Len(handled) : handled[i] = i
          /\ \A i \in 1..Len(Pending) : Pending[i] = Len(handled) + i
          /\ \A i \in 1..Len(inbox) : inbox[i] = Len(handled) + Len(Pending) + i
      BY <1>1 DEF BuffersInv, InOrder, Gone
    <2> DEFINE h == Len(handled) + Len(Pending)
               l == Len(inbox)
    <2>2. h \in Nat /\ l \in Nat /\ h + l = n
      BY <1>3, <1>9, <2>1
    <2>3. /\ \A i \in 1..l : inbox[i] = h + i /\ inbox'[i] = inbox[i]
          /\ inbox'[l + 1] = n + 1
      BY <1>7, <2>1
    <2>4. h + (l + 1) = n + 1 /\ \A i \in 1..l + 1 : inbox'[i] = h + i
      <3> HIDE DEF h, l, n
      <3> QED BY <2>2, <2>3, NumbersMore
    <2> QED BY <1>1, <1>4, <1>7, <1>8, <2>1, <2>4 DEF InOrder
  <1> QED BY <1>4, <1>10, <1>11 DEF BuffersInv

(* A unit that starts has no commands.                                      *)
LEMMA BuffersStart ==
    /\ Init => BuffersInv
    /\ Reset => BuffersInv'
  <1>1. \A S : <<>> \in Seq(S) /\ Len(<<>>) = 0
    OBVIOUS
  <1>2. ASSUME Init PROVE BuffersInv
    BY <1>1, <1>2, BluetoothAssumption
       DEF Init, BuffersInv, Buffers, InOrder, Answering, Pending
  <1>3. ASSUME Reset PROVE BuffersInv'
    BY <1>1, <1>3, BluetoothAssumption
       DEF Reset, BuffersInv, Buffers, InOrder, Answering, Pending
  <1> QED BY <1>2, <1>3

-----------------------------------------------------------------------------
(* The answers.                                                             *)
AnswersInv == Answered /\ AnswersMatch

(* What an answer is made of.                                               *)
Responses == [to : Nat, type : {"query response", "set response"},
              answer : {"data", "ok", "error", "none"}]

(* Answer k names a command sent and is the answer to it.                   *)
IsAnswer(a, s) ==
    /\ a.to \in 1..Len(s)
    /\ a = [to |-> a.to, type |-> ResponseType(s[a.to]), answer |-> Answer(s[a.to])]

(* What there is to keep of the answers.                                    *)
LEMMA AnswersFacts ==
    /\ AnswersInv <=>
          /\ answers \in Seq(Responses)
          /\ \A k \in 1..Len(answers) : IsAnswer(answers[k], sent)
          /\ \A k \in 1..Len(answers) : ~Gone => answers[k].to <= Settled
          /\ \A i, j \in 1..Len(answers) : i < j => answers[i].to < answers[j].to
    /\ AnswersInv' <=>
          /\ answers' \in Seq(Responses)
          /\ \A k \in 1..Len(answers') : IsAnswer(answers'[k], sent')
          /\ \A k \in 1..Len(answers') : ~Gone' => answers'[k].to <= Settled'
          /\ \A i, j \in 1..Len(answers') : i < j => answers'[i].to < answers'[j].to
  BY Zenon DEF AnswersInv, Answered, AnswersMatch, IsAnswer, Responses

(* The words of an answer.                                                  *)
LEMMA AnswerWords ==
    ASSUME NEW c
    PROVE  /\ ResponseType(c) \in {"query response", "set response"}
           /\ Answer(c) \in {"data", "ok", "error", "none"}
  BY DEF ResponseType, Answer

(* No answer is given and no command that has one is replaced.              *)
LEMMA AnswersKept ==
    ASSUME AnswersInv, UNCHANGED answers, Len(sent) \in Nat, Len(sent') \in Nat,
           Len(sent) <= Len(sent'), \A k \in 1..Len(sent) : sent'[k] = sent[k],
           Gone => Gone', ~Gone' => Settled \in Int /\ Settled' \in Int /\ Settled <= Settled'
    PROVE  AnswersInv'
  <1>1. /\ answers \in Seq(Responses)
        /\ \A k \in 1..Len(answers) : IsAnswer(answers[k], sent)
        /\ \A k \in 1..Len(answers) : ~Gone => answers[k].to <= Settled
        /\ \A i, j \in 1..Len(answers) : i < j => answers[i].to < answers[j].to
    BY AnswersFacts
  <1>2. ASSUME NEW k \in 1..Len(answers)
        PROVE  IsAnswer(answers[k], sent') /\ (~Gone' => answers[k].to <= Settled')
    <2> DEFINE a == answers[k]
    <2>1. IsAnswer(a, sent) /\ (~Gone => a.to <= Settled)
      BY <1>1, <1>2
    <2>2. a.to \in 1..Len(sent) /\ a.to \in 1..Len(sent') /\ sent'[a.to] = sent[a.to]
      BY <2>1 DEF IsAnswer
    <2>3. IsAnswer(a, sent')
      BY <2>1, <2>2 DEF IsAnswer
    <2>4. ~Gone' => a.to <= Settled'
      <3> HIDE DEF a
      <3> SUFFICES ASSUME ~Gone' PROVE a.to <= Settled'
        OBVIOUS
      <3> DEFINE x == a.to
                 y == Settled
                 z == Settled'
      <3>1. x \in Int /\ y \in Int /\ z \in Int /\ x <= y /\ y <= z
        BY <2>1, <2>2
      <3> HIDE DEF x, y, z
      <3>2. x <= z
        BY <3>1
      <3> QED BY <3>2 DEF x, z
    <2> QED BY <2>3, <2>4
  <1>3. /\ \A k \in 1..Len(answers') : IsAnswer(answers'[k], sent')
        /\ \A k \in 1..Len(answers') : ~Gone' => answers'[k].to <= Settled'
    BY <1>2
  <1> QED BY <1>1, <1>3, AnswersFacts

(* How many are settled, before and after a step that leaves the handled    *)
(* commands as they are.                                                    *)
LEMMA SettledFacts ==
    ASSUME BuffersInv
    PROVE  /\ Settled = (IF Answering THEN Len(handled) - 1 ELSE Len(handled))
           /\ Len(handled) \in Nat /\ Settled \in Int /\ Settled <= Len(handled)
  <1>1. Len(handled) \in Nat
    BY BufferFacts
  <1>2. Settled = (IF Answering THEN Len(handled) - 1 ELSE Len(handled))
    BY <1>1 DEF Settled
  <1> QED BY <1>1, <1>2

(* A command is handled, its answer still to come or never.                 *)
LEMMA AnswersHandle ==
    ASSUME AnswersInv, BuffersInv, Handle
    PROVE  AnswersInv'
  <1>1. /\ ~Answering /\ UNCHANGED <<answers, sent, port>>
        /\ handled' = Append(handled, Head(batch))
    BY DEF Handle, ReaderFrame, phone, link, Answering
  <1>2. handled \in Seq(1..Len(sent)) /\ Len(handled) \in Nat /\ Len(sent) \in Nat
    BY BufferFacts
  <1>3. Len(handled') = Len(handled) + 1
    BY <1>1, <1>2
  <1>4. Settled = Len(handled) /\ (Settled' = Len(handled') \/ Settled' = Len(handled') - 1)
    BY <1>1, <1>2, <1>3 DEF Settled
  <1>5. Settled \in Int /\ Settled' \in Int /\ Settled <= Settled'
    BY <1>2, <1>3, <1>4
  <1>6. (Gone => Gone') /\ Len(sent') \in Nat /\ Len(sent) <= Len(sent')
    BY <1>1, <1>2 DEF Gone
  <1> QED BY <1>1, <1>2, <1>5, <1>6, AnswersKept

(* The write of an answer ends, or the answer is dropped.                   *)
LEMMA AnswersGiven ==
    ASSUME AnswersInv, BuffersInv, AnswerBegin \/ AnswerEnd
    PROVE  AnswersInv'
  <1> DEFINE n == Len(handled)
  <1>1. Answering /\ UNCHANGED <<sent, port, handled>> /\ (Gone' <=> Gone)
    BY DEF AnswerBegin, AnswerEnd, ReaderFrame, phone, link, history, Answering, Gone
  <1>2. n \in Nat /\ Len(sent) \in Nat
    BY BufferFacts
  <1>3. Settled = n - 1 /\ Settled' \in {n - 1, n} /\ Settled \in Int /\ Settled' \in Int
        /\ Settled <= Settled'
    BY <1>1, <1>2 DEF Settled
  <1>4. CASE UNCHANGED answers
    <2>1. Len(sent') \in Nat /\ Len(sent) <= Len(sent')
      BY <1>1, <1>2
    <2> QED BY <1>1, <1>2, <1>3, <1>4, <2>1, AnswersKept
  <1>5. CASE ~UNCHANGED answers
    <2> DEFINE c == sent[Head(batch)]
               a == [to |-> Head(batch), type |-> ResponseType(c), answer |-> Answer(c)]
               l == Len(answers)
    <2>1. AnswerEnd /\ port = "running" /\ answers' = Append(answers, a) /\ reader' = "parse"
      BY <1>5 DEF AnswerBegin, AnswerEnd, history
    <2>2. ~Gone /\ ~Gone' /\ Settled' = n
      <3>1. ~Gone /\ ~Answering'
        BY <2>1 DEF Gone, Answering
      <3> QED BY <1>1, <1>2, <3>1 DEF Settled
    <2>3. batch # <<>> /\ handled # <<>> /\ Head(batch) = handled[n]
      BY <1>1 DEF BuffersInv, Buffers
    <2>4. Head(batch) \in 1..Len(sent) /\ Head(batch) = n
      <3>1. handled \in Seq(1..Len(sent)) /\ Head(batch) \in 1..Len(sent)
        BY <2>3, BufferFacts
      <3>2. n \in 1..n
        BY <2>3, <3>1, SeqFacts
      <3>3. \A i \in 1..n : handled[i] = i
        BY <2>2 DEF BuffersInv, InOrder
      <3> HIDE DEF n
      <3> QED BY <2>3, <3>1, <3>2, <3>3
    <2>5. a \in Responses /\ IsAnswer(a, sent')
      <3> HIDE DEF c
      <3>1. a.to = Head(batch) /\ Head(batch) \in Nat
        BY <1>2, <2>4
      <3>2. a \in Responses
        BY <3>1, AnswerWords DEF Responses
      <3>3. sent'[a.to] = c
        BY <1>1, <3>1 DEF c
      <3> QED BY <1>1, <2>4, <3>1, <3>2, <3>3 DEF IsAnswer
    <2>6. a.to = n
      BY <2>4
    <2> HIDE DEF a
    <2>7. /\ answers \in Seq(Responses)
          /\ \A k \in 1..l : IsAnswer(answers[k], sent)
          /\ \A k \in 1..l : answers[k].to <= n - 1
          /\ \A i, j \in 1..l : i < j => answers[i].to < answers[j].to
      BY <1>3, <2>2, AnswersFacts
    <2>8. /\ answers' \in Seq(Responses) /\ Len(answers') = l + 1 /\ l \in Nat
          /\ \A k \in 1..l : answers'[k] = answers[k]
          /\ answers'[l + 1] = a
      BY <2>1, <2>5, <2>7, AppendProperties
    <2>9. \A k \in 1..l + 1 : k \in 1..l \/ k = l + 1
      BY <2>8
    <2>10. ASSUME NEW k \in 1..l + 1
           PROVE  IsAnswer(answers'[k], sent') /\ answers'[k].to <= n
      <3>1. CASE k \in 1..l
        <4>1. IsAnswer(answers[k], sent) /\ answers[k].to <= n - 1 /\ answers'[k] = answers[k]
          BY <2>7, <2>8, <3>1
        <4>2. answers[k].to \in Int
          BY <1>2, <4>1 DEF IsAnswer
        <4>3. answers[k].to <= n
          BY <1>2, <4>1, <4>2
        <4>4. sent' = sent
          BY <1>1
        <4> QED BY <4>1, <4>3, <4>4
      <3>2. CASE k = l + 1
        BY <1>2, <2>5, <2>6, <2>8, <3>2
      <3> QED BY <2>9, <2>10, <3>1, <3>2
    <2>11. ASSUME NEW i \in 1..l + 1, NEW j \in 1..l + 1, i < j
           PROVE  answers'[i].to < answers'[j].to
      <3>1. i \in 1..l
        BY <2>8, <2>11
      <3>2. answers'[i] = answers[i]
        BY <2>8, <3>1
      <3>3. CASE j \in 1..l
        BY <2>7, <2>8, <2>11, <3>1, <3>3
      <3>4. CASE j = l + 1
        <4>1. answers[i].to <= n - 1 /\ answers[i].to \in Int
          <5>1. answers[i].to <= n - 1 /\ IsAnswer(answers[i], sent)
            BY <2>7, <3>1
          <5> HIDE DEF n, l
          <5> QED BY <1>2, <5>1 DEF IsAnswer
        <4>2. answers[i].to < n
          BY <1>2, <4>1
        <4> QED BY <2>6, <2>8, <3>2, <3>4, <4>2
      <3> QED BY <2>9, <2>11, <3>3, <3>4
    <2> HIDE DEF l, n
    <2> QED BY <2>2, <2>8, <2>10, <2>11, AnswersFacts
  <1> QED BY <1>4, <1>5

(* The phone sends one more.                                                *)
LEMMA AnswersSent ==
    ASSUME AnswersInv, BuffersInv, Send
    PROVE  AnswersInv'
  <1>1. UNCHANGED <<answers, port, reader, handled>>
    BY DEF Send, PhoneFrame, link, reading, history
  <1>2. Len(sent') = Len(sent) + 1 /\ \A k \in 1..Len(sent) : sent'[k] = sent[k]
    BY BuffersSent
  <1>3. Len(sent) \in Nat
    BY BufferFacts
  <1>4. Len(sent') \in Nat /\ Len(sent) <= Len(sent')
    BY <1>2, <1>3
  <1>5. Settled' = Settled /\ (Gone' <=> Gone) /\ Settled \in Int
    BY <1>1, SettledFacts DEF Settled, Answering, Gone
  <1>6. Settled <= Settled'
    BY <1>5
  <1> QED BY <1>1, <1>2, <1>3, <1>4, <1>5, <1>6, AnswersKept

(* A unit that starts has given no answer.                                  *)
LEMMA AnswersStart ==
    /\ answers = <<>> => AnswersInv
    /\ answers' = <<>> => AnswersInv'
  <1>1. \A S : <<>> \in Seq(S) /\ Len(<<>>) = 0
    OBVIOUS
  <1>2. ASSUME answers = <<>> PROVE AnswersInv
    <2>1. answers \in Seq(Responses) /\ 1..Len(answers) = {}
      BY <1>1, <1>2
    <2> QED BY <2>1, AnswersFacts
  <1>3. ASSUME answers' = <<>> PROVE AnswersInv'
    <2>1. answers' \in Seq(Responses) /\ 1..Len(answers') = {}
      BY <1>1, <1>3
    <2> QED BY <2>1, AnswersFacts
  <1> QED BY <1>2, <1>3

-----------------------------------------------------------------------------
(* All together: with ControlInv, the inductive invariant.                  *)
DataInv == SettingsInv /\ BuffersInv /\ AnswersInv

(* A step that touches neither a buffer nor a setting.                      *)
QuietStep ==
    /\ UNCHANGED <<settings, batch, inbox, sent, handled, answers>>
    /\ Gone => Gone'
    /\ Answering' <=> Answering
    /\ reader' \notin {"parse", "answer", "in answer"} => batch = <<>>

(* It leaves everything as it is.                                           *)
LEMMA DataKept ==
    ASSUME DataInv, QuietStep
    PROVE  DataInv'
  <1>1. SettingsInv /\ BuffersInv /\ AnswersInv /\ Buffers
    BY DEF DataInv, BuffersInv
  <1>2. /\ UNCHANGED <<settings, batch, inbox, sent, handled, answers>>
        /\ \A k \in 1..Len(sent) : sent'[k] = sent[k]
    BY DEF QuietStep
  <1>3. Len(sent) \in Nat
    BY <1>1, BufferFacts
  <1>4. SettingsInv'
    <2>1. UNCHANGED <<settings, handled>>
      BY <1>2
    <2> QED BY <1>1, <1>2, <2>1, SettingsKept
  <1>5. BuffersInv'
    BY <1>1, BuffersKept DEF QuietStep
  <1>6. Settled' = Settled /\ Settled \in Int
    <2>1. Answering' <=> Answering
      BY DEF QuietStep
    <2> QED BY <1>1, <1>2, <2>1, SettledFacts DEF Settled
  <1>7. Settled <= Settled' /\ Len(sent) <= Len(sent')
    BY <1>2, <1>3, <1>6
  <1>8. AnswersInv'
    <2>1. UNCHANGED answers /\ Len(sent') \in Nat
      BY <1>2, <1>3
    <2>2. Settled \in Int /\ Settled' \in Int
      BY <1>6
    <2>3. Gone => Gone'
      BY DEF QuietStep
    <2> QED BY <1>1, <1>2, <1>3, <1>7, <2>1, <2>2, <2>3, AnswersKept
  <1> QED BY <1>4, <1>5, <1>8 DEF DataInv

(* The main task's steps: only the deletion of the port touches a buffer.   *)
LEMMA MainData ==
    ASSUME DataInv, ControlInv, Main
    PROVE  DataInv'
  <1>1. UNCHANGED <<settings, batch, sent, handled, answers>>
    BY DEF Main, BluetoothEnd, BluetoothStart, StateUpdate, EndStateOff, EndPort, EndDelete,
           WebStarted, BluetoothPoll, BluetoothPollSkipped, SetDataInterface,
           work, reading, phone, history
  <1>2. CASE EndDelete
    <2>1. SettingsInv /\ BuffersInv /\ AnswersInv /\ Buffers
      BY DEF DataInv, BuffersInv
    <2>2. BuffersInv'
      BY <1>2, <2>1, BuffersDeleted
    <2>3. SettingsInv'
      BY <1>1, <2>1, SettingsKept
    <2>4. Gone' /\ UNCHANGED reader
      BY <1>2 DEF EndDelete, Gone, reading
    <2>5. Len(sent) \in Nat /\ Len(sent') \in Nat /\ Len(sent) <= Len(sent')
      BY <1>1, <2>1, BufferFacts
    <2>6. AnswersInv'
      BY <1>1, <2>1, <2>4, <2>5, AnswersKept
    <2> QED BY <2>2, <2>3, <2>6 DEF DataInv
  <1>3. CASE ~EndDelete
    <2>1. UNCHANGED inbox
      BY <1>3 DEF Main, BluetoothEnd, BluetoothStart, StateUpdate, EndStateOff, EndPort,
           WebStarted, BluetoothPoll, BluetoothPollSkipped, SetDataInterface, phone
    <2>2. PortOff /\ Buffers
      BY DEF ControlInv, DataInv, BuffersInv
    <2>3. Gone => Gone'
      BY <1>3, <2>2
         DEF Main, BluetoothEnd, BluetoothStart, StateUpdate, EndStateOff, EndPort,
           WebStarted, BluetoothPoll, BluetoothPollSkipped, SetDataInterface, link, Gone, PortOff
    <2>4. reader' = reader \/ (reader = "none" /\ reader' = "test")
      BY <1>3, <2>2
         DEF Main, BluetoothEnd, BluetoothStart, StateUpdate, EndStateOff, EndPort,
           WebStarted, BluetoothPoll, BluetoothPollSkipped, SetDataInterface, reading, PortOff
    <2>5. /\ Answering' <=> Answering
          /\ reader' \notin {"parse", "answer", "in answer"} => batch = <<>>
      BY <2>2, <2>4 DEF Answering, Buffers
    <2> QED BY <1>1, <2>1, <2>3, <2>5, DataKept DEF QuietStep
  <1> QED BY <1>2, <1>3

(* The read task's steps.                                                   *)
LEMMA ReaderData ==
    ASSUME DataInv, Reader
    PROVE  DataInv'
  <1>1. SettingsInv /\ BuffersInv /\ AnswersInv /\ Buffers
    BY DEF DataInv, BuffersInv
  <1>2. UNCHANGED <<sent, port>> /\ (Gone' <=> Gone)
    BY DEF Reader, ReaderTest, AvailableBegin, AvailableEnd, ReadBegin, ReadEnd, Handle,
           AnswerBegin, AnswerEnd, BatchDone, ReaderFrame, link, phone, Gone
  <1>3. Len(sent) \in Nat /\ Len(sent') \in Nat /\ Len(sent) <= Len(sent')
    BY <1>1, <1>2, BufferFacts
  <1>4. CASE Handle
    BY <1>1, <1>4, SettingsHandle, BuffersHandle, AnswersHandle DEF DataInv
  <1>5. CASE ReadEnd
    <2>1. UNCHANGED <<settings, handled, answers>> /\ reader = "in read"
          /\ reader' \in {"test", "parse"}
      BY <1>5 DEF ReadEnd, BackToTest, work, history
    <2>2. SettingsInv'
      BY <1>1, <1>2, <2>1, SettingsKept
    <2>3. BuffersInv'
      BY <1>1, <1>5, BuffersRead
    <2>4. ~Answering /\ ~Answering'
      BY <2>1 DEF Answering
    <2>5. Settled' = Settled /\ Settled \in Int
      BY <1>1, <2>1, <2>4, SettledFacts DEF Settled
    <2>6. Settled <= Settled'
      BY <2>5
    <2>7. AnswersInv'
      BY <1>1, <1>2, <1>3, <2>1, <2>5, <2>6, AnswersKept
    <2> QED BY <2>2, <2>3, <2>7 DEF DataInv
  <1>6. CASE AnswerEnd \/ (AnswerBegin /\ reader' = "parse")
    <2>1. /\ Answering /\ reader' = "parse" /\ batch' = Tail(batch)
          /\ UNCHANGED <<inbox, handled, settings>>
      BY <1>6 DEF AnswerEnd, AnswerBegin, ReaderFrame, phone, history, work, Answering
    <2>2. SettingsInv'
      BY <1>1, <1>2, <2>1, SettingsKept
    <2>3. BuffersInv'
      BY <1>1, <1>2, <2>1, BuffersDropped
    <2>4. AnswersInv'
      BY <1>1, <1>6, AnswersGiven
    <2> QED BY <2>2, <2>3, <2>4 DEF DataInv
  <1>7. CASE \/ ReaderTest \/ AvailableBegin \/ AvailableEnd \/ ReadBegin \/ BatchDone
             \/ AnswerBegin /\ reader' # "parse"
    <2>1. UNCHANGED <<settings, batch, inbox, sent, handled, answers>>
      BY <1>7 DEF ReaderTest, AvailableBegin, AvailableEnd, ReadBegin, BatchDone, AnswerBegin,
                  ReaderFrame, work, phone, history
    <2>2. \/ /\ reader \in {"test", "available", "in available", "read"}
             /\ reader' \in {"test", "available", "in available", "read", "in read"}
          \/ reader = "parse" /\ batch = <<>> /\ reader' = "available"
          \/ reader = "answer" /\ reader' = "in answer"
      BY <1>7 DEF ReaderTest, AvailableBegin, AvailableEnd, ReadBegin, BatchDone, AnswerBegin,
                  BackToTest
    <2>3. /\ Answering' <=> Answering
          /\ reader' \notin {"parse", "answer", "in answer"} => batch = <<>>
      BY <1>1, <2>2 DEF Answering, Buffers
    <2> QED BY <1>2, <2>1, <2>3, DataKept DEF QuietStep
  <1> QED BY <1>4, <1>5, <1>6, <1>7 DEF Reader

(* The rx task, the phone, and a step that changes nothing.                 *)
LEMMA OtherData ==
    ASSUME DataInv, Rx \/ Phone \/ UNCHANGED vars
    PROVE  DataInv'
  <1>1. SettingsInv /\ BuffersInv /\ AnswersInv /\ Buffers
    BY DEF DataInv, BuffersInv
  <1>2. UNCHANGED <<settings, batch, handled, answers, port, reader>>
    BY DEF Rx, RxTest, RxConnected, RxWriteBegin, RxWriteEnd, RxFrame, Phone, Connect,
           Disconnect, Send, PhoneFrame, vars, link, work, reading, history
  <1>3. CASE Send
    <2>1. SettingsInv'
      BY <1>1, <1>2, <1>3, BuffersSent, SettingsKept
    <2> QED BY <1>1, <1>3, <2>1, BuffersSent, AnswersSent DEF DataInv
  <1>4. CASE ~Send
    <2>1. UNCHANGED <<inbox, sent>>
      BY <1>4 DEF Rx, RxTest, RxConnected, RxWriteBegin, RxWriteEnd, RxFrame, Phone, Connect,
           Disconnect, vars, phone
    <2>2. /\ Gone => Gone'
          /\ Answering' <=> Answering
          /\ reader' \notin {"parse", "answer", "in answer"} => batch = <<>>
      BY <1>1, <1>2 DEF Gone, Answering, Buffers
    <2> QED BY <1>2, <2>1, <2>2, DataKept DEF QuietStep
  <1> QED BY <1>3, <1>4

(* A unit that starts.                                                      *)
LEMMA DataStart == (Init => DataInv) /\ (Reset => DataInv')
  BY SettingsStart, BuffersStart, AnswersStart DEF DataInv, Init, Reset

(* All steps.                                                               *)
LEMMA DataStep == DataInv /\ ControlInv /\ [Next]_vars => DataInv'
  <1> SUFFICES ASSUME DataInv, ControlInv, [Next]_vars PROVE DataInv'
    OBVIOUS
  <1> QED BY MainData, ReaderData, OtherData, DataStart DEF Next, ReaderFault, RxFault

(* Both hold in every state of every behaviour.                             *)
LEMMA Invariance == Spec => [](ControlInv /\ DataInv)
  BY ControlInit, ControlStep, DataStart, DataStep, PTL DEF Spec

-----------------------------------------------------------------------------
(* Three sequences that hold the numbers up to n, each from where the one   *)
(* before it ends.                                                          *)
InRow(S, a, b, c, n) ==
    /\ a \in Seq(S) /\ b \in Seq(S) /\ c \in Seq(S)
    /\ Len(a) + Len(b) + Len(c) = n
    /\ \A i \in 1..Len(a) : a[i] = i
    /\ \A i \in 1..Len(b) : b[i] = Len(a) + i
    /\ \A i \in 1..Len(c) : c[i] = Len(a) + Len(b) + i

(* Put together they are the numbers up to n.                               *)
LEMMA Concatenated ==
    ASSUME NEW S, NEW a, NEW b, NEW c, NEW n, InRow(S, a, b, c, n)
    PROVE  a \o b \o c = [i \in 1..n |-> i]
  <1> DEFINE k == Len(a)
             l == Len(b)
             m == Len(c)
             ab == a \o b
             abc == ab \o c
  <1> USE DEF InRow
  <1>1. k \in Nat /\ l \in Nat /\ m \in Nat
    BY SeqFacts
  <1>2. /\ ab \in Seq(S) /\ Len(ab) = k + l
        /\ \A i \in 1..k + l : ab[i] = IF i <= k THEN a[i] ELSE b[i - k]
    BY ConcatProperties
  <1>3. /\ abc \in Seq(S) /\ Len(abc) = (k + l) + m
        /\ \A i \in 1..(k + l) + m : abc[i] = IF i <= k + l THEN ab[i] ELSE c[i - (k + l)]
    <2> HIDE DEF ab
    <2>1. /\ abc \in Seq(S) /\ Len(abc) = Len(ab) + Len(c)
          /\ \A i \in 1..Len(ab) + Len(c) :
               abc[i] = IF i <= Len(ab) THEN ab[i] ELSE c[i - Len(ab)]
      BY <1>2, ConcatProperties
    <2> HIDE DEF abc
    <2> QED BY <1>2, <2>1
  <1>4. abc = [i \in 1..n |-> abc[i]]
    <2> HIDE DEF abc
    <2> QED BY <1>1, <1>3
  <1>5. ASSUME NEW i \in 1..n PROVE abc[i] = i
    <2> HIDE DEF ab, abc
    <2>1. CASE i <= k
      <3>1. i \in 1..k /\ i <= k + l /\ i \in 1..k + l /\ i \in 1..(k + l) + m
        BY <1>1, <2>1
      <3>2. abc[i] = ab[i] /\ ab[i] = a[i] /\ a[i] = i
        BY <1>2, <1>3, <2>1, <3>1
      <3> QED BY <3>2
    <2>2. CASE k < i /\ i <= k + l
      <3>1. abc[i] = b[i - k] /\ i - k \in 1..l
        BY <1>1, <1>2, <1>3, <2>2
      <3> QED BY <1>1, <3>1
    <2>3. CASE k + l < i
      <3>1. abc[i] = c[i - (k + l)] /\ i - (k + l) \in 1..m
        BY <1>1, <1>3, <2>3
      <3> QED BY <1>1, <3>1
    <2> QED BY <1>1, <2>1, <2>2, <2>3
  <1> HIDE DEF abc
  <1>6. [i \in 1..n |-> abc[i]] = [i \in 1..n |-> i]
    BY <1>5
  <1>7. abc = [i \in 1..n |-> i]
    BY <1>4, <1>6
  <1> QED BY <1>7 DEF abc

(* The invariants of the parts give every type.                             *)
LEMMA AllTypes ==
    ASSUME ControlInv, DataInv
    PROVE  TypeOK
  <1>1. StateTypes /\ TaskTypes /\ RequestTypes /\ FlagTypes
    BY DEF ControlInv
  <1>2. settings.position \in Positions \union {NoPosition} /\ BuffersInv
    BY DEF DataInv, SettingsInv
  <1>3. batch \in Seq(Number) /\ inbox \in Seq(Number) /\ handled \in Seq(Number)
    <2>1. 1..Len(sent) \subseteq Number
      <3>1. Len(sent) \in 0..MaxSent
        BY <1>2, BufferFacts
      <3> QED BY <3>1, BluetoothAssumption DEF Number
    <2> QED BY <1>2, <2>1, BufferFacts, SeqMonotonic
  <1>4. sent \in Seq(Commands)
    BY <1>2, BufferFacts
  <1> QED BY Zenon, <1>1, <1>2, <1>3, <1>4
          DEF StateTypes, TaskTypes, RequestTypes, FlagTypes, TypeOK

(* InOrder is CommandsAccounted.                                            *)
LEMMA AllAccounted ==
    ASSUME ControlInv, DataInv
    PROVE  CommandsAccounted
  <1>1. BuffersInv
    BY DEF DataInv
  <1>2. handled \in Seq(1..Len(sent)) /\ inbox \in Seq(1..Len(sent))
    BY <1>1, BufferFacts
  <1>3. Pending \in Seq(1..Len(sent))
    <2>1. Answering => batch # <<>>
      BY <1>1 DEF BuffersInv, Buffers
    <2> QED BY <1>1, <2>1, BufferFacts DEF Pending
  <1>4. ASSUME ~Gone PROVE handled \o Pending \o inbox = [i \in 1..Len(sent) |-> i]
    <2>1. /\ Len(handled) + Len(Pending) + Len(inbox) = Len(sent)
          /\ \A i \in 1..Len(handled) : handled[i] = i
          /\ \A i \in 1..Len(Pending) : Pending[i] = Len(handled) + i
          /\ \A i \in 1..Len(inbox) : inbox[i] = Len(handled) + Len(Pending) + i
      BY <1>1, <1>4 DEF BuffersInv, InOrder
    <2>2. InRow(1..Len(sent), handled, Pending, inbox, Len(sent))
      BY <1>2, <1>3, <2>1 DEF InRow
    <2> QED BY <2>2, Concatenated
  <1> QED BY <1>4, AllTypes DEF CommandsAccounted

(* Nothing the phone sent is lost, doubled or reordered while the unit is   *)
(* up and has not ended Bluetooth, for any number of commands and any size  *)
(* of the buffer the read task takes them in.                               *)
THEOREM NothingLost == Spec => []CommandsAccounted
  BY Invariance, AllAccounted, PTL

(* Every answer is the answer to the command it names, in order, at most    *)
(* one for each.                                                            *)
THEOREM AnswersBelong == Spec => []AnswersMatch
  <1>1. DataInv => AnswersMatch
    BY DEF DataInv, AnswersInv
  <1> QED BY <1>1, Invariance, PTL

(* The known point is the position of the last work mode command answered   *)
(* OK, whatever was refused since.                                          *)
THEOREM RefusalsChangeNothing == Spec => []KnownPointAccepted
  <1>1. DataInv => KnownPointAccepted
    BY DEF DataInv, SettingsInv
  <1> QED BY <1>1, Invariance, PTL

=============================================================================
