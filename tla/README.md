# NEMA2000_ESP in TLA+

TLA+ models of the "RTK S20" firmware in this repository: an ESP32 that reads a
Unicore UM980 GNSS receiver, forwards its sentences to an app over Bluetooth,
publishes positions on NMEA2000, and is switched by the app between rover, base
and web configuration. TLC checks the models on small instances; TLAPS proves,
for every size, every invariant and action property that the passing runs check.
`PROJECT.json` lists, for every definition, the source lines it stands for.

The repository has no README; `src/GEMINI.md` is its only overview. The code
was read in `src/main` and in the components `DataCenter`,
`Unicore_GNSS_Library`, `Parser` and `ESP32_BleSerial`; `components/NMEA2000`
and `components/arduino-esp32` are vendored and taken as external.

## 1. Inventory

Tasks. Everything hard in this code comes from four execution contexts that
share plain variables:

| context | where | what it runs |
| --- | --- | --- |
| main task | `main.cpp:152`, `HAL/HAL.cpp:87` | `HAL_Update`: `stateUpdate`, `gnssUpdate`, `bluetoothUpdate`, `networkUpdate`, `webServerUpdate`, in that order, for ever |
| `unicore_rx` | `Unicore_GNSS_Library.cpp:1507` | reads the UART, parses, completes the pending command, runs the callbacks: publishes NMEA into the DataCenter and from there writes to Bluetooth |
| `btReadTask` | `HAL/HAL_Bluetooth.cpp:710` | reads the app's bytes, handles its commands, answers, asks for a change of mode |
| timers, WiFi and HTTP tasks | Arduino, IDF | NMEA2000 timer account, WiFi events, web socket handlers |

### DataCenter ring buffer (`components/DataCenter/ringBuffer`)
*State*: the byte ring, a table of frame end offsets, the number of stored
frames, the free byte count, and per subscriber an offset, a frame index and
how many frames it still has to get. *Operations*: `WriteToRingBuf`,
`ReadRingBuf`, `UpdateFreeSpace`, `AddSubscriber`, `RemoveSubscriber`, all under
one mutex taken with a timeout (20 ms), giving up on timeout. *Interactions*:
written by the publisher in the rx task, read by subscribers in whatever context
publishes. *Hard*: a writer drops frames that slow readers still stand on, two
rings (bytes, offsets) wrap at different times, the length of a frame is only
the distance of two wrapped offsets. *Correct when*: it is a sequence of whole
frames; every subscriber gets each frame committed while it is subscribed once
and in order, or is told (by the drop) that it lost it.

### DataCenter accounts (`Account.cpp`, `DataCenter.cpp`)
*State*: lists of publishers and subscribers, one ring, one callback and one
timer per account, a pool that holds one account per name. *Operations*:
constructor and destructor, `Subscribe`, `Unsubscribe`, `Commit`, `Publish`,
`Pull`, `SetTimerPeriod`, `SetTimerEnable`. *Hard*: lists without locks that a
callback may change while they are walked; leaving a ring may fail halfway; one
pull per publication; an account whose name is taken lives on outside the pool.
*Correct when*: the two lists mirror each other and the ring's subscribers, a
publication reaches every subscriber, and what a subscriber has not read is what
its own pulls missed. (The timers are not modelled, section 6.)

### Unicore command path (`Unicore_GNSS_Library.cpp`)
*State*: one slot for the command that waits for its answer (`_commandPending`,
texts, `_lastCommandResult`), a mutex, a binary semaphore. *Operations*:
`sendCommandAsync`, `waitForCommandResponse`, `updateCommandResultFromSentence`,
`completePendingCommand`. *Hard*: the rx task reads the slot outside the mutex
and gives the semaphore after unlocking; sentences carry no call number, so late
ones can complete the wrong command. *Correct when*: OK means the receiver did
it, an answer is there when OK is reported, no call hangs.

### GNSS configuration (`GNSS.cpp`, `Unicore_UM980.cpp`)
*State*: a bit per configuration request, the cached receiver mode `_model`,
which RTCM groups are enabled, the survey timer. *Operations*: one service per
bit, in fixed order; a failed service keeps its bit; services ask for others.
*Hard*: partial failure, a cache refreshed only by queries, services that undo
one another (NMEA set-up switches off RTCM). *Correct when*: the wait for "no
bits left" ends, and then the receiver runs and has saved what the unit shows.

### Work mode state machine (`States.cpp`)
*State*: `systemState`, a one-place mailbox `requestedSystemState` +
`newSystemStateRequested`. *Operations*: `stateUpdate` (at most every 500 ms),
`requestChangeState` from the app's task. *Hard*: the mailbox is written by
another core without a lock; a request may arrive in any state, with the
previous configuration half done. *Correct when*: the last request wins and the
state shown is the mode the receiver is in.

### Bluetooth app protocol and connection (`HAL_Bluetooth.cpp`, `Bluetooth.cpp`)
*State*: settings written by commands, the read task's buffer, the serial port
object, `bluetoothState`, the data interface flag. *Operations*: one handler per
message; `bluetoothStart`, `bluetoothUpdate`, `bluetoothEnd`, reads and writes of
three tasks. *Hard*: the link drops between two calls or inside an answer;
settings are stored before validation is complete; the port's receive queue has
a limit; `bluetoothEnd` deletes the
object that two other tasks use. *Correct when*: a command is handled once and
its answer is its own; a refused work mode leaves the mode and the position
alone; only a task already inside its call meets a deleted port.

### NMEA2000 scheduler and conversion (`DP_NMEA2000.cpp`, `nmea0183_to_n2k.cpp`)
*State*: per PGN an interval, an offset, the next send time, an enable flag.
*Operations*: the 10 ms timer, group function requests. *Hard*: 32-bit
millisecond wrap and the sentinel 0, requests that keep postponing a PGN, day
counts as 16 bits. *Correct when*: an enabled PGN goes out once per interval.

### Network, WiFi, web server (`myNetwork.cpp`, `myWIFI.cpp`, `myWebServer.cpp`)
*State*: consumer masks, interface flags set by the WiFi event task, the server
state, the client socket and activity time, profile files, the firmware under
way. *Operations*: adding and removing consumers, `networkUpdate`,
`webServerUpdate`, the socket's open, close and text handlers, upload,
activation and deletion of profiles, firmware upload. *Hard*: the session is
opened by the HTTP task and ended by the main task without a lock; any send that
fails ends it; the file that names the active profile is itself a legal profile
name; driver events arrive late; a server loses its network; a request is cut anywhere, and power
fails between two file operations. *Correct when*: server, state and session
agree, a page keeps its session while what is sent to it arrives and a vanished
one gives it up, only an image
exactly as sent is booted, and no half profile is left unexplained.

### Message parser (`components/Parser`)
*State*: one state routine, a buffer of fixed length, a running checksum, a count
of bytes still to come. *Operations*: one routine per part of each format.
*Hard*: resynchronisation after a bad byte, counts that wrap, room for what is
appended. *Correct when*: what is delivered was sent, and a good message met
while searching is always delivered, whatever went before it.

The rest - settings, file system, I2C, battery, charger, printing, BLE serial
(compiled but not reached: the controller is configured for BR/EDR only) - is
sequential I/O and is not modelled.

## 2. Modules

| module | models | extends |
| --- | --- | --- |
| `FrameStream` | abstract: what a ring of frames promises its subscribers | |
| `RingBuffer` | `ringBuffer.cpp`, the detailed ring | |
| `RingBufferProofs` | theorems about `RingBuffer` | `RingBuffer` |
| `UnicoreCommand` | the command slot, rx task, serial line | |
| `UnicoreCommandProofs` | theorems about `UnicoreCommand` | `UnicoreCommand` |
| `GnssConfig` | `gnssUpdate` and the services, the receiver | |
| `SystemState` | `stateUpdate`, the mailbox, the app's task, composed with the configuration | `GnssConfig` |
| `SystemStateProofs` | theorems about `SystemState` | `SystemState` |
| `N2kSchedule` | `DP_NMEA2000.cpp`, the periodic PGNs and their requests | |
| `N2kScheduleProofs` | theorems about `N2kSchedule` | `N2kSchedule` |
| `DataBus` | accounts, pool, publications; each ring at the level of `FrameStream` | |
| `DataBusProofs` | theorems about `DataBus` | `DataBus` |
| `AppProtocol` | every handler of `HAL_Bluetooth.cpp`, as operators on the settings | |
| `Bluetooth` | the port and the three tasks that use it | `AppProtocol` |
| `BluetoothProofs` | theorems about `Bluetooth` | `Bluetooth` |
| `MessageParser` | the dispatch and the five formats the firmware's tables name | |
| `MessageParserProofs` | theorems about `MessageParser` | `MessageParser` |
| `Network` | `myNetwork.cpp` over `myWIFI.cpp`, as operators on a record | |
| `WebServer` | the server's states, the WebSocket session, `HAL_Update`'s switch of the data interface | `Network` |
| `WebUpload` | the handlers that store profiles and firmware | |
| `WebProofs` | theorems about `WebServer` and `WebUpload` | both |
| `MC*` | the instances for TLC | |

In every module a variable or action that has a counterpart in the code bears
its name; variables marked "history" exist for the properties only.
Definitions commented "Slip:" are plausible bugs of the definition
that follows them. They belong to no specification: each stands for a change of
the code that one of the properties must notice.

### RingBuffer
`bytes` holds at every ring position which byte of the stream was written there
last, so an overwrite is visible; `offset`, the heads and tails, `used`, `free`,
`frameCount` and the subscribers' `readPos`, `readIndex` and `lost` are the code's
fields; `ends` and `past` are history. An operation that holds the mutex to its
end is one action; the two loops (`WriteDrop`, `ReleaseOldest`) run one iteration
per step while `op` says which operation is inside, so that their termination can
be stated. A call that does not get the lock changes nothing and is a stutter.
`FrameStream` forgets both tables: it has the committed frames, how many of them
are gone, and for each subscriber how many it was given and how many it lost. `IsFrameStream` is the
refinement.

### UnicoreCommand
A command is its first word, which is all that the matching looks at. The client
and rx tasks are cut exactly where the other one can see a difference: inside
the critical section that arms the slot (rx reads it without the mutex), between
unlock and transmit, between completing and giving the semaphore, between giving
and the callback. Commands and sentences may be lost and late; the receiver may
refuse. A damaged sentence is given out like any other (`parser_receiver`): the
matching finds in it the words it looks for, as in an intact one, or does not,
as if it were lost; damage that makes the words of one answer into those of
another is left out. The mutex itself shows as guards: `RxComplete` waits for an arming
client, a client that finds `complete` under way may time out on the mutex.

### GnssConfig and SystemState
A service is one step that picks what becomes of its command: done, refused,
done but reported as failed (`unheard`), reported as done without being done
(`phantom`), or answered too late for the reader (`stale`). `UnicoreCommand`
shows how the last two come about. `Faults` names those a run allows.
The receiver powers up in whatever it had saved, and ends a survey by itself
(`SurveyEnds`; `Unicore_UM980.cpp:283`), at any time after its first tick: it is
then a fixed base at the position it found (`Surveyed`), which is what the next
MODE query reports. A receiver in that mode was told to survey, so `Told` says
what a save stores, and `HoldsSurvey` what a survey leaves the unit with.
`misled` is history. The first `configureBase` after power-up asks the receiver
for its mode, then has it put into rover mode whatever that was
(`Unicore_UM980.cpp:239-258`). If it was the base the unit wants, `_model` goes
on saying so, and the survey or the fixed base is not started: the unit shows a
base, and the receiver is a rover until `_model` is refreshed. A unit that had
saved a base and is asked for the same base before a rover was configured gets
there. `misled` marks that call, and the next call clears it.
`SystemState` runs `HAL_Update`'s order with the app's task interleaved: its
settings, the requested state and the flag are stored in three separate steps, and
`stateUpdate` tests and clears the flag in two. The accuracy of a fix and RTK
changes are nondeterministic; time is `Tick`.

### N2kSchedule
Time is counted in periods of the timer (10 ms) and wraps at `ClockRange`. A
callback is `Tick`, any number of `HandleRequest` (the library's
`ParseMessages`), then `SendDue` for the PGNs the bus takes, or
`NothingToSend` without a fix. `arm` is history: what set each next time, how
long ago in true time, and whether it is so long ago that `N2kIsTimeBefore` takes it for the
future. Between them the properties show what the code does about its two
singular points: where `NextSendMs` happens to be zero the message is moved to
the offset, and after an outage of half the clock's range a PGN stays silent
until the clock comes round. Both end by themselves (`SendingResumes`).

### DataBus
A call on an account is one step, except a publication, which is one step per
callback: a callback pulls a frame, or takes an account off the publisher, before
the publication goes on with the subscribers it began with. A cache is the sizes of the frames
some reader has still to read, which is what `FrameStream` keeps of a ring;
every call that takes the ring's mutex may time out. `missed` and `unremoved`
are history: they hold the excuses the properties name. A frame of
more than 256 bytes blocks the Bluetooth subscriber (its pull is refused) until
the ring forces the frame out.

### AppProtocol and Bluetooth
`AppProtocol` gives for a message, its type and the fields that decide
something the new settings, the state asked for and the answer. Two details it
keeps: `handleImuAntennaHeight` acknowledges a height it refuses where
`handleLogAntennaHeight` answers an error, and the base id is stored before the
rest of a work mode command is looked at. In `Bluetooth` a call of a method of
the port begins in one step and ends in another, so the port may be stopped or
deleted under it; what happens then is anything, a reset included. `caught` is
history: the tasks that were past their test of the state when `bluetoothEnd`
turned it off (`Bluetooth.cpp:367`). Those may use the deleted object
(`Bluetooth.cpp:415`); `LatePassesStayOut` shows that no other can. A work mode
command that waits while web configuration begins takes the unit back to a
working mode without Bluetooth (`BluetoothLostLate`: in no other way). A command
is sent when the port's receive queue has room (`QueueSize` commands, for the
bytes of `settings.sppRxQueueSize`): the radio stack drops the bytes that find
none, which leaves of a command what the parser throws away, so the commands
that count as sent are those the port took in. What `Handle` stores it stores
in one step, although the program stores it without a lock
(`HAL_Bluetooth.cpp:385-389`); `SystemState` cuts those stores apart.

### MessageParser
Bytes have their values and go through the routines one by one; the stream is a
sequence of segments, each a whole, damaged, cut off or overlong message or
noise. A CRC is a function of the bytes it covers, so a damaged message fails
it. `clean` is history: where the last segment met the parser searching.
`MessagesGenuine` names three parts: what is delivered is contiguous and apart,
what the phone sent was checked, and what is appended stays in the buffer.

### Network, WebServer and WebUpload
A call of the network layer is the set of records it may leave behind, because
each start of an interface may fail; driver events wait in a queue until the
event task handles them. In `WebServer` the main task stands at one of the
places of `HAL_Update`, and the stores of an HTTP handler, the choice of a
socket to send to and the store after a failed send are steps of their own.
The socket of a page that opens its WebSocket is any that no page has open: a
page that comes back may have another one, or another page's. Any send may fail,
to a page that is there too (`myWebServer.cpp:1860-1863`), and a request without
a WebSocket (`PageRequest`) marks activity as a frame does.
What the model shows of the code beside its properties: a page that
cannot be registered turns the server off for good (`myWebServer.cpp:1607`);
a live page loses its session to one send that fails; with two pages, the CLOSE
of one, or a send that failed late, ends the session of the other; a server that loses its network keeps its user bit until it runs
again; a page reached over the station interface gets no session, because
the session needs somebody on the access point; a station that is not online is
not stopped (`myNetwork.cpp:154`). `WebUpload` is cut between any two calls that
may fail or see the power go. A failed upload removes the file also where it
was to replace a good one, and the deletion of the active profile is two
removals. And `active.txt` is a name `webServerProfileNameIsSafe` accepts
(`myWebServer.cpp:588-608`), whose file is `PROFILE_ACTIVE_FILE`: in the model
`ActiveFile` is one of the `Profiles`, every handler treats it as the code does,
and an uploaded file has a first line that may name any profile. `ActiveExists`
names what can leave an active name without a profile: a failed upload or a cut
deletion of that profile (`loose`), a name written in part (`cut`), and an upload
of the active file itself (`foreign`), for which nothing need fail. A firmware request without any boundary is installed without its last
bytes, as `InstallsWhatWasSent` states.

## 3. Runs

| run | question | bounds and why they are enough |
| --- | --- | --- |
| `ring_frames` | do table, counters, bytes and readers stay in step, is it the abstract stream, and do the loops end? | 2 subscribers, 4 bytes, 4 table entries, 5 frames of 1, 3 and 4 (the whole ring) bytes: shortage of bytes, of table entries and of both, wraps of each ring at different times |
| `command_calls` | soundness, slot ownership, return of each call | three calls: one that times out, one its late answer reaches, one more for what that left behind; a command of each way of matching |
| `command_late_answer` | does OK mean accepted? *violated* | two calls |
| `state_sound` | with an obedient receiver, does the unit end in the mode asked for last, with the receiver in it? | a receiver that powers up in any of the three modes, with and without outputs, and ends a survey by itself; three app commands: every mode from every other, at every point of a configuration |
| `state_retry` | does every wait for the configuration end, with everything saved? | one app command on top of the configuration at power-up; commands refused, done but not heard of, or answered too late, any finite number of times |
| `n2k_clock` | is every PGN sent when its schedule says, wherever the clock wraps? | one PGN (PGNs share nothing but the clock and the fix); a clock of 12 callbacks, so that its wrap, its zero and its half meet every phase of a period of 2 to 4 and an offset of 0 to 4; a callback up to one period late; requests that are accepted and refused; outages of any length |
| `bluetooth_session` | are commands lost, doubled or answered for another, and who meets the deleted port? | two of six commands between two starts, a buffer of two: a command in the buffer, one in the port, and the end of Bluetooth against both; connections lost without limit. The receive queue holds both commands, so here it never blocks the phone, which leaves out no behaviour of a smaller one; the proofs hold for every size |
| `bus_accounts` | do lists and rings stay in step, and is a backlog explained? | a publisher and two accounts of one name (one of them outside the pool), two frames in the cache, two lock timeouts: one for each of the two accounts that read the ring |
| `parser_streams` | is what is delivered genuine, and every good message met while searching delivered? | every stream of three out of 26 segments, in the phone's and the receiver's parser; headers of 6 and a buffer of 16 bytes, so that three segments fill, overrun and leave it |
| `parser_receiver` | is what the receiver sent checked? *violated* | the same streams |
| `web_session` | do server, state and session agree, and does the session end when it should? | two sockets, a WebSocket opened twice (by two pages, or by one that comes back on the same or the other socket), one start, one driver event waiting: a stale close, a late failing send, a send that fails to a live page, and a network that is lost and found |
| `web_uploads` | what is left of uploads and deletions that fail or are cut by the power, and what is booted? | two profiles and `active.txt`, each of which may be uploaded with any first line; firmware bodies of up to four bytes over two kinds, with a boundary of three, bytes behind it or none, received in pieces of every size |

Each run checks its module's `TypeOK` too: as a property of its own in
`ring_frames`, elsewhere as the first conjunct of a structural invariant
(`CleanCallOwnsSlot`, `ConfigurationSaved`, `NothingOverdue`, `ListsAgree`,
`CommandsAccounted`, `MessagesGenuine`, `ServerMatchesState`; in `web_uploads`
one half in `ProfilesWhole`, the other in `InstallsWhatWasSent`).
`SpaceAccounted` is a conjunct of what `TableSafe` proves.
`parser_streams`, `parser_receiver` and the runs of a bounded number of calls
do not check deadlock, because the stream, or the calls, may end.

Two runs expect a violation; `findings` in `PROJECT.json` quotes what the code
says of itself. The late acknowledgement of a command that timed out
completes the next command with OK (`command_late_answer`), and a damaged
message of the receiver is delivered, because the callback for a bad checksum
answers "good" (`parser_receiver`).

Known weaknesses without a run of their own, each seen by adding to a run what
is named:

* A frame exactly as large as the ring can be committed and never read:
  `WaitingFrameReadable` in `ring_frames`.
* A query's caller is woken before the answer is stored: `AnswerThere` in
  `command_calls`.
* A new position for a running fixed base is acknowledged and never sent:
  `PositionApplied` in `state_sound`, with two `Positions`. Likewise a receiver
  that has gone over from its survey to a fixed base by itself passes for the
  fixed base the app asks for next, and stays at the position it found:
  `PositionApplied` with one position. `FixedBaseRuns` speaks of the mode alone.
* A receiver that powers up as the base it had saved, and is asked for that base
  first, is put into rover mode and believed to be a base: `FixedBaseRuns` and
  `SurveyRan` without `\/ misled`, in `state_sound`.
* A call that meets a give left behind by an earlier one returns before its slot
  is free, and the next finds it busy: `CleanCallOwnsSlot` without `clean`, in
  `command_calls`.
* A command reported as done that was not, because the late answer of an earlier
  one completed it, is never asked for again: `"phantom"` in the `Faults` of
  `state_retry`.
* A survey whose start the receiver refused is announced complete, and a MODE
  query that fails leaves the receiver a base under a unit that shows a rover
  (`gnssUpdate` clears the rover request whatever `configureRover` returns,
  `GNSS.cpp:154`): `"refused"` in the `Faults` of `state_sound`.

## 4. Fairness

* `RingBuffer`: weak fairness of the step of an operation that holds the mutex
  (a running task is scheduled). Nobody is obliged to read or write.
* `UnicoreCommand`: weak fairness of the client's own steps, among them the
  timeout of `xSemaphoreTake`. Nothing obliges the receiver to answer or the rx
  task to keep up.
* `N2kSchedule`: weak fairness of the timer and of the rest of its callback
  (the timer task has the highest application priority). The bus need not take
  anything and the fix need not stay: where `SendingResumes` needs that, it says so.
* `SystemState`: weak fairness of the main loop, strong fairness of
  `StateUpdateBegin` (the loop comes round before and after 500 ms have passed,
  and 500 ms do pass), weak fairness of the app task finishing a request it
  began, and of time. `RetrySpec`, for `ConfigurationCompletes` only, adds that
  the receiver does not refuse the same things for ever: two strong fairness
  conditions, because the request for NMEA puts the RTCM request back each time.

* `Bluetooth`: weak fairness of the main task, the read task and the rx task,
  whose calls end even on a port that is gone (by a reset, then); strong
  fairness of `BluetoothPoll`, which waits for 100 ms that do pass. The phone
  owes nothing.
* `WebServer`: weak fairness of the main task, the HTTP task, the event task and
  of the 5 s of grace; strong fairness of choosing to send, and of what is
  assumed to succeed in the end: starting the access point, starting the HTTP
  server, and noticing that a page that is gone takes no data. `SessionEnds`
  supposes, beside every page being gone, that no client goes on making requests:
  each of them marks activity and begins the grace time anew.
* `DataBus`, `MessageParser`, `WebUpload`: safety only.

## 5. Proofs

`RingBufferProofs` proves, for every ring size, table size, set of frame sizes,
number of subscribers and length of run allowed by `RingBufferAssumption`:

| theorem | states |
| --- | --- |
| `TypeCorrect` | `TypeOK` |
| `RetainedBytesSafe` | a write never overwrites a byte of a retained frame |
| `TableSafe` | the offset table and the counters describe exactly the retained frames |
| `ReadersSafe` | each subscriber stands at the oldest retained frame it was neither given nor dropped from |
| `SmallFramesSafe` | every waiting frame smaller than the ring has its size |
| `RingImplementsStream` | every behaviour of the ring is one of `FrameStream` |

The safety properties are not inductive one by one: that a drop leaves bytes intact
needs the counters, the counters need the table, the table needs the
frames. The inductive invariant is the conjunction

    TypeOK /\ StreamOrdered /\ CallsConsistent /\ TableMatchesStream
           /\ SpaceAccounted /\ RetainedBytesIntact /\ ReadersPlaced

where `StreamOrdered` (frame ends grow in the unwrapped byte count and no frame
is longer than the ring) and `CallsConsistent` (only a write has bytes to store,
only a releasing read has bytes to hand out) are the strengthening. Lemma `Invariance` has one step per action
and below it one lemma per conjunct. The arithmetic of wrapped offsets comes first:
two positions less than a ring apart have different offsets, and
`Distance` of their offsets is their difference - which is why a frame of the
whole ring, whose offsets coincide, is excluded from `SmallFramesReadable`.
The refinement theorem uses the invariant and shows that every step maps to a step of
the abstract stream or to a stutter.

`DataBusProofs`, for any finite set of accounts, any names and caches, and any
bounds on frames and timeouts, provided that the data center's own account has no
ring:

| theorem | states |
| --- | --- |
| `ListsCorrect` | `ListsAgree` |
| `ReadersCorrect` | `ReadersAreSubscribers` |
| `BacklogCorrect` | `BacklogIsMissed` |

The strengthening is `ListsMirror` (whom somebody follows is in the pool),
`NamesApart` (the pool's names differ, so a list that is part of the pool holds at
most one account per name) and `OnlyRingsRead` (an account without a ring has no
reader, so one that is constructed again starts with none). A destructor is the
hard step: it must take the account out of the lists at the other ends of its
subscriptions before the pointer dies, and what a removal leaves in a ring because
the mutex timed out is what `unremoved` records.

`UnicoreCommandProofs`, for any commands and any number of calls. Both speak of
clean calls: those that found nothing of an earlier call on its way. Other calls
may return what is not so (`command_late_answer`) and may leave the slot armed
with nobody waiting:

| theorem | states |
| --- | --- |
| `CleanCallsReturnTruth` | a call that began on a quiet link returns what the receiver did |
| `CleanCallsFreeSlot` | while such a call is the last, the slot is armed only as long as it is in progress |

That a result is true is not inductive: it was true in the slot, before that in
the rx task's hands, and before that on the line. The invariant adds to the two
properties `Numbered` (calls are numbered in order, and the line and the
receiver know only of calls that were sent), `ErrorsFinal` (a command answered
with an error is no longer on its way to the receiver) and `CleanCall`, which follows the answer of
a clean call from the command on the wire to the slot.

`SystemStateProofs`, for any number of app commands, any positions and any length
of a survey, provided that there is a position to start with. `FinishedIsSaved`
needs that `"phantom"` is not among the faults; the others need that the receiver does
what it is told (`Faults = {}`), whatever it powers up as and whenever it ends a survey:

| theorem | states |
| --- | --- |
| `FinishedIsSaved` | `ConfigurationSaved` |
| `SoundReceiver` | `SoundInv`, the inductive invariant of the next four |
| `ShownRoverIsRover` | `RoverConfigured` |
| `ShownFixedBaseRuns` | `FixedBaseRuns` |
| `ShownSurveyRan` | `SurveyRan` |
| `ShownOutput` | `OutputAsShown` |

The proviso is needed: added to the `Faults` of `state_sound`, each of the four
faults breaks at least three of `RoverConfigured`, `FixedBaseRuns`, `SurveyRan` and
`OutputAsShown`. `FixedBaseRuns` and `SurveyRan` except what follows a `misled`
call; nothing else of a receiver that powers up as a base is excepted.
For `FinishedIsSaved` the strengthening `RequestsBegin` says that only states that come before the
configuration of their mode are ever asked for, so that taking a request cannot
pass for being configured. Lemma `ServiceSaves` is the heart of the proof: of the ten
services only `SAVE` can leave the request word empty, and it does so only with
the configuration saved; `SwitchStep` shows that a state that leaves the receiver
unsaved leaves a request behind.

For the others the receiver is compared with what the unit shows while it is still being
configured, so `ReceiverFollows` says in each state what is true or still asked for.
`BitsBelong` and `BitsInTurn` tie each request to the states that ask for it and to
its turn in the pass; `FirstBase`, `SurveyTimed` and `RtcmKnown` say what the
driver's shortcuts rest on (no base is shown before the first `configureBase`, a
survey begins no later than the timer it is measured with, a base is known to put
out RTCM); `RoverMode`,
`BaseMode`, `RoverOutput` and `BaseOutput` follow the two halves of the
configuration. `BaseMode` holds only while nothing the app asked for is `Pending`:
the app's task stores the settings before it asks for the change of mode, so in
between the settings name a base that the unit is about to leave. It holds only
while the driver is not `misled`, either. A survey that ends by itself is a step of
the receiver alone, and leaves all of them as they were because they ask of a base
that surveys no more than that it holds its survey (`SettlesStep`).

`N2kScheduleProofs`, for every range of the clock, any PGNs, periods and offsets
that `N2kScheduleAssumption` allows (periods and offsets shorter than half the
clock's range, as `0xffff` ms is of 2^32):

| theorem | states |
| --- | --- |
| `CallbacksLeaveNothingOverdue` | `NothingOverdue` |
| `PeriodsKept` | the action property `PeriodKept` |

The strengthening is `TimeTrue`: the distance of clock and next time is the one
the history of the PGN tells, up to one lap of the clock, unless the PGN is
lost. Lemma `BeforeIsEarly` is its use: for such times the wrapped
comparison `N2kIsTimeBefore` says exactly whether the wait is over.

`WebProofs`, for any sockets, openings, starts and waiting reports of the driver,
with and without saved networks; and for any profiles, contents, boundary, buffer
larger than the boundary, and firmware requests of bytes. Names are assumed
different from the models' own markers (`SocketsAssumption`, `NamesAssumption`):

| theorem | states |
| --- | --- |
| `ServerAndStateAgree` | `ServerMatchesState` |
| `LonePageKept` | the action property `LonePageKeepsSession` |
| `StoredProfilesWhole` | `ProfilesWhole` |
| `ActiveProfileExists` | `ActiveExists` |
| `InstalledImageIsWhatWasSent` | `InstallsWhatWasSent` |

For the server, `ServerOnNetwork` says that a server that is not off asks for
the access point (so it may become a user of it) and bounds the reports that pile
up while it starts or stops; `SessionsOfPages` says that a main task that is sending
has a server, that every socket in anyone's hands is a page's that was opened, and
that a page whose CLOSE is being handled is no longer open, which is why nobody but
that page can end the session of a lone page. The lemmas on `Network`
end in `ApplyStep`: a change of the requests leaves them alone and makes the driver
report at most once, because the same call never both starts and stops a station.

For profiles, the strengthening `HandlersHaveFiles` says that a handler under way works on a file
that exists, and that an active file that does not exist names nothing. For firmware, `RequestInParts` says that image, buffer and what is
still to come are the request in three parts, that no boundary lies in what was
received, and that a buffer behind a written image holds all but one of a
boundary's bytes; lemma `SearchInParts` shows that the first boundary of buffer and
new bytes is then the first one of the request, wherever it was cut.

`MessageParserProofs`, for both of the firmware's tables of formats, every stream of
nonempty segments of bytes and every number of them, every header and name length
and every buffer that fits 16 bits:

| theorem | states |
| --- | --- |
| `DeliveredAreGenuine` | `MessagesGenuine` |
| `WholeAreDelivered` | `WholeMessagesDelivered` |

The assumption is that the longest name and what is appended behind it fit the
buffer (`NameLimit + 8 <= BufferLength`), as they do in the smallest one the code
accepts (`SEMP_MINIMUM_BUFFER_LENGTH`), and that a header of more than 5 bytes fits it.
The invariant for the first says that the buffer is the part of the stream
that ends with the last byte read (`BufferIsSent`), that each state knows how far it got
(`Progress`, one part per format: the count of remaining bytes is what
the message's length field leaves, or has wrapped and runs over the end of the
buffer), and that what was delivered ends before what is being read
(`DeliveredBefore`). For the second, `OnItsWay` follows a message that began
while the parser was searching: it is being read from its own first byte and in
its own format, or it was delivered. The proof shows of each
state that the message's next byte is one that state waits for, whatever bytes
came before; and no format takes a message that is whole for another, because
their first bytes differ, or the third of the two that begin alike.

`BluetoothProofs`, for any commands, any number of them between two starts, any
positions and any sizes of the receive queue and of the read task's buffer:

| theorem | states |
| --- | --- |
| `NothingLost` | `CommandsAccounted` |
| `AnswersBelong` | `AnswersMatch` |
| `RefusalsChangeNothing` | `KnownPointAccepted` |
| `LatePassesKeptOut` | `LatePassesStayOut` |
| `LostOnlyLate` | `BluetoothLostLate` |

The invariant has four parts, proved one after the other because three of them
do not depend on where the main task is. `ControlInv` relates the port and
its state to where the tasks are: a task past its test while the state is off was
caught (`PassesCaught`), a port is stopped only with the state off (`PortOff`),
and whatever asks for a working mode after web configuration is late
(`WebAsked`). `BuffersInv` says of every buffer which numbers it holds
(`InOrder`): what was handled ends where what is pending begins, and that ends
where the port's own buffer begins; a command being answered is in two places,
hence `Pending`. `AnswersInv` bounds the answers by the commands that are
settled, which makes each new answer the last. `SettingsInv` rests on lemma
`SettingsEffect`: an accepted work mode command sets the mode and its position as
it says, and every other command leaves both alone. `QuietStep` is what most
steps are to the last three parts.

Only model-checked: liveness (`OperationsEnd`, `CallsReturn`,
`LastRequestWins`, `ConfigurationCompletes`, `SendingResumes`,
`CommandsHandled`, `SessionEnds`, `ServerRuns`, `StationGoesOffline`), which is
outside the prover's reach: it needs fairness and ENABLED. Every invariant and
action property of a passing run is proved.

## 6. Not modelled, and why

* Ring buffer: statistics counters, `GetSlowestSubscriber` (no caller).
* Command path: `begin` and `end`, the polled mode of `waitForCommandResponse`
  (the rx task is always started), transmit failure after `end`.
* State machine: `STATE_BASE_CASTER_*`, `STATE_BASE_ASSIST_*`, profile,
  shutdown and NTP states (nothing requests them); request bits nobody sets.
  Web configuration is left by restart only, which ends the behaviour.
* A torn read of the base position: the three doubles are one value here. RTCM
  written by `btReadTask` between the two writes of a command line is, to
  `UnicoreCommand`, a garbled command.
* The date and time read by the NMEA2000 timer while the rx task writes them
  (`nmea0183_to_n2k.cpp:110`): they have no lock and no sequence count, so
  nothing holds of them together.
* Accounts: the timers (`SetTimerPeriod`, `SetTimerEnable`). Their one user,
  `DP_NMEA2000`, sets a period once and lives as long as the program; an account
  that is destroyed with its timer running, or whose period is set again while it
  runs (`Account.cpp:440` deletes a running timer), does not occur. `Notify`, pulls
  answered by a publisher's callback (`EVENT_SUB_PULL`), callbacks that destroy
  accounts, `~DataCenter` (a static object): no node uses them.
* Bluetooth: wifi commands that set something and are shorter than the five
  bytes their handler reads (`HAL_Bluetooth.cpp:519-522` looks at no length:
  such a command is read past its end, without a payload through a null
  pointer); the BLE radio types, `bluetoothStop` (no caller), the contents of
  answers.
* WiFi and network: a station's connection, which blocks for up to its timeout,
  is one step; channels, addresses, the choice among saved networks. The
  saved networks cannot be set by this build, so in it a station has only the
  consumer the model calls "other".
* Web server: handlers that only read, the settings a page may set, reading a
  multipart header, refusals made before anything is stored.
* Parser: UBLOX, SBF and SPARTN, which are in no parser table; decoding the
  fields of a delivered message (`Unicore_GNSS_Library.cpp`), which is straight
  line code that keeps the last value of each field.
* The vendored libraries, `components/NMEA2000` and `components/arduino-esp32`,
  the web pages and the generated page header. They are nine tenths of the
  repository's lines and none of this firmware's logic; `HandleRequest`,
  `onEvent`, LittleFS, the updater, the HTTP server and the WiFi driver are
  modelled from how `src/main` uses them and marked external. The share of the
  repository's lines that the models stand for is therefore small whatever is
  modelled of the firmware.
* Everything else listed as `not_modelled` in `PROJECT.json`: settings, files,
  power and I2C, BLE serial - sequential helpers and pure I/O, or not reached.

## 7. Plan

Done: the ring every sentence goes through, the command path to the receiver,
the configuration and mode machine built on it, the NMEA2000 schedule, the
accounts, the parser of both streams, the app's protocol and its link, the
network with the web server, and what the web server stores.

Left to model: `GnssTime`, the calendar functions of `nmea0183_to_n2k.cpp`
(`DaysSince1970`, `IsValidDate`) against a reference calendar, and the
composition of `MessageParser` with `Bluetooth` (the read task's buffer feeds
the parser byte by byte; here a command is whole).

Abstract specifications worth stating: what a sentence source promises its
readers end to end (`FrameStream` over the chain of accounts), and the unit as
the app sees it (a mode asked for, a mode shown) with `SystemState` as its
implementation.

Proofs worth having next: that `SystemState` and `WebServer` implement such
abstract specifications, and the safety half of the liveness properties, for
instance that a mode asked for stays asked for until it is taken.
