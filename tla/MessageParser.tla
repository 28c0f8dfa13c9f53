---------------------------- MODULE MessageParser ----------------------------
(***************************************************************************)
(* The message parser both serial streams go through (components/Parser):  *)
(* one byte at a time, no look-ahead, no time-out.  Every byte goes into   *)
(* one buffer; the state is the routine the next byte goes to.  A byte     *)
(* that does not fit its routine starts the search for a preamble anew,    *)
(* with that byte, and what the buffer held is forgotten.                  *)
(*                                                                         *)
(* Formats: the app's frames (Parse_CUSTOM), RTCM (Parse_RTCM), Unicore    *)
(* binary (Parse_Unicore_Binary) and the two sentences, NMEA (Parse_NMEA)  *)
(* and Unicore hash (Parse_Unicore_Hash).  The phone's stream is parsed    *)
(* for the first two, the receiver's for the last four.                    *)
(*                                                                         *)
(* Bytes have their values.  A CRC and a checksum are any function of the  *)
(* bytes they cover: here the first byte of a CRC is their sum and the     *)
(* others are zero, a checksum is the sum as hex digits.  NMEA also takes  *)
(* the checksum of the sentence with its dollar sign.                      *)
(***************************************************************************)
EXTENDS Integers, Sequences, SequencesExt

CONSTANTS
    Segments,      (* what the stream is made of: messages, whole or not,   *)
                   (* and noise                                             *)
    MaxSegments,   (* bound: segments in one stream                         *)
    BufferLength,  (* bufferLength (1024 for the receiver, 2048 the phone)  *)
    HeaderLength,  (* bytes of the header of a frame (20 and 24)            *)
    NameLimit      (* longest sentence name (15)                            *)

(* A byte, and what the formats count in: bytesRemaining has 16 bits.       *)
Byte == 0..255
WordSize == 65536
Word == 0..WordSize - 1

(* The name of a sentence and what follows it fit the smallest buffer there *)
(* is (SEMP_MINIMUM_BUFFER_LENGTH), and bytesRemaining counts farther than  *)
(* a buffer goes.                                                           *)
ASSUME MessageParserAssumption ==
    /\ Segments \subseteq Seq(Byte) \ {<<>>}
    /\ MaxSegments \in Nat
    /\ BufferLength \in Word /\ BufferLength > HeaderLength
    /\ HeaderLength \in Nat /\ HeaderLength > 5
    /\ NameLimit \in Nat \ {0} /\ NameLimit + 8 <= BufferLength

A == 170  (* 0xAA *)
B == 68   (* 0x44 *)
CustomC == 24  (* 0x18 *)
UnicoreC == 181  (* 0xB5 *)
D3 == 211
Dollar == 36
Hash == 35
Comma == 44
Asterisk == 42
CR == 13
LF == 10

Tables == {<<"custom", "rtcm">>, <<"nmea", "rtcm", "binary", "hash">>}

LastBytes(bytes, n) == SubSeq(bytes, Len(bytes) - n + 1, Len(bytes))

SumOf(bytes) == FoldLeft(LAMBDA s, x : (s + x) % 256, 0, bytes)

CrcLength(type) == IF type = "rtcm" THEN 3 ELSE 4
CrcOf(type, bytes) == [i \in 1..CrcLength(type) |-> IF i = 1 THEN SumOf(bytes) ELSE 0]

(* sempAsciiToNibble: the value of a hex digit, or -1.  (Bit 5 is set first, *)
(* which makes digits of the control characters 16..25 too.)                *)
Nibble(b) ==
    IF b \in 48..57 THEN b - 48
    ELSE IF b \in 16..25 THEN b - 16
    ELSE IF b \in 65..70 THEN b - 55
    ELSE IF b \in 97..102 THEN b - 87
    ELSE -1

VARIABLES
    table,      (* the parsers, in the order they are tried                 *)
    stream,     (* history: every byte sent                                 *)
    read,       (* how many of them the parser has taken                    *)
    parse,      (* state, buffer, type and the scratch pad                  *)
    delivered,  (* history: the messages given to eomCallback               *)
    segments,   (* history: number of segments sent                         *)
    clean       (* history: where the last segment begins, if the parser    *)
                (* was searching for a preamble then, else 0                *)

vars == <<table, stream, read, parse, delivered, segments, clean>>

(* from is history: where in the stream the buffer begins.                  *)
Searching(buffer, from) ==
    [state |-> "first", buffer |-> buffer, type |-> "none", remaining |-> 0, name |-> 0,
     from |-> from]

Init ==
    /\ table \in Tables
    /\ stream = <<>> /\ read = 0
    /\ parse = Searching(<<>>, 0)
    /\ delivered = <<>>
    /\ segments = 0 /\ clean = 0

Send ==
    /\ read = Len(stream) /\ segments < MaxSegments
    /\ \E segment \in Segments :
         /\ stream' = stream \o segment
         /\ clean' = IF parse.state = "first" THEN read + 1 ELSE 0
    /\ segments' = segments + 1
    /\ UNCHANGED <<table, read, parse, delivered>>

-----------------------------------------------------------------------------
(* The routines.                                                            *)

b == stream[read + 1]
buffer == Append(parse.buffer, b)
length == Len(buffer)

(* sempFirstByte: the byte is the first of the buffer, and the first parser *)
(* of the table whose preamble it is takes over.                            *)
Preamble(type, byte) ==
    byte = (CASE type \in {"custom", "binary"} -> A [] type = "rtcm" -> D3
              [] type = "nmea" -> Dollar [] type = "hash" -> Hash)

After(type) ==
    CASE type \in {"custom", "binary"} -> "sync2" [] type = "rtcm" -> "length1"
      [] type \in {"nmea", "hash"} -> "name"

(* Slip: the byte that does not fit is not looked at again.                 *)
FirstByteForgets(byte) == Searching(<<byte>>, read + 1)

FirstByte(byte) ==
    LET i == SelectInSeq(table, LAMBDA t : Preamble(t, byte))
    IN  IF i = 0 THEN Searching(<<byte>>, read + 1)
        ELSE [Searching(<<byte>>, read + 1) EXCEPT !.state = After(table[i]), !.type = table[i]]

SearchAgain == parse' = FirstByte(b) /\ UNCHANGED delivered

Goto(state, remaining) ==
    /\ parse' = [parse EXCEPT !.buffer = buffer, !.state = state, !.remaining = remaining]
    /\ UNCHANGED delivered

(* room is the number of bytes of the buffer the message takes.             *)
Deliver(message, room) ==
    delivered' = Append(delivered,
        [type |-> parse.type, bytes |-> message, room |-> room, from |-> parse.from])

(* badCrc, called for a message that fails its check: the phone's parser    *)
(* has none, the receiver's answers that the message is good.               *)
BadCrcAccepts == table # <<"custom", "rtcm">>

(* sempParseNextByte: a byte that finds the buffer full starts the search.  *)
TooLong ==
    /\ Len(parse.buffer) >= BufferLength
    /\ SearchAgain

In(states) == Len(parse.buffer) < BufferLength /\ parse.state \in states

FirstByteState == In({"first"}) /\ SearchAgain

(* The sync bytes of a frame.                                               *)
Sync ==
    /\ In({"sync2", "sync3"})
    /\ IF parse.state = "sync2"
         THEN IF b = B THEN Goto("sync3", 0) ELSE SearchAgain
         ELSE IF b = (IF parse.type = "custom" THEN CustomC ELSE UnicoreC)
                THEN Goto("header", 0) ELSE SearchAgain

(* The header ends with the message length, in the model's header.  An app  *)
(* frame without data goes on with its CRC; a Unicore frame always reads    *)
(* data first.                                                              *)
Header ==
    /\ In({"header"})
    /\ IF length < HeaderLength THEN Goto("header", 0)
       ELSE IF b = 0 /\ parse.type = "custom" THEN Goto("crc", 4)
       ELSE Goto("data", b)

(* RTCM: ten bits of length, of which the message number takes two bytes.   *)
(* bytesRemaining has 16 bits.                                              *)
Less(n) == (n - 1) % WordSize

RtcmLength ==
    \/ /\ In({"length1"})
       /\ IF b > 3 THEN SearchAgain ELSE Goto("length2", b * 256)
    \/ /\ In({"length2"}) /\ Goto("message1", parse.remaining + b)
    \/ /\ In({"message1"}) /\ Goto("message2", Less(parse.remaining))
    \/ /\ In({"message2"}) /\ Goto("data", Less(parse.remaining))

Data ==
    /\ In({"data"})
    /\ LET left == Less(parse.remaining) IN
       IF left = 0 THEN Goto("crc", CrcLength(parse.type)) ELSE Goto("data", left)

CrcOk(type, message) ==
    LET covered == SubSeq(message, 1, Len(message) - CrcLength(type))
    IN  message = covered \o CrcOf(type, covered)

(* The last byte of the CRC: a message that passes goes to the callback.    *)
Crc ==
    /\ In({"crc"})
    /\ IF parse.remaining > 1 THEN Goto("crc", parse.remaining - 1)
       ELSE /\ IF CrcOk(parse.type, buffer) \/ BadCrcAccepts
                 THEN Deliver(buffer, length) ELSE UNCHANGED delivered
            /\ parse' = [parse EXCEPT !.state = "first", !.buffer = buffer]

(* The name of a sentence: letters and digits, not too many, then a comma.  *)
NameCharacter == b \in 48..57 \/ b \in 65..90 \/ b \in 97..122

Name ==
    /\ In({"name"})
    /\ IF b = Comma /\ parse.name > 0 THEN Goto("text", 0)
       ELSE IF NameCharacter /\ parse.name < NameLimit
         THEN parse' = [parse EXCEPT !.buffer = buffer, !.name = @ + 1] /\ UNCHANGED delivered
       ELSE SearchAgain

(* Checksum characters: a hash sentence has 8 (a CRC), or 2 if its name     *)
(* contains MODE.                                                           *)
IsMode(name) == \E i \in 1..Len(name) - 3 : SubSeq(name, i, i + 3) = <<77, 79, 68, 69>>

NameOf(bytes) == SubSeq(bytes, 2, SelectInSeq(bytes, LAMBDA c : c = Comma) - 1)

Digits(type, bytes) == IF type = "nmea" \/ IsMode(NameOf(bytes)) THEN 2 ELSE 8

(* Room kept in the buffer for what follows the data.                       *)
Overhead(type) == IF type = "nmea" THEN 6 ELSE 3

Text ==
    /\ In({"text"})
    /\ IF b = Asterisk THEN Goto("digits", Digits(parse.type, parse.buffer))
       ELSE IF length + Overhead(parse.type) > BufferLength THEN SearchAgain
       ELSE Goto("text", 0)

ChecksumDigits ==
    /\ In({"digits"})
    /\ IF Nibble(b) < 0 THEN SearchAgain
       ELSE IF parse.remaining > 1 THEN Goto("digits", parse.remaining - 1)
       ELSE Goto("end", 0)

(* The checksum covers what is between the first character and the asterisk. *)
ChecksumOk(type, message) ==
    LET digits == Digits(type, message)
        value == FoldLeft(LAMBDA v, d : (v * 16 + Nibble(d)) % 65536, 0,
                          LastBytes(message, digits))
        sum == SumOf(SubSeq(message, 2, Len(message) - digits - 1))
    IN  value = sum \/ (type = "nmea" /\ value = (sum + Dollar) % 256)

(* A sentence gets CR, LF and a zero byte.  A hash sentence with a CRC is   *)
(* checked without badCrc, and dropped if there is no room for them.        *)
ValidateChecksum ==
    LET message == parse.buffer
        room == Len(message) + 3
        ok == ChecksumOk(parse.type, message)
    IN  IF IF Digits(parse.type, message) = 8 THEN ok /\ room <= BufferLength
                                              ELSE ok \/ BadCrcAccepts
          THEN Deliver(message, room) ELSE UNCHANGED delivered

(* Slip: the line end counts as part of the sentence.                       *)
LineTerminationCounted ==
    /\ In({"end"})
    /\ IF b \in {CR, LF}
         THEN /\ parse' = [parse EXCEPT !.state = IF b = CR THEN "lf" ELSE "cr",
                                        !.buffer = buffer]
              /\ UNCHANGED delivered
         ELSE ValidateChecksum /\ parse' = FirstByte(b)

(* The first byte after the checksum; a CR or LF may be followed by the     *)
(* other one.  Any other byte ends the sentence and starts the search.      *)
LineTermination ==
    /\ In({"end"})
    /\ IF b \in {CR, LF}
         THEN /\ parse' = [parse EXCEPT !.state = IF b = CR THEN "lf" ELSE "cr"]
              /\ UNCHANGED delivered
         ELSE ValidateChecksum /\ parse' = FirstByte(b)

LineEnd ==
    /\ In({"lf", "cr"})
    /\ ValidateChecksum
    /\ parse' = IF b = (IF parse.state = "lf" THEN LF ELSE CR)
                  THEN [parse EXCEPT !.state = "first"] ELSE FirstByte(b)

ParseNextByte ==
    /\ read < Len(stream)
    /\ \/ TooLong \/ FirstByteState \/ Sync \/ Header \/ RtcmLength \/ Data \/ Crc
       \/ Name \/ Text \/ ChecksumDigits \/ LineTermination \/ LineEnd
    /\ read' = read + 1
    /\ UNCHANGED <<table, stream, segments, clean>>
-----------------------------------------------------------------------------
Next == Send \/ ParseNextByte

Spec == Init /\ [][Next]_vars

-----------------------------------------------------------------------------
(* Reference: what a message of each format is, over its bytes.             *)

IsFrame(type, m) ==
    /\ Len(m) >= HeaderLength + 4
    /\ SubSeq(m, 1, 3) = <<A, B, IF type = "custom" THEN CustomC ELSE UnicoreC>>
    /\ Len(m) = HeaderLength + m[HeaderLength] + 4
    /\ type = "binary" => m[HeaderLength] > 0

(* (The message number of an RTCM message takes two bytes of its data; a    *)
(* message that holds nothing else is not recognised.)                      *)
IsRtcm(m) ==
    /\ Len(m) >= 3
    /\ m[1] = D3 /\ m[2] <= 3
    /\ m[2] * 256 + m[3] >= 3
    /\ Len(m) = 3 + m[2] * 256 + m[3] + 3

IsSentence(type, m) ==
    /\ Len(m) > 0 /\ m[1] = (IF type = "nmea" THEN Dollar ELSE Hash)
    /\ \E comma, asterisk \in 3..Len(m) :
         /\ m[comma] = Comma /\ comma < asterisk /\ comma <= NameLimit + 2
         /\ \A i \in 2..comma - 1 : m[i] \in (48..57) \union (65..90) \union (97..122)
         /\ m[asterisk] = Asterisk /\ \A i \in comma..asterisk - 1 : m[i] # Asterisk
         /\ Len(m) = asterisk + Digits(type, m)
         /\ \A i \in asterisk + 1..Len(m) : Nibble(m[i]) >= 0

IsMessage(type, m) ==
    CASE type \in {"custom", "binary"} -> IsFrame(type, m)
      [] type = "rtcm" -> IsRtcm(m)
      [] type \in {"nmea", "hash"} -> IsSentence(type, m)

CheckHolds(type, m) ==
    IF type \in {"nmea", "hash"} THEN ChecksumOk(type, m) ELSE CrcOk(type, m)

(* What fits the buffer, with what a sentence gets appended.                *)
Fits(type, m) ==
    IF type \in {"nmea", "hash"} THEN Len(m) + 3 <= BufferLength ELSE Len(m) <= BufferLength

-----------------------------------------------------------------------------
(* Properties.                                                              *)

States == {"first", "sync2", "sync3", "header", "length1", "length2", "message1", "message2",
           "data", "crc", "name", "text", "digits", "end", "lf", "cr"}
Types == {"none", "custom", "rtcm", "nmea", "binary", "hash"}

(* The buffer never holds more received bytes than it has room for.         *)
TypeOK ==
    /\ table \in Tables
    /\ stream \in Seq(Byte) /\ read \in 0..Len(stream)
    /\ parse.state \in States
    /\ parse.type \in {"none"} \union {table[i] : i \in 1..Len(table)}
    /\ Len(parse.buffer) <= BufferLength
    /\ parse.remaining \in Word
    /\ parse.name \in 0..NameLimit
    /\ segments \in 0..MaxSegments /\ clean \in 0..Len(stream)

(* A delivered message is the bytes as they were sent, contiguous, of the   *)
(* format it is given out for, and no byte belongs to two messages.         *)
WholeAndApart ==
    /\ \A i \in 1..Len(delivered) :
         LET d == delivered[i] IN
         /\ d.bytes = SubSeq(stream, d.from, d.from + Len(d.bytes) - 1)
         /\ IsMessage(d.type, d.bytes)
    /\ \A i \in 1..Len(delivered) - 1 :
         delivered[i].from + Len(delivered[i].bytes) <= delivered[i + 1].from

(* What the phone sends was checked: nothing is executed, and no correction *)
(* goes to the receiver, whose CRC does not hold.                           *)
PhoneMessagesChecked ==
    table = <<"custom", "rtcm">> =>
      \A i \in 1..Len(delivered) : CheckHolds(delivered[i].type, delivered[i].bytes)

(* What is appended to a sentence stays inside the buffer, for all but the  *)
(* hash sentences with a two character checksum.                            *)
AppendedInBuffer ==
    \A i \in 1..Len(delivered) :
      LET d == delivered[i] IN
      (d.type = "hash" /\ Digits("hash", d.bytes) = 2) \/ d.room <= BufferLength

(* Whatever the stream holds and wherever messages are cut off, what the    *)
(* end of a message callback is given is a message that was sent, checked   *)
(* if it came from the phone, with its terminating bytes in the buffer.     *)
MessagesGenuine == TypeOK /\ WholeAndApart /\ PhoneMessagesChecked /\ AppendedInBuffer

(* The same of both streams.  (The callback's contract: "Return true when   *)
(* the CRC calculation fails".)                                             *)
ChecksumsHold ==
    \A i \in 1..Len(delivered) : CheckHolds(delivered[i].type, delivered[i].bytes)

(* The last segment, and what it holds of a message of a format.            *)
LastSegment == SubSeq(stream, clean, Len(stream))

MessageIn(type, segment) ==
    IF type \notin {"nmea", "hash"} THEN segment
    ELSE IF IsSuffix(<<CR, LF>>, segment) THEN SubSeq(segment, 1, Len(segment) - 2)
    ELSE <<>>

Whole(type) ==
    LET message == MessageIn(type, LastSegment)
    IN  IsMessage(type, message) /\ CheckHolds(type, message) /\ Fits(type, message)

Received(type) ==
    \E i \in 1..Len(delivered) :
        /\ delivered[i].from = clean /\ delivered[i].type = type
        /\ delivered[i].bytes = MessageIn(type, LastSegment)

(* A message that begins while the parser is searching is delivered, once,  *)
(* however long the search and whatever it was about before: no message is  *)
(* lost but to an earlier one that was cut off or announced too much.       *)
WholeMessagesDelivered ==
    (clean > 0 /\ read = Len(stream)) =>
        \A type \in ToSet(table) : Whole(type) => Received(type)

-----------------------------------------------------------------------------
(* What makes the two inductive.  While a message is read the buffer holds  *)
(* what was sent since it began (after a sentence's CR or LF, but for that  *)
(* byte),                                                                   *)
ParseType ==
    parse \in [state : States, type : Types, buffer : Seq(Byte), remaining : Word,
               name : Nat, from : Nat]

Held == IF parse.state \in {"lf", "cr"} THEN read - 1 ELSE read

BufferIsSent ==
    parse.state # "first" =>
        /\ parse.type \in {table[i] : i \in 1..Len(table)}
        /\ parse.from >= 1 /\ Len(parse.buffer) = Held - parse.from + 1
        /\ parse.buffer = SubSeq(stream, parse.from, Held)

(* and the state tells how far the message has got: bytesRemaining is what  *)
(* it announced less what is there, or has wrapped for a message that       *)
(* announced too little to be one;                                          *)
Remains(announced, least) ==
    LET left == announced - Len(parse.buffer)
    IN  \/ parse.remaining = left /\ left > 0
        \/ announced < least /\ parse.remaining \in {left, left + WordSize}

FrameEnd(m) == HeaderLength + m[HeaderLength]

FrameProgress ==
    LET m == parse.buffer
        n == Len(parse.buffer)
    IN  /\ m[1] = A
        /\ \/ parse.state = "sync2" /\ n = 1
           \/ parse.state = "sync3" /\ n = 2 /\ m[2] = B
           \/ /\ parse.state \in {"header", "data", "crc"}
              /\ n >= 3 /\ m[2] = B
              /\ m[3] = IF parse.type = "custom" THEN CustomC ELSE UnicoreC
              /\ parse.state = "header" <=> n < HeaderLength
              /\ parse.state = "data" =>
                    /\ Remains(FrameEnd(m), HeaderLength + 1)
                    /\ parse.type = "custom" => m[HeaderLength] > 0
              /\ parse.state = "crc" =>
                    /\ parse.remaining \in 1..4 /\ n + parse.remaining = FrameEnd(m) + 4
                    /\ parse.type = "binary" => m[HeaderLength] > 0

RtcmEnd(m) == 3 + m[2] * 256 + m[3]

RtcmProgress ==
    LET m == parse.buffer
        n == Len(parse.buffer)
    IN  /\ m[1] = D3
        /\ n > 1 => m[2] <= 3
        /\ \/ parse.state = "length1" /\ n = 1
           \/ parse.state = "length2" /\ n = 2 /\ parse.remaining = m[2] * 256
           \/ parse.state = "message1" /\ n = 3 /\ parse.remaining = RtcmEnd(m) - 3
           \/ parse.state = "message2" /\ n = 4 /\ Remains(RtcmEnd(m), 6)
           \/ parse.state = "data" /\ n >= 5 /\ Remains(RtcmEnd(m), 6)
           \/ /\ parse.state = "crc" /\ n >= 6 /\ RtcmEnd(m) >= 6
              /\ parse.remaining \in 1..3 /\ n + parse.remaining = RtcmEnd(m) + 3

NameBytes == (48..57) \union (65..90) \union (97..122)

(* comma and asterisk are the places of a sentence's first ones.            *)
SentenceProgress ==
    LET m == parse.buffer
        n == Len(parse.buffer)
        comma == parse.name + 2
        left == IF parse.state = "digits" THEN parse.remaining ELSE 0
        asterisk == n + left - Digits(parse.type, m)
    IN  /\ m[1] = IF parse.type = "nmea" THEN Dollar ELSE Hash
        /\ parse.name <= NameLimit
        /\ \A i \in 2..parse.name + 1 : m[i] \in NameBytes
        /\ \/ parse.state = "name" /\ n = parse.name + 1
           \/ /\ parse.state = "text" /\ comma \in 3..n /\ m[comma] = Comma
              /\ \A i \in comma..n : m[i] # Asterisk
              /\ n + Overhead(parse.type) <= BufferLength
           \/ /\ parse.state \in {"digits", "end", "lf", "cr"}
              /\ comma \in 3..asterisk /\ m[comma] = Comma
              /\ asterisk <= n /\ m[asterisk] = Asterisk
              /\ \A i \in comma..asterisk - 1 : m[i] # Asterisk
              /\ \A i \in asterisk + 1..n : Nibble(m[i]) >= 0
              /\ parse.state = "digits" => left > 0
              /\ asterisk + Overhead(parse.type) <= BufferLength + 1

Progress ==
    parse.state # "first" =>
        /\ parse.type # "none"
        /\ parse.type \in {"custom", "binary"} => FrameProgress
        /\ parse.type = "rtcm" => RtcmProgress
        /\ parse.type \in {"nmea", "hash"} => SentenceProgress

(* what was delivered lies before what is being read;                       *)
Begins == IF parse.state = "first" THEN read + 1 ELSE parse.from

DeliveredBefore ==
    \A i \in 1..Len(delivered) :
        delivered[i].from >= 1 /\ delivered[i].from + Len(delivered[i].bytes) <= Begins

(* and a whole message that began cleanly is on its way, or there.          *)
OnItsWay ==
    clean > 0 =>
        /\ read + 1 >= clean
        /\ IF read < clean THEN parse.state = "first"
           ELSE \A type \in ToSet(table) :
                    Whole(type) => \/ Received(type)
                                   \/ /\ parse.state # "first"
                                      /\ parse.type = type /\ parse.from = clean

DeliveredType ==
    delivered \in Seq([type : Types, bytes : Seq(Byte), room : Nat, from : Nat])

GenuineInv ==
    /\ MessagesGenuine /\ ParseType /\ DeliveredType
    /\ BufferIsSent /\ Progress /\ DeliveredBefore

ParserInv == GenuineInv /\ OnItsWay
=============================================================================
