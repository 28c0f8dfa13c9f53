------------------------ MODULE MessageParserProofs ------------------------
(***************************************************************************)
(* What the callback of the message parser is given, for any segments, in  *)
(* any order and cut off anywhere, and any buffer the library allows.      *)
(*                                                                         *)
(* First that it is given nothing but messages: the buffer holds what was  *)
(* sent, and the state tells how far it has got.  Then that it is given    *)
(* every message that begins while the parser is searching: what comes     *)
(* next of the message is what the state waits for.                        *)
(***************************************************************************)
EXTENDS MessageParser, SequenceTheorems, TLAPS

(* What 16 bits hold.                                                       *)
LEMMA Words ==
    /\ WordSize \in Nat /\ WordSize > 1 /\ WordSize - 1 = 65535
    /\ \A x : x \in Word <=> x \in Nat /\ x <= 65535
  <1>1. WordSize \in Nat /\ WordSize > 1 /\ WordSize - 1 = 65535
    BY DEF WordSize
  <1>2. \A x : x \in Word <=> x \in Nat /\ x <= WordSize - 1
    BY <1>1 DEF Word
  <1> QED BY <1>1, <1>2

(* The sizes.                                                               *)
LEMMA Sizes ==
    /\ BufferLength \in Nat /\ BufferLength <= 65535 /\ HeaderLength \in Nat
    /\ HeaderLength > 5 /\ BufferLength > HeaderLength
    /\ NameLimit \in Nat /\ NameLimit >= 1 /\ NameLimit + 8 <= BufferLength
    /\ MaxSegments \in Nat
    /\ \A segment \in Segments : segment \in Seq(Byte) /\ Len(segment) > 0
  <1>1. \A segment \in Segments : segment \in Seq(Byte) /\ segment # <<>>
    BY MessageParserAssumption
  <1>2. \A segment \in Seq(Byte) : segment # <<>> => Len(segment) > 0
    BY EmptySeq
  <1> QED BY <1>1, <1>2, MessageParserAssumption, Words

(* The least number of a set.                                               *)
LEMMA LeastIs ==
    ASSUME NEW I \in SUBSET Int, NEW k \in I, \A j \in I : k <= j
    PROVE  Min(I) = k
  <1>1. k \in I /\ \A j \in I : k =< j
    OBVIOUS
  <1>2. Min(I) \in I /\ \A j \in I : Min(I) =< j
    BY <1>1, Zenon DEF Min
  <1>3. \A x \in Int : x <= k /\ k <= x => x = k
    OBVIOUS
  <1>4. Min(I) \in Int /\ k \in Int
    BY <1>2
  <1>5. Min(I) <= k /\ k <= Min(I)
    BY <1>1, <1>2
  <1> QED BY <1>3, <1>4, <1>5

(* The two tables, parser by parser.                                        *)
LEMMA TablesAre ==
    ASSUME table \in Tables
    PROVE  \/ /\ table = <<"custom", "rtcm">> /\ Len(table) = 2
              /\ table[1] = "custom" /\ table[2] = "rtcm"
           \/ /\ table = <<"nmea", "rtcm", "binary", "hash">> /\ Len(table) = 4
              /\ table[1] = "nmea" /\ table[2] = "rtcm" /\ table[3] = "binary"
              /\ table[4] = "hash"
  BY DEF Tables

(* The preambles of a table are different.                                  *)
LEMMA PreamblesApart ==
    ASSUME table \in Tables, NEW i \in 1..Len(table), NEW j \in 1..Len(table), NEW byte,
           Preamble(table[i], byte), Preamble(table[j], byte)
    PROVE  i = j
  <1>1. i \in {1, 2, 3, 4} /\ j \in {1, 2, 3, 4}
    BY TablesAre
  <1>2. CASE Len(table) = 2
    <2>1. i \in {1, 2} /\ j \in {1, 2}
      BY <1>2
    <2> QED BY <1>2, <2>1, TablesAre DEF Preamble, A, D3
  <1>3. CASE Len(table) = 4
    BY <1>1, <1>3, TablesAre DEF Preamble, A, D3, Dollar, Hash
  <1> QED BY <1>2, <1>3, TablesAre

(* The search for a preamble: the parser whose preamble the byte is takes   *)
(* over, if there is one.                                                   *)
LEMMA FirstByteIs ==
    ASSUME table \in Tables, NEW byte
    PROVE  \/ /\ \A i \in 1..Len(table) : ~Preamble(table[i], byte)
              /\ FirstByte(byte) = Searching(<<byte>>, read + 1)
           \/ \E i \in 1..Len(table) :
                 /\ Preamble(table[i], byte)
                 /\ FirstByte(byte) = [Searching(<<byte>>, read + 1)
                                         EXCEPT !.state = After(table[i]), !.type = table[i]]
  <1> DEFINE I == {i \in 1..Len(table) : Preamble(table[i], byte)}
             first == IF I # {} THEN Min(I) ELSE 0
  <1>1. FirstByte(byte) =
           IF first = 0 THEN Searching(<<byte>>, read + 1)
           ELSE [Searching(<<byte>>, read + 1) EXCEPT !.state = After(table[first]),
                                                      !.type = table[first]]
    BY DEF FirstByte, SelectInSeq
  <1>2. CASE I = {}
    <2>1. first = 0
      BY <1>2
    <2>2. FirstByte(byte) = Searching(<<byte>>, read + 1)
      BY <1>1, <2>1
    <2> QED BY <1>2, <2>2
  <1>3. CASE I # {}
    <2>1. PICK k \in 1..Len(table) : Preamble(table[k], byte)
      BY <1>3
    <2>2. k \in I /\ \A j \in I : k <= j
      <3>1. \A j \in I : k = j
        BY <2>1, PreamblesApart
      <3>2. Len(table) \in Nat
        BY TablesAre
      <3> QED BY <2>1, <3>1, <3>2
    <2>3. I \in SUBSET Int
      BY TablesAre
    <2>4. Min(I) = k
      BY <2>2, <2>3, LeastIs
    <2>5. first = k /\ k # 0
      BY <1>3, <2>1, <2>4, TablesAre
    <2> QED BY <1>1, <2>1, <2>5
  <1> QED BY <1>2, <1>3

(* The name of a sentence ends at its first comma.                          *)
LEMMA NameEnds ==
    ASSUME NEW m \in Seq(Byte), NEW comma \in 2..Len(m), m[comma] = Comma, m[1] # Comma,
           \A i \in 2..comma - 1 : m[i] # Comma
    PROVE  NameOf(m) = SubSeq(m, 2, comma - 1)
  <1> DEFINE I == {i \in 1..Len(m) : m[i] = Comma}
  <1>1. comma \in I /\ \A j \in I : comma <= j
    OBVIOUS
  <1>2. Min(I) = comma
    <2>1. I \in SUBSET Int
      OBVIOUS
    <2> QED BY <1>1, <2>1, LeastIs
  <1>3. NameOf(m) = SubSeq(m, 2, (IF I # {} THEN Min(I) ELSE 0) - 1)
    BY DEF NameOf, SelectInSeq
  <1> QED BY <1>1, <1>2, <1>3

-----------------------------------------------------------------------------
(* The part of the types that is about the parser itself.                   *)
ParserTypes ==
    /\ ParseType
    /\ Len(parse.buffer) <= BufferLength /\ parse.name <= NameLimit
    /\ parse.type \in {"none"} \union {table[i] : i \in 1..Len(table)}

(* What is known of the parser and its buffer.                              *)
Parsed == ParserTypes /\ BufferIsSent /\ Progress

(* The rest of the types.                                                   *)
StreamTypes ==
    /\ table \in Tables
    /\ stream \in Seq(Byte) /\ read \in 0..Len(stream)
    /\ segments \in 0..MaxSegments /\ clean \in 0..Len(stream)

(* A part of a sequence, and the element behind it.                         *)
LEMMA PartGrows ==
    ASSUME NEW S, NEW s \in Seq(S), NEW from \in Nat, NEW to \in Nat,
           from >= 1, from <= to + 1, to < Len(s)
    PROVE  SubSeq(s, from, to + 1) = Append(SubSeq(s, from, to), s[to + 1])
  <1> DEFINE part == SubSeq(s, from, to)
             grown == SubSeq(s, from, to + 1)
  <1>1. Len(s) \in Nat
    BY LenProperties
  <1>2. /\ part \in Seq(S) /\ Len(part) = to - from + 1
        /\ \A i \in 1..to - from + 1 : part[i] = s[from + i - 1]
    BY <1>1, SubSeqProperties
  <1>3. /\ grown \in Seq(S) /\ Len(grown) = to + 1 - from + 1
        /\ \A i \in 1..to + 1 - from + 1 : grown[i] = s[from + i - 1]
    BY <1>1, SubSeqProperties
  <1>4. s[to + 1] \in S
    BY <1>1, ElementOfSeq
  <1> HIDE DEF part, grown
  <1>5. /\ Append(part, s[to + 1]) \in Seq(S) /\ Len(Append(part, s[to + 1])) = Len(part) + 1
        /\ \A i \in 1..Len(part) : Append(part, s[to + 1])[i] = part[i]
        /\ Append(part, s[to + 1])[Len(part) + 1] = s[to + 1]
    BY <1>2, <1>4, AppendProperties
  <1>6. \A i \in 1..Len(grown) : grown[i] = Append(part, s[to + 1])[i]
    <2> SUFFICES ASSUME NEW i \in 1..Len(grown) PROVE grown[i] = Append(part, s[to + 1])[i]
      OBVIOUS
    <2>1. CASE i <= Len(part)
      <3>1. i \in 1..Len(part) /\ i \in 1..to - from + 1 /\ i \in 1..to + 1 - from + 1
        BY <1>2, <1>3, <2>1
      <3> QED BY <1>2, <1>3, <1>5, <3>1
    <2>2. CASE i = Len(part) + 1
      <3>1. from + i - 1 = to + 1 /\ i \in 1..to + 1 - from + 1
        BY <1>2, <1>3, <2>2
      <3> QED BY <1>3, <1>5, <2>2, <3>1
    <2> QED BY <1>2, <1>3, <2>1, <2>2
  <1>7. Len(grown) = Len(Append(part, s[to + 1]))
    BY <1>2, <1>3, <1>5
  <1>8. grown = Append(part, s[to + 1])
    BY <1>3, <1>5, <1>6, <1>7, SeqEqual
  <1> QED BY <1>8 DEF part, grown

(* The part that is one element.                                            *)
LEMMA PartOfOne ==
    ASSUME NEW S, NEW s \in Seq(S), NEW at \in Nat, at >= 1, at <= Len(s)
    PROVE  SubSeq(s, at, at) = <<s[at]>>
  <1>1. Len(s) \in Nat /\ s[at] \in S
    BY LenProperties, ElementOfSeq
  <1>2. /\ SubSeq(s, at, at) \in Seq(S) /\ Len(SubSeq(s, at, at)) = at - at + 1
        /\ \A i \in 1..at - at + 1 : SubSeq(s, at, at)[i] = s[at + i - 1]
    BY <1>1, SubSeqProperties
  <1> DEFINE part == SubSeq(s, at, at)
  <1> HIDE DEF part
  <1>3. part \in Seq(S) /\ Len(part) = 1 /\ part[1] = s[at]
    BY <1>2 DEF part
  <1>4. <<s[at]>> \in Seq(S) /\ Len(<<s[at]>>) = 1 /\ <<s[at]>>[1] = s[at]
    BY <1>1
  <1>5. \A i \in 1..Len(part) : part[i] = <<s[at]>>[i]
    BY <1>3, <1>4
  <1>6. part = <<s[at]>>
    BY <1>3, <1>4, <1>5, SeqEqual
  <1> QED BY <1>6 DEF part

(* A byte is taken.                                                         *)
Takes == read < Len(stream) /\ read' = read + 1 /\ UNCHANGED <<table, stream>>

(* The byte that is taken, and the buffer with it.                          *)
LEMMA Taken ==
    ASSUME StreamTypes, ParseType, read < Len(stream)
    PROVE  /\ b \in Byte /\ b \in Nat /\ b <= 255 /\ read \in Nat /\ Len(stream) \in Nat
           /\ parse.buffer \in Seq(Byte) /\ buffer \in Seq(Byte)
           /\ Len(parse.buffer) \in Nat /\ Len(buffer) = Len(parse.buffer) + 1
           /\ \A i \in 1..Len(parse.buffer) : buffer[i] = parse.buffer[i]
           /\ buffer[Len(parse.buffer) + 1] = b
           /\ buffer[Len(buffer)] = b
  <1>1. read \in Nat /\ Len(stream) \in Nat /\ read + 1 \in 1..Len(stream)
    BY LenProperties DEF StreamTypes
  <1>2. b \in Byte
    BY <1>1, ElementOfSeq DEF StreamTypes, b
  <1>3. parse.buffer \in Seq(Byte)
    BY DEF ParseType
  <1>4. Len(parse.buffer) \in Nat
    BY <1>3, LenProperties
  <1>5. /\ buffer \in Seq(Byte) /\ Len(buffer) = Len(parse.buffer) + 1
        /\ \A i \in 1..Len(parse.buffer) : buffer[i] = parse.buffer[i]
        /\ buffer[Len(parse.buffer) + 1] = b
    BY <1>2, <1>3, AppendProperties DEF buffer
  <1> QED BY <1>1, <1>2, <1>3, <1>4, <1>5 DEF Byte

(* The record the search begins with.                                       *)
LEMMA SearchFields ==
    ASSUME StreamTypes, NEW byte \in Byte
    PROVE  LET found == FirstByte(byte) IN
           /\ found.buffer = <<byte>> /\ found.remaining = 0 /\ found.name = 0
           /\ found.from = read + 1
           /\ \/ /\ \A i \in 1..Len(table) : ~Preamble(table[i], byte)
                 /\ found.state = "first" /\ found.type = "none"
              \/ \E i \in 1..Len(table) :
                    /\ Preamble(table[i], byte)
                    /\ found.state = After(table[i]) /\ found.type = table[i]
           /\ found \in [state : States, type : Types, buffer : Seq(Byte),
                         remaining : Word, name : Nat, from : Nat]
  <1>1. table \in Tables /\ read \in Nat
    BY LenProperties DEF StreamTypes
  <1>2. \A i \in 1..Len(table) :
            /\ table[i] \in Types
            /\ After(table[i]) \in States
    <2>1. \A i \in 1..Len(table) : table[i] \in {"custom", "rtcm", "nmea", "binary", "hash"}
      BY <1>1, TablesAre
    <2> QED BY <2>1 DEF After, States, Types
  <1>3. <<byte>> \in Seq(Byte) /\ 0 \in Word /\ 0 \in Nat /\ read + 1 \in Nat
    <2>1. <<byte>> \in Seq(Byte)
      OBVIOUS
    <2> QED BY <1>1, <2>1, Words
  <1>4. CASE /\ \A i \in 1..Len(table) : ~Preamble(table[i], byte)
             /\ FirstByte(byte) = Searching(<<byte>>, read + 1)
    <2>1. "first" \in States /\ "none" \in Types
      BY DEF States, Types
    <2> DEFINE found == FirstByte(byte)
    <2>2. found = [state |-> "first", buffer |-> <<byte>>, type |-> "none", remaining |-> 0,
                   name |-> 0, from |-> read + 1]
      BY <1>4 DEF Searching
    <2> HIDE DEF found
    <2>3. found \in [state : States, type : Types, buffer : Seq(Byte),
                     remaining : Word, name : Nat, from : Nat]
      BY <1>3, <2>1, <2>2
    <2>4. /\ found.buffer = <<byte>> /\ found.remaining = 0 /\ found.name = 0
          /\ found.from = read + 1 /\ found.state = "first" /\ found.type = "none"
      BY <2>2
    <2> QED BY <1>4, <2>3, <2>4 DEF found
  <1>5. ASSUME NEW i \in 1..Len(table), Preamble(table[i], byte),
               FirstByte(byte) = [Searching(<<byte>>, read + 1)
                                    EXCEPT !.state = After(table[i]), !.type = table[i]]
        PROVE  LET found == FirstByte(byte) IN
               /\ found.buffer = <<byte>> /\ found.remaining = 0 /\ found.name = 0
               /\ found.from = read + 1
               /\ found.state = After(table[i]) /\ found.type = table[i]
               /\ found \in [state : States, type : Types, buffer : Seq(Byte),
                             remaining : Word, name : Nat, from : Nat]
    <2> DEFINE found == FirstByte(byte)
    <2>1. found = [state |-> After(table[i]), buffer |-> <<byte>>, type |-> table[i],
                   remaining |-> 0, name |-> 0, from |-> read + 1]
      BY <1>5 DEF Searching
    <2> HIDE DEF found
    <2>2. found \in [state : States, type : Types, buffer : Seq(Byte),
                     remaining : Word, name : Nat, from : Nat]
      BY <1>2, <1>3, <2>1
    <2>3. /\ found.buffer = <<byte>> /\ found.remaining = 0 /\ found.name = 0
          /\ found.from = read + 1
          /\ found.state = After(table[i]) /\ found.type = table[i]
      BY <2>1
    <2> QED BY <2>2, <2>3 DEF found
  <1> QED BY <1>1, <1>4, <1>5, FirstByteIs

(* A byte that begins the search anew.                                      *)
LEMMA SearchParsed ==
    ASSUME StreamTypes, ParseType, Takes, parse' = FirstByte(b)
    PROVE  /\ Parsed' /\ Begins' >= read + 1
           /\ parse'.state # "first" => Begins' = read + 1
  <1>1. b \in Byte /\ read \in Nat /\ Len(stream) \in Nat /\ read < Len(stream)
    BY Taken DEF Takes
  <1>2. /\ parse'.buffer = <<b>> /\ parse'.remaining = 0 /\ parse'.name = 0
        /\ parse'.from = read + 1 /\ ParseType'
        /\ \/ parse'.state = "first" /\ parse'.type = "none"
           \/ \E i \in 1..Len(table) :
                 /\ Preamble(table[i], b)
                 /\ parse'.state = After(table[i]) /\ parse'.type = table[i]
    BY <1>1, SearchFields DEF ParseType
  <1>3. ParserTypes'
    <2>1. Len(parse'.buffer) = 1
      BY <1>2
    <2>2. parse'.type \in {"none"} \union {table[i] : i \in 1..Len(table)}
      BY <1>2
    <2>3. 1 <= BufferLength /\ 0 <= NameLimit
      BY Sizes
    <2> QED BY <1>2, <2>1, <2>2, <2>3 DEF ParserTypes, Takes
  <1>4. CASE parse'.state = "first"
    BY <1>1, <1>3, <1>4 DEF Parsed, BufferIsSent, Progress, Begins, Takes
  <1>5. ASSUME NEW i \in 1..Len(table), Preamble(table[i], b),
               parse'.state = After(table[i]), parse'.type = table[i]
        PROVE  Parsed' /\ Begins' = read + 1
    <2>1. table[i] \in {"custom", "rtcm", "nmea", "binary", "hash"}
      BY TablesAre DEF StreamTypes
    <2>2. /\ parse'.type \in {"custom", "binary"} => parse'.state = "sync2" /\ b = A
          /\ parse'.type = "rtcm" => parse'.state = "length1" /\ b = D3
          /\ parse'.type = "nmea" => parse'.state = "name" /\ b = Dollar
          /\ parse'.type = "hash" => parse'.state = "name" /\ b = Hash
      BY <1>5, <2>1 DEF Preamble, After
    <2>3. parse'.state \in {"sync2", "length1", "name"} /\ parse'.type # "none"
      BY <1>5, <2>1, <2>2
    <2>4. Len(parse'.buffer) = 1 /\ parse'.buffer[1] = b
      BY <1>2
    <2>5. Progress'
      <3>1. parse'.type \in {"custom", "binary"} => FrameProgress'
        BY <2>2, <2>4 DEF FrameProgress
      <3>2. parse'.type = "rtcm" => RtcmProgress'
        BY <2>2, <2>4 DEF RtcmProgress
      <3>3. parse'.type \in {"nmea", "hash"} => SentenceProgress'
        BY <1>2, <2>2, <2>4, Sizes DEF SentenceProgress
      <3> QED BY <2>3, <3>1, <3>2, <3>3 DEF Progress
    <2>6. BufferIsSent'
      <3>1. Held' = read + 1
        BY <2>3 DEF Held, Takes
      <3>2. SubSeq(stream, read + 1, read + 1) = <<b>>
        BY <1>1, PartOfOne DEF b, StreamTypes
      <3>3. parse'.type \in {table[j] : j \in 1..Len(table)}
        BY <1>5
      <3>4. table' = table /\ stream' = stream
        BY DEF Takes
      <3>5. parse'.type \in {table'[j] : j \in 1..Len(table')}
        BY <3>3, <3>4
      <3>6. parse'.from >= 1 /\ Len(parse'.buffer) = Held' - parse'.from + 1
        BY <1>1, <1>2, <2>4, <3>1
      <3>7. parse'.buffer = SubSeq(stream', parse'.from, Held')
        BY <1>2, <3>1, <3>2, <3>4
      <3> QED BY <3>5, <3>6, <3>7 DEF BufferIsSent
    <2> QED BY <1>2, <1>3, <2>3, <2>5, <2>6 DEF Parsed, Begins
  <1> QED BY <1>1, <1>2, <1>4, <1>5

(* A byte that goes into the buffer.                                        *)
LEMMA GotoFields ==
    ASSUME StreamTypes, ParseType, Takes, NEW state \in States, NEW remaining \in Word,
           Goto(state, remaining)
    PROVE  /\ parse'.state = state /\ parse'.buffer = buffer /\ parse'.remaining = remaining
           /\ parse'.type = parse.type /\ parse'.name = parse.name /\ parse'.from = parse.from
           /\ ParseType' /\ delivered' = delivered
  <1>1. buffer \in Seq(Byte)
    BY Taken DEF Takes
  <1>2. /\ parse' = [parse EXCEPT !.buffer = buffer, !.state = state, !.remaining = remaining]
        /\ delivered' = delivered
    BY DEF Goto
  <1> QED BY <1>1, <1>2 DEF ParseType

(* It is the next of what was sent.                                         *)
LEMMA BufferGrows ==
    ASSUME StreamTypes, ParseType, Takes, BufferIsSent, parse.state \notin {"first", "lf", "cr"}
    PROVE  /\ Len(buffer) = (read + 1) - parse.from + 1
           /\ buffer = SubSeq(stream, parse.from, read + 1)
           /\ parse.from \in 1..read + 1 /\ Len(buffer) = Len(parse.buffer) + 1
  <1>1. /\ read \in Nat /\ Len(stream) \in Nat /\ read < Len(stream)
        /\ parse.buffer \in Seq(Byte) /\ Len(parse.buffer) \in Nat
        /\ Len(buffer) = Len(parse.buffer) + 1
    BY Taken DEF Takes
  <1>2. /\ parse.from >= 1 /\ Len(parse.buffer) = read - parse.from + 1
        /\ parse.buffer = SubSeq(stream, parse.from, read)
    BY DEF BufferIsSent, Held
  <1>3. parse.from \in Nat
    BY DEF ParseType
  <1>4. parse.from \in 1..read + 1
    BY <1>1, <1>2, <1>3
  <1>5. SubSeq(stream, parse.from, read + 1)
           = Append(SubSeq(stream, parse.from, read), stream[read + 1])
    <2>1. stream \in Seq(Byte) /\ parse.from >= 1 /\ parse.from <= read + 1
      BY <1>1, <1>4 DEF StreamTypes
    <2> DEFINE from == parse.from
    <2>2. from \in Nat /\ from >= 1 /\ from <= read + 1
      BY <1>3, <2>1
    <2> HIDE DEF from
    <2>3. SubSeq(stream, from, read + 1) = Append(SubSeq(stream, from, read), stream[read + 1])
      BY <1>1, <2>1, <2>2, PartGrows
    <2> QED BY <2>3 DEF from
  <1>6. buffer = SubSeq(stream, parse.from, read + 1)
    BY <1>2, <1>5 DEF buffer, b
  <1> QED BY <1>1, <1>2, <1>4, <1>6

-----------------------------------------------------------------------------
(* The state tells which formats the message may be of.                     *)
LEMMA TypeOfState ==
    ASSUME Parsed, parse.state # "first"
    PROVE  /\ parse.state \in {"sync2", "sync3", "header"} => parse.type \in {"custom", "binary"}
           /\ parse.state \in {"length1", "length2", "message1", "message2"} => parse.type = "rtcm"
           /\ parse.state \in {"data", "crc"} => parse.type \in {"custom", "binary", "rtcm"}
           /\ parse.state \in {"name", "text", "digits", "end", "lf", "cr"} =>
                  parse.type \in {"nmea", "hash"}
  <1>1. parse.type \in {"custom", "rtcm", "nmea", "binary", "hash"}
    BY DEF Parsed, Progress, ParserTypes, ParseType, Types
  <1>2. CASE parse.type \in {"custom", "binary"}
    BY <1>2 DEF Parsed, Progress, FrameProgress
  <1>3. CASE parse.type = "rtcm"
    BY <1>3 DEF Parsed, Progress, RtcmProgress
  <1>4. CASE parse.type \in {"nmea", "hash"}
    BY <1>4 DEF Parsed, Progress, SentenceProgress
  <1> QED BY <1>1, <1>2, <1>3, <1>4

(* A byte that goes into the buffer of a message that goes on.              *)
LEMMA GoesOn ==
    ASSUME StreamTypes, Parsed, Takes, Len(parse.buffer) < BufferLength,
           parse.state \notin {"first", "lf", "cr"},
           ParseType', parse'.state \notin {"first", "lf", "cr"},
           parse'.buffer = buffer, parse'.type = parse.type, parse'.from = parse.from,
           parse'.name <= NameLimit
    PROVE  ParserTypes' /\ BufferIsSent' /\ Begins' = Begins
  <1>1. table' = table /\ stream' = stream /\ read' = read + 1
    BY DEF Takes
  <1>2. ParseType /\ BufferIsSent
    BY DEF Parsed, ParserTypes
  <1>3. /\ Len(buffer) = (read + 1) - parse.from + 1
        /\ buffer = SubSeq(stream, parse.from, read + 1)
        /\ parse.from \in 1..read + 1 /\ Len(buffer) = Len(parse.buffer) + 1
    BY <1>2, BufferGrows
  <1>4. parse.type \in {table[i] : i \in 1..Len(table)}
    BY <1>2 DEF BufferIsSent
  <1>5. parse'.type \in {table'[i] : i \in 1..Len(table')}
    BY <1>1, <1>4
  <1>6. ParserTypes'
    <2>1. Len(parse.buffer) \in Nat /\ BufferLength \in Nat
      BY <1>2, Taken, Sizes DEF Takes
    <2> DEFINE n == Len(parse.buffer)
    <2>2. Len(parse'.buffer) = n + 1 /\ n \in Nat /\ n < BufferLength
      BY <1>3, <2>1
    <2> HIDE DEF n
    <2>3. Len(parse'.buffer) <= BufferLength
      BY <2>1, <2>2
    <2> QED BY <1>5, <2>3 DEF ParserTypes
  <1>7. Held' = read + 1
    BY <1>1 DEF Held
  <1>8. BufferIsSent'
    <2>1. parse'.from >= 1 /\ Len(parse'.buffer) = Held' - parse'.from + 1
      BY <1>3, <1>7, Taken, <1>2 DEF Takes
    <2>2. parse'.buffer = SubSeq(stream', parse'.from, Held')
      BY <1>1, <1>3, <1>7
    <2> QED BY <1>5, <2>1, <2>2 DEF BufferIsSent
  <1> QED BY <1>6, <1>8 DEF Begins

(* The bytes in the buffer.                                                 *)
LEMMA HeldBytes ==
    ASSUME ParseType
    PROVE  \A i \in 1..Len(parse.buffer) : parse.buffer[i] \in Nat /\ parse.buffer[i] <= 255
  <1>1. parse.buffer \in Seq(Byte)
    BY DEF ParseType
  <1>2. \A i \in 1..Len(parse.buffer) : parse.buffer[i] \in Byte
    BY <1>1, ElementOfSeq
  <1>3. \A x \in Byte : x \in Nat /\ x <= 255
    BY DEF Byte
  <1> QED BY <1>2, <1>3

(* The buffer with the byte.                                                *)
LEMMA Grown ==
    ASSUME StreamTypes, Parsed, Takes, Len(parse.buffer) < BufferLength
    PROVE  /\ b \in Nat /\ b <= 255
           /\ Len(parse.buffer) \in Nat /\ Len(buffer) = Len(parse.buffer) + 1
           /\ Len(buffer) <= BufferLength
           /\ \A i \in 1..Len(parse.buffer) : buffer[i] = parse.buffer[i]
           /\ buffer[Len(parse.buffer) + 1] = b /\ buffer[Len(buffer)] = b
           /\ \A i \in 1..Len(buffer) : buffer[i] \in Nat /\ buffer[i] <= 255
           /\ parse.remaining \in Nat /\ parse.remaining <= 65535
  <1>1. ParseType /\ read < Len(stream)
    BY DEF Parsed, ParserTypes, Takes
  <1>2. /\ b \in Nat /\ b <= 255 /\ buffer \in Seq(Byte)
        /\ Len(parse.buffer) \in Nat /\ Len(buffer) = Len(parse.buffer) + 1
        /\ \A i \in 1..Len(parse.buffer) : buffer[i] = parse.buffer[i]
        /\ buffer[Len(parse.buffer) + 1] = b /\ buffer[Len(buffer)] = b
    BY <1>1, Taken
  <1>3. \A i \in 1..Len(buffer) : buffer[i] \in Nat /\ buffer[i] <= 255
    <2>1. \A i \in 1..Len(buffer) : buffer[i] \in Byte
      BY <1>2, ElementOfSeq
    <2>2. \A x \in Byte : x \in Nat /\ x <= 255
      BY DEF Byte
    <2> QED BY <2>1, <2>2
  <1>4. parse.remaining \in Word
    BY <1>1 DEF ParseType
  <1>5. parse.remaining \in Nat /\ parse.remaining <= 65535
    BY <1>4, Words
  <1>6. Len(buffer) <= BufferLength
    <2> DEFINE n == Len(parse.buffer)
    <2>1. n \in Nat /\ n < BufferLength /\ Len(buffer) = n + 1 /\ BufferLength \in Nat
      BY <1>2, Sizes
    <2> HIDE DEF n
    <2> QED BY <2>1
  <1> QED BY <1>2, <1>3, <1>5, <1>6

(* Where what is being read begins.                                         *)
LEMMA BeginsNat ==
    ASSUME StreamTypes, ParseType, BufferIsSent
    PROVE  Begins \in Nat /\ Begins <= read + 1
  <1>1. read \in Nat /\ parse.from \in Nat
    BY LenProperties DEF StreamTypes, ParseType
  <1>2. CASE parse.state = "first"
    BY <1>1, <1>2 DEF Begins
  <1>3. CASE parse.state # "first"
    <2>1. parse.buffer \in Seq(Byte)
      BY DEF ParseType
    <2>2. Len(parse.buffer) \in Nat
      BY <2>1, LenProperties
    <2>3. Len(parse.buffer) = Held - parse.from + 1 /\ Held \in {read - 1, read}
      BY <1>3 DEF BufferIsSent, Held
    <2> QED BY <1>1, <1>3, <2>2, <2>3 DEF Begins
  <1> QED BY <1>2, <1>3

(* A byte that does not fit.                                                *)
LEMMA SearchGoesOn ==
    ASSUME StreamTypes, Parsed, Takes, SearchAgain
    PROVE  Parsed' /\ Begins' >= Begins /\ delivered' = delivered
  <1>1. ParseType /\ BufferIsSent /\ parse' = FirstByte(b) /\ delivered' = delivered
    BY DEF SearchAgain, Parsed, ParserTypes
  <1>2. Parsed' /\ Begins' >= read + 1 /\ (parse'.state # "first" => Begins' = read + 1)
    BY <1>1, SearchParsed
  <1>3. Begins \in Nat /\ Begins <= read + 1
    BY <1>1, BeginsNat
  <1>4. read \in Nat /\ read' = read + 1
    BY LenProperties DEF StreamTypes, Takes
  <1>5. Begins' \in {read + 1, read + 2}
    BY <1>2, <1>4 DEF Begins
  <1> QED BY <1>1, <1>2, <1>3, <1>4, <1>5

(* The sync bytes of a frame.                                               *)
LEMMA SyncParsed ==
    ASSUME StreamTypes, Parsed, Takes, Sync
    PROVE  Parsed' /\ Begins' >= Begins /\ delivered' = delivered
  <1>1. /\ Len(parse.buffer) < BufferLength /\ parse.state \in {"sync2", "sync3"}
        /\ ParseType /\ parse.name <= NameLimit
    BY DEF Sync, In, Parsed, ParserTypes
  <1>2. parse.type \in {"custom", "binary"} /\ FrameProgress
    BY <1>1, TypeOfState DEF Parsed, Progress
  <1>3. CASE SearchAgain
    BY <1>1, <1>3, SearchGoesOn
  <1>4. ASSUME NEW state \in {"sync3", "header"}, Goto(state, 0),
               state = "sync3" => parse.state = "sync2" /\ b = B,
               state = "header" =>
                  /\ parse.state = "sync3"
                  /\ b = (IF parse.type = "custom" THEN CustomC ELSE UnicoreC)
        PROVE  Parsed' /\ Begins' >= Begins /\ delivered' = delivered
    <2>1. state \in States /\ 0 \in Word
      BY Words DEF States
    <2>2. /\ parse'.state = state /\ parse'.buffer = buffer
          /\ parse'.type = parse.type /\ parse'.name = parse.name /\ parse'.from = parse.from
          /\ ParseType' /\ delivered' = delivered
      BY <1>1, <1>4, <2>1, GotoFields
    <2>3. ParserTypes' /\ BufferIsSent' /\ Begins' = Begins
      BY <1>1, <2>2, GoesOn
    <2>4. FrameProgress'
      <3> DEFINE m == parse.buffer
                 n == Len(m)
      <3>1. /\ n \in Nat /\ Len(buffer) = n + 1 /\ buffer[n + 1] = b
            /\ \A i \in 1..n : buffer[i] = m[i]
        BY <1>1, Grown
      <3>2. m[1] = A /\ (parse.state = "sync2" => n = 1)
            /\ (parse.state = "sync3" => n = 2 /\ m[2] = B)
        BY <1>1, <1>2 DEF FrameProgress
      <3> HIDE DEF m, n
      <3>3. CASE state = "sync3"
        <4>1. buffer[1] = A /\ Len(buffer) = 2 /\ buffer[2] = B
          BY <1>4, <3>1, <3>2, <3>3
        <4> QED BY <2>2, <3>3, <4>1 DEF FrameProgress
      <3>4. CASE state = "header"
        <4>1. /\ buffer[1] = A /\ Len(buffer) = 3 /\ buffer[2] = B
              /\ buffer[3] = IF parse.type = "custom" THEN CustomC ELSE UnicoreC
          BY <1>4, <3>1, <3>2, <3>4
        <4>2. HeaderLength \in Nat /\ 3 < HeaderLength
          BY Sizes
        <4> QED BY <2>2, <3>4, <4>1, <4>2 DEF FrameProgress
      <3> QED BY <3>3, <3>4
    <2> QED BY <1>1, <1>2, <2>2, <2>3, <2>4, BeginsNat DEF Parsed, Progress
  <1> QED BY <1>1, <1>3, <1>4 DEF Sync

-----------------------------------------------------------------------------
(* A message is given out: what was sent since it began, checked if it came *)
(* from the phone.                                                          *)
GivenOut(message, room) ==
    /\ message \in Seq(Byte) /\ room \in Nat
    /\ parse.from >= 1 /\ Begins = parse.from
    /\ message = SubSeq(stream, parse.from, parse.from + Len(message) - 1)
    /\ IsMessage(parse.type, message)
    /\ table = <<"custom", "rtcm">> => CheckHolds(parse.type, message)
    /\ \/ parse.type = "hash" /\ Digits("hash", message) = 2
       \/ room <= BufferLength
    /\ Deliver(message, room)
    /\ parse.from + Len(message) <= Begins'

(* What a step of the parser does.                                          *)
ParserStep ==
    /\ Parsed' /\ Begins' >= Begins
    /\ delivered' = delivered \/ \E message, room : GivenOut(message, room)

(* What Remains says, of n bytes.                                           *)
RemainsOf(r, n, announced, least) ==
    \/ r = announced - n /\ announced > n
    \/ announced < least /\ r \in {announced - n, announced - n + WordSize}

(* Counting down bytesRemaining, for a message that announces enough and    *)
(* for one that does not.                                                   *)
LEMMA BeforeZero ==
    ASSUME NEW w \in Nat, w > 1 PROVE (0 - 1) % w = w - 1
  OBVIOUS

(* Below zero the count wraps.                                              *)
LEMMA LessZero == Less(0) = 65535
  <1> DEFINE w == WordSize
  <1>1. w \in Nat /\ w > 1 /\ w - 1 = 65535
    BY Words
  <1>2. Less(0) = (0 - 1) % w
    BY DEF Less
  <1>3. w \in Nat /\ w > 1
    BY <1>1
  <1> HIDE DEF w
  <1>4. (0 - 1) % w = w - 1
    BY <1>3, BeforeZero
  <1> QED BY <1>1, <1>2, <1>4

(* What counting down does to what 16 bits hold.                            *)
LEMMA LessIs ==
    ASSUME NEW r \in Nat, r <= 65535
    PROVE  Less(r) = IF r = 0 THEN 65535 ELSE r - 1
  <1> DEFINE w == WordSize
  <1>1. w \in Nat /\ w > 1 /\ w - 1 = 65535 /\ Less(r) = (r - 1) % w
    BY Words DEF Less
  <1>2. w \in Nat /\ w > 1
    BY <1>1
  <1> HIDE DEF w
  <1>3. CASE r = 0
    BY <1>3, LessZero
  <1>4. CASE r > 0
    <2>1. r - 1 \in Nat /\ r - 1 < w
      BY <1>1, <1>4
    <2>2. (r - 1) % w = r - 1
      BY <1>1, <2>1
    <2> QED BY <1>1, <1>4, <2>2
  <1> QED BY <1>3, <1>4

(* At zero all of a message that announces enough is there.                 *)
(* Before, what is left of it is counted.                                   *)
LEMMA CountDown ==
    ASSUME NEW r \in Nat, r <= 65535, NEW n \in Nat, n < 65535, NEW announced \in Nat,
           NEW least \in Nat, least <= n + 1, RemainsOf(r, n, announced, least)
    PROVE  /\ Less(r) \in Nat /\ Less(r) <= 65535
           /\ Less(r) = 0 => announced = n + 1
           /\ Less(r) # 0 => RemainsOf(Less(r), n + 1, announced, least)
  <1>1. CASE r >= 1
    <2>1. Less(r) = r - 1
      BY <1>1, LessIs
    <2> DEFINE w == WordSize
    <2>2. \/ r = announced - n /\ announced > n
          \/ announced < least /\ (r = announced - n \/ r = announced - n + w)
      BY DEF RemainsOf
    <2>3. w \in Nat /\ w - 1 = 65535
      BY Words
    <2> HIDE DEF w
    <2>4. /\ Less(r) = 0 => announced = n + 1
          /\ Less(r) # 0 =>
                \/ Less(r) = announced - (n + 1) /\ announced > n + 1
                \/ /\ announced < least
                   /\ Less(r) = announced - (n + 1) \/ Less(r) = announced - (n + 1) + w
      BY <1>1, <2>1, <2>2, <2>3
    <2> QED BY <1>1, <2>1, <2>4 DEF w, RemainsOf
  <1>2. CASE r = 0
    <2>1. Less(r) = 65535
      BY <1>2, LessIs
    <2>2. WordSize = 65536
      BY Words
    <2> QED BY <1>2, <2>1, <2>2 DEF RemainsOf
  <1> QED BY <1>1, <1>2

(* bytesRemaining of a byte, and of what was counted.                       *)
LEMMA Reading ==
    /\ 0 \in Word /\ \A n \in Nat : n <= 65535 => n \in Word
    /\ \A state \in {"sync3", "header", "length2", "message1", "message2", "data", "crc", "text",
                     "digits", "end"} : state \in States
  BY Words DEF States

(* The header of a frame.                                                   *)
LEMMA HeaderParsed ==
    ASSUME StreamTypes, Parsed, Takes, Header
    PROVE  Parsed' /\ Begins' >= Begins /\ delivered' = delivered
  <1> DEFINE m == parse.buffer
             n == Len(m)
  <1>1. /\ n < BufferLength /\ parse.state = "header" /\ ParseType /\ parse.name <= NameLimit
    BY DEF Header, In, Parsed, ParserTypes
  <1>2. parse.type \in {"custom", "binary"} /\ FrameProgress
    BY <1>1, TypeOfState DEF Parsed, Progress
  <1>3. /\ n \in Nat /\ Len(buffer) = n + 1 /\ buffer[n + 1] = b
        /\ \A i \in 1..n : buffer[i] = m[i]
        /\ b \in Nat /\ b <= 255
    BY <1>1, Grown
  <1>4. /\ n >= 3 /\ m[1] = A /\ m[2] = B /\ n < HeaderLength
        /\ m[3] = IF parse.type = "custom" THEN CustomC ELSE UnicoreC
    BY <1>1, <1>2 DEF FrameProgress
  <1>5. length = n + 1 /\ HeaderLength \in Nat /\ HeaderLength > 5
    BY <1>3, Sizes DEF length
  <1> HIDE DEF n, m
  <1>6. PICK state \in {"header", "data", "crc"}, remaining \in Nat :
           /\ Goto(state, remaining)
           /\ state = "header" => remaining = 0 /\ n + 1 < HeaderLength
           /\ state = "crc" =>
                n + 1 = HeaderLength /\ remaining = 4 /\ b = 0 /\ parse.type = "custom"
           /\ state = "data" =>
                n + 1 = HeaderLength /\ remaining = b /\ (parse.type = "custom" => b # 0)
    <2>1. CASE n + 1 < HeaderLength
      BY <1>5, <2>1 DEF Header
    <2>2. CASE n + 1 = HeaderLength
      BY <1>3, <1>5, <2>2 DEF Header
    <2> QED BY <1>3, <1>4, <1>5, <2>1, <2>2
  <1>7. /\ parse'.state = state /\ parse'.buffer = buffer /\ parse'.remaining = remaining
        /\ parse'.type = parse.type /\ parse'.name = parse.name /\ parse'.from = parse.from
        /\ ParseType' /\ delivered' = delivered
    <2>1. state \in States /\ remaining \in Word
      BY <1>3, <1>6, Reading
    <2> QED BY <1>1, <1>6, <2>1, GotoFields
  <1>8. ParserTypes' /\ BufferIsSent' /\ Begins' = Begins
    BY <1>1, <1>7, GoesOn DEF m, n
  <1>9. FrameProgress'
    <2>1. /\ buffer[1] = A /\ Len(buffer) = n + 1 /\ n + 1 >= 3 /\ buffer[2] = B
          /\ buffer[3] = IF parse'.type = "custom" THEN CustomC ELSE UnicoreC
      BY <1>3, <1>4, <1>7
    <2>2. state = "header" <=> n + 1 < HeaderLength
      BY <1>4, <1>5, <1>6
    <2>3. state # "header" => buffer[HeaderLength] = b /\ FrameEnd(buffer) = HeaderLength + b
      BY <1>3, <1>6 DEF FrameEnd
    <2>4. state = "data" =>
            /\ \/ remaining = FrameEnd(buffer) - (n + 1) /\ FrameEnd(buffer) - (n + 1) > 0
               \/ /\ FrameEnd(buffer) < HeaderLength + 1
                  /\ remaining \in {FrameEnd(buffer) - (n + 1),
                                    FrameEnd(buffer) - (n + 1) + WordSize}
            /\ parse'.type = "custom" => buffer[HeaderLength] > 0
      BY <1>3, <1>5, <1>6, <1>7, <2>3
    <2>5. state = "crc" =>
            /\ remaining \in 1..4 /\ n + 1 + remaining = FrameEnd(buffer) + 4
            /\ parse'.type = "binary" => buffer[HeaderLength] > 0
      BY <1>3, <1>5, <1>6, <1>7, <2>3
    <2> QED BY <1>6, <1>7, <2>1, <2>2, <2>4, <2>5 DEF FrameProgress, Remains
  <1> QED BY <1>1, <1>2, <1>7, <1>8, <1>9, <1>6, BeginsNat DEF Parsed, Progress

-----------------------------------------------------------------------------
(* The length of an RTCM message, and its number.                           *)
LEMMA RtcmLengthParsed ==
    ASSUME StreamTypes, Parsed, Takes, RtcmLength
    PROVE  Parsed' /\ Begins' >= Begins /\ delivered' = delivered
  <1> DEFINE m == parse.buffer
             n == Len(m)
  <1>1. /\ n < BufferLength /\ parse.state \in {"length1", "length2", "message1", "message2"}
        /\ ParseType /\ parse.name <= NameLimit
    BY DEF RtcmLength, In, Parsed, ParserTypes
  <1>2. parse.type = "rtcm" /\ RtcmProgress
    BY <1>1, TypeOfState DEF Parsed, Progress
  <1>3. /\ n \in Nat /\ Len(buffer) = n + 1 /\ buffer[n + 1] = b
        /\ \A i \in 1..n : buffer[i] = m[i]
        /\ b \in Nat /\ b <= 255 /\ parse.remaining \in Nat /\ parse.remaining <= 65535
    BY <1>1, Grown
  <1>4. \A i \in 1..n : m[i] \in Nat /\ m[i] <= 255
    BY <1>1, HeldBytes
  <1>5. CASE SearchAgain
    BY <1>5, SearchGoesOn
  <1>6. ASSUME NEW state \in {"length2", "message1", "message2", "data"}, NEW remaining \in Nat,
               remaining <= 65535, Goto(state, remaining),
               (RtcmProgress /\ parse'.state = state /\ parse'.buffer = buffer
                  /\ parse'.remaining = remaining /\ parse'.type = "rtcm") => RtcmProgress'
        PROVE  Parsed' /\ Begins' >= Begins /\ delivered' = delivered
    <2>1. /\ parse'.state = state /\ parse'.buffer = buffer /\ parse'.remaining = remaining
          /\ parse'.type = parse.type /\ parse'.name = parse.name /\ parse'.from = parse.from
          /\ ParseType' /\ delivered' = delivered
      <3>1. state \in States /\ remaining \in Word
        BY <1>6, Reading
      <3> QED BY <1>1, <1>6, <3>1, GotoFields
    <2>2. ParserTypes' /\ BufferIsSent' /\ Begins' = Begins
      BY <1>1, <2>1, GoesOn
    <2> QED BY <1>1, <1>2, <1>6, <2>1, <2>2, BeginsNat DEF Parsed, Progress
  <1> HIDE DEF m, n
  <1>7. CASE parse.state = "length1"
    <2>1. n = 1 /\ m[1] = D3
      BY <1>2, <1>7 DEF RtcmProgress, m, n
    <2>2. CASE b > 3
      BY <1>5, <1>7, <2>2 DEF RtcmLength, In
    <2>3. CASE ~(b > 3)
      <3>1. Goto("length2", b * 256) /\ b * 256 \in Nat /\ b * 256 <= 65535
        BY <1>3, <1>7, <2>3 DEF RtcmLength, In
      <3>2. buffer[1] = D3 /\ Len(buffer) = 2 /\ buffer[2] = b /\ b <= 3
        BY <1>3, <2>1, <2>3
      <3>3. (RtcmProgress /\ parse'.state = "length2" /\ parse'.buffer = buffer
               /\ parse'.remaining = b * 256 /\ parse'.type = "rtcm") => RtcmProgress'
        BY <3>2 DEF RtcmProgress
      <3> QED BY <1>6, <3>1, <3>3
    <2> QED BY <2>2, <2>3
  <1>8. CASE parse.state = "length2"
    <2>1. n = 2 /\ m[1] = D3 /\ m[2] <= 3 /\ parse.remaining = m[2] * 256
      BY <1>2, <1>8 DEF RtcmProgress, m, n
    <2> DEFINE remaining == parse.remaining + b
    <2>2. m[2] \in Nat
      BY <1>4, <2>1
    <2>3. Goto("message1", remaining) /\ remaining \in Nat /\ remaining <= 65535
      BY <1>3, <1>8, <2>1, <2>2 DEF RtcmLength, In
    <2>4. /\ buffer[1] = D3 /\ Len(buffer) = 3 /\ buffer[2] <= 3
          /\ remaining = RtcmEnd(buffer) - 3
      BY <1>3, <2>1, <2>2 DEF RtcmEnd
    <2> HIDE DEF remaining
    <2>5. (RtcmProgress /\ parse'.state = "message1" /\ parse'.buffer = buffer
             /\ parse'.remaining = remaining /\ parse'.type = "rtcm") => RtcmProgress'
      BY <2>4 DEF RtcmProgress
    <2> QED BY <1>6, <2>3, <2>5
  <1>9. CASE parse.state \in {"message1", "message2"}
    <2> DEFINE remaining == Less(parse.remaining)
               state == IF parse.state = "message1" THEN "message2" ELSE "data"
               announced == RtcmEnd(buffer)
    <2>1. /\ m[1] = D3
          /\ n > 1 => m[2] <= 3
          /\ n = IF parse.state = "message1" THEN 3 ELSE 4
      BY <1>2, <1>9 DEF RtcmProgress, m, n
    <2>2. /\ parse.state = "message1" => parse.remaining = RtcmEnd(m) - 3
          /\ parse.state = "message2" => Remains(RtcmEnd(m), 6)
      BY <1>2, <1>9 DEF RtcmProgress, m
    <2>3. n \in {3, 4} /\ m[1] = D3 /\ m[2] <= 3
      BY <2>1
    <2>4. /\ buffer[1] = D3 /\ buffer[2] = m[2] /\ buffer[3] = m[3]
          /\ m[2] \in Nat /\ m[3] \in Nat /\ m[3] <= 255
      BY <1>3, <1>4, <2>3
    <2>5. buffer[1] = D3 /\ buffer[2] <= 3 /\ RtcmEnd(m) = announced
      BY <2>3, <2>4 DEF RtcmEnd
    <2>6. announced \in Nat /\ announced >= 3 /\ announced <= 65535
      BY <2>3, <2>4 DEF RtcmEnd
    <2>7. Goto(state, remaining)
      BY <1>9 DEF RtcmLength, In
    <2>8. remaining = IF parse.remaining = 0 THEN 65535 ELSE parse.remaining - 1
      BY <1>3, LessIs
    <2> HIDE DEF remaining, announced, state
    <2>9. /\ remaining \in Nat /\ remaining <= 65535
          /\ state \in {"message2", "data"}
          /\ state = IF parse.state = "message1" THEN "message2" ELSE "data"
      BY <1>3, <1>9, <2>8 DEF state
    <2>10. \/ remaining = announced - (n + 1) /\ announced - (n + 1) > 0
           \/ /\ announced < 6
              /\ remaining = announced - (n + 1) \/ remaining = announced - (n + 1) + 65536
      <3>1. CASE parse.state = "message1"
        BY <2>1, <2>2, <2>5, <2>6, <2>8, <3>1
      <3>2. CASE parse.state = "message2"
        <4>1. n = 4
          BY <2>1, <3>2
        <4>2. \/ parse.remaining = announced - 4 /\ announced > 4
              \/ announced < 6
                   /\ (parse.remaining = announced - 4 \/ parse.remaining = announced - 4 + 65536)
          <5>1. WordSize = 65536
            BY Words
          <5>2. Remains(announced, 6) /\ Len(parse.buffer) = 4
            BY <2>2, <2>5, <3>2, <4>1 DEF n, m
          <5> QED BY <2>6, <5>1, <5>2 DEF Remains
        <4> QED BY <1>3, <2>6, <2>8, <4>1, <4>2
      <3> QED BY <1>9, <3>1, <3>2
    <2>11. (RtcmProgress /\ parse'.state = state /\ parse'.buffer = buffer
              /\ parse'.remaining = remaining /\ parse'.type = "rtcm") => RtcmProgress'
      <3> SUFFICES ASSUME parse'.state = state, parse'.buffer = buffer,
                          parse'.remaining = remaining, parse'.type = "rtcm"
                   PROVE  RtcmProgress'
        OBVIOUS
      <3>1. CASE state = "message2"
        <4>1. n = 3
          BY <2>1, <2>9, <3>1
        <4>2. Len(buffer) = 4
          BY <1>3, <4>1
        <4>3. \/ remaining = announced - 4 /\ announced - 4 > 0
              \/ announced < 6 /\ remaining \in {announced - 4, announced - 4 + WordSize}
          BY <2>10, <4>1, Words
        <4> QED BY <2>5, <3>1, <4>2, <4>3 DEF RtcmProgress, Remains, announced
      <3>2. CASE state = "data"
        <4>1. n = 4
          BY <2>1, <2>9, <3>2
        <4>2. Len(buffer) = 5
          BY <1>3, <4>1
        <4>3. \/ remaining = announced - 5 /\ announced - 5 > 0
              \/ announced < 6 /\ remaining \in {announced - 5, announced - 5 + WordSize}
          BY <2>10, <4>1, Words
        <4> QED BY <2>5, <3>2, <4>2, <4>3 DEF RtcmProgress, Remains, announced
      <3> QED BY <2>9, <3>1, <3>2
    <2> QED BY <1>6, <2>7, <2>9, <2>11
  <1> QED BY <1>1, <1>7, <1>8, <1>9

(* The bytes a message announced are read.                                  *)
LEMMA DataParsed ==
    ASSUME StreamTypes, Parsed, Takes, Data
    PROVE  Parsed' /\ Begins' >= Begins /\ delivered' = delivered
  <1> DEFINE m == parse.buffer
             n == Len(m)
             left == Less(parse.remaining)
             state == IF left = 0 THEN "crc" ELSE "data"
             remaining == IF left = 0 THEN CrcLength(parse.type) ELSE left
             announced == IF parse.type = "rtcm" THEN RtcmEnd(m) ELSE FrameEnd(m)
             least == IF parse.type = "rtcm" THEN 6 ELSE HeaderLength + 1
  <1>1. /\ n < BufferLength /\ parse.state = "data" /\ ParseType /\ parse.name <= NameLimit
    BY DEF Data, In, Parsed, ParserTypes
  <1>2. parse.type \in {"custom", "binary", "rtcm"}
    BY <1>1, TypeOfState
  <1>3. parse.type # "rtcm" => FrameProgress
    BY <1>1, <1>2 DEF Parsed, Progress
  <1>4. parse.type = "rtcm" => RtcmProgress
    BY <1>1 DEF Parsed, Progress
  <1>5. /\ n \in Nat /\ Len(buffer) = n + 1 /\ buffer[n + 1] = b
        /\ \A i \in 1..n : buffer[i] = m[i]
        /\ parse.remaining \in Nat /\ parse.remaining <= 65535
    BY <1>1, Grown
  <1>6. \A i \in 1..n : m[i] \in Nat /\ m[i] <= 255
    BY <1>1, HeldBytes
  <1>7. Goto(state, remaining)
    BY DEF Data
  <1>8. Remains(announced, least)
    BY <1>1, <1>2, <1>3, <1>4 DEF FrameProgress, RtcmProgress
  <1>9. CrcLength(parse.type) = IF parse.type = "rtcm" THEN 3 ELSE 4
    BY DEF CrcLength
  <1>10. /\ parse.type # "rtcm" =>
              /\ m[1] = A /\ m[2] = B /\ n >= HeaderLength
              /\ m[3] = IF parse.type = "custom" THEN CustomC ELSE UnicoreC
              /\ parse.type = "custom" => m[HeaderLength] > 0
         /\ parse.type = "rtcm" => n >= 5 /\ m[1] = D3 /\ m[2] <= 3
    <2>1. ASSUME parse.type # "rtcm"
          PROVE  /\ m[1] = A /\ m[2] = B /\ n >= HeaderLength
                 /\ m[3] = IF parse.type = "custom" THEN CustomC ELSE UnicoreC
                 /\ parse.type = "custom" => m[HeaderLength] > 0
      <3>1. ~(n < HeaderLength)
        BY <1>1, <1>3, <2>1 DEF FrameProgress
      <3> QED BY <1>1, <1>3, <1>5, <2>1, <3>1, Sizes DEF FrameProgress
    <2>2. ASSUME parse.type = "rtcm" PROVE n >= 5 /\ m[1] = D3 /\ m[2] <= 3
      BY <1>1, <1>4, <2>2 DEF RtcmProgress
    <2> QED BY <2>1, <2>2
  <1>11. n = Len(parse.buffer)
    OBVIOUS
  <1> HIDE DEF m, n, left, state, remaining, announced, least
  <1>12. /\ n < 65535 /\ least \in Nat /\ least <= n + 1
         /\ HeaderLength \in Nat /\ HeaderLength > 5
    <2>1. BufferLength \in Nat /\ BufferLength <= 65535 /\ HeaderLength \in Nat /\ HeaderLength > 5
      BY Sizes
    <2>2. n < 65535
      BY <1>1, <1>5, <2>1
    <2>3. least = IF parse.type = "rtcm" THEN 6 ELSE HeaderLength + 1
      BY DEF least
    <2> QED BY <1>5, <1>10, <2>1, <2>2, <2>3
  <1>13. /\ announced \in Nat
         /\ announced = IF parse.type = "rtcm" THEN RtcmEnd(buffer) ELSE FrameEnd(buffer)
    <2>1. CASE parse.type = "rtcm"
      <3>1. /\ buffer[2] = m[2] /\ buffer[3] = m[3] /\ m[2] \in Nat /\ m[3] \in Nat
        BY <1>5, <1>6, <1>10, <2>1
      <3> QED BY <2>1, <3>1 DEF announced, RtcmEnd
    <2>2. CASE parse.type # "rtcm"
      <3>1. buffer[HeaderLength] = m[HeaderLength] /\ m[HeaderLength] \in Nat
        BY <1>5, <1>6, <1>10, <1>12, <2>2
      <3> QED BY <1>12, <2>2, <3>1 DEF announced, FrameEnd
    <2> QED BY <2>1, <2>2
  <1>14. /\ left \in Nat /\ left <= 65535
         /\ left = 0 => announced = n + 1
         /\ left # 0 => RemainsOf(left, n + 1, announced, least)
    <2> DEFINE r == parse.remaining
    <2>1. RemainsOf(r, n, announced, least)
      BY <1>5, <1>8, <1>11, <1>13 DEF Remains, RemainsOf
    <2>2. /\ r \in Nat /\ r <= 65535 /\ n \in Nat /\ n < 65535 /\ announced \in Nat
          /\ least \in Nat /\ least <= n + 1 /\ left = Less(r)
      BY <1>5, <1>12, <1>13 DEF left
    <2> HIDE DEF r
    <2> QED BY <2>1, <2>2, CountDown
  <1>15. /\ state \in {"crc", "data"} /\ (state = "crc" <=> left = 0)
         /\ remaining = IF left = 0 THEN (IF parse.type = "rtcm" THEN 3 ELSE 4) ELSE left
         /\ remaining \in Nat /\ remaining <= 65535
    BY <1>9, <1>14 DEF state, remaining
  <1>16. /\ parse'.state = state /\ parse'.buffer = buffer /\ parse'.remaining = remaining
         /\ parse'.type = parse.type /\ parse'.name = parse.name /\ parse'.from = parse.from
         /\ ParseType' /\ delivered' = delivered
    <2>1. state \in States /\ remaining \in Word
      BY <1>15, Reading
    <2> QED BY <1>1, <1>7, <2>1, GotoFields
  <1>17. ParserTypes' /\ BufferIsSent' /\ Begins' = Begins
    BY <1>1, <1>11, <1>15, <1>16, GoesOn
  <1>18. parse.type # "rtcm" => FrameProgress'
    <2> SUFFICES ASSUME parse.type # "rtcm" PROVE FrameProgress'
      OBVIOUS
    <2>1. /\ buffer[1] = A /\ buffer[2] = B /\ n + 1 >= 3
          /\ buffer[3] = IF parse.type = "custom" THEN CustomC ELSE UnicoreC
          /\ ~(n + 1 < HeaderLength)
          /\ buffer[HeaderLength] = m[HeaderLength] /\ m[HeaderLength] \in Nat
      BY <1>5, <1>6, <1>10, <1>12
    <2>2. announced = FrameEnd(buffer) /\ announced = HeaderLength + m[HeaderLength]
      BY <1>13, <2>1 DEF FrameEnd
    <2>3. CASE left = 0
      <3>1. /\ n + 1 + remaining = FrameEnd(buffer) + 4 /\ remaining = 4
            /\ buffer[HeaderLength] > 0
        BY <1>5, <1>10, <1>12, <1>14, <1>15, <2>1, <2>2, <2>3
      <3> QED BY <1>5, <1>15, <1>16, <2>1, <2>3, <3>1 DEF FrameProgress
    <2>4. CASE left # 0
      <3>1. \/ remaining = FrameEnd(buffer) - (n + 1) /\ FrameEnd(buffer) - (n + 1) > 0
            \/ /\ FrameEnd(buffer) < HeaderLength + 1
               /\ remaining \in {FrameEnd(buffer) - (n + 1),
                                    FrameEnd(buffer) - (n + 1) + WordSize}
        BY <1>5, <1>12, <1>13, <1>14, <1>15, <2>2, <2>4 DEF least, RemainsOf
      <3>2. parse.type = "custom" => buffer[HeaderLength] > 0
        BY <1>10, <2>1
      <3> QED BY <1>5, <1>15, <1>16, <2>1, <2>4, <3>1, <3>2 DEF FrameProgress, Remains
    <2> QED BY <2>3, <2>4
  <1>19. parse.type = "rtcm" => RtcmProgress'
    <2> SUFFICES ASSUME parse.type = "rtcm" PROVE RtcmProgress'
      OBVIOUS
    <2>1. buffer[1] = D3 /\ buffer[2] <= 3 /\ n + 1 >= 6
      BY <1>5, <1>10
    <2>2. announced = RtcmEnd(buffer) /\ least = 6
      BY <1>13 DEF least
    <2>3. CASE left = 0
      <3>1. n + 1 + remaining = RtcmEnd(buffer) + 3 /\ remaining = 3 /\ RtcmEnd(buffer) >= 6
        BY <1>5, <1>14, <1>15, <2>1, <2>2, <2>3
      <3> QED BY <1>5, <1>15, <1>16, <2>1, <2>3, <3>1 DEF RtcmProgress
    <2>4. CASE left # 0
      <3>1. \/ remaining = RtcmEnd(buffer) - (n + 1) /\ RtcmEnd(buffer) - (n + 1) > 0
            \/ /\ RtcmEnd(buffer) < 6
               /\ remaining \in {RtcmEnd(buffer) - (n + 1), RtcmEnd(buffer) - (n + 1) + WordSize}
        BY <1>5, <1>13, <1>14, <1>15, <2>2, <2>4 DEF RemainsOf
      <3> QED BY <1>5, <1>15, <1>16, <2>1, <2>4, <3>1 DEF RtcmProgress, Remains
    <2> QED BY <2>3, <2>4
  <1>20. Progress'
    BY <1>2, <1>16, <1>18, <1>19 DEF Progress
  <1> QED BY <1>1, <1>15, <1>16, <1>17, <1>20, BeginsNat DEF Parsed

(* A message ends with the last byte of its CRC.                            *)
LEMMA FrameEnds ==
    ASSUME NEW m \in Seq(Byte), NEW type \in {"custom", "binary"},
           m[1] = A, m[2] = B, m[3] = IF type = "custom" THEN CustomC ELSE UnicoreC,
           Len(m) = FrameEnd(m) + 4, m[HeaderLength] \in Nat, HeaderLength \in Nat,
           HeaderLength > 5, type = "binary" => m[HeaderLength] > 0
    PROVE  IsMessage(type, m)
  <1>1. Len(m) \in Nat /\ Len(m) >= HeaderLength + 4
    BY LenProperties DEF FrameEnd
  <1> DEFINE start == SubSeq(m, 1, 3)
             sync == <<A, B, IF type = "custom" THEN CustomC ELSE UnicoreC>>
  <1>2. start \in Seq(Byte) /\ Len(start) = 3 /\ \A i \in 1..3 : start[i] = m[i]
    <2>1. /\ SubSeq(m, 1, 3) \in Seq(Byte) /\ Len(SubSeq(m, 1, 3)) = 3 - 1 + 1
          /\ \A i \in 1..3 - 1 + 1 : SubSeq(m, 1, 3)[i] = m[1 + i - 1]
      <3>1. 1 \in 1..Len(m) + 1 /\ 3 \in 0..Len(m)
        BY <1>1
      <3> QED BY <3>1, SubSeqProperties
    <2>2. \A i \in 1..3 : i \in Int /\ 1 + i - 1 = i
      OBVIOUS
    <2> QED BY <2>1, <2>2
  <1>3. A \in Byte /\ B \in Byte /\ CustomC \in Byte /\ UnicoreC \in Byte
    BY DEF Byte, A, B, CustomC, UnicoreC
  <1>4. sync \in Seq(Byte) /\ Len(sync) = 3 /\ sync[1] = A /\ sync[2] = B
        /\ sync[3] = IF type = "custom" THEN CustomC ELSE UnicoreC
    BY <1>3
  <1> HIDE DEF start, sync
  <1>5. \A i \in 1..3 : i \in {1, 2, 3}
    OBVIOUS
  <1>6. \A i \in 1..3 : start[i] = sync[i]
    BY <1>2, <1>4, <1>5
  <1>7. start = sync
    <2>1. Len(start) = Len(sync) /\ \A i \in 1..Len(start) : start[i] = sync[i]
      BY <1>2, <1>4, <1>6
    <2> QED BY <1>2, <1>4, <2>1, SeqEqual
  <1> QED BY <1>1, <1>7 DEF IsMessage, IsFrame, FrameEnd, start, sync

(* The check of a binary message: it is dropped or given out.               *)
LEMMA CrcParsed ==
    ASSUME StreamTypes, Parsed, Takes, Crc
    PROVE  ParserStep
  <1> DEFINE m == parse.buffer
             n == Len(m)
  <1>1. /\ n < BufferLength /\ parse.state = "crc" /\ ParseType /\ parse.name <= NameLimit
        /\ BufferIsSent
    BY DEF Crc, In, Parsed, ParserTypes
  <1>2. parse.type \in {"custom", "binary", "rtcm"}
    BY <1>1, TypeOfState
  <1>3. parse.type # "rtcm" => FrameProgress
    BY <1>1, <1>2 DEF Parsed, Progress
  <1>4. parse.type = "rtcm" => RtcmProgress
    BY <1>1 DEF Parsed, Progress
  <1>5. /\ n \in Nat /\ Len(buffer) = n + 1 /\ buffer[n + 1] = b
        /\ \A i \in 1..n : buffer[i] = m[i]
        /\ parse.remaining \in Nat /\ parse.remaining <= 65535 /\ Len(buffer) <= BufferLength
    BY <1>1, Grown
  <1>6. \A i \in 1..n : m[i] \in Nat /\ m[i] <= 255
    BY <1>1, HeldBytes
  <1>7. HeaderLength \in Nat /\ HeaderLength > 5
    BY Sizes
  <1>8. parse.type # "rtcm" =>
           /\ m[1] = A /\ m[2] = B /\ n >= HeaderLength
           /\ m[3] = IF parse.type = "custom" THEN CustomC ELSE UnicoreC
           /\ parse.type = "binary" => m[HeaderLength] > 0
           /\ parse.remaining >= 1 /\ n + parse.remaining = FrameEnd(m) + 4
    <2> SUFFICES ASSUME parse.type # "rtcm"
                 PROVE  /\ m[1] = A /\ m[2] = B /\ n >= HeaderLength
                        /\ m[3] = IF parse.type = "custom" THEN CustomC ELSE UnicoreC
                        /\ parse.type = "binary" => m[HeaderLength] > 0
                        /\ parse.remaining >= 1 /\ n + parse.remaining = FrameEnd(m) + 4
      OBVIOUS
    <2>1. ~(n < HeaderLength)
      BY <1>1, <1>3 DEF FrameProgress
    <2> QED BY <1>1, <1>3, <1>5, <1>7, <2>1 DEF FrameProgress
  <1>9. parse.type = "rtcm" =>
           /\ n >= 6 /\ m[1] = D3 /\ m[2] <= 3 /\ RtcmEnd(m) >= 6
           /\ parse.remaining >= 1 /\ n + parse.remaining = RtcmEnd(m) + 3
    BY <1>1, <1>4 DEF RtcmProgress
  <1>10. parse.type # "rtcm" => buffer[HeaderLength] = m[HeaderLength] /\ m[HeaderLength] \in Nat
    BY <1>5, <1>6, <1>7, <1>8
  <1>11. n = Len(parse.buffer)
    OBVIOUS
  <1> HIDE DEF m, n
  <1>12. CASE parse.remaining > 1
    <2> DEFINE remaining == parse.remaining - 1
    <2>1. remaining \in Nat /\ remaining <= 65535 /\ remaining >= 1
      BY <1>5, <1>12
    <2>2. Goto("crc", remaining)
      BY <1>12 DEF Crc
    <2> HIDE DEF remaining
    <2>3. /\ parse'.state = "crc" /\ parse'.buffer = buffer /\ parse'.remaining = remaining
          /\ parse'.type = parse.type /\ parse'.name = parse.name /\ parse'.from = parse.from
          /\ ParseType' /\ delivered' = delivered
      <3>1. "crc" \in States /\ remaining \in Word
        BY <2>1, Reading
      <3> QED BY <1>1, <2>2, <3>1, GotoFields
    <2>4. ParserTypes' /\ BufferIsSent' /\ Begins' = Begins
      BY <1>1, <1>11, <2>3, GoesOn
    <2>5. parse.type # "rtcm" => FrameProgress'
      <3> SUFFICES ASSUME parse.type # "rtcm" PROVE FrameProgress'
        OBVIOUS
      <3>1. /\ buffer[1] = A /\ buffer[2] = B /\ n + 1 >= 3
            /\ buffer[3] = IF parse.type = "custom" THEN CustomC ELSE UnicoreC
            /\ ~(n + 1 < HeaderLength)
            /\ parse.type = "binary" => buffer[HeaderLength] > 0
        BY <1>5, <1>7, <1>8, <1>10
      <3>2. remaining \in 1..4 /\ n + 1 + remaining = FrameEnd(buffer) + 4
        <4>1. FrameEnd(buffer) = FrameEnd(m) /\ FrameEnd(m) \in Nat
          BY <1>7, <1>10 DEF FrameEnd
        <4>2. parse.remaining \in 1..4
          BY <1>1, <1>3, <1>7 DEF FrameProgress
        <4> QED BY <1>5, <1>8, <2>1, <4>1, <4>2 DEF remaining
      <3> QED BY <1>5, <2>3, <3>1, <3>2 DEF FrameProgress
    <2>6. parse.type = "rtcm" => RtcmProgress'
      <3> SUFFICES ASSUME parse.type = "rtcm" PROVE RtcmProgress'
        OBVIOUS
      <3>1. buffer[1] = D3 /\ buffer[2] <= 3 /\ n + 1 >= 6
        BY <1>5, <1>9
      <3>2. remaining \in 1..3 /\ n + 1 + remaining = RtcmEnd(buffer) + 3 /\ RtcmEnd(buffer) >= 6
        <4>1. buffer[2] = m[2] /\ buffer[3] = m[3] /\ m[2] \in Nat /\ m[3] \in Nat
          BY <1>5, <1>6, <1>9
        <4>2. RtcmEnd(buffer) = RtcmEnd(m) /\ RtcmEnd(m) \in Nat
          BY <4>1 DEF RtcmEnd
        <4>3. parse.remaining \in 1..3
          BY <1>1, <1>4 DEF RtcmProgress
        <4> QED BY <1>5, <1>9, <2>1, <4>2, <4>3 DEF remaining
      <3> QED BY <1>5, <2>3, <3>1, <3>2 DEF RtcmProgress
    <2>7. Progress'
      BY <1>2, <2>3, <2>5, <2>6 DEF Progress
    <2> QED BY <1>1, <2>3, <2>4, <2>7, BeginsNat DEF Parsed, ParserStep
  <1>13. CASE ~(parse.remaining > 1)
    <2>1. parse' = [parse EXCEPT !.state = "first", !.buffer = buffer]
      BY <1>13 DEF Crc
    <2>2. buffer \in Seq(Byte) /\ read \in Nat
      BY <1>1, Taken DEF Takes
    <2>3. /\ parse'.state = "first" /\ parse'.buffer = buffer
          /\ parse'.type = parse.type /\ parse'.name = parse.name /\ parse'.from = parse.from
          /\ ParseType'
      BY <1>1, <2>1, <2>2 DEF ParseType, States
    <2>4. Parsed'
      <3>1. table' = table
        BY DEF Takes
      <3>2. ParserTypes'
        BY <1>1, <1>5, <2>3, <3>1 DEF ParserTypes, Parsed
      <3> QED BY <2>3, <3>2 DEF Parsed, BufferIsSent, Progress
    <2>5. Begins' = read + 2
      BY <2>2, <2>3 DEF Begins, Takes
    <2>6. Begins \in Nat /\ Begins <= read + 1
      BY <1>1, BeginsNat
    <2>7. CASE UNCHANGED delivered
      BY <2>2, <2>4, <2>5, <2>6, <2>7 DEF ParserStep
    <2>8. CASE CrcOk(parse.type, buffer) \/ BadCrcAccepts
      <3>1. Deliver(buffer, length)
        BY <1>13, <2>8 DEF Crc
      <3>2. /\ Len(buffer) = (read + 1) - parse.from + 1
            /\ buffer = SubSeq(stream, parse.from, read + 1)
            /\ parse.from \in 1..read + 1
        BY <1>1, BufferGrows
      <3>3. /\ parse.from + Len(buffer) = Begins' /\ parse.from >= 1
            /\ parse.from + Len(buffer) - 1 = read + 1
        BY <1>5, <2>2, <2>5, <3>2
      <3>4. IsMessage(parse.type, buffer)
        <4>1. CASE parse.type # "rtcm"
          <5>1. /\ buffer[1] = A /\ buffer[2] = B
                /\ buffer[3] = IF parse.type = "custom" THEN CustomC ELSE UnicoreC
                /\ parse.type = "binary" => buffer[HeaderLength] > 0
                /\ buffer[HeaderLength] \in Nat
            BY <1>5, <1>7, <1>8, <1>10, <4>1
          <5>2. Len(buffer) = FrameEnd(buffer) + 4
            <6>1. FrameEnd(buffer) = FrameEnd(m) /\ FrameEnd(m) \in Nat
              BY <1>7, <1>10, <4>1 DEF FrameEnd
            <6> QED BY <1>5, <1>8, <1>13, <4>1, <6>1
          <5> QED BY <1>2, <1>7, <2>2, <4>1, <5>1, <5>2, FrameEnds
        <4>2. CASE parse.type = "rtcm"
          <5>1. /\ buffer[1] = D3 /\ buffer[2] = m[2] /\ buffer[3] = m[3]
                /\ m[2] \in Nat /\ m[3] \in Nat /\ m[2] <= 3
            BY <1>5, <1>6, <1>9, <4>2
          <5>2. Len(buffer) = RtcmEnd(m) + 3
            BY <1>5, <1>9, <1>13, <4>2, <5>1 DEF RtcmEnd
          <5> QED BY <1>5, <1>9, <4>2, <5>1, <5>2 DEF IsMessage, IsRtcm, RtcmEnd
        <4> QED BY <4>1, <4>2
      <3>5. table = <<"custom", "rtcm">> => CheckHolds(parse.type, buffer)
        BY <1>2, <2>8 DEF BadCrcAccepts, CheckHolds
      <3>6. length \in Nat /\ length <= BufferLength
        BY <1>5 DEF length
      <3>7. buffer = SubSeq(stream, parse.from, parse.from + Len(buffer) - 1)
        BY <3>2, <3>3
      <3>8. parse.from + Len(buffer) <= Begins'
        BY <2>2, <2>5, <3>3
      <3>9. GivenOut(buffer, length)
        BY <1>1, <2>2, <3>1, <3>3, <3>4, <3>5, <3>6, <3>7, <3>8 DEF GivenOut, Begins
      <3> QED BY <2>2, <2>4, <2>5, <2>6, <3>9 DEF ParserStep
    <2> QED BY <1>13, <2>7, <2>8 DEF Crc
  <1> QED BY <1>12, <1>13

-----------------------------------------------------------------------------
(* The number of checksum characters depends on the name only.              *)
LEMMA DigitsAre ==
    \A type, m : Digits(type, m) \in {2, 8} /\ (type = "nmea" => Digits(type, m) = 2)
  BY DEF Digits

(* Sequences that begin alike have the same parts there.                    *)
LEMMA SameParts ==
    ASSUME NEW m \in Seq(Byte), NEW k \in Seq(Byte), NEW to \in Nat, to >= 1,
           to <= Len(m), to <= Len(k), \A i \in 1..to : m[i] = k[i]
    PROVE  SubSeq(m, 2, to) = SubSeq(k, 2, to)
  <1> DEFINE x == SubSeq(m, 2, to)
             y == SubSeq(k, 2, to)
  <1>1. Len(m) \in Nat /\ Len(k) \in Nat
    BY LenProperties
  <1>2. 2 \in 1..Len(m) + 1 /\ 2 \in 1..Len(k) + 1 /\ to \in 2 - 1..Len(m) /\ to \in 2 - 1..Len(k)
    BY <1>1
  <1>3. x \in Seq(Byte) /\ Len(x) = to - 2 + 1 /\ \A i \in 1..to - 2 + 1 : x[i] = m[2 + i - 1]
    BY <1>2, SubSeqProperties
  <1>4. y \in Seq(Byte) /\ Len(y) = to - 2 + 1 /\ \A i \in 1..to - 2 + 1 : y[i] = k[2 + i - 1]
    BY <1>2, SubSeqProperties
  <1> HIDE DEF x, y
  <1>5. \A i \in 1..to - 2 + 1 : 2 + i - 1 \in 1..to
    OBVIOUS
  <1>6. Len(x) = Len(y) /\ \A i \in 1..Len(x) : x[i] = y[i]
    BY <1>3, <1>4, <1>5
  <1>7. x = y
    BY <1>3, <1>4, <1>6, SeqEqual
  <1> QED BY <1>7 DEF x, y

(* The name of a sentence, and its comma.                                   *)
Named(m, comma) ==
    /\ comma >= 3 /\ comma <= Len(m) /\ m[comma] = Comma /\ m[1] \in {Dollar, Hash}
    /\ \A i \in 2..comma - 1 : m[i] \in NameBytes

(* The name ends before the first comma.                                    *)
LEMMA NameIs ==
    ASSUME NEW m \in Seq(Byte), NEW comma \in Nat, Named(m, comma)
    PROVE  NameOf(m) = SubSeq(m, 2, comma - 1)
  <1>1. Len(m) \in Nat
    BY LenProperties
  <1>2. comma \in 2..Len(m) /\ m[comma] = Comma
    BY <1>1 DEF Named
  <1>3. m[1] # Comma
    BY DEF Named, Dollar, Hash, Comma
  <1>4. \A x \in NameBytes : x # Comma
    BY DEF NameBytes, Comma
  <1>5. \A i \in 2..comma - 1 : m[i] # Comma
    BY <1>4 DEF Named
  <1> QED BY <1>2, <1>3, <1>5, NameEnds

(* What is behind the comma changes neither the name nor the digits.        *)
LEMMA DigitsKept ==
    ASSUME NEW m \in Seq(Byte), NEW k \in Seq(Byte), NEW comma \in Nat, Named(m, comma),
           comma <= Len(k), \A i \in 1..comma : k[i] = m[i]
    PROVE  Named(k, comma) /\ \A type : Digits(type, k) = Digits(type, m)
  <1>1. comma >= 3 /\ comma <= Len(m)
    BY DEF Named
  <1>2. Named(k, comma)
    <2>1. \A i \in 2..comma - 1 : i \in 1..comma
      OBVIOUS
    <2>2. 1 \in 1..comma /\ comma \in 1..comma
      BY <1>1
    <2> QED BY <1>1, <2>1, <2>2 DEF Named
  <1>3. SubSeq(m, 2, comma - 1) = SubSeq(k, 2, comma - 1)
    <2> DEFINE to == comma - 1
    <2>1. Len(m) \in Nat /\ Len(k) \in Nat
      BY LenProperties
    <2>2. /\ to \in Nat /\ to >= 1 /\ to <= Len(m) /\ to <= Len(k)
          /\ \A i \in 1..to : m[i] = k[i]
      BY <1>1, <2>1
    <2> HIDE DEF to
    <2>3. SubSeq(m, 2, to) = SubSeq(k, 2, to)
      BY <2>2, SameParts
    <2> QED BY <2>3 DEF to
  <1>4. NameOf(k) = NameOf(m)
    BY <1>2, <1>3, NameIs
  <1> QED BY <1>2, <1>4 DEF Digits

(* The name of a sentence.                                                  *)
LEMMA NameParsed ==
    ASSUME StreamTypes, Parsed, Takes, Name
    PROVE  Parsed' /\ Begins' >= Begins /\ delivered' = delivered
  <1> DEFINE m == parse.buffer
             n == Len(m)
             name == parse.name
  <1>1. /\ n < BufferLength /\ parse.state = "name" /\ ParseType /\ name <= NameLimit
        /\ name \in Nat
    BY DEF Name, In, Parsed, ParserTypes, ParseType
  <1>2. parse.type \in {"nmea", "hash"} /\ SentenceProgress
    BY <1>1, TypeOfState DEF Parsed, Progress
  <1>3. /\ n \in Nat /\ Len(buffer) = n + 1 /\ buffer[n + 1] = b
        /\ \A i \in 1..n : buffer[i] = m[i]
    BY <1>1, Grown
  <1>4. /\ m[1] = IF parse.type = "nmea" THEN Dollar ELSE Hash
        /\ \A i \in 2..name + 1 : m[i] \in NameBytes
        /\ n = name + 1
    BY <1>1, <1>2 DEF SentenceProgress
  <1>5. n = Len(parse.buffer) /\ name = parse.name
    OBVIOUS
  <1> HIDE DEF m, n, name
  <1>6. /\ buffer[1] = IF parse.type = "nmea" THEN Dollar ELSE Hash
        /\ \A i \in 2..name + 1 : buffer[i] \in NameBytes
    BY <1>1, <1>3, <1>4
  <1>7. CASE SearchAgain
    BY <1>7, SearchGoesOn
  <1>8. CASE b = Comma /\ name > 0
    <2>1. Goto("text", 0)
      BY <1>5, <1>8 DEF Name
    <2>2. /\ parse'.state = "text" /\ parse'.buffer = buffer /\ parse'.remaining = 0
          /\ parse'.type = parse.type /\ parse'.name = parse.name /\ parse'.from = parse.from
          /\ ParseType' /\ delivered' = delivered
      <3>1. "text" \in States /\ 0 \in Word
        BY Reading
      <3> QED BY <1>1, <2>1, <3>1, GotoFields
    <2>3. ParserTypes' /\ BufferIsSent' /\ Begins' = Begins
      BY <1>1, <1>5, <2>2, GoesOn
    <2>4. /\ name + 2 \in 3..n + 1 /\ buffer[name + 2] = Comma
          /\ \A i \in name + 2..n + 1 : buffer[i] # Asterisk
          /\ n + 1 + Overhead(parse.type) <= BufferLength
      <3>1. name + 2 = n + 1 /\ name + 2 \in 3..n + 1
        BY <1>1, <1>3, <1>4, <1>8
      <3>2. \A i \in name + 2..n + 1 : i = n + 1
        BY <1>1, <1>3, <3>1
      <3>3. Comma # Asterisk
        BY DEF Comma, Asterisk
      <3>4. n + 1 + Overhead(parse.type) <= BufferLength
        <4>1. Overhead(parse.type) \in {3, 6}
          BY DEF Overhead
        <4>2. NameLimit + 8 <= BufferLength /\ NameLimit \in Nat /\ BufferLength \in Nat
          BY Sizes
        <4> QED BY <1>1, <1>3, <3>1, <4>1, <4>2
      <3> QED BY <1>3, <1>8, <3>1, <3>2, <3>3, <3>4
    <2>5. SentenceProgress'
      BY <1>1, <1>3, <1>5, <1>6, <2>2, <2>4 DEF SentenceProgress
    <2>6. Progress'
      BY <1>2, <2>2, <2>5 DEF Progress
    <2> QED BY <1>1, <2>2, <2>3, <2>6, BeginsNat DEF Parsed
  <1>9. CASE ~(b = Comma /\ name > 0) /\ NameCharacter /\ name < NameLimit
    <2>1. /\ parse' = [parse EXCEPT !.buffer = buffer, !.name = @ + 1]
          /\ delivered' = delivered
      BY <1>5, <1>9 DEF Name
    <2>2. /\ parse'.state = "name" /\ parse'.buffer = buffer
          /\ parse'.type = parse.type /\ parse'.name = name + 1 /\ parse'.from = parse.from
          /\ ParseType'
      <3>1. buffer \in Seq(Byte) /\ parse.name + 1 \in Nat
        BY <1>1, <1>5, Taken DEF Takes
      <3> QED BY <1>1, <1>5, <2>1, <3>1 DEF ParseType
    <2>3. ParserTypes' /\ BufferIsSent' /\ Begins' = Begins
      <3>1. parse'.name <= NameLimit
        BY <1>1, <1>9, <2>2, Sizes
      <3> QED BY <1>1, <1>5, <2>2, <3>1, GoesOn
    <2>4. \A i \in 2..name + 2 : buffer[i] \in NameBytes
      <3>1. b \in NameBytes
        BY <1>9 DEF NameCharacter, NameBytes
      <3>2. \A i \in 2..name + 2 : i \in 2..name + 1 \/ i = n + 1
        BY <1>1, <1>4
      <3> QED BY <1>3, <1>6, <3>1, <3>2
    <2>5. SentenceProgress'
      <3>1. Len(buffer) = (name + 1) + 1 /\ name + 1 <= NameLimit /\ (name + 1) + 1 = name + 2
        BY <1>1, <1>3, <1>4, <1>9, Sizes
      <3> QED BY <1>6, <2>2, <2>4, <3>1 DEF SentenceProgress
    <2>6. Progress'
      BY <1>2, <2>2, <2>5 DEF Progress
    <2> QED BY <1>1, <2>1, <2>2, <2>3, <2>6, BeginsNat DEF Parsed
  <1> QED BY <1>5, <1>7, <1>8, <1>9 DEF Name

-----------------------------------------------------------------------------
(* A sentence that has come to its asterisk.                                *)
Closed(m, type, name, left) ==
    LET asterisk == Len(m) + left - Digits(type, m)
    IN  /\ m[1] = IF type = "nmea" THEN Dollar ELSE Hash
        /\ name <= NameLimit /\ name + 2 >= 3 /\ name + 2 <= asterisk
        /\ \A i \in 2..name + 1 : m[i] \in NameBytes
        /\ m[name + 2] = Comma
        /\ asterisk <= Len(m) /\ m[asterisk] = Asterisk
        /\ \A i \in name + 2..asterisk - 1 : m[i] # Asterisk
        /\ \A i \in asterisk + 1..Len(m) : Nibble(m[i]) >= 0
        /\ asterisk + Overhead(type) <= BufferLength + 1

(* What the state says of a sentence whose asterisk is there,               *)
LEMMA ClosedProgress ==
    ASSUME parse.name \in Nat, Len(parse.buffer) \in Nat, parse.type \in {"nmea", "hash"},
           parse.remaining \in Nat
    PROVE  /\ SentenceProgress /\ parse.state = "digits" =>
                /\ Closed(parse.buffer, parse.type, parse.name, parse.remaining)
                /\ parse.remaining > 0
           /\ SentenceProgress /\ parse.state \in {"end", "lf", "cr"} =>
                Closed(parse.buffer, parse.type, parse.name, 0)
  <1> DEFINE m == parse.buffer
             n == Len(m)
             d == Digits(parse.type, m)
             comma == parse.name + 2
  <1>1. d \in {2, 8} /\ n \in Nat
    BY DigitsAre
  <1>2. n = Len(m) /\ d = Digits(parse.type, m)
    OBVIOUS
  <1>3. ASSUME SentenceProgress, parse.state = "digits"
        PROVE  Closed(m, parse.type, parse.name, parse.remaining) /\ parse.remaining > 0
    <2> DEFINE asterisk == n + parse.remaining - d
    <2>1. /\ m[1] = IF parse.type = "nmea" THEN Dollar ELSE Hash
          /\ parse.name <= NameLimit
          /\ \A i \in 2..parse.name + 1 : m[i] \in NameBytes
          /\ comma \in 3..asterisk /\ m[comma] = Comma
          /\ asterisk <= n /\ m[asterisk] = Asterisk
          /\ \A i \in comma..asterisk - 1 : m[i] # Asterisk
          /\ \A i \in asterisk + 1..n : Nibble(m[i]) >= 0
          /\ parse.remaining > 0
          /\ asterisk + Overhead(parse.type) <= BufferLength + 1
      BY <1>3 DEF SentenceProgress
    <2>2. comma >= 3 /\ comma <= asterisk
      BY <1>1, <2>1
    <2> QED BY <2>1, <2>2 DEF Closed
  <1>4. ASSUME SentenceProgress, parse.state \in {"end", "lf", "cr"}
        PROVE  Closed(m, parse.type, parse.name, 0)
    <2> DEFINE asterisk == n + 0 - d
    <2>1. /\ m[1] = IF parse.type = "nmea" THEN Dollar ELSE Hash
          /\ parse.name <= NameLimit
          /\ \A i \in 2..parse.name + 1 : m[i] \in NameBytes
          /\ comma \in 3..asterisk /\ m[comma] = Comma
          /\ asterisk <= n /\ m[asterisk] = Asterisk
          /\ \A i \in comma..asterisk - 1 : m[i] # Asterisk
          /\ \A i \in asterisk + 1..n : Nibble(m[i]) >= 0
          /\ asterisk + Overhead(parse.type) <= BufferLength + 1
      BY <1>4 DEF SentenceProgress
    <2>2. comma >= 3 /\ comma <= asterisk
      BY <1>1, <2>1
    <2> QED BY <2>1, <2>2 DEF Closed
  <1> QED BY <1>3, <1>4

(* and the other way round.                                                 *)
LEMMA ProgressClosed ==
    ASSUME parse.name \in Nat, Len(parse.buffer) \in Nat, parse.type \in {"nmea", "hash"},
           parse.remaining \in Nat,
           \/ /\ parse.state = "digits" /\ parse.remaining > 0
              /\ Closed(parse.buffer, parse.type, parse.name, parse.remaining)
           \/ /\ parse.state \in {"end", "lf", "cr"}
              /\ Closed(parse.buffer, parse.type, parse.name, 0)
    PROVE  SentenceProgress
  <1> DEFINE m == parse.buffer
             n == Len(m)
             d == Digits(parse.type, m)
             comma == parse.name + 2
             left == IF parse.state = "digits" THEN parse.remaining ELSE 0
             asterisk == n + left - d
  <1>1. d \in {2, 8} /\ n \in Nat /\ left \in Nat
    BY DigitsAre
  <1>2. Closed(m, parse.type, parse.name, left)
    OBVIOUS
  <1>3. /\ m[1] = IF parse.type = "nmea" THEN Dollar ELSE Hash
        /\ parse.name <= NameLimit
        /\ \A i \in 2..parse.name + 1 : m[i] \in NameBytes
        /\ comma >= 3 /\ comma <= asterisk /\ m[comma] = Comma
        /\ asterisk <= n /\ m[asterisk] = Asterisk
        /\ \A i \in comma..asterisk - 1 : m[i] # Asterisk
        /\ \A i \in asterisk + 1..n : Nibble(m[i]) >= 0
        /\ asterisk + Overhead(parse.type) <= BufferLength + 1
    <2> HIDE DEF left
    <2> QED BY <1>2 DEF Closed
  <1>4. comma \in 3..asterisk
    <2> HIDE DEF d, n, left
    <2> QED BY <1>1, <1>3
  <1>5. parse.state \in {"digits", "end", "lf", "cr"} /\ (parse.state = "digits" => left > 0)
    OBVIOUS
  <1> QED BY <1>3, <1>4, <1>5 DEF SentenceProgress

(* Its parts.                                                               *)
LEMMA ClosedParts ==
    ASSUME NEW m \in Seq(Byte), NEW type \in {"nmea", "hash"}, NEW name \in Nat,
           NEW left \in Nat, Closed(m, type, name, left)
    PROVE  /\ Named(m, name + 2)
           /\ Len(m) + left - Digits(type, m) \in name + 3..Len(m)
           /\ Len(m) \in Nat
  <1> DEFINE asterisk == Len(m) + left - Digits(type, m)
  <1>1. Len(m) \in Nat /\ Digits(type, m) \in {2, 8}
    BY DigitsAre, LenProperties
  <1>2. /\ m[1] = IF type = "nmea" THEN Dollar ELSE Hash
        /\ name + 2 <= asterisk /\ name + 2 >= 3
        /\ \A i \in 2..name + 1 : m[i] \in NameBytes
        /\ m[name + 2] = Comma
        /\ asterisk <= Len(m) /\ m[asterisk] = Asterisk
    BY DEF Closed
  <1>3. asterisk \in Int /\ asterisk # name + 2
    <2>1. Comma # Asterisk
      BY DEF Comma, Asterisk
    <2> QED BY <1>1, <1>2, <2>1
  <1> HIDE DEF asterisk
  <1>4. asterisk \in name + 3..Len(m)
    BY <1>1, <1>2, <1>3
  <1>5. Named(m, name + 2)
    <2>1. (name + 2) - 1 = name + 1
      OBVIOUS
    <2> QED BY <1>1, <1>2, <1>3, <1>4, <2>1 DEF Named
  <1> QED BY <1>1, <1>4, <1>5 DEF asterisk

(* Another digit of the checksum.                                           *)
LEMMA ClosedGrows ==
    ASSUME NEW m \in Seq(Byte), NEW k \in Seq(Byte), NEW type \in {"nmea", "hash"},
           NEW name \in Nat, NEW left \in Nat, left > 0, Closed(m, type, name, left),
           Len(k) = Len(m) + 1, \A i \in 1..Len(m) : k[i] = m[i], Nibble(k[Len(m) + 1]) >= 0
    PROVE  Closed(k, type, name, left - 1)
  <1> DEFINE n == Len(m)
             d == Digits(type, m)
             asterisk == n + left - d
  <1>1. Named(m, name + 2) /\ asterisk \in name + 3..n /\ n \in Nat /\ d \in {2, 8}
    BY ClosedParts, DigitsAre
  <1>2. Digits(type, k) = d
    <2>1. name + 2 \in Nat /\ name + 2 <= Len(k) /\ \A i \in 1..name + 2 : k[i] = m[i]
      <3> HIDE DEF n, asterisk
      <3>1. n = Len(m)
        BY DEF n
      <3> QED BY <1>1, <3>1
    <2> QED BY <1>1, <2>1, DigitsKept
  <1>3. /\ m[1] = IF type = "nmea" THEN Dollar ELSE Hash
        /\ name <= NameLimit /\ name + 2 >= 3 /\ name + 2 <= asterisk
        /\ \A i \in 2..name + 1 : m[i] \in NameBytes
        /\ m[name + 2] = Comma
        /\ asterisk <= n /\ m[asterisk] = Asterisk
        /\ \A i \in name + 2..asterisk - 1 : m[i] # Asterisk
        /\ \A i \in asterisk + 1..n : Nibble(m[i]) >= 0
        /\ asterisk + Overhead(type) <= BufferLength + 1
    BY DEF Closed
  <1>4. Len(k) + (left - 1) - Digits(type, k) = asterisk
    <2>1. Len(k) = n + 1 /\ Digits(type, k) = d /\ n \in Nat /\ d \in {2, 8}
      BY <1>1, <1>2
    <2> HIDE DEF n, d
    <2>2. (n + 1) + (left - 1) - d = n + left - d
      BY <2>1
    <2> QED BY <2>1, <2>2
  <1>5. Len(k) = n + 1 /\ (\A i \in 1..n : k[i] = m[i]) /\ Nibble(k[n + 1]) >= 0
    OBVIOUS
  <1> HIDE DEF n, d, asterisk
  <1>6. /\ k[1] = IF type = "nmea" THEN Dollar ELSE Hash
        /\ \A i \in 2..name + 1 : k[i] \in NameBytes
        /\ k[name + 2] = Comma
        /\ asterisk <= n + 1 /\ k[asterisk] = Asterisk
        /\ \A i \in name + 2..asterisk - 1 : k[i] # Asterisk
    BY <1>1, <1>3, <1>5
  <1>7. \A i \in asterisk + 1..n + 1 : Nibble(k[i]) >= 0
    <2>1. \A i \in asterisk + 1..n + 1 : (i \in asterisk + 1..n /\ i \in 1..n) \/ i = n + 1
      BY <1>1
    <2> QED BY <1>3, <1>5, <2>1
  <1> QED BY <1>3, <1>4, <1>5, <1>6, <1>7 DEF Closed

(* With all its digits a sentence is a message of its format.               *)
LEMMA ClosedIsMessage ==
    ASSUME NEW m \in Seq(Byte), NEW type \in {"nmea", "hash"}, NEW name \in Nat,
           Closed(m, type, name, 0)
    PROVE  /\ IsMessage(type, m)
           /\ \/ type = "hash" /\ Digits(type, m) = 2
              \/ Digits(type, m) = 8
              \/ Len(m) + 3 <= BufferLength
  <1> DEFINE n == Len(m)
             d == Digits(type, m)
             asterisk == n - d
             comma == name + 2
  <1>1. n + 0 - d = n - d
    <2>1. n \in Nat /\ d \in {2, 8}
      BY DigitsAre, LenProperties
    <2> HIDE DEF n, d
    <2> QED BY <2>1
  <1>2. /\ asterisk \in comma + 1..n /\ n \in Nat /\ d \in {2, 8}
        /\ type = "nmea" => d = 2
    <2>1. n + 0 - d \in name + 3..n /\ n \in Nat
      BY ClosedParts
    <2>2. d \in {2, 8} /\ (type = "nmea" => d = 2)
      BY DigitsAre
    <2> HIDE DEF n, d
    <2> QED BY <1>1, <2>1, <2>2
  <1>3. /\ m[1] = IF type = "nmea" THEN Dollar ELSE Hash
        /\ name <= NameLimit /\ name + 2 >= 3
        /\ \A i \in 2..name + 1 : m[i] \in NameBytes
        /\ m[comma] = Comma
        /\ m[asterisk] = Asterisk
        /\ \A i \in comma..asterisk - 1 : m[i] # Asterisk
        /\ \A i \in asterisk + 1..n : Nibble(m[i]) >= 0
        /\ asterisk + Overhead(type) <= BufferLength + 1
    BY <1>1 DEF Closed
  <1>4. n = Len(m) /\ d = Digits(type, m) /\ comma = name + 2 /\ asterisk = n - d
    OBVIOUS
  <1> HIDE DEF n, d, asterisk, comma
  <1>5. /\ comma \in 3..n /\ asterisk \in 3..n /\ comma < asterisk /\ comma <= NameLimit + 2
        /\ n = asterisk + d /\ n > 0 /\ comma - 1 = name + 1
    BY <1>2, <1>3, <1>4, Sizes
  <1>6. IsSentence(type, m)
    <2>1. \A i \in 2..comma - 1 : m[i] \in (48..57) \union (65..90) \union (97..122)
      BY <1>3, <1>5 DEF NameBytes
    <2> QED BY <1>3, <1>4, <1>5, <2>1 DEF IsSentence
  <1>7. \/ type = "hash" /\ d = 2
        \/ d = 8
        \/ n + 3 <= BufferLength
    <2>1. CASE type = "nmea"
      <3>1. d = 2 /\ Overhead(type) = 6 /\ BufferLength \in Nat
        BY <1>2, <2>1, Sizes DEF Overhead
      <3> QED BY <1>2, <1>3, <1>5, <3>1
    <2> QED BY <1>2, <2>1
  <1> QED BY <1>4, <1>6, <1>7 DEF IsMessage

-----------------------------------------------------------------------------
(* The data of a sentence, up to its asterisk.                              *)
LEMMA TextParsed ==
    ASSUME StreamTypes, Parsed, Takes, Text
    PROVE  Parsed' /\ Begins' >= Begins /\ delivered' = delivered
  <1> DEFINE m == parse.buffer
             n == Len(m)
             type == parse.type
             comma == parse.name + 2
             d == Digits(type, m)
  <1>1. /\ n < BufferLength /\ parse.state = "text" /\ ParseType /\ parse.name <= NameLimit
        /\ parse.name \in Nat /\ m \in Seq(Byte)
    BY DEF Text, In, Parsed, ParserTypes, ParseType
  <1>2. type \in {"nmea", "hash"} /\ SentenceProgress
    BY <1>1, TypeOfState DEF Parsed, Progress
  <1>3. /\ n \in Nat /\ Len(buffer) = n + 1 /\ buffer[n + 1] = b
        /\ \A i \in 1..n : buffer[i] = m[i]
    BY <1>1, Grown
  <1>4. /\ m[1] = IF type = "nmea" THEN Dollar ELSE Hash
        /\ \A i \in 2..parse.name + 1 : m[i] \in NameBytes
        /\ comma \in 3..n /\ m[comma] = Comma
        /\ \A i \in comma..n : m[i] # Asterisk
        /\ n + Overhead(type) <= BufferLength
    BY <1>1, <1>2 DEF SentenceProgress
  <1>5. Named(m, comma)
    <2>1. comma - 1 = parse.name + 1
      BY <1>1
    <2> HIDE DEF comma
    <2> QED BY <1>2, <1>4, <2>1 DEF Named
  <1>6. Digits(type, buffer) = d /\ d \in {2, 8} /\ buffer \in Seq(Byte)
    <2>1. buffer \in Seq(Byte)
      BY <1>1, Taken DEF Takes
    <2>2. comma \in Nat /\ comma <= Len(buffer) /\ \A i \in 1..comma : buffer[i] = m[i]
      <3> HIDE DEF comma, n
      <3> QED BY <1>3, <1>4
    <2>3. Digits(type, buffer) = Digits(type, m)
      BY <1>1, <1>5, <2>1, <2>2, DigitsKept
    <2> QED BY <2>1, <2>3, DigitsAre
  <1>7. n = Len(parse.buffer) /\ comma = parse.name + 2 /\ type = parse.type /\ n = Len(m)
    OBVIOUS
  <1>8. CASE SearchAgain
    BY <1>8, SearchGoesOn
  <1>9. CASE b = Asterisk
    <2>1. Goto("digits", d)
      BY <1>9 DEF Text
    <2>2. /\ parse'.state = "digits" /\ parse'.buffer = buffer /\ parse'.remaining = d
          /\ parse'.type = type /\ parse'.name = parse.name /\ parse'.from = parse.from
          /\ ParseType' /\ delivered' = delivered
      <3>1. "digits" \in States /\ d \in Word
        BY <1>6, Reading
      <3> HIDE DEF d
      <3> QED BY <1>1, <2>1, <3>1, GotoFields
    <2> HIDE DEF m, n, type, comma, d
    <2>3. ParserTypes' /\ BufferIsSent' /\ Begins' = Begins
      BY <1>1, <1>7, <2>2, GoesOn
    <2>4. Closed(buffer, type, parse.name, d)
      <3>1. Len(buffer) + d - Digits(type, buffer) = n + 1
        BY <1>3, <1>6
      <3>2. /\ comma \in 3..n + 1 /\ buffer[n + 1] = Asterisk /\ comma <= n + 1 /\ comma >= 3
            /\ buffer[comma] = Comma /\ n \in Nat
            /\ buffer[1] = IF type = "nmea" THEN Dollar ELSE Hash
        BY <1>3, <1>4, <1>9
      <3>3. \A i \in 2..parse.name + 1 : buffer[i] \in NameBytes
        <4>1. \A i \in 2..parse.name + 1 : i \in 1..n
          BY <1>1, <1>3, <1>4, <1>7
        <4> QED BY <1>3, <1>4, <4>1
      <3>4. \A i \in comma..(n + 1) - 1 : buffer[i] # Asterisk
        <4>1. \A i \in comma..(n + 1) - 1 : i \in comma..n /\ i \in 1..n
          BY <1>3, <1>4
        <4> QED BY <1>3, <1>4, <4>1
      <3>5. \A i \in (n + 1) + 1..Len(buffer) : FALSE
        BY <1>3
      <3>6. (n + 1) + Overhead(type) <= BufferLength + 1
        <4>1. Overhead(type) \in {3, 6} /\ BufferLength \in Nat
          BY Sizes DEF Overhead
        <4> QED BY <1>3, <1>4, <4>1
      <3> QED BY <1>1, <1>3, <1>7, <3>1, <3>2, <3>3, <3>4, <3>5, <3>6 DEF Closed
    <2>5. SentenceProgress'
      <3>1. (/\ parse.name \in Nat /\ Len(parse.buffer) \in Nat
             /\ parse.type \in {"nmea", "hash"} /\ parse.remaining \in Nat)'
        BY <1>1, <1>2, <1>3, <1>6, <2>2
      <3>2. (/\ parse.state = "digits" /\ parse.remaining > 0
             /\ Closed(parse.buffer, parse.type, parse.name, parse.remaining))'
        BY <1>6, <2>2, <2>4
      <3> QED BY <3>1, <3>2, ProgressClosed, PTL
    <2>6. Progress'
      BY <1>2, <2>2, <2>5 DEF Progress
    <2> QED BY <1>1, <2>2, <2>3, <2>6, BeginsNat DEF Parsed
  <1>10. CASE b # Asterisk /\ length + Overhead(type) <= BufferLength
    <2>1. Goto("text", 0)
      <3>1. ~(length + Overhead(type) > BufferLength)
        <4>1. length \in Nat /\ Overhead(type) \in {3, 6} /\ BufferLength \in Nat
          BY <1>3, Sizes DEF length, Overhead
        <4> HIDE DEF type
        <4> QED BY <1>10, <4>1
      <3> QED BY <1>10, <3>1 DEF Text
    <2>2. /\ parse'.state = "text" /\ parse'.buffer = buffer /\ parse'.remaining = 0
          /\ parse'.type = type /\ parse'.name = parse.name /\ parse'.from = parse.from
          /\ ParseType' /\ delivered' = delivered
      <3>1. "text" \in States /\ 0 \in Word
        BY Reading
      <3> QED BY <1>1, <2>1, <3>1, GotoFields
    <2> HIDE DEF m, n, type, comma, d
    <2>3. ParserTypes' /\ BufferIsSent' /\ Begins' = Begins
      BY <1>1, <1>7, <2>2, GoesOn
    <2>4. /\ parse.name + 2 \in 3..n + 1 /\ buffer[parse.name + 2] = Comma
          /\ buffer[1] = IF type = "nmea" THEN Dollar ELSE Hash
      BY <1>3, <1>4, <1>7
    <2>5. \A i \in 2..parse.name + 1 : buffer[i] \in NameBytes
      <3>1. \A i \in 2..parse.name + 1 : i \in 1..n
        BY <1>1, <1>3, <1>4, <1>7
      <3> QED BY <1>3, <1>4, <3>1
    <2>6. \A i \in parse.name + 2..n + 1 : buffer[i] # Asterisk
      <3>1. \A i \in parse.name + 2..n + 1 : (i \in comma..n /\ i \in 1..n) \/ i = n + 1
        BY <1>3, <1>4, <1>7
      <3> QED BY <1>3, <1>4, <1>10, <3>1
    <2>7. n + 1 + Overhead(type) <= BufferLength
      BY <1>3, <1>10 DEF length
    <2>8. SentenceProgress'
      BY <1>1, <1>3, <2>2, <2>4, <2>5, <2>6, <2>7 DEF SentenceProgress
    <2>9. Progress'
      BY <1>2, <2>2, <2>8 DEF Progress
    <2> QED BY <1>1, <2>2, <2>3, <2>9, BeginsNat DEF Parsed
  <1>11. CASE b # Asterisk /\ ~(length + Overhead(type) <= BufferLength)
    <2>1. length \in Nat /\ Overhead(type) \in {3, 6} /\ BufferLength \in Nat
      BY <1>3, Sizes DEF length, Overhead
    <2>2. length + Overhead(type) > BufferLength
      <3> HIDE DEF type
      <3> QED BY <1>11, <2>1
    <2>3. SearchAgain
      BY <1>11, <2>2 DEF Text
    <2> QED BY <1>8, <2>3
  <1> QED BY <1>9, <1>10, <1>11

(* What the sentence in the buffer is, once its name is read.               *)
LEMMA SentenceHeld ==
    ASSUME StreamTypes, Parsed, parse.state \in {"digits", "end", "lf", "cr"}
    PROVE  /\ parse.type \in {"nmea", "hash"} /\ parse.name \in Nat /\ parse.name <= NameLimit
           /\ parse.buffer \in Seq(Byte) /\ Len(parse.buffer) \in Nat
           /\ parse.remaining \in Nat /\ parse.remaining <= 65535
           /\ parse.state = "digits" =>
                 /\ Closed(parse.buffer, parse.type, parse.name, parse.remaining)
                 /\ parse.remaining > 0
           /\ parse.state \in {"end", "lf", "cr"} =>
                 Closed(parse.buffer, parse.type, parse.name, 0)
  <1>1. ParseType /\ parse.name <= NameLimit /\ Progress
    BY DEF Parsed, ParserTypes
  <1>2. parse.buffer \in Seq(Byte) /\ parse.name \in Nat /\ parse.remaining \in Word
    BY <1>1 DEF ParseType
  <1>3. Len(parse.buffer) \in Nat /\ parse.remaining \in Nat /\ parse.remaining <= 65535
    BY <1>2, LenProperties, Words
  <1>4. parse.type \in {"nmea", "hash"} /\ SentenceProgress
    BY <1>1, TypeOfState DEF Progress
  <1> QED BY <1>1, <1>2, <1>3, <1>4, ClosedProgress

(* The checksum of a sentence.                                              *)
LEMMA ChecksumDigitsParsed ==
    ASSUME StreamTypes, Parsed, Takes, ChecksumDigits
    PROVE  Parsed' /\ Begins' >= Begins /\ delivered' = delivered
  <1> DEFINE state == IF parse.remaining > 1 THEN "digits" ELSE "end"
             remaining == IF parse.remaining > 1 THEN parse.remaining - 1 ELSE 0
  <1>1. /\ Len(parse.buffer) < BufferLength /\ parse.state = "digits" /\ ParseType
    BY DEF ChecksumDigits, In, Parsed, ParserTypes
  <1>2. /\ parse.type \in {"nmea", "hash"} /\ parse.name \in Nat /\ parse.name <= NameLimit
        /\ parse.buffer \in Seq(Byte) /\ Len(parse.buffer) \in Nat
        /\ parse.remaining \in Nat /\ parse.remaining <= 65535
        /\ Closed(parse.buffer, parse.type, parse.name, parse.remaining)
        /\ parse.remaining > 0
    BY <1>1, SentenceHeld
  <1>3. /\ Len(buffer) = Len(parse.buffer) + 1 /\ buffer[Len(parse.buffer) + 1] = b
        /\ \A i \in 1..Len(parse.buffer) : buffer[i] = parse.buffer[i]
    BY <1>1, Grown
  <1>4. CASE SearchAgain
    BY <1>4, SearchGoesOn
  <1>5. CASE ~(Nibble(b) < 0)
    <2>1. Goto(state, remaining)
      BY <1>5 DEF ChecksumDigits
    <2>2. /\ state \in {"digits", "end"} /\ remaining = parse.remaining - 1
          /\ remaining \in Nat /\ remaining <= 65535
          /\ state = "digits" => remaining > 0
          /\ state = "end" => remaining = 0
      BY <1>2
    <2> HIDE DEF state, remaining
    <2>3. /\ parse'.state = state /\ parse'.buffer = buffer /\ parse'.remaining = remaining
          /\ parse'.type = parse.type /\ parse'.name = parse.name /\ parse'.from = parse.from
          /\ ParseType' /\ delivered' = delivered
      <3>1. state \in States /\ remaining \in Word
        BY <2>2, Reading
      <3> QED BY <1>1, <2>1, <3>1, GotoFields
    <2>4. ParserTypes' /\ BufferIsSent' /\ Begins' = Begins
      BY <1>1, <1>2, <2>2, <2>3, GoesOn
    <2>5. buffer \in Seq(Byte)
      BY <1>1, Taken DEF Takes
    <2>6. Closed(buffer, parse.type, parse.name, remaining)
      <3>1. Nibble(b) >= 0
        BY <1>5 DEF Nibble
      <3>2. Closed(buffer, parse.type, parse.name, parse.remaining - 1)
        BY <1>2, <1>3, <2>5, <3>1, ClosedGrows
      <3> QED BY <2>2, <3>2
    <2>7. SentenceProgress'
      <3>1. (/\ parse.name \in Nat /\ Len(parse.buffer) \in Nat
             /\ parse.type \in {"nmea", "hash"} /\ parse.remaining \in Nat)'
        BY <1>2, <1>3, <2>2, <2>3
      <3>2. (\/ /\ parse.state = "digits" /\ parse.remaining > 0
                /\ Closed(parse.buffer, parse.type, parse.name, parse.remaining)
             \/ /\ parse.state \in {"end", "lf", "cr"}
                /\ Closed(parse.buffer, parse.type, parse.name, 0))'
        BY <2>2, <2>3, <2>6
      <3> QED BY <3>1, <3>2, ProgressClosed, PTL
    <2>8. Progress'
      BY <1>2, <2>2, <2>3, <2>7 DEF Progress
    <2> QED BY <1>1, <2>3, <2>4, <2>8, BeginsNat DEF Parsed
  <1> QED BY <1>4, <1>5 DEF ChecksumDigits

(* The end of a sentence: it is given out, or not.                          *)
LEMMA ValidateGivesOut ==
    ASSUME StreamTypes, Parsed, Takes, parse.state \in {"end", "lf", "cr"}, ValidateChecksum,
           Begins' \in Nat, Begins' >= read + 1
    PROVE  delivered' = delivered \/ \E message, room : GivenOut(message, room)
  <1> DEFINE m == parse.buffer
             n == Len(m)
             type == parse.type
  <1>1. /\ type \in {"nmea", "hash"} /\ parse.name \in Nat
        /\ m \in Seq(Byte) /\ n \in Nat /\ Closed(m, type, parse.name, 0)
    BY SentenceHeld
  <1>2. /\ IsMessage(type, m)
        /\ \/ type = "hash" /\ Digits(type, m) = 2
           \/ Digits(type, m) = 8
           \/ n + 3 <= BufferLength
    BY <1>1, ClosedIsMessage
  <1>3. /\ parse.from >= 1 /\ n = Held - parse.from + 1 /\ m = SubSeq(stream, parse.from, Held)
        /\ parse.from \in Nat /\ read \in Nat /\ Held \in {read - 1, read}
    <2>1. ParseType /\ BufferIsSent
      BY DEF Parsed, ParserTypes
    <2>2. parse.from \in Nat
      BY <2>1 DEF ParseType
    <2>3. read \in Nat
      BY LenProperties DEF StreamTypes
    <2> QED BY <2>1, <2>2, <2>3 DEF BufferIsSent, Held
  <1>4. n = Len(parse.buffer)
    OBVIOUS
  <1>5. m = SubSeq(stream, parse.from, parse.from + Len(m) - 1)
    <2> HIDE DEF n
    <2>1. parse.from + n - 1 = Held
      BY <1>1, <1>3
    <2> QED BY <1>3, <1>4, <2>1
  <1>6. parse.from + Len(m) <= Begins'
    <2> HIDE DEF n
    <2>1. parse.from + n <= Begins'
      BY <1>1, <1>3
    <2> QED BY <1>4, <2>1
  <1>7. table # <<"custom", "rtcm">>
    <2>1. type \in {table[i] : i \in 1..Len(table)}
      BY DEF Parsed, BufferIsSent
    <2> QED BY <1>1, <2>1, TablesAre DEF StreamTypes
  <1>8. CASE UNCHANGED delivered
    BY <1>8
  <1>9. ASSUME Deliver(m, n + 3), Digits(type, m) = 8 => n + 3 <= BufferLength
        PROVE  GivenOut(m, n + 3)
    <2>1. n + 3 \in Nat
      BY <1>1
    <2>2. \/ type = "hash" /\ Digits("hash", m) = 2
          \/ n + 3 <= BufferLength
      BY <1>2, <1>9
    <2>3. Begins = parse.from
      BY DEF Begins
    <2> HIDE DEF m, n
    <2> QED BY <1>1, <1>2, <1>3, <1>5, <1>6, <1>7, <1>9, <2>1, <2>2, <2>3 DEF GivenOut
  <1> QED BY <1>8, <1>9 DEF ValidateChecksum

-----------------------------------------------------------------------------
(* A byte that ends the sentence and begins the search.                     *)
LEMMA EndSearch ==
    ASSUME StreamTypes, Parsed, Takes, parse.state \in {"end", "lf", "cr"}, ValidateChecksum,
           parse' = FirstByte(b)
    PROVE  ParserStep
  <1>1. ParseType /\ BufferIsSent /\ read \in Nat
    BY LenProperties DEF Parsed, ParserTypes, StreamTypes
  <1>2. Parsed' /\ Begins' >= read + 1 /\ (parse'.state # "first" => Begins' = read + 1)
    BY <1>1, SearchParsed
  <1>3. Begins' \in Nat /\ Begins' >= Begins
    <2>1. Begins \in Nat /\ Begins <= read + 1
      BY <1>1, BeginsNat
    <2>2. Begins' \in {read + 1, read + 2}
      BY <1>1, <1>2 DEF Begins, Takes
    <2> QED BY <1>1, <1>2, <2>1, <2>2
  <1>4. delivered' = delivered \/ \E message, room : GivenOut(message, room)
    BY <1>2, <1>3, ValidateGivesOut
  <1> QED BY <1>2, <1>3, <1>4 DEF ParserStep

(* The byte behind the checksum: CR, LF, or one that ends the message.      *)
LEMMA LineTerminationParsed ==
    ASSUME StreamTypes, Parsed, Takes, LineTermination
    PROVE  ParserStep
  <1>1. parse.state = "end" /\ ParseType /\ BufferIsSent /\ ParserTypes
    BY DEF LineTermination, In, Parsed, ParserTypes
  <1>2. CASE b \in {CR, LF}
    <2>1. /\ parse' = [parse EXCEPT !.state = IF b = CR THEN "lf" ELSE "cr"]
          /\ delivered' = delivered
      BY <1>2 DEF LineTermination
    <2>2. /\ parse'.state \in {"lf", "cr"} /\ parse'.buffer = parse.buffer
          /\ parse'.type = parse.type /\ parse'.name = parse.name /\ parse'.from = parse.from
          /\ parse'.remaining = parse.remaining /\ ParseType'
      BY <1>1, <2>1 DEF ParseType, States
    <2>3. read \in Nat /\ table' = table /\ stream' = stream /\ read' = read + 1
      BY LenProperties DEF Takes, StreamTypes
    <2>4. ParserTypes'
      BY <1>1, <2>2, <2>3 DEF ParserTypes
    <2>5. Held = read /\ Held' = read
      BY <1>1, <2>2, <2>3 DEF Held
    <2>6. BufferIsSent'
      <3>1. /\ parse.type \in {table[i] : i \in 1..Len(table)}
            /\ parse.from >= 1 /\ Len(parse.buffer) = read - parse.from + 1
            /\ parse.buffer = SubSeq(stream, parse.from, read)
        BY <1>1, <2>5 DEF BufferIsSent
      <3>2. parse'.type \in {table'[i] : i \in 1..Len(table')}
        BY <2>2, <2>3, <3>1
      <3>3. /\ parse'.from >= 1 /\ Len(parse'.buffer) = Held' - parse'.from + 1
            /\ parse'.buffer = SubSeq(stream', parse'.from, Held')
        BY <2>2, <2>3, <2>5, <3>1
      <3> QED BY <3>2, <3>3 DEF BufferIsSent
    <2>7. /\ parse.type \in {"nmea", "hash"} /\ parse.name \in Nat
          /\ Len(parse.buffer) \in Nat /\ parse.remaining \in Nat
          /\ Closed(parse.buffer, parse.type, parse.name, 0)
      BY <1>1, SentenceHeld
    <2>8. SentenceProgress'
      <3>1. (/\ parse.name \in Nat /\ Len(parse.buffer) \in Nat
             /\ parse.type \in {"nmea", "hash"} /\ parse.remaining \in Nat)'
        BY <2>2, <2>7
      <3>2. (\/ /\ parse.state = "digits" /\ parse.remaining > 0
                /\ Closed(parse.buffer, parse.type, parse.name, parse.remaining)
             \/ /\ parse.state \in {"end", "lf", "cr"}
                /\ Closed(parse.buffer, parse.type, parse.name, 0))'
        BY <2>2, <2>7
      <3> QED BY <3>1, <3>2, ProgressClosed, PTL
    <2>9. Progress'
      BY <2>2, <2>7, <2>8 DEF Progress
    <2>10. Begins' >= Begins
      <3>1. Begins' = Begins
        BY <1>1, <2>2 DEF Begins
      <3> QED BY <1>1, <3>1, BeginsNat
    <2> QED BY <2>1, <2>4, <2>6, <2>9, <2>10 DEF Parsed, ParserStep
  <1>3. CASE b \notin {CR, LF}
    <2>1. ValidateChecksum /\ parse' = FirstByte(b)
      BY <1>3 DEF LineTermination
    <2> QED BY <1>1, <2>1, EndSearch
  <1> QED BY <1>2, <1>3

(* The second byte of the line end.                                         *)
LEMMA LineEndParsed ==
    ASSUME StreamTypes, Parsed, Takes, LineEnd
    PROVE  ParserStep
  <1>1. parse.state \in {"lf", "cr"} /\ ParseType /\ BufferIsSent /\ ParserTypes
        /\ ValidateChecksum
    BY DEF LineEnd, In, Parsed, ParserTypes
  <1>2. CASE parse' = [parse EXCEPT !.state = "first"]
    <2>1. /\ parse'.state = "first" /\ parse'.buffer = parse.buffer
          /\ parse'.type = parse.type /\ parse'.name = parse.name /\ ParseType'
      BY <1>1, <1>2 DEF ParseType, States
    <2>2. read \in Nat /\ table' = table /\ read' = read + 1
      BY LenProperties DEF Takes, StreamTypes
    <2>3. ParserTypes'
      BY <1>1, <2>1, <2>2 DEF ParserTypes
    <2>4. Parsed'
      BY <2>1, <2>3 DEF Parsed, BufferIsSent, Progress
    <2>5. Begins' = read + 2
      BY <2>1, <2>2 DEF Begins
    <2>6. Begins \in Nat /\ Begins <= read + 1
      BY <1>1, BeginsNat
    <2>7. Begins' \in Nat /\ Begins' >= read + 1 /\ Begins' >= Begins
      BY <2>2, <2>5, <2>6
    <2>8. delivered' = delivered \/ \E message, room : GivenOut(message, room)
      BY <1>1, <2>7, ValidateGivesOut
    <2> QED BY <2>4, <2>7, <2>8 DEF ParserStep
  <1>3. CASE parse' = FirstByte(b)
    BY <1>1, <1>3, EndSearch
  <1> QED BY <1>2, <1>3 DEF LineEnd

(* Whatever routine the byte goes to.                                       *)
LEMMA ByteParsed ==
    ASSUME StreamTypes, Parsed, ParseNextByte
    PROVE  Takes /\ ParserStep
  <1>1. Takes
    BY DEF ParseNextByte, Takes
  <1>2. ASSUME SearchAgain PROVE ParserStep
    BY <1>1, <1>2, SearchGoesOn DEF ParserStep
  <1>3. TooLong \/ FirstByteState => ParserStep
    BY <1>2 DEF TooLong, FirstByteState
  <1>4. Sync \/ Header \/ RtcmLength \/ Data => ParserStep
    BY <1>1, SyncParsed, HeaderParsed, RtcmLengthParsed, DataParsed DEF ParserStep
  <1>5. Name \/ Text \/ ChecksumDigits => ParserStep
    BY <1>1, NameParsed, TextParsed, ChecksumDigitsParsed DEF ParserStep
  <1>6. Crc \/ LineTermination \/ LineEnd => ParserStep
    BY <1>1, CrcParsed, LineTerminationParsed, LineEndParsed
  <1> QED BY <1>1, <1>3, <1>4, <1>5, <1>6 DEF ParseNextByte

-----------------------------------------------------------------------------
(* A part of a sequence stays what it is when more follows.                 *)
LEMMA PartOfMore ==
    ASSUME NEW S, NEW s \in Seq(S), NEW t \in Seq(S), NEW from \in Nat, NEW to \in Int,
           from >= 1, from <= to + 1, to <= Len(s)
    PROVE  SubSeq(s \o t, from, to) = SubSeq(s, from, to)
  <1> DEFINE x == SubSeq(s \o t, from, to)
             y == SubSeq(s, from, to)
  <1>1. /\ s \o t \in Seq(S) /\ Len(s \o t) = Len(s) + Len(t) /\ Len(s) \in Nat /\ Len(t) \in Nat
        /\ \A i \in 1..Len(s) : (s \o t)[i] = s[i]
    BY ConcatProperties, LenProperties
  <1>2. /\ from \in 1..Len(s) + 1 /\ to \in from - 1..Len(s)
        /\ from \in 1..Len(s \o t) + 1 /\ to \in from - 1..Len(s \o t)
    BY <1>1
  <1>3. y \in Seq(S) /\ Len(y) = to - from + 1
        /\ \A i \in 1..to - from + 1 : y[i] = s[from + i - 1]
    BY <1>2, SubSeqProperties
  <1>4. x \in Seq(S) /\ Len(x) = to - from + 1
        /\ \A i \in 1..to - from + 1 : x[i] = (s \o t)[from + i - 1]
    BY <1>1, <1>2, SubSeqProperties
  <1> HIDE DEF x, y
  <1>5. \A i \in 1..to - from + 1 : from + i - 1 \in 1..Len(s)
    BY <1>1
  <1>6. Len(x) = Len(y) /\ \A i \in 1..Len(x) : x[i] = y[i]
    BY <1>1, <1>3, <1>4, <1>5
  <1>7. x = y
    BY <1>3, <1>4, <1>6, SeqEqual
  <1> QED BY <1>7 DEF x, y

(* The messages that were given out.                                        *)
DeliveredInv ==
    /\ DeliveredType /\ DeliveredBefore
    /\ WholeAndApart /\ PhoneMessagesChecked /\ AppendedInBuffer

(* The invariant, in the parts the proof uses.                              *)
LEMMA InvParts ==
    /\ GenuineInv <=> StreamTypes /\ Parsed /\ DeliveredInv
    /\ GenuineInv => MessagesGenuine
  BY DEF GenuineInv, MessagesGenuine, TypeOK, StreamTypes, Parsed, ParserTypes, ParseType,
         DeliveredInv

(* It holds when the tables have been chosen and nothing was sent.          *)
LEMMA InitGenuine ==
    ASSUME Init
    PROVE  GenuineInv
  <1>1. /\ table \in Tables /\ stream = <<>> /\ read = 0 /\ parse = Searching(<<>>, 0)
        /\ delivered = <<>> /\ segments = 0 /\ clean = 0
    BY DEF Init
  <1>2. Len(stream) = 0 /\ Len(delivered) = 0 /\ stream \in Seq(Byte)
    BY <1>1
  <1>3. StreamTypes
    BY <1>1, <1>2, Sizes DEF StreamTypes
  <1>4. parse.state = "first" /\ parse.type = "none" /\ parse.name = 0 /\ Len(parse.buffer) = 0
    BY <1>1 DEF Searching
  <1>5. ParseType
    <2>1. "first" \in States /\ "none" \in Types /\ 0 \in Word /\ <<>> \in Seq(Byte)
      BY Words DEF States, Types
    <2>2. parse = [state |-> "first", buffer |-> <<>>, type |-> "none", remaining |-> 0,
                   name |-> 0, from |-> 0]
      BY <1>1 DEF Searching
    <2> QED BY <2>1, <2>2 DEF ParseType
  <1>6. Parsed
    <2>1. 0 <= BufferLength /\ 0 <= NameLimit
      BY Sizes
    <2> QED BY <1>4, <1>5, <2>1 DEF Parsed, ParserTypes, BufferIsSent, Progress
  <1>7. DeliveredInv
    <2>1. delivered \in Seq([type : Types, bytes : Seq(Byte), room : Nat, from : Nat])
      BY <1>1
    <2>2. (\A i \in 1..Len(delivered) : FALSE) /\ \A i \in 1..Len(delivered) - 1 : FALSE
      BY <1>2
    <2>3. WholeAndApart
      BY <2>2 DEF WholeAndApart
    <2>4. PhoneMessagesChecked /\ AppendedInBuffer /\ DeliveredBefore
      BY <2>2 DEF PhoneMessagesChecked, AppendedInBuffer, DeliveredBefore
    <2> QED BY <2>1, <2>3, <2>4 DEF DeliveredInv, DeliveredType
  <1> QED BY <1>3, <1>6, <1>7, InvParts

(* A segment is sent.                                                       *)
LEMMA SentTypes ==
    ASSUME StreamTypes, Send
    PROVE  /\ StreamTypes'
           /\ \E segment \in Segments :
                /\ segment \in Seq(Byte) /\ Len(segment) \in Nat /\ Len(segment) > 0
                /\ stream' = stream \o segment
                /\ Len(stream') = Len(stream) + Len(segment)
           /\ read = Len(stream) /\ read \in Nat /\ read' = read
           /\ UNCHANGED <<table, parse, delivered>>
  <1>1. PICK segment \in Segments :
           /\ stream' = stream \o segment
           /\ clean' = IF parse.state = "first" THEN read + 1 ELSE 0
    BY DEF Send
  <1>2. /\ read = Len(stream) /\ segments < MaxSegments /\ segments' = segments + 1
        /\ UNCHANGED <<table, read, parse, delivered>>
    BY DEF Send
  <1>3. segment \in Seq(Byte) /\ Len(segment) > 0 /\ Len(segment) \in Nat
    BY Sizes, LenProperties
  <1>4. /\ table \in Tables /\ stream \in Seq(Byte) /\ Len(stream) \in Nat
        /\ segments \in 0..MaxSegments
    BY LenProperties DEF StreamTypes
  <1>5. stream' \in Seq(Byte) /\ Len(stream') = Len(stream) + Len(segment)
    BY <1>1, <1>3, <1>4, ConcatProperties
  <1>6. read' \in 0..Len(stream') /\ clean' \in 0..Len(stream')
    BY <1>1, <1>2, <1>3, <1>4, <1>5
  <1>7. segments' \in 0..MaxSegments
    BY <1>2, <1>4, Sizes
  <1> QED BY <1>1, <1>2, <1>3, <1>4, <1>5, <1>6, <1>7 DEF StreamTypes

(* A message that was given out stays what was sent.                        *)
LEMMA StillSent ==
    ASSUME stream \in Seq(Byte), NEW more \in Seq(Byte), NEW from \in Nat, NEW len \in Nat,
           from >= 1, from + len <= Len(stream) + 1
    PROVE  SubSeq(stream \o more, from, from + len - 1) = SubSeq(stream, from, from + len - 1)
  <1>1. Len(stream) \in Nat
    BY LenProperties
  <1> DEFINE to == from + len - 1
  <1>2. to \in Int /\ from <= to + 1 /\ to <= Len(stream)
    BY <1>1
  <1> HIDE DEF to
  <1>3. SubSeq(stream \o more, from, to) = SubSeq(stream, from, to)
    BY <1>2, PartOfMore
  <1> QED BY <1>3 DEF to

(* What each message given out is.                                          *)
LEMMA DeliveredIs ==
    ASSUME DeliveredType, NEW i \in 1..Len(delivered)
    PROVE  /\ Len(delivered) \in Nat
           /\ delivered[i] \in [type : Types, bytes : Seq(Byte), room : Nat, from : Nat]
           /\ delivered[i].bytes \in Seq(Byte) /\ Len(delivered[i].bytes) \in Nat
           /\ delivered[i].from \in Nat
  <1> DEFINE D == [type : Types, bytes : Seq(Byte), room : Nat, from : Nat]
  <1>1. delivered \in Seq(D)
    BY DEF DeliveredType
  <1> HIDE DEF D
  <1>2. delivered[i] \in D /\ Len(delivered) \in Nat
    BY <1>1, ElementOfSeq, LenProperties
  <1>3. delivered[i].bytes \in Seq(Byte) /\ delivered[i].from \in Nat
    BY <1>2 DEF D
  <1>4. Len(delivered[i].bytes) \in Nat
    BY <1>3, LenProperties
  <1> QED BY <1>2, <1>3, <1>4 DEF D

(* Sending adds to the stream behind all that was read.                     *)
LEMMA SendGenuine ==
    ASSUME StreamTypes, Parsed, DeliveredInv, Send
    PROVE  StreamTypes' /\ Parsed' /\ DeliveredInv'
  <1>1. PICK segment \in Segments :
           /\ segment \in Seq(Byte) /\ Len(segment) \in Nat /\ Len(segment) > 0
           /\ stream' = stream \o segment
           /\ Len(stream') = Len(stream) + Len(segment)
    BY SentTypes
  <1>2. /\ StreamTypes' /\ read = Len(stream) /\ read \in Nat /\ read' = read
        /\ table' = table /\ parse' = parse /\ delivered' = delivered
    BY SentTypes
  <1>3. stream \in Seq(Byte) /\ ParseType /\ BufferIsSent
    BY DEF StreamTypes, Parsed, ParserTypes
  <1>4. ParserTypes' /\ Progress'
    <2>1. ParserTypes'
      BY <1>2 DEF Parsed, ParserTypes, ParseType
    <2>2. Progress'
      <3>1. FrameProgress => FrameProgress'
        BY <1>2 DEF FrameProgress, Remains
      <3>2. RtcmProgress => RtcmProgress'
        BY <1>2 DEF RtcmProgress, Remains
      <3>3. SentenceProgress => SentenceProgress'
        BY <1>2 DEF SentenceProgress
      <3> QED BY <1>2, <3>1, <3>2, <3>3 DEF Parsed, Progress
    <2> QED BY <2>1, <2>2
  <1>5. BufferIsSent'
    <2> SUFFICES ASSUME parse.state # "first" PROVE BufferIsSent'
      BY <1>2 DEF BufferIsSent
    <2>1. /\ parse.type \in {table[i] : i \in 1..Len(table)}
          /\ parse.from >= 1 /\ Len(parse.buffer) = Held - parse.from + 1
          /\ parse.buffer = SubSeq(stream, parse.from, Held)
      BY <1>3 DEF BufferIsSent
    <2>2. parse.from \in Nat /\ Len(parse.buffer) \in Nat
      <3>1. parse.buffer \in Seq(Byte) /\ parse.from \in Nat
        BY <1>3 DEF ParseType
      <3> QED BY <3>1, LenProperties
    <2>3. Held \in {read - 1, read} /\ Held' = Held
      BY <1>2 DEF Held
    <2> DEFINE from == parse.from
               to == Held
    <2>4. from \in Nat /\ to \in Int /\ from >= 1 /\ from <= to + 1 /\ to <= Len(stream)
      BY <1>2, <2>1, <2>2, <2>3
    <2> HIDE DEF from, to
    <2>5. SubSeq(stream \o segment, from, to) = SubSeq(stream, from, to)
      BY <1>1, <1>3, <2>4, PartOfMore
    <2>6. parse.buffer = SubSeq(stream', parse.from, Held)
      BY <1>1, <2>1, <2>5 DEF from, to
    <2>7. parse'.type \in {table'[i] : i \in 1..Len(table')}
      BY <1>2, <2>1
    <2>8. /\ parse'.from >= 1 /\ Len(parse'.buffer) = Held' - parse'.from + 1
          /\ parse'.buffer = SubSeq(stream', parse'.from, Held')
      BY <1>2, <2>1, <2>3, <2>6
    <2> QED BY <2>7, <2>8 DEF BufferIsSent
  <1>6. Begins' = Begins /\ Begins \in Nat /\ Begins <= Len(stream) + 1
    BY <1>2, <1>3, BeginsNat DEF Begins
  <1>7. WholeAndApart'
    <2>1. ASSUME NEW i \in 1..Len(delivered)
          PROVE  /\ delivered[i].bytes
                      = SubSeq(stream', delivered[i].from,
                               delivered[i].from + Len(delivered[i].bytes) - 1)
                 /\ IsMessage(delivered[i].type, delivered[i].bytes)
      <3>1. /\ delivered[i].bytes
                 = SubSeq(stream, delivered[i].from,
                          delivered[i].from + Len(delivered[i].bytes) - 1)
            /\ IsMessage(delivered[i].type, delivered[i].bytes)
        BY DEF DeliveredInv, WholeAndApart
      <3> DEFINE from == delivered[i].from
                 len == Len(delivered[i].bytes)
      <3>2. from >= 1 /\ from + len <= Begins
        BY DEF DeliveredInv, DeliveredBefore
      <3>3. from \in Nat /\ len \in Nat
        BY DeliveredIs DEF DeliveredInv
      <3> HIDE DEF from, len
      <3>4. from + len <= Len(stream) + 1
        BY <1>2, <1>6, <3>2, <3>3
      <3>5. SubSeq(stream \o segment, from, from + len - 1) = SubSeq(stream, from, from + len - 1)
        BY <1>1, <1>3, <3>2, <3>3, <3>4, StillSent
      <3> QED BY <1>1, <3>1, <3>5 DEF from, len
    <2>2. \A i \in 1..Len(delivered) - 1 :
             delivered[i].from + Len(delivered[i].bytes) <= delivered[i + 1].from
      BY DEF DeliveredInv, WholeAndApart
    <2> QED BY <1>2, <2>1, <2>2 DEF WholeAndApart
  <1>8. DeliveredType' /\ DeliveredBefore' /\ PhoneMessagesChecked' /\ AppendedInBuffer'
    BY <1>2, <1>6
       DEF DeliveredInv, DeliveredType, DeliveredBefore, PhoneMessagesChecked, AppendedInBuffer
  <1> QED BY <1>2, <1>4, <1>5, <1>7, <1>8 DEF Parsed, DeliveredInv

(* A message is given out behind those that were.                           *)
LEMMA GivenOutGenuine ==
    ASSUME StreamTypes, Parsed, DeliveredInv, Takes, NEW message, NEW room,
           GivenOut(message, room), Begins' \in Nat
    PROVE  DeliveredInv'
  <1> DEFINE d == [type |-> parse.type, bytes |-> message, room |-> room, from |-> parse.from]
             D == [type : Types, bytes : Seq(Byte), room : Nat, from : Nat]
             n == Len(delivered)
  <1>1. /\ message \in Seq(Byte) /\ room \in Nat /\ parse.from >= 1 /\ Begins = parse.from
        /\ message = SubSeq(stream, parse.from, parse.from + Len(message) - 1)
        /\ IsMessage(parse.type, message)
        /\ table = <<"custom", "rtcm">> => CheckHolds(parse.type, message)
        /\ \/ parse.type = "hash" /\ Digits("hash", message) = 2
           \/ room <= BufferLength
        /\ delivered' = Append(delivered, d)
        /\ parse.from + Len(message) <= Begins'
    BY DEF GivenOut, Deliver
  <1>2. /\ parse.from \in Nat /\ parse.type \in Types /\ table' = table /\ stream' = stream
        /\ Len(message) \in Nat
    <2>1. Len(message) \in Nat
      BY <1>1, LenProperties
    <2>2. ParseType
      BY DEF Parsed, ParserTypes
    <2>3. parse.from \in Nat
      BY <2>2 DEF ParseType
    <2>4. parse.type \in Types
      BY <2>2 DEF ParseType
    <2>5. table' = table /\ stream' = stream
      BY DEF Takes
    <2> QED BY <2>1, <2>3, <2>4, <2>5
  <1>3. delivered \in Seq(D) /\ d \in D
    <2>1. delivered \in Seq(D)
      BY DEF DeliveredInv, DeliveredType
    <2>2. d \in D
      BY <1>1, <1>2
    <2> QED BY <2>1, <2>2
  <1>4. d.type = parse.type /\ d.bytes = message /\ d.room = room /\ d.from = parse.from
    OBVIOUS
  <1> HIDE DEF d, D
  <1>5. /\ delivered' \in Seq(D) /\ Len(delivered') = n + 1 /\ n \in Nat
        /\ delivered'[n + 1] = d /\ \A i \in 1..n : delivered'[i] = delivered[i]
    BY <1>1, <1>3, AppendProperties, LenProperties
  <1>6. n = Len(delivered)
    OBVIOUS
  <1> HIDE DEF n
  <1>7. \A i \in 1..n + 1 : i \in 1..n \/ i = n + 1
    BY <1>5
  <1>8. /\ WholeAndApart /\ PhoneMessagesChecked /\ AppendedInBuffer /\ DeliveredBefore
    BY DEF DeliveredInv
  <1>9. WholeAndApart'
    <2>1. \A i \in 1..n + 1 :
             /\ delivered'[i].bytes
                  = SubSeq(stream, delivered'[i].from,
                           delivered'[i].from + Len(delivered'[i].bytes) - 1)
             /\ IsMessage(delivered'[i].type, delivered'[i].bytes)
      <3>1. \A i \in 1..n :
               /\ delivered[i].bytes
                    = SubSeq(stream, delivered[i].from,
                             delivered[i].from + Len(delivered[i].bytes) - 1)
               /\ IsMessage(delivered[i].type, delivered[i].bytes)
        BY <1>6, <1>8 DEF WholeAndApart
      <3>2. /\ d.bytes = SubSeq(stream, d.from, d.from + Len(d.bytes) - 1)
            /\ IsMessage(d.type, d.bytes)
        BY <1>1, <1>4
      <3> QED BY <1>5, <1>7, <3>1, <3>2
    <2>2. \A i \in 1..n :
             delivered'[i].from + Len(delivered'[i].bytes) <= delivered'[i + 1].from
      <3>1. \A i \in 1..n - 1 :
               delivered[i].from + Len(delivered[i].bytes) <= delivered[i + 1].from
        BY <1>6, <1>8 DEF WholeAndApart
      <3>2. n > 0 => delivered[n].from + Len(delivered[n].bytes) <= d.from
        BY <1>1, <1>4, <1>5, <1>6, <1>8 DEF DeliveredBefore
      <3> SUFFICES ASSUME NEW i \in 1..n
                   PROVE  delivered'[i].from + Len(delivered'[i].bytes) <= delivered'[i + 1].from
        OBVIOUS
      <3>3. CASE i = n
        <4>1. delivered'[i] = delivered[n] /\ delivered'[i + 1] = d
          BY <1>5, <3>3
        <4> QED BY <1>5, <3>2, <3>3, <4>1
      <3>4. CASE i # n
        <4>1. i \in 1..n - 1 /\ i + 1 \in 1..n
          BY <1>5, <3>4
        <4> QED BY <1>5, <3>1, <4>1
      <3> QED BY <3>3, <3>4
    <2>3. Len(delivered') - 1 = n /\ Len(delivered') = n + 1
      BY <1>5
    <2> QED BY <1>2, <2>1, <2>2, <2>3 DEF WholeAndApart
  <1>10. PhoneMessagesChecked'
    <2> SUFFICES ASSUME table = <<"custom", "rtcm">>, NEW i \in 1..n + 1
                 PROVE  CheckHolds(delivered'[i].type, delivered'[i].bytes)
      BY <1>2, <1>5 DEF PhoneMessagesChecked
    <2>1. i \in 1..n => CheckHolds(delivered[i].type, delivered[i].bytes)
      BY <1>6, <1>8 DEF PhoneMessagesChecked
    <2>2. CheckHolds(d.type, d.bytes)
      BY <1>1, <1>4
    <2> QED BY <1>5, <1>7, <2>1, <2>2
  <1>11. AppendedInBuffer'
    <2> SUFFICES ASSUME NEW i \in 1..n + 1
                 PROVE  \/ /\ delivered'[i].type = "hash"
                           /\ Digits("hash", delivered'[i].bytes) = 2
                        \/ delivered'[i].room <= BufferLength
      BY <1>5 DEF AppendedInBuffer
    <2>1. i \in 1..n => \/ delivered[i].type = "hash" /\ Digits("hash", delivered[i].bytes) = 2
                        \/ delivered[i].room <= BufferLength
      BY <1>6, <1>8 DEF AppendedInBuffer
    <2>2. \/ d.type = "hash" /\ Digits("hash", d.bytes) = 2
          \/ d.room <= BufferLength
      BY <1>1, <1>4
    <2> QED BY <1>5, <1>7, <2>1, <2>2
  <1>12. DeliveredBefore'
    <2> SUFFICES ASSUME NEW i \in 1..n + 1
                 PROVE  /\ delivered'[i].from >= 1
                        /\ delivered'[i].from + Len(delivered'[i].bytes) <= Begins'
      BY <1>5 DEF DeliveredBefore
    <2>1. ASSUME i \in 1..n
          PROVE  /\ delivered[i].from >= 1
                 /\ delivered[i].from + Len(delivered[i].bytes) <= Begins'
      <3>1. delivered[i].from >= 1 /\ delivered[i].from + Len(delivered[i].bytes) <= Begins
        BY <1>6, <1>8, <2>1 DEF DeliveredBefore
      <3>2. delivered[i].from \in Nat /\ Len(delivered[i].bytes) \in Nat
        BY <1>6, <2>1, DeliveredIs DEF DeliveredInv
      <3>3. Begins \in Nat /\ Begins <= Begins'
        BY <1>1, <1>2
      <3> DEFINE from == delivered[i].from
                 len == Len(delivered[i].bytes)
                 before == Begins
                 now == Begins'
      <3>4. from \in Nat /\ len \in Nat /\ from + len <= before /\ before <= now
            /\ before \in Nat /\ now \in Nat
        BY <3>1, <3>2, <3>3
      <3> HIDE DEF from, len, before, now
      <3>5. from + len <= now
        BY <3>4
      <3> QED BY <3>1, <3>5 DEF from, len, now
    <2>2. d.from >= 1 /\ d.from + Len(d.bytes) <= Begins'
      BY <1>1, <1>4
    <2> QED BY <1>5, <1>7, <2>1, <2>2
  <1>13. DeliveredType'
    BY <1>5 DEF DeliveredType, D
  <1> QED BY <1>9, <1>10, <1>11, <1>12, <1>13 DEF DeliveredInv

(* Every byte that is parsed keeps it,                                      *)
LEMMA ByteGenuine ==
    ASSUME StreamTypes, Parsed, DeliveredInv, ParseNextByte
    PROVE  StreamTypes' /\ Parsed' /\ DeliveredInv'
  <1>1. Takes /\ ParserStep /\ UNCHANGED <<segments, clean>>
    BY ByteParsed DEF ParseNextByte
  <1>2. StreamTypes'
    <2>1. read \in Nat /\ Len(stream) \in Nat /\ read < Len(stream)
      BY <1>1, LenProperties DEF StreamTypes, Takes
    <2> QED BY <1>1, <2>1 DEF StreamTypes, Takes
  <1>3. Parsed' /\ Begins' >= Begins
    BY <1>1 DEF ParserStep
  <1>4. Begins \in Nat /\ Begins' \in Nat
    <2>1. ParseType /\ BufferIsSent /\ ParseType' /\ BufferIsSent'
      BY <1>3 DEF Parsed, ParserTypes
    <2>2. Begins \in Nat
      BY <2>1, BeginsNat
    <2>3. Begins' \in Nat
      <3>1. read' \in Nat
        BY <1>1, LenProperties DEF StreamTypes, Takes
      <3>2. parse'.from \in Nat
        BY <2>1 DEF ParseType
      <3>3. read' + 1 \in Nat
        <4>1. read \in Nat /\ read' = read + 1
          BY <1>1, LenProperties DEF StreamTypes, Takes
        <4>2. read + 1 + 1 \in Nat
          BY <4>1
        <4> QED BY <4>1, <4>2
      <3>4. Begins' = IF parse'.state = "first" THEN read' + 1 ELSE parse'.from
        BY DEF Begins
      <3> QED BY <3>2, <3>3, <3>4
    <2> QED BY <2>2, <2>3
  <1>5. CASE delivered' = delivered
    <2>1. table' = table /\ stream' = stream
      BY <1>1 DEF Takes
    <2>2. DeliveredBefore'
      <3> SUFFICES ASSUME NEW i \in 1..Len(delivered)
                   PROVE  /\ delivered[i].from >= 1
                          /\ delivered[i].from + Len(delivered[i].bytes) <= Begins'
        BY <1>5 DEF DeliveredBefore
      <3>1. delivered[i].from >= 1 /\ delivered[i].from + Len(delivered[i].bytes) <= Begins
        BY DEF DeliveredInv, DeliveredBefore
      <3>2. delivered[i].from \in Nat /\ Len(delivered[i].bytes) \in Nat
        BY DeliveredIs DEF DeliveredInv
      <3> DEFINE from == delivered[i].from
                 len == Len(delivered[i].bytes)
                 before == Begins
                 now == Begins'
      <3>3. from \in Nat /\ len \in Nat /\ from + len <= before /\ before <= now
            /\ before \in Nat /\ now \in Nat
        BY <1>3, <1>4, <3>1, <3>2
      <3> HIDE DEF from, len, before, now
      <3>4. from + len <= now
        BY <3>3
      <3> QED BY <3>1, <3>4 DEF from, len, now
    <2>3. WholeAndApart'
      BY <1>5, <2>1 DEF DeliveredInv, WholeAndApart
    <2>4. DeliveredType' /\ PhoneMessagesChecked' /\ AppendedInBuffer'
      BY <1>5, <2>1 DEF DeliveredInv, DeliveredType, PhoneMessagesChecked, AppendedInBuffer
    <2> QED BY <1>2, <1>3, <2>2, <2>3, <2>4 DEF DeliveredInv
  <1>6. CASE \E message, room : GivenOut(message, room)
    <2>1. PICK message, room : GivenOut(message, room)
      BY <1>6
    <2> QED BY <1>1, <1>2, <1>3, <1>4, <2>1, GivenOutGenuine
  <1> QED BY <1>1, <1>5, <1>6 DEF ParserStep

(* as does a step that changes nothing,                                     *)
LEMMA StayGenuine ==
    ASSUME StreamTypes, Parsed, DeliveredInv, UNCHANGED vars
    PROVE  StreamTypes' /\ Parsed' /\ DeliveredInv'
  <1>1. UNCHANGED <<table, stream, read, parse, delivered, segments, clean>>
    BY DEF vars
  <1>2. StreamTypes'
    BY <1>1 DEF StreamTypes
  <1>3. Parsed'
    <2>1. ParserTypes' /\ BufferIsSent'
      BY <1>1 DEF Parsed, ParserTypes, ParseType, BufferIsSent, Held
    <2>2. Progress'
      <3>1. FrameProgress => FrameProgress'
        BY <1>1 DEF FrameProgress, Remains
      <3>2. RtcmProgress => RtcmProgress'
        BY <1>1 DEF RtcmProgress, Remains
      <3>3. SentenceProgress => SentenceProgress'
        BY <1>1 DEF SentenceProgress
      <3> QED BY <1>1, <3>1, <3>2, <3>3 DEF Parsed, Progress
    <2> QED BY <2>1, <2>2 DEF Parsed
  <1>4. DeliveredInv'
    <2>1. WholeAndApart'
      BY <1>1 DEF DeliveredInv, WholeAndApart
    <2> QED BY <1>1, <2>1 DEF DeliveredInv, DeliveredType, DeliveredBefore, Begins,
                              PhoneMessagesChecked, AppendedInBuffer
  <1> QED BY <1>2, <1>3, <1>4

(* so that every step does.                                                 *)
LEMMA GenuineStep ==
    ASSUME GenuineInv, [Next]_vars
    PROVE  GenuineInv'
  <1>1. StreamTypes /\ Parsed /\ DeliveredInv
    BY InvParts
  <1>2. StreamTypes' /\ Parsed' /\ DeliveredInv'
    BY <1>1, SendGenuine, ByteGenuine, StayGenuine DEF Next
  <1> QED BY <1>2, InvParts, PTL

(* Whatever the stream holds and wherever messages are cut off, the         *)
(* callback is given whole messages, as they were sent and apart from each  *)
(* other, checked if they come from the phone.                              *)
THEOREM DeliveredAreGenuine == Spec => []MessagesGenuine
  <1>1. Init => GenuineInv
    BY InitGenuine
  <1>2. GenuineInv /\ [Next]_vars => GenuineInv'
    BY GenuineStep
  <1>3. GenuineInv => MessagesGenuine
    BY InvParts
  <1> QED BY <1>1, <1>2, <1>3, PTL DEF Spec

-----------------------------------------------------------------------------
(* What the last segment holds of a message.                                *)
Sent(type) == MessageIn(type, LastSegment)

(* The formats.                                                             *)
Formats == {"custom", "rtcm", "nmea", "binary", "hash"}

(* The last segment, byte by byte.                                          *)
LEMMA SegmentIs ==
    ASSUME StreamTypes, clean > 0
    PROVE  /\ LastSegment \in Seq(Byte) /\ Len(LastSegment) \in Nat
           /\ Len(LastSegment) = Len(stream) - clean + 1
           /\ \A i \in 1..Len(LastSegment) : LastSegment[i] = stream[clean + i - 1]
           /\ Len(stream) \in Nat /\ clean \in Nat /\ clean <= Len(stream) /\ read \in Nat
  <1>1. /\ stream \in Seq(Byte) /\ Len(stream) \in Nat /\ clean \in Nat /\ clean <= Len(stream)
        /\ read \in Nat
    BY LenProperties DEF StreamTypes
  <1> DEFINE n == Len(stream)
  <1>2. n \in Nat /\ clean \in Nat /\ clean >= 1 /\ clean <= n
    BY <1>1
  <1>3. \A i \in clean..n : stream[i] \in Byte
    <2>1. \A i \in clean..n : i \in 1..n
      BY <1>2
    <2> QED BY <1>1, <2>1, ElementOfSeq
  <1>4. LastSegment = SubSeq(stream, clean, n)
    BY DEF LastSegment
  <1> HIDE DEF n
  <1>5. /\ SubSeq(stream, clean, n) \in Seq(Byte)
        /\ Len(SubSeq(stream, clean, n)) = n - clean + 1
        /\ \A i \in 1..n - clean + 1 : SubSeq(stream, clean, n)[i] = stream[clean + i - 1]
    BY <1>2, <1>3, SubSeqProperties
  <1>6. n - clean + 1 \in Nat
    BY <1>2
  <1> QED BY <1>1, <1>4, <1>5, <1>6 DEF n

(* A sequence read from its end.                                            *)
LEMMA ReverseIs ==
    ASSUME NEW S, NEW s \in Seq(S)
    PROVE  /\ Reverse(s) \in Seq(S) /\ Len(Reverse(s)) = Len(s)
           /\ \A i \in 1..Len(s) : Reverse(s)[i] = s[Len(s) - i + 1]
  <1> DEFINE n == Len(s)
             r == [i \in 1..n |-> s[(n - i) + 1]]
  <1>1. n \in Nat
    BY LenProperties
  <1>2. Reverse(s) = r
    BY DEF Reverse
  <1>3. \A i \in 1..n : s[i] \in S
    BY ElementOfSeq
  <1> HIDE DEF n
  <1>4. \A i \in 1..n : (n - i) + 1 \in 1..n
    BY <1>1
  <1>5. r \in [1..n -> S]
    BY <1>3, <1>4
  <1>6. r \in Seq(S)
    BY <1>1, <1>5, SeqDef
  <1>7. Len(r) = n
    <2>1. Len(r) \in Nat /\ DOMAIN r = 1..Len(r) /\ DOMAIN r = 1..n
      BY <1>6, LenProperties
    <2> QED BY <1>1, <2>1
  <1> QED BY <1>2, <1>6, <1>7 DEF n

(* A sequence that ends with CR and LF.                                     *)
LEMMA LineEndIs ==
    ASSUME NEW s \in Seq(Byte), IsSuffix(<<CR, LF>>, s)
    PROVE  Len(s) \in Nat /\ Len(s) >= 2 /\ s[Len(s) - 1] = CR /\ s[Len(s)] = LF
  <1> DEFINE e == <<CR, LF>>
             x == Reverse(e)
             y == Reverse(s)
             n == Len(s)
  <1>1. e \in Seq(Byte) /\ Len(e) = 2 /\ e[1] = CR /\ e[2] = LF
    <2>1. CR \in Byte /\ LF \in Byte
      BY DEF CR, LF, Byte
    <2> QED BY <2>1
  <1>2. IsPrefix(x, y)
    BY DEF IsSuffix
  <1> HIDE DEF e
  <1>3. x \in Seq(Byte) /\ Len(x) = 2 /\ x[1] = e[2] /\ x[2] = e[1]
    <2>1. x \in Seq(Byte) /\ Len(x) = Len(e) /\ \A i \in 1..Len(e) : x[i] = e[Len(e) - i + 1]
      BY <1>1, ReverseIs
    <2> QED BY <1>1, <2>1
  <1>4. y \in Seq(Byte) /\ Len(y) = n /\ n \in Nat /\ \A i \in 1..n : y[i] = s[n - i + 1]
    BY ReverseIs, LenProperties
  <1> HIDE DEF x, y, n
  <1>5. 2 <= n /\ SubSeq(x, 1, 2) = SubSeq(y, 1, 2)
    BY <1>2, <1>3, <1>4 DEF IsPrefix
  <1>6. \A i \in 1..2 : x[i] \in Byte /\ y[i] \in Byte
    <2>1. \A i \in 1..2 : i \in 1..Len(x) /\ i \in 1..Len(y)
      BY <1>3, <1>4, <1>5
    <2> QED BY <1>3, <1>4, <2>1, ElementOfSeq
  <1>7. \A i \in 1..2 : SubSeq(x, 1, 2)[i] = x[i] /\ SubSeq(y, 1, 2)[i] = y[i]
    <2>1. \A i \in 1..2 - 1 + 1 : SubSeq(x, 1, 2)[i] = x[1 + i - 1]
      BY <1>6, SubSeqProperties
    <2>2. \A i \in 1..2 - 1 + 1 : SubSeq(y, 1, 2)[i] = y[1 + i - 1]
      BY <1>6, SubSeqProperties
    <2>3. \A i \in 1..2 : i \in 1..2 - 1 + 1 /\ 1 + i - 1 = i
      OBVIOUS
    <2> QED BY <2>1, <2>2, <2>3
  <1>8. y[1] = LF /\ y[2] = CR
    BY <1>1, <1>3, <1>5, <1>7
  <1>9. y[1] = s[n] /\ y[2] = s[n - 1]
    BY <1>4, <1>5
  <1> QED BY <1>4, <1>5, <1>8, <1>9 DEF n

(* The message the last segment holds, byte by byte.                        *)
LEMMA WholeIs ==
    ASSUME StreamTypes, clean > 0, NEW type \in Formats, Whole(type)
    PROVE  /\ Sent(type) \in Seq(Byte) /\ Len(Sent(type)) \in Nat /\ Len(Sent(type)) >= 1
           /\ \A i \in 1..Len(Sent(type)) : Sent(type)[i] = stream[clean + i - 1]
           /\ type \notin {"nmea", "hash"} => Len(Sent(type)) = Len(stream) - clean + 1
           /\ type \in {"nmea", "hash"} =>
                 /\ Len(Sent(type)) + 2 = Len(stream) - clean + 1
                 /\ stream[Len(stream) - 1] = CR /\ stream[Len(stream)] = LF
           /\ IsMessage(type, Sent(type)) /\ CheckHolds(type, Sent(type))
           /\ Fits(type, Sent(type))
  <1>1. IsMessage(type, Sent(type)) /\ CheckHolds(type, Sent(type)) /\ Fits(type, Sent(type))
    BY DEF Whole, Sent
  <1> DEFINE s == LastSegment
             n == Len(stream)
  <1>2. /\ s \in Seq(Byte) /\ Len(s) \in Nat /\ Len(s) = n - clean + 1
        /\ \A i \in 1..Len(s) : s[i] = stream[clean + i - 1]
        /\ n \in Nat /\ clean \in Nat /\ clean <= n
    BY SegmentIs
  <1>3. n = Len(stream) /\ s = LastSegment
    OBVIOUS
  <1> HIDE DEF s, n
  <1>4. CASE type \notin {"nmea", "hash"}
    <2>1. Sent(type) = s
      BY <1>3, <1>4 DEF Sent, MessageIn
    <2>2. Len(s) >= 1
      BY <1>2
    <2> QED BY <1>1, <1>2, <1>3, <1>4, <2>1, <2>2
  <1>5. CASE type \in {"nmea", "hash"}
    <2>1. Len(Sent(type)) > 0
      <3>1. IsSentence(type, Sent(type))
        BY <1>1, <1>5 DEF IsMessage
      <3> QED BY <3>1 DEF IsSentence
    <2>2. IsSuffix(<<CR, LF>>, s) /\ Sent(type) = SubSeq(s, 1, Len(s) - 2)
      <3>1. Sent(type) = IF IsSuffix(<<CR, LF>>, s) THEN SubSeq(s, 1, Len(s) - 2) ELSE <<>>
        BY <1>3, <1>5 DEF Sent, MessageIn
      <3>2. Len(<<>>) = 0
        OBVIOUS
      <3> QED BY <2>1, <3>1, <3>2
    <2> DEFINE len == Len(s)
    <2>3. len >= 2 /\ s[len - 1] = CR /\ s[len] = LF /\ len \in Nat
      BY <1>2, <2>2, LineEndIs
    <2>4. \A i \in 1..len - 2 : s[i] \in Byte
      <3>1. \A i \in 1..len - 2 : i \in 1..len
        BY <2>3
      <3> QED BY <1>2, <3>1, ElementOfSeq
    <2>5. Sent(type) = SubSeq(s, 1, len - 2) /\ len = n - clean + 1
          /\ \A i \in 1..len : s[i] = stream[clean + i - 1]
      BY <1>2, <2>2
    <2> HIDE DEF len
    <2>6. /\ SubSeq(s, 1, len - 2) \in Seq(Byte)
          /\ Len(SubSeq(s, 1, len - 2)) = IF 1 <= len - 2 THEN (len - 2) - 1 + 1 ELSE 0
          /\ \A i \in 1..(len - 2) - 1 + 1 : SubSeq(s, 1, len - 2)[i] = s[1 + i - 1]
      <3>1. len - 2 \in Int
        BY <2>3
      <3> QED BY <2>4, <3>1, SubSeqProperties
    <2>7. Len(Sent(type)) = len - 2 /\ len - 2 >= 1
      BY <2>1, <2>3, <2>5, <2>6
    <2>8. \A i \in 1..len - 2 : Sent(type)[i] = stream[clean + i - 1]
      <3>1. \A i \in 1..len - 2 : i \in 1..(len - 2) - 1 + 1 /\ 1 + i - 1 = i /\ i \in 1..len
        BY <2>3
      <3> QED BY <2>5, <2>6, <3>1
    <2>9. stream[n - 1] = CR /\ stream[n] = LF
      <3>1. /\ len - 1 \in 1..len /\ clean + (len - 1) - 1 = n - 1
            /\ len \in 1..len /\ clean + len - 1 = n
        BY <1>2, <2>3, <2>5
      <3> QED BY <2>3, <2>5, <3>1
    <2>10. Len(Sent(type)) + 2 = n - clean + 1
      BY <2>3, <2>5, <2>7
    <2>11. Len(Sent(type)) \in Nat /\ Len(Sent(type)) >= 1
      BY <2>3, <2>7
    <2>12. Sent(type) \in Seq(Byte)
      BY <2>5, <2>6
    <2> QED BY <1>1, <1>3, <1>5, <2>7, <2>8, <2>9, <2>10, <2>11, <2>12
  <1> QED BY <1>4, <1>5

-----------------------------------------------------------------------------
(* A message that began with the last segment is being read.                *)
Coming(type) == parse.state # "first" /\ parse.type = type /\ parse.from = clean

(* What is in the buffer then, and the byte behind it.                      *)
LEMMA Alike ==
    ASSUME StreamTypes, Parsed, clean > 0, NEW type \in Formats, Whole(type), Coming(type)
    PROVE  /\ parse.buffer \in Seq(Byte) /\ Len(parse.buffer) \in Nat
           /\ parse.state \in {"lf", "cr"} => Len(parse.buffer) = read - clean
           /\ parse.state \notin {"lf", "cr"} => Len(parse.buffer) = read - clean + 1
           /\ \A i \in 1..Len(parse.buffer) :
                 /\ parse.buffer[i] = stream[clean + i - 1]
                 /\ i <= Len(Sent(type)) => parse.buffer[i] = Sent(type)[i]
           /\ read <= Len(stream)
           /\ parse.state \notin {"lf", "cr"} /\ Len(parse.buffer) < Len(Sent(type)) =>
                 b = Sent(type)[Len(parse.buffer) + 1]
  <1> DEFINE m == parse.buffer
             n == Len(m)
             k == Sent(type)
             last == Len(stream)
  <1>1. /\ m \in Seq(Byte) /\ n \in Nat /\ parse.from = clean /\ n = Held - clean + 1
        /\ m = SubSeq(stream, clean, Held)
    <2>1. m \in Seq(Byte) /\ parse.from = clean /\ n = Held - clean + 1
          /\ m = SubSeq(stream, clean, Held)
      BY DEF Parsed, ParserTypes, ParseType, BufferIsSent, Coming
    <2>2. n \in Nat
      BY <2>1, LenProperties
    <2> QED BY <2>1, <2>2
  <1>2. /\ stream \in Seq(Byte) /\ last \in Nat /\ read \in Nat /\ read <= last /\ clean \in Nat
    BY LenProperties DEF StreamTypes
  <1>3. /\ parse.state \in {"lf", "cr"} => Held = read - 1
        /\ parse.state \notin {"lf", "cr"} => Held = read
    BY DEF Held
  <1>4. /\ Len(k) \in Nat /\ \A i \in 1..Len(k) : k[i] = stream[clean + i - 1]
    BY WholeIs
  <1>5. m = parse.buffer /\ n = Len(parse.buffer) /\ k = Sent(type) /\ last = Len(stream)
    OBVIOUS
  <1> HIDE DEF m, n, k, last
  <1>6. Held \in Int /\ Held <= last
    BY <1>2, <1>3
  <1>7. \A i \in 1..n : m[i] = stream[clean + i - 1]
    <2>1. \A i \in clean..Held : stream[i] \in Byte
      <3>1. \A i \in clean..Held : i \in 1..last
        BY <1>2, <1>6
      <3> QED BY <1>2, <1>5, <3>1, ElementOfSeq
    <2>2. \A i \in 1..Held - clean + 1 : SubSeq(stream, clean, Held)[i] = stream[clean + i - 1]
      BY <1>2, <1>6, <2>1, SubSeqProperties
    <2> QED BY <1>1, <2>2
  <1>8. \A i \in 1..n : i <= Len(k) => m[i] = k[i]
    BY <1>1, <1>4, <1>7
  <1>9. parse.state \notin {"lf", "cr"} /\ n < Len(k) => b = k[n + 1]
    <2> SUFFICES ASSUME parse.state \notin {"lf", "cr"}, n < Len(k) PROVE b = k[n + 1]
      OBVIOUS
    <2>1. clean + (n + 1) - 1 = read + 1 /\ n + 1 \in 1..Len(k)
      BY <1>1, <1>2, <1>3, <1>4
    <2> QED BY <1>4, <2>1 DEF b
  <1>10. /\ parse.state \in {"lf", "cr"} => n = read - clean
         /\ parse.state \notin {"lf", "cr"} => n = read - clean + 1
    BY <1>1, <1>2, <1>3
  <1> QED BY <1>1, <1>2, <1>5, <1>7, <1>8, <1>9, <1>10

(* What a frame is.                                                         *)
LEMMA FrameIs ==
    ASSUME NEW type \in {"custom", "binary"}, NEW m \in Seq(Byte), IsMessage(type, m)
    PROVE  /\ Len(m) >= HeaderLength + 4
           /\ m[1] = A /\ m[2] = B /\ m[3] = IF type = "custom" THEN CustomC ELSE UnicoreC
           /\ Len(m) = FrameEnd(m) + 4
           /\ type = "binary" => m[HeaderLength] > 0
  <1>1. /\ Len(m) >= HeaderLength + 4
        /\ SubSeq(m, 1, 3) = <<A, B, IF type = "custom" THEN CustomC ELSE UnicoreC>>
        /\ Len(m) = HeaderLength + m[HeaderLength] + 4
        /\ type = "binary" => m[HeaderLength] > 0
    BY DEF IsMessage, IsFrame
  <1> DEFINE s == SubSeq(m, 1, 3)
  <1>2. \A i \in 1..3 : m[i] \in Byte
    <2>1. HeaderLength \in Nat /\ Len(m) \in Nat
      BY Sizes, LenProperties
    <2>2. \A i \in 1..3 : i \in 1..Len(m)
      BY <1>1, <2>1
    <2> QED BY <2>2, ElementOfSeq
  <1>3. \A i \in 1..3 - 1 + 1 : s[i] = m[1 + i - 1]
    BY <1>2, SubSeqProperties
  <1> DEFINE third == IF type = "custom" THEN CustomC ELSE UnicoreC
  <1>4. s = <<A, B, third>>
    BY <1>1
  <1> HIDE DEF s
  <1>5. s[1] = A /\ s[2] = B /\ s[3] = third
    <2> HIDE DEF third
    <2> QED BY <1>4
  <1>6. s[1] = m[1] /\ s[2] = m[2] /\ s[3] = m[3]
    <2>1. \A i \in 1..3 : i \in 1..3 - 1 + 1 /\ 1 + i - 1 = i
      OBVIOUS
    <2>2. \A i \in 1..3 : s[i] = m[i]
      BY <1>3, <2>1
    <2> QED BY <2>2
  <1>7. m[1] = A /\ m[2] = B /\ m[3] = third
    BY <1>6, <1>5
  <1> QED BY <1>1, <1>7 DEF FrameEnd

(* What an RTCM message is.                                                 *)
LEMMA RtcmIs ==
    ASSUME NEW m \in Seq(Byte), IsMessage("rtcm", m)
    PROVE  /\ Len(m) >= 9 /\ m[1] = D3 /\ m[2] <= 3 /\ RtcmEnd(m) >= 6 /\ Len(m) = RtcmEnd(m) + 3
           /\ m[2] \in Nat /\ m[3] \in Nat
  <1>1. /\ Len(m) >= 3 /\ m[1] = D3 /\ m[2] <= 3 /\ m[2] * 256 + m[3] >= 3
        /\ Len(m) = 3 + m[2] * 256 + m[3] + 3
    BY DEF IsMessage, IsRtcm
  <1>2. m[2] \in Nat /\ m[3] \in Nat
    <2>1. Len(m) \in Nat
      BY LenProperties
    <2>2. 2 \in 1..Len(m) /\ 3 \in 1..Len(m)
      BY <1>1, <2>1
    <2>3. m[2] \in Byte /\ m[3] \in Byte
      BY <2>2, ElementOfSeq
    <2>4. \A x \in Byte : x \in Nat
      BY DEF Byte
    <2> QED BY <2>3, <2>4
  <1> DEFINE p == m[2]
             q == m[3]
             e == RtcmEnd(m)
             n == Len(m)
  <1>3. p \in Nat /\ q \in Nat /\ p * 256 + q >= 3 /\ e = 3 + p * 256 + q
        /\ n = 3 + p * 256 + q + 3
    <2>1. e = 3 + p * 256 + q
      BY DEF RtcmEnd
    <2>2. p * 256 + q >= 3
      BY <1>1
    <2>3. n = 3 + p * 256 + q + 3
      BY <1>1
    <2>4. p \in Nat /\ q \in Nat
      BY <1>2
    <2> QED BY <2>1, <2>2, <2>3, <2>4
  <1> HIDE DEF p, q, e, n
  <1>4. n >= 9 /\ e >= 6 /\ n = e + 3
    BY <1>3
  <1> USE DEF e, n
  <1> QED BY <1>1, <1>2, <1>4

(* The message goes on.                                                     *)
LEMMA GotoComes ==
    ASSUME ParseType, NEW type, Coming(type), UNCHANGED clean,
           NEW state, NEW remaining, state # "first", Goto(state, remaining)
    PROVE  Coming(type)'
  <1>1. parse' = [parse EXCEPT !.buffer = buffer, !.state = state, !.remaining = remaining]
    BY DEF Goto
  <1>2. parse'.state = state /\ parse'.type = parse.type /\ parse'.from = parse.from
    BY <1>1 DEF ParseType
  <1> QED BY <1>2 DEF Coming

(* Appending to what was delivered.                                         *)
LEMMA DeliverAppends ==
    ASSUME DeliveredType, ParseType, NEW message \in Seq(Byte), NEW room \in Nat,
           Deliver(message, room)
    PROVE  /\ Len(delivered) \in Nat /\ Len(delivered') = Len(delivered) + 1
           /\ \A i \in 1..Len(delivered) : delivered'[i] = delivered[i]
           /\ delivered'[Len(delivered) + 1].from = parse.from
           /\ delivered'[Len(delivered) + 1].type = parse.type
           /\ delivered'[Len(delivered) + 1].bytes = message
  <1> DEFINE d == [type |-> parse.type, bytes |-> message, room |-> room, from |-> parse.from]
             D == [type : Types, bytes : Seq(Byte), room : Nat, from : Nat]
  <1>1. parse.type \in Types /\ parse.from \in Nat
    BY DEF ParseType
  <1>2. delivered \in Seq(D) /\ d \in D
    <2>1. delivered \in Seq(D)
      BY DEF DeliveredType
    <2>2. d \in D
      BY <1>1
    <2> QED BY <2>1, <2>2
  <1>3. delivered' = Append(delivered, d)
    BY DEF Deliver
  <1>4. d.from = parse.from /\ d.type = parse.type /\ d.bytes = message
    OBVIOUS
  <1> HIDE DEF d, D
  <1>5. /\ Len(delivered) \in Nat /\ Len(delivered') = Len(delivered) + 1
        /\ delivered'[Len(delivered) + 1] = d
        /\ \A i \in 1..Len(delivered) : delivered'[i] = delivered[i]
    BY <1>2, <1>3, AppendProperties, LenProperties
  <1> QED BY <1>4, <1>5

(* What was received stays received,                                        *)
LEMMA StaysReceived ==
    ASSUME NEW type, Received(type), DeliveredType, ParseType, UNCHANGED <<stream, clean>>,
           delivered' = delivered \/ \E message, room : GivenOut(message, room)
    PROVE  Received(type)'
  <1>1. PICK i \in 1..Len(delivered) :
           /\ delivered[i].from = clean /\ delivered[i].type = type
           /\ delivered[i].bytes = MessageIn(type, LastSegment)
    BY DEF Received
  <1>2. LastSegment' = LastSegment
    BY DEF LastSegment
  <1>3. i \in 1..Len(delivered') /\ delivered'[i] = delivered[i]
    <2>1. CASE delivered' = delivered
      BY <2>1
    <2>2. CASE \E message, room : GivenOut(message, room)
      <3>1. PICK message, room : GivenOut(message, room)
        BY <2>2
      <3>2. message \in Seq(Byte) /\ room \in Nat /\ Deliver(message, room)
        BY <3>1 DEF GivenOut
      <3>3. /\ Len(delivered) \in Nat /\ Len(delivered') = Len(delivered) + 1
            /\ \A j \in 1..Len(delivered) : delivered'[j] = delivered[j]
        BY <3>2, DeliverAppends
      <3> QED BY <3>3
    <2> QED BY <2>1, <2>2
  <1>4. MessageIn(type, LastSegment)' = MessageIn(type, LastSegment)
    BY <1>2 DEF MessageIn
  <1> QED BY <1>1, <1>3, <1>4 DEF Received

(* and a message that is given out is received.                             *)
LEMMA GivenReceived ==
    ASSUME NEW type, Coming(type), DeliveredType, ParseType, UNCHANGED <<stream, clean>>,
           Sent(type) \in Seq(Byte), NEW room \in Nat, Deliver(Sent(type), room)
    PROVE  Received(type)'
  <1> DEFINE n == Len(delivered) + 1
  <1>1. /\ Len(delivered) \in Nat /\ Len(delivered') = n
        /\ delivered'[n].from = parse.from /\ delivered'[n].type = parse.type
        /\ delivered'[n].bytes = Sent(type)
    BY DeliverAppends
  <1>2. n \in 1..Len(delivered')
    BY <1>1
  <1>3. LastSegment' = LastSegment
    BY DEF LastSegment
  <1>4. MessageIn(type, LastSegment)' = Sent(type)
    BY <1>3 DEF MessageIn, Sent
  <1>5. /\ delivered'[n].from = clean' /\ delivered'[n].type = type
        /\ delivered'[n].bytes = MessageIn(type, LastSegment)'
    BY <1>1, <1>4 DEF Coming
  <1> HIDE DEF n
  <1> QED BY <1>2, <1>5 DEF Received

(* There is room for it, and what comes next belongs to it.                 *)
LEMMA RoomForIt ==
    ASSUME StreamTypes, Parsed, Takes, clean > 0, NEW type \in Formats, Whole(type), Coming(type)
    PROVE  /\ Len(parse.buffer) < BufferLength
           /\ type \notin {"nmea", "hash"} /\ parse.state \notin {"lf", "cr"} =>
                 /\ Len(parse.buffer) < Len(Sent(type))
                 /\ b = Sent(type)[Len(parse.buffer) + 1]
  <1> DEFINE n == Len(parse.buffer)
             k == Sent(type)
             last == Len(stream)
  <1>1. /\ n \in Nat
        /\ n = read - clean \/ n = read - clean + 1
        /\ read <= last /\ read < last
        /\ parse.state \notin {"lf", "cr"} /\ n < Len(k) => b = k[n + 1]
    BY Alike DEF Takes
  <1>2. /\ Len(k) \in Nat
        /\ type \notin {"nmea", "hash"} => Len(k) = last - clean + 1
        /\ type \in {"nmea", "hash"} => Len(k) + 2 = last - clean + 1
        /\ Fits(type, k)
    BY WholeIs
  <1>3. read \in Nat /\ last \in Nat /\ clean \in Nat /\ BufferLength \in Nat
    BY SegmentIs, Sizes
  <1>4. /\ type \in {"nmea", "hash"} => Len(k) + 3 <= BufferLength
        /\ type \notin {"nmea", "hash"} => Len(k) <= BufferLength
    BY <1>2 DEF Fits
  <1> DEFINE len == Len(k)
  <1>5. /\ type \notin {"nmea", "hash"} => len = last - clean + 1 /\ len <= BufferLength
        /\ type \in {"nmea", "hash"} => len + 2 = last - clean + 1 /\ len + 3 <= BufferLength
        /\ len \in Nat
    BY <1>2, <1>4
  <1>6. parse.state \notin {"lf", "cr"} /\ n < len => b = k[n + 1]
    BY <1>1
  <1> HIDE DEF n, k, last, len
  <1>7. n < BufferLength
    BY <1>1, <1>3, <1>5
  <1>8. type \notin {"nmea", "hash"} => n < len
    BY <1>1, <1>3, <1>5
  <1> QED BY <1>6, <1>7, <1>8 DEF n, k, len

(* The sync bytes are those of the message.                                 *)
LEMMA SyncComes ==
    ASSUME StreamTypes, Parsed, Takes, clean > 0, NEW type \in Formats, Whole(type),
           Coming(type), UNCHANGED clean, Sync
    PROVE  Coming(type)'
  <1> DEFINE m == parse.buffer
             k == Sent(type)
  <1>1. parse.state \in {"sync2", "sync3"} /\ parse.type = type /\ ParseType
    BY DEF Sync, In, Coming, Parsed, ParserTypes
  <1>2. type \in {"custom", "binary"}
    <2>1. parse.type \in {"custom", "binary"}
      BY <1>1, TypeOfState
    <2> QED BY <1>1, <2>1
  <1>3. FrameProgress
    BY <1>1, <1>2 DEF Parsed, Progress
  <1>4. k \in Seq(Byte) /\ IsMessage(type, k)
    BY WholeIs
  <1>5. k[2] = B /\ k[3] = IF type = "custom" THEN CustomC ELSE UnicoreC
    BY <1>2, <1>4, FrameIs
  <1>6. b = k[Len(m) + 1]
    BY <1>1, <1>2, RoomForIt
  <1> HIDE DEF k
  <1>7. CASE parse.state = "sync2"
    <2>1. Len(m) = 1
      BY <1>3, <1>7 DEF FrameProgress
    <2>2. b = B
      BY <1>5, <1>6, <2>1
    <2>3. Goto("sync3", 0)
      BY <1>7, <2>2 DEF Sync
    <2> QED BY <1>1, <2>3, GotoComes
  <1>8. CASE parse.state = "sync3"
    <2>1. Len(m) = 2
      BY <1>3, <1>8 DEF FrameProgress
    <2>2. b = IF parse.type = "custom" THEN CustomC ELSE UnicoreC
      BY <1>1, <1>5, <1>6, <2>1
    <2>3. Goto("header", 0)
      BY <1>8, <2>2 DEF Sync
    <2> QED BY <1>1, <2>3, GotoComes
  <1> QED BY <1>1, <1>7, <1>8

(* Any header is taken,                                                     *)
LEMMA HeaderComes ==
    ASSUME Parsed, NEW type, Coming(type), UNCHANGED clean, Header
    PROVE  Coming(type)'
  <1>1. ParseType
    BY DEF Parsed, ParserTypes
  <1>2. Goto("header", 0) \/ Goto("crc", 4) \/ Goto("data", b)
    BY DEF Header
  <1> QED BY <1>1, <1>2, GotoComes

(* The length of an RTCM message is at most what ten bits hold.             *)
LEMMA RtcmLengthComes ==
    ASSUME StreamTypes, Parsed, Takes, clean > 0, NEW type \in Formats, Whole(type),
           Coming(type), UNCHANGED clean, RtcmLength
    PROVE  Coming(type)'
  <1> DEFINE k == Sent(type)
  <1>1. ParseType /\ parse.type = type
    BY DEF Parsed, ParserTypes, Coming
  <1>2. CASE In({"length1"}) /\ (IF b > 3 THEN SearchAgain ELSE Goto("length2", b * 256))
    <2>1. parse.state = "length1"
      BY <1>2 DEF In
    <2>2. type = "rtcm"
      <3>1. parse.type = "rtcm"
        BY <2>1, TypeOfState
      <3> QED BY <1>1, <3>1
    <2>3. Len(parse.buffer) = 1
      <3>1. RtcmProgress
        BY <1>1, <2>1, <2>2 DEF Parsed, Progress
      <3> QED BY <2>1, <3>1 DEF RtcmProgress
    <2>4. k[2] <= 3 /\ k[2] \in Nat
      <3>1. k \in Seq(Byte) /\ IsMessage("rtcm", k)
        BY <2>2, WholeIs
      <3> QED BY <3>1, RtcmIs
    <2>5. b = k[2]
      <3>1. b = k[Len(parse.buffer) + 1]
        BY <2>1, <2>2, RoomForIt
      <3> QED BY <2>3, <3>1
    <2> HIDE DEF k
    <2>6. Goto("length2", b * 256)
      BY <1>2, <2>4, <2>5
    <2> QED BY <1>1, <2>6, GotoComes
  <1>3. CASE Goto("message1", parse.remaining + b)
    BY <1>1, <1>3, GotoComes
  <1>4. CASE Goto("message2", Less(parse.remaining))
    BY <1>1, <1>4, GotoComes
  <1>5. CASE Goto("data", Less(parse.remaining))
    BY <1>1, <1>5, GotoComes
  <1> QED BY <1>2, <1>3, <1>4, <1>5 DEF RtcmLength

(* and any data.                                                            *)
LEMMA DataComes ==
    ASSUME Parsed, NEW type, Coming(type), UNCHANGED clean, Data
    PROVE  Coming(type)'
  <1>1. ParseType
    BY DEF Parsed, ParserTypes
  <1>2. Goto("crc", CrcLength(parse.type)) \/ Goto("data", Less(parse.remaining))
    BY DEF Data
  <1> QED BY <1>1, <1>2, GotoComes

(* The last byte of the CRC is the last of the message.                     *)
LEMMA CrcComes ==
    ASSUME StreamTypes, Parsed, Takes, DeliveredType, clean > 0, NEW type \in Formats,
           Whole(type), Coming(type), UNCHANGED clean, Crc
    PROVE  Coming(type)' \/ Received(type)'
  <1> DEFINE m == parse.buffer
             n == Len(m)
             k == Sent(type)
  <1>1. parse.state = "crc" /\ n < BufferLength /\ parse.type = type /\ ParseType
    BY DEF Crc, In, Coming, Parsed, ParserTypes
  <1>2. type \in {"custom", "binary", "rtcm"}
    <2>1. parse.type \in {"custom", "binary", "rtcm"}
      BY <1>1, TypeOfState
    <2> QED BY <1>1, <2>1
  <1>3. CASE parse.remaining > 1
    <2>1. Goto("crc", parse.remaining - 1)
      BY <1>3 DEF Crc
    <2> QED BY <1>1, <2>1, GotoComes
  <1>4. CASE ~(parse.remaining > 1)
    <2>1. k \in Seq(Byte) /\ Len(k) \in Nat /\ IsMessage(type, k) /\ CheckHolds(type, k)
      BY WholeIs
    <2>2. n \in Nat /\ m \in Seq(Byte) /\ \A i \in 1..n : i <= Len(k) => m[i] = k[i]
      BY Alike
    <2>3. n < Len(k) /\ b = k[n + 1]
      BY <1>1, <1>2, RoomForIt
    <2>4. /\ buffer \in Seq(Byte) /\ Len(buffer) = n + 1 /\ buffer[n + 1] = b
          /\ \A i \in 1..n : buffer[i] = m[i]
          /\ parse.remaining \in Nat
      <3>1. read < Len(stream)
        BY DEF Takes
      <3> QED BY <1>1, <3>1, Taken, Grown
    <2>5. Len(k) = n + 1
      <3>1. CASE type \in {"custom", "binary"}
        <4>1. FrameProgress
          BY <1>1, <3>1 DEF Parsed, Progress
        <4>2. HeaderLength \in Nat /\ HeaderLength > 5
          BY Sizes
        <4>3. parse.remaining \in 1..4 /\ n + parse.remaining = FrameEnd(m) + 4
              /\ ~(n < HeaderLength)
          BY <1>1, <4>1 DEF FrameProgress
        <4>4. m[HeaderLength] = k[HeaderLength]
          <5>1. HeaderLength \in 1..n /\ HeaderLength <= Len(k)
            BY <2>1, <2>2, <2>3, <4>2, <4>3
          <5> QED BY <2>2, <5>1
        <4>5. Len(k) = FrameEnd(k) + 4
          BY <2>1, <3>1, FrameIs
        <4>6. parse.remaining = 1
          BY <1>4, <4>3
        <4>7. n + 1 = FrameEnd(m) + 4 /\ FrameEnd(m) = FrameEnd(k)
          BY <4>3, <4>4, <4>6 DEF FrameEnd
        <4> QED BY <4>5, <4>7
      <3>2. CASE type = "rtcm"
        <4>1. RtcmProgress
          BY <1>1, <3>2 DEF Parsed, Progress
        <4>2. parse.remaining \in 1..3 /\ n + parse.remaining = RtcmEnd(m) + 3 /\ n >= 6
          BY <1>1, <4>1 DEF RtcmProgress
        <4>3. m[2] = k[2] /\ m[3] = k[3]
          <5>1. 2 \in 1..n /\ 2 <= Len(k) /\ 3 \in 1..n /\ 3 <= Len(k)
            BY <2>1, <2>2, <2>3, <4>2
          <5> QED BY <2>2, <5>1
        <4>4. Len(k) = RtcmEnd(k) + 3
          <5>1. IsMessage("rtcm", k)
            BY <2>1, <3>2
          <5> QED BY <2>1, <5>1, RtcmIs
        <4>5. parse.remaining = 1
          BY <1>4, <4>2
        <4>6. n + 1 = RtcmEnd(m) + 3 /\ RtcmEnd(m) = RtcmEnd(k)
          BY <4>2, <4>3, <4>5 DEF RtcmEnd
        <4> QED BY <4>4, <4>6
      <3> QED BY <1>2, <3>1, <3>2
    <2>6. buffer = k
      <3>1. \A i \in 1..n + 1 : buffer[i] = k[i]
        <4>1. \A i \in 1..n + 1 : (i \in 1..n /\ i <= Len(k)) \/ i = n + 1
          BY <2>2, <2>5
        <4> QED BY <2>2, <2>3, <2>4, <4>1
      <3> HIDE DEF k, m, n
      <3> QED BY <2>1, <2>4, <2>5, <3>1, SeqEqual
    <2>7. CrcOk(parse.type, buffer)
      BY <1>1, <1>2, <2>1, <2>6 DEF CheckHolds
    <2>8. Deliver(k, length)
      BY <1>4, <2>6, <2>7 DEF Crc
    <2>9. length \in Nat
      BY <2>2, <2>4 DEF length
    <2>10. UNCHANGED <<stream, clean>>
      BY DEF Takes
    <2> QED BY <1>1, <2>1, <2>8, <2>9, <2>10, GivenReceived
  <1> QED BY <1>3, <1>4

-----------------------------------------------------------------------------
(* What a sentence is made of.                                              *)
SentenceAt(type, m, comma, asterisk) ==
    /\ comma \in 3..Len(m) /\ m[comma] = Comma /\ comma <= NameLimit + 2
    /\ \A i \in 2..comma - 1 : m[i] \in NameBytes
    /\ asterisk \in comma + 1..Len(m) /\ m[asterisk] = Asterisk
    /\ \A i \in comma..asterisk - 1 : m[i] # Asterisk
    /\ Len(m) = asterisk + Digits(type, m)
    /\ \A i \in asterisk + 1..Len(m) : Nibble(m[i]) >= 0

(* What a sentence has them at.                                             *)
LEMMA SentenceIs ==
    ASSUME NEW type \in {"nmea", "hash"}, NEW m \in Seq(Byte), IsMessage(type, m)
    PROVE  /\ m[1] = IF type = "nmea" THEN Dollar ELSE Hash
           /\ \E comma, asterisk : SentenceAt(type, m, comma, asterisk)
  <1>1. IsSentence(type, m)
    BY DEF IsMessage
  <1>2. PICK comma \in 3..Len(m), asterisk \in 3..Len(m) :
           /\ m[comma] = Comma /\ comma < asterisk /\ comma <= NameLimit + 2
           /\ \A i \in 2..comma - 1 : m[i] \in NameBytes
           /\ m[asterisk] = Asterisk /\ \A i \in comma..asterisk - 1 : m[i] # Asterisk
           /\ Len(m) = asterisk + Digits(type, m)
           /\ \A i \in asterisk + 1..Len(m) : Nibble(m[i]) >= 0
    BY <1>1, Zenon DEF IsSentence, NameBytes
  <1>3. asterisk \in comma + 1..Len(m)
    <2>1. Len(m) \in Nat
      BY LenProperties
    <2> QED BY <1>2, <2>1
  <1>4. SentenceAt(type, m, comma, asterisk)
    BY <1>2, <1>3 DEF SentenceAt
  <1> QED BY <1>1, <1>4 DEF IsSentence

(* What a name cannot hold.                                                 *)
LEMMA NotInNames == \A x \in NameBytes : x # Comma /\ x # Asterisk /\ x # CR /\ x # LF
  BY DEF NameBytes, Comma, Asterisk, CR, LF

(* The first comma of sequences that begin alike,                           *)
LEMMA SameComma ==
    ASSUME NEW m \in Seq(Byte), NEW k \in Seq(Byte),
           \A i \in 1..Len(m) : i <= Len(k) => m[i] = k[i],
           NEW c \in 3..Len(m), m[c] = Comma, \A i \in 2..c - 1 : m[i] \in NameBytes,
           NEW d \in 3..Len(k), k[d] = Comma, \A i \in 2..d - 1 : k[i] \in NameBytes
    PROVE  c = d
  <1>1. Len(m) \in Nat /\ Len(k) \in Nat
    BY LenProperties
  <1>2. CASE c < d
    <2>1. c \in 2..d - 1 /\ c \in 1..Len(m) /\ c <= Len(k)
      BY <1>1, <1>2
    <2>2. k[c] \in NameBytes /\ m[c] = k[c]
      BY <2>1
    <2> QED BY <2>2, NotInNames
  <1>3. CASE d < c
    <2>1. d \in 2..c - 1 /\ d \in 1..Len(m) /\ d <= Len(k)
      BY <1>1, <1>3
    <2>2. m[d] \in NameBytes /\ m[d] = k[d]
      BY <2>1
    <2> QED BY <2>2, NotInNames
  <1> QED BY <1>1, <1>2, <1>3

(* and the first asterisk behind it.                                        *)
LEMMA SameAsterisk ==
    ASSUME NEW m \in Seq(Byte), NEW k \in Seq(Byte),
           \A i \in 1..Len(m) : i <= Len(k) => m[i] = k[i],
           NEW c \in Nat, c >= 1,
           NEW s \in c + 1..Len(m), m[s] = Asterisk, \A i \in c..s - 1 : m[i] # Asterisk,
           NEW t \in c + 1..Len(k), k[t] = Asterisk, \A i \in c..t - 1 : k[i] # Asterisk
    PROVE  s = t
  <1>1. Len(m) \in Nat /\ Len(k) \in Nat
    BY LenProperties
  <1>2. CASE s < t
    <2>1. s \in c..t - 1 /\ s \in 1..Len(m) /\ s <= Len(k)
      BY <1>1, <1>2
    <2> QED BY <2>1
  <1>3. CASE t < s
    <2>1. t \in c..s - 1 /\ t \in 1..Len(m) /\ t <= Len(k)
      BY <1>1, <1>3
    <2> QED BY <2>1
  <1> QED BY <1>1, <1>2, <1>3

(* A sentence in the buffer whose asterisk is there: how much is missing.   *)
LEMMA ClosedSame ==
    ASSUME NEW type \in {"nmea", "hash"}, NEW m \in Seq(Byte), NEW k \in Seq(Byte),
           NEW name \in Nat, NEW left \in Nat, Closed(m, type, name, left), IsMessage(type, k),
           \A i \in 1..Len(m) : i <= Len(k) => m[i] = k[i]
    PROVE  /\ Len(k) = Len(m) + left
           /\ \A i \in Len(m) + 1..Len(k) : Nibble(k[i]) >= 0
  <1> DEFINE c == name + 2
             star == Len(m) + left - Digits(type, m)
  <1>1. Len(m) \in Nat /\ Len(k) \in Nat
    BY LenProperties
  <1>2. PICK comma, asterisk : SentenceAt(type, k, comma, asterisk)
    BY SentenceIs
  <1>3. Named(m, c) /\ star \in name + 3..Len(m)
    BY ClosedParts
  <1>4. /\ m[star] = Asterisk /\ \A i \in c..star - 1 : m[i] # Asterisk
    BY DEF Closed
  <1>5. c \in 3..Len(m) /\ m[c] = Comma /\ \A i \in 2..c - 1 : m[i] \in NameBytes
    BY <1>1, <1>3 DEF Named
  <1>6. c = comma
    <2>1. comma \in 3..Len(k) /\ k[comma] = Comma /\ \A i \in 2..comma - 1 : k[i] \in NameBytes
      BY <1>2 DEF SentenceAt
    <2> HIDE DEF c
    <2> QED BY <1>5, <2>1, SameComma
  <1>7. star = asterisk
    <2>1. /\ asterisk \in c + 1..Len(k) /\ k[asterisk] = Asterisk
          /\ \A i \in c..asterisk - 1 : k[i] # Asterisk
      BY <1>2, <1>6 DEF SentenceAt
    <2>2. c \in Nat /\ c >= 1 /\ star \in c + 1..Len(m)
      BY <1>3
    <2> HIDE DEF c, star
    <2> QED BY <1>4, <2>1, <2>2, SameAsterisk
  <1>8. Digits(type, k) = Digits(type, m)
    <2>1. c \in Nat /\ c <= Len(k)
      BY <1>1, <1>2, <1>6 DEF SentenceAt
    <2>2. \A i \in 1..c : k[i] = m[i]
      <3>1. \A i \in 1..c : i \in 1..Len(m) /\ i <= Len(k)
        BY <1>1, <1>5, <2>1
      <3> QED BY <3>1
    <2> HIDE DEF c
    <2> QED BY <1>3, <2>1, <2>2, DigitsKept
  <1>9. Digits(type, m) \in Nat
    BY DigitsAre
  <1>10. Len(k) = asterisk + Digits(type, k) /\ \A i \in asterisk + 1..Len(k) : Nibble(k[i]) >= 0
    BY <1>2 DEF SentenceAt
  <1>11. Len(k) = Len(m) + left
    BY <1>1, <1>7, <1>8, <1>9, <1>10
  <1>12. \A i \in Len(m) + 1..Len(k) : i \in asterisk + 1..Len(k)
    <2>1. asterisk \in Nat /\ asterisk <= Len(m)
      BY <1>3, <1>7
    <2> QED BY <1>1, <2>1
  <1> QED BY <1>10, <1>11, <1>12

(* The name goes up to the comma.                                           *)
LEMMA NameComes ==
    ASSUME StreamTypes, Parsed, Takes, clean > 0, NEW type \in Formats, Whole(type),
           Coming(type), UNCHANGED clean, Name
    PROVE  Coming(type)'
  <1> DEFINE m == parse.buffer
             n == Len(m)
             k == Sent(type)
  <1>1. parse.state = "name" /\ parse.type = type /\ ParseType /\ parse.name \in Nat
    BY DEF Name, In, Coming, Parsed, ParserTypes, ParseType
  <1>2. type \in {"nmea", "hash"}
    <2>1. parse.type \in {"nmea", "hash"}
      BY <1>1, TypeOfState
    <2> QED BY <1>1, <2>1
  <1>3. n = parse.name + 1 /\ \A i \in 2..n : m[i] \in NameBytes
    <2>1. SentenceProgress
      BY <1>1, <1>2 DEF Parsed, Progress
    <2> QED BY <1>1, <2>1 DEF SentenceProgress
  <1>4. k \in Seq(Byte) /\ Len(k) \in Nat /\ IsMessage(type, k)
    BY WholeIs
  <1>5. PICK comma, asterisk : SentenceAt(type, k, comma, asterisk)
    BY <1>2, <1>4, SentenceIs
  <1>6. /\ comma \in 3..Len(k) /\ k[comma] = Comma /\ comma <= NameLimit + 2
        /\ \A i \in 2..comma - 1 : k[i] \in NameBytes
    BY <1>5 DEF SentenceAt
  <1>7. /\ \A i \in 1..n : i <= Len(k) => m[i] = k[i]
        /\ n < Len(k) => b = k[n + 1]
    BY <1>1, Alike
  <1>8. NameLimit \in Nat
    BY Sizes
  <1>9. n < comma
    <2> SUFFICES ASSUME comma <= n PROVE FALSE
      BY <1>1, <1>3, <1>6
    <2>1. comma \in 1..n /\ comma \in 2..n /\ comma <= Len(k)
      BY <1>1, <1>3, <1>4, <1>6
    <2>2. m[comma] = Comma /\ m[comma] \in NameBytes
      BY <1>3, <1>6, <1>7, <2>1
    <2> QED BY <2>2, NotInNames
  <1>10. b = k[n + 1]
    BY <1>1, <1>3, <1>4, <1>6, <1>7, <1>9
  <1> HIDE DEF m, n, k
  <1>11. CASE n + 1 = comma
    <2>1. b = Comma /\ parse.name > 0
      BY <1>1, <1>3, <1>6, <1>10, <1>11
    <2>2. Goto("text", 0)
      BY <2>1 DEF Name
    <2> QED BY <1>1, <2>2, GotoComes
  <1>12. CASE n + 1 # comma
    <2>1. n + 1 \in 2..comma - 1 /\ parse.name < NameLimit
      BY <1>1, <1>3, <1>6, <1>8, <1>9, <1>12
    <2>2. b \in NameBytes
      BY <1>6, <1>10, <2>1
    <2>3. b # Comma /\ NameCharacter
      BY <2>2, NotInNames DEF NameBytes, NameCharacter
    <2>4. parse' = [parse EXCEPT !.buffer = buffer, !.name = @ + 1]
      BY <2>1, <2>3 DEF Name
    <2> HIDE DEF Name
    <2>5. parse'.state = parse.state /\ parse'.type = parse.type /\ parse'.from = parse.from
      BY <1>1, <2>4 DEF ParseType
    <2> QED BY <2>5 DEF Coming
  <1> QED BY <1>11, <1>12

(* The text fits in front of the asterisk.                                  *)
LEMMA TextComes ==
    ASSUME StreamTypes, Parsed, Takes, clean > 0, NEW type \in Formats, Whole(type),
           Coming(type), UNCHANGED clean, Text
    PROVE  Coming(type)'
  <1> DEFINE m == parse.buffer
             n == Len(m)
             k == Sent(type)
             c == parse.name + 2
  <1>1. parse.state = "text" /\ parse.type = type /\ ParseType /\ parse.name \in Nat
        /\ n < BufferLength
    BY DEF Text, In, Coming, Parsed, ParserTypes, ParseType
  <1>2. type \in {"nmea", "hash"}
    <2>1. parse.type \in {"nmea", "hash"}
      BY <1>1, TypeOfState
    <2> QED BY <1>1, <2>1
  <1>3. /\ c \in 3..n /\ m[c] = Comma /\ \A i \in 2..c - 1 : m[i] \in NameBytes
        /\ \A i \in c..n : m[i] # Asterisk
    <2>1. SentenceProgress
      BY <1>1, <1>2 DEF Parsed, Progress
    <2>2. c - 1 = parse.name + 1
      BY <1>1
    <2> QED BY <1>1, <2>1, <2>2 DEF SentenceProgress
  <1>4. k \in Seq(Byte) /\ Len(k) \in Nat /\ IsMessage(type, k) /\ Len(k) + 3 <= BufferLength
    <2>1. Fits(type, k)
      BY WholeIs
    <2> QED BY <1>2, <2>1, WholeIs DEF Fits
  <1>5. PICK comma, asterisk : SentenceAt(type, k, comma, asterisk)
    BY <1>2, <1>4, SentenceIs
  <1>6. /\ comma \in 3..Len(k) /\ k[comma] = Comma
        /\ \A i \in 2..comma - 1 : k[i] \in NameBytes
        /\ asterisk \in comma + 1..Len(k) /\ k[asterisk] = Asterisk
        /\ \A i \in comma..asterisk - 1 : k[i] # Asterisk
        /\ Len(k) = asterisk + Digits(type, k)
    BY <1>5 DEF SentenceAt
  <1>7. /\ \A i \in 1..n : i <= Len(k) => m[i] = k[i]
        /\ n < Len(k) => b = k[n + 1]
        /\ m \in Seq(Byte) /\ n \in Nat
    BY <1>1, Alike
  <1>8. c = comma
    <2> HIDE DEF m, k, c
    <2> QED BY <1>3, <1>4, <1>6, <1>7, SameComma DEF n
  <1>9. n < asterisk
    <2> SUFFICES ASSUME asterisk <= n PROVE FALSE
      BY <1>6, <1>7
    <2>1. asterisk \in 1..n /\ asterisk \in c..n /\ asterisk <= Len(k)
      BY <1>4, <1>6, <1>7, <1>8
    <2> QED BY <1>3, <1>6, <1>7, <2>1
  <1>10. b = k[n + 1] /\ Len(buffer) = n + 1
    <2>1. read < Len(stream)
      BY DEF Takes
    <2> QED BY <1>1, <1>4, <1>6, <1>7, <1>9, <2>1, Taken
  <1> HIDE DEF m, n, k
  <1>11. CASE n + 1 = asterisk
    <2>1. b = Asterisk
      BY <1>6, <1>10, <1>11
    <2>2. Goto("digits", Digits(parse.type, parse.buffer))
      BY <2>1 DEF Text
    <2> QED BY <1>1, <2>2, GotoComes
  <1>12. CASE n + 1 # asterisk
    <2>1. n + 1 <= asterisk - 1
      BY <1>6, <1>7, <1>9, <1>12
    <2>2. n + 1 \in comma..asterisk - 1
      BY <1>3, <1>6, <1>7, <1>8, <2>1
    <2>3. b # Asterisk
      BY <1>6, <1>10, <2>2
    <2>4. length + Overhead(parse.type) <= BufferLength
      <3>1. Digits(type, k) \in {2, 8} /\ Overhead(type) \in {3, 6}
        BY DigitsAre DEF Overhead
      <3>2. BufferLength \in Nat
        BY Sizes
      <3>3. asterisk + 5 <= BufferLength
        BY <1>4, <1>6, <3>1, <3>2
      <3>4. length = n + 1
        BY <1>10 DEF length
      <3> QED BY <1>1, <1>6, <1>7, <2>1, <3>1, <3>2, <3>3, <3>4
    <2>5. Goto("text", 0)
      <3>1. length \in Nat /\ Overhead(parse.type) \in Nat /\ BufferLength \in Nat
        BY <1>7, <1>10, Sizes DEF length, Overhead
      <3>2. ~(length + Overhead(parse.type) > BufferLength)
        BY <2>4, <3>1
      <3> QED BY <2>3, <3>2 DEF Text
    <2> QED BY <1>1, <2>5, GotoComes
  <1> QED BY <1>11, <1>12

(* The digits of the checksum are all digits.                               *)
LEMMA ChecksumDigitsComes ==
    ASSUME StreamTypes, Parsed, Takes, clean > 0, NEW type \in Formats, Whole(type),
           Coming(type), UNCHANGED clean, ChecksumDigits
    PROVE  Coming(type)'
  <1> DEFINE m == parse.buffer
             n == Len(m)
             k == Sent(type)
  <1>1. parse.state = "digits" /\ parse.type = type /\ ParseType
    BY DEF ChecksumDigits, In, Coming, Parsed, ParserTypes
  <1>2. /\ type \in {"nmea", "hash"} /\ parse.name \in Nat /\ parse.remaining \in Nat
        /\ Closed(m, type, parse.name, parse.remaining) /\ parse.remaining > 0
    BY <1>1, SentenceHeld
  <1>3. k \in Seq(Byte) /\ Len(k) \in Nat /\ IsMessage(type, k)
    BY WholeIs
  <1>4. /\ \A i \in 1..n : i <= Len(k) => m[i] = k[i]
        /\ n < Len(k) => b = k[n + 1]
        /\ m \in Seq(Byte) /\ n \in Nat
    BY <1>1, Alike
  <1>5. Len(k) = n + parse.remaining /\ \A i \in n + 1..Len(k) : Nibble(k[i]) >= 0
    BY <1>2, <1>3, <1>4, ClosedSame
  <1> HIDE DEF m, n, k
  <1>6. n < Len(k) /\ n + 1 \in n + 1..Len(k)
    BY <1>2, <1>3, <1>4, <1>5
  <1>7. Nibble(b) >= 0
    BY <1>4, <1>5, <1>6
  <1>8. ~(Nibble(b) < 0)
    <2>1. Nibble(b) \in Int
      <3>1. b \in Nat
        BY <1>1, Taken DEF Takes
      <3> QED BY <3>1 DEF Nibble
    <2> QED BY <1>7, <2>1
  <1>9. Goto("digits", parse.remaining - 1) \/ Goto("end", 0)
    BY <1>8 DEF ChecksumDigits
  <1> QED BY <1>1, <1>9, GotoComes

(* Behind the last digit the message is in the buffer.                      *)
LEMMA AllThere ==
    ASSUME StreamTypes, Parsed, clean > 0, NEW type \in Formats, Whole(type), Coming(type),
           parse.state \in {"end", "lf", "cr"}
    PROVE  /\ type \in {"nmea", "hash"} /\ parse.buffer = Sent(type)
           /\ Len(parse.buffer) \in Nat /\ parse.type = type
  <1> DEFINE m == parse.buffer
             n == Len(m)
             k == Sent(type)
  <1>1. parse.type = type
    BY DEF Coming
  <1>2. type \in {"nmea", "hash"} /\ parse.name \in Nat /\ Closed(m, type, parse.name, 0)
    BY <1>1, SentenceHeld
  <1>3. k \in Seq(Byte) /\ Len(k) \in Nat /\ IsMessage(type, k)
    BY WholeIs
  <1>4. /\ \A i \in 1..n : i <= Len(k) => m[i] = k[i]
        /\ m \in Seq(Byte) /\ n \in Nat
    BY Alike
  <1>5. Len(k) = n + 0
    BY <1>2, <1>3, <1>4, ClosedSame
  <1>6. Len(k) = n
    BY <1>4, <1>5
  <1>7. \A i \in 1..n : m[i] = k[i]
    BY <1>3, <1>4, <1>6
  <1>8. m = k
    <2> HIDE DEF m, k
    <2> QED BY <1>3, <1>4, <1>6, <1>7, SeqEqual DEF n
  <1> QED BY <1>1, <1>2, <1>4, <1>8

(* It is followed by CR,                                                    *)
LEMMA LineTerminationComes ==
    ASSUME StreamTypes, Parsed, Takes, clean > 0, NEW type \in Formats, Whole(type),
           Coming(type), UNCHANGED clean, LineTermination
    PROVE  Coming(type)'
  <1> DEFINE n == Len(parse.buffer)
             last == Len(stream)
  <1>1. parse.state = "end" /\ ParseType
    BY DEF LineTermination, In, Parsed, ParserTypes
  <1>2. type \in {"nmea", "hash"} /\ parse.buffer = Sent(type)
    BY <1>1, AllThere
  <1>3. n + 2 = last - clean + 1 /\ stream[last - 1] = CR
    BY <1>2, WholeIs
  <1>4. n = read - clean + 1 /\ n \in Nat
    BY <1>1, Alike
  <1>5. last \in Nat /\ clean \in Nat /\ read \in Nat
    BY SegmentIs
  <1>6. b = stream[read + 1]
    BY DEF b
  <1> HIDE DEF n, last
  <1>7. read + 1 = last - 1
    BY <1>3, <1>4, <1>5
  <1>8. b = CR
    BY <1>3, <1>6, <1>7
  <1>9. parse' = [parse EXCEPT !.state = "lf"]
    BY <1>8 DEF LineTermination
  <1>10. parse'.state = "lf" /\ parse'.type = parse.type /\ parse'.from = parse.from
    BY <1>1, <1>9 DEF ParseType
  <1> QED BY <1>10 DEF Coming

(* and given out with the byte behind that.                                 *)
LEMMA LineEndReceived ==
    ASSUME StreamTypes, Parsed, Takes, DeliveredType, clean > 0, NEW type \in Formats,
           Whole(type), Coming(type), UNCHANGED clean, LineEnd
    PROVE  Received(type)'
  <1> DEFINE k == Sent(type)
  <1>1. parse.state \in {"lf", "cr"} /\ ParseType /\ ValidateChecksum
    BY DEF LineEnd, In, Parsed, ParserTypes
  <1>2. type \in {"nmea", "hash"} /\ parse.buffer = k /\ parse.type = type
    BY <1>1, AllThere
  <1>3. k \in Seq(Byte) /\ Len(k) \in Nat /\ CheckHolds(type, k) /\ Fits(type, k)
    BY WholeIs
  <1>4. ChecksumOk(type, k) /\ Len(k) + 3 <= BufferLength
    BY <1>2, <1>3 DEF CheckHolds, Fits
  <1> HIDE DEF k
  <1>5. Deliver(k, Len(k) + 3)
    BY <1>1, <1>2, <1>4 DEF ValidateChecksum
  <1>6. UNCHANGED <<stream, clean>> /\ Len(k) + 3 \in Nat
    BY <1>3 DEF Takes
  <1> QED BY <1>1, <1>3, <1>5, <1>6, GivenReceived DEF k

-----------------------------------------------------------------------------
(* The formats of a table.                                                  *)
LEMMA FormatsAre ==
    ASSUME StreamTypes
    PROVE  \A type \in ToSet(table) : type \in Formats /\ \E i \in 1..Len(table) : type = table[i]
  <1>1. table \in Tables
    BY DEF StreamTypes
  <1>2. \A i \in 1..Len(table) : table[i] \in Formats
    BY <1>1, TablesAre DEF Formats
  <1>3. DOMAIN table = 1..Len(table)
    BY <1>1 DEF Tables
  <1> QED BY <1>2, <1>3 DEF ToSet

(* A message begins with the preamble of its format.                        *)
LEMMA BeginsWithPreamble ==
    ASSUME NEW type \in Formats, NEW m \in Seq(Byte), IsMessage(type, m)
    PROVE  Preamble(type, m[1])
  <1>1. CASE type \in {"custom", "binary"}
    <2>1. m[1] = A
      BY <1>1, FrameIs
    <2> QED BY <1>1, <2>1 DEF Preamble
  <1>2. CASE type = "rtcm"
    <2>1. IsMessage("rtcm", m)
      BY <1>2
    <2>2. m[1] = D3
      BY <2>1, RtcmIs
    <2> QED BY <1>2, <2>2 DEF Preamble
  <1>3. CASE type \in {"nmea", "hash"}
    <2>1. m[1] = IF type = "nmea" THEN Dollar ELSE Hash
      BY <1>3, SentenceIs
    <2> QED BY <1>3, <2>1 DEF Preamble
  <1> QED BY <1>1, <1>2, <1>3 DEF Formats

(* Searching, the parser takes up the message that begins.                  *)
LEMMA SearchComes ==
    ASSUME StreamTypes, Parsed, Takes, clean > 0, read + 1 = clean, NEW type \in ToSet(table),
           Whole(type), UNCHANGED clean, parse' = FirstByte(b)
    PROVE  Coming(type)'
  <1>1. type \in Formats
    BY FormatsAre
  <1>2. PICK i \in 1..Len(table) : type = table[i]
    BY FormatsAre
  <1>3. Preamble(type, b)
    <2>1. /\ Sent(type) \in Seq(Byte) /\ IsMessage(type, Sent(type)) /\ Len(Sent(type)) \in Nat
          /\ Len(Sent(type)) >= 1
          /\ \A j \in 1..Len(Sent(type)) : Sent(type)[j] = stream[clean + j - 1]
      BY <1>1, WholeIs
    <2>2. 1 \in 1..Len(Sent(type)) /\ clean + 1 - 1 = read + 1
      <3>1. clean \in Nat /\ read \in Nat
        BY SegmentIs
      <3> QED BY <2>1, <3>1
    <2>3. Sent(type)[1] = b
      BY <2>1, <2>2 DEF b
    <2> QED BY <1>1, <2>1, <2>3, BeginsWithPreamble
  <1>4. /\ parse'.from = read + 1
        /\ \/ \A j \in 1..Len(table) : ~Preamble(table[j], b)
           \/ \E j \in 1..Len(table) :
                 /\ Preamble(table[j], b)
                 /\ parse'.state = After(table[j]) /\ parse'.type = table[j]
    <2>1. b \in Byte
      <3>1. ParseType /\ read < Len(stream)
        BY DEF Parsed, ParserTypes, Takes
      <3> QED BY <3>1, Taken
    <2> QED BY <2>1, SearchFields
  <1>5. PICK j \in 1..Len(table) :
           /\ Preamble(table[j], b)
           /\ parse'.state = After(table[j]) /\ parse'.type = table[j]
    BY <1>2, <1>3, <1>4
  <1>6. i = j
    BY <1>2, <1>3, <1>5, PreamblesApart DEF StreamTypes
  <1>7. parse'.state = After(type) /\ parse'.type = type
    BY <1>2, <1>5, <1>6
  <1>8. After(type) # "first"
    BY <1>1 DEF After, Formats
  <1> QED BY <1>4, <1>7, <1>8 DEF Coming

(* A message that is being read goes on until it is received,               *)
LEMMA ByteComes ==
    ASSUME StreamTypes, Parsed, Takes, DeliveredType, clean > 0, NEW type \in Formats,
           Whole(type), Coming(type), UNCHANGED clean,
           \/ TooLong \/ FirstByteState \/ Sync \/ Header \/ RtcmLength \/ Data \/ Crc
           \/ Name \/ Text \/ ChecksumDigits \/ LineTermination \/ LineEnd
    PROVE  Coming(type)' \/ Received(type)'
  <1>1. ~TooLong
    <2>1. Len(parse.buffer) < BufferLength /\ BufferLength \in Nat
      BY RoomForIt, Sizes
    <2>2. Len(parse.buffer) \in Nat
      BY Alike
    <2> QED BY <2>1, <2>2 DEF TooLong
  <1>2. ~FirstByteState
    BY DEF FirstByteState, In, Coming
  <1>3. CASE Sync
    BY <1>3, SyncComes
  <1>4. CASE Header
    BY <1>4, HeaderComes
  <1>5. CASE RtcmLength
    BY <1>5, RtcmLengthComes
  <1>6. CASE Data
    BY <1>6, DataComes
  <1>7. CASE Crc
    BY <1>7, CrcComes
  <1>8. CASE Name
    BY <1>8, NameComes
  <1>9. CASE Text
    BY <1>9, TextComes
  <1>10. CASE ChecksumDigits
    BY <1>10, ChecksumDigitsComes
  <1>11. CASE LineTermination
    BY <1>11, LineTerminationComes
  <1>12. CASE LineEnd
    BY <1>12, LineEndReceived
  <1> QED BY <1>1, <1>2, <1>3, <1>4, <1>5, <1>6, <1>7, <1>8, <1>9, <1>10, <1>11, <1>12

(* What OnItsWay says, with the names of this proof.                        *)
LEMMA OnItsWayIs ==
    OnItsWay <=>
        (clean > 0 =>
            /\ read + 1 >= clean
            /\ read < clean => parse.state = "first"
            /\ ~(read < clean) =>
                 \A type \in ToSet(table) : Whole(type) => Received(type) \/ Coming(type))
  BY DEF OnItsWay, Coming

(* so that every byte keeps what is on its way,                             *)
LEMMA ByteOnItsWay ==
    ASSUME StreamTypes, Parsed, DeliveredInv, OnItsWay, ParseNextByte
    PROVE  OnItsWay'
  <1>1. /\ Takes /\ UNCHANGED <<table, stream, clean>> /\ ParseType /\ DeliveredType
        /\ delivered' = delivered \/ \E message, room : GivenOut(message, room)
    BY ByteParsed DEF ParserStep, ParseNextByte, Parsed, ParserTypes, DeliveredInv
  <1> SUFFICES ASSUME clean' > 0
               PROVE  /\ read' + 1 >= clean' /\ ~(read' < clean')
                      /\ \A type \in ToSet(table)' :
                            Whole(type)' => Received(type)' \/ Coming(type)'
    BY DEF OnItsWay, Coming
  <1>2. clean > 0 /\ read \in Nat /\ clean \in Nat
    <2>1. clean > 0
      BY <1>1
    <2> QED BY <2>1, SegmentIs
  <1>3. read + 1 >= clean /\ read' = read + 1
    BY <1>1, <1>2, OnItsWayIs DEF Takes
  <1>4. read' + 1 >= clean' /\ ~(read' < clean')
    BY <1>1, <1>2, <1>3
  <1>5. ASSUME NEW type \in ToSet(table), Whole(type)
        PROVE  Received(type)' \/ Coming(type)'
    <2>1. CASE read < clean
      <3>1. parse.state = "first" /\ read + 1 = clean
        BY <1>2, <1>3, <2>1, OnItsWayIs
      <3>2. parse' = FirstByte(b)
        BY <3>1 DEF ParseNextByte, TooLong, FirstByteState, SearchAgain, In, Sync, Header,
                    RtcmLength, Data, Crc, Name, Text, ChecksumDigits, LineTermination, LineEnd
      <3> QED BY <1>1, <1>2, <1>5, <3>1, <3>2, SearchComes
    <2>2. CASE ~(read < clean)
      <3>1. Received(type) \/ Coming(type)
        BY <1>2, <1>5, <2>2, OnItsWayIs
      <3>2. CASE Received(type)
        BY <1>1, <3>2, StaysReceived
      <3>3. CASE Coming(type)
        <4>1. type \in Formats
          BY FormatsAre
        <4> QED BY <1>1, <1>2, <1>5, <3>3, <4>1, ByteComes DEF ParseNextByte
      <3> QED BY <3>1, <3>2, <3>3
    <2> QED BY <2>1, <2>2
  <1>6. ToSet(table)' = ToSet(table) /\ \A type : Whole(type)' <=> Whole(type)
    <2>1. LastSegment' = LastSegment
      BY <1>1 DEF LastSegment
    <2>2. \A type : Whole(type)' <=> Whole(type)
      BY <2>1 DEF Whole
    <2> QED BY <1>1, <2>2 DEF ToSet
  <1> QED BY <1>4, <1>5, <1>6

(* sending begins anew,                                                     *)
LEMMA SendOnItsWay ==
    ASSUME StreamTypes, Send
    PROVE  OnItsWay'
  <1>1. read' = read /\ parse' = parse /\ read \in Nat
    BY SentTypes DEF Send
  <1>2. clean' = IF parse.state = "first" THEN read + 1 ELSE 0
    BY DEF Send
  <1>3. clean' > 0 => read' + 1 >= clean' /\ read' < clean' /\ parse'.state = "first"
    BY <1>1, <1>2
  <1> QED BY <1>3 DEF OnItsWay

(* and when everything was parsed nothing is on its way any more.           *)
LEMMA NothingLeft ==
    ASSUME StreamTypes, Parsed, clean > 0, NEW type \in Formats, Whole(type), Coming(type),
           read = Len(stream)
    PROVE  FALSE
  <1> DEFINE m == parse.buffer
             n == Len(m)
             k == Sent(type)
             last == Len(stream)
  <1>1. /\ m \in Seq(Byte) /\ n \in Nat
        /\ parse.state \in {"lf", "cr"} => n = read - clean
        /\ parse.state \notin {"lf", "cr"} => n = read - clean + 1
        /\ \A i \in 1..n : m[i] = stream[clean + i - 1]
        /\ \A i \in 1..n : i <= Len(k) => m[i] = k[i]
    BY Alike
  <1>2. /\ k \in Seq(Byte) /\ Len(k) \in Nat /\ IsMessage(type, k)
        /\ type \notin {"nmea", "hash"} => Len(k) = last - clean + 1
        /\ type \in {"nmea", "hash"} => /\ Len(k) + 2 = last - clean + 1
                                        /\ stream[last - 1] = CR /\ stream[last] = LF
    BY WholeIs
  <1>3. last \in Nat /\ clean \in Nat /\ read = last
    BY SegmentIs
  <1>4. parse.state # "first" /\ parse.type = type /\ ParseType
        /\ parse.name \in Nat /\ parse.remaining \in Nat
    <2>1. \A w \in Word : w \in Nat
      BY Words
    <2> QED BY <2>1 DEF Coming, Parsed, ParserTypes, ParseType
  <1>5. CASE type \in {"custom", "binary"}
    <2>1. FrameProgress
      BY <1>4, <1>5 DEF Parsed, Progress
    <2>2. parse.state \notin {"lf", "cr"}
      BY <2>1 DEF FrameProgress
    <2>3. Len(k) = n
      BY <1>1, <1>2, <1>3, <1>5, <2>2
    <2>4. /\ n >= HeaderLength + 4 /\ Len(k) = FrameEnd(k) + 4
          /\ type = "binary" => k[HeaderLength] > 0
      BY <1>2, <1>5, <2>3, FrameIs
    <2>5. HeaderLength \in Nat /\ HeaderLength > 5
      BY Sizes
    <2>6. m[HeaderLength] = k[HeaderLength] /\ m[HeaderLength] \in Nat
      <3>1. HeaderLength \in 1..n /\ HeaderLength <= Len(k)
        BY <1>1, <2>3, <2>4, <2>5
      <3>2. m[HeaderLength] \in Nat
        BY <1>4, <3>1, HeldBytes
      <3> QED BY <1>1, <3>1, <3>2
    <2> DEFINE e == FrameEnd(m)
    <2>7. e = HeaderLength + m[HeaderLength] /\ e \in Nat /\ n = e + 4
      <3>1. e = HeaderLength + m[HeaderLength] /\ FrameEnd(k) = HeaderLength + k[HeaderLength]
        BY DEF FrameEnd
      <3>2. e = FrameEnd(k)
        BY <2>6, <3>1
      <3>3. e \in Nat
        BY <2>5, <2>6, <3>1
      <3> QED BY <2>3, <2>4, <3>1, <3>2, <3>3
    <2>8. parse.state = "data" \/ (parse.state = "crc" /\ n + parse.remaining = e + 4
                                   /\ parse.remaining \in 1..4)
      BY <1>1, <2>1, <2>4, <2>5 DEF FrameProgress
    <2>9. parse.state = "data"
      <3> HIDE DEF e, n
      <3> QED BY <1>1, <2>7, <2>8
    <2>10. type = "custom" => m[HeaderLength] > 0
      BY <1>4, <2>1, <2>9 DEF FrameProgress
    <2>11. m[HeaderLength] > 0
      BY <1>5, <2>4, <2>6, <2>10
    <2>12. Remains(e, HeaderLength + 1)
      BY <2>1, <2>9 DEF FrameProgress
    <2>13. ~(e - n > 0) /\ ~(e < HeaderLength + 1)
      <3> DEFINE x == m[HeaderLength]
      <3>1. x \in Nat /\ x > 0 /\ e = HeaderLength + x /\ e \in Nat /\ n = e + 4
        BY <2>6, <2>7, <2>11
      <3> HIDE DEF e, n, x
      <3>2. x >= 1 /\ n \in Nat /\ HeaderLength \in Nat
        BY <1>1, <2>5, <3>1
      <3> QED BY <3>1, <3>2
    <2> HIDE DEF e
    <2> QED BY <2>12, <2>13 DEF Remains
  <1>6. CASE type = "rtcm"
    <2>1. RtcmProgress
      BY <1>4, <1>6 DEF Parsed, Progress
    <2>2. parse.state \notin {"lf", "cr"}
      BY <2>1 DEF RtcmProgress
    <2>3. Len(k) = n
      BY <1>1, <1>2, <1>3, <1>6, <2>2
    <2>4. n >= 9 /\ Len(k) = RtcmEnd(k) + 3 /\ RtcmEnd(k) >= 6 /\ k[2] \in Nat /\ k[3] \in Nat
      <3>1. IsMessage("rtcm", k)
        BY <1>2, <1>6
      <3> QED BY <1>2, <2>3, <3>1, RtcmIs
    <2> DEFINE e == RtcmEnd(m)
    <2>5. m[2] = k[2] /\ m[3] = k[3]
      <3>1. 2 \in 1..n /\ 2 <= Len(k) /\ 3 \in 1..n /\ 3 <= Len(k)
        BY <1>1, <2>3, <2>4
      <3> QED BY <1>1, <3>1
    <2>6. e = RtcmEnd(k)
      BY <2>5 DEF RtcmEnd
    <2>7. e \in Nat
      <3>1. RtcmEnd(k) = 3 + k[2] * 256 + k[3]
        BY DEF RtcmEnd
      <3>2. RtcmEnd(k) \in Nat
        <4> DEFINE p == k[2]
                   q == k[3]
        <4>1. p \in Nat /\ q \in Nat /\ RtcmEnd(k) = 3 + p * 256 + q
          BY <2>4, <3>1
        <4> HIDE DEF p, q
        <4> QED BY <4>1
      <3> QED BY <2>6, <3>2
    <2>8. n = e + 3 /\ e >= 6
      BY <2>3, <2>4, <2>6
    <2>9. \/ parse.state = "data" /\ Remains(e, 6)
          \/ parse.state = "crc" /\ n + parse.remaining = e + 3 /\ parse.remaining \in 1..3
      <3>1. ~(n = 1) /\ ~(n = 2) /\ ~(n = 3) /\ ~(n = 4)
        <4>1. n \in Nat /\ n >= 9
          BY <1>1, <2>4
        <4> HIDE DEF n
        <4> QED BY <4>1
      <3> QED BY <2>1, <3>1 DEF RtcmProgress
    <2>10. ~(e - n > 0) /\ ~(e < 6) /\ ~(n + parse.remaining = e + 3 /\ parse.remaining \in 1..3)
      <3> HIDE DEF e, n
      <3> QED BY <1>1, <1>4, <2>7, <2>8
    <2> HIDE DEF e
    <2> QED BY <2>9, <2>10 DEF Remains
  <1>7. CASE type \in {"nmea", "hash"}
    <2>1. PICK comma, asterisk : SentenceAt(type, k, comma, asterisk)
      BY <1>2, <1>7, SentenceIs
    <2>2. SentenceProgress
      BY <1>4, <1>7 DEF Parsed, Progress
    <2>3. CASE parse.state \in {"digits", "end", "lf", "cr"}
      <3> DEFINE left == IF parse.state = "digits" THEN parse.remaining ELSE 0
      <3>1. Closed(m, type, parse.name, left) /\ left \in Nat
        BY <1>4, <2>3, SentenceHeld
      <3>2. Len(k) = n + left
        <4> HIDE DEF left
        <4> HIDE DEF m, k
        <4> QED BY <1>1, <1>2, <1>4, <1>7, <3>1, ClosedSame DEF n
      <3>3. n >= Len(k) + 1
        BY <1>1, <1>2, <1>3, <1>7
      <3> HIDE DEF left, n
      <3> QED BY <1>1, <1>2, <3>1, <3>2, <3>3
    <2>4. CASE parse.state \in {"name", "text"}
      <3>1. n = Len(k) + 2 /\ m[n] = LF
        <4>1. n = Len(k) + 2 /\ n = last - clean + 1
          BY <1>1, <1>2, <1>3, <1>7, <2>4
        <4>2. n \in 1..n /\ clean + n - 1 = last
          BY <1>1, <1>2, <1>3, <4>1
        <4> QED BY <1>1, <1>2, <1>7, <4>1, <4>2
      <3>2. /\ comma \in 3..Len(k) /\ k[comma] = Comma
            /\ \A i \in 2..comma - 1 : k[i] \in NameBytes
            /\ asterisk \in comma + 1..Len(k) /\ k[asterisk] = Asterisk
        BY <2>1 DEF SentenceAt
      <3>3. CASE parse.state = "name"
        <4>1. n = parse.name + 1 /\ \A i \in 2..n : m[i] \in NameBytes
          BY <1>4, <2>2, <3>3 DEF SentenceProgress
        <4>2. n \in 2..n
          BY <1>1, <1>2, <3>1
        <4> QED BY <3>1, <4>1, <4>2, NotInNames
      <3>4. CASE parse.state = "text"
        <4> DEFINE c == parse.name + 2
        <4>1. /\ c \in 3..n /\ m[c] = Comma /\ \A i \in 2..c - 1 : m[i] \in NameBytes
              /\ \A i \in c..n : m[i] # Asterisk
          <5>1. c - 1 = parse.name + 1
            BY <1>4
          <5> QED BY <2>2, <3>4, <5>1 DEF SentenceProgress
        <4>2. c = comma
          <5> HIDE DEF m, k, c
          <5> QED BY <1>1, <1>2, <3>2, <4>1, SameComma DEF n
        <4>3. asterisk \in 1..n /\ asterisk \in c..n /\ asterisk <= Len(k)
          BY <1>1, <1>2, <3>1, <3>2, <4>2
        <4> QED BY <1>1, <3>2, <4>1, <4>3
      <3> QED BY <2>4, <3>3, <3>4
    <2> QED BY <2>2, <2>3, <2>4 DEF SentenceProgress
  <1> QED BY <1>5, <1>6, <1>7 DEF Formats

(* A message that begins while the parser is searching is given out once it *)
(* and what ends it were parsed, whatever came before it.                   *)
THEOREM WholeAreDelivered == Spec => []WholeMessagesDelivered
  <1>1. Init => ParserInv
    <2>1. Init => GenuineInv
      BY InitGenuine
    <2>2. Init => OnItsWay
      BY DEF Init, OnItsWay
    <2> QED BY <2>1, <2>2 DEF ParserInv
  <1>2. ParserInv /\ [Next]_vars => ParserInv'
    <2> SUFFICES ASSUME ParserInv, [Next]_vars PROVE ParserInv'
      OBVIOUS
    <2>1. StreamTypes /\ Parsed /\ DeliveredInv /\ OnItsWay
      BY InvParts DEF ParserInv
    <2>2. GenuineInv'
      BY GenuineStep DEF ParserInv
    <2>3. OnItsWay'
      <3>1. CASE Send
        BY <2>1, <3>1, SendOnItsWay
      <3>2. CASE ParseNextByte
        BY <2>1, <3>2, ByteOnItsWay
      <3>3. CASE UNCHANGED vars
        BY <2>1, <3>3 DEF vars, OnItsWay, Whole, LastSegment, Received, ToSet
      <3> QED BY <3>1, <3>2, <3>3 DEF Next
    <2> QED BY <2>2, <2>3 DEF ParserInv
  <1>3. ParserInv => WholeMessagesDelivered
    <2> SUFFICES ASSUME ParserInv, clean > 0, read = Len(stream),
                        NEW type \in ToSet(table), Whole(type)
                 PROVE  Received(type)
      BY DEF WholeMessagesDelivered
    <2>1. StreamTypes /\ Parsed /\ OnItsWay
      BY InvParts DEF ParserInv
    <2>2. ~(read < clean)
      <3>1. clean \in Nat /\ Len(stream) \in Nat /\ clean <= Len(stream)
        BY <2>1, SegmentIs
      <3> QED BY <3>1
    <2>3. Received(type) \/ Coming(type)
      BY <2>1, <2>2, OnItsWayIs
    <2>4. type \in Formats
      BY <2>1, FormatsAre
    <2> QED BY <2>1, <2>3, <2>4, NothingLeft
  <1> QED BY <1>1, <1>2, <1>3, PTL DEF Spec
=============================================================================
