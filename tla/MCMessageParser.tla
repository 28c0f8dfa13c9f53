--------------------------- MODULE MCMessageParser ---------------------------
(* Headers of 6 bytes and a buffer of 16 keep every limit of the formats    *)
(* within reach: messages that fill the buffer, that would not fit, and     *)
(* that announce more than they hold.                                       *)
EXTENDS MessageParser

Frame(type, data) ==
    LET head == <<A, B, IF type = "custom" THEN CustomC ELSE UnicoreC, 0, 1, Len(data)>> \o data
    IN  head \o CrcOf(type, head)

Rtcm(data) ==
    LET head == <<D3, 0, Len(data)>> \o data IN head \o CrcOf("rtcm", head)

Hex(n) == IF n < 10 THEN 48 + n ELSE 55 + n

HexDigits(value, count) ==
    [i \in 1..count |-> IF i = count THEN Hex(value % 16)
                        ELSE IF i = count - 1 THEN Hex(value \div 16) ELSE 48]

Sentence(start, name, data) ==
    LET text == name \o <<Comma>> \o data
        digits == IF start = Dollar \/ IsMode(name) THEN 2 ELSE 8
    IN  <<start>> \o text \o <<Asterisk>> \o HexDigits(SumOf(text), digits) \o <<CR, LF>>

Cut(bytes, n) == SubSeq(bytes, 1, Len(bytes) - n)
Damaged(bytes) == [bytes EXCEPT ![7] = (@ + 1) % 256]

MODE == <<77, 79, 68, 69>>

MCSegments ==
    {Frame("custom", <<>>), Frame("custom", <<D3, 5>>), Frame("custom", <<1, 2, 3, 4, 5, 6, 7>>),
     Cut(Frame("custom", <<1>>), 3), Damaged(Frame("custom", <<9, 9>>)),
     Frame("binary", <<7>>), Frame("binary", <<>>), Damaged(Frame("binary", <<9, 9>>)),
     Rtcm(<<4, 5, A>>), Rtcm(<<4, 5>>), Cut(Rtcm(<<4, 5, 6>>), 1), Damaged(Rtcm(<<4, 5, 6>>)),
     Sentence(Dollar, <<71>>, <<1, 2>>), Sentence(Dollar, <<71, 71>>, <<1, 2, 3, 4, 5, 6>>),
     Sentence(Dollar, <<71>>, <<1, 2, 3, 4, 5, 6, 7, 8>>), Damaged(Sentence(Dollar, <<71>>, <<>>)),
     Cut(Sentence(Dollar, <<71>>, <<1>>), 2), Cut(Sentence(Dollar, <<71>>, <<1>>), 4),
     Sentence(Hash, <<71>>, <<3>>), Sentence(Hash, <<71>>, <<3, 3>>), Sentence(Hash, MODE, <<8>>),
     <<A>>, <<A, B>>, <<D3>>, <<LF>>, <<0, Hash, Hash>>}
=============================================================================
