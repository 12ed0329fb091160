-------------------------------- MODULE Text --------------------------------
(***************************************************************************)
(* The texts of event information: DVB texts in one of many character      *)
(* sets, Freesat's Huffman codes, the multiple strings of ATSC, and their  *)
(* printing as XML.                                                        *)
(*                                                                         *)
(* One text is converted at a time.  What one conversion leaves for the    *)
(* next is kept: the open converter of dvbtext.c and its mutex, and the    *)
(* buffers of atsctext.c.  A converted character is <<set, code>>.         *)
(***************************************************************************)
EXTENDS Integers, SequencesExt

CONSTANTS Tree,        \* Huffman codes: after a character, from bits to the next one
          DVBTexts,    \* the texts to convert: sequences of bytes,
          FreesatTexts, \* sequences of characters, to be encoded first, perhaps cut short,
          ATSCTexts,   \* sequences of segments [mode, compression, bytes], the bytes to be encoded first,
          XmlTexts,    \* and sequences of code points
          TextRoom,    \* sizeof(TextBuffer) of atsctext.c, 1024 in the code
          Decompressed, \* sizeof(DecompressionBuffer), 512 in the code
          XmlRoom      \* the size of the buffer of PrintXmlified, 256 in the code

VARIABLES iso6937,     \* whether iconv knows ISO 6937
          converter,   \* the open converter of dvbtext.c: the announced set, the one opened
          locked,      \* ResultBufferMutex is held for ever
          textBuffer,  \* TextBuffer of atsctext.c
          unpacked,    \* DecompressionBuffer of atsctext.c
          text         \* the last text: how it was converted, what it is, the result, whether
                       \* all was written inside the buffers

textVars == <<iso6937, converter, locked, textBuffer, unpacked, text>>
NoSet == <<"none", 0>>
-----------------------------------------------------------------------------
(* DVB.  The first byte announces the character set; a longer              *)
(* announcement has two more bytes, of which only the part of ISO 8859     *)
(* counts.                                                                 *)
Announced(bytes) ==
    LET lead == Head(bytes)
    IN CASE lead >= 32 -> <<"ISO6937", 0>>
         [] lead \in 1..5 -> <<"ISO8859", lead + 4>>
         [] lead = 16 -> <<"ISO8859", bytes[3]>>
         [] lead = 17 -> <<"ISO10646", 0>>
         [] OTHER -> NoSet
Payload(bytes) ==
    LET lead == Head(bytes)
    IN IF lead >= 32 THEN bytes ELSE IF lead = 16 THEN SubSeq(bytes, 4, Len(bytes)) ELSE Tail(bytes)

(* what iconv_open opens for a set: ISO 6937 has a substitute, ISO 10646   *)
(* is taken for UTF-8, and there are fifteen parts of ISO 8859             *)
Opened(set) ==
    CASE set[1] = "ISO6937" /\ ~iso6937 -> <<"ISO8859", 1>>
      [] set[1] = "ISO10646" -> <<"UTF8", 0>>
      [] set[1] = "ISO8859" /\ set[2] \notin 1..15 -> NoSet
      [] OTHER -> set

(* iconv, external: one character for each byte, none for 255; a byte      *)
(* above 127 alone is no UTF-8                                             *)
Decodable(set, bytes) ==
    \A i \in DOMAIN bytes : bytes[i] # 255 /\ (set[1] = "UTF8" => bytes[i] < 128)

(* (the converter is kept, whatever the next text announces, for a mutant) *)
ReopenFirstOnly(set) == converter.for = NoSet

(* whether a converter must be opened *)
Reopens(set) == converter.for = NoSet \/ converter.for # set

(* A converter that cannot be opened ends the call with the mutex held.    *)
(* The characters ISO 6937 adds to ASCII are stripped only from the text   *)
(* that opens its substitute.                                              *)
DVBTextToUTF8(bytes) ==
    LET set == Announced(bytes)
        opened == IF Reopens(set) THEN [for |-> set, cd |-> Opened(set)] ELSE converter
        ascii == Reopens(set) /\ set[1] = "ISO6937" /\ ~iso6937
        payload == IF ascii THEN SelectSeq(Payload(bytes), LAMBDA b : b < 128) ELSE Payload(bytes)
        ok == opened.cd # NoSet /\ Decodable(opened.cd, payload)
    IN IF set = NoSet
       THEN /\ text' = [how |-> "DVB", given |-> bytes, ok |-> FALSE, got |-> <<>>, inside |-> TRUE]
            /\ UNCHANGED <<converter, locked>>
       ELSE /\ ~locked
            /\ converter' = opened
            /\ locked' = (opened.cd = NoSet)
            /\ text' = [how |-> "DVB", given |-> bytes, ok |-> ok,
                        got |-> IF ok THEN [i \in DOMAIN payload |-> <<opened.cd, payload[i]>>] ELSE <<>>,
                        inside |-> TRUE]
-----------------------------------------------------------------------------
(* Huffman codes.  Byte is a raw byte behind an escape; the reader of a    *)
(* bit beyond the end gets 0.                                              *)
Stop == 0
Escape == 1      \* 27 in atsctext.c
Bit(bits, i) == IF i <= Len(bits) THEN bits[i] ELSE 0
Byte(bits, at) == FoldLeft(LAMBDA v, i : v * 2 + Bit(bits, at + i - 1), 0, [i \in 1..8 |-> i])
RawBits(b) == [i \in 1..8 |-> (b \div 2 ^ (8 - i)) % 2]
Matching(bits, at, last) ==
    IF last \notin DOMAIN Tree THEN {}
    ELSE {code \in DOMAIN Tree[last] : \A i \in DOMAIN code : Bit(bits, at + i - 1) = code[i]}

(* the encoder these texts come from, external: an escape in front of every *)
(* character without a code, or, with `stays`, of a run up to ASCII         *)
RECURSIVE Encode(_, _, _)
Encode(chars, last, stays) ==
    IF chars = <<>> THEN <<>>
    ELSE LET ch == Head(chars)
             code(c) == CHOOSE bits \in DOMAIN Tree[last] : Tree[last][bits] = c
             raw == last = Escape
         IN IF raw THEN RawBits(ch) \o Encode(Tail(chars), IF stays /\ ch > 127 THEN Escape ELSE ch, stays)
            ELSE IF \E bits \in DOMAIN Tree[last] : Tree[last][bits] = ch
                 THEN code(ch) \o Encode(Tail(chars), ch, stays)
                 ELSE code(Escape) \o Encode(chars, Escape, stays)
Padded(bits) == bits \o [i \in 1..((8 - (Len(bits) % 8)) % 8) |-> 0]

(* the room for one more character at p *)
Grow(p, room) == IF p >= room THEN p + 10 ELSE room

(* freesat_huffman_to_string: p characters are out, in a buffer of         *)
(* room + 1; size counts the two bytes in front of the code.               *)
RECURSIVE Freesat(_, _, _, _, _, _, _)
Freesat(bits, size, at, last, out, room, inside) ==
    LET byte == (IF size < 6 THEN size ELSE 6) + (at - 1) \div 8
        codes == IF last = Escape \/ (last = Stop /\ at > 1) THEN {}
                 ELSE Matching(bits, at, last)
        raw == Byte(bits, at)
        next == IF last = Escape THEN IF raw < 32 THEN Stop ELSE raw
                ELSE Tree[last][CHOOSE code \in codes : TRUE]
        after == IF last = Escape THEN at + 8 ELSE at + Len(CHOOSE code \in codes : TRUE)
        prints == next \notin {Stop, Escape}
        grown == IF prints THEN Grow(Len(out), room) ELSE room
    IN IF at > 1 /\ (last = Stop \/ byte >= size + 4) THEN [out |-> out, inside |-> inside]
       ELSE IF last # Escape /\ codes = {} THEN [out |-> out \o <<46, 46, 46>>, inside |-> inside]
       ELSE Freesat(bits, size, after, IF last = Escape /\ raw > 127 THEN Escape ELSE next,
                    IF prints THEN Append(out, next) ELSE out, grown,
                    inside /\ (prints => Len(out) < grown + 1))

(* cut: bytes lost at the end *)
FreesatText(chars, cut) ==
    LET all == Padded(Encode(Append(chars, Stop), Stop, TRUE))
        bits == SubSeq(all, 1, Len(all) - 8 * cut)
        size == 2 + Len(bits) \div 8
        decoded == Freesat(bits, size, 1, Stop, <<>>, size * 3, TRUE)
    IN /\ text' = [how |-> "Freesat", given |-> <<chars, cut>>, ok |-> TRUE, got |-> decoded.out, inside |-> decoded.inside]
       /\ UNCHANGED <<converter, locked, textBuffer, unpacked>>
-----------------------------------------------------------------------------
(* ATSC.  HuffmanDecode writes over what the buffer holds and ends, at the *)
(* latest, with the source; only the character 0, or a full buffer, ends   *)
(* the text it leaves there.                                               *)
Put(buffer, i, x) == [buffer EXCEPT ![i] = x]
RECURSIVE HuffmanDecode(_, _, _, _, _)
HuffmanDecode(bits, at, last, n, buffer) ==
    LET codes == Matching(bits, at, last)
        code == CHOOSE c \in codes : TRUE
        escaped == Tree[last][code] = Escape
        c == IF escaped THEN Byte(bits, at + Len(code)) ELSE Tree[last][code]
        after == at + Len(code) + (IF escaped THEN 8 ELSE 0)
        put == Put(buffer, n + 1, c)
    IN IF at > Len(bits) \/ last > 127 \/ codes = {} THEN buffer
       ELSE IF \A d \in codes : at + Len(d) - 1 > Len(bits) THEN buffer
       ELSE IF n + 1 = Decompressed - 1 THEN Put(buffer, n + 1, 0)
       ELSE IF c = 0 THEN put
       ELSE HuffmanDecode(bits, after, c, n + 1, put)

(* the characters in front of the first 0 *)
Cut(buffer, zero) ==
    LET ends == {i \in DOMAIN buffer : buffer[i] = zero}
    IN IF ends = {} THEN buffer ELSE SubSeq(buffer, 1, (CHOOSE i \in ends : \A j \in ends : i <= j) - 1)

Supported(mode) == mode \in 0..6 \cup {9, 10} \cup 14..16 \cup 32..39 \cup 48..51 \cup {63, 255}

(* what a segment hands to iconv: two bytes a character, the mode being    *)
(* the first; or the decompressed text as it is                            *)
Units(segment, buffer) ==
    IF segment.compression = 0 THEN [i \in DOMAIN segment.bytes |-> <<segment.mode, segment.bytes[i]>>]
    ELSE LET s == Cut(buffer, 0)
         IN [i \in 1..((Len(s) + 1) \div 2) |-> IF 2 * i <= Len(s) THEN <<s[2 * i - 1], s[2 * i]>> ELSE <<s[2 * i - 1]>>]

(* iconv, external: until the room is full, a unit is half, or one of no   *)
(* ASCII character meets the converter from UCS-2 to ASCII (mode 255)      *)
Convertible(segment, unit) == Len(unit) = 2 /\ (segment.mode = 255 => unit[1] = 0 /\ unit[2] < 128)
Converted(segment, units, room) ==
    LET bad == {i \in DOMAIN units : i > room \/ ~Convertible(segment, units[i])}
    IN IF bad = {} THEN units ELSE SubSeq(units, 1, (CHOOSE i \in bad : \A j \in bad : i <= j) - 1)

(* (every segment is written to the start, for a mutant) *)
AppendAtStart(a, segment) == 0

(* where the next segment is put *)
AppendAt(a, segment) == a.index

(* a: the buffers, the index of the next character, whether all segments   *)
(* are supported so far, whether nothing was written outside.  A failed    *)
(* conversion leaves what it has written, without an end.                  *)
AppendSegment(a, segment) ==
    LET supported == a.supported /\ Supported(segment.mode) /\ segment.compression \in 0..2
        unpack == IF segment.compression = 0 THEN a.unpacked
                  ELSE HuffmanDecode(Padded(Encode(segment.bytes, Stop, FALSE)), 1, Stop, 0, a.unpacked)
        at == AppendAt(a, segment)
        units == Units(segment, unpack)
        done == Converted(segment, units, TextRoom - at)
        written == [i \in DOMAIN a.buffer |-> IF i - at \in DOMAIN done THEN done[i - at] ELSE a.buffer[i]]
        end == at + Len(done)
    IN IF ~supported THEN [a EXCEPT !.supported = FALSE]
       ELSE IF done # units THEN [a EXCEPT !.buffer = written, !.unpacked = unpack]
       ELSE [a EXCEPT !.buffer = IF end < TextRoom THEN Put(written, end + 1, <<>>) ELSE written,
                      !.unpacked = unpack, !.index = end, !.inside = @ /\ end < TextRoom]

(* one of the strings; a text without an end goes on behind the buffer *)
ATSCMultipleStringsConvert(segments) ==
    LET start == [buffer |-> Put(textBuffer, 1, <<>>), unpacked |-> unpacked, index |-> 0,
                  supported |-> TRUE, inside |-> TRUE]
        a == FoldLeft(AppendSegment, start, segments)
    IN /\ text' = [how |-> "ATSC", given |-> segments,
                   ok |-> a.supported, got |-> Cut(a.buffer, <<>>),
                   inside |-> a.inside /\ (a.supported => \E i \in DOMAIN a.buffer : a.buffer[i] = <<>>)]
       /\ textBuffer' = a.buffer /\ unpacked' = a.unpacked
       /\ UNCHANGED <<converter, locked>>
-----------------------------------------------------------------------------
(* Printing.  The decoders above hand on UTF-8; it is read again one code  *)
(* point at a time.                                                        *)
UTF8_wc_toutf8(ch) ==
    LET tail(n) == 128 + ((ch \div 64 ^ n) % 64)
    IN CASE ch < 2 ^ 7 -> <<ch>>
         [] ch \in 2 ^ 7..(2 ^ 11 - 1) -> <<ch \div 64 + 192, tail(0)>>
         [] ch \in 2 ^ 11..(2 ^ 16 - 1) -> <<ch \div 64 ^ 2 + 224, tail(1), tail(0)>>
         [] ch \in 2 ^ 16..(17 * 2 ^ 16 - 1) -> <<ch \div 64 ^ 3 + 240, tail(2), tail(1), tail(0)>>
         [] OTHER -> <<>>

OffsetsFromUTF8 == <<0, 12416, 925824, 63447168>>   \* 0x3080, 0xE2080, 0x3C82080
Starts(b) == (b \div 64) # 2
Units8(s, i) ==   \* how many bytes the code point at i has
    LET ends == {j \in (i + 1)..Len(s) : Starts(s[j])}
    IN (IF ends = {} THEN Len(s) + 1 ELSE CHOOSE j \in ends : \A k \in ends : j <= k) - i
UTF8_nextchar(s, i) ==
    LET n == Units8(s, i)
    IN FoldLeft(LAMBDA v, j : v * 64 + s[j], 0, [j \in 1..n |-> i + j - 1]) - OffsetsFromUTF8[n]

Entity(ch) == CASE ch = 38 -> <<"&amp;", 5>> [] ch = 60 -> <<"&lt;", 4>> [] ch = 62 -> <<"&gt;", 4>>
                [] OTHER -> <<UTF8_wc_toutf8(ch), Len(UTF8_wc_toutf8(ch))>>

(* the buffer is printed before an item it has no room for *)
Flush(length, index) == length + index >= XmlRoom - 1

(* index: bytes in the buffer; a 0 is kept behind them *)
RECURSIVE PrintXmlified(_, _, _, _, _)
PrintXmlified(s, i, out, index, inside) ==
    IF i > Len(s) THEN [out |-> out, inside |-> inside]
    ELSE LET item == Entity(UTF8_nextchar(s, i))
             at == IF Flush(item[2], index) THEN 0 ELSE index
         IN PrintXmlified(s, i + Units8(s, i), Append(out, item[1]), at + item[2],
                          inside /\ at + item[2] < XmlRoom)

PrintText(points) ==
    LET p == PrintXmlified(FlattenSeq([i \in DOMAIN points |-> UTF8_wc_toutf8(points[i])]), 1, <<>>, 0, TRUE)
    IN /\ text' = [how |-> "XML", given |-> points, ok |-> TRUE, got |-> p.out, inside |-> p.inside]
       /\ UNCHANGED <<converter, locked, textBuffer, unpacked>>
-----------------------------------------------------------------------------
TextInit ==
    /\ iso6937 \in BOOLEAN
    /\ converter = [for |-> NoSet, cd |-> NoSet]
    /\ locked = FALSE
    /\ textBuffer = [i \in 1..TextRoom |-> <<>>]
    /\ unpacked = [i \in 1..Decompressed |-> 0]
    /\ text = [how |-> "none"]

(* Texts of two kinds share nothing, and a text of Freesat's or a printed  *)
(* one is not affected by the one before: a behaviour is of one kind.      *)
Follows(how) == text.how = "none" \/ text.how = how
TextNext ==
    /\ UNCHANGED iso6937
    /\ \/ \E bytes \in DVBTexts : Follows("DVB") /\ DVBTextToUTF8(bytes) /\ UNCHANGED <<textBuffer, unpacked>>
       \/ \E segments \in ATSCTexts : Follows("ATSC") /\ ATSCMultipleStringsConvert(segments)
       \/ \E chars \in FreesatTexts, cut \in 0..1 : text.how = "none" /\ FreesatText(chars, cut)
       \/ \E points \in XmlTexts : text.how = "none" /\ PrintText(points)
       \/ /\ text.how \in {"Freesat", "XML"} /\ text' = [how |-> "none"]
          /\ UNCHANGED <<converter, locked, textBuffer, unpacked>>
-----------------------------------------------------------------------------
(* Properties.                                                             *)

(* the exceptions *)
Misread(bytes) == Head(bytes) = 17                     \* UCS-2 is read as UTF-8
Substituted(bytes) ==                                  \* ISO 6937 has no converter
    Head(bytes) >= 32 /\ ~iso6937 /\ \E i \in DOMAIN bytes : bytes[i] > 127
Unreadable(bytes) == LET set == Announced(bytes) IN set = NoSet \/ Opened(set) = NoSet \/ ~Decodable(set, Payload(bytes))
(* of ATSC, only uncompressed segments of a page of Unicode are right: the *)
(* decompressed text is taken for UCS-2, UTF-16 gets the mode between its  *)
(* bytes, and ASCII is converted from UCS-2 instead                        *)
OfAPage(segment) == segment.compression = 0 /\ segment.mode \notin {63, 255}
Ends(segment) ==
    /\ segment.compression \in 1..2 /\ Len(segment.bytes) < Decompressed
    /\ \A i \in DOMAIN segment.bytes : segment.bytes[i] < 128 /\ (segment.bytes[i] = 0) = (i = Len(segment.bytes))
Meant(segment) ==
    LET b == segment.bytes
    IN IF segment.mode = 63 THEN [i \in 1..(Len(b) \div 2) |-> <<b[2 * i - 1], b[2 * i]>>]
       ELSE [i \in DOMAIN b |-> <<IF segment.mode = 255 THEN 0 ELSE segment.mode, b[i]>>]

Faithful ==
    LET given == text.given
    IN CASE text.how = "DVB" /\ ~Misread(given) /\ ~Substituted(given) ->
              /\ text.ok = ~Unreadable(given)
              /\ text.ok => text.got = [i \in DOMAIN Payload(given) |-> <<Opened(Announced(given)), Payload(given)[i]>>]
         [] text.how = "Freesat" -> given[2] = 0 => text.got = given[1]
         [] text.how = "ATSC" /\ \A i \in DOMAIN given : OfAPage(given[i]) ->
              LET meant == FlattenSeq([i \in DOMAIN given |-> Meant(given[i])])
              IN /\ text.ok = \A i \in DOMAIN given : Supported(given[i].mode)
                 /\ (text.ok /\ Len(meant) < TextRoom) => text.got = meant
         [] text.how = "ATSC" /\ Ends(Last(given)) -> Cut(unpacked, 0) = Front(Last(given).bytes)
         [] text.how = "XML" -> text.got = [i \in DOMAIN given |-> Entity(given[i])[1]]
         [] OTHER -> TRUE

Inside ==
    (text.how # "none" /\ ~text.inside)
        => /\ text.how = "ATSC"
           /\ \A i \in DOMAIN textBuffer : textBuffer[i] # <<>>

(* A converted text is the text that was sent, in the character set it     *)
(* announces, whichever texts were converted before it: the converter and  *)
(* the buffers one conversion leaves behind never colour the next; and a   *)
(* compressed text that ends with a 0 is decompressed to itself.  The      *)
(* exceptions are those above; a DVB text of which a set cannot be opened  *)
(* is also the last one, for the mutex stays held.                         *)
(*                                                                         *)
(* Nothing is written outside the buffers, nor is a text without an end    *)
(* read past them, unless an ATSC text fills the buffer to the last byte:  *)
(* then the end is put behind it, or missing.                              *)
TextsDecoded == Faithful /\ Inside

=============================================================================
