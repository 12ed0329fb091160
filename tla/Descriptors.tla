---------------------------- MODULE Descriptors ----------------------------
(***************************************************************************)
(* The descriptors of DVB tables: how each decoder (dvbpsi_Decode...Dr)    *)
(* takes a payload apart and how its generator (dvbpsi_Gen...Dr) writes    *)
(* one, bit by bit.  A payload has no values here: a field is a PIECE of   *)
(* it, <<name, entry, first bit, width>>, and what matters is which piece  *)
(* owns a bit, which holds for whatever value the field has (as far as the *)
(* value fits the field).                                                  *)
(*                                                                         *)
(* Every kind is a definition of the length l of the payload and of two    *)
(* numbers p and q that the payload itself carries: lengths of its texts,  *)
(* or how many entries the generator is given.                             *)
(***************************************************************************)
EXTENDS Integers, FiniteSets, TLC

CONSTANTS Kinds,     \* the kinds of descriptor looked at
          Lengths,   \* the payload lengths a broadcaster sends
          Sizes      \* the inner lengths and counts

ASSUME DescriptorsAssumption == Lengths \subseteq 0..255 /\ Sizes \subseteq 0..255

F(name, at, width) == <<name, 0, at, width>>
Bytes(name, byte, n) == F(name, 8 * byte, 8 * n)
(* n entries of `size` bytes from `byte` on, each holding `parts`, a set of <<name, bit, width>> *)
Entries(n, byte, size, parts) ==
    {<<x[1], i, 8 * (byte + (i - 1) * size) + x[2], x[3]>> : x \in parts, i \in 1..n}

(* looks: read before the length is checked; ok: the check; reads: taken  *)
(* apart; room: entries against the array that keeps them; size and       *)
(* writes: what the generator allocates and fills in.                      *)
Decoder(looks, ok, reads, room) == [looks |-> looks, ok |-> ok, reads |-> reads, room |-> room]
Both(decoder, size, writes) == decoder @@ [size |-> size, writes |-> writes]
Only(decoder) == Both(decoder, -1, {})    \* no generator
Plain(ok, reads) == Decoder({}, ok, reads, TRUE)

VStream(l, p, q) ==      \* p: whether the stream is MPEG-2
  Both(Decoder({F("mpeg2", 5, 1)}, l = (IF p = 0 THEN 1 ELSE 3),
       {F("multiple", 0, 1), F("rate", 1, 4), F("mpeg2", 5, 1), F("constrained", 6, 1), F("still", 7, 1)}
         \cup IF p = 0 THEN {} ELSE {F("profile", 8, 8), F("chroma", 16, 2), F("extension", 18, 1)}, TRUE),
       IF p = 0 THEN 1 ELSE 3,
       {F("multiple", 0, 1), F("rate", 1, 4), F("constrained", 6, 1), F("still", 7, 1), F("mpeg2", 5, 1)}
         \cup IF p = 0 THEN {} ELSE {F("profile", 8, 8), F("chroma", 16, 2), F("extension", 18, 1)})

AStream(l, p, q) ==
  Both(Plain(l = 1, {F("free", 0, 1), F("id", 1, 1), F("layer", 2, 2)}),
       1, {F("free", 0, 1), F("id", 1, 1), F("layer", 2, 2)})

Hierarchy(l, p, q) ==
  Both(Plain(l = 4, {F("type", 4, 4), F("layer", 10, 6), F("embedded", 18, 6), F("priority", 26, 6)}),
       4, {F("type", 4, 4), F("layer", 10, 6), F("embedded", 18, 6), F("priority", 26, 6)})

(* a fixed head of four bytes and what is left behind it *)
HeadAndRest(l, p, head, name) ==
  Both(Decoder({}, ~(l < 4), head \cup {Bytes(name, 4, l - 4)}, l - 4 <= 251),
       p + 4, head \cup {Bytes(name, 4, p)})

Registration(l, p, q) == HeadAndRest(l, p, {Bytes("format", 0, 4)}, "info")
Copyright(l, p, q) == HeadAndRest(l, p, {Bytes("identifier", 0, 4)}, "info")
ConditionalAccess(l, p, q) == HeadAndRest(l, p, {Bytes("system", 0, 2), F("pid", 19, 13)}, "private")

DSAlignment(l, p, q) == Both(Plain(l = 1, {Bytes("type", 0, 1)}), 1, {Bytes("type", 0, 1)})

TargetBgGrid(l, p, q) ==
  Both(Plain(l = 4, {F("horizontal", 0, 14), F("vertical", 14, 14), F("ratio", 28, 4)}),
       4, {F("horizontal", 0, 14), F("vertical", 14, 14), F("ratio", 28, 4)})

VWindow(l, p, q) ==
  Both(Plain(l = 4, {F("horizontal", 0, 14), F("vertical", 14, 14), F("priority", 28, 4)}),
       4, {F("horizontal", 0, 14), F("vertical", 14, 14), F("priority", 28, 4)})

Languages == {<<"language", 0, 24>>, <<"audio", 24, 8>>}
ISO639(l, p, q) ==
  Both(Decoder({}, ~(l < 1) /\ l % 4 = 0, Entries(l \div 4, 0, 4, Languages), l \div 4 <= 64),
       4 * p, Entries(p, 0, 4, Languages))

(* (a generator that does not shift the exponent, for a mutant) *)
SystemClockUnshifted(l, p, q) ==
  Both(Plain(l = 2, {F("external", 0, 1), F("accuracy", 2, 6), F("exponent", 8, 3)}),
       2, {F("accuracy", 2, 6), F("external", 0, 1), F("exponent", 13, 3)})

SystemClock(l, p, q) ==
  Both(Plain(l = 2, {F("external", 0, 1), F("accuracy", 2, 6), F("exponent", 8, 3)}),
       2, {F("accuracy", 2, 6), F("external", 0, 1), F("exponent", 8, 3)})

MxBuffUtilization(l, p, q) ==
  Both(Plain(l = 3, {F("valid", 0, 1), F("delay", 1, 15), F("strategy", 16, 3)}),
       3, {F("delay", 1, 15), F("valid", 0, 1), F("strategy", 16, 3)})

MaxBitrate(l, p, q) == Both(Plain(l = 3, {F("bitrate", 2, 22)}), 3, {F("bitrate", 2, 22)})

PrivateData(l, p, q) == Both(Plain(l = 4, {Bytes("private", 0, 4)}), 4, {Bytes("private", 0, 4)})

CarouselId(l, p, q) ==
  Only(Plain(~(l < 4), {Bytes("carousel", 0, 4), Bytes("private", 4, l - 4)}))

AssociationTag(l, p, q) ==      \* p: the selector's length
  Only(Plain(~(l < 5) /\ p + 5 <= l,
             {Bytes("tag", 0, 2), Bytes("use", 2, 2), Bytes("length", 4, 1),
              Bytes("selector", 5, p), Bytes("private", 5 + p, l - (5 + p))}))

Stuffing(l, p, q) == Both(Decoder({}, TRUE, {Bytes("stuffing", 0, l)}, l <= 255), p, {Bytes("stuffing", 0, p)})
BouquetName(l, p, q) == Both(Decoder({}, TRUE, {Bytes("name", 0, l)}, l <= 255), p, {Bytes("name", 0, p)})

SatDelivSys(l, p, q) ==
  Both(Plain(TRUE, {Bytes("frequency", 0, 4), Bytes("orbital", 4, 2), F("east", 48, 1), F("polarization", 49, 2),
                    F("rolloff", 51, 2), F("system", 53, 1), F("modulation", 54, 2), F("rate", 56, 28), F("fec", 84, 4)}),
       11, {Bytes("frequency", 0, 4), Bytes("orbital", 4, 2), F("east", 48, 1), F("polarization", 49, 2),
            F("rolloff", 51, 2), F("system", 53, 1), F("modulation", 54, 2), F("rate", 56, 28), F("fec", 84, 4)})

(* p and q: the lengths of the provider's and of the service's name; a    *)
(* name that does not fit leaves the rest out.                             *)
Service(l, p, q) ==
  Both(Plain(~(l < 3),
             {Bytes("type", 0, 1), Bytes("length", 1, 1)}
               \cup (IF p + 2 > l THEN {} ELSE {Bytes("provider", 2, p)})
               \cup (IF p + 3 > l THEN {} ELSE {F("name length", 8 * (2 + p), 8)})
               \cup (IF p + 3 + q > l THEN {} ELSE {Bytes("name", 3 + p, q)})),
       3 + q + p,
       {Bytes("type", 0, 1), Bytes("length", 1, 1), Bytes("provider", 2, p),
        Bytes("name length", 2 + p, 1), Bytes("name", 3 + p, q)})

(* p and q: the lengths of the event's name and text *)
ShortEvent(l, p, q) ==
  Both(Decoder(IF l < 5 THEN {} ELSE {Bytes("length", 3, 1), Bytes("text length", 4 + p, 1)},
               ~(l < 5) /\ ~(l < 5 + p + q),
               {Bytes("language", 0, 3), Bytes("length", 3, 1), Bytes("name", 4, p),
                Bytes("text length", 4 + p, 1), Bytes("text", 4 + p + 1, q)}, TRUE),
       5 + p + q,
       {Bytes("language", 0, 3), Bytes("length", 3, 1), Bytes("name", 4, p),
        Bytes("text length", 3 + p, 1), Bytes("text", 3 + p + 1, q)})

(* p items with descriptions and values of one byte each, a text of q bytes *)
Items == {<<"description length", 0, 8>>, <<"description", 8, 8>>, <<"item length", 16, 8>>, <<"item", 24, 8>>}
ExtendedEvent(l, p, q) ==
  Both(Decoder({}, ~(l < 6),
               {F("number", 0, 4), F("last", 4, 4), Bytes("language", 1, 3), Bytes("length", 4, 1),
                Bytes("text length", 5 + 4 * p, 1), Bytes("text", 5 + 4 * p + 1, q)}
                 \cup Entries(p, 5, 4, Items), p <= 126),
       6 + 4 * p + q,
       {F("number", 0, 4), F("last", 4, 4), Bytes("language", 1, 3), Bytes("length", 4, 1),
        Bytes("text length", 4 + 4 * p, 1), Bytes("text", 4 + 4 * p + 1, q)}
         \cup Entries(p, 4, 4, Items))

StreamIdentifier(l, p, q) == Both(Plain(~(l < 1), {Bytes("tag", 0, 1)}), 1, {Bytes("tag", 0, 1)})

Ratings == {<<"country", 0, 24>>, <<"rating", 24, 8>>}
ParentalRating(l, p, q) ==
  Both(Decoder({}, l % 4 = 0, Entries(l \div 4, 0, 4, Ratings), l \div 4 <= 64),
       4 * p, Entries(p, 0, 8, Ratings))

Pages == {<<"language", 0, 24>>, <<"type", 24, 5>>, <<"magazine", 29, 3>>, <<"page", 32, 8>>}
Teletext(l, p, q) ==
  Both(Decoder({}, ~(l < 3) /\ l % 5 = 0, Entries(l \div 5, 0, 5, Pages), l \div 5 <= 64),
       8 * p, Entries(p, 0, 8, Pages))

(* the generator writes the low bytes of the two page numbers modulo 255 *)
Subtitling(l, p, q) ==
  Both(Decoder({}, ~(l < 3) /\ l % 8 = 0,
               Entries(l \div 8, 0, 8, {<<"language", 0, 24>>, <<"type", 24, 8>>, <<"composition", 32, 16>>,
                                        <<"ancillary", 48, 16>>}), l \div 8 <= 20),
       8 * p, Entries(p, 0, 8, {<<"language", 0, 24>>, <<"type", 24, 8>>, <<"composition", 32, 8>>,
                                <<"composition % 255", 40, 8>>, <<"ancillary", 48, 8>>, <<"ancillary % 255", 56, 8>>}))

TerrDelivSys(l, p, q) ==
  Both(Plain(TRUE, {Bytes("frequency", 0, 4), F("bandwidth", 32, 3), F("priority", 35, 1), F("slice", 36, 1),
                    F("mpe", 37, 1), F("constellation", 40, 2), F("hierarchy", 42, 3), F("hp", 45, 3), F("lp", 48, 3),
                    F("guard", 51, 2), F("mode", 53, 2), F("other", 55, 1)}),
       11, {Bytes("frequency", 0, 4), F("bandwidth", 32, 3), F("priority", 35, 1), F("slice", 36, 1),
            F("mpe", 37, 1), F("constellation", 40, 2), F("hierarchy", 42, 3), F("hp", 45, 3), F("lp", 48, 3),
            F("guard", 51, 2), F("mode", 53, 2), F("other", 55, 1)})

FrequencyList(l, p, q) ==
  Only(Decoder({}, l % 4 = 1,
               {F("coding", 6, 2)} \cup Entries((l - 1) \div 4, 1, 4, {<<"frequency", 0, 32>>}), (l - 1) \div 4 <= 63))

DataBroadcastId(l, p, q) == Only(Plain(~(l < 2), {Bytes("id", 0, 2), Bytes("selector", 2, l - 2)}))

PDC(l, p, q) ==
  Both(Plain(l = 3, {F("day", 4, 5), F("month", 9, 4), F("hour", 13, 5), F("minute", 18, 6)}),
       3, {F("day", 4, 5), F("month", 9, 4), F("hour", 13, 5), F("minute", 18, 6)})

DefaultAuthority(l, p, q) == Only(Decoder({}, TRUE, {Bytes("authority", 0, l)}, l + 1 <= 255))

(* entries until the payload is used up, all alike: references (q = 0), or *)
(* paths of p bytes; another kind of entry refuses the descriptor.         *)
ContentId(l, p, q) ==
  LET size == IF q = 0 THEN 3 ELSE 2 + p
      n == (l + size - 1) \div size
  IN Only(Decoder({}, TRUE,
                  Entries(n, 0, size, {<<"type", 0, 6>>, <<"location", 6, 2>>, <<"value", 8, 8 * (size - 1)>>}),
                  n <= 85))

LCN(l, p, q) ==
  Only(Decoder({}, l % 4 = 0,
               Entries(l \div 4, 0, 4, {<<"service", 0, 16>>, <<"visible", 16, 1>>, <<"number", 22, 10>>}), l \div 4 <= 64))

Coding(kind, l, p, q) ==
    CASE kind = "vstream" -> VStream(l, p, q) [] kind = "astream" -> AStream(l, p, q)
      [] kind = "hierarchy" -> Hierarchy(l, p, q) [] kind = "registration" -> Registration(l, p, q)
      [] kind = "alignment" -> DSAlignment(l, p, q) [] kind = "grid" -> TargetBgGrid(l, p, q)
      [] kind = "window" -> VWindow(l, p, q) [] kind = "ca" -> ConditionalAccess(l, p, q)
      [] kind = "iso639" -> ISO639(l, p, q) [] kind = "clock" -> SystemClock(l, p, q)
      [] kind = "buffer" -> MxBuffUtilization(l, p, q) [] kind = "copyright" -> Copyright(l, p, q)
      [] kind = "bitrate" -> MaxBitrate(l, p, q) [] kind = "private" -> PrivateData(l, p, q)
      [] kind = "carousel" -> CarouselId(l, p, q) [] kind = "association" -> AssociationTag(l, p, q)
      [] kind = "stuffing" -> Stuffing(l, p, q) [] kind = "satellite" -> SatDelivSys(l, p, q)
      [] kind = "bouquet" -> BouquetName(l, p, q) [] kind = "service" -> Service(l, p, q)
      [] kind = "short event" -> ShortEvent(l, p, q) [] kind = "extended event" -> ExtendedEvent(l, p, q)
      [] kind = "stream" -> StreamIdentifier(l, p, q) [] kind = "rating" -> ParentalRating(l, p, q)
      [] kind = "teletext" -> Teletext(l, p, q) [] kind = "subtitling" -> Subtitling(l, p, q)
      [] kind = "terrestrial" -> TerrDelivSys(l, p, q) [] kind = "frequencies" -> FrequencyList(l, p, q)
      [] kind = "broadcast" -> DataBroadcastId(l, p, q) [] kind = "pdc" -> PDC(l, p, q)
      [] kind = "authority" -> DefaultAuthority(l, p, q) [] kind = "content" -> ContentId(l, p, q)
      [] kind = "lcn" -> LCN(l, p, q)

VARIABLES descriptor,   \* the descriptor at hand: its kind, length, inner numbers and the pieces in its payload
          decoded       \* what p_decoded holds: the fields, and those of them not taken from their own bits

vars == <<descriptor, decoded>>
None == [kind |-> "none"]

(* the piece has its bits in the payload to itself *)
Intact(piece, pieces) ==
    \A b \in piece[3]..piece[3] + piece[4] - 1 :
        {<<x[1], x[2], b - x[3]>> : x \in {x \in pieces : b \in x[3]..x[3] + x[4] - 1}}
            = {<<piece[1], piece[2], b - piece[3]>>}
Field(piece) == <<piece[1], piece[2]>>

Init == descriptor = None /\ decoded = None

(* A generator makes a descriptor of decoded data; b_duplicate leaves a   *)
(* copy of the data with it.                                               *)
Generate(kind, p, q, duplicate) ==
    LET c == Coding(kind, 0, p, q) IN
    /\ descriptor = None /\ c.size \in 0..255
    /\ descriptor' = [kind |-> kind, l |-> c.size, p |-> p, q |-> q, own |-> TRUE, pieces |-> c.writes]
    /\ decoded' = IF duplicate THEN [kind |-> kind, fields |-> {Field(x) : x \in c.writes}, lost |-> {}] ELSE None

(* A table's decoder adds a descriptor it has received (NewDescriptor). *)
Receive(kind, l, p, q) ==
    /\ descriptor = None
    /\ descriptor' = [kind |-> kind, l |-> l, p |-> p, q |-> q, own |-> FALSE, pieces |-> {}]
    /\ UNCHANGED decoded

(* A decoder; what was decoded before is handed out again. *)
Decode ==
    LET c == Coding(descriptor.kind, descriptor.l, descriptor.p, descriptor.q) IN
    /\ descriptor # None
    /\ c.ok \/ decoded # None
    /\ decoded' = IF decoded # None THEN decoded
                  ELSE [kind |-> descriptor.kind, fields |-> {Field(x) : x \in c.reads},
                        lost |-> IF descriptor.own THEN {Field(x) : x \in {x \in c.reads : ~Intact(x, descriptor.pieces)}}
                                 ELSE {}]
    /\ UNCHANGED descriptor

Delete == descriptor # None /\ descriptor' = None /\ decoded' = None

Next ==
    \/ \E kind \in Kinds, p, q \in Sizes : Generate(kind, p, q, TRUE) \/ Generate(kind, p, q, FALSE)
    \/ \E kind \in Kinds, l \in Lengths, p, q \in Sizes : Receive(kind, l, p, q)
    \/ Decode
    \/ Delete

Spec == Init /\ [][Next]_vars
-----------------------------------------------------------------------------
(* Kinds whose generator and decoder do not agree, and those that look at *)
(* more than they were given or keep more than there is room for.         *)
Divergent == {"short event", "extended event", "rating", "teletext", "subtitling"}
Unchecked == {"vstream", "satellite", "terrestrial", "short event", "extended event", "content"}
Overfull == {"subtitling", "authority", "content"}

(* What a generator was given is what its decoder tells: of every field,  *)
(* whatever its value and the lengths of the texts, all the bits come      *)
(* back, and no field is missing, whether the data was duplicated or not.  *)
(* (Of a list without entries nothing can come back.)                      *)
GeneratedIsDecoded ==
    (descriptor # None /\ descriptor.own /\ descriptor.kind \notin Divergent) =>
        /\ Coding(descriptor.kind, descriptor.l, descriptor.p, descriptor.q).ok \/ descriptor.l = 0
        /\ \A x \in descriptor.pieces : x[3] + x[4] <= 8 * descriptor.l
        /\ decoded # None => /\ decoded.lost = {}
                             /\ decoded.fields = {Field(x) : x \in descriptor.pieces}

(* A decoder looks at no byte behind the payload it was handed, whatever  *)
(* the lengths in it say, and what it keeps fits its structure.            *)
ReadsWithin ==
    descriptor # None =>
        LET c == Coding(descriptor.kind, descriptor.l, descriptor.p, descriptor.q) IN
        /\ descriptor.kind \notin Unchecked =>
               \A x \in c.looks \cup (IF c.ok THEN c.reads ELSE {}) : x[3] + x[4] <= 8 * descriptor.l
        /\ (descriptor.kind \notin Overfull /\ c.ok) => c.room
=============================================================================
