---------------------------- MODULE TableCoding ----------------------------
(***************************************************************************)
(* The generators and the decoders of the tables.                          *)
(*                                                                         *)
(* A generator (dvbpsi_Gen...Sections) packs a table's programs, entries   *)
(* and descriptors into sections of at most Capacity bytes.  Of a          *)
(* descriptor only its length counts; a table is its own descriptors and   *)
(* a sequence of entries, each the sequence of its descriptors.            *)
(*                                                                         *)
(* A decoder (dvbpsi_Decode...Sections) walks through a payload whose      *)
(* length fields may say anything: the walk below chooses what it reads.   *)
(***************************************************************************)
EXTENDS Descriptors, SequencesExt

CONSTANTS Capacity,    \* the size of a section, 1024 in the code
          MaxPrograms, \* the limit on programs in a PAT section, 253 in the code
          Tables,      \* the tables to generate: [kind, head, entries]
          Payloads,    \* the lengths of the payloads to decode
          Says         \* what a length field of a payload may say

VARIABLES sections,   \* the sections a generator has made, of which table
          walk        \* the decoder at work: table, payload length n, position at, end of the
                      \* descriptors at hand, end of the loop around them, entries still to come;
                      \* what it has read last and where that ends

tvars == <<sections, walk>>
Idle == [table |-> "none"]
-----------------------------------------------------------------------------
(* Generators.  size: bytes written, its 3 byte start included, CRC not.   *)
Section(base) == [head |-> <<>>, entries |-> <<>>, size |-> base]
OnLast(ss, F_(_)) == [ss EXCEPT ![Len(ss)] = F_(@)]

(* (without the two bytes in front of a descriptor, for a mutant) *)
AddHeadTight(ss, d, base) ==
    LET put(s) == [s EXCEPT !.head = Append(@, d), !.size = @ + d + 2]
    IN IF Last(ss).size + d > Capacity - 4 THEN Append(ss, put(Section(base))) ELSE OnLast(ss, put)

(* a descriptor of the table itself, in a new section if it does not fit *)
AddHead(ss, d, base) ==
    LET put(s) == [s EXCEPT !.head = Append(@, d), !.size = @ + d + 2]
    IN IF Last(ss).size + d > Capacity - 6 THEN Append(ss, put(Section(base))) ELSE OnLast(ss, put)

(* how many descriptors of an entry are counted, until they have passed   *)
(* the section's end, and what they and the entry's own bytes make         *)
Counted(es, start) ==
    FoldLeft(LAMBDA c, d : IF c.n = Len(es) \/ start + c.length > Capacity - 4 THEN c
                           ELSE [n |-> c.n + 1, length |-> c.length + d + 2],
             [n |-> 0, length |-> 5], es)
(* the descriptors that fit behind `size` bytes; the first that does not ends it *)
Fitting(es, size) ==
    FoldLeft(LAMBDA c, d : IF c.full \/ c.size + d > Capacity - 6 THEN [c EXCEPT !.full = TRUE]
                           ELSE [c EXCEPT !.put = Append(@, d), !.size = @ + d + 2],
             [put |-> <<>>, size |-> size, full |-> FALSE], es)
AddEntry(ss, es, base) ==
    LET start == Last(ss).size
        counted == Counted(es, start)
        room == IF counted.n < Len(es) /\ start # base /\ counted.length <= Capacity - 4 - base
                THEN Append(ss, Section(base)) ELSE ss
        fitting == Fitting(es, Last(room).size + 5)
    IN OnLast(room, LAMBDA s : [s EXCEPT !.entries = Append(@, fitting.put), !.size = fitting.size])

GenCAT(t) == FoldLeft(LAMBDA ss, d : AddHead(ss, d, 8), <<Section(8)>>, t.head)
GenPMT(t) == FoldLeft(LAMBDA ss, es : AddEntry(ss, es, 12),
                      FoldLeft(LAMBDA ss, d : AddHead(ss, d, 12), <<Section(12)>>, t.head), t.entries)
GenSDT(t) == FoldLeft(LAMBDA ss, es : AddEntry(ss, es, 11), <<Section(11)>>, t.entries)

(* programs of 4 bytes each, at most pps of them in a section *)
GenPAT(t, pps) ==
    LET most == IF pps <= 0 \/ pps > MaxPrograms THEN MaxPrograms ELSE pps
        put(s) == [s EXCEPT !.entries = Append(@, <<>>), !.size = @ + 4]
    IN FoldLeft(LAMBDA ss, es : IF Len(Last(ss).entries) + 1 > most THEN Append(ss, put(Section(8)))
                                ELSE OnLast(ss, put),
                <<Section(8)>>, t.entries)

Generated(t) ==
    CASE t.kind = "PAT" -> GenPAT(t, 0) [] t.kind = "CAT" -> GenCAT(t)
      [] t.kind = "PMT" -> GenPMT(t)    [] t.kind = "SDT" -> GenSDT(t)
-----------------------------------------------------------------------------
(* Decoders.  A table begins with Leading bytes, which all of them read    *)
(* without asking how long the section is; Header is what they read of an  *)
(* entry, and More what they ask before.                                   *)
Leading == ("TDT" :> 5) @@ ("TOT" :> 7) @@ ("STT" :> 8) @@ ("PMT" :> 4) @@ ("VCT" :> 2) @@ ("MGT" :> 3) @@ ("AEIT" :> 2)
           @@ [t \in {"PAT", "CAT", "SDT", "NIT", "EIT"} |-> 0]
Walk(t, n, at, end, left, phase) ==
    [table |-> t, n |-> n, at |-> at, end |-> end, around |-> n, left |-> left, phase |-> phase,
     read |-> <<"start", Leading[t]>>]

DecodePAT(n, says) == Walk("PAT", n, 0, 0, 0, "entry")
DecodeCAT(n, says) == Walk("CAT", n, 0, n, 0, "descriptors")
DecodeTDT(n, says) == Walk("TDT", n, 5, 5, 0, "done")
DecodeTOT(n, says) == Walk("TOT", n, 7, 7 + says, 0, IF 7 + says > n THEN "done" ELSE "descriptors")
DecodeSTT(n, says) == Walk("STT", n, 8, 8 + ((n - 8) % 65536), 0, "descriptors")
DecodePMT(n, says) == Walk("PMT", n, 4, 4 + says, 0, "descriptors")
DecodeSDT(n, says) == Walk("SDT", n, 3, 3, 0, "entry")
DecodeNIT(n, says) == Walk("NIT", n, 0, 0, 0, "entry")
DecodeEIT(n, says) == Walk("EIT", n, 6, 6, 0, "entry")
DecodeVCT(n, says) == Walk("VCT", n, 2, 2, says, "entry")
DecodeMGT(n, says) == Walk("MGT", n, 3, 3, says, "entry")
DecodeAEIT(n, says) == Walk("AEIT", n, 2, 2, says, "entry")

Begin(n, says) ==
    {DecodePAT(n, says), DecodeCAT(n, says), DecodeTDT(n, says), DecodeTOT(n, says), DecodeSTT(n, says),
     DecodePMT(n, says), DecodeSDT(n, says), DecodeNIT(n, says), DecodeEIT(n, says), DecodeVCT(n, says),
     DecodeMGT(n, says), DecodeAEIT(n, says)}

Header == ("PAT" :> 4) @@ ("PMT" :> 5) @@ ("SDT" :> 5) @@ ("NIT" :> 2) @@ ("EIT" :> 12) @@ ("VCT" :> 32) @@ ("MGT" :> 11) @@ ("AEIT" :> 10)
More(w) ==
    CASE w.table = "PAT" -> w.at < w.n
      [] w.table = "PMT" -> w.at + 5 <= w.n
      [] w.table \in {"SDT", "NIT"} -> w.at + 4 < w.n
      [] w.table = "EIT" -> w.at < w.n - 12
      [] w.table \in {"VCT", "MGT"} -> w.at + 6 < w.n /\ w.left > 0
      [] w.table = "AEIT" -> w.at + 4 < w.n /\ w.left > 0
      [] OTHER -> FALSE

(* (whatever is said is believed, for a mutant) *)
EncloseAll(w, at, says) == [w EXCEPT !.at = at, !.end = at + says, !.phase = "descriptors"]

(* the descriptors at hand begin at `at` and are said to take `says` bytes *)
Enclose(w, at, says) ==
    LET x == [w EXCEPT !.at = at, !.end = at + says, !.phase = "descriptors"] IN
    CASE w.table = "PAT" -> [w EXCEPT !.at = at]
      [] w.table = "PMT" /\ at + says > w.n -> [x EXCEPT !.end = w.n]
      [] w.table \in {"SDT"} /\ at + says > w.n -> [x EXCEPT !.phase = "done"]
      [] w.table = "NIT" /\ at + says > w.n -> [x EXCEPT !.phase = IF w.phase = "transport" THEN "entry" ELSE "done"]
      [] w.table = "AEIT" /\ at + says > w.n -> [x EXCEPT !.phase = "done"]
      [] w.table \in {"VCT", "MGT"} /\ w.phase = "entry" /\ at + says > w.n -> [x EXCEPT !.phase = "trailer"]
      [] OTHER -> x

(* the loop over entries: another one, with a title in front in ATSC's EIT, *)
(* or what follows the last one                                            *)
Entry(w, says, title) ==
    IF More(w)
    THEN LET behind == w.at + Header[w.table] + (IF w.table = "AEIT" THEN title + 2 ELSE 0)
         IN [Enclose(w, behind, says) EXCEPT !.left = IF @ = 0 THEN 0 ELSE @ - 1, !.around = -1, !.read = <<"entry", behind>>]
    ELSE [w EXCEPT !.phase = IF w.table \in {"VCT", "MGT"} THEN "trailer" ELSE "done"]

(* the descriptors at hand are the table's own, before or behind its entries *)
Own(w) == (w.table = "PMT" /\ w.around = w.n) \/ w.around = w.n + 1

(* one descriptor, handed on if it ends where its loop does or before;     *)
(* the loop over transports and the one over entries come next             *)
Descriptor(w, says) ==
    LET least == IF w.table = "CAT" THEN 5 ELSE 2
        reads == 2 + IF says + 2 <= w.end - w.at THEN says ELSE 0
    IN
    IF w.at + least <= w.end
    THEN [w EXCEPT !.at = @ + 2 + says, !.read = <<IF Own(w) THEN "own" ELSE "descriptor", w.at + reads>>]
    ELSE [w EXCEPT !.at = IF w.table = "PMT" /\ w.around = w.n THEN w.end ELSE @,
                   !.around = IF w.table = "NIT" THEN @ ELSE -1,
                   !.phase = CASE w.table = "NIT" -> IF w.around = -1 THEN "transports" ELSE "transport"
                               [] w.table \in {"VCT", "MGT"} /\ w.around = w.n + 1 -> "done"
                               [] w.table \in {"PMT", "SDT", "EIT", "VCT", "MGT", "AEIT"} -> "entry"
                               [] OTHER -> "done"]

(* NIT: the length of the loop over transports, and one transport *)
Transports(w, says) ==
    [w EXCEPT !.at = @ + 2, !.around = w.at + 2 + says, !.read = <<"transports", w.at + 2>>,
              !.phase = IF w.at + 2 + says > w.n THEN "done" ELSE "transport"]
Transport(w, says) ==
    IF w.at + 2 <= w.around THEN [Enclose(w, w.at + 6, says) EXCEPT !.read = <<"transport", w.at + 6>>]
    ELSE [w EXCEPT !.phase = "entry"]

(* VCT and MGT: the table's own descriptors *)
Trailer(w, says) == [Enclose(w, w.at + 2, says) EXCEPT !.around = w.n + 1, !.read = <<"trailer", w.at + 2>>]

Walked(w, says, title) ==
    CASE w.phase = "entry" -> Entry(w, says, title)
      [] w.phase = "descriptors" -> Descriptor(w, says)
      [] w.phase = "transports" -> Transports(w, says)
      [] w.phase = "transport" -> Transport(w, says)
      [] w.phase = "trailer" -> Trailer(w, says)
-----------------------------------------------------------------------------
TInit == Init /\ sections = Idle /\ walk = Idle
Free == descriptor = None /\ sections = Idle /\ walk = Idle

GenerateSections(t) ==
    Free /\ sections' = [table |-> t, made |-> Generated(t)] /\ UNCHANGED <<vars, walk>>
DeleteSections == sections # Idle /\ sections' = Idle /\ UNCHANGED <<vars, walk>>

DecodeSections(n, says) == Free /\ walk' \in Begin(n, says) /\ UNCHANGED <<vars, sections>>
WalkOn(says) ==
    /\ walk # Idle /\ walk.phase # "done"
    /\ \E title \in (IF walk.table = "AEIT" /\ walk.phase = "entry" THEN Says ELSE {0}) :
           walk' = Walked(walk, says, title)
    /\ UNCHANGED <<vars, sections>>
DecodeEnds == walk # Idle /\ walk.phase = "done" /\ walk' = Idle /\ UNCHANGED <<vars, sections>>

OneDescriptor == sections = Idle /\ walk = Idle /\ Next /\ UNCHANGED tvars

TNext ==
    \/ OneDescriptor
    \/ \E t \in Tables : GenerateSections(t)
    \/ DeleteSections
    \/ \E n \in Payloads, says \in Says : DecodeSections(n, says)
    \/ \E says \in Says : WalkOn(says)
    \/ DecodeEnds

TSpec == TInit /\ [][TNext]_<<vars, tvars>>
-----------------------------------------------------------------------------
(* What a table holds, its sections hold, in order: all its own            *)
(* descriptors and all its entries; PAT and CAT in sections that are never *)
(* too long.  A table small enough for one section is in it entirely; of   *)
(* a larger one an entry may have lost its last descriptors.               *)
TablesCarried ==
    sections # Idle =>
        LET t == sections.table
            ss == sections.made
            held == FlattenSeq([i \in DOMAIN ss |-> ss[i].entries])
            bytes(es) == FoldLeft(LAMBDA n, d : n + d + 2, 5, es)
            total == FoldLeft(LAMBDA n, es : n + bytes(es),
                              FoldLeft(LAMBDA n, d : n + d + 2, 12, t.head), t.entries)
        IN /\ FlattenSeq([i \in DOMAIN ss |-> ss[i].head]) = t.head
           /\ Len(held) = Len(t.entries)
           /\ \A i \in DOMAIN held : IsPrefix(held[i], t.entries[i])
           /\ t.kind \in {"PAT", "CAT"} => \A i \in DOMAIN ss : ss[i].size <= Capacity - 4
           /\ (t.kind \in {"PMT", "SDT"} /\ total <= Capacity - 4) => Len(ss) = 1 /\ held = t.entries

(* What is generated is what a decoder gets, descriptors and tables alike.  *)
GeneratedIsCarried == GeneratedIsDecoded /\ TablesCarried

(* What some decoders read without asking whether the section holds it:    *)
(* PAT 4 bytes of a program after asking for 1; of an ATSC table's entry   *)
(* 32, 11 or 10 and a title after asking for 7 or 5, and what follows the  *)
(* last one; NIT the length of its second loop, and 6 bytes of a transport *)
(* after asking for 2.  And descriptors whose end is not compared with the *)
(* section's: an EIT's, a PMT's own, and those that follow an ATSC table.  *)
Overread == {<<"PAT", "entry">>, <<"VCT", "entry">>, <<"MGT", "entry">>, <<"AEIT", "entry">>,
             <<"VCT", "trailer">>, <<"MGT", "trailer">>, <<"NIT", "transports">>, <<"NIT", "transport">>,
             <<"EIT", "descriptor">>, <<"PMT", "own">>, <<"VCT", "own">>, <<"MGT", "own">>}

(* Whatever else a table's decoder reads lies within its section, however  *)
(* the lengths in it contradict each other, if the section is long enough  *)
(* for what its table begins with.                                         *)
TablesReadWithin ==
    walk # Idle =>
        \/ walk.read[2] <= walk.n \/ walk.n < Leading[walk.table]
        \/ <<walk.table, walk.read[1]>> \in Overread

(* What was received is the limit, of descriptors and of sections, but for *)
(* what Unchecked and Overread name.                                       *)
StaysInside == ReadsWithin /\ TablesReadWithin

=============================================================================
