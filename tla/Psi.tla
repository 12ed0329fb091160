---------------------------------- MODULE Psi ----------------------------------
(***************************************************************************)
(* One PID of the multiplex, from the broadcaster's carousel to the        *)
(* callbacks of the table decoders: the packets of the PID are put together *)
(* to sections by the handle of the section filter list (ts.c), and every  *)
(* section is pushed to the decoders (dvbpsi).                             *)
(*                                                                         *)
(* The broadcaster repeats its tables for ever, and may change them between *)
(* two rounds; a table may be announced before it comes into use.  Packets  *)
(* may be lost or come twice, and while the list is out of the rotation of *)
(* section filters (TSReader) it gets none.                                *)
(***************************************************************************)
EXTENDS Decoders

CONSTANTS Carousel,      \* the packets of a round: per piece its table, number, place
          Lengths,       \* per table and section its number of pieces
          Mixes,         \* which kind of decoder each table has
          Announced,     \* the tables announced before they come into use
          MaxGeneration, \* bound: how often a table changes
          MaxFaults      \* bound: packets lost, packets repeated, rotations

VARIABLES kind,        \* the decoder of each table
          generation,  \* broadcaster: the generation of each table in use
          early,       \* broadcaster: the tables announced in this round
          pos, cc,     \* broadcaster: the next packet and its counter
          faults,
          receiver     \* the list's waiting and assembler, the filters' decoder
                       \* and fresh: those whose handle has b_discontinuity set

vars == <<kind, generation, early, pos, cc, faults, receiver>>

-----------------------------------------------------------------------------
\* The broadcaster.

\* What is sent of a table: its next generation, marked so, while announced.
Section(d, n) ==
  [sub |-> d, num |-> n, length |-> Lengths[d][n], syntax |-> kind[d] # TDT,
   active |-> d \notin early,
   gen |-> IF d \in early THEN generation[d] + 1 ELSE generation[d]]

Packet ==
  [i \in DOMAIN Carousel[pos] |->
     LET p == Carousel[pos][i]
     IN  IF p = Stuffing THEN Stuffing ELSE [of |-> Section(p.sub, p.num), k |-> p.k]]

\* The packet goes out; after a round a table may change or be announced.
Advance ==
  /\ pos' = IF pos = Len(Carousel) THEN 1 ELSE pos + 1
  /\ cc' = (cc + 1) % Counters
  /\ \/ UNCHANGED <<generation, early>>
     \/ /\ pos = Len(Carousel)
        /\ \E d \in Sub :
             /\ generation[d] < MaxGeneration
             /\ \/ /\ generation' = [generation EXCEPT ![d] = @ + 1]
                   /\ early' = early \ {d}
                \/ /\ d \in Announced
                   /\ early' = IF d \in early THEN early \ {d} ELSE early \cup {d}
                   /\ UNCHANGED generation
  /\ UNCHANGED kind

-----------------------------------------------------------------------------
\* The receiver.

\* The tables decoded by the handle that decodes d.
Handle(d) == IF kind[d].demuxed THEN {x \in Sub : kind[x].demuxed} ELSE {d}

\* A section is pushed to every filter of the list, and the decoder of its table
\* takes it; those that check for a discontinuity have it checked then.
Push(r, s) ==
  [r EXCEPT !.decoder[s.sub] = Gather(@, kind[s.sub], s.sub \in r.fresh, s),
            !.fresh = IF kind[s.sub].how \in {"gather", "segments"}
                      THEN @ \ Handle(s.sub) ELSE @]

\* SectionFilterListPacketCallback: after a pause wait for the begin of a section.
\* The set of what may come of it.
PacketCallback(r, packet) ==
  IF r.waiting /\ Pointer(packet) = 0 THEN {r}
  ELSE {FoldLeft(Push, [r EXCEPT !.waiting = FALSE, !.assembler = pushed.state],
                 pushed.got) : pushed \in PushPacket(r.assembler, packet, cc)}

\* A packet arrives.
Send ==
  /\ \E packet \in {Packet} : receiver' \in PacketCallback(receiver, packet)
  /\ Advance
  /\ UNCHANGED faults

\* A packet arrives twice, as the standard allows.
SendTwice ==
  /\ faults < MaxFaults
  /\ faults' = faults + 1
  /\ \E packet \in {Packet} :
       \E once \in PacketCallback(receiver, packet) :
         receiver' \in PacketCallback(once, packet)
  /\ Advance

\* A packet does not arrive: an error, a full buffer, or the list's rest.
Lose ==
  /\ faults < MaxFaults
  /\ faults' = faults + 1
  /\ Advance
  /\ UNCHANGED receiver

\* The list has its turn again (ScheduleFilters, TSReader): its next section has to
\* begin in a packet, and the handle still has what it had before.
Reschedule ==
  /\ faults < MaxFaults
  /\ faults' = faults + 1
  /\ receiver' = [receiver EXCEPT !.waiting = TRUE]
  /\ UNCHANGED <<kind, generation, early, pos, cc>>

Init ==
  /\ kind \in Mixes
  /\ generation = [d \in Sub |-> 0]
  /\ early = {}
  /\ pos \in DOMAIN Carousel
  /\ cc = 0
  /\ faults = 0
  /\ receiver = [waiting |-> TRUE, assembler |-> AttachSections,
                 decoder |-> [d \in Sub |-> Attached], fresh |-> Sub]

Next == Send \/ SendTwice \/ Lose \/ Reschedule

\* The broadcast goes on, and not every packet is lost: the faults are finite.
Fairness == WF_vars(Send)

Spec == Init /\ [][Next]_vars /\ Fairness

-----------------------------------------------------------------------------
\* Properties.

Shown == [sub: Sub, num: UNION {Numbers[d] : d \in Sub}, active: BOOLEAN,
          length: Nat, syntax: BOOLEAN, gen: 0..MaxGeneration]

\* Types of the receiver, and the counters within their bounds; a section is under
\* way as long as it needs something (dvbpsi_PushPacket).
TypeOK ==
  /\ kind \in [Sub -> Kind]
  /\ generation \in [Sub -> 0..MaxGeneration]
  /\ early \subseteq Announced
  /\ pos \in DOMAIN Carousel /\ cc \in 0..Counters - 1 /\ faults \in 0..MaxFaults
  /\ receiver.fresh \subseteq Sub
  /\ receiver.assembler.counter \in 0..Counters - 1
  /\ receiver.assembler.section = Nothing <=> receiver.assembler.need = 0
  /\ \A d \in Sub :
       LET D == receiver.decoder[d]
       IN  /\ D.sections \subseteq Shown /\ D.heard \subseteq Shown
           /\ D.building = Nothing \/ D.building.version \in 0..Versions - 1

\* A table that reaches the program has all its sections, each once and of one
\* generation, however its packets were lost or repeated and whenever it was
\* changed; only a table announced before is signalled with no entries, as it
\* comes into use (dvbpsi_GatherPATSections and those like it).
WholeTables ==
  \A d \in Sub :
    LET parts == receiver.decoder[d].last
    IN  kind[d].how = "gather" /\ parts \notin {Nothing, {}} =>
          /\ NumbersOf(parts) = Numbers[d] /\ Cardinality(parts) = Cardinality(Numbers[d])
          /\ \A s, t \in parts : s.gen = t.gen

\* When a decoder takes a version of its table for known, it has signalled every
\* section of that version (dvbpsi_GatherEITSections and the others).
NothingMissed ==
  \A d \in Sub :
    LET D == receiver.decoder[d]
    IN  D.valid /\ D.building = Nothing =>
          \A n \in Numbers[d] :
            \E s \in D.heard : s.num = n /\ Version(s) = D.version

\* Once the broadcaster leaves a table alone, every section of it is heard, after
\* any faults before (dvbpsi_PushPacket finds its way back into the stream).
LatestInTheEnd ==
  \A d \in Sub :
    <>[](d \notin early /\ kind[d] # Other) =>
      <>[](\A n \in Numbers[d] :
             \E s \in receiver.decoder[d].heard : s.num = n /\ s.gen = generation[d])

=============================================================================
