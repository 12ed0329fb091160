------------------------------- MODULE Sections -------------------------------
(***************************************************************************)
(* Sections out of transport packets (dvbpsi.c, psi.c, sections.c).        *)
(*                                                                         *)
(* A section is cut into pieces, its first piece holding the header that    *)
(* tells the length; a packet carries a few pieces, and its pointer        *)
(* field says where the first section that begins in it begins.  A piece   *)
(* is a record with the section it is of (field of) and its place in it    *)
(* (field k); a section knows its length, and whether it has a CRC (syntax). *)
(***************************************************************************)
EXTENDS Integers, Sequences, FiniteSets, SequencesExt

CONSTANTS Nothing,   \* no section is under way
          Stuffing,  \* 0xff up to the end of the packet
          Counters,  \* the continuity counter is modulo this number, 16
          Garbage    \* the lengths that may be read where no header is

ASSUME CounterAssumption == Counters \in Nat \ {0, 1}

\* Where a section begins in this packet, 0: nowhere.
Pointer(packet) ==
  LET begins == {i \in 1..Len(packet) : packet[i] # Stuffing /\ packet[i].k = 1}
  IN  IF begins = {} THEN 0 ELSE CHOOSE i \in begins : \A j \in begins : i <= j

\* dvbpsi_ValidPSISection: the pieces are those that were sent as one, in their
\* order; of a section without the syntax indicator nothing is checked.
Valid(pieces) ==
  LET s == pieces[1].of
  IN  /\ pieces[1].k = 1
      /\ s.syntax => pieces = [i \in 1..s.length |-> [of |-> s, k |-> i]]

\* How many pieces a header asks for, 0 if more than any section has; what is
\* taken for a header may say anything.
Told(piece, garbage) == IF piece.k = 1 THEN piece.of.length ELSE garbage

\* Where in a packet the loop is (at), where a section begins that is not yet
\* handled, or 0 (new), and the sections completed so far (got).
Started(at, got) == [at |-> at, new |-> 0, section |-> <<>>, need |-> 0, got |-> got]

Stopped(packet, got) == [at |-> Len(packet) + 1, new |-> 0, section |-> Nothing,
                         need |-> 0, got |-> got]

\* The next section begins at new, if anywhere in this packet.
Onward(packet, new, got) ==
  IF new # 0 THEN Started(new, got) ELSE Stopped(packet, got)

\* Mutant of Following: only what the pointer says.
FollowingPointer(packet, here) == here.new

\* After a section comes the one at the pointer, or one that begins right here if
\* more than stuffing follows.
Following(packet, here) ==
  IF here.new # 0 THEN here.new
  ELSE IF here.at < Len(packet) /\ packet[here.at + 1] # Stuffing THEN here.at + 1
  ELSE 0

\* One turn of the loop of dvbpsi_PushPacket: the piece goes to the section; if
\* that is complete it is handed on, or thrown away if it is not valid.
Consume(packet, here, garbage) ==
  LET piece  == packet[here.at]
      pieces == Append(here.section, piece)
      asked  == IF here.section = <<>> THEN Told(piece, garbage) ELSE here.need
  IN  IF asked = 0 THEN Onward(packet, here.new, here.got)
      ELSE IF asked > 1
      THEN [here EXCEPT !.section = pieces, !.need = asked - 1, !.at = @ + 1]
      ELSE Onward(packet, Following(packet, here),
                  IF Valid(pieces) THEN Append(here.got, pieces[1].of) ELSE here.got)

\* What the loop may come to from there until the packet ends; the pointer takes
\* it back once at most.
Consumed(packet, there) ==
  LET turn(heres, i) ==
        UNION {IF here.at > Len(packet) THEN {here}
               ELSE {Consume(packet, here, garbage) : garbage \in Garbage} : here \in heres}
  IN  FoldLeft(turn, {there}, [i \in 1..2 * Len(packet) |-> i])

\* dvbpsi_PushPacket: the section under way, the pieces it needs, the last
\* counter and the flag of a discontinuity, which nobody resets for this handle.
\* The set of what may come of it: the new state and the sections got.
PushPacket(state, packet, counter) ==
  LET broken   == counter # (state.counter + 1) % Counters
      repeated == counter = state.counter /\ ~state.discontinuity
      section  == IF broken THEN Nothing ELSE state.section
      pointer  == Pointer(packet)
      results  == IF section # Nothing
                  THEN Consumed(packet, [at |-> 1, new |-> pointer, section |-> section,
                                         need |-> state.need, got |-> <<>>])
                  ELSE IF pointer # 0 THEN Consumed(packet, Started(pointer, <<>>))
                  ELSE {Stopped(packet, <<>>)}
  IN  IF repeated THEN {[state |-> state, got |-> <<>>]}
      ELSE {[state |-> [counter |-> counter, section |-> r.section, need |-> r.need,
                        discontinuity |-> broken \/ state.discontinuity],
             got |-> r.got] : r \in results}

\* dvbpsi_AttachSections.
AttachSections ==
  [counter |-> Counters - 1, discontinuity |-> TRUE, section |-> Nothing, need |-> 0]

=============================================================================
