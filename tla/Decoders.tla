------------------------------- MODULE Decoders -------------------------------
(***************************************************************************)
(* Tables out of sections: what the decoders under dvbpsi/tables have in   *)
(* common and how they differ.                                             *)
(*                                                                         *)
(* A table has sections with the numbers Numbers, and a version of five     *)
(* bits which its generations go through.  A section is a record of the    *)
(* table it is of (sub), its number (num), generation (gen) and whether    *)
(* the table is in use now (active), not announced for later.               *)
(***************************************************************************)
EXTENDS Sections

CONSTANTS Sub,         \* the tables, told apart by table id and extension
          Numbers,     \* per table the numbers of its sections
          SegmentEnd,  \* per table and section the last number of its segment
          Versions     \* version numbers, 32

ASSUME DecoderAssumption ==
  /\ Numbers \in [Sub -> SUBSET Nat]
  /\ \A d \in Sub : 0 \in Numbers[d] /\ IsFiniteSet(Numbers[d])
  /\ Versions \in Nat \ {0}

\* demuxed: the handle is shared with other tables of the PID (demux.c); how:
\* the way sections are handled.
PAT  == [name |-> "PAT", demuxed |-> FALSE, how |-> "gather"]
PMT  == [name |-> "PMT", demuxed |-> FALSE, how |-> "gather"]
CAT  == [name |-> "CAT", demuxed |-> FALSE, how |-> "gather"]
SDT  == [name |-> "SDT", demuxed |-> TRUE, how |-> "gather"]
NIT  == [name |-> "NIT", demuxed |-> TRUE, how |-> "gather"]
VCT  == [name |-> "VCT", demuxed |-> TRUE, how |-> "gather"]
MGT  == [name |-> "MGT", demuxed |-> TRUE, how |-> "gather"]
AEIT == [name |-> "AEIT", demuxed |-> TRUE, how |-> "gather"]
EIT  == [name |-> "EIT", demuxed |-> TRUE, how |-> "segments"]
ETT  == [name |-> "ETT", demuxed |-> FALSE, how |-> "texts"]
TDT  == [name |-> "TDT", demuxed |-> FALSE, how |-> "times"]
STT  == [name |-> "STT", demuxed |-> TRUE, how |-> "times"]

\* A table that shares the PID, and that no decoder was attached for.
Other == [name |-> "other", demuxed |-> TRUE, how |-> "ignored"]

Kind == {PAT, PMT, CAT, SDT, NIT, VCT, MGT, AEIT, EIT, ETT, TDT, STT, Other}

Version(s) == s.gen % Versions

LastNumber(d) == CHOOSE n \in Numbers[d] : \A m \in Numbers[d] : m <= n

\* A decoder: which version it has (valid, version, active), which it builds and
\* from what (building, first, sections), and what it has signalled: the last
\* table, and all sections in any of them.
Attached == [valid |-> FALSE, version |-> 0, active |-> FALSE,
             building |-> Nothing, first |-> 0, sections |-> {},
             last |-> Nothing, heard |-> {}]

\* The callback gets a table of these sections.
Signal(D, parts) == [D EXCEPT !.last = parts, !.heard = @ \cup parts]

NumbersOf(parts) == {s.num : s \in parts}

\* The section takes its place in the array; the first one sets the version.
Placed(D, s) ==
  [D EXCEPT !.sections = {t \in @ : t.num # s.num} \cup {s},
            !.building = IF @ = Nothing
                         THEN [version |-> Version(s), active |-> s.active] ELSE @,
            !.first = IF D.building = Nothing THEN s.num ELSE @]

\* What was built is the current table now.
Finished(D) ==
  [D EXCEPT !.valid = TRUE, !.version = D.building.version,
            !.active = D.building.active, !.building = Nothing, !.sections = {}]

\* The array is complete as far as the table's last section.
GatherSections(D, s) ==
  LET placed == Placed(D, s)
  IN  IF 0..LastNumber(s.sub) \subseteq NumbersOf(placed.sections)
      THEN Signal(Finished(placed), placed.sections)
      ELSE placed

\* As the EIT's decoder sees it: after the end of a segment numbers may be missing.
SegmentsComplete(d, numbers) ==
  /\ {0, LastNumber(d)} \subseteq numbers
  /\ \A i \in 0..LastNumber(d) \ numbers :
       \E j \in numbers : /\ j < i /\ \A k \in numbers : k < i => k <= j
                          /\ SegmentEnd[d][j] = j

\* The EIT is signalled section by section; when the round is thought to be
\* complete its version is taken for known.
GatherSegments(D, s) ==
  LET placed == Placed(D, s)
      heard  == IF s.num \in NumbersOf(D.sections) THEN placed
                ELSE [Signal(placed, {s}) EXCEPT !.version = placed.building.version,
                                                 !.active = placed.building.active]
      around == IF heard.first = 0 THEN s.num = LastNumber(s.sub)
                ELSE s.num \in {heard.first, heard.first - 1}
  IN  IF around /\ SegmentsComplete(s.sub, NumbersOf(heard.sections))
      THEN Finished([heard EXCEPT !.building = [version |-> Version(s),
                                                active |-> s.active]])
      ELSE heard

\* Mutant of Reset: the sections gathered so far are kept.
ResetKeepsSections(D) == [D EXCEPT !.valid = FALSE, !.building = Nothing]

\* Reinit the decoder.
Reset(D) == [D EXCEPT !.valid = FALSE, !.building = Nothing, !.sections = {}]

\* dvbpsi_Gather...Sections of the tables with versions.  A table known already
\* is signalled once more, with no entries, when it comes into use.
GatherVersioned(D, how, fresh, s) ==
  LET known == ~fresh /\ D.building = Nothing /\ D.valid /\ D.version = Version(s)
      other == D.building # Nothing /\ D.building.version # Version(s)
      ready == IF fresh \/ other THEN Reset(D) ELSE D
  IN  IF known THEN IF s.active /\ ~D.active
                    THEN Signal([D EXCEPT !.active = TRUE], {}) ELSE D
      ELSE IF how = "gather" THEN GatherSections(ready, s) ELSE GatherSegments(ready, s)

\* dvbpsi_atsc_GatherETTSections: a text is signalled if its version is new.
GatherText(D, s) ==
  LET kept == [D EXCEPT !.sections = {t \in @ : t.num # s.num} \cup {s}]
  IN  IF \E t \in D.sections : t.num = s.num /\ Version(t) = Version(s) THEN kept
      ELSE Signal(kept, {s})

\* The decoder's callback.
Gather(D, kind, fresh, s) ==
  IF kind.how = "ignored" THEN D
  ELSE IF kind.how = "times" THEN Signal(D, {s})
  ELSE IF kind.how = "texts" THEN GatherText(D, s)
  ELSE GatherVersioned(D, kind.how, fresh, s)

=============================================================================
