------------------------------ MODULE MCCoding ------------------------------
(* Values for TableCoding: every kind of descriptor, payloads short and at *)
(* the limit; small sections, and tables that fill one to three of them;    *)
(* texts of every kind; small trees of properties; lines of commands.  They *)
(* share nothing: a behaviour is of one part.                              *)
EXTENDS TableCoding, Text, Properties, Commands

VARIABLE part

SameChangers == Permutations(Changer)

AllKinds == {"vstream", "astream", "hierarchy", "registration", "alignment", "grid", "window", "ca", "iso639",
             "clock", "buffer", "copyright", "bitrate", "private", "carousel", "association", "stuffing",
             "satellite", "bouquet", "service", "short event", "extended event", "stream", "rating", "teletext",
             "subtitling", "terrestrial", "frequencies", "broadcast", "pdc", "authority", "content", "lcn"}
SomeLengths == 0..12 \cup {248} \cup 252..255

Streams == BoundedSeq({0, 20}, 2)
SomeTables ==
    [kind : {"PAT"}, head : {<<>>}, entries : {[i \in 1..n |-> <<>>] : n \in 0..16}]
    \cup [kind : {"CAT"}, head : BoundedSeq({0, 6, 20}, 4), entries : {<<>>}]
    \cup [kind : {"PMT"}, head : BoundedSeq({0, 20}, 1), entries : BoundedSeq(Streams, 3)]
    \cup [kind : {"SDT"}, head : {<<>>}, entries : BoundedSeq(Streams, 3)]

(* a few characters, with a code for most of their successors *)
SmallTree ==
    0 :> (<<0>> :> 65 @@ <<1, 0>> :> 66 @@ <<1, 1>> :> 1)
    @@ 65 :> (<<0>> :> 66 @@ <<1, 0>> :> 0 @@ <<1, 1, 0>> :> 1)
    @@ 66 :> (<<0>> :> 0 @@ <<1, 0>> :> 65 @@ <<1, 1, 1>> :> 1)
FreesatWords == BoundedSeq({65, 66, 200}, 3)
SomeDVBTexts ==
    {<<lead>> \o w : lead \in {5, 17}, w \in {<<65>>, <<200, 65>>}}
    \cup {<<16, 0, part8859, 66>> : part8859 \in {2, 12, 99}}
    \cup {<<65, 200>>, <<65, 66>>, <<65, 255>>, <<31, 65>>, <<0>>}
Segment(mode, compression, bytes) == [mode |-> mode, compression |-> compression, bytes |-> bytes]
SomeATSCTexts ==
    {<<Segment(mode, 0, <<65, 200>>), Segment(0, 0, <<66>>)>> : mode \in {0, 4, 64, 255}}
    \cup {<<Segment(0, 0, <<66>>), Segment(mode, 0, <<65, 66, 67, 68>>)>> : mode \in {0, 63}}
    \cup {<<Segment(0, 1, w)>> : w \in {<<65, 66, 0>>, <<66, 65, 65, 0>>, <<66, 200>>}}
    \cup {<<Segment(0, 3, <<65>>)>>, <<Segment(4, 0, <<>>)>>, [i \in 1..3 |-> Segment(0, 0, <<66, 65>>)]}
SomeXmlTexts == BoundedSeq({9, 38, 60, 65, 127, 128, 2047, 2048, 65536, 1114111}, 3)

(* Lines of up to four characters, and those of a short command and five more. *)
TypedCharacters == {"a", "b", " ", "#", "dq", "sq"}
SomeLines == BoundedSeq(TypedCharacters, 4)
             \cup {<<"a", " ">> \o w : w \in BoundedSeq(TypedCharacters, 5)}
Syntax(name, min, max) == [name |-> name, min |-> min, max |-> max]
SomeCommands ==
    <<<<Syntax(<<"a">>, 0, 0), Syntax(<<"b", "a">>, 0, 1)>>,
      <<Syntax(<<"a", "b">>, 1, 1), Syntax(<<"a">>, 1, 2)>>, <<Syntax(<<"b", "b">>, 0, 2)>>>>
RemoteCommands == <<Syntax(<<"a", "b">>, 2, 2), Syntax(<<"c">>, 0, 0)>>
SomeNames == BoundedSeq({"a", "b", "c"}, 2)
SomeFiles == BoundedSeq([size : {0, 1, 3, 4, 5, 9}, kind : {"plain"}] \cup {[size |-> 2, kind |-> "quit"]}, 3)

MCInit ==
    /\ part \in {"tables", "texts", "properties", "commands"}
    /\ TInit
    /\ TextInit /\ (part = "texts" \/ iso6937)
    /\ PropertiesInit
    /\ CommandsInit /\ (part = "commands" \/ about = "line")

(* A line understood, a file at its end and a connection closed are the last of
   what there is to see, and so are two changes of the properties that met. *)
CommandsAtEnd == heard # Unheard \/ (about = "file" /\ (file.left = <<>> \/ file.quit)) \/ ~remote.open

MCNext ==
    \/ part = "commands" /\ CommandsAtEnd
       /\ UNCHANGED <<part, vars, tvars, textVars, propVars, commandVars>>
    \/ part = "properties" /\ met
       /\ UNCHANGED <<part, vars, tvars, textVars, propVars, commandVars>>
    \/ part = "tables" /\ TNext /\ UNCHANGED <<part, textVars, propVars, commandVars>>
    \/ part = "texts" /\ TextNext /\ UNCHANGED <<part, vars, tvars, propVars, commandVars>>
    \/ part = "properties" /\ PropertiesNext /\ UNCHANGED <<part, vars, tvars, textVars, commandVars>>
    \/ part = "commands" /\ CommandsNext /\ UNCHANGED <<part, vars, tvars, textVars, propVars>>

MCSpec == MCInit /\ [][MCNext]_<<part, vars, tvars, textVars, propVars, commandVars>>

=============================================================================
