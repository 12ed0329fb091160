------------------------------ MODULE MCPlugins ------------------------------
(* Plugins for TLC. They share nothing, so one behaviour is of one of them:   *)
(* the others keep their first state.                                         *)
(* The carousel: a gateway with a directory in which two more are, so that    *)
(* two directories can wait for one parent, a file in each, and the data of   *)
(* all files in one module of two blocks. The sessions: two filters, two      *)
(* services on different multiplexes, a PID from the PMT and one by its tag.  *)
(* The dispatcher: two clients add and remove listeners of one name, two of   *)
(* which exist when both have found it unused. The capture of events: two     *)
(* clients, two multiplexes, two tables and one.                              *)
EXTENDS Carousel, DSMCC, CAM, EventsDispatcher, Epg, Dialogs

CONSTANTS root, d1, d2, d3, f0, f1, f2, f3, k1, k2, k3, k4,
          g1, g2, s1, s2, m1, m2, p1, p2, slot, pr1, pr2, pr3, other,
          src, ev, e1, e2

VARIABLE part

MCSelects == (src :> {ev})

MCDir == {d1, d2, d3}
MCFile == {f0, f1, f2, f3}
MCModule == <<k1, k2, k3, k4>>
Obj(k, n, e) == [kind |-> k, name |-> n, entries |-> e]
MCContent ==
  [m \in ToSet(MCModule) |->
     CASE m = k1 -> <<Obj("srg", root, <<d1, f0>>)>>
       [] m = k2 -> <<Obj("dir", d1, <<d2, d3, f1>>)>>
       [] m = k3 -> <<Obj("dir", d2, <<f2>>), Obj("dir", d3, <<f3>>)>>
       [] m = k4 -> [i \in 1..4 |-> Obj("fil", <<f0, f1, f2, f3>>[i], <<>>)]]
MCBlocks == [m \in ToSet(MCModule) |-> IF m = k4 THEN 2 ELSE 1]

MCFilter == {g1, g2}
MCChannel == {s1, s2}
MCMultiplexes == {m1, m2}
MCOn == [s \in MCChannel |-> IF s = s1 THEN m1 ELSE m2]
MCPid == {p1, p2}
MCDataPids == [s \in MCChannel |-> {p1}]

Descriptor(kind, lang, numbers) == [kind : {kind}, lang : {lang}, number : numbers]
Texts == Descriptor("extended", "eng", 0..2) \cup Descriptor("extended", "deu", {0}) \cup Descriptor("short", "eng", {0})
MCContents ==
  BoundedSeq(Texts, 4)
  \cup BoundedSeq(Texts \cup Descriptor("rating", "eng", {0}) \cup Descriptor("crid", "", {0, 1}), 2)
  \cup BoundedSeq(Descriptor("title", "eng", {0}) \cup Descriptor("title", "deu", {0}), 2)
MCMenus == BoundedSeq({"short", "long"}, 4)
MCOnAir == (m1 :> {e1, e2} @@ m2 :> {e1})

\* The clients, who are the callers too, are alike.
SameClients == Permutations(Client)

Init ==
  /\ part \in {"carousel", "dsmcc", "cam", "events", "epg", "transport", "dialogs"}
  /\ CarouselInit /\ (part = "carousel" \/ id)
  /\ DSMCCInit /\ (part = "dsmcc" \/ (tuned = m1 /\ \A g \in Filter : channel[g] = Null))
  /\ CAMInit /\ (part = "cam" \/ service = pr1)
  /\ EventDispatcherInstalled
  /\ TransportInit /\ DialogsInit
  /\ EpgInit /\ (part = "epg" \/ standard = "DVB") /\ ((part = "epg" /\ standard \in {"DVB", "ATSC"}) \/ onAir = m1)

Next ==
  \/ part = "carousel" /\ CarouselNext /\ UNCHANGED <<part, dsmcc, cam, dispatcher, epg, transport, dialogs>>
  \/ part = "dsmcc" /\ DSMCCNext /\ UNCHANGED <<part, carousel, cam, dispatcher, epg, transport, dialogs>>
  \/ part = "cam" /\ CAMNext /\ UNCHANGED <<part, carousel, dsmcc, dispatcher, epg, transport, dialogs>>
  \/ part = "events" /\ DispatcherNext /\ UNCHANGED <<part, carousel, dsmcc, cam, epg, transport, dialogs>>
  \/ part = "epg" /\ EpgNext /\ UNCHANGED <<part, carousel, dsmcc, cam, dispatcher, transport, dialogs>>
  \/ part = "transport" /\ TransportNext /\ UNCHANGED <<part, carousel, dsmcc, cam, dispatcher, epg, dialogs>>
  \/ part = "dialogs" /\ DialogsNext /\ UNCHANGED <<part, carousel, dsmcc, cam, dispatcher, epg, transport>>

Spec == Init /\ [][Next]_<<part, carousel, dsmcc, cam, dispatcher, epg, transport, dialogs>>

=============================================================================
