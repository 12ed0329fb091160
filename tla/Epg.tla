--------------------------------- MODULE Epg ---------------------------------
(***************************************************************************)
(* The capture of event information: dvbtoepg.c on its two PIDs, and       *)
(* atsctoepg.c on those the MGT names. Commands start, stop and restart it *)
(* on the threads of their connections; the packet loop, with the reader   *)
(* locked, brings changes of the multiplex, MGTs and events, and deferred  *)
(* processing announces the events. Apart from that, what the commands now *)
(* and next print while the packet loop writes over it without a lock.     *)
(***************************************************************************)
EXTENDS Integers, FiniteSets, Sequences

CONSTANTS OnAir,         \* the multiplexes, each with the PIDs its MGT names
          DVBPids,       \* PID_EIT and PID_FREESAT_EIT
          Caller,        \* threads that execute commands
          MaxGroups,     \* bound: filter groups ever made
          MaxEvents,     \* bound: jobs that wait
          Contents       \* what events may carry: sequences of descriptors

\* A descriptor has a number of four bits.
ASSUME EpgAssumption ==
  /\ MaxGroups \in Nat /\ MaxEvents \in Nat
  /\ IsFiniteSet(DVBPids) /\ \A m \in DOMAIN OnAir : IsFiniteSet(OnAir[m])
  /\ \A ds \in Contents : ds \in Seq([kind : STRING, lang : STRING, number : 0..15])

VARIABLES
  standard,     \* "DVB", "ATSC"; apart from capture "now", what now and next show, and "sent", what listeners are told
  onAir,        \* the current multiplex
  received,     \* the one whose packets still come
  unaware,      \* the reader's groups have not been told of the current one
  mgt,          \* its MGT has been received
  capture,      \* groups with the decoder on each PID, tsgroup, tables with their decoders, decoders attached
  calls,        \* what remains to be done of a caller's command
  waiting,      \* jobs: events, with the multiplex they came from, the one current then and the one noted
  reported,     \* the last of them that was announced
  info,         \* what is known of a service's two events: what was, the table over it, how much of it is written
  reading,      \* what a command has printed: which event, how much of it, its times, name and description
  torn,         \* some of it was written meanwhile
  messages,     \* what the listeners of the channel were sent of the last event, by descriptor
  raced,        \* a command met another, or the packet loop, halfway
  forgotten,    \* tables were forgotten by a command
  doubled,      \* capture was started twice
  misfed      \* a decoder that was detached got a section, or was detached again

nownext == <<info, reading, torn>>
epg == <<standard, onAir, received, unaware, mgt, capture, calls, waiting, reported, nownext, messages, raced, forgotten, doubled, misfed>>

NoDecoder == 0
NoGroup == 0
-----------------------------------------------------------------------------
(* What is done to the capture, whoever does it. *)

Values(f) == {f[p] : p \in DOMAIN f}
Referred(c) == Values(c.tables) \cup UNION {Values(c.groups[g]) : g \in DOMAIN c.groups}
DecodersOf(c) == {c.tables[p] : p \in DOMAIN c.tables} \ {NoDecoder}
Exists(c) == c.tsgroup \in DOMAIN c.groups

CreateGroup(c) ==
  LET g == CHOOSE n \in 1..MaxGroups : n \notin DOMAIN c.groups
  IN [c EXCEPT !.groups = [n \in DOMAIN c.groups \cup {g} |-> IF n = g THEN <<>> ELSE c.groups[n]], !.tsgroup = g]
DestroyGroup(c) == [c EXCEPT !.groups = [n \in DOMAIN c.groups \ {c.tsgroup} |-> c.groups[n]]]

\* Mutant: the filters stay.
LeaveFilters(c) == c

RemoveFilters(c) == IF Exists(c) THEN [c EXCEPT !.groups[c.tsgroup] = <<>>] ELSE c

DetachDecoders(c) == [c EXCEPT !.attached = @ \ DecodersOf(c), !.twice = @ \/ \E p \in DOMAIN c.tables : c.tables[p] \notin c.attached]

\* dvbpsi_AttachDemux returns decoders nobody knows of, those with the least
\* numbers.
Fresh(c) ==
  LET number == Cardinality(Referred(c)) + Cardinality(DOMAIN c.tables)
  IN CHOOSE f \in [DOMAIN c.tables -> 1..number \ Referred(c)] : \A p, q \in DOMAIN f : p # q => f[p] # f[q]

\* A decoder for every table, and its section filter.
AttachDecoders(c) ==
  LET fresh == Fresh(c)
  IN [c EXCEPT !.tables = fresh, !.attached = (c.attached \cap Referred(c)) \cup Values(fresh),
               !.groups = [g \in DOMAIN c.groups |-> IF g = c.tsgroup THEN fresh ELSE c.groups[g]]]

ForgetTables(c) == [c EXCEPT !.tables = <<>>]

\* ClearTableInfo, in one go; commands do it in steps.
ClearTableInfo(c) ==
  IF c.tsgroup = NoGroup THEN ForgetTables(c) ELSE ForgetTables(DetachDecoders(RemoveFilters(c)))
-----------------------------------------------------------------------------
(* Commands. *)

Start   == <<"create", "attach">>
Stop    == IF standard = "DVB" THEN <<"destroy", "detach", "clear">> ELSE <<"remove", "detach", "destroy">>
Restart == IF standard = "DVB" THEN <<"remove", "detach", "attach">>
           ELSE IF capture.tsgroup = NoGroup THEN Start ELSE <<"remove", "detach", "attach">>

Do(step, c) ==
  CASE step = "create"  -> CreateGroup(c)
    [] step = "attach"  -> AttachDecoders(c)
    [] step = "remove"  -> RemoveFilters(c)
    [] step = "detach"  -> IF standard = "DVB" THEN DetachDecoders(c) ELSE ForgetTables(DetachDecoders(c))
    [] step = "destroy" -> IF standard = "DVB" THEN DestroyGroup(c) ELSE [DestroyGroup(c) EXCEPT !.tsgroup = NoGroup]
    [] step = "clear"   -> [c EXCEPT !.tsgroup = NoGroup, !.tables = [p \in DVBPids |-> NoDecoder]]

Busy(x) == calls[x] # <<>>
Others(x) == \E y \in Caller \ {x} : Busy(y)

\* Only dvbtoepg looks whether it has been started.
CommandEPGCapStart(x) == (standard = "DVB" => capture.tsgroup = NoGroup) /\ calls' = [calls EXCEPT ![x] = Start]
CommandEPGCapStop(x)  == capture.tsgroup # NoGroup /\ calls' = [calls EXCEPT ![x] = Stop]
CommandEPGCapRestart(x) ==
  /\ standard = "DVB" => capture.tsgroup # NoGroup
  /\ calls' = [calls EXCEPT ![x] = Restart]

Command(x) ==
  /\ ~Busy(x) /\ ~misfed /\ ~raced   \* (bound: none after a race)
  /\ CommandEPGCapStart(x) \/ CommandEPGCapStop(x) \/ CommandEPGCapRestart(x)
  /\ raced' = (raced \/ Others(x))
  /\ UNCHANGED <<standard, onAir, received, unaware, mgt, capture, waiting, reported, nownext, messages, forgotten, doubled, misfed>>

CommandGoesOn(x) ==
  /\ Busy(x) /\ ~misfed
  /\ LET step == Head(calls[x])
         next == Do(step, capture)
     IN /\ step = "create" => Cardinality(DOMAIN capture.groups) < MaxGroups
        /\ capture' = next
        /\ doubled' = (doubled \/ (step = "create" /\ capture.tsgroup # NoGroup))
        /\ forgotten' = (forgotten \/ (step = "detach" /\ standard = "ATSC"))
        /\ misfed' = next.twice
  /\ calls' = [calls EXCEPT ![x] = Tail(@)]
  /\ UNCHANGED <<standard, onAir, received, unaware, mgt, waiting, reported, nownext, messages, raced>>
-----------------------------------------------------------------------------
(* The packet loop, the tuner and deferred processing. *)

Meets == raced' = (raced \/ \E x \in Caller : Busy(x))

Tune(m) ==
  /\ m # onAir /\ ~raced
  /\ onAir' = m /\ unaware' = TRUE /\ mgt' = FALSE
  /\ UNCHANGED <<standard, received, capture, calls, waiting, reported, nownext, messages, raced, forgotten, doubled, misfed>>

\* The front end is a thread's of its own: the packets of the multiplex before
\* may come for a while, and after the groups were told.
FrontEndTuned ==
  /\ received # onAir /\ received' = onAir
  /\ UNCHANGED <<standard, onAir, unaware, mgt, capture, calls, waiting, reported, nownext, messages, raced, forgotten, doubled, misfed>>

\* Every group calls back, also one that was started twice and lost, and that
\* whose MGT is then received again.
FilterGroupEventCallback ==
  /\ unaware /\ ~misfed
  /\ unaware' = FALSE /\ mgt' = FALSE
  /\ LET c == capture
         again == IF standard = "ATSC" THEN ClearTableInfo(c)
                  ELSE AttachDecoders(IF DecodersOf(c) = {} THEN c ELSE DetachDecoders(RemoveFilters(c)))
     IN capture' = IF DOMAIN c.groups = {} \/ c.tsgroup = NoGroup THEN c ELSE again
  /\ misfed' = capture'.twice
  /\ Meets
  /\ UNCHANGED <<standard, onAir, received, calls, waiting, reported, nownext, messages, forgotten, doubled>>

\* Mutant: capture does not start again for the new tables.
NewMGTOnly ==
  /\ standard = "ATSC" /\ ~mgt /\ ~misfed
  /\ mgt' = (received = onAir) /\ forgotten' = FALSE
  /\ capture' = [ClearTableInfo(capture) EXCEPT !.tables = [p \in OnAir[received] |-> NoDecoder]]
  /\ misfed' = capture'.twice
  /\ Meets
  /\ UNCHANGED <<standard, onAir, received, unaware, calls, waiting, reported, nownext, messages, doubled>>

NewMGT ==
  /\ standard = "ATSC" /\ ~mgt /\ ~misfed
  /\ mgt' = (received = onAir) /\ forgotten' = FALSE
  /\ LET listed == [ClearTableInfo(capture) EXCEPT !.tables = [p \in OnAir[received] |-> NoDecoder]]
     IN capture' = IF capture.tsgroup = NoGroup THEN listed ELSE AttachDecoders(listed)
  /\ misfed' = capture'.twice
  /\ Meets
  /\ UNCHANGED <<standard, onAir, received, unaware, calls, waiting, reported, nownext, messages, doubled>>

\* The MGT is sent in a new version.
NewVersion ==
  /\ mgt /\ mgt' = FALSE
  /\ UNCHANGED <<standard, onAir, received, unaware, capture, calls, waiting, reported, nownext, messages, raced, forgotten, doubled, misfed>>

\* A table with events arrives on a PID; noted with it is the multiplex that is
\* current now (atsctoepg) or that the table itself names (dvbtoepg).
ProcessEIT(g, p) ==
  /\ ~misfed /\ g \in DOMAIN capture.groups /\ p \in DOMAIN capture.groups[g]
  /\ standard = "ATSC" => p \in OnAir[received]
  /\ LET live == capture.groups[g][p] \in capture.attached
     IN /\ misfed' = ~live
        /\ waiting' = IF live THEN Append(waiting, [from |-> received, current |-> onAir,
                                                              noted |-> IF standard = "DVB" THEN received ELSE onAir]) ELSE waiting
  /\ Len(waiting) < MaxEvents
  /\ UNCHANGED <<standard, onAir, received, unaware, mgt, capture, calls, reported, nownext, messages, raced, forgotten, doubled>>

\* Mutant: the multiplex is looked up when the job runs.
ProcessForCurrent ==
  /\ waiting # <<>> /\ ~misfed
  /\ reported' = [Head(waiting) EXCEPT !.noted = onAir]
  /\ waiting' = Tail(waiting)
  /\ UNCHANGED <<standard, onAir, received, unaware, mgt, capture, calls, nownext, messages, raced, forgotten, doubled, misfed>>

DeferredProcessEIT ==
  /\ waiting # <<>> /\ ~misfed
  /\ reported' = Head(waiting)
  /\ waiting' = Tail(waiting)
  /\ UNCHANGED <<standard, onAir, received, unaware, mgt, capture, calls, nownext, messages, raced, forgotten, doubled, misfed>>
-----------------------------------------------------------------------------
(* Now and next. An event is known by a number; 0 is an empty text. The     *)
(* packet loop writes a table over a service's two events one field after   *)
(* the other, while a command reads them.                                   *)

Blank == [times |-> 0, name |-> 0, description |-> 0]

\* Of the event before only the start of its name is cleared, the size of
\* another type.
Cleared(shown) == [shown EXCEPT !.name = 0]

\* Of an event its first n fields: the times, and the name and the description
\* if it has them.
UpdateEvent(shown, e, n) ==
  [times |-> IF n >= 1 THEN e.id ELSE shown.times,
   name |-> IF n >= 2 /\ e.short THEN e.id ELSE shown.name,
   description |-> IF n >= 3 /\ e.short THEN e.id ELSE shown.description]

\* Both events are cleared, then the three fields of each written.
Writes == 8
Reads  == 4
Written(i, n) ==
  IF n < i THEN info.was[i]
  ELSE IF i > Len(info.events) THEN Cleared(info.was[i])
  ELSE UpdateEvent(Cleared(info.was[i]), info.events[i], n - (3 * i - 1))

Unread(i, n) == [of |-> i, done |-> n, times |-> {}, name |-> {}, description |-> {}]
NowNext(i) == Written(i, info.written)

\* A command that is under way has read before and will read after. (bound: what
\* it reads is not kept)
Tear ==
  IF reading.done = Reads THEN UNCHANGED <<reading, torn>>
  ELSE torn' = TRUE /\ reading' = Unread(reading.of, reading.done)

ProcessPFEIT(events) ==
  /\ standard = "now" /\ info.written = 0
  /\ info' = [info EXCEPT !.events = events, !.written = 1]
  /\ Tear
  /\ UNCHANGED <<standard, onAir, received, unaware, mgt, capture, calls, waiting, reported, messages, raced, forgotten, doubled, misfed>>

WriteOn ==
  /\ info.written # 0
  /\ info' = IF info.written + 1 < Writes THEN [info EXCEPT !.written = @ + 1]
             ELSE [was |-> [i \in 1..2 |-> Written(i, Writes)], events |-> <<>>, written |-> 0]
  /\ Tear
  /\ UNCHANGED <<standard, onAir, received, unaware, mgt, capture, calls, waiting, reported, messages, raced, forgotten, doubled, misfed>>

\* One command of many: they do not meet each other.
CommandNow(i) ==
  /\ standard = "now" /\ reading.done = Reads
  /\ reading' = Unread(i, 0)
  /\ torn' = (info.written # 0)
  /\ UNCHANGED <<standard, onAir, received, unaware, mgt, capture, calls, waiting, reported, info, messages, raced, forgotten, doubled, misfed>>

\* The times are read first, then printed are the name, the times with what is
\* read again, and the description. (bound: as in Tear)
PrintEvent ==
  /\ reading.done < Reads
  /\ LET p == NowNext(reading.of)
         reads(n, value) == IF reading.done \in n /\ ~torn THEN {value} ELSE {}
     IN reading' = [reading EXCEPT !.done = @ + 1,
                                   !.times = @ \cup reads({0, 2}, p.times),
                                   !.name = @ \cup reads({1}, p.name),
                                   !.description = @ \cup reads({3}, p.description)]
  /\ UNCHANGED <<standard, onAir, received, unaware, mgt, capture, calls, waiting, reported, info, torn, messages, raced, forgotten, doubled, misfed>>

-----------------------------------------------------------------------------
(* An event goes out as a message of its own, then others for what each of *)
(* its descriptors carries, the extended texts of a language together at   *)
(* the end. A text is known by the place of its descriptor.                *)

Extended(ds, lang) == {i \in DOMAIN ds : ds[i].kind = "extended" /\ ds[i].lang = lang}

\* The parts in the order of their numbers; of two with one number the later.
Parts(ds, lang) ==
  LET extended == Extended(ds, lang)
      parts == {i \in extended : \A j \in extended : ds[j].number = ds[i].number => j <= i}
  IN CHOOSE texts \in [1..Cardinality(parts) -> parts] :
       \A k, l \in DOMAIN texts : k < l => ds[texts[k]].number < ds[texts[l]].number

Message(what, lang, texts) == [what |-> what, lang |-> lang, texts |-> texts]
ShortEvent(d, i) == <<Message("title", d.lang, <<i>>), Message("description", d.lang, <<i>>)>>
ParentalRating(d, i) == <<Message("rating", d.lang, <<i>>)>>
ContentId(d, i) == IF d.number = 0 THEN <<>> ELSE <<Message(IF d.number = 1 THEN "content" ELSE "series", "zxx", <<i>>)>>
\* All there is in an event of ATSC; its description comes in a table of its own.
TitleString(d, i) == <<Message("title", d.lang, <<i>>)>>

Sent(ds, i) ==
  CASE ds[i].kind = "short"  -> ShortEvent(ds[i], i)
    [] ds[i].kind = "rating" -> ParentalRating(ds[i], i)
    [] ds[i].kind = "crid"   -> ContentId(ds[i], i)
    [] ds[i].kind = "title"  -> TitleString(ds[i], i)
    [] OTHER -> <<>>

\* All extended texts of a language, sent in the place of the first.
Together(ds, i) ==
  LET extended == Extended(ds, ds[i].lang)
  IN IF i \in extended /\ \A j \in extended : i <= j
     THEN <<Message("description", ds[i].lang, Parts(ds, ds[i].lang))>> ELSE <<>>
ProcessEvent(ds) ==
  <<<<Message("new", "none", <<>>)>>>> \o [i \in DOMAIN ds |-> Sent(ds, i)] \o [i \in DOMAIN ds |-> Together(ds, i)]

ShowEvent(ds) ==
  /\ messages.are = <<>>   \* (bound: one event)
  /\ messages' = [of |-> ds, are |-> ProcessEvent(ds)]
  /\ UNCHANGED <<standard, onAir, received, unaware, mgt, capture, calls, waiting, reported, nownext, raced, forgotten, doubled, misfed>>
-----------------------------------------------------------------------------
EpgInit ==
  /\ standard \in {"DVB", "ATSC", "now", "sent"}
  /\ onAir \in DOMAIN OnAir /\ received = onAir /\ unaware = FALSE /\ mgt = FALSE
  /\ capture = [groups |-> <<>>, tsgroup |-> NoGroup, attached |-> {}, twice |-> FALSE,
                tables |-> IF standard = "DVB" THEN [p \in DVBPids |-> NoDecoder] ELSE <<>>]
  /\ calls = [x \in Caller |-> <<>>]
  /\ waiting = <<>> /\ reported = [from |-> onAir, current |-> onAir, noted |-> onAir]
  /\ info = [was |-> [i \in 1..2 |-> Blank], events |-> <<>>, written |-> 0]
  /\ reading = Unread(1, Reads) /\ torn = FALSE
  /\ messages = [of |-> <<>>, are |-> <<>>]
  /\ raced = FALSE /\ forgotten = FALSE /\ doubled = FALSE /\ misfed = FALSE

\* The events of a table, of which no two are one.
ShownEvents == [id : 1..2, short : BOOLEAN]
Tables == {<<>>} \cup [1..1 -> ShownEvents] \cup {t \in [1..2 -> ShownEvents] : t[1].id # t[2].id}

EpgNext ==
  \/ \E x \in Caller : standard \in {"DVB", "ATSC"} /\ Command(x)
  \/ \E x \in Caller : CommandGoesOn(x)
  \/ \E m \in DOMAIN OnAir : standard \in {"DVB", "ATSC"} /\ Tune(m)
  \/ FrontEndTuned
  \/ FilterGroupEventCallback
  \/ NewMGT
  \/ NewVersion
  \/ \E g \in 1..MaxGroups, p \in UNION {OnAir[m] : m \in DOMAIN OnAir} \cup DVBPids : ProcessEIT(g, p)
  \/ DeferredProcessEIT
  \/ \E events \in Tables : ProcessPFEIT(events)
  \/ WriteOn
  \/ \E i \in 1..2 : CommandNow(i)
  \/ PrintEvent
  \/ standard = "sent" /\ \E ds \in Contents : ShowEvent(ds)

EpgSpec == EpgInit /\ [][EpgNext]_epg
-----------------------------------------------------------------------------
(* Properties. *)

\* While nothing is under way, capture has a filter on every PID the last MGT
\* of the multiplex names, or on both PIDs of DVB; except, with ATSC, from a
\* restart or a stop to the next MGT: what it said has been forgotten. No other
\* group captures beside it, unless it was started twice.
CaptureFollows ==
  (/\ capture.tsgroup # NoGroup /\ ~unaware /\ ~forgotten /\ ~misfed
   /\ (standard = "ATSC" => mgt) /\ \A x \in Caller : ~Busy(x))
    => /\ DOMAIN capture.groups[capture.tsgroup] = IF standard = "ATSC" THEN OnAir[onAir] ELSE DVBPids
       /\ Cardinality(DOMAIN capture.groups) > 1 => doubled

\* No section reaches a decoder that is gone, and none is detached twice,
\* unless a command and another, or the packet loop, were inside the same
\* functions. An event is reported for the multiplex it was received on, also
\* when its job runs after a change; except, with ATSC, where its table was decoded
\* when another was current already (atsctoepg.c:235): then for that one. And its
\* extended text in each language, whose parts come in any order among its
\* descriptors, is whole and in order.
EventsAttributed ==
  /\ misfed => raced
  /\ reported.noted = IF standard = "ATSC" THEN reported.current ELSE reported.from
  /\ \A k \in DOMAIN messages.are : \A n \in DOMAIN messages.are[k] :
       LET m == messages.are[k][n]
           number(i) == messages.of[m.texts[i]].number
       IN Len(m.texts) > 1 =>
            /\ \A i, j \in DOMAIN m.texts : i < j => number(i) < number(j)
            /\ {number(i) : i \in DOMAIN m.texts} = {messages.of[i].number : i \in Extended(messages.of, m.lang)}

\* A name that is printed belongs to the event whose times and description are
\* printed with it; except that without a name they may be those of an event before,
\* and that what is printed while a table is written over it is of any of them:
\* nothing keeps the two apart.
NowNextAgree ==
  (reading.done = Reads /\ ~torn /\ reading.name # {0})
    => reading.times = reading.name /\ reading.description = reading.name

\* What is on the air is captured, and what is reported as the event of a
\* multiplex, and shown as now and next, is of one event.
CaptureSound == CaptureFollows /\ EventsAttributed /\ NowNextAgree

=============================================================================
