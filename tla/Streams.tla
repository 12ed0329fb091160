-------------------------------- MODULE Streams --------------------------------
(***************************************************************************)
(* What a service filter sends (servicefilter.c) and what comes out of the  *)
(* instance it sends to: a file with room for a header at its start         *)
(* (plugins/fileoutput.c), or datagrams (plugins/udpoutput.c), which are     *)
(* announced to the network while there is a session for them               *)
(* (plugins/sap.c).                                                         *)
(*                                                                         *)
(* Announcements and streams share nothing: a behaviour is of one of them,  *)
(* or takes apart one name of a destination.                                *)
(***************************************************************************)
EXTENDS Integers, Sequences, FiniteSets, SequencesExt

CONSTANTS Watched,        \* services
          PMTLength,      \* per service the packets of its PMT
          PMT_PACKETS,    \* room in a header, beside the one for the PAT
          MAX_TS_PACKETS_PER_DATAGRAM,
          SequenceMod,    \* the numbers RTP datagrams can have (65536 in the code)
          MaxFed,         \* bound: packets that reach the filter
          MaxChanges,     \* bound: orders to the filter
          Address,        \* multicast addresses, as their four bytes
          MaxSessions,    \* bound: sessions ever made
          MaxAnnounced,   \* bound: announcements
          MRLs,           \* destinations: v6, host, port, ttl, name and how many are given
          Behind,         \* digits there may be in memory behind the copied ones of the hops
          HOST_ROOM, PORT_ROOM, NAME_ROOM  \* room for the texts of a destination, each with its end

VARIABLES topic,     \* "stream", "sap" or "mrl"
          sf,        \* the service filter
          fed,       \* what it has sent to its instance, in order
          outlet,    \* the instance
          written,   \* the last header written, for which service, and how settled
          sap,       \* the list of sessions and what is known of each
          parsed     \* a destination and what it was taken for

streamVars == <<topic, sf, fed, outlet, written, sap, parsed>>

HEADER_PACKETS == 1 + PMT_PACKETS
CountMod == 16
NullPacket == [pid |-> "null", service |-> "none", k |-> 0]
PATOf(s, count) == [pid |-> "PAT", service |-> s, k |-> count]
PMTOf(s, k) == [pid |-> "PMT", service |-> s, k |-> k]
AVOf(s) == [pid |-> "AV", service |-> s, k |-> 1]     \* the rewritten PMT, in one packet

-----------------------------------------------------------------------------
(* Instances *)

\* FileOutputCreate, UDPOutputCreate.
NewOutlet(kind) ==
  [kind |-> kind, content |-> IF kind = "appended" THEN <<NullPacket>> ELSE <<>>, pending |-> <<>>, datagrams |-> <<>>, sequence |-> 0]

IsFile(o) == o.kind \in {"file", "appended"}

\* FileReserveHeaderSpace
ReserveHeaderSpace(o) ==
  IF IsFile(o) THEN [o EXCEPT !.content = @ \o [i \in 1..HEADER_PACKETS |-> NullPacket]] ELSE o

\* FileSetHeader: over what is at the start of the file; what is opened to append is
\* written at its end wherever it was wound to.
SetHeader(o, packets) ==
  CASE o.kind = "file" -> [o EXCEPT !.content =
                             [i \in DOMAIN @ |-> IF i <= Len(packets) THEN packets[i] ELSE @[i]]]
    [] o.kind = "appended" -> [o EXCEPT !.content = @ \o packets]
    [] OTHER -> o

\* Mutant of SendPacket: the count of packets is not reset.
SendPacketAgain(o, p) ==
  LET full == Append(o.pending, p)
  IN  IF IsFile(o) THEN [o EXCEPT !.content = Append(@, p)]
      ELSE IF Len(full) < MAX_TS_PACKETS_PER_DATAGRAM THEN [o EXCEPT !.pending = full]
      ELSE [o EXCEPT !.datagrams = Append(@, [number |-> o.sequence, packets |-> full]),
                     !.sequence = IF o.kind = "rtp" THEN (@ + 1) % SequenceMod ELSE @]

\* FileOutputSendPacket, UDPOutputSendPacket, RTPOutputSendPacket
SendPacket(o, p) ==
  LET full == Append(o.pending, p)
  IN  IF IsFile(o) THEN [o EXCEPT !.content = Append(@, p)]
      ELSE IF Len(full) < MAX_TS_PACKETS_PER_DATAGRAM THEN [o EXCEPT !.pending = full]
      ELSE [o EXCEPT !.datagrams = Append(@, [number |-> o.sequence, packets |-> full]),
                     !.pending = <<>>,
                     !.sequence = IF o.kind = "rtp" THEN (@ + 1) % SequenceMod ELSE @]

-----------------------------------------------------------------------------
(* The service filter *)

\* The PMT is taken from one start of a section to the next: what came in between is
\* the header's then.  What came before the first start is taken for a section too.
TakePMT(f, p) ==
  LET whole == p.k = 1 /\ f.pmtPackets # <<>>
      taken == IF ~whole THEN f
               ELSE [f EXCEPT !.headerGotPMT = TRUE, !.headerCount = 1 + Len(f.pmtPackets),
                              !.header = [i \in DOMAIN @ |-> IF i \in 2..(1 + Len(f.pmtPackets))
                                                             THEN f.pmtPackets[i - 1] ELSE @[i]]]
      begun == IF p.k = 1 THEN [taken EXCEPT !.pmtPackets = <<>>, !.starts = IF @ < 2 THEN @ + 1 ELSE 2]
               ELSE taken
  IN  [begun EXCEPT !.pmtPackets = IF Len(@) < PMT_PACKETS THEN Append(@, p) ELSE @]

\* ServiceFilterProcessPacket, once it is known what becomes of the packet.
Send(f, p) ==
  LET due    == f.setHeader /\ f.headerGotPMT
      header == SubSeq(f.header, 1, f.headerCount)
  IN  /\ Len(fed) < MaxFed
      /\ outlet' = SendPacket(IF due THEN SetHeader(outlet, header) ELSE outlet, p)
      /\ sf' = IF due THEN [f EXCEPT !.setHeader = FALSE] ELSE f
      /\ written' = IF due /\ IsFile(outlet)
                    THEN [header |-> header, service |-> f.service, avsOnly |-> f.avsOnly,
                          settled |-> f.starts = 2]
                    ELSE written
      /\ fed' = Append(fed, p)
      /\ UNCHANGED <<topic, sap, parsed>>

\* The PAT is replaced by the filter's own, with its own count.
SendPAT ==
  LET pat == PATOf(sf.service, sf.patCount)
  IN  Send([sf EXCEPT !.patCount = (@ + 1) % CountMod, !.header[1] = pat], pat)

\* So is the PMT if only one stream of a kind is wanted.
SendPMT ==
  LET p == PMTOf(sf.service, sf.onAir)
      f == [sf EXCEPT !.onAir = (@ % PMTLength[sf.service]) + 1]
  IN  IF sf.avsOnly THEN Send(f, sf.header[2]) ELSE Send(TakePMT(f, p), p)

SendStream == Send(sf, [pid |-> "video", service |-> sf.service, k |-> 0])

PATRewrite(f) == [f EXCEPT !.header[1] = PATOf(f.service, f.patCount)]
PMTRewrite(f) == [f EXCEPT !.header[2] = AVOf(f.service), !.headerGotPMT = TRUE, !.headerCount = 2]

Changed(f) == /\ sf.changes < MaxChanges
              /\ sf' = [f EXCEPT !.changes = @ + 1, !.starts = 0]

\* ServiceFilterServiceSet: what was kept of the service before it stays.
ServiceFilterServiceSet(s) ==
  LET f == PATRewrite([sf EXCEPT !.service = s])
  IN  /\ \E k \in 1..PMTLength[s] : Changed([(IF sf.avsOnly THEN PMTRewrite(f) ELSE f) EXCEPT !.onAir = k])
      /\ UNCHANGED <<topic, fed, outlet, written, sap, parsed>>

ServiceFilterAVSOnlySet(enable) ==
  LET f == [sf EXCEPT !.avsOnly = enable]
  IN  /\ enable # sf.avsOnly
      /\ Changed(IF enable THEN PMTRewrite(f) ELSE f)
      /\ UNCHANGED <<topic, fed, outlet, written, sap, parsed>>

\* The PMT is rewritten, whether or not it is wanted so.
ServiceFilterPIDSUpdatedListener ==
  /\ Changed(PMTRewrite(sf))
  /\ UNCHANGED <<topic, fed, outlet, written, sap, parsed>>

\* ServiceFilterDeliveryMethodSet.
ServiceFilterDeliveryMethodSet(kind) ==
  /\ sf.changes < MaxChanges
  /\ outlet' = ReserveHeaderSpace(NewOutlet(kind))
  /\ sf' = [sf EXCEPT !.setHeader = TRUE, !.changes = @ + 1]
  /\ fed' = <<>>
  /\ UNCHANGED <<topic, written, sap, parsed>>

Unwritten == [header |-> <<>>, service |-> "none", avsOnly |-> FALSE, settled |-> FALSE]

StreamInit ==
  /\ \E s \in Watched, kind \in {"file", "appended", "udp", "rtp"} :
       /\ sf = [service |-> s, avsOnly |-> FALSE, patCount |-> 0, pmtPackets |-> <<>>, onAir |-> 1,
                setHeader |-> TRUE, headerCount |-> 0, headerGotPMT |-> FALSE,
                header |-> [i \in 1..HEADER_PACKETS |-> IF i = 1 THEN PATOf(s, 0) ELSE NullPacket],
                starts |-> 0, changes |-> 0]
       /\ outlet = ReserveHeaderSpace(NewOutlet(kind))
  /\ fed = <<>> /\ written = Unwritten

StreamStep ==
  \/ SendPAT \/ SendPMT \/ SendStream
  \/ \E s \in Watched : ServiceFilterServiceSet(s)
  \/ \E enable \in BOOLEAN : ServiceFilterAVSOnlySet(enable)
  \/ ServiceFilterPIDSUpdatedListener
  \/ \E kind \in {"file", "appended", "udp", "rtp"} : ServiceFilterDeliveryMethodSet(kind)

-----------------------------------------------------------------------------
(* Announcements *)

NotAnnounced == [id |-> 0, deleted |-> FALSE, freed |-> FALSE, address |-> <<>>, group |-> <<>>]

\* DetermineSAPMulticast: the last address of the scope the address is in.
DetermineSAPMulticast(a) ==
  CASE SubSeq(a, 1, 3) = <<224, 0, 0>> -> <<224, 0, 0, 255>>
    [] SubSeq(a, 1, 2) = <<239, 255>> -> <<239, 255, 255, 255>>
    [] a[1] = 239 /\ a[2] \in 192..195 -> <<239, 195, 255, 255>>
    [] OTHER -> <<224, 2, 127, 254>>

\* CreateSAPSession and SAPServerAddSession, of an output to a multicast address
\* (IsMulticastAddress); there is none if this host has no address.
AddSession(a) ==
  /\ sap.made < MaxSessions
  /\ a[1] \in 224..239
  /\ sap' = [sap EXCEPT !.made = @ + 1, !.list = Append(@, sap.made + 1),
                        !.address = Append(@, a)]

\* SAPServerDeleteSession: to the front of the list, to be announced as gone.
DeleteSession(id) ==
  /\ id \in ToSet(sap.list) \ sap.deleted
  /\ sap' = [sap EXCEPT !.deleted = @ \cup {id}, !.list = <<id>> \o SelectSeq(@, LAMBDA t : t # id)]

\* AnnouncementCallback, every second: the first of the list, which goes to its end; one
\* that is deleted is freed before it is read, and what is sent may be anything.
\* "since": which sessions have been announced since another was.
AnnouncementCallback ==
  /\ sap.list # <<>> /\ sap.announced < MaxAnnounced
  /\ LET id   == Head(sap.list)
         gone == id \in sap.deleted
         rest == IF gone THEN Tail(sap.list) ELSE Append(Tail(sap.list), id)
         now  == {<<t, id>> : t \in ToSet(rest) \ {id}}
     IN  sap' = [sap EXCEPT
           !.list = rest, !.announced = @ + 1,
           !.last = [id |-> id, deleted |-> gone, freed |-> gone, address |-> sap.address[id],
                     group |-> DetermineSAPMulticast(sap.address[id])],
           !.since = IF gone THEN @ ELSE {p \in @ : p[1] # id} \cup now,
           !.again = @ \/ (~gone /\ sap.since \cap now # {}),
           !.byes = IF gone THEN Append(@, id) ELSE @]

SAPStep ==
  /\ \/ \E a \in Address : AddSession(a)
     \/ \E id \in 1..sap.made : DeleteSession(id)
     \/ AnnouncementCallback
  /\ UNCHANGED <<topic, sf, fed, outlet, written, parsed>>

-----------------------------------------------------------------------------
(* Destinations: <host>:<port>:<ttl>:<session name>, or [<host>]:... *)

UpTo(mrl, stop) ==
  LET i == SelectInSeq(mrl, LAMBDA c : c = stop) IN IF i = 0 THEN mrl ELSE SubSeq(mrl, 1, i - 1)
After(mrl, n) == SubSeq(mrl, n + 1, Len(mrl))

DEFAULT_HOST == <<"localhost">>
DEFAULT_PORT == <<"1234">>
DEFAULT_NAME == <<"DVBStreamer">>
Digits == <<"0", "1", "2", "3", "4", "5", "6", "7", "8", "9">>

FirstThree(digits) == IF Len(digits) > 3 THEN SubSeq(digits, 1, 3) ELSE digits

\* atoi: the number the digits at the start of a text make.
DigitOf(c) == SelectInSeq(Digits, LAMBDA digit : digit = c) - 1
AtoI(text) ==
  LET other == SelectInSeq(text, LAMBDA c : c \notin ToSet(Digits))
  IN  FoldLeft(LAMBDA n, c : 10 * n + DigitOf(c), 0, IF other = 0 THEN text ELSE SubSeq(text, 1, other - 1))

\* UDPOutputCreate.  Three digits of the hops are copied, and no end to them: the
\* number goes on with the digits that happen to be behind them in memory.
UDPTarget(mrl, behind) ==
  LET Part(rest) == IF rest # <<>> /\ Head(rest) = ":" THEN UpTo(Tail(rest), ":") ELSE <<>>
      Rest(rest) == IF rest # <<>> /\ Head(rest) = ":" THEN After(rest, 1 + Len(Part(rest))) ELSE rest
      v6    == mrl # <<>> /\ Head(mrl) = "["
      host  == IF v6 THEN UpTo(Tail(mrl), "]") ELSE UpTo(mrl, ":")
      back  == IF v6 THEN After(mrl, 1 + Len(host)) ELSE After(mrl, Len(host))
      rest1 == IF v6 /\ back # <<>> THEN Tail(back) ELSE back
      port  == Part(rest1)
      rest2 == Rest(rest1)
      more  == rest2 # <<>> /\ Head(rest2) = ":"
      hops  == FirstThree(Part(rest2))
      rest3 == IF more THEN After(rest2, 1 + Len(hops)) ELSE rest2
  IN  [host |-> IF host = <<>> THEN DEFAULT_HOST ELSE host,
       port |-> IF port = <<>> THEN DEFAULT_PORT ELSE port,
       ttl  |-> IF more THEN AtoI(hops \o behind) % 256 ELSE 1,
       name |-> IF rest3 # <<>> /\ Head(rest3) = ":" THEN Tail(rest3) ELSE DEFAULT_NAME]

\* Host and port are copied into buffers, and the name into a line of an
\* announcement, whatever their length; each has an end behind it.
Overruns(target, announced) ==
  \/ Len(target.host) >= HOST_ROOM \/ Len(target.port) >= PORT_ROOM
  \/ announced /\ Len(target.name) >= NAME_ROOM

\* The text for the first "given" of the fields of a destination.
Spelled(d) ==
  (IF d.v6 THEN <<"[">> \o d.host \o <<"]">> ELSE d.host)
    \o (IF d.given > 1 THEN <<":">> \o d.port ELSE <<>>)
    \o (IF d.given > 2 THEN <<":">> \o d.ttl ELSE <<>>)
    \o (IF d.given > 3 THEN <<":">> \o d.name ELSE <<>>)

Unparsed == [of |-> "nothing"]

\* There is no instance if the host cannot be found, or there is no memory or no socket
\* for it. Once a buffer was overrun nothing more is known. ("announced": to a
\* multicast address, by a host with an address of its own)
ParseMRL(d, behind, announced) ==
  LET target == UDPTarget(Spelled(d), behind)
      outcome(of) == [of |-> of, said |-> d, behind |-> behind, as |-> target]
  IN  /\ parsed = Unparsed
      /\ parsed' \in IF Overruns(target, announced) THEN {outcome("overrun")}
                     ELSE {outcome("destination"), outcome("refused")}
      /\ UNCHANGED <<topic, sf, fed, outlet, written, sap>>

-----------------------------------------------------------------------------
StreamsInit ==
  /\ topic \in {"stream", "sap", "mrl"}
  /\ StreamInit
  /\ sap = [list |-> <<>>, made |-> 0, address |-> <<>>, deleted |-> {}, announced |-> 0,
            last |-> NotAnnounced, since |-> {}, again |-> FALSE, byes |-> <<>>]
  /\ parsed = Unparsed

StreamsNext ==
  \/ topic = "stream" /\ StreamStep
  \/ topic = "sap" /\ SAPStep
  \/ topic = "mrl" /\ parsed = Unparsed /\ \E d \in MRLs, behind \in Behind, announced \in BOOLEAN : ParseMRL(d, behind, announced)

-----------------------------------------------------------------------------
\* What the filter sends comes out of its instance whole and in order: of a file behind
\* the room for the header, which stays a header's; in an appended file with the header
\* somewhere between; in full datagrams, numbered in order, but for the last.
StreamIsWhole ==
  LET room == SubSeq(outlet.content, 1, HEADER_PACKETS)
      nulls == [i \in 1..HEADER_PACKETS |-> NullPacket]
      h == written.header
  IN  CASE outlet.kind = "file" ->
             /\ SubSeq(outlet.content, HEADER_PACKETS + 1, Len(outlet.content)) = fed
             /\ room # nulls => room = [i \in 1..HEADER_PACKETS |-> IF i <= Len(h) THEN h[i] ELSE NullPacket]
        [] outlet.kind = "appended" ->
             \E i \in 0..Len(fed) :
               outlet.content = <<NullPacket>> \o nulls \o SubSeq(fed, 1, i)
                                \o (IF sf.setHeader THEN <<>> ELSE h) \o SubSeq(fed, i + 1, Len(fed))
        [] OTHER ->
             /\ FlattenSeq([i \in DOMAIN outlet.datagrams |-> outlet.datagrams[i].packets]) \o outlet.pending = fed
             /\ \A i \in DOMAIN outlet.datagrams :
                  /\ Len(outlet.datagrams[i].packets) = MAX_TS_PACKETS_PER_DATAGRAM
                  /\ outlet.kind = "rtp" => outlet.datagrams[i].number = (i - 1) % SequenceMod

\* A header names the service that is streamed, with the whole of its PMT, once a whole
\* section of it has passed since the filter was last changed; before that it may be
\* what was kept of another service, or the end of a section.
HeaderIsOfService ==
  LET s == written.service
  IN  /\ written.settled /\ ~written.avsOnly =>
           [written.header EXCEPT ![1].k = 0] = <<PATOf(s, 0)>> \o [k \in 1..PMTLength[s] |-> PMTOf(s, k)]
      /\ written.avsOnly => [written.header EXCEPT ![1].k = 0] = <<PATOf(s, 0), AVOf(s)>>

\* No session is announced twice before every other has been once; a session that is
\* deleted is announced as gone before anything else, once, and not again; only what
\* is sent then may be anything.  The group is the last address of the session's scope.
AnnouncedInTurn ==
  LET gone == {i \in DOMAIN sap.list : sap.list[i] \in sap.deleted}
      a == sap.last.address
      g == sap.last.group
  IN  /\ ~sap.again
      /\ gone = 1..Cardinality(gone)
      /\ IsInjective(sap.byes) /\ ToSet(sap.byes) = sap.deleted \ ToSet(sap.list)
      /\ sap.last.freed => sap.last.id \in sap.deleted
      /\ a # <<>> =>
           \/ g = <<224, 2, 127, 254>>
           \/ g[1] = a[1] /\ g[4] = 255
              /\ (g[2] # a[2] => g[2] = 195 /\ a[2] \in 192..194)
              /\ (g[3] # a[3] => g[3] = 255)

\* A destination is what its fields say, empty ones or those that are not given as they
\* are by default; a fourth digit of the hops takes the session's name with it. Except
\* for hops with a digit behind them in memory, and where a buffer was overrun.
DestinationRead ==
  parsed.of = "destination" =>
    LET d == parsed.said
        Given(n, field, default) == IF d.given >= n /\ field # <<>> THEN field ELSE default
    IN  /\ parsed.as.host = Given(1, d.host, DEFAULT_HOST)
        /\ parsed.as.port = Given(2, d.port, DEFAULT_PORT)
        /\ parsed.behind = <<>> =>
             parsed.as.ttl = IF d.given >= 3 THEN AtoI(FirstThree(d.ttl)) % 256 ELSE 1
        /\ d.given < 3 \/ Len(d.ttl) <= 3 =>
             parsed.as.name = IF d.given = 4 THEN d.name ELSE DEFAULT_NAME

\* What is sent reaches its destination as it was sent, under the right header, and is
\* announced while it lasts.
StreamsSound == StreamIsWhole /\ HeaderIsOfService /\ AnnouncedInTurn /\ DestinationRead

=============================================================================
