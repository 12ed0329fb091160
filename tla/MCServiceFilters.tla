--------------------------- MODULE MCServiceFilters ---------------------------
(* ServiceFilters for TLC: two services on one multiplex and a third on       *)
(* another, the primary filter and one more. Beside it Deliveries, and        *)
(* Streams with small datagrams and headers: they share nothing with what the *)
(* filters filter, so one behaviour is of one of them. To begin with the      *)
(* database has every stream of a service; its PMT may take some away.        *)
EXTENDS ServiceFilters, Deliveries, Streams

CONSTANTS m1, m2, s1, s2, s3, extra

VARIABLE part

MCMux == {m1, m2}
MCService == {s1, s2, s3}
MCMuxOf == [s \in MCService |-> IF s = s3 THEN m2 ELSE m1]
MCSecondary == {extra}
MCStream == {"video", "other"}
MCFirst == {"video"}
MCInfos == [s \in MCService |->
              IF s = s1 THEN {{"video"}, {"video", "other"}} ELSE {{"video", "other"}}]

\* The PMT of one service takes two packets.
MCPMTLength == [s \in {"news", "film"} |-> IF s = "news" THEN 2 ELSE 1]
MCAddress == {<<224, 0, 0, 9>>, <<239, 255, 3, 4>>, <<239, 194, 3, 4>>, <<239, 196, 3, 4>>}
\* A host between brackets may have colons.
Hosts(v6) == {<<>>, <<"h">>, <<"h", "1">>, <<"h", "1", "1">>} \cup (IF v6 THEN {<<"h", ":">>} ELSE {})
MCMRLs == UNION {[v6 : {v6}, host : Hosts(v6), port : {<<"1">>, <<>>, <<"1", "1">>},
                  ttl : {<<>>, <<"6">>, <<"2", "x">>, <<"2", "6", "1">>, <<"1", "1", "1", "1">>},
                  name : {<<"h">>, <<"h", ":", "h">>}, given : 1..4] : v6 \in BOOLEAN}
MCBehind == {<<>>, <<"7">>}

MCInit ==
  /\ part \in {"filters", "deliveries", "streams"}
  /\ Init /\ \A s \in Service : info[s] = Stream
  /\ DeliveriesInit
  /\ StreamsInit
  /\ \/ part = "streams" /\ topic = "stream"
     \/ (part = "streams" \/ topic = "sap") /\ sf.service = "news" /\ outlet.kind = "file"

MCNext ==
  \/ part = "filters" /\ Next /\ UNCHANGED <<part, deliveries, streamVars>>
  \/ part = "deliveries" /\ DeliveriesNext /\ UNCHANGED <<part, vars, streamVars>>
  \/ part = "streams" /\ StreamsNext /\ UNCHANGED <<part, vars, deliveries>>

\* The threads that give commands are alike, and so are the outputs' names.
Alike == Permutations(Commander) \cup Permutations(OutputName)

MCSpec == MCInit /\ [][MCNext]_<<part, vars, deliveries, streamVars>>

=============================================================================
