---------------------------- MODULE MCServiceTables ----------------------------
(* ServiceTables for TLC: two services on two multiplexes. One part of the    *)
(* behaviours has two values of what a table tells of a service or of its     *)
(* multiplex, and tables of the multiplex that is cached only; the other has  *)
(* one value, and tables of the multiplex before too.                         *)
EXTENDS ServiceTables

CONSTANTS m1, m2, a, b, old, new

VARIABLE part

\* The tables of the first multiplex list any of the services, the second with
\* one value only; the other multiplex has none.
TwoMux == {m1, m2}
Mixed == [m \in TwoMux |->
            IF m = m1
            THEN {t \in UNION {[S -> Value] : S \in SUBSET Id} : b \in DOMAIN t => t[b] = old}
            ELSE {<<>>}]

MCId == {a, b}
MCValue == {old, new}
MCField == {"PAT", "SDT"}

MCInit == Init /\ part \in {"values", "stale"}

MCNext ==
  /\ Next /\ UNCHANGED part
  /\ part = "values" => stale' = 0
  /\ part = "stale" => \A f \in Field : muxIds'[f] = old
  /\ part = "stale" => \A id \in DOMAIN content' : content'[id] = old

MCSpec == MCInit /\ [][MCNext]_<<vars, part>>

=============================================================================
