-------------------------------- MODULE MCPsi --------------------------------
(***************************************************************************)
(* A table of two sections and a table of one on the same PID, with a       *)
(* section that needs three packets and a packet that three sections share. *)
(* The buffers of the sections (SectionPool) share nothing with the packets, *)
(* so one behaviour is of one or the other.                                 *)
(***************************************************************************)
EXTENDS Psi, SectionPool

CONSTANTS a, b

VARIABLE part

At(d, n, k) == [sub |-> d, num |-> n, k |-> k]

TwoTables ==
  << <<At(a, 0, 1), At(a, 0, 2), At(a, 0, 3)>>,
     <<At(a, 0, 4), At(a, 0, 5), At(a, 0, 6)>>,
     <<At(a, 0, 7), At(a, 1, 1), At(b, 0, 1)>>,
     <<At(b, 0, 2), Stuffing, Stuffing>> >>

TwoLengths == a :> (0 :> 7 @@ 1 :> 1) @@ b :> (0 :> 2)
TwoNumbers == a :> {0, 1} @@ b :> {0}
TwoEnds    == a :> (0 :> 1 @@ 1 :> 1) @@ b :> (0 :> 0)

\* The kinds that are not here do what SDT does.
TwoMixes ==
  {a :> x @@ b :> x : x \in {SDT, EIT, ETT, TDT, Other}}
    \cup {a :> PAT @@ b :> Other, a :> VCT @@ b :> STT}

\* Every kind of decoder beside another.
PairMixes ==
  {a :> PAT @@ b :> PMT, a :> CAT @@ b :> ETT, a :> SDT @@ b :> NIT, a :> VCT @@ b :> STT,
   a :> MGT @@ b :> AEIT, a :> EIT @@ b :> TDT, a :> SDT @@ b :> Other}

MCInit ==
  /\ part \in {"packets", "buffers"}
  /\ Init /\ (part = "packets" \/ (kind = [d \in Sub |-> Other] /\ pos = 1))
  /\ PoolInit /\ (part = "buffers" \/ store.kind = a :> PAT @@ b :> PMT)

MCNext ==
  \/ part = "packets" /\ Next /\ UNCHANGED <<part, store>>
  \/ part = "buffers" /\ PoolNext /\ UNCHANGED <<part, vars>>
  \/ part = "buffers" /\ store.opens = MaxOpens /\ UNCHANGED <<part, vars, store>>   \* the bound

MCFairness == WF_<<vars, store>>(part = "packets" /\ Send /\ UNCHANGED <<part, store>>)

MCSpec == MCInit /\ [][MCNext]_<<part, vars, store>> /\ MCFairness

=============================================================================
