------------------------------ MODULE SectionPool ------------------------------
(***************************************************************************)
(* Who holds the buffers of sections (psi.c, sections.c, demux.c and the    *)
(* attaching, gathering and detaching of the decoders under dvbpsi/tables). *)
(*                                                                         *)
(* A section is put together in a buffer of the list's handle; every filter *)
(* of the list gets a copy of its own, which waits in the array of a        *)
(* decoder until the table is complete.  A buffer nobody needs goes to the *)
(* front of its handle's list of free ones, chained by p_next, from where   *)
(* the next section takes it; it is only freed with the handle.            *)
(*                                                                         *)
(* A handle is named by the tables it decodes, the list's handle, which    *)
(* decodes none, by the empty set.  Buffers are the numbers 1, 2, ... in   *)
(* the order they are made.                                                *)
(***************************************************************************)
EXTENDS Decoders

CONSTANTS PoolMixes,    \* which kind of decoder each table has
          MaxBuffers,   \* bound: the buffers made
          MaxOpens      \* bound: how often filters are opened

VARIABLE store  \* made, next: the buffers and their p_next; free: p_free_sections;
                \* current: p_current_section of the list's handle; open: the
                \* filters; fresh: those with b_discontinuity set; attached: the
                \* tables with a decoder; decoder; slot: ap_sections; gone: freed;
                \* lost: what nobody has any more; opens; kind

NoBuffer == 0

TheList == {}

Buffer == 1..MaxBuffers

-----------------------------------------------------------------------------
\* psi.c.

\* The buffers from b on, as p_next has them; cut short when it never ends.
Chain(P, b) ==
  LET onward(seen, i) ==
        IF seen = <<>> \/ P.next[seen[Len(seen)]] = NoBuffer THEN seen
        ELSE Append(seen, P.next[seen[Len(seen)]])
  IN  FoldLeft(onward, IF b = NoBuffer THEN <<>> ELSE <<b>>, [i \in Buffer |-> i])

\* The buffer that dvbpsi_ClaimPSISection returns: they all have one size, the
\* list's.
Claimed(P, h) == IF P.free[h] # NoBuffer THEN P.free[h] ELSE P.made + 1

\* Mutant of Claim: the chain goes with the buffer.
ClaimChained(P, h) ==
  IF P.free[h] = NoBuffer THEN [P EXCEPT !.made = @ + 1]
  ELSE [P EXCEPT !.free[h] = P.next[@]]

\* dvbpsi_ClaimPSISection, dvbpsi_NewPSISection.
Claim(P, h) ==
  IF P.free[h] = NoBuffer THEN [P EXCEPT !.made = @ + 1]
  ELSE [P EXCEPT !.free[h] = P.next[@], !.next[P.free[h]] = NoBuffer]

\* dvbpsi_ReleasePSISections: the whole chain goes to the front.
Release(P, h, b) ==
  LET chain == Chain(P, b)
  IN  [P EXCEPT !.next[chain[Len(chain)]] = P.free[h], !.free[h] = b]

\* dvbpsi_DeletePSISections.
Delete(P, b) == [P EXCEPT !.gone = @ \cup ToSet(Chain(P, b))]

-----------------------------------------------------------------------------
\* Attaching and detaching.

\* A decoder as it is when attached, its array empty.
Attach(P, d) ==
  [P EXCEPT !.attached = @ \cup {d}, !.decoder[d] = Attached,
            !.slot[d] = [n \in Numbers[d] |-> NoBuffer]]

\* A new handle without any section.
AttachHandle(P, h) == [P EXCEPT !.open = @ \cup {h}, !.fresh = @ \cup {h}]

\* A decoder with a handle of its own, and one in a demux, where a table has one only.
AttachAlone(P, d) == Attach(AttachHandle(P, {d}), d)
AttachSub(P, d)   == IF d \in P.attached THEN P ELSE Attach(P, d)

AttachPAT(P, d) == AttachAlone(P, d)
AttachPMT(P, d) == AttachAlone(P, d)
AttachCAT(P, d) == AttachAlone(P, d)
AttachETT(P, d) == AttachAlone(P, d)
AttachTDT(P, d) == AttachAlone(P, d)

AttachSDT(P, d) == AttachSub(P, d)
AttachNIT(P, d) == AttachSub(P, d)
AttachEIT(P, d) == AttachSub(P, d)
AttachVCT(P, d) == AttachSub(P, d)
AttachMGT(P, d) == AttachSub(P, d)
AttachSTT(P, d) == AttachSub(P, d)
AttachAEIT(P, d) == AttachSub(P, d)

\* The decoder of a table is attached (the processors, and their SubTableHandler).
AttachTable(P, d) ==
  CASE P.kind[d] = PAT  -> AttachPAT(P, d)
    [] P.kind[d] = PMT  -> AttachPMT(P, d)
    [] P.kind[d] = CAT  -> AttachCAT(P, d)
    [] P.kind[d] = ETT  -> AttachETT(P, d)
    [] P.kind[d] = TDT  -> AttachTDT(P, d)
    [] P.kind[d] = SDT  -> AttachSDT(P, d)
    [] P.kind[d] = NIT  -> AttachNIT(P, d)
    [] P.kind[d] = EIT  -> AttachEIT(P, d)
    [] P.kind[d] = VCT  -> AttachVCT(P, d)
    [] P.kind[d] = MGT  -> AttachMGT(P, d)
    [] P.kind[d] = STT  -> AttachSTT(P, d)
    [] P.kind[d] = AEIT -> AttachAEIT(P, d)

\* The buffers in its array, in the order of their numbers.
Slots(P, d) ==
  LET all == [i \in DOMAIN SetToSortSeq(Numbers[d], <) |-> P.slot[d][SetToSortSeq(Numbers[d], <)[i]]]
  IN  SelectSeq(all, LAMBDA b : b # NoBuffer)

Detach(P, d) == [Attach(P, d) EXCEPT !.attached = @ \ {d}]

\* The decoder goes and the buffers in its array with it.
DetachAll(P, d) ==
  Detach(FoldLeft(Delete, P, Slots(P, d)), d)

\* The decoder goes; of the buffers only the heads are freed, not their data.
DetachHeads(P, d) == Detach([P EXCEPT !.lost = @ \cup ToSet(Slots(P, d))], d)

DetachPAT(P, d) == DetachHeads(P, d)
DetachPMT(P, d) == DetachHeads(P, d)
DetachCAT(P, d) == DetachHeads(P, d)

DetachSDT(P, d) == DetachAll(P, d)
DetachNIT(P, d) == DetachAll(P, d)
DetachEIT(P, d) == DetachAll(P, d)
DetachVCT(P, d) == DetachAll(P, d)
DetachMGT(P, d) == DetachAll(P, d)
DetachAEIT(P, d) == DetachAll(P, d)

\* These have no array; an ETT's decoder has the versions of its texts.
DetachETT(P, d) == Detach(P, d)
DetachTDT(P, d) == Detach(P, d)
DetachSTT(P, d) == Detach(P, d)

\* The decoder of a table is detached (pf_detach of a table in a demux).
DetachTable(P, d) ==
  CASE P.kind[d] = PAT  -> DetachPAT(P, d)
    [] P.kind[d] = PMT  -> DetachPMT(P, d)
    [] P.kind[d] = CAT  -> DetachCAT(P, d)
    [] P.kind[d] = SDT  -> DetachSDT(P, d)
    [] P.kind[d] = NIT  -> DetachNIT(P, d)
    [] P.kind[d] = EIT  -> DetachEIT(P, d)
    [] P.kind[d] = VCT  -> DetachVCT(P, d)
    [] P.kind[d] = MGT  -> DetachMGT(P, d)
    [] P.kind[d] = AEIT -> DetachAEIT(P, d)
    [] P.kind[d] = ETT  -> DetachETT(P, d)
    [] P.kind[d] = TDT  -> DetachTDT(P, d)
    [] P.kind[d] = STT  -> DetachSTT(P, d)

\* A handle goes with its decoders and its free buffers (dvbpsi_DetachDemux).
CloseHandle(P, h) ==
  LET Q == FoldSet(LAMBDA d, R : DetachTable(R, d), P, P.attached \cap h)
  IN  [Delete(Q, Q.free[h]) EXCEPT !.free[h] = NoBuffer, !.open = @ \ {h}]

\* A new handle (dvbpsi_AttachDemux), where the tables of a demux have no decoder
\* before they are seen.
OpenHandle(P, h) ==
  IF \E d \in h : P.kind[d].demuxed THEN AttachHandle(P, h)
  ELSE FoldSet(LAMBDA d, R : AttachTable(R, d), P, h)

\* dvbpsi_DetachSections: the list's handle goes with what it holds.
DetachSections(P) ==
  [Delete(Delete(P, P.current), P.free[TheList])
     EXCEPT !.current = NoBuffer, !.free[TheList] = NoBuffer]

-----------------------------------------------------------------------------
\* Gathering.

\* The decoder starts anew: its array goes to the free buffers.
Reinit(P, h, d) ==
  [FoldLeft(LAMBDA Q, b : Release(Q, h, b), P, Slots(P, d))
     EXCEPT !.slot[d] = [n \in Numbers[d] |-> NoBuffer]]

\* A section takes its place; the one that was there is released.
FillSlot(P, h, d, n, c) ==
  [IF P.slot[d][n] = NoBuffer THEN P ELSE Release(P, h, P.slot[d][n])
     EXCEPT !.slot[d][n] = c]

\* The sections are chained in their order.
ChainSlots(P, d) ==
  LET slots == Slots(P, d)
  IN  FoldLeft(LAMBDA Q, i : [Q EXCEPT !.next[slots[i]] = slots[i + 1]], P,
               [i \in 1..Len(slots) - 1 |-> i])

\* The table is complete: its sections are released as one chain, but those of an
\* EIT, which was signalled section by section, are forgotten (eit.c:538).
Complete(P, h, d) ==
  LET Q == ChainSlots(P, d)
      R == IF P.kind[d].how = "gather" THEN Release(Q, h, Q.slot[d][0])
           ELSE [Q EXCEPT !.lost = @ \cup ToSet(Slots(P, d))]
  IN  [R EXCEPT !.slot[d] = [n \in Numbers[d] |-> NoBuffer]]

\* dvbpsi_Gather...Sections with the section in the buffer c.
Keep(P, h, s, c) ==
  LET d     == s.sub
      D     == P.decoder[d]
      anew  == h \in P.fresh \/ (D.building # Nothing /\ D.building.version # Version(s))
      known == ~anew /\ D.building = Nothing /\ D.valid /\ D.version = Version(s)
      then  == Gather(D, P.kind[d], h \in P.fresh, s)
      Q     == [IF anew THEN Reinit(P, h, d) ELSE P
                  EXCEPT !.decoder[d] = [then EXCEPT !.last = Nothing, !.heard = {}],
                         !.fresh = @ \ {h}]
      R     == FillSlot(Q, h, d, s.num, c)
  IN  IF known THEN Release(Q, h, c)
      ELSE IF then.building = Nothing THEN Complete(R, h, d) ELSE R

\* The callback of a filter's handle gets a copy of the section: dvbpsi_Demux has
\* a decoder attached to a table it has not seen, and releases what none wants, as
\* the other decoders do; those that need no array release the copy at once, but
\* the STT's forgets one without the syntax indicator.
Take(P, h, s, c) ==
  LET wanted == s.sub \in h /\ P.kind[s.sub] # Other
      Q == IF wanted /\ s.sub \notin P.attached THEN AttachTable(P, s.sub) ELSE P
  IN  IF ~wanted THEN Release(P, h, c)
      ELSE IF P.kind[s.sub] = STT /\ ~s.syntax THEN [Q EXCEPT !.lost = @ \cup {c}]
      ELSE IF P.kind[s.sub].how \in {"times", "texts"} THEN Release(Q, h, c)
      ELSE IF ~s.syntax THEN Release(Q, h, c)
      ELSE Keep(Q, h, s, c)

\* dvbpsi_ClonePSISection and dvbpsi_PushSection for every filter of the list.
PushSection(P, s) ==
  FoldSet(LAMBDA h, Q : Take(Claim(Q, h), h, s, Claimed(Q, h)), P, P.open)

-----------------------------------------------------------------------------
\* The filters of the list.
Filters == {{d \in Sub : store.kind[d].demuxed}} \cup {{d} : d \in {e \in Sub : ~store.kind[e].demuxed}}

\* A filter is added; the first one comes with the list.
OpenFilter ==
  /\ store.opens < MaxOpens
  /\ \E h \in Filters \ (store.open \cup {{}}) :
       store' = [OpenHandle(store, h) EXCEPT !.opens = @ + 1]

\* A filter is removed and its decoder detached; the list goes with the last one.
CloseFilter ==
  \E h \in store.open :
    LET P == CloseHandle(store, h)
    IN  store' = IF P.open = {} THEN DetachSections(P) ELSE P

\* A section begins.
BeginSection ==
  /\ store.open # {} /\ store.current = NoBuffer /\ store.made < MaxBuffers
  /\ store' = [Claim(store, TheList) EXCEPT !.current = Claimed(store, TheList)]

\* It is broken off: a packet is missing, it is too long or not valid.
AbandonSection ==
  /\ store.current # NoBuffer
  /\ store' = [Release(store, TheList, store.current) EXCEPT !.current = NoBuffer]

\* It is complete: every filter has it, and its buffer is free.
PassSection ==
  /\ store.current # NoBuffer
  /\ store.made + Cardinality(store.open) <= MaxBuffers
  /\ \E d \in Sub, gen \in 0..1, syntax \in BOOLEAN :
       \E n \in Numbers[d] :
         store' = [Release(PushSection(store, [sub |-> d, num |-> n, gen |-> gen, active |-> TRUE,
                                               syntax |-> syntax]),
                           TheList, store.current) EXCEPT !.current = NoBuffer]

PoolInit ==
  \E k \in PoolMixes :
    store = [made |-> 0, next |-> [b \in Buffer |-> NoBuffer],
             free |-> [h \in SUBSET Sub |-> NoBuffer], current |-> NoBuffer, open |-> {},
             fresh |-> {}, attached |-> {}, decoder |-> [d \in Sub |-> Attached],
             slot |-> [d \in Sub |-> [n \in Numbers[d] |-> NoBuffer]],
             gone |-> {}, lost |-> {}, opens |-> 0, kind |-> k]

PoolNext == OpenFilter \/ CloseFilter \/ BeginSection \/ AbandonSection \/ PassSection

-----------------------------------------------------------------------------
\* Every buffer has one owner: the section under way, one place in one array, or
\* the free buffers of one handle, whose chains never meet nor run in a circle; what
\* was freed is not reached from anywhere, and nothing is lost but in the ways known
\* (dvbpsi_ReleasePSISections takes a chain as it finds it).
BuffersOwned ==
  LET free  == FoldSet(LAMBDA h, seq : seq \o Chain(store, store.free[h]), <<>>, SUBSET Sub)
      slots == FoldSet(LAMBDA d, seq : seq \o FlattenSeq([i \in DOMAIN Slots(store, d) |->
                                                           Chain(store, Slots(store, d)[i])]),
                       <<>>, Sub)
      owned == Chain(store, store.current) \o free \o slots
  IN  /\ IsInjective(owned)
      /\ ToSet(owned) \cap (store.gone \cup store.lost) = {}
      /\ ToSet(owned) \cup store.gone \cup store.lost = 1..store.made
      /\ store.gone \cap store.lost = {}

=============================================================================
