------------------------------ MODULE TSReader ------------------------------
(***************************************************************************)
(* The transport stream reader (ts.c) on top of the demux filters of the   *)
(* DVB adapter (dvbadapter.c).                                             *)
(*                                                                         *)
(* Filter groups ask for the packets of a PID (packet filters) or for its  *)
(* reassembled sections (section filters).  All the section filters of one *)
(* PID share one TSSectionFilterList_t, which is scheduled: while it is    *)
(* active it owns a packet filter whose group is NULL, otherwise it waits  *)
(* for a demux slot.  A completed section sends its list to the back of    *)
(* the waiting queue whenever another list waits.                          *)
(*                                                                         *)
(* Every function is called with TSReader_t.mutex held, so a call is one   *)
(* step, except that the packet loop calls the owners of filters back and  *)
(* they call the reader again while the loop walks its list.               *)
(***************************************************************************)
EXTENDS Integers, Sequences, FiniteSets

CONSTANTS Pid,                 \* the PIDs filters are placed on
          PidAll,              \* TSREADER_PID_ALL, the pseudo PID 8192
          NoPid,               \* TSREADER_PID_INVALID
          Group,               \* the filter groups
          SectionList,         \* owner of the packet filters with a NULL group
          Nobody,              \* no callback is running
          Priority,            \* priority a group gives its section filters
          HardwareRestricted,  \* DVBDemuxIsHardwareRestricted
          MaxFilters,          \* DVBDemuxGetMaxFilters
          MinSectionPids,      \* MIN_SECTION_FILTER_PIDS
          FilterSetupMayFail   \* open() or DMX_SET_PES_FILTER can fail

ListedPid == Pid \cup {PidAll}
Owner     == Group \cup {SectionList}

ASSUME ReaderAssumption ==
  /\ IsFiniteSet(Pid)
  /\ PidAll \notin Pid
  /\ NoPid \notin ListedPid
  /\ SectionList \notin Group
  /\ Nobody \notin Owner
  /\ Priority \in [Group -> Int]
  /\ HardwareRestricted \in BOOLEAN
  /\ FilterSetupMayFail \in BOOLEAN
  /\ MaxFilters \in Nat
  /\ MinSectionPids \in Nat

VARIABLES
  listed,       \* per PID the owners of the enabled filters of packetFilters[pid]
  doomed,       \* owners of the filters marked PACKET_FILTER_DISABLED
  sections,     \* per PID the groups in its section filter list; {}: no list
  active,       \* PIDs of activeSectionFilters
  waiting,      \* PIDs of the queue sectionFilters
  demux,        \* per PID the demux filter: free, set, or opened but never set
  promiscuous,  \* promiscuousMode
  busy,         \* currentlyProcessingPid
  pending,      \* owners whose filter the packet loop has still to visit
  current       \* owner whose callback is running

vars == <<listed, doomed, sections, active, waiting, demux, promiscuous,
          busy, pending, current>>

-----------------------------------------------------------------------------
(* The lists of packet filters.                                            *)

\* packetFilters[pid] != NULL: disabled filters stay linked until the loop ends.
Occupied(p) == listed[p] # {} \/ (busy = p /\ doomed # {})

\* Callbacks run on the thread that holds the mutex; other threads wait for it.
MayCall == busy = NoPid \/ current # Nobody

InQueue(s) == {s[i] : i \in 1..Len(s)}

\* Every queue a set of PIDs can form.
Queues == UNION {[1..n -> Pid] : n \in 0..Cardinality(Pid)}

\* q is s without the PIDs in gone, in the same order.
IsWithout(q, s, gone) ==
  /\ InQueue(q) = InQueue(s) \ gone
  /\ \A i, j \in 1..Len(q) : i # j => q[i] # q[j]
  /\ \A i, j \in 1..Len(s) :
       (i < j /\ s[i] \notin gone /\ s[j] \notin gone)
         => \E k, m \in 1..Len(q) : k < m /\ q[k] = s[i] /\ q[m] = s[j]

-----------------------------------------------------------------------------
(* The demux filters of the adapter.                                       *)

Used(d) == {p \in ListedPid : d[p] # "free"}

\* What DVBDemuxAllocateFilter(pid) leaves when it returns 0.
AllocateOk(d, p) ==
  IF d[p] # "free" THEN {d}
  ELSE IF Cardinality(Used(d)) < MaxFilters THEN {[d EXCEPT ![p] = "set"]}
  ELSE {}

\* What it leaves when it fails: a failed open() leaves the slot free, a failed
\* ioctl leaves it opened with the PID recorded.
AllocateFailed(d, p) ==
  IF d[p] # "free" THEN {}
  ELSE IF Cardinality(Used(d)) >= MaxFilters THEN {d}
  ELSE IF FilterSetupMayFail THEN {d, [d EXCEPT ![p] = "unset"]}
  ELSE {}

Allocate(d, p) == AllocateOk(d, p) \cup AllocateFailed(d, p)

\* DVBDemuxReleaseFilter for each of the PIDs in gone.
Release(d, gone) ==
  [p \in ListedPid |->
     IF p \in gone /\ (HardwareRestricted \/ p = PidAll) THEN "free" ELSE d[p]]

\* PIDs whose slot goes when their list becomes empty outside promiscuous mode.
Unlisted(gone) == IF promiscuous THEN {} ELSE gone \ {PidAll}

\* PromiscusModeEnable(reader, TRUE), starting from the slots d: the PIDs with a
\* filter are released, and the result of allocating PID 8192 is ignored.
EnterPromiscuousMode(d) ==
  /\ promiscuous' = TRUE
  /\ demux' \in Allocate(Release(d, {p \in ListedPid : Occupied(p)}), PidAll)

-----------------------------------------------------------------------------
(* Adding a group's packet filter.                                         *)

\* freePIDCount of PacketFilterListAddFilter.
FreePids ==
  LET reserve == MinSectionPids - Cardinality(active)
  IN  MaxFilters - Cardinality({p \in ListedPid : Occupied(p)})
        - (IF reserve > 0 THEN reserve ELSE 0)

\* A group may not open a new PID when no filter is left beyond the reserve.
Refused(p) == /\ ~Occupied(p) /\ ~promiscuous /\ p # PidAll
              /\ FreePids <= 0

Join(l, o, p) == [l EXCEPT ![p] = @ \cup {o}]

\* The PID is filtered already, or needs no slot of its own.
AddWithoutSlot(g, p) ==
  /\ Occupied(p) \/ promiscuous \/ (p = PidAll /\ HardwareRestricted)
  /\ listed' = Join(listed, g, p)
  /\ UNCHANGED <<doomed, active, waiting, demux, promiscuous>>

AddEverything(g) ==
  /\ ~Occupied(PidAll) /\ ~promiscuous /\ ~HardwareRestricted
  /\ EnterPromiscuousMode(demux)
  /\ listed' = Join(listed, g, PidAll)
  /\ UNCHANGED <<doomed, active, waiting>>

NeedsSlot(p) == ~Occupied(p) /\ ~promiscuous /\ p # PidAll /\ FreePids > 0

AddWithSlot(g, p) ==
  /\ NeedsSlot(p)
  /\ demux' \in AllocateOk(demux, p)
  /\ listed' = Join(listed, g, p)
  /\ UNCHANGED <<doomed, active, waiting, promiscuous>>

\* An unrestricted adapter out of filters delivers the whole stream instead.
AddPromiscuously(g, p) ==
  /\ NeedsSlot(p) /\ ~HardwareRestricted
  /\ \E d \in AllocateFailed(demux, p) : EnterPromiscuousMode(d)
  /\ listed' = Join(listed, g, p)
  /\ UNCHANGED <<doomed, active, waiting>>

ListPriority(p) ==
  CHOOSE n \in {Priority[g] : g \in sections[p]} :
    \A g \in sections[p] : n <= Priority[g]

\* Active lists whose packet filter is the only one on its PID.
Alone == {p \in active : listed[p] = {SectionList} /\ (busy = p => doomed = {})}

\* The choices of SectionFilterListDescheduleOneFilter: the largest priority
\* number (ties are left open), {} when no list qualifies.
Victims ==
  IF Cardinality(active) <= MinSectionPids THEN {}
  ELSE {p \in Alone : \A q \in Alone : ListPriority(q) <= ListPriority(p)}

\* Mutant of AddByDescheduling: the list that gives way is in no queue.
AddByDeschedulingLosesList(g, p) ==
  /\ NeedsSlot(p) /\ HardwareRestricted
  /\ \E d \in AllocateFailed(demux, p), v \in Victims :
       /\ active' = active \ {v}
       /\ demux' \in AllocateOk(Release(d, {v}), p)
       /\ listed' = Join([listed EXCEPT ![v] = {}], g, p)
  /\ UNCHANGED <<waiting, doomed, promiscuous>>

\* A restricted adapter out of filters: one section list gives way, then the
\* allocation is tried once more; the list stays descheduled if it fails again.
AddByDescheduling(g, p) ==
  /\ NeedsSlot(p) /\ HardwareRestricted
  /\ \E d \in AllocateFailed(demux, p) :
       \E v \in IF Victims = {} THEN {NoPid} ELSE Victims :
         LET left  == IF v = NoPid THEN listed ELSE [listed EXCEPT ![v] = {}]
             freed == IF v \in {NoPid, busy} THEN d ELSE Release(d, {v})
         IN  /\ active' = active \ {v}
             /\ waiting' = IF v = NoPid THEN waiting ELSE Append(waiting, v)
             /\ doomed' = IF v = busy /\ v # NoPid THEN {SectionList} ELSE doomed
             /\ \/ /\ demux' \in AllocateOk(freed, p)
                   /\ listed' = Join(left, g, p)
                \/ /\ demux' \in AllocateFailed(freed, p)
                   /\ listed' = left
  /\ UNCHANGED promiscuous

\* TSFilterGroupAddPacketFilter, when it is not refused.
AddPacketFilter(g, p) ==
  /\ MayCall
  /\ g \notin listed[p]
  /\ \/ AddWithoutSlot(g, p)
     \/ p = PidAll /\ AddEverything(g)
     \/ AddWithSlot(g, p)
     \/ AddPromiscuously(g, p)
     \/ AddByDescheduling(g, p)
  /\ UNCHANGED <<sections, busy, pending, current>>

-----------------------------------------------------------------------------
(* Scheduling section filter lists.                                        *)

\* SectionFilterListScheduleFilters(reader) started with packet filters l on
\* the PIDs in occ, demux slots d, active lists a and waiting queue w: lists
\* are activated from the head of the queue until an allocation fails.
ScheduleFilters(l, occ, d, a, w) ==
  \E n \in 0..Len(w) :
    LET started == {w[i] : i \in 1..n}
        fresh   == IF promiscuous THEN {}
                   ELSE {p \in started : p \notin occ /\ d[p] = "free"}
        opened  == [p \in ListedPid |-> IF p \in fresh THEN "set" ELSE d[p]]
        begin(S) == [p \in ListedPid |->
                       IF p \in S THEN l[p] \cup {SectionList} ELSE l[p]]
    IN  /\ fresh # {} => Cardinality(Used(opened)) <= MaxFilters
        /\ \/ /\ n = Len(w)
              /\ listed' = begin(started)
              /\ demux' = opened
              /\ active' = a \cup started
              /\ waiting' = <<>>
              /\ UNCHANGED promiscuous
           \/ /\ n < Len(w) /\ ~promiscuous
              /\ w[n + 1] \notin occ
              /\ \E e \in AllocateFailed(opened, w[n + 1]) :
                   \/ /\ HardwareRestricted
                      /\ listed' = begin(started)
                      /\ demux' = e
                      /\ active' = a \cup started
                      /\ waiting' = SubSeq(w, n + 1, Len(w))
                      /\ UNCHANGED promiscuous
                   \/ /\ ~HardwareRestricted
                      /\ listed' = begin(InQueue(w))
                      /\ demux' \in Allocate(e, PidAll)
                      /\ promiscuous' = TRUE
                      /\ active' = a \cup InQueue(w)
                      /\ waiting' = <<>>

\* TSFilterGroupAddSectionFilter.
AddSectionFilter(g, p) ==
  /\ MayCall
  /\ g \notin sections[p]
  /\ sections' = [sections EXCEPT ![p] = @ \cup {g}]
  /\ ScheduleFilters(listed, {q \in ListedPid : Occupied(q)}, demux, active,
                     IF sections[p] = {} THEN Append(waiting, p) ELSE waiting)
  /\ UNCHANGED <<doomed, busy, pending, current>>

-----------------------------------------------------------------------------
(* Removing filters.                                                       *)

\* Mutant of DropFilters: the slot of the PID being processed is released as soon
\* as its filters are all marked.
DropFiltersOfBusy(l) ==
  /\ listed' = l
  /\ doomed' = IF busy = NoPid THEN doomed
               ELSE doomed \cup (listed[busy] \ l[busy])
  /\ demux' = Release(demux, Unlisted({p \in ListedPid : listed[p] # {} /\ l[p] = {}}))

\* PacketFilterListRemoveFilter for every filter of listed that is not in l.
\* On the PID being processed a filter is only marked as disabled.
DropFilters(l) ==
  /\ listed' = l
  /\ doomed' = IF busy = NoPid THEN doomed
               ELSE doomed \cup (listed[busy] \ l[busy])
  /\ demux' = Release(demux,
                Unlisted({p \in ListedPid \ {busy} : listed[p] # {} /\ l[p] = {}}))

\* No callback removes the list whose section it is handling.
KeepsOwnList(gone) == ~(current = SectionList /\ busy \in gone)

\* The group leaves the section lists of the PIDs in quit and drops its packet
\* filters on the PIDs in drop; a list left by its last group is destroyed.
Withdraw(g, quit, drop) ==
  LET gone == {p \in quit : sections[p] = {g}}
      left == [p \in ListedPid |->
                 (listed[p] \ (IF p \in drop THEN {g} ELSE {}))
                   \ (IF p \in gone THEN {SectionList} ELSE {})]
  IN  /\ KeepsOwnList(gone)
      /\ sections' = [p \in Pid |-> IF p \in quit THEN sections[p] \ {g}
                                                  ELSE sections[p]]
      /\ active' = active \ gone
      /\ waiting' \in {q \in Queues : IsWithout(q, waiting, gone)}
      /\ DropFilters(left)
      /\ UNCHANGED <<promiscuous, busy, pending, current>>

\* TSFilterGroupRemoveSectionFilter.
RemoveSectionFilter(g, p) ==
  /\ MayCall
  /\ g \in sections[p]
  /\ Withdraw(g, {p}, {})

\* TSFilterGroupRemovePacketFilter.
RemovePacketFilter(g, p) ==
  /\ MayCall
  /\ g \in listed[p]
  /\ Withdraw(g, {}, {p})

\* TSFilterGroupRemoveAllFilters.
RemoveAllFilters(g) ==
  /\ MayCall
  /\ Withdraw(g, {p \in Pid : g \in sections[p]}, ListedPid)

-----------------------------------------------------------------------------
(* Delivering packets.                                                     *)

\* SendToPacketFilters starts on the list of a packet's PID, or directly on
\* the list of PID 8192 when the PID has no filter.
StartPacket(p) ==
  /\ busy = NoPid
  /\ Occupied(p)
  /\ busy' = p
  /\ pending' = listed[p]
  /\ UNCHANGED <<listed, doomed, sections, active, waiting, demux, promiscuous,
                 current>>

\* Mutant of VisitFilter: PACKET_FILTER_DISABLED is not tested.
VisitFilterUnchecked(o) ==
  /\ busy # NoPid /\ current = Nobody
  /\ o \in pending
  /\ pending' = pending \ {o}
  /\ current' = o
  /\ UNCHANGED <<listed, doomed, sections, active, waiting, demux, promiscuous,
                 busy>>

\* The loop reaches the filter o; disabled filters are passed over.
VisitFilter(o) ==
  /\ busy # NoPid /\ current = Nobody
  /\ o \in pending
  /\ pending' = pending \ {o}
  /\ current' = IF o \in doomed THEN Nobody ELSE o
  /\ UNCHANGED <<listed, doomed, sections, active, waiting, demux, promiscuous,
                 busy>>

\* The callback returns; no section was completed by this packet.
CallbackReturns ==
  /\ current # Nobody
  /\ current' = Nobody
  /\ UNCHANGED <<listed, doomed, sections, active, waiting, demux, promiscuous,
                 busy, pending>>

\* Mutant of SectionPushed: the list goes to the front of the waiting queue.
SectionPushedInFront ==
  /\ current = SectionList
  /\ busy \in active
  /\ waiting # <<>>
  /\ active' = active \ {busy}
  /\ waiting' = <<busy>> \o waiting
  /\ DropFilters([listed EXCEPT ![busy] = @ \ {SectionList}])
  /\ UNCHANGED <<sections, promiscuous, busy, pending, current>>

\* The end of SectionFilterListPushSection: when other lists wait, this one
\* goes to the back of the queue and gives its packet filter up.  The callback
\* goes on: the packet may hold another section.
SectionPushed ==
  /\ current = SectionList
  /\ busy \in active
  /\ waiting # <<>>
  /\ active' = active \ {busy}
  /\ waiting' = Append(waiting, busy)
  /\ DropFilters([listed EXCEPT ![busy] = @ \ {SectionList}])
  /\ UNCHANGED <<sections, promiscuous, busy, pending, current>>

\* Mutant of FinishLoop: the slot of an emptied list is not released.
FinishLoopKeepsSlot ==
  /\ busy # NoPid /\ current = Nobody /\ pending = {}
  /\ doomed' = {}
  /\ IF listed[busy] # {}
     THEN UNCHANGED <<listed, active, waiting, demux, promiscuous>>
     ELSE ScheduleFilters(listed, {q \in ListedPid : listed[q] # {}},
                          demux, active, waiting)
  /\ busy' = NoPid
  /\ UNCHANGED <<sections, pending, current>>

\* After the loop the disabled filters are unlinked; an emptied list gives its
\* slot back and the waiting lists are scheduled.  ProcessPacket then walks the
\* list of PID 8192.
FinishLoop ==
  /\ busy # NoPid /\ current = Nobody /\ pending = {}
  /\ doomed' = {}
  /\ IF listed[busy] # {}
     THEN UNCHANGED <<listed, active, waiting, demux, promiscuous>>
     ELSE ScheduleFilters(listed, {q \in ListedPid : listed[q] # {}},
                          Release(demux, Unlisted({busy})), active, waiting)
  /\ \/ /\ busy # PidAll /\ listed[PidAll] # {}
        /\ busy' = PidAll
        /\ pending' = listed[PidAll]
     \/ /\ busy = PidAll \/ listed[PidAll] = {}
        /\ busy' = NoPid
        /\ pending' = {}
  /\ UNCHANGED <<sections, current>>

-----------------------------------------------------------------------------

Init ==
  /\ listed = [p \in ListedPid |-> {}]
  /\ doomed = {}
  /\ sections = [p \in Pid |-> {}]
  /\ active = {}
  /\ waiting = <<>>
  /\ demux = [p \in ListedPid |-> "free"]
  /\ promiscuous = FALSE
  /\ busy = NoPid
  /\ pending = {}
  /\ current = Nobody

PacketLoop ==
  \/ \E o \in Owner : VisitFilter(o)
  \/ CallbackReturns
  \/ SectionPushed
  \/ FinishLoop

Calls ==
  \/ \E g \in Group, p \in ListedPid :
       AddPacketFilter(g, p) \/ RemovePacketFilter(g, p)
  \/ \E g \in Group, p \in Pid :
       AddSectionFilter(g, p) \/ RemoveSectionFilter(g, p)
  \/ \E g \in Group : RemoveAllFilters(g)

Next ==
  \/ \E p \in ListedPid : StartPacket(p)
  \/ PacketLoop
  \/ Calls

Spec == Init /\ [][Next]_vars

\* The reader while section filters are only added.
AddsSections == \E g \in Group, p \in Pid : AddSectionFilter(g, p)

\* The loop runs to its end, the DVR keeps delivering packets of every PID with
\* a filter, and every table of an active list is broadcast again and again.
Broadcast ==
  /\ WF_vars(PacketLoop)
  /\ \A p \in Pid : /\ SF_vars(StartPacket(p))
                    /\ SF_vars(busy = p /\ SectionPushed)

RotationSpec ==
  /\ Init
  /\ [][(\E p \in ListedPid : StartPacket(p)) \/ PacketLoop \/ AddsSections]_vars
  /\ Broadcast

-----------------------------------------------------------------------------
(* Properties.                                                             *)

\* Every variable keeps its type.
TypeOK ==
  /\ listed \in [ListedPid -> SUBSET Owner]
  /\ doomed \in SUBSET Owner
  /\ sections \in [Pid -> SUBSET Group]
  /\ active \in SUBSET Pid
  /\ waiting \in Seq(Pid)
  /\ demux \in [ListedPid -> {"free", "set", "unset"}]
  /\ promiscuous \in BOOLEAN
  /\ busy \in ListedPid \cup {NoPid}
  /\ pending \in SUBSET Owner
  /\ current \in Owner \cup {Nobody}

\* A section filter list is never lost and never in two places: each PID with
\* section filters is in exactly one of the two queues of the reader, once, and
\* the active ones are exactly those with an enabled packet filter.  Rotation,
\* descheduling, destruction and callbacks all move lists between the queues.
SectionListsConsistent ==
  /\ \A p \in ListedPid : SectionList \in listed[p] <=> p \in active
  /\ active \cap InQueue(waiting) = {}
  /\ active \cup InQueue(waiting) = {p \in Pid : sections[p] # {}}
  /\ \A i, j \in 1..Len(waiting) : i # j => waiting[i] # waiting[j]

\* Outside promiscuous mode a PID somebody filters has a demux filter, also
\* while its last filter is removed under a running packet loop or a section list
\* makes room for a group: none of the places that release one does so while it is
\* in use, whatever fails (ts.c:522, 650, 981).
FiltersHaveSlots ==
  ~promiscuous => \A p \in Pid : Occupied(p) => demux[p] # "free"

\* The adapter is never asked for more demux filters than it has.
SlotCapacity == Cardinality(Used(demux)) <= MaxFilters

\* A hardware restricted adapter whose filter set-up never fails leaks no slot:
\* only PIDs somebody filters hold one, whoever removed the last filter when.
NoSlotLeaked ==
  HardwareRestricted => Used(demux) \subseteq {p \in Pid : Occupied(p)}

\* No owner is called back after it removed its filter, even if it did so (and
\* perhaps added the filter again) while the loop was on that list.
NoCallAfterRemoval ==
  [][current' \notin {current, Nobody}
       => current' \in listed[busy] \ doomed]_vars

\* Without packet filters on the same PIDs every waiting list is scheduled again,
\* however many lists compete for the slots.
EveryListGetsATurn ==
  \A p \in Pid : p \in InQueue(waiting) ~> p \in active

=============================================================================
