--------------------------- MODULE TSReaderProofs ---------------------------
(***************************************************************************)
(* Theorems about the transport stream reader for any number of PIDs,      *)
(* groups and demux filters, restricted or not, whether or not setting up  *)
(* a demux filter may fail.                                                *)
(***************************************************************************)
EXTENDS TSReader, TLAPS, FiniteSetTheorems, SequenceTheorems

Slots == [ListedPid -> {"free", "set", "unset"}]

Injective(s) == \A i, j \in 1..Len(s) : i # j => s[i] # s[j]

-----------------------------------------------------------------------------
(* Demux filters.                                                          *)

\* The slots in use are a finite set of PIDs.
LEMMA UsedFinite ==
  ASSUME NEW d \in Slots
  PROVE  IsFiniteSet(Used(d)) /\ Cardinality(Used(d)) \in Nat
<1>1. IsFiniteSet(ListedPid)
  BY FS_AddElement, ReaderAssumption DEF ListedPid
<1>2. Used(d) \in SUBSET ListedPid
  BY DEF Used
<1>3. IsFiniteSet(Used(d))
  BY <1>1, <1>2, FS_Subset
<1>4. QED  BY <1>3, FS_CardinalityType

\* An allocation keeps the other slots, succeeds only with a slot for the PID,
\* and never goes over the number of demux filters.
LEMMA AllocateLemma ==
  ASSUME NEW d \in Slots, NEW p \in ListedPid, NEW e \in Allocate(d, p),
         Cardinality(Used(d)) <= MaxFilters
  PROVE  /\ e \in Slots
         /\ \A q \in ListedPid : d[q] # "free" => e[q] # "free"
         /\ e \in AllocateOk(d, p) => e[p] # "free"
         /\ Cardinality(Used(e)) <= MaxFilters
<1>1. /\ e \in Slots
      /\ \A q \in ListedPid : d[q] # "free" => e[q] # "free"
      /\ e \in AllocateOk(d, p) => e[p] # "free"
  BY DEF Slots, Allocate, AllocateOk, AllocateFailed
<1>2. CASE e = d
  BY <1>1, <1>2
<1>3. CASE e # d
  <2>1. /\ Cardinality(Used(d)) < MaxFilters
        /\ d[p] = "free"
        /\ e = [d EXCEPT ![p] = "set"] \/ e = [d EXCEPT ![p] = "unset"]
    BY <1>3, UsedFinite, ReaderAssumption
    DEF Allocate, AllocateOk, AllocateFailed
  <2>2. Used(e) = Used(d) \cup {p}
    BY <2>1 DEF Used, Slots
  <2>3. p \notin Used(d)
    BY <2>1 DEF Used
  <2>4. Cardinality(Used(e)) = Cardinality(Used(d)) + 1
    BY <2>2, <2>3, UsedFinite, FS_AddElement
  <2>5. QED  BY <1>1, <2>1, <2>4, UsedFinite, ReaderAssumption
<1>4. QED  BY <1>2, <1>3

\* Releasing slots keeps the others and cannot exceed the capacity.
LEMMA ReleaseLemma ==
  ASSUME NEW d \in Slots, NEW gone,
         Cardinality(Used(d)) <= MaxFilters
  PROVE  /\ Release(d, gone) \in Slots
         /\ \A q \in ListedPid \ gone : Release(d, gone)[q] = d[q]
         /\ Cardinality(Used(Release(d, gone))) <= MaxFilters
<1>1. /\ Release(d, gone) \in Slots
      /\ \A q \in ListedPid \ gone : Release(d, gone)[q] = d[q]
  BY DEF Release, Slots
<1>2. Used(Release(d, gone)) \in SUBSET Used(d)
  BY DEF Release, Used
<1>3. Cardinality(Used(Release(d, gone))) <= Cardinality(Used(d))
  BY <1>2, UsedFinite, FS_Subset
<1>4. QED
  BY <1>1, <1>3, UsedFinite, ReaderAssumption

-----------------------------------------------------------------------------
(* Queues.                                                                 *)

\* A list appended to a queue it is not in.
LEMMA AppendToQueue ==
  ASSUME NEW w \in Seq(Pid), NEW p \in Pid, p \notin InQueue(w), Injective(w)
  PROVE  /\ Append(w, p) \in Seq(Pid)
         /\ InQueue(Append(w, p)) = InQueue(w) \cup {p}
         /\ Injective(Append(w, p))
<1> DEFINE v == Append(w, p)
<1>1. /\ v \in Seq(Pid)
      /\ Len(w) \in Nat
      /\ Len(v) = Len(w) + 1
      /\ \A i \in 1..Len(w) : v[i] = w[i]
      /\ v[Len(w) + 1] = p
  BY AppendProperties, LenProperties
<1> HIDE DEF v
<1>2. \A i \in 1..Len(v) : i \in 1..Len(w) \/ i = Len(w) + 1
  BY <1>1
<1>3. \A i \in 1..Len(w) : i \in 1..Len(v)
  BY <1>1
<1>4. Len(w) + 1 \in 1..Len(v)
  BY <1>1
<1>5. InQueue(v) = InQueue(w) \cup {p}
  BY <1>1, <1>2, <1>3, <1>4 DEF InQueue
<1>6. Injective(v)
  BY <1>1, <1>2, <1>3, <1>4 DEF InQueue, Injective
<1>7. QED  BY <1>1, <1>5, <1>6 DEF v

\* The head of a queue and the rest of it.
LEMMA SplitQueue ==
  ASSUME NEW w \in Seq(Pid), Injective(w), NEW n \in 0..Len(w), n < Len(w)
  PROVE  LET rest == SubSeq(w, n + 1, Len(w))
             head == {w[i] : i \in 1..n}
         IN  /\ rest \in Seq(Pid)
             /\ Injective(rest)
             /\ head \cap InQueue(rest) = {}
             /\ head \cup InQueue(rest) = InQueue(w)
<1> DEFINE rest == SubSeq(w, n + 1, Len(w))
           head == {w[i] : i \in 1..n}
<1>1. Len(w) \in Nat /\ n \in Nat /\ \A i \in 1..Len(w) : w[i] \in Pid
  BY LenProperties, ElementOfSeq
<1>2. /\ rest \in Seq(Pid)
      /\ Len(rest) = Len(w) - n
      /\ \A i \in 1..(Len(w) - n) : rest[i] = w[n + i]
  <2>1. n + 1 \in Int /\ Len(w) \in Int /\ \A i \in (n+1)..Len(w) : w[i] \in Pid
    BY <1>1
  <2>2. /\ rest \in Seq(Pid)
        /\ Len(rest) = IF n + 1 <= Len(w) THEN Len(w) - (n + 1) + 1 ELSE 0
        /\ \A i \in 1..(Len(w) - (n + 1) + 1) : rest[i] = w[(n + 1) + i - 1]
    BY <2>1, SubSeqProperties
  <2>3. QED  BY <2>2, <1>1
<1> HIDE DEF rest
<1>3. Injective(rest)
  <2> SUFFICES ASSUME NEW i \in 1..Len(rest), NEW j \in 1..Len(rest), i # j
               PROVE  rest[i] # rest[j]
    BY DEF Injective
  <2>1. n + i \in 1..Len(w) /\ n + j \in 1..Len(w) /\ n + i # n + j
    BY <1>1, <1>2
  <2>2. QED  BY <2>1, <1>2 DEF Injective
<1>4. head \cap InQueue(rest) = {}
  <2> SUFFICES ASSUME NEW i \in 1..n, NEW j \in 1..Len(rest), w[i] = rest[j]
               PROVE  FALSE
    BY DEF InQueue
  <2>1. i \in 1..Len(w) /\ n + j \in 1..Len(w) /\ i # n + j /\ rest[j] = w[n + j]
    BY <1>1, <1>2
  <2>2. QED  BY <2>1 DEF Injective
<1>5. head \cup InQueue(rest) = InQueue(w)
  <2>1. ASSUME NEW i \in 1..Len(w)
        PROVE  w[i] \in head \cup InQueue(rest)
    <3>1. CASE i <= n
      BY <3>1, <1>1
    <3>2. CASE i > n
      <4>1. i - n \in 1..Len(rest) /\ rest[i - n] = w[i]
        BY <3>2, <1>1, <1>2
      <4>2. QED  BY <4>1 DEF InQueue
    <3>3. QED  BY <3>1, <3>2, <1>1
  <2>2. ASSUME NEW i \in 1..n
        PROVE  w[i] \in InQueue(w)
    BY <1>1 DEF InQueue
  <2>3. ASSUME NEW i \in 1..Len(rest)
        PROVE  rest[i] \in InQueue(w)
    <3>1. n + i \in 1..Len(w) /\ rest[i] = w[n + i]
      BY <1>1, <1>2
    <3>2. QED  BY <3>1 DEF InQueue
  <2>4. QED  BY <2>1, <2>2, <2>3 DEF InQueue
<1>6. QED  BY <1>2, <1>3, <1>4, <1>5 DEF rest

-----------------------------------------------------------------------------
(* Scheduling.                                                             *)

\* The state after SectionFilterListScheduleFilters, started with the packet
\* filters l on the PIDs in occ, the slots d, the active lists a and the queue
\* w: lists only move from the queue to the active ones, each with its filter
\* and a slot, and the demux filters suffice.
ScheduleResult(l, d, a, w) ==
  /\ listed' \in [ListedPid -> SUBSET Owner]
  /\ active' \in SUBSET Pid
  /\ waiting' \in Seq(Pid)
  /\ demux' \in Slots
  /\ promiscuous' \in BOOLEAN
  /\ promiscuous => promiscuous'
  /\ \A p \in ListedPid : /\ l[p] \subseteq listed'[p]
                          /\ listed'[p] \subseteq l[p] \cup {SectionList}
                          /\ SectionList \in listed'[p] <=> p \in active'
                          /\ d[p] # "free" /\ ~promiscuous' => demux'[p] # "free"
  /\ active' \cap InQueue(waiting') = {}
  /\ active' \cup InQueue(waiting') = a \cup InQueue(w)
  /\ Injective(waiting')
  /\ Cardinality(Used(demux')) <= MaxFilters
  /\ ~promiscuous' => \A p \in Pid : listed'[p] # l[p] => demux'[p] # "free"

\* What scheduling the waiting lists into free slots keeps of the queues, the
\* slots and the packet filters.
LEMMA ScheduleLemma ==
  ASSUME NEW l \in [ListedPid -> SUBSET Owner], NEW occ, NEW d \in Slots,
         NEW a \in SUBSET Pid, NEW w \in Seq(Pid),
         promiscuous \in BOOLEAN,
         Cardinality(Used(d)) <= MaxFilters,
         \A p \in ListedPid : SectionList \in l[p] <=> p \in a,
         a \cap InQueue(w) = {},
         Injective(w),
         ~promiscuous => \A p \in Pid : p \in occ => d[p] # "free",
         ScheduleFilters(l, occ, d, a, w)
  PROVE  ScheduleResult(l, d, a, w)
<1>1. PICK n \in 0..Len(w) :
        LET started == {w[i] : i \in 1..n}
            fresh   == IF promiscuous THEN {}
                       ELSE {p \in started : p \notin occ /\ d[p] = "free"}
            opened  == [p \in ListedPid |-> IF p \in fresh THEN "set" ELSE d[p]]
            begin(S) == [p \in ListedPid |->
                           IF p \in S THEN l[p] \cup {SectionList} ELSE l[p]]
        IN  /\ fresh # {} => Cardinality(Used(opened)) <= MaxFilters
            /\ \/ /\ n = Len(w)
                  /\ listed' = begin(started)
                  /\ demux' = opened
                  /\ active' = a \cup started
                  /\ waiting' = <<>>
                  /\ UNCHANGED promiscuous
               \/ /\ n < Len(w) /\ ~promiscuous
                  /\ w[n + 1] \notin occ
                  /\ \E e \in AllocateFailed(opened, w[n + 1]) :
                       \/ /\ HardwareRestricted
                          /\ listed' = begin(started)
                          /\ demux' = e
                          /\ active' = a \cup started
                          /\ waiting' = SubSeq(w, n + 1, Len(w))
                          /\ UNCHANGED promiscuous
                       \/ /\ ~HardwareRestricted
                          /\ listed' = begin(InQueue(w))
                          /\ demux' \in Allocate(e, PidAll)
                          /\ promiscuous' = TRUE
                          /\ active' = a \cup InQueue(w)
                          /\ waiting' = <<>>
  BY DEF ScheduleFilters
<1> DEFINE started == {w[i] : i \in 1..n}
           fresh   == IF promiscuous THEN {}
                      ELSE {p \in started : p \notin occ /\ d[p] = "free"}
           opened  == [p \in ListedPid |-> IF p \in fresh THEN "set" ELSE d[p]]
           begin(S) == [p \in ListedPid |->
                          IF p \in S THEN l[p] \cup {SectionList} ELSE l[p]]
<1>2. Len(w) \in Nat /\ n \in Nat /\ \A i \in 1..Len(w) : w[i] \in Pid
  BY LenProperties, ElementOfSeq
<1>3. started \in SUBSET InQueue(w) /\ InQueue(w) \in SUBSET Pid
  BY <1>2 DEF InQueue
<1>4. fresh \in SUBSET started
  OBVIOUS
<1>5. opened \in Slots /\ \A p \in ListedPid : d[p] # "free" => opened[p] # "free"
  BY DEF Slots
<1>6. Cardinality(Used(opened)) <= MaxFilters
  <2>1. CASE fresh # {}
    BY <1>1, <2>1
  <2>2. CASE fresh = {}
    <3>1. opened = d
      BY <2>2 DEF Slots
    <3>2. QED  BY <3>1
  <2>3. QED  BY <2>1, <2>2
<1>7. ~promiscuous => \A p \in started : opened[p] # "free"
  BY <1>3 DEF ListedPid
<1>8. \A S \in SUBSET InQueue(w) :
        /\ begin(S) \in [ListedPid -> SUBSET Owner]
        /\ \A p \in ListedPid : /\ l[p] \subseteq begin(S)[p]
                                /\ begin(S)[p] \subseteq l[p] \cup {SectionList}
                                /\ SectionList \in begin(S)[p] <=> p \in a \cup S
                                /\ begin(S)[p] # l[p] => p \in S
        /\ a \cup S \in SUBSET Pid
  BY <1>3 DEF Owner
<1>9. /\ <<>> \in Seq(Pid)
      /\ InQueue(<<>>) = {}
      /\ Injective(<<>>)
  BY DEF InQueue, Injective
<1> HIDE DEF started, fresh, opened, begin
<1>10. CASE /\ n = Len(w)
            /\ listed' = begin(started)
            /\ demux' = opened
            /\ active' = a \cup started
            /\ waiting' = <<>>
            /\ UNCHANGED promiscuous
  <2>1. started = InQueue(w)
    BY <1>10 DEF started, InQueue
  <2>2. /\ active' = a \cup InQueue(w)
        /\ active' \cap InQueue(waiting') = {}
        /\ active' \cup InQueue(waiting') = a \cup InQueue(w)
    BY <1>10, <2>1, <1>9
  <2>3. waiting' \in Seq(Pid) /\ Injective(waiting')
    BY <1>10, <1>9
  <2>4. /\ demux' \in Slots
        /\ \A p \in ListedPid : d[p] # "free" => demux'[p] # "free"
        /\ Cardinality(Used(demux')) <= MaxFilters
        /\ promiscuous' = promiscuous
    BY <1>10, <1>5, <1>6
  <2>5. ~promiscuous => \A p \in Pid : listed'[p] # l[p] => demux'[p] # "free"
    BY <1>10, <1>3, <1>7, <1>8 DEF ListedPid
  <2>6. QED
    BY <1>10, <2>2, <2>3, <2>4, <2>5, <1>3, <1>8 DEF ScheduleResult
<1>11. CASE /\ n < Len(w) /\ ~promiscuous
            /\ \E e \in AllocateFailed(opened, w[n + 1]) :
                   /\ listed' = begin(started)
                   /\ demux' = e
                   /\ active' = a \cup started
                   /\ waiting' = SubSeq(w, n + 1, Len(w))
                   /\ UNCHANGED promiscuous
  <2>1. w[n + 1] \in ListedPid
    BY <1>2, <1>11 DEF ListedPid
  <2>2. demux' \in Allocate(opened, w[n + 1])
    BY <1>11 DEF Allocate
  <2>3. /\ demux' \in Slots
        /\ \A q \in ListedPid : opened[q] # "free" => demux'[q] # "free"
        /\ Cardinality(Used(demux')) <= MaxFilters
    BY <2>1, <2>2, <1>5, <1>6, AllocateLemma
  <2>4. /\ waiting' \in Seq(Pid)
        /\ Injective(waiting')
        /\ started \cap InQueue(waiting') = {}
        /\ started \cup InQueue(waiting') = InQueue(w)
    BY <1>11, SplitQueue DEF started
  <2>5. /\ active' = a \cup started /\ UNCHANGED promiscuous
        /\ listed' = begin(started)
    BY <1>11
  <2>6. active' \cap InQueue(waiting') = {}
    BY <2>4, <2>5
  <2>7. active' \cup InQueue(waiting') = a \cup InQueue(w)
    BY <2>4, <2>5
  <2>8. \A p \in Pid : listed'[p] # l[p] => demux'[p] # "free"
    BY <2>5, <2>3, <1>3, <1>7, <1>8, <1>11 DEF ListedPid
  <2>9. QED
    BY <2>3, <2>4, <2>5, <2>6, <2>7, <2>8, <1>3, <1>5, <1>8 DEF ScheduleResult
<1>12. CASE /\ n < Len(w) /\ ~promiscuous
            /\ \E e \in AllocateFailed(opened, w[n + 1]) :
                   /\ listed' = begin(InQueue(w))
                   /\ demux' \in Allocate(e, PidAll)
                   /\ promiscuous' = TRUE
                   /\ active' = a \cup InQueue(w)
                   /\ waiting' = <<>>
  <2>1. PICK e \in AllocateFailed(opened, w[n + 1]) : demux' \in Allocate(e, PidAll)
    BY <1>12
  <2>2. w[n + 1] \in ListedPid /\ e \in Allocate(opened, w[n + 1])
    BY <1>2, <1>12 DEF ListedPid, Allocate
  <2>3. e \in Slots /\ Cardinality(Used(e)) <= MaxFilters
    BY <2>2, <1>5, <1>6, AllocateLemma
  <2>4. demux' \in Slots /\ Cardinality(Used(demux')) <= MaxFilters
    BY <2>1, <2>3, AllocateLemma DEF ListedPid
  <2>5. QED
    BY <1>12, <2>4, <1>8, <1>9 DEF ScheduleResult
<1>13. QED
  BY <1>1, <1>10, <1>11, <1>12 DEF started, fresh, opened, begin

-----------------------------------------------------------------------------
(* The inductive invariant.                                                *)

\* Nothing is left over between two packets, and what the loop has still to
\* visit is a filter of its PID, enabled or disabled.
LoopInv ==
  /\ busy = NoPid => doomed = {} /\ pending = {} /\ current = Nobody
  /\ busy # NoPid => pending \subseteq listed[busy] \cup doomed

IInv ==
  /\ TypeOK
  /\ SectionListsConsistent
  /\ FiltersHaveSlots
  /\ SlotCapacity
  /\ LoopInv

\* The invariant holds initially.
LEMMA InitIInv == Init => IInv
<1> SUFFICES ASSUME Init PROVE IInv
  OBVIOUS
<1>1. TypeOK
  <2>1. waiting \in Seq(Pid)
    BY DEF Init
  <2>2. /\ listed \in [ListedPid -> SUBSET Owner]
        /\ sections \in [Pid -> SUBSET Group]
        /\ demux \in [ListedPid -> {"free", "set", "unset"}]
    BY DEF Init
  <2>3. /\ doomed = {} /\ active = {} /\ pending = {}
        /\ promiscuous = FALSE /\ busy = NoPid /\ current = Nobody
    BY DEF Init
  <2>4. QED  BY <2>1, <2>2, <2>3 DEF TypeOK
<1>2. InQueue(<<>>) = {}
  BY DEF InQueue
<1>3. SectionListsConsistent
  BY <1>2 DEF Init, SectionListsConsistent
<1>4. FiltersHaveSlots
  BY DEF Init, FiltersHaveSlots, Occupied, ListedPid
<1>5. SlotCapacity
  <2>1. Used(demux) = {}
    BY DEF Init, Used
  <2>2. QED  BY <2>1, FS_EmptySet, ReaderAssumption DEF SlotCapacity
<1>6. LoopInv
  BY DEF Init, LoopInv
<1>7. QED  BY <1>1, <1>3, <1>4, <1>5, <1>6 DEF IInv

\* What removing filters keeps, on the PID being processed and elsewhere.
LEMMA DropFiltersLemma ==
  ASSUME IInv,
         NEW l \in [ListedPid -> SUBSET Owner],
         \A p \in ListedPid : l[p] \subseteq listed[p],
         DropFilters(l),
         UNCHANGED <<promiscuous, busy, pending, current>>
  PROVE  /\ listed' = l
         /\ doomed' \in SUBSET Owner
         /\ demux' \in Slots
         /\ FiltersHaveSlots'
         /\ SlotCapacity'
         /\ LoopInv'
<1> DEFINE gone == Unlisted({p \in ListedPid \ {busy} : listed[p] # {} /\ l[p] = {}})
<1>1. /\ listed' = l
      /\ doomed' = IF busy = NoPid THEN doomed
                   ELSE doomed \cup (listed[busy] \ l[busy])
      /\ demux' = Release(demux, gone)
  BY DEF DropFilters
<1>2. demux \in Slots /\ Cardinality(Used(demux)) <= MaxFilters
  BY DEF IInv, TypeOK, SlotCapacity, Slots
<1> HIDE DEF gone
<1>3. /\ demux' \in Slots
      /\ \A q \in ListedPid \ gone : demux'[q] = demux[q]
      /\ SlotCapacity'
  BY <1>1, <1>2, ReleaseLemma DEF SlotCapacity
<1>4. doomed' \in SUBSET Owner
  BY <1>1 DEF IInv, TypeOK
<1>5. FiltersHaveSlots'
  <2> SUFFICES ASSUME ~promiscuous, NEW p \in Pid, Occupied(p)'
               PROVE  demux'[p] # "free"
    BY DEF FiltersHaveSlots
  <2>1. Occupied(p)
    BY <1>1, ReaderAssumption DEF Occupied, ListedPid
  <2>2. p \notin gone
    BY <1>1, ReaderAssumption DEF Occupied, gone, Unlisted, ListedPid
  <2>3. demux[p] # "free"
    BY <2>1 DEF IInv, FiltersHaveSlots
  <2>4. QED  BY <2>2, <2>3, <1>3 DEF ListedPid
<1>6. LoopInv'
  BY <1>1 DEF IInv, LoopInv
<1>7. QED  BY <1>1, <1>3, <1>4, <1>5, <1>6

-----------------------------------------------------------------------------
(* Adding a packet filter.                                                 *)

\* What every way of adding a filter of g on p without touching the section
\* lists has to show: the slots are fine afterwards.
LEMMA JoinLemma ==
  ASSUME IInv, NEW g \in Group, NEW p \in ListedPid,
         listed' = Join(listed, g, p),
         demux' \in Slots,
         Cardinality(Used(demux')) <= MaxFilters,
         promiscuous' \in BOOLEAN,
         ~promiscuous' => /\ ~promiscuous
                          /\ \A q \in Pid : demux[q] # "free" => demux'[q] # "free"
                          /\ p \in Pid => demux'[p] # "free",
         UNCHANGED <<doomed, active, waiting, sections, busy, pending, current>>
  PROVE  IInv'
<1>1. /\ listed' \in [ListedPid -> SUBSET Owner]
      /\ \A q \in ListedPid : /\ listed[q] \subseteq listed'[q]
                              /\ SectionList \in listed'[q] <=> SectionList \in listed[q]
                              /\ q # p => listed'[q] = listed[q]
  BY ReaderAssumption DEF IInv, TypeOK, Join, Owner
<1>2. TypeOK'
  BY <1>1 DEF IInv, TypeOK, Slots
<1>3. SectionListsConsistent'
  BY <1>1 DEF IInv, SectionListsConsistent
<1>4. FiltersHaveSlots'
  <2> SUFFICES ASSUME ~promiscuous', NEW q \in Pid, Occupied(q)'
               PROVE  demux'[q] # "free"
    BY DEF FiltersHaveSlots
  <2>1. CASE q = p
    BY <2>1
  <2>2. CASE q # p
    <3>1. Occupied(q)
      BY <2>2, <1>1 DEF Occupied, ListedPid
    <3>2. QED  BY <3>1 DEF IInv, FiltersHaveSlots
  <2>3. QED  BY <2>1, <2>2
<1>5. SlotCapacity'
  BY DEF SlotCapacity
<1>6. LoopInv'
  BY <1>1 DEF IInv, LoopInv, TypeOK
<1>7. QED  BY <1>2, <1>3, <1>4, <1>5, <1>6 DEF IInv

\* The slots in promiscuous mode.
LEMMA PromiscuousLemma ==
  ASSUME NEW d \in Slots, Cardinality(Used(d)) <= MaxFilters,
         EnterPromiscuousMode(d)
  PROVE  /\ promiscuous' = TRUE
         /\ demux' \in Slots
         /\ Cardinality(Used(demux')) <= MaxFilters
<1> DEFINE e == Release(d, {p \in ListedPid : Occupied(p)})
<1>1. e \in Slots /\ Cardinality(Used(e)) <= MaxFilters
  BY ReleaseLemma
<1>2. promiscuous' = TRUE /\ demux' \in Allocate(e, PidAll)
  BY DEF EnterPromiscuousMode
<1> HIDE DEF e
<1>3. QED  BY <1>1, <1>2, AllocateLemma DEF ListedPid

\* Making a section list give way to a packet filter keeps the invariant.
LEMMA AddByDeschedulingStep ==
  ASSUME IInv, NEW g \in Group, NEW p \in ListedPid,
         AddByDescheduling(g, p),
         UNCHANGED <<sections, busy, pending, current>>
  PROVE  IInv'
<1>1. PICK d \in AllocateFailed(demux, p),
           v \in IF Victims = {} THEN {NoPid} ELSE Victims :
        LET left  == IF v = NoPid THEN listed ELSE [listed EXCEPT ![v] = {}]
            freed == IF v \in {NoPid, busy} THEN d ELSE Release(d, {v})
        IN  /\ active' = active \ {v}
            /\ waiting' = IF v = NoPid THEN waiting ELSE Append(waiting, v)
            /\ doomed' = IF v = busy /\ v # NoPid THEN {SectionList} ELSE doomed
            /\ \/ /\ demux' \in AllocateOk(freed, p)
                  /\ listed' = Join(left, g, p)
               \/ /\ demux' \in AllocateFailed(freed, p)
                  /\ listed' = left
  BY DEF AddByDescheduling
<1> DEFINE left  == IF v = NoPid THEN listed ELSE [listed EXCEPT ![v] = {}]
           freed == IF v \in {NoPid, busy} THEN d ELSE Release(d, {v})
<1>2. NeedsSlot(p) /\ promiscuous' = promiscuous
  BY DEF AddByDescheduling
<1>3. p \in Pid /\ ~promiscuous /\ ~Occupied(p)
  BY <1>2 DEF NeedsSlot, ListedPid
<1>4. demux \in Slots /\ Cardinality(Used(demux)) <= MaxFilters
  BY DEF IInv, TypeOK, SlotCapacity, Slots
<1>5. /\ d \in Slots /\ Cardinality(Used(d)) <= MaxFilters
      /\ \A q \in ListedPid : demux[q] # "free" => d[q] # "free"
  BY <1>4, AllocateLemma DEF Allocate
<1>6. /\ freed \in Slots /\ Cardinality(Used(freed)) <= MaxFilters
      /\ \A q \in ListedPid : q # v \/ v = busy => freed[q] = d[q]
  <2>1. CASE v \in {NoPid, busy}
    BY <2>1, <1>5, ReaderAssumption
  <2>2. CASE v \notin {NoPid, busy}
    BY <2>2, <1>5, ReleaseLemma
  <2>3. QED  BY <2>1, <2>2
<1>7. /\ demux' \in Slots /\ Cardinality(Used(demux')) <= MaxFilters
      /\ \A q \in ListedPid : freed[q] # "free" => demux'[q] # "free"
      /\ listed' = left \/ (listed' = Join(left, g, p) /\ demux'[p] # "free")
  <2>1. demux' \in Allocate(freed, p)
    BY <1>1 DEF Allocate
  <2>2. CASE demux' \in AllocateOk(freed, p) /\ listed' = Join(left, g, p)
    BY <2>1, <2>2, <1>6, AllocateLemma
  <2>3. CASE demux' \in AllocateFailed(freed, p) /\ listed' = left
    BY <2>1, <2>3, <1>6, AllocateLemma
  <2>4. QED  BY <1>1, <2>2, <2>3
<1> HIDE DEF freed
<1>8. v = NoPid \/ (/\ v \in active /\ v \in Pid /\ v # p /\ v # NoPid
                    /\ listed[v] = {SectionList}
                    /\ busy = v => doomed = {})
  BY <1>1, <1>3, ReaderAssumption
  DEF Victims, Alone, Occupied, IInv, TypeOK, ListedPid
<1>9. /\ left \in [ListedPid -> SUBSET Owner]
      /\ \A q \in ListedPid : /\ q # v => left[q] = listed[q]
                              /\ q = v => left[q] = {}
  BY <1>8, ReaderAssumption DEF IInv, TypeOK, ListedPid
<1> HIDE DEF left
<1>10. /\ listed' \in [ListedPid -> SUBSET Owner]
       /\ \A q \in ListedPid : /\ q \notin {v, p} => listed'[q] = listed[q]
                               /\ q = v => listed'[q] = {}
                               /\ left[q] \subseteq listed'[q]
                               /\ SectionList \in listed'[q]
                                    <=> SectionList \in left[q]
  BY <1>7, <1>8, <1>9, <1>3, ReaderAssumption DEF Join, Owner
<1>11. /\ waiting' \in Seq(Pid) /\ Injective(waiting')
       /\ InQueue(waiting') = IF v = NoPid THEN InQueue(waiting)
                              ELSE InQueue(waiting) \cup {v}
  <2>1. waiting \in Seq(Pid) /\ Injective(waiting) /\ active \cap InQueue(waiting) = {}
    BY DEF IInv, TypeOK, SectionListsConsistent, Injective
  <2>2. CASE v = NoPid
    BY <2>1, <2>2, <1>1
  <2>3. CASE v # NoPid
    <3>1. v \in Pid /\ v \notin InQueue(waiting) /\ waiting' = Append(waiting, v)
      BY <2>1, <2>3, <1>1, <1>8
    <3>2. QED  BY <3>1, <2>1, <2>3, AppendToQueue
  <2>4. QED  BY <2>2, <2>3
<1>12. /\ active' = active \ {v}
       /\ doomed' = IF v = busy /\ v # NoPid THEN {SectionList} ELSE doomed
  BY <1>1
<1>13. TypeOK'
  BY <1>2, <1>7, <1>10, <1>11, <1>12 DEF IInv, TypeOK, Slots, Owner
<1>14. SectionListsConsistent'
  <2>1. \A q \in ListedPid : SectionList \in listed'[q] <=> q \in active'
    BY <1>9, <1>10, <1>12 DEF IInv, SectionListsConsistent
  <2>2. NoPid \notin active
    BY ReaderAssumption DEF IInv, TypeOK, ListedPid
  <2>3. /\ active' \cap InQueue(waiting') = {}
        /\ active' \cup InQueue(waiting') = active \cup InQueue(waiting)
    BY <1>8, <1>11, <1>12, <2>2 DEF IInv, SectionListsConsistent
  <2>4. QED  BY <2>1, <2>3, <1>11 DEF IInv, SectionListsConsistent, Injective
<1>15. FiltersHaveSlots'
  <2> SUFFICES ASSUME NEW q \in Pid, Occupied(q)'
               PROVE  demux'[q] # "free"
    BY DEF FiltersHaveSlots
  <2>1. q \in ListedPid
    BY DEF ListedPid
  <2>2. CASE q = p
    <3>1. ~(busy' = p /\ doomed' # {})
      BY <1>3, <1>8, <1>12, ReaderAssumption DEF Occupied, ListedPid
    <3>2. listed'[p] # {}
      BY <2>2, <3>1 DEF Occupied
    <3>3. left[p] = {}
      BY <1>3, <1>8, <1>9, ReaderAssumption DEF Occupied, ListedPid
    <3>4. QED  BY <2>2, <3>2, <3>3, <1>7
  <2>3. CASE q = v
    <3>1. busy = v
      BY <2>1, <2>3, <1>10 DEF Occupied
    <3>2. Occupied(v)
      BY <2>1, <2>3, <1>8, ReaderAssumption DEF Occupied, ListedPid
    <3>3. demux[v] # "free"
      BY <2>3, <3>2, <1>3 DEF IInv, FiltersHaveSlots
    <3>4. QED  BY <2>1, <2>3, <3>1, <3>3, <1>5, <1>6, <1>7
  <2>4. CASE q \notin {p, v}
    <3>1. Occupied(q)
      BY <2>1, <2>4, <1>10, <1>12 DEF Occupied
    <3>2. demux[q] # "free"
      BY <3>1, <1>3 DEF IInv, FiltersHaveSlots
    <3>3. QED  BY <2>1, <2>4, <3>2, <1>5, <1>6, <1>7
  <2>5. QED  BY <2>2, <2>3, <2>4
<1>16. SlotCapacity'
  BY <1>7 DEF SlotCapacity
<1>17. LoopInv'
  <2>1. CASE busy = NoPid
    BY <2>1, <1>12 DEF IInv, LoopInv
  <2>2. CASE busy # NoPid /\ busy = v
    BY <2>2, <1>8, <1>12 DEF IInv, LoopInv
  <2>3. CASE busy # NoPid /\ busy # v
    <3>1. busy \in ListedPid
      BY <2>3 DEF IInv, TypeOK
    <3>2. listed[busy] \subseteq listed'[busy]
      BY <3>1, <2>3, <1>9, <1>10
    <3>3. QED  BY <2>3, <3>2, <1>12 DEF IInv, LoopInv
  <2>4. QED  BY <2>1, <2>2, <2>3
<1>18. QED  BY <1>13, <1>14, <1>15, <1>16, <1>17 DEF IInv

\* Adding a packet filter keeps the invariant.
LEMMA AddPacketFilterStep ==
  ASSUME IInv, NEW g \in Group, NEW p \in ListedPid, AddPacketFilter(g, p)
  PROVE  IInv'
<1>1. /\ demux \in Slots /\ Cardinality(Used(demux)) <= MaxFilters
      /\ promiscuous \in BOOLEAN
  BY DEF IInv, TypeOK, SlotCapacity, Slots
<1>2. UNCHANGED <<sections, busy, pending, current>>
  BY DEF AddPacketFilter
<1>3. CASE AddWithoutSlot(g, p)
  <2>1. ~promiscuous /\ p \in Pid => Occupied(p)
    BY <1>3, ReaderAssumption DEF AddWithoutSlot
  <2>2. ~promiscuous /\ p \in Pid => demux[p] # "free"
    BY <2>1 DEF IInv, FiltersHaveSlots
  <2>3. /\ listed' = Join(listed, g, p)
        /\ UNCHANGED <<doomed, active, waiting, demux, promiscuous>>
    BY <1>3 DEF AddWithoutSlot
  <2>4. QED  BY <2>2, <2>3, <1>1, <1>2, JoinLemma
<1>4. CASE AddEverything(g) /\ p = PidAll
  <2>1. /\ EnterPromiscuousMode(demux)
        /\ listed' = Join(listed, g, p)
        /\ UNCHANGED <<doomed, active, waiting>>
    BY <1>4 DEF AddEverything
  <2>2. /\ promiscuous' = TRUE /\ demux' \in Slots
        /\ Cardinality(Used(demux')) <= MaxFilters
    BY <2>1, <1>1, PromiscuousLemma
  <2>3. QED  BY <2>1, <2>2, <1>2, JoinLemma
<1>5. CASE AddWithSlot(g, p)
  <2>1. /\ demux' \in AllocateOk(demux, p)
        /\ listed' = Join(listed, g, p)
        /\ ~promiscuous
        /\ UNCHANGED <<doomed, active, waiting, promiscuous>>
    BY <1>5 DEF AddWithSlot, NeedsSlot
  <2>2. /\ demux' \in Slots /\ Cardinality(Used(demux')) <= MaxFilters
        /\ \A q \in ListedPid : demux[q] # "free" => demux'[q] # "free"
        /\ demux'[p] # "free"
    BY <2>1, <1>1, AllocateLemma DEF Allocate
  <2>3. \A q \in Pid : demux[q] # "free" => demux'[q] # "free"
    BY <2>2 DEF ListedPid
  <2>4. QED  BY <2>1, <2>2, <2>3, <1>1, <1>2, JoinLemma
<1>6. CASE AddPromiscuously(g, p)
  <2>1. PICK d \in AllocateFailed(demux, p) : EnterPromiscuousMode(d)
    BY <1>6 DEF AddPromiscuously
  <2>2. d \in Slots /\ Cardinality(Used(d)) <= MaxFilters
    BY <1>1, AllocateLemma DEF Allocate
  <2>3. /\ promiscuous' = TRUE /\ demux' \in Slots
        /\ Cardinality(Used(demux')) <= MaxFilters
    BY <2>1, <2>2, PromiscuousLemma
  <2>4. /\ listed' = Join(listed, g, p)
        /\ UNCHANGED <<doomed, active, waiting>>
    BY <1>6 DEF AddPromiscuously
  <2>5. QED  BY <2>3, <2>4, <1>2, JoinLemma
<1>7. CASE AddByDescheduling(g, p)
  BY <1>2, <1>7, AddByDeschedulingStep
<1>8. QED
  BY <1>3, <1>4, <1>5, <1>6, <1>7 DEF AddPacketFilter

-----------------------------------------------------------------------------
(* Section filters and removals.                                           *)

\* Adding a section filter keeps the invariant.
LEMMA AddSectionFilterStep ==
  ASSUME IInv, NEW g \in Group, NEW p \in Pid, AddSectionFilter(g, p)
  PROVE  IInv'
<1> DEFINE occ == {q \in ListedPid : Occupied(q)}
           w == IF sections[p] = {} THEN Append(waiting, p) ELSE waiting
<1>1. /\ sections' = [sections EXCEPT ![p] = @ \cup {g}]
      /\ ScheduleFilters(listed, occ, demux, active, w)
      /\ UNCHANGED <<doomed, busy, pending, current>>
  BY DEF AddSectionFilter
<1>2. /\ listed \in [ListedPid -> SUBSET Owner] /\ demux \in Slots
      /\ active \in SUBSET Pid /\ waiting \in Seq(Pid) /\ promiscuous \in BOOLEAN
      /\ sections \in [Pid -> SUBSET Group]
      /\ Cardinality(Used(demux)) <= MaxFilters
      /\ \A q \in ListedPid : SectionList \in listed[q] <=> q \in active
      /\ active \cap InQueue(waiting) = {} /\ Injective(waiting)
      /\ active \cup InQueue(waiting) = {q \in Pid : sections[q] # {}}
  BY DEF IInv, TypeOK, SlotCapacity, Slots, SectionListsConsistent, Injective
<1>3. /\ w \in Seq(Pid) /\ Injective(w) /\ active \cap InQueue(w) = {}
      /\ active \cup InQueue(w) = {q \in Pid : sections'[q] # {}}
      /\ sections' \in [Pid -> SUBSET Group]
  <2>1. CASE sections[p] = {}
    <3>1. p \notin InQueue(waiting) /\ p \notin active
      BY <2>1, <1>2
    <3>2. /\ w \in Seq(Pid) /\ Injective(w)
          /\ InQueue(w) = InQueue(waiting) \cup {p}
      BY <2>1, <3>1, <1>2, AppendToQueue
    <3> HIDE DEF w
    <3>3. QED  BY <1>1, <1>2, <3>1, <3>2
  <2>2. CASE sections[p] # {}
    <3>1. w = waiting
      BY <2>2
    <3> HIDE DEF w
    <3>2. {q \in Pid : sections'[q] # {}} = {q \in Pid : sections[q] # {}}
      BY <2>2, <1>1, <1>2
    <3>3. QED  BY <1>1, <1>2, <3>1, <3>2
  <2>3. QED  BY <2>1, <2>2
<1> HIDE DEF w
<1>4. ~promiscuous => \A q \in Pid : q \in occ => demux[q] # "free"
  BY DEF IInv, FiltersHaveSlots
<1> HIDE DEF occ
<1>5. ScheduleResult(listed, demux, active, w)
  BY <1>1, <1>2, <1>3, <1>4, ScheduleLemma
<1>6. TypeOK'
  BY <1>1, <1>3, <1>5 DEF ScheduleResult, IInv, TypeOK, Slots
<1>7. SectionListsConsistent'
  BY <1>3, <1>5 DEF ScheduleResult, SectionListsConsistent, Injective
<1>8. FiltersHaveSlots'
  <2> SUFFICES ASSUME ~promiscuous', NEW q \in Pid, Occupied(q)'
               PROVE  demux'[q] # "free"
    BY DEF FiltersHaveSlots
  <2>1. CASE listed'[q] # listed[q]
    BY <2>1, <1>5 DEF ScheduleResult
  <2>2. CASE listed'[q] = listed[q]
    <3>1. Occupied(q) /\ ~promiscuous
      BY <2>2, <1>1, <1>5 DEF Occupied, ScheduleResult
    <3>2. demux[q] # "free"
      BY <3>1 DEF IInv, FiltersHaveSlots
    <3>3. QED  BY <3>2, <1>5 DEF ScheduleResult, ListedPid
  <2>3. QED  BY <2>1, <2>2
<1>9. SlotCapacity'
  BY <1>5 DEF ScheduleResult, SlotCapacity
<1>10. LoopInv'
  BY <1>1, <1>5 DEF ScheduleResult, IInv, LoopInv, TypeOK
<1>11. QED  BY <1>6, <1>7, <1>8, <1>9, <1>10 DEF IInv

\* Every queue the model takes a shortened queue from is a sequence.
LEMMA QueuesAreSequences == Queues \subseteq Seq(Pid)
<1>1. Cardinality(Pid) \in Nat
  BY FS_CardinalityType, ReaderAssumption
<1>2. ASSUME NEW n \in 0..Cardinality(Pid), NEW s \in [1..n -> Pid]
      PROVE  s \in Seq(Pid)
  BY <1>1
<1>3. QED  BY <1>2 DEF Queues

\* Withdrawing a section filter from its PIDs keeps the invariant.
LEMMA WithdrawStep ==
  ASSUME IInv, NEW g \in Group, NEW quit \in SUBSET Pid, NEW drop,
         Withdraw(g, quit, drop)
  PROVE  IInv'
<1> DEFINE gone == {p \in quit : sections[p] = {g}}
           left == [p \in ListedPid |->
                      (listed[p] \ (IF p \in drop THEN {g} ELSE {}))
                        \ (IF p \in gone THEN {SectionList} ELSE {})]
<1>1. /\ sections' = [p \in Pid |-> IF p \in quit THEN sections[p] \ {g}
                                                  ELSE sections[p]]
      /\ active' = active \ gone
      /\ waiting' \in Queues /\ IsWithout(waiting', waiting, gone)
      /\ DropFilters(left)
      /\ UNCHANGED <<promiscuous, busy, pending, current>>
  BY DEF Withdraw
<1>2. /\ left \in [ListedPid -> SUBSET Owner]
      /\ \A p \in ListedPid : left[p] \subseteq listed[p]
      /\ \A p \in ListedPid : SectionList \in left[p]
                                <=> SectionList \in listed[p] /\ p \notin gone
  BY ReaderAssumption DEF IInv, TypeOK, Owner
<1>3. /\ sections' \in [Pid -> SUBSET Group]
      /\ \A p \in Pid : sections'[p] = {} <=> sections[p] = {} \/ p \in gone
  BY <1>1 DEF IInv, TypeOK
<1> HIDE DEF gone, left
<1>4. /\ listed' = left /\ doomed' \in SUBSET Owner /\ demux' \in Slots
      /\ FiltersHaveSlots' /\ SlotCapacity' /\ LoopInv'
  BY <1>1, <1>2, DropFiltersLemma
<1>5. waiting' \in Seq(Pid)
  BY <1>1, QueuesAreSequences
<1>6. TypeOK'
  BY <1>1, <1>2, <1>3, <1>4, <1>5 DEF IInv, TypeOK, Slots
<1>7. SectionListsConsistent'
  <2>1. /\ InQueue(waiting') = InQueue(waiting) \ gone
        /\ \A i, j \in 1..Len(waiting') : i # j => waiting'[i] # waiting'[j]
    BY <1>1 DEF IsWithout
  <2>2. \A p \in ListedPid : SectionList \in listed'[p] <=> p \in active'
    BY <1>1, <1>2, <1>4 DEF IInv, SectionListsConsistent
  <2>3. /\ active' \cap InQueue(waiting') = {}
        /\ active' \cup InQueue(waiting') = {p \in Pid : sections'[p] # {}}
    BY <1>1, <1>3, <2>1 DEF IInv, SectionListsConsistent
  <2>4. QED  BY <2>1, <2>2, <2>3 DEF SectionListsConsistent
<1>8. QED  BY <1>4, <1>6, <1>7 DEF IInv

-----------------------------------------------------------------------------
(* The packet loop.                                                        *)

\* Rotating a section list keeps the invariant.
LEMMA SectionPushedStep ==
  ASSUME IInv, SectionPushed
  PROVE  IInv'
<1> DEFINE left == [listed EXCEPT ![busy] = @ \ {SectionList}]
<1>1. /\ busy \in active /\ busy \in Pid /\ busy \in ListedPid
      /\ active' = active \ {busy}
      /\ waiting' = Append(waiting, busy)
      /\ DropFilters(left)
      /\ UNCHANGED <<sections, promiscuous, busy, pending, current>>
  BY DEF SectionPushed, IInv, TypeOK, ListedPid
<1>2. /\ left \in [ListedPid -> SUBSET Owner]
      /\ \A p \in ListedPid : left[p] \subseteq listed[p]
      /\ \A p \in ListedPid : SectionList \in left[p]
                                <=> SectionList \in listed[p] /\ p # busy
  BY <1>1 DEF IInv, TypeOK
<1> HIDE DEF left
<1>3. /\ listed' = left /\ doomed' \in SUBSET Owner /\ demux' \in Slots
      /\ FiltersHaveSlots' /\ SlotCapacity' /\ LoopInv'
  BY <1>1, <1>2, DropFiltersLemma
<1>4. /\ waiting' \in Seq(Pid) /\ Injective(waiting')
      /\ InQueue(waiting') = InQueue(waiting) \cup {busy}
  <2>1. waiting \in Seq(Pid) /\ Injective(waiting) /\ busy \notin InQueue(waiting)
    BY <1>1 DEF IInv, TypeOK, SectionListsConsistent, Injective
  <2>2. QED  BY <1>1, <2>1, AppendToQueue
<1>5. TypeOK'
  BY <1>1, <1>2, <1>3, <1>4 DEF IInv, TypeOK, Slots
<1>6. SectionListsConsistent'
  BY <1>1, <1>2, <1>3, <1>4 DEF IInv, SectionListsConsistent, Injective
<1>7. QED  BY <1>3, <1>5, <1>6 DEF IInv

\* The end of the packet loop keeps the invariant.
LEMMA FinishLoopStep ==
  ASSUME IInv, FinishLoop
  PROVE  IInv'
<1>1. /\ busy # NoPid /\ busy \in ListedPid /\ current = Nobody /\ pending = {}
      /\ doomed' = {} /\ UNCHANGED <<sections, current>>
      /\ \/ busy' = PidAll /\ pending' = listed[PidAll]
         \/ busy' = NoPid /\ pending' = {}
  BY DEF FinishLoop, IInv, TypeOK
<1>2. PidAll \in ListedPid /\ PidAll # NoPid
  BY ReaderAssumption DEF ListedPid
<1>3. /\ listed \in [ListedPid -> SUBSET Owner] /\ demux \in Slots
      /\ active \in SUBSET Pid /\ waiting \in Seq(Pid) /\ promiscuous \in BOOLEAN
      /\ Cardinality(Used(demux)) <= MaxFilters
      /\ \A q \in ListedPid : SectionList \in listed[q] <=> q \in active
      /\ active \cap InQueue(waiting) = {} /\ Injective(waiting)
  BY DEF IInv, TypeOK, SlotCapacity, Slots, SectionListsConsistent, Injective
<1>4. ~promiscuous => \A q \in Pid : listed[q] # {} => demux[q] # "free"
  BY DEF IInv, FiltersHaveSlots, Occupied
<1>5. CASE /\ listed[busy] # {}
           /\ UNCHANGED <<listed, active, waiting, demux, promiscuous>>
  <2>1. TypeOK'
    BY <1>1, <1>2, <1>3, <1>5 DEF IInv, TypeOK
  <2>2. SectionListsConsistent' /\ SlotCapacity'
    BY <1>1, <1>5 DEF IInv, SectionListsConsistent, SlotCapacity
  <2>3. FiltersHaveSlots'
    BY <1>1, <1>4, <1>5 DEF FiltersHaveSlots, Occupied
  <2>4. LoopInv'
    BY <1>1, <1>2, <1>5 DEF LoopInv
  <2>5. QED  BY <2>1, <2>2, <2>3, <2>4 DEF IInv
<1>6. CASE /\ listed[busy] = {}
           /\ ScheduleFilters(listed, {q \in ListedPid : listed[q] # {}},
                              Release(demux, Unlisted({busy})), active, waiting)
  <2> DEFINE d == Release(demux, Unlisted({busy}))
             occ == {q \in ListedPid : listed[q] # {}}
  <2>1. /\ d \in Slots /\ Cardinality(Used(d)) <= MaxFilters
        /\ \A q \in ListedPid \ Unlisted({busy}) : d[q] = demux[q]
    BY <1>3, ReleaseLemma
  <2>2. ScheduleFilters(listed, occ, d, active, waiting)
    BY <1>6
  <2> HIDE DEF d
  <2>3. ~promiscuous => \A q \in Pid : q \in occ => d[q] # "free"
    BY <1>4, <1>6, <2>1 DEF Unlisted, ListedPid
  <2> HIDE DEF occ
  <2>4. ScheduleResult(listed, d, active, waiting)
    BY <1>3, <2>1, <2>2, <2>3, ScheduleLemma
  <2>5. TypeOK'
    BY <1>1, <1>2, <1>3, <2>4 DEF ScheduleResult, IInv, TypeOK, Slots
  <2>6. SectionListsConsistent'
    BY <1>1, <2>4 DEF ScheduleResult, IInv, SectionListsConsistent, Injective
  <2>7. FiltersHaveSlots'
    <3> SUFFICES ASSUME ~promiscuous', NEW q \in Pid, listed'[q] # {}
                 PROVE  demux'[q] # "free"
      BY <1>1 DEF FiltersHaveSlots, Occupied
    <3>1. CASE listed'[q] # listed[q]
      BY <3>1, <2>4 DEF ScheduleResult
    <3>2. CASE listed'[q] = listed[q]
      <4>1. d[q] # "free"
        BY <3>2, <2>3, <2>4 DEF occ, ScheduleResult, ListedPid
      <4>2. QED  BY <4>1, <2>4 DEF ScheduleResult, ListedPid
    <3>3. QED  BY <3>1, <3>2
  <2>8. SlotCapacity'
    BY <2>4 DEF ScheduleResult, SlotCapacity
  <2>9. LoopInv'
    BY <1>1, <1>2, <2>4 DEF ScheduleResult, LoopInv
  <2>10. QED  BY <2>5, <2>6, <2>7, <2>8, <2>9 DEF IInv
<1>7. QED  BY <1>5, <1>6 DEF FinishLoop

-----------------------------------------------------------------------------
(* The theorems.                                                           *)

\* Every step keeps the invariant.
LEMMA StepKeepsIInv == IInv /\ [Next]_vars => IInv'
<1> SUFFICES ASSUME IInv, [Next]_vars PROVE IInv'
  OBVIOUS
<1>1. CASE UNCHANGED vars
  BY <1>1 DEF vars, IInv, TypeOK, SectionListsConsistent, FiltersHaveSlots,
              SlotCapacity, LoopInv, Occupied, InQueue, Used
<1>2. ASSUME NEW p \in ListedPid, StartPacket(p)
      PROVE  IInv'
  <2>1. /\ busy = NoPid /\ doomed = {} /\ current = Nobody
        /\ busy' = p /\ busy' # NoPid /\ pending' = listed[p]
        /\ UNCHANGED <<listed, doomed, sections, active, waiting, demux,
                       promiscuous, current>>
    BY <1>2, ReaderAssumption DEF StartPacket, IInv, LoopInv
  <2>2. TypeOK'
    BY <2>1 DEF IInv, TypeOK
  <2>3. SectionListsConsistent' /\ SlotCapacity'
    BY <2>1 DEF IInv, SectionListsConsistent, SlotCapacity
  <2>4. FiltersHaveSlots' /\ LoopInv'
    BY <2>1 DEF IInv, FiltersHaveSlots, Occupied, LoopInv
  <2>5. QED  BY <2>2, <2>3, <2>4 DEF IInv
<1>3. ASSUME NEW o \in Owner, VisitFilter(o)
      PROVE  IInv'
  <2>1. /\ busy # NoPid /\ pending' = pending \ {o} /\ current' \in {Nobody, o}
        /\ UNCHANGED <<listed, doomed, sections, active, waiting, demux,
                       promiscuous, busy>>
    BY <1>3 DEF VisitFilter
  <2>2. TypeOK'
    BY <2>1 DEF IInv, TypeOK
  <2>3. SectionListsConsistent' /\ SlotCapacity'
    BY <2>1 DEF IInv, SectionListsConsistent, SlotCapacity
  <2>4. FiltersHaveSlots' /\ LoopInv'
    BY <2>1 DEF IInv, FiltersHaveSlots, Occupied, LoopInv
  <2>5. QED  BY <2>2, <2>3, <2>4 DEF IInv
<1>4. CASE CallbackReturns
  <2>1. /\ current' = Nobody
        /\ UNCHANGED <<listed, doomed, sections, active, waiting, demux,
                       promiscuous, busy, pending>>
    BY <1>4 DEF CallbackReturns
  <2>2. TypeOK'
    BY <2>1 DEF IInv, TypeOK
  <2>3. SectionListsConsistent' /\ SlotCapacity'
    BY <2>1 DEF IInv, SectionListsConsistent, SlotCapacity
  <2>4. FiltersHaveSlots' /\ LoopInv'
    BY <2>1 DEF IInv, FiltersHaveSlots, Occupied, LoopInv
  <2>5. QED  BY <2>2, <2>3, <2>4 DEF IInv
<1>5. CASE SectionPushed
  BY <1>5, SectionPushedStep
<1>6. CASE FinishLoop
  BY <1>6, FinishLoopStep
<1>7. ASSUME NEW g \in Group, NEW p \in ListedPid,
             AddPacketFilter(g, p) \/ RemovePacketFilter(g, p)
      PROVE  IInv'
  BY <1>7, AddPacketFilterStep, WithdrawStep DEF RemovePacketFilter
<1>8. ASSUME NEW g \in Group, NEW p \in Pid,
             AddSectionFilter(g, p) \/ RemoveSectionFilter(g, p)
      PROVE  IInv'
  BY <1>8, AddSectionFilterStep, WithdrawStep DEF RemoveSectionFilter
<1>9. ASSUME NEW g \in Group, RemoveAllFilters(g)
      PROVE  IInv'
  BY <1>9, WithdrawStep DEF RemoveAllFilters
<1>10. QED
  BY <1>1, <1>2, <1>3, <1>4, <1>5, <1>6, <1>7, <1>8, <1>9
  DEF Next, PacketLoop, Calls

\* The invariant always holds.
LEMMA Invariance == Spec => []IInv
BY InitIInv, StepKeepsIInv, PTL DEF Spec

\* Every variable of the reader keeps its type.
THEOREM TypeCorrect == Spec => []TypeOK
<1>1. IInv => TypeOK
  BY DEF IInv
<1>2. QED  BY <1>1, Invariance, PTL

\* No section filter list is ever lost, queued twice, or active without its
\* packet filter, whatever is added, removed, descheduled and rotated while the
\* packet loop runs.
THEOREM SectionListsAreConsistent == Spec => []SectionListsConsistent
<1>1. IInv => SectionListsConsistent
  BY DEF IInv
<1>2. QED  BY <1>1, Invariance, PTL

\* Outside promiscuous mode no filter is ever without a demux filter.
THEOREM FilteredPidsHaveSlots == Spec => []FiltersHaveSlots
<1>1. IInv => FiltersHaveSlots
  BY DEF IInv
<1>2. QED  BY <1>1, Invariance, PTL

\* The demux filters in use never exceed those the adapter has.
THEOREM SlotsSuffice == Spec => []SlotCapacity
<1>1. IInv => SlotCapacity
  BY DEF IInv
<1>2. QED  BY <1>1, Invariance, PTL

\* The packet loop calls nobody back whose filter has been removed, however the
\* callbacks it made before changed the list it walks.
THEOREM RemovedFiltersStaySilent == Spec => NoCallAfterRemoval
<1> DEFINE Step == current' \notin {current, Nobody}
                     => current' \in listed[busy] \ doomed
<1>1. ASSUME IInv, [Next]_vars
      PROVE  [Step]_vars
  <2>1. CASE UNCHANGED vars
    BY <2>1
  <2>2. ASSUME NEW o \in Owner, VisitFilter(o)
        PROVE  Step
    BY <1>1, <2>2 DEF VisitFilter, IInv, LoopInv
  <2>3. ASSUME NEW p \in ListedPid, StartPacket(p)
        PROVE  Step
    BY <2>3 DEF StartPacket
  <2>4. CASE CallbackReturns \/ SectionPushed \/ FinishLoop
    BY <2>4 DEF CallbackReturns, SectionPushed, FinishLoop
  <2>5. CASE Calls
    BY <2>5 DEF Calls, AddPacketFilter, AddSectionFilter, RemovePacketFilter,
                RemoveSectionFilter, RemoveAllFilters, Withdraw
  <2>6. QED
    BY <1>1, <2>1, <2>2, <2>3, <2>4, <2>5 DEF Next, PacketLoop
<1>2. Spec => [][Next]_vars
  BY DEF Spec
<1>3. QED  BY <1>1, <1>2, Invariance, PTL DEF NoCallAfterRemoval

-----------------------------------------------------------------------------
(* No slot is kept for nobody.                                             *)

\* A restricted adapter never gets into promiscuous mode, and the slots in use
\* are those of the PIDs somebody filters.
Held ==
  /\ ~promiscuous
  /\ \A p \in ListedPid : demux[p] # "free" => p \in Pid /\ Occupied(p)

\* Where no filter set-up fails, an allocation takes a slot for its own PID, and
\* one that fails takes none.
LEMMA AllocateTakesOne ==
  ASSUME NEW d \in Slots, NEW p \in ListedPid, FilterSetupMayFail = FALSE
  PROVE  /\ \A e \in AllocateOk(d, p) : \A q \in ListedPid :
              e[q] # "free" => q = p \/ d[q] # "free"
         /\ \A e \in AllocateFailed(d, p) : e = d
  BY DEF AllocateOk, AllocateFailed, Slots

\* What a restricted adapter releases is free.
LEMMA ReleaseFrees ==
  ASSUME NEW d \in Slots, NEW gone, NEW q \in ListedPid,
         HardwareRestricted = TRUE, Release(d, gone)[q] # "free"
  PROVE  q \notin gone /\ d[q] # "free"
  BY DEF Release

\* Scheduling takes slots for the lists it activates.
LEMMA ScheduleTakesForLists ==
  ASSUME NEW l \in [ListedPid -> SUBSET Owner], NEW occ, NEW d \in Slots,
         NEW a \in SUBSET Pid, NEW w \in Seq(Pid), ~promiscuous,
         HardwareRestricted = TRUE, FilterSetupMayFail = FALSE,
         ScheduleFilters(l, occ, d, a, w)
  PROVE  /\ ~promiscuous'
         /\ \A q \in ListedPid :
              /\ l[q] \subseteq listed'[q]
              /\ demux'[q] # "free" /\ d[q] = "free" => q \in Pid /\ listed'[q] # {}
<1>1. PICK n \in 0..Len(w) :
        LET started == {w[i] : i \in 1..n}
            fresh   == {p \in started : p \notin occ /\ d[p] = "free"}
            opened  == [p \in ListedPid |-> IF p \in fresh THEN "set" ELSE d[p]]
            begin(S) == [p \in ListedPid |->
                           IF p \in S THEN l[p] \cup {SectionList} ELSE l[p]]
        IN  /\ listed' = begin(started)
            /\ promiscuous' = promiscuous
            /\ \/ demux' = opened
               \/ n < Len(w) /\ \E e \in AllocateFailed(opened, w[n + 1]) : demux' = e
  BY DEF ScheduleFilters
<1> DEFINE started == {w[i] : i \in 1..n}
           fresh   == {p \in started : p \notin occ /\ d[p] = "free"}
           opened  == [p \in ListedPid |-> IF p \in fresh THEN "set" ELSE d[p]]
<1>2. Len(w) \in Nat /\ \A i \in 1..Len(w) : w[i] \in Pid
  BY LenProperties, ElementOfSeq
<1>3. started \subseteq Pid
  BY <1>2
<1>4. opened \in Slots
  BY DEF Slots
<1>5. demux' = opened
  <2>1. CASE n < Len(w) /\ \E e \in AllocateFailed(opened, w[n + 1]) : demux' = e
    <3>1. w[n + 1] \in ListedPid
      BY <1>2, <2>1 DEF ListedPid
    <3>2. \A e \in AllocateFailed(opened, w[n + 1]) : e = opened
      BY <1>4, <3>1, AllocateTakesOne
    <3>3. QED  BY <2>1, <3>2
  <2>2. QED  BY <1>1, <2>1
<1>6. \A q \in ListedPid : /\ listed'[q] = IF q \in started THEN l[q] \cup {SectionList}
                                                            ELSE l[q]
                           /\ demux'[q] = IF q \in fresh THEN "set" ELSE d[q]
  BY <1>1, <1>5
<1>7. fresh \subseteq started
  OBVIOUS
<1> HIDE DEF started, fresh, opened
<1>8. QED  BY <1>1, <1>3, <1>6, <1>7

\* Removing filters gives back the slot of every PID but the one being processed,
\* whose slot waits for the end of the loop.
LEMMA DropFiltersGivesBack ==
  ASSUME IInv, Held, HardwareRestricted = TRUE,
         NEW l \in [ListedPid -> SUBSET Owner],
         DropFilters(l), UNCHANGED <<promiscuous, busy>>
  PROVE  Held'
<1> DEFINE gone == Unlisted({p \in ListedPid \ {busy} : listed[p] # {} /\ l[p] = {}})
<1>1. /\ listed' = l /\ demux' = Release(demux, gone)
      /\ doomed' = IF busy = NoPid THEN doomed
                   ELSE doomed \cup (listed[busy] \ l[busy])
  BY DEF DropFilters
<1>2. SUFFICES ASSUME NEW p \in ListedPid, demux'[p] # "free"
               PROVE  p \in Pid /\ Occupied(p)'
  BY DEF Held
<1>3. p \notin gone /\ demux[p] # "free"
  BY <1>1, <1>2, ReleaseFrees DEF IInv, TypeOK, Slots
<1>4. p \in Pid /\ Occupied(p) /\ ~promiscuous
  BY <1>3 DEF Held
<1>5. CASE p = busy
  BY <1>1, <1>4, <1>5, ReaderAssumption DEF Occupied, ListedPid
<1>6. CASE p # busy
  BY <1>1, <1>3, <1>4, <1>6, ReaderAssumption DEF Occupied, Unlisted, ListedPid
<1>7. QED  BY <1>4, <1>5, <1>6

\* A group's filter takes the slot of its own PID; a list that gives way for it
\* gives its slot back, now or at the end of the loop.
LEMMA AddPacketFilterHolds ==
  ASSUME IInv, Held, HardwareRestricted = TRUE, FilterSetupMayFail = FALSE,
         NEW g \in Group, NEW p \in ListedPid, AddPacketFilter(g, p)
  PROVE  Held'
<1>1. /\ listed \in [ListedPid -> SUBSET Owner] /\ demux \in Slots /\ ~promiscuous
      /\ busy' = busy /\ active \subseteq Pid
      /\ \A q \in ListedPid : demux[q] # "free" => q \in Pid /\ Occupied(q)
  BY DEF IInv, TypeOK, Slots, AddPacketFilter, Held
<1>2. CASE AddWithoutSlot(g, p)
  BY <1>1, <1>2 DEF AddWithoutSlot, Held, Occupied, Join
<1>3. CASE AddWithSlot(g, p)
  <2>1. /\ p \in Pid /\ listed' = Join(listed, g, p) /\ doomed' = doomed /\ ~promiscuous'
        /\ \A q \in ListedPid : demux'[q] # "free" => q = p \/ demux[q] # "free"
    BY <1>1, <1>3, AllocateTakesOne DEF AddWithSlot, NeedsSlot, ListedPid
  <2>2. QED  BY <1>1, <2>1 DEF Held, Occupied, Join
<1>4. CASE AddByDescheduling(g, p)
  <2>1. p \in Pid /\ ~promiscuous'
    BY <1>1, <1>4 DEF AddByDescheduling, NeedsSlot, ListedPid
  <2>2. PICK v \in (IF Victims = {} THEN {NoPid} ELSE Victims) :
          LET left  == IF v = NoPid THEN listed ELSE [listed EXCEPT ![v] = {}]
              freed == IF v \in {NoPid, busy} THEN demux ELSE Release(demux, {v})
          IN  /\ doomed' = IF v = busy /\ v # NoPid THEN {SectionList} ELSE doomed
              /\ \/ demux' \in AllocateOk(freed, p) /\ listed' = Join(left, g, p)
                 \/ demux' \in AllocateFailed(freed, p) /\ listed' = left
    <3>1. \A d \in AllocateFailed(demux, p) : d = demux
      BY <1>1, AllocateTakesOne
    <3>2. QED  BY <1>4, <3>1 DEF AddByDescheduling
  <2> DEFINE left  == IF v = NoPid THEN listed ELSE [listed EXCEPT ![v] = {}]
             freed == IF v \in {NoPid, busy} THEN demux ELSE Release(demux, {v})
  <2>3. freed \in Slots /\ left \in [ListedPid -> SUBSET Owner]
    BY <1>1 DEF Release, Slots
  <2>4. \A q \in ListedPid : freed[q] # "free" =>
                                demux[q] # "free" /\ (q = v => v = busy)
    BY <1>1, ReaderAssumption, ReleaseFrees DEF ListedPid
  <2>5. \A q \in ListedPid : q # v => left[q] = listed[q]
    BY <1>1
  <2>6. \A q \in ListedPid : demux'[q] # "free" =>
                                \/ q = p /\ listed' = Join(left, g, p)
                                \/ freed[q] # "free"
    <3>1. \/ demux' \in AllocateOk(freed, p) /\ listed' = Join(left, g, p)
          \/ demux' \in AllocateFailed(freed, p)
      BY <2>2
    <3> HIDE DEF left, freed
    <3>2. /\ \A e \in AllocateOk(freed, p) : \A q \in ListedPid :
                e[q] # "free" => q = p \/ freed[q] # "free"
          /\ \A e \in AllocateFailed(freed, p) : e = freed
      BY <2>3, AllocateTakesOne
    <3>3. QED  BY <3>1, <3>2
  <2>7. \A q \in ListedPid : left[q] \subseteq listed'[q]
    BY <2>2, <2>3 DEF Join
  <2>8. doomed' = IF v = busy /\ v # NoPid THEN {SectionList} ELSE doomed
    BY <2>2
  <2> HIDE DEF left, freed
  <2>9. SUFFICES ASSUME NEW q \in ListedPid, demux'[q] # "free"
                 PROVE  q \in Pid /\ Occupied(q)'
    BY <2>1 DEF Held
  <2>10. CASE q = p /\ listed' = Join(left, g, p)
    BY <2>1, <2>3, <2>10 DEF Occupied, Join
  <2>11. CASE freed[q] # "free"
    <3>1. q \in Pid /\ Occupied(q) /\ (q = v => v = busy)
      BY <1>1, <2>4, <2>11
    <3>2. CASE q = v
      BY <1>1, <2>8, <3>1, <3>2, ReaderAssumption DEF Occupied, ListedPid
    <3>3. CASE q # v
      <4>1. CASE listed[q] # {}
        BY <2>5, <2>7, <3>1, <3>3, <4>1 DEF Occupied
      <4>2. CASE busy = q /\ doomed # {}
        BY <1>1, <2>8, <3>1, <3>3, <4>2 DEF Occupied
      <4>3. QED  BY <3>1, <4>1, <4>2 DEF Occupied
    <3>4. QED  BY <3>2, <3>3
  <2>12. QED  BY <2>6, <2>9, <2>10, <2>11
<1>5. QED
  BY <1>2, <1>3, <1>4 DEF AddPacketFilter, AddEverything, AddPromiscuously

\* At the end of the loop an emptied PID gives its slot back before the waiting
\* lists are scheduled.
LEMMA FinishLoopGivesBack ==
  ASSUME IInv, Held, HardwareRestricted = TRUE, FilterSetupMayFail = FALSE, FinishLoop
  PROVE  Held'
<1>1. /\ listed \in [ListedPid -> SUBSET Owner] /\ demux \in Slots /\ ~promiscuous
      /\ active \in SUBSET Pid /\ waiting \in Seq(Pid)
      /\ doomed' = {} /\ busy \in ListedPid
      /\ \A q \in ListedPid : demux[q] # "free" => q \in Pid /\ Occupied(q)
  BY DEF IInv, TypeOK, Slots, Held, FinishLoop
<1>2. CASE /\ listed[busy] # {}
           /\ UNCHANGED <<listed, active, waiting, demux, promiscuous>>
  BY <1>1, <1>2 DEF Held, Occupied
<1>3. CASE /\ listed[busy] = {}
           /\ ScheduleFilters(listed, {q \in ListedPid : listed[q] # {}},
                              Release(demux, Unlisted({busy})), active, waiting)
  <2> DEFINE d == Release(demux, Unlisted({busy}))
             occ == {q \in ListedPid : listed[q] # {}}
  <2>1. d \in Slots
    BY <1>1 DEF Release, Slots
  <2>2. \A q \in ListedPid : d[q] # "free" => q \in Pid /\ listed[q] # {}
    <3> SUFFICES ASSUME NEW q \in ListedPid, d[q] # "free"
                 PROVE  q \in Pid /\ listed[q] # {}
      OBVIOUS
    <3>1. q \notin Unlisted({busy}) /\ demux[q] # "free"
      BY <1>1, ReleaseFrees
    <3>2. q \in Pid /\ Occupied(q)
      BY <1>1, <3>1
    <3>3. q # busy
      BY <1>1, <3>1, <3>2, ReaderAssumption DEF Unlisted
    <3>4. QED  BY <3>2, <3>3 DEF Occupied
  <2>3. ScheduleFilters(listed, occ, d, active, waiting)
    BY <1>3
  <2> HIDE DEF d, occ
  <2>4. /\ ~promiscuous'
        /\ \A q \in ListedPid :
             /\ listed[q] \subseteq listed'[q]
             /\ demux'[q] # "free" /\ d[q] = "free" => q \in Pid /\ listed'[q] # {}
    BY <1>1, <2>1, <2>3, ScheduleTakesForLists
  <2>5. \A q \in ListedPid : demux'[q] # "free" => q \in Pid /\ listed'[q] # {}
    BY <2>2, <2>4
  <2>6. QED  BY <2>4, <2>5 DEF Held, Occupied
<1>4. QED  BY <1>2, <1>3 DEF FinishLoop

\* Every step of a restricted reader keeps slots only for those who filter.
LEMMA StepKeepsHeld ==
  ASSUME HardwareRestricted = TRUE, FilterSetupMayFail = FALSE
  PROVE  IInv /\ Held /\ [Next]_vars => Held'
<1> SUFFICES ASSUME IInv, Held, [Next]_vars PROVE Held'
  OBVIOUS
<1>1. CASE UNCHANGED vars
  BY <1>1 DEF vars, Held, Occupied
<1>2. ASSUME NEW p \in ListedPid, StartPacket(p)
      PROVE  Held'
  BY <1>2, ReaderAssumption DEF StartPacket, IInv, LoopInv, Held, Occupied
<1>3. CASE CallbackReturns \/ \E o \in Owner : VisitFilter(o)
  BY <1>3 DEF CallbackReturns, VisitFilter, Held, Occupied
<1>4. CASE SectionPushed
  <2> DEFINE left == [listed EXCEPT ![busy] = @ \ {SectionList}]
  <2>1. DropFilters(left) /\ UNCHANGED <<promiscuous, busy>>
    BY <1>4 DEF SectionPushed
  <2>2. left \in [ListedPid -> SUBSET Owner]
    BY DEF IInv, TypeOK
  <2> HIDE DEF left
  <2>3. QED  BY <2>1, <2>2, DropFiltersGivesBack
<1>5. CASE FinishLoop
  BY <1>5, FinishLoopGivesBack
<1>6. ASSUME NEW g \in Group, NEW p \in ListedPid, AddPacketFilter(g, p)
      PROVE  Held'
  BY <1>6, AddPacketFilterHolds
<1>7. ASSUME NEW g \in Group, NEW p \in Pid, AddSectionFilter(g, p)
      PROVE  Held'
  <2> DEFINE occ == {q \in ListedPid : Occupied(q)}
             w == IF sections[p] = {} THEN Append(waiting, p) ELSE waiting
  <2>1. /\ ScheduleFilters(listed, occ, demux, active, w)
        /\ UNCHANGED <<doomed, busy>>
    BY <1>7 DEF AddSectionFilter
  <2>2. /\ listed \in [ListedPid -> SUBSET Owner] /\ demux \in Slots
        /\ active \in SUBSET Pid /\ ~promiscuous
        /\ \A q \in ListedPid : demux[q] # "free" => q \in Pid /\ Occupied(q)
    BY DEF IInv, TypeOK, Slots, Held
  <2>3. w \in Seq(Pid)
    BY AppendProperties DEF IInv, TypeOK
  <2> HIDE DEF occ, w
  <2>4. /\ ~promiscuous'
        /\ \A q \in ListedPid :
             /\ listed[q] \subseteq listed'[q]
             /\ demux'[q] # "free" /\ demux[q] = "free" => q \in Pid /\ listed'[q] # {}
    BY <2>1, <2>2, <2>3, ScheduleTakesForLists
  <2>5. \A q \in ListedPid : Occupied(q) => Occupied(q)'
    BY <2>1, <2>4 DEF Occupied
  <2>6. QED  BY <2>2, <2>4, <2>5 DEF Held, Occupied
<1>8. ASSUME NEW g \in Group, NEW quit, NEW drop, Withdraw(g, quit, drop)
      PROVE  Held'
  <2> DEFINE gone == {p \in quit : sections[p] = {g}}
             left == [p \in ListedPid |->
                        (listed[p] \ (IF p \in drop THEN {g} ELSE {}))
                          \ (IF p \in gone THEN {SectionList} ELSE {})]
  <2>1. DropFilters(left) /\ UNCHANGED <<promiscuous, busy>>
    BY <1>8 DEF Withdraw
  <2>2. left \in [ListedPid -> SUBSET Owner]
    BY DEF IInv, TypeOK
  <2> HIDE DEF left
  <2>3. QED  BY <2>1, <2>2, DropFiltersGivesBack
<1>9. QED
  BY <1>1, <1>2, <1>3, <1>4, <1>5, <1>6, <1>7, <1>8
  DEF Next, PacketLoop, Calls, RemovePacketFilter, RemoveSectionFilter, RemoveAllFilters

\* On a restricted adapter whose filter set-up never fails only the PIDs somebody
\* filters hold a slot, whatever was removed while the loop was on its list.
THEOREM NoSlotIsLeaked == FilterSetupMayFail = FALSE => (Spec => []NoSlotLeaked)
<1> SUFFICES ASSUME FilterSetupMayFail = FALSE PROVE Spec => []NoSlotLeaked
  OBVIOUS
<1>1. CASE HardwareRestricted = TRUE
  <2>1. Init => Held
    BY DEF Init, Held
  <2>2. Held => NoSlotLeaked
    BY DEF Held, NoSlotLeaked, Used
  <2>3. IInv /\ Held /\ [Next]_vars => Held'
    BY <1>1, StepKeepsHeld
  <2>4. QED  BY <2>1, <2>2, <2>3, Invariance, PTL DEF Spec
<1>2. CASE HardwareRestricted = FALSE
  <2>1. NoSlotLeaked
    BY <1>2 DEF NoSlotLeaked
  <2>2. QED  BY <2>1, PTL
<1>3. QED  BY <1>1, <1>2, ReaderAssumption

=============================================================================
