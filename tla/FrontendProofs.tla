----------------------------- MODULE FrontendProofs -----------------------------
(***************************************************************************)
(* What holds of tuning for every set of multiplexes and PIDs, which races *)
(* of the two threads are excepted, and what the adapter that plays files  *)
(* does for every file.                                                    *)
(***************************************************************************)
EXTENDS Frontend, FileAdapter, FiniteSetTheorems, SequenceTheorems, TLAPS

Command == {"TUNE", "ACTIVE", "INACTIVE"}
Status  == {"lock", "loss"}

\* The types but for the lengths of the two queues.
Typed ==
  /\ {wanted, requested, properties} \subseteq Params \cup {None}
  /\ written \in BOOLEAN /\ tuning \in BOOLEAN /\ locked \in BOOLEAN
  /\ opened \in BOOLEAN /\ immediate \in BOOLEAN /\ signal \in BOOLEAN
  /\ pipe \in Seq(Command)
  /\ allocated \subseteq Pid /\ running \subseteq allocated
  /\ setting \in allocated \cup {None}
  /\ tuned \in [freq : Params \cup {None}, rest : Params \cup {None}]
  /\ events \in Seq(Status)
  /\ overtaken \in BOOLEAN /\ raced \in BOOLEAN

Bounded == Len(pipe) <= MaxPipe /\ Len(events) <= MaxEvents

\* Taking the first element of a sequence.
LEMMA Taking ==
  ASSUME NEW S, NEW q \in Seq(S), q # <<>>
  PROVE  /\ Head(q) \in S /\ Tail(q) \in Seq(S) /\ Len(Tail(q)) = Len(q) - 1
         /\ Len(q) \in Nat \ {0}
         /\ \A i \in 1..Len(Tail(q)) : i + 1 \in 1..Len(q) /\ Tail(q)[i] = q[i + 1]
  OBVIOUS

\* A retune keeps the types.
LEMMA RetuneTyped ==
  ASSUME Typed, Retune
  PROVE  /\ tuning' \in BOOLEAN /\ signal' \in BOOLEAN /\ events' \in Seq(Status)
         /\ Len(events') = 1
         /\ tuned' \in [freq : Params \cup {None}, rest : Params \cup {None}]
<1>1. /\ tuning' = TRUE /\ signal' = FALSE /\ events' = <<"loss">>
      /\ tuned' = [freq |-> requested, rest |-> properties]
  BY DEF Retune
<1>2. <<"loss">> \in Seq(Status) /\ Len(<<"loss">>) = 1
  BY DEF Status
<1>3. requested \in Params \cup {None} /\ properties \in Params \cup {None}
  BY DEF Typed
<1>4. tuned' \in [freq : Params \cup {None}, rest : Params \cup {None}]
  BY <1>1, <1>3
<1>5. tuning' \in BOOLEAN /\ signal' \in BOOLEAN
  BY <1>1
<1> QED
  BY <1>1, <1>2, <1>4, <1>5, Zenon

\* A device that has not been tuned.
LEMMA UntunedTyped == Untuned \in [freq : Params \cup {None}, rest : Params \cup {None}]
  BY DEF Untuned

\* An empty queue.
LEMMA EmptyTyped == ASSUME NEW S PROVE <<>> \in Seq(S) /\ Len(<<>>) = 0
  OBVIOUS

\* Commands and events keep the types.
LEMMA InputTyped ==
  ASSUME Typed, Bounded, InputStep
  PROVE  Typed' /\ Bounded'
<1> USE FrontendAssumption
<1>0. overtaken' \in BOOLEAN /\ raced' \in BOOLEAN
  BY DEF InputStep, Typed
<1>1. CASE HandleTune
  <2>1. /\ pipe' \in Seq(Command) /\ Len(pipe') <= MaxPipe
    BY <1>1, Taking DEF HandleTune, Typed, Bounded
  <2>2. /\ UNCHANGED <<wanted, requested, properties, written, locked, opened,
                       allocated, setting, immediate>>
        /\ running' = {}
    BY <1>1 DEF HandleTune, StopAllFilters
  <2>3. CASE Retune
    <3>1. /\ tuning' \in BOOLEAN /\ signal' \in BOOLEAN /\ events' \in Seq(Status)
          /\ Len(events') = 1
          /\ tuned' \in [freq : Params \cup {None}, rest : Params \cup {None}]
      BY <2>3, RetuneTyped
    <3> QED
      BY <1>0, <2>1, <2>2, <3>1 DEF Typed, Bounded
  <2>4. CASE UNCHANGED <<tuning, driver>>
    BY <1>0, <2>1, <2>2, <2>4 DEF Typed, Bounded, driver
  <2> QED
    BY <1>1, <2>3, <2>4 DEF HandleTune
<1>2. CASE HandleActive
  <2>1. /\ pipe' \in Seq(Command) /\ Len(pipe') <= MaxPipe
    BY <1>2, Taking DEF HandleActive, Typed, Bounded
  <2>2. UNCHANGED <<wanted, requested, properties, written, locked, filters>>
    BY <1>2 DEF HandleActive
  <2>3. CASE opened' = TRUE /\ Retune
    <3>1. /\ tuning' \in BOOLEAN /\ signal' \in BOOLEAN /\ events' \in Seq(Status)
          /\ Len(events') = 1
          /\ tuned' \in [freq : Params \cup {None}, rest : Params \cup {None}]
      BY <2>3, RetuneTyped
    <3> QED
      BY <1>0, <2>1, <2>2, <2>3, <3>1 DEF Typed, Bounded, filters
  <2>4. CASE UNCHANGED <<opened, tuning, driver>>
    BY <1>0, <2>1, <2>2, <2>4 DEF Typed, Bounded, filters, driver
  <2> QED
    BY <1>2, <2>3, <2>4 DEF HandleActive
<1>3. CASE HandleInactive
  <2>1. /\ pipe' \in Seq(Command) /\ Len(pipe') <= MaxPipe
    BY <1>3, Taking DEF HandleInactive, Typed, Bounded
  <2>2. UNCHANGED <<wanted, requested, properties, written, tuning, locked,
                    allocated, setting, immediate>>
    BY <1>3 DEF HandleInactive
  <2>3. CASE opened
    <3>1. /\ running' = {} /\ opened' = FALSE /\ tuned' = Untuned /\ signal' = FALSE
          /\ events' = <<>>
      BY <1>3, <2>3 DEF HandleInactive, StopAllFilters
    <3>2. events' \in Seq(Status) /\ Len(events') <= MaxEvents
      BY <3>1, EmptyTyped
    <3>3. tuned' \in [freq : Params \cup {None}, rest : Params \cup {None}]
      BY <3>1, UntunedTyped
    <3>4. running' \subseteq allocated /\ opened' \in BOOLEAN /\ signal' \in BOOLEAN
      BY <3>1
    <3> QED
      BY <1>0, <2>1, <2>2, <3>2, <3>3, <3>4 DEF Typed, Bounded
  <2>4. CASE ~opened
    BY <1>0, <1>3, <2>1, <2>2, <2>4 DEF HandleInactive, Typed, Bounded, driver
  <2> QED
    BY <2>3, <2>4
<1>4. CASE HandleEvent
  <2>1. /\ locked' \in BOOLEAN /\ events' \in Seq(Status) /\ Len(events') <= MaxEvents
    BY <1>4, Taking DEF HandleEvent, Reported, Typed, Bounded
  <2>2. UNCHANGED <<wanted, requested, written, opened, pipe, allocated, setting,
                    immediate, tuned, signal>>
    BY <1>4 DEF HandleEvent
  <2>3. /\ tuning' \in BOOLEAN /\ running' \subseteq allocated
        /\ properties' \in Params \cup {None}
    BY <1>4 DEF HandleEvent, StartAllFilters, StopAllFilters, Typed
  <2> QED
    BY <1>0, <2>1, <2>2, <2>3 DEF Typed, Bounded
<1> QED
  BY <1>1, <1>2, <1>3, <1>4 DEF InputStep

\* What the user's thread does keeps the types.
LEMMA UserTyped ==
  ASSUME Typed, Bounded, UserStep
  PROVE  Typed' /\ Bounded'
<1>0. overtaken' \in BOOLEAN /\ raced' \in BOOLEAN
  BY DEF UserStep, Typed
<1>1. ASSUME NEW p \in Params, WriteParams(p) PROVE Typed' /\ Bounded'
  BY <1>0, <1>1 DEF WriteParams, Typed, Bounded, filters, driver
<1>2. ASSUME NEW cmd \in Command, Send(cmd)
      PROVE  pipe' \in Seq(Command) /\ Len(pipe') <= MaxPipe
  BY <1>2, FrontendAssumption DEF Send, Typed
<1>3. CASE SendTune
  BY <1>0, <1>2, <1>3 DEF SendTune, Typed, Bounded, filters, driver, Command
<1>4. ASSUME NEW act \in BOOLEAN, SetActive(act) PROVE Typed' /\ Bounded'
  BY <1>0, <1>2, <1>4 DEF SetActive, Typed, Bounded, filters, driver, Command
<1>5. ASSUME NEW pid \in Pid, OpenFilter(pid) PROVE Typed' /\ Bounded'
  BY <1>0, <1>5 DEF OpenFilter, Typed, Bounded, adapter, driver
<1>6. CASE SetFilter
  BY <1>0, <1>6 DEF SetFilter, Typed, Bounded, adapter, driver
<1>7. ASSUME NEW pid \in Pid, ReleaseFilter(pid) PROVE Typed' /\ Bounded'
  BY <1>0, <1>7 DEF ReleaseFilter, Typed, Bounded, adapter, driver
<1> QED
  BY <1>1, <1>3, <1>4, <1>5, <1>6, <1>7 DEF UserStep, User

\* A change of the signal keeps the types: the oldest of too many events is lost.
LEMMA SignalTyped ==
  ASSUME Typed, Bounded, NEW has \in BOOLEAN, SignalChange(has), UNCHANGED history
  PROVE  Typed' /\ Bounded'
<1> DEFINE all == Append(events, IF has THEN "lock" ELSE "loss")
<1>1. all \in Seq(Status) /\ all # <<>> /\ Len(all) = Len(events) + 1
  <2>1. events \in Seq(Status) /\ (IF has THEN "lock" ELSE "loss") \in Status
    BY DEF Typed, Status
  <2> QED
    BY <2>1
<1>2. events' = IF Len(all) > MaxEvents THEN Tail(all) ELSE all
  BY DEF SignalChange
<1> HIDE DEF all
<1>3. events' \in Seq(Status) /\ Len(events') <= MaxEvents
  BY <1>1, <1>2, Taking, FrontendAssumption DEF Bounded, Typed
<1> QED
  BY <1>3 DEF SignalChange, Typed, Bounded, adapter, filters, history

\* The types always hold.
LEMMA TypedAlways == Spec => [](Typed /\ Bounded)
<1>1. ASSUME Init PROVE Typed /\ Bounded
  <2>1. pipe \in Seq(Command) /\ events \in Seq(Status) /\ Len(pipe) = 0 /\ Len(events) = 0
    BY <1>1, EmptyTyped, Zenon DEF Init
  <2>2. Bounded
    BY <2>1, FrontendAssumption DEF Bounded
  <2>3. tuned \in [freq : Params \cup {None}, rest : Params \cup {None}]
    BY <1>1, UntunedTyped DEF Init
  <2>4. /\ {wanted, requested, properties} \subseteq Params \cup {None}
        /\ allocated \subseteq Pid /\ running \subseteq allocated
        /\ setting \in allocated \cup {None}
        /\ written \in BOOLEAN /\ tuning \in BOOLEAN /\ locked \in BOOLEAN
        /\ opened \in BOOLEAN /\ immediate \in BOOLEAN /\ signal \in BOOLEAN
        /\ overtaken \in BOOLEAN /\ raced \in BOOLEAN
    BY <1>1 DEF Init
  <2> QED
    BY <2>1, <2>2, <2>3, <2>4 DEF Typed
<1>2. Typed /\ Bounded /\ [Next]_vars => (Typed /\ Bounded)'
  <2> SUFFICES ASSUME Typed, Bounded, [Next]_vars PROVE Typed' /\ Bounded'
    OBVIOUS
  <2>1. CASE UNCHANGED vars
    BY <2>1 DEF vars, state, history, adapter, filters, driver, Typed, Bounded
  <2> QED
    BY <2>1, InputTyped, UserTyped, SignalTyped DEF Next, SignalStep
<1> QED
  BY <1>1, <1>2, PTL DEF Spec

\* Every variable keeps its type; no queue overflows and only open filters run.
THEOREM TypeCorrect == Spec => []TypeOK
<1>1. Typed /\ Bounded => TypeOK
  BY DEF Typed, Bounded, TypeOK, Command, Status
<1> QED
  BY <1>1, TypedAlways, PTL

-----------------------------------------------------------------------------
(* The parameters of the last request.                                     *)

\* The adapter's parameters are those of the last request, also after a lock
\* has read them back. The user's thread does one thing at a time.
Remembered ==
  /\ setting = None \/ ~written
  /\ requested = wanted
  /\ ~overtaken => properties = wanted
  /\ TunedAsRequested

\* Commands of the user's thread keep them.
LEMMA UserRemembers ==
  ASSUME Typed, Remembered, UserStep
  PROVE  Remembered'
<1>0. overtaken' = (overtaken /\ ~written')
  BY DEF UserStep
<1>1. ASSUME NEW p \in Params, WriteParams(p) PROVE Remembered'
  BY <1>0, <1>1 DEF WriteParams, filters, Remembered, TunedAsRequested, TuneUnderWay
<1>2. CASE SendTune
  <2>1. Len(pipe') = Len(pipe) + 1 /\ pipe'[Len(pipe) + 1] = "TUNE" /\ Len(pipe) \in Nat
    BY <1>2 DEF SendTune, Send, Typed
  <2>2. TuneUnderWay'
    BY <2>1 DEF TuneUnderWay
  <2> QED
    BY <1>0, <1>2, <2>2 DEF SendTune, Remembered, TunedAsRequested
<1>3. ASSUME NEW act \in BOOLEAN, SetActive(act) PROVE Remembered'
  <2>1. /\ Len(pipe') = Len(pipe) + 1 /\ Len(pipe) \in Nat
        /\ \A i \in 1..Len(pipe) : pipe'[i] = pipe[i]
    BY <1>3 DEF SetActive, Send, Typed
  <2>2. TuneUnderWay => TuneUnderWay'
    BY <1>3, <2>1 DEF TuneUnderWay, SetActive
  <2> QED
    BY <1>0, <1>3, <2>2 DEF SetActive, Remembered, TunedAsRequested, driver
<1>4. CASE SetFilter \/ \E pid \in Pid : OpenFilter(pid) \/ ReleaseFilter(pid)
  <2>1. /\ ~written /\ UNCHANGED <<adapter, driver>>
    BY <1>4 DEF SetFilter, OpenFilter, ReleaseFilter, Remembered
  <2>2. ~written' /\ overtaken' = overtaken
    BY <1>0, <2>1 DEF Typed, adapter
  <2> QED
    BY <2>1, <2>2 DEF Remembered, TunedAsRequested, TuneUnderWay, adapter, driver
<1> QED
  BY <1>1, <1>2, <1>3, <1>4 DEF UserStep, User

\* Commands carried out keep them, and so do events: those that are read during
\* a tune are noted.
LEMMA InputRemembers ==
  ASSUME Typed, Remembered, InputStep
  PROVE  Remembered'
<1>0. overtaken \in BOOLEAN
  BY DEF Typed
<1>1. CASE HandleTune /\ UNCHANGED overtaken
  BY <1>1 DEF HandleTune, Retune, Remembered, TunedAsRequested
<1>2. ASSUME pipe # <<>>, pipe' = Tail(pipe), Head(pipe) # "TUNE", written' = written
      PROVE  TuneUnderWay' = TuneUnderWay
  <2>1. /\ Len(pipe) \in Nat \ {0} /\ Len(Tail(pipe)) = Len(pipe) - 1
        /\ \A i \in 1..Len(Tail(pipe)) : Tail(pipe)[i] = pipe[i + 1]
    BY <1>2, Taking DEF Typed
  <2>2. pipe[1] # "TUNE"
    BY <1>2 DEF Typed
  <2>3. ASSUME NEW i \in 1..Len(pipe), pipe[i] = "TUNE"
        PROVE  i - 1 \in 1..Len(Tail(pipe)) /\ Tail(pipe)[i - 1] = "TUNE"
    <3>1. i \in Int /\ i # 1
      BY <2>2, <2>3
    <3>2. i - 1 \in 1..Len(Tail(pipe)) /\ (i - 1) + 1 = i
      BY <2>1, <3>1
    <3> QED
      BY <2>1, <2>3, <3>2
  <2>4. ASSUME NEW i \in 1..Len(Tail(pipe)), Tail(pipe)[i] = "TUNE"
        PROVE  i + 1 \in 1..Len(pipe) /\ pipe[i + 1] = "TUNE"
    BY <2>1, <2>4
  <2> QED
    BY <1>2, <2>3, <2>4 DEF TuneUnderWay
<1>3. CASE HandleActive /\ UNCHANGED overtaken
  <2>1. CASE opened' = TRUE /\ Retune
    BY <1>3, <2>1 DEF HandleActive, Retune, filters, Remembered, TunedAsRequested
  <2>2. CASE UNCHANGED <<opened, tuning, driver>>
    <3>1. TuneUnderWay' = TuneUnderWay
      BY <1>2, <1>3 DEF HandleActive
    <3> QED
      BY <1>3, <2>2, <3>1 DEF HandleActive, filters, Remembered, TunedAsRequested, driver
  <2> QED
    BY <1>3, <2>1, <2>2 DEF HandleActive
<1>4. CASE HandleInactive /\ UNCHANGED overtaken
  BY <1>4 DEF HandleInactive, Remembered, TunedAsRequested
<1>5. CASE HandleEvent /\ overtaken' = (overtaken \/ TuneUnderWay)
  <2>1. /\ opened /\ UNCHANGED <<requested, wanted, tuned, setting, written>>
    BY <1>5, Zenon DEF HandleEvent
  <2>2. CASE overtaken \/ TuneUnderWay
    BY <1>5, <2>1, <2>2 DEF Remembered, TunedAsRequested
  <2>3. CASE ~overtaken /\ ~TuneUnderWay
    <3>1. tuned = [freq |-> wanted, rest |-> wanted] /\ properties = wanted
      BY <2>1, <2>3 DEF Remembered, TunedAsRequested
    <3>2. properties' = wanted
      BY <1>5, <3>1 DEF HandleEvent
    <3> QED
      BY <2>1, <3>1, <3>2 DEF Remembered, TunedAsRequested
  <2> QED
    BY <2>2, <2>3
<1> QED
  BY <1>1, <1>3, <1>4, <1>5 DEF InputStep

\* The device is tuned to all that was asked for last once the commands are
\* carried out, unless an event was read between the tune and its command.
THEOREM TunesAsRequested == Spec => []TunedAsRequested
<1>1. Init => Remembered
  BY DEF Init, Remembered, TunedAsRequested
<1>2. Typed /\ Remembered /\ [Next]_vars => Remembered'
  <2> SUFFICES ASSUME Typed, Remembered, [Next]_vars PROVE Remembered'
    OBVIOUS
  <2>1. ASSUME NEW has \in BOOLEAN, SignalChange(has), UNCHANGED history PROVE Remembered'
    BY <2>1 DEF SignalChange, filters, Remembered, TunedAsRequested, TuneUnderWay, adapter, history
  <2>2. CASE UNCHANGED vars
    BY <2>2 DEF vars, state, history, adapter, filters, driver, Remembered, TunedAsRequested,
                TuneUnderWay
  <2> QED
    BY <2>1, <2>2, UserRemembers, InputRemembers DEF Next, SignalStep
<1>3. Remembered => TunedAsRequested
  BY DEF Remembered
<1> QED
  BY <1>1, <1>2, <1>3, TypedAlways, PTL DEF Spec

-----------------------------------------------------------------------------
(* The demux filters.                                                      *)

\* While a filter is set up the others stream, and the choice of its flags is
\* still right.
Streaming ==
  ~raced => /\ opened /\ locked /\ ~tuning => running = allocated \ {setting}
            /\ setting # None => immediate = (locked /\ ~tuning)

\* Every allocated filter streams once a tune has ended in lock, unless the input
\* thread has run while a filter was set up.
THEOREM FiltersAlwaysStream == Spec => []FiltersStream
<1> USE FrontendAssumption
<1>1. Init => Streaming
  BY DEF Init, Streaming
<1>2. Typed /\ Streaming /\ [Next]_vars => Streaming'
  <2> SUFFICES ASSUME Typed, Streaming, [Next]_vars PROVE Streaming'
    OBVIOUS
  <2>1. CASE UserStep
    <3>0. raced' = raced
      BY <2>1 DEF UserStep
    <3>1. ASSUME NEW p \in Params, WriteParams(p) PROVE Streaming'
      BY <3>0, <3>1 DEF WriteParams, Streaming, filters
    <3>2. CASE SendTune \/ \E act \in BOOLEAN : SetActive(act)
      BY <3>0, <3>2 DEF SendTune, SetActive, Streaming, filters
    <3>3. ASSUME NEW pid \in Pid, OpenFilter(pid) PROVE Streaming'
      <4>1. running \subseteq allocated /\ pid \notin allocated /\ setting = None
        BY <3>3 DEF OpenFilter, Typed
      <4> QED
        BY <3>0, <3>3, <4>1 DEF OpenFilter, Streaming, Typed, adapter
    <3>4. CASE SetFilter
      BY <3>0, <3>4 DEF SetFilter, Streaming, Typed, adapter
    <3>5. ASSUME NEW pid \in Pid, ReleaseFilter(pid) PROVE Streaming'
      BY <3>0, <3>5 DEF ReleaseFilter, Streaming, Typed, adapter
    <3> QED
      BY <2>1, <3>1, <3>2, <3>3, <3>4, <3>5 DEF UserStep, User
  <2>2. CASE InputStep
    <3>1. setting' = setting /\ allocated' = allocated
      BY <2>2 DEF InputStep, HandleEvent, HandleTune, HandleActive, HandleInactive, filters
    <3>2. ~raced' => setting = None /\ (raced => running' = allocated)
      BY <2>2 DEF InputStep
    <3>3. CASE raced'
      BY <3>3 DEF Streaming
    <3>4. CASE ~raced' /\ raced
      <4>1. running' = allocated /\ setting = None
        BY <3>2, <3>4
      <4> QED
        BY <3>1, <4>1, FrontendAssumption DEF Streaming, Typed
    <3>5. CASE ~raced' /\ ~raced
      <4>1. setting = None
        BY <3>2, <3>5
      <4>2. CASE HandleTune
        BY <3>5, <4>1, <4>2 DEF HandleTune, Retune, Streaming
      <4>3. CASE HandleActive
        BY <3>5, <4>1, <4>3 DEF HandleActive, Retune, Streaming, filters, driver
      <4>4. CASE HandleInactive
        BY <3>5, <4>1, <4>4 DEF HandleInactive, Streaming
      <4>5. CASE HandleEvent
        BY <3>5, <4>1, <4>5 DEF HandleEvent, StartAllFilters, Streaming, Typed
      <4> QED
        BY <2>2, <4>2, <4>3, <4>4, <4>5 DEF InputStep
    <3> QED
      BY <3>3, <3>4, <3>5
  <2>3. ASSUME NEW has \in BOOLEAN, SignalChange(has), UNCHANGED history PROVE Streaming'
    BY <2>3 DEF SignalChange, Streaming, adapter, filters, history
  <2>4. CASE UNCHANGED vars
    BY <2>4 DEF vars, state, history, adapter, filters, Streaming
  <2> QED
    BY <2>1, <2>2, <2>3, <2>4 DEF Next, SignalStep
<1>3. Typed /\ Streaming => FiltersStream
  BY DEF Typed, Streaming, FiltersStream
<1> QED
  BY <1>1, <1>2, <1>3, TypedAlways, PTL DEF Spec

-----------------------------------------------------------------------------
(* The adapter that plays files.                                           *)

FileCommand == {"RETUNING", "ACTIVATE", "DEACTIVATE"}

Packet == [freq : Listed, pass : Nat, index : 1..Len(Contents)]

\* The types of the file adapter's state.
FileTyped ==
  /\ frequency \in Freq \cup {0} /\ file \in Listed \cup {0}
  /\ unsent \in BOOLEAN /\ lockedOn \in BOOLEAN /\ timer \in BOOLEAN /\ disposed \in BOOLEAN
  /\ asked \in BOOLEAN /\ unheard \in BOOLEAN /\ failed \in BOOLEAN
  /\ commands \in Seq(FileCommand)
  /\ position \in 0..Len(Contents) /\ pass \in Nat
  /\ naming \in 0..Slots /\ forPid \in FilterPid \cup {0}
  /\ slots \in [1..Slots -> [used : BOOLEAN, pid : FilterPid \cup {0}]]
  /\ dvr \in Seq(Packet)

\* No retune is to come of what DVBFrontEndTune has written.
NoRetuneToCome ==
  ~unsent /\ \A i \in 1..Len(commands) : commands[i] # "RETUNING"

\* PlaysTheWanted before the other commands are carried out.
Playing ==
  NoRetuneToCome /\ ~disposed =>
    /\ timer /\ file # 0 => file = frequency
    /\ lockedOn /\ file # 0 => timer /\ file = frequency

\* ActiveAsAsked with commands in the pipe: the last is what was asked for.
LastAsAsked ==
  ~disposed =>
    /\ unsent => asked /\ ~unheard
    /\ ~unsent /\ ~unheard /\ commands # <<>> =>
         asked = (commands[Len(commands)] # "DEACTIVATE")
    /\ ~unsent /\ ~unheard /\ commands = <<>> =>
         (~asked => file = 0) /\ (asked /\ ~failed => file # 0)

\* The packets come from where the file was read, and no later.
PacketsReadInOrder ==
  /\ \A i, j \in 1..Len(dvr) : i < j =>
       \/ dvr[i].pass < dvr[j].pass
       \/ dvr[i].pass = dvr[j].pass /\ dvr[i].index < dvr[j].index
  /\ \A i \in 1..Len(dvr) :
       dvr[i].pass < pass \/ (dvr[i].pass = pass /\ dvr[i].index <= position)

\* They passed a slot, and the slots in use are remembered.
PacketsPassed ==
  /\ \A i \in 1..Len(dvr) : PidOf(dvr[i]) \in passed \/ Everything \in passed
  /\ \A s \in 1..Slots : slots[s].used => slots[s].pid \in passed

\* The slot being named is for a PID without one.
SlotsApart ==
  /\ OneSlotPerPid
  /\ naming # 0 => /\ slots[naming].used
                   /\ \A s \in Named(forPid) : s = naming

FileIInv ==
  FileTyped /\ Playing /\ LastAsAsked /\ PacketsReadInOrder /\ PacketsPassed /\ SlotsApart

\* Adding a command to the pipe and taking one from it.
LEMMA Adding ==
  ASSUME NEW S, NEW q \in Seq(S), NEW c \in S
  PROVE  /\ Append(q, c) \in Seq(S) /\ Len(Append(q, c)) = Len(q) + 1 /\ Len(q) \in Nat
         /\ Append(q, c)[Len(q) + 1] = c
         /\ \A i \in 1..Len(q) : Append(q, c)[i] = q[i]
         /\ Append(q, c) # <<>>
  OBVIOUS

\* What OpenStreamFile may do.
LEMMA Opening ==
  ASSUME FileTyped, NEW lock \in BOOLEAN, OpenStreamFile(lock)
  PROVE  /\ file' \in Listed \cup {0} /\ lockedOn' \in BOOLEAN /\ timer' \in BOOLEAN
         /\ failed' \in BOOLEAN /\ position' \in 0..Len(Contents) /\ pass' \in Nat
         /\ timer' /\ file' # 0 => file' = frequency
         /\ lockedOn' /\ file' # 0 =>
              (timer' /\ file' = frequency) \/ (lock /\ file' = file /\ frequency \notin Listed)
         /\ ~failed' => file' # 0
         /\ (pass' = pass /\ position' = position) \/ pass' = pass + 1
<1>1. CASE frequency \in Listed /\ StartFile
  <2>1. /\ file' = frequency /\ position' = 0 /\ pass' = pass + 1
        /\ lockedOn' = TRUE /\ timer' = TRUE /\ failed' = FALSE
    BY <1>1 DEF StartFile
  <2>2. frequency # 0 /\ Len(Contents) \in Nat /\ pass \in Nat
    BY <1>1, FileAdapterAssumption DEF FileTyped
  <2>3. file' \in Listed /\ position' \in 0..Len(Contents) /\ pass' \in Nat
    BY <1>1, <2>1, <2>2
  <2>4. lockedOn' \in BOOLEAN /\ timer' \in BOOLEAN /\ failed' \in BOOLEAN
    BY <2>1
  <2> QED
    BY <2>1, <2>2, <2>3, <2>4
<1>2. CASE frequency \in Listed /\ ~StartFile
  <2>1. /\ file' = 0 /\ timer' = FALSE /\ lockedOn' = lock /\ failed' = TRUE
        /\ position' = position /\ pass' = pass
    BY <1>2 DEF OpenStreamFile
  <2> QED
    BY <2>1 DEF FileTyped
<1>3. CASE frequency \notin Listed
  <2>1. /\ file' = file /\ timer' = FALSE /\ lockedOn' = lock /\ failed' = TRUE
        /\ position' = position /\ pass' = pass
    BY <1>3 DEF OpenStreamFile
  <2> QED
    BY <1>3, <2>1 DEF FileTyped
<1> QED
  BY <1>1, <1>2, <1>3

\* What FilterPackets writes: packets of the file that is open, after those
\* that were there, in order, each let through by a slot.
LEMMA Filtering ==
  ASSUME FileTyped, FilterPackets
  PROVE  /\ dvr' \in Seq(Packet)
         /\ position' \in 0..Len(Contents) /\ position <= position'
         /\ \A i \in 1..Len(dvr') :
              \/ i \in 1..Len(dvr) /\ dvr'[i] = dvr[i]
              \/ /\ i > Len(dvr) /\ dvr'[i].pass = pass /\ Passes(dvr'[i])
                 /\ dvr'[i].index > position /\ dvr'[i].index <= position'
         /\ \A i, j \in 1..Len(dvr') :
              Len(dvr) < i /\ i < j => dvr'[i].index < dvr'[j].index
<1> DEFINE upto    == IF position + Batch < Len(Contents) THEN position + Batch
                      ELSE Len(Contents)
           read    == [index : position + 1 .. upto, freq : {file}, pass : {pass}]
           passing == {packet \in read : Passes(packet)}
           whole   == Len(dvr) + Cardinality(passing)
           size    == IF whole > Room THEN Room ELSE whole
<1>1. PICK order \in [1..Cardinality(passing) -> passing] :
        /\ \A i, j \in DOMAIN order : i < j => order[i].index < order[j].index
        /\ dvr' = [i \in 1..size |-> IF i <= Len(dvr) THEN dvr[i] ELSE order[i - Len(dvr)]]
  BY DEF FilterPackets
<1>2. position' = upto /\ file # 0 /\ position < Len(Contents)
  BY DEF FilterPackets
<1>3. /\ position \in Nat /\ upto \in Nat /\ position <= upto /\ upto <= Len(Contents)
      /\ Len(Contents) \in Nat /\ Room \in Nat /\ file \in Listed /\ pass \in Nat
  BY <1>2, FileAdapterAssumption DEF FileTyped
<1>4. Cardinality(passing) \in Nat
  <2>1. IsFiniteSet(position + 1 .. upto)
    <3>1. position + 1 \in Int /\ upto \in Int
      BY <1>3
    <3> HIDE DEF upto
    <3> QED
      BY <3>1, FS_Interval
  <2>2. DEFINE place == [packet \in passing |-> packet.index]
  <2>3. place \in [passing -> position + 1 .. upto]
    OBVIOUS
  <2>4. \A x, y \in passing : place[x] = place[y] => x = y
    OBVIOUS
  <2>5. place \in Injection(passing, position + 1 .. upto)
    BY <2>3, <2>4 DEF Injection, IsInjective
  <2>6. IsFiniteSet(passing)
    <3> HIDE DEF passing, place
    <3> QED
      BY <2>1, <2>5, FS_Injection
  <2> QED
    BY <2>6, FS_CardinalityType
<1>5. Len(dvr) \in Nat /\ size \in Nat /\ size <= whole
      /\ \A i \in 1..Len(dvr) : dvr[i] \in Packet
  BY <1>3, <1>4 DEF FileTyped
<1>6. \A packet \in passing :
        /\ packet \in Packet /\ packet.pass = pass /\ Passes(packet)
        /\ packet.index > position /\ packet.index <= upto
  BY <1>3 DEF Packet
<1>7. \A i \in 1..size : i <= Len(dvr) \/ i - Len(dvr) \in 1..Cardinality(passing)
  <2> HIDE DEF size, passing
  <2>1. size <= Len(dvr) + Cardinality(passing)
    BY <1>5
  <2> QED
    BY <1>4, <1>5, <2>1
<1> HIDE DEF passing, size, upto
<1>8. \A i \in 1..size : dvr'[i] = IF i <= Len(dvr) THEN dvr[i] ELSE order[i - Len(dvr)]
  BY <1>1
<1>9. \A i \in 1..size : ~(i <= Len(dvr)) => dvr'[i] \in passing
  BY <1>1, <1>7, <1>8
<1>10. dvr' \in [1..size -> Packet]
  BY <1>1, <1>5, <1>6, <1>7, <1>8, <1>9
<1>11. dvr' \in Seq(Packet) /\ Len(dvr') = size
  BY <1>5, <1>10, SeqDef, LenProperties
<1>12. \A i \in 1..Len(dvr') :
         \/ i \in 1..Len(dvr) /\ dvr'[i] = dvr[i]
         \/ /\ i > Len(dvr) /\ dvr'[i].pass = pass /\ Passes(dvr'[i])
            /\ dvr'[i].index > position /\ dvr'[i].index <= upto
  BY <1>5, <1>6, <1>8, <1>9, <1>11
<1>13. ASSUME NEW i \in 1..Len(dvr'), NEW j \in 1..Len(dvr'), Len(dvr) < i, i < j
       PROVE  dvr'[i].index < dvr'[j].index
  <2>1. i - Len(dvr) \in DOMAIN order /\ j - Len(dvr) \in DOMAIN order
    BY <1>1, <1>5, <1>7, <1>11, <1>13
  <2>2. dvr'[i] = order[i - Len(dvr)] /\ dvr'[j] = order[j - Len(dvr)]
    BY <1>5, <1>8, <1>11, <1>13
  <2>3. i - Len(dvr) < j - Len(dvr)
    BY <1>5, <1>13
  <2> QED
    BY <1>1, <2>1, <2>2, <2>3
<1> QED
  BY <1>2, <1>3, <1>11, <1>12, <1>13

\* Each action keeps the types of the file adapter.
LEMMA FileTypedKept == ASSUME FileTyped, FileAdapterNext PROVE FileTyped'
<1> USE DEF frontend, demux, asking
<1>1. ASSUME NEW f \in Freq, FileWriteParams(f) PROVE FileTyped'
  BY <1>1 DEF FileWriteParams, FileTyped
<1>2. CASE FileSendTune
  <2>1. commands' \in Seq(FileCommand)
    BY <1>2, Adding DEF FileSendTune, MonitorSend, FileTyped, FileCommand
  <2> QED
    BY <1>2, <2>1 DEF FileSendTune, FileTyped
<1>3. ASSUME NEW active \in BOOLEAN, FileSetActive(active) PROVE FileTyped'
  <2>1. "ACTIVATE" \in FileCommand /\ "DEACTIVATE" \in FileCommand
    BY DEF FileCommand
  <2>2. commands' \in Seq(FileCommand)
    <3>1. PICK c \in FileCommand : commands' = Append(commands, c) \/ commands' = commands
      BY <1>3, <2>1 DEF FileSetActive, MonitorSend
    <3> QED
      BY <3>1, Adding DEF FileTyped
  <2>3. unheard' \in BOOLEAN
    BY <1>3 DEF FileSetActive, OnItsWay
  <2>4. asked' \in BOOLEAN
    BY <1>3 DEF FileSetActive
  <2> QED
    BY <1>3, <2>2, <2>3, <2>4 DEF FileSetActive, FileTyped
<1>4. ASSUME NEW pid \in FilterPid, TakeSlot(pid) PROVE FileTyped'
  <2>1. PICK s \in Free : slots' = [slots EXCEPT ![s].used = TRUE] /\ naming' = s
    BY <1>4 DEF TakeSlot
  <2>2. s \in 1..Slots /\ Slots \in Nat
    BY FileAdapterAssumption DEF Free
  <2>3. slots' \in [1..Slots -> [used : BOOLEAN, pid : FilterPid \cup {0}]]
    BY <2>1, <2>2 DEF FileTyped
  <2>4. naming' \in 0..Slots /\ forPid' \in FilterPid \cup {0}
    BY <1>4, <2>1, <2>2 DEF TakeSlot
  <2> QED
    BY <1>4, <2>3, <2>4 DEF TakeSlot, FileTyped
<1>5. ASSUME NEW pid \in FilterPid, FreeSlot(pid) PROVE FileTyped'
  <2>1. slots' \in [1..Slots -> [used : BOOLEAN, pid : FilterPid \cup {0}]]
    BY <1>5, ZenonT(40) DEF FreeSlot, Named, FileTyped
  <2> QED
    BY <1>5, <2>1 DEF FreeSlot, FileTyped
<1>6. CASE NameSlot
  <2>1. slots' \in [1..Slots -> [used : BOOLEAN, pid : FilterPid \cup {0}]]
    BY <1>6, FileAdapterAssumption DEF NameSlot, FileTyped
  <2>2. naming' \in 0..Slots /\ forPid' \in FilterPid \cup {0}
    BY <1>6, FileAdapterAssumption DEF NameSlot
  <2> QED
    BY <1>6, <2>1, <2>2 DEF NameSlot, FileTyped
<1>7. CASE HandleRetuning \/ HandleActivate
  <2>1. PICK lock \in BOOLEAN : OpenStreamFile(lock)
    BY <1>7 DEF HandleRetuning, HandleActivate, FileTyped
  <2>2. /\ file' \in Listed \cup {0} /\ lockedOn' \in BOOLEAN /\ timer' \in BOOLEAN
        /\ failed' \in BOOLEAN /\ position' \in 0..Len(Contents) /\ pass' \in Nat
    BY <2>1, Opening
  <2>3. commands' \in Seq(FileCommand)
    <3>1. commands # <<>> /\ commands' = Tail(commands) /\ commands \in Seq(FileCommand)
      BY <1>7 DEF HandleRetuning, HandleActivate, FileTyped
    <3> QED
      BY <3>1, Taking
  <2> QED
    BY <1>7, <2>2, <2>3 DEF HandleRetuning, HandleActivate, FileTyped
<1>8. CASE HandleDeactivate
  <2>1. commands' \in Seq(FileCommand)
    <3>1. commands # <<>> /\ commands' = Tail(commands) /\ commands \in Seq(FileCommand)
      BY <1>8 DEF HandleDeactivate, FileTyped
    <3> QED
      BY <3>1, Taking
  <2> QED
    BY <1>8, <2>1 DEF HandleDeactivate, FileTyped
<1>9. CASE FilterPackets
  <2>1. dvr' \in Seq(Packet) /\ position' \in 0..Len(Contents)
    BY <1>9, Filtering
  <2> QED
    BY <1>9, <2>1 DEF FilterPackets, FileTyped
<1>10. CASE Rewind
  BY <1>10, FileAdapterAssumption DEF Rewind, FileTyped
<1>11. CASE ReadDVR
  <2>1. dvr' \in Seq(Packet)
    BY <1>11, EmptyTyped DEF ReadDVR
  <2> QED
    BY <1>11, <2>1 DEF ReadDVR, FileTyped
<1>12. CASE DisposeFileAdapter
  <2>1. dvr' \in Seq(Packet) /\ commands' \in Seq(FileCommand)
    BY <1>12, EmptyTyped DEF DisposeFileAdapter
  <2>2. slots' \in [1..Slots -> [used : BOOLEAN, pid : FilterPid \cup {0}]]
    BY <1>12 DEF DisposeFileAdapter, FileTyped
  <2> QED
    BY <1>12, <2>1, <2>2 DEF DisposeFileAdapter, FileTyped
<1> QED
  BY <1>1, <1>2, <1>3, <1>4, <1>5, <1>6, <1>7, <1>8, <1>9, <1>10, <1>11, <1>12
     DEF FileAdapterNext

\* The timer sends what was asked for once no retune is to come.
LEMMA PlayingKept == ASSUME FileTyped, Playing, FileAdapterNext PROVE Playing'
<1> USE DEF frontend, demux, asking
<1>0. ~disposed
  BY DEF FileAdapterNext
<1>1. ASSUME NEW f \in Freq, FileWriteParams(f) PROVE Playing'
  BY <1>1 DEF FileWriteParams, Playing, NoRetuneToCome
<1>2. CASE FileSendTune
  <2>1. commands' = Append(commands, "RETUNING") /\ commands \in Seq(FileCommand)
    BY <1>2 DEF FileSendTune, MonitorSend, FileTyped
  <2>2. Len(commands) + 1 \in 1..Len(commands') /\ commands'[Len(commands) + 1] = "RETUNING"
    BY <2>1, Adding DEF FileCommand
  <2> QED
    BY <2>2 DEF Playing, NoRetuneToCome
<1>3. ASSUME NEW active \in BOOLEAN, FileSetActive(active) PROVE Playing'
  <2>1. /\ ~unsent /\ ~unsent'
        /\ UNCHANGED <<frequency, file, lockedOn, timer, disposed>>
    BY <1>3 DEF FileSetActive
  <2>2. \A i \in 1..Len(commands) : i \in 1..Len(commands') /\ commands'[i] = commands[i]
    BY <1>3, Adding DEF FileSetActive, MonitorSend, FileTyped, FileCommand
  <2> QED
    BY <2>1, <2>2 DEF Playing, NoRetuneToCome
<1>4. CASE \/ \E pid \in FilterPid : TakeSlot(pid) \/ FreeSlot(pid)
           \/ NameSlot \/ FilterPackets \/ Rewind \/ ReadDVR
  <2>1. UNCHANGED <<frequency, unsent, commands, file, lockedOn, timer, disposed>>
    BY <1>4 DEF TakeSlot, FreeSlot, NameSlot, FilterPackets, Rewind, ReadDVR
  <2> QED
    BY <2>1 DEF Playing, NoRetuneToCome
<1>5. CASE HandleRetuning
  <2>1. OpenStreamFile(FALSE) /\ frequency' = frequency
    BY <1>5 DEF HandleRetuning
  <2>2. /\ timer' /\ file' # 0 => file' = frequency
        /\ lockedOn' /\ file' # 0 => timer' /\ file' = frequency
    BY <2>1, Opening
  <2> QED
    BY <2>1, <2>2 DEF Playing
<1>6. CASE HandleActivate
  <2>1. OpenStreamFile(lockedOn) /\ lockedOn \in BOOLEAN
        /\ UNCHANGED <<frequency, unsent, disposed>>
    BY <1>6 DEF HandleActivate, FileTyped
  <2>2. /\ timer' /\ file' # 0 => file' = frequency
        /\ lockedOn' /\ file' # 0 =>
             (timer' /\ file' = frequency) \/ (lockedOn /\ file' = file /\ frequency \notin Listed)
    BY <2>1, Opening
  <2>3. NoRetuneToCome' => NoRetuneToCome
    <3>1. commands # <<>> /\ Head(commands) = "ACTIVATE" /\ commands' = Tail(commands)
          /\ commands \in Seq(FileCommand)
      BY <1>6 DEF HandleActivate, FileTyped
    <3>2. \A i \in 1..Len(commands) :
            commands[i] = "ACTIVATE" \/ (i - 1 \in 1..Len(commands') /\ commands'[i - 1] = commands[i])
      BY <3>1
    <3> QED
      BY <2>1, <3>2 DEF NoRetuneToCome
  <2> QED
    BY <1>0, <2>1, <2>2, <2>3 DEF Playing, FileTyped
<1>7. CASE HandleDeactivate
  BY <1>7 DEF HandleDeactivate, Playing
<1>8. CASE DisposeFileAdapter
  BY <1>8 DEF DisposeFileAdapter, Playing
<1> QED
  BY <1>1, <1>2, <1>3, <1>4, <1>5, <1>6, <1>7, <1>8 DEF FileAdapterNext

\* The last command in the pipe when one is taken from it.
LEMMA TakingLast ==
  ASSUME NEW S, NEW q \in Seq(S), q # <<>>
  PROVE  /\ Tail(q) = <<>> => Head(q) = q[Len(q)]
         /\ Tail(q) # <<>> => Tail(q)[Len(Tail(q))] = q[Len(q)]
<1>1. /\ Tail(q) \in Seq(S) /\ Len(Tail(q)) = Len(q) - 1 /\ Len(q) \in Nat \ {0}
      /\ \A i \in 1..Len(Tail(q)) : i + 1 \in 1..Len(q) /\ Tail(q)[i] = q[i + 1]
  BY Taking
<1>2. Tail(q) = <<>> => Len(q) = 1
  BY <1>1
<1>3. Tail(q) # <<>> => Len(Tail(q)) \in 1..Len(Tail(q)) /\ Len(Tail(q)) + 1 = Len(q)
  BY <1>1, EmptySeq
<1>4. Head(q) = q[1]
  OBVIOUS
<1> QED
  BY <1>1, <1>2, <1>3, <1>4

\* The last thing asked for is the last command, or done.
LEMMA LastKept == ASSUME FileTyped, LastAsAsked, FileAdapterNext PROVE LastAsAsked'
<1> USE DEF frontend, demux, asking
<1>0. ~disposed
  BY DEF FileAdapterNext
<1>1. ASSUME NEW f \in Freq, FileWriteParams(f) PROVE LastAsAsked'
  BY <1>1 DEF FileWriteParams, LastAsAsked
<1>2. CASE FileSendTune
  <2>1. commands' = Append(commands, "RETUNING") /\ commands \in Seq(FileCommand)
    BY <1>2 DEF FileSendTune, MonitorSend, FileTyped
  <2>2. commands' # <<>> /\ commands'[Len(commands')] = "RETUNING"
    BY <2>1, Adding DEF FileCommand
  <2>3. unsent /\ ~unsent' /\ asked' = asked /\ unheard' = unheard
    BY <1>2 DEF FileSendTune
  <2> QED
    BY <1>0, <2>2, <2>3 DEF LastAsAsked
<1>3. ASSUME NEW active \in BOOLEAN, FileSetActive(active) PROVE LastAsAsked'
  <2>1. ~unsent /\ ~unsent' /\ asked' = active /\ file' = file /\ failed' = failed
    BY <1>3 DEF FileSetActive
  <2>2. CASE active = (file = 0)
    <3> DEFINE c == IF active THEN "ACTIVATE" ELSE "DEACTIVATE"
    <3>1. commands' = Append(commands, c) /\ c \in FileCommand /\ commands \in Seq(FileCommand)
      BY <1>3, <2>2 DEF FileSetActive, MonitorSend, FileTyped, FileCommand
    <3>2. commands' # <<>> /\ commands'[Len(commands')] = c
      BY <3>1, Adding
    <3> QED
      BY <2>1, <3>2 DEF LastAsAsked
  <2>3. CASE ~(active = (file = 0))
    <3>1. unheard' = OnItsWay(~active) /\ commands' = commands
      BY <1>3, <2>3 DEF FileSetActive
    <3>2. ~unheard' /\ commands # <<>> =>
            active = (commands[Len(commands)] # "DEACTIVATE")
      BY <3>1 DEF OnItsWay
    <3>3. (~active => file = 0) /\ (active => file # 0)
      BY <2>3
    <3> QED
      BY <2>1, <3>1, <3>2, <3>3 DEF LastAsAsked
  <2> QED
    BY <2>2, <2>3
<1>4. CASE \/ \E pid \in FilterPid : TakeSlot(pid) \/ FreeSlot(pid)
           \/ NameSlot \/ FilterPackets \/ Rewind \/ ReadDVR
  <2>1. UNCHANGED <<unsent, commands, file, disposed, asked, unheard, failed>>
    BY <1>4 DEF TakeSlot, FreeSlot, NameSlot, FilterPackets, Rewind, ReadDVR
  <2> QED
    BY <2>1 DEF LastAsAsked
<1>5. CASE HandleRetuning \/ HandleActivate \/ HandleDeactivate
  <2>1. /\ commands # <<>> /\ commands' = Tail(commands) /\ commands \in Seq(FileCommand)
        /\ UNCHANGED <<unsent, asked, unheard, disposed>>
    BY <1>5 DEF HandleRetuning, HandleActivate, HandleDeactivate, FileTyped
  <2>2. /\ commands' = <<>> => Head(commands) = commands[Len(commands)]
        /\ commands' # <<>> => commands'[Len(commands')] = commands[Len(commands)]
    BY <2>1, TakingLast
  <2>3. CASE Head(commands) = "DEACTIVATE"
    <3>1. file' = 0
      BY <1>5, <2>3 DEF HandleRetuning, HandleActivate, HandleDeactivate
    <3> QED
      BY <1>0, <2>1, <2>2, <2>3, <3>1 DEF LastAsAsked
  <2>4. CASE Head(commands) # "DEACTIVATE"
    <3>1. PICK lock \in BOOLEAN : OpenStreamFile(lock)
      BY <1>5, <2>4 DEF HandleRetuning, HandleActivate, HandleDeactivate, FileTyped
    <3>2. ~failed' => file' # 0
      BY <3>1, Opening
    <3> QED
      BY <1>0, <2>1, <2>2, <2>4, <3>2 DEF LastAsAsked
  <2> QED
    BY <2>3, <2>4
<1>6. CASE DisposeFileAdapter
  BY <1>6 DEF DisposeFileAdapter, LastAsAsked
<1> QED
  BY <1>1, <1>2, <1>3, <1>4, <1>5, <1>6 DEF FileAdapterNext

\* The numbers of the packets in the pipe.
LEMMA Numbered ==
  ASSUME NEW q \in Seq(Packet)
  PROVE  /\ Len(q) \in Nat
         /\ \A i \in 1..Len(q) : q[i].pass \in Nat /\ q[i].index \in Nat
<1>1. 1..Len(Contents) \subseteq Nat
  BY FileAdapterAssumption
<1>2. \A packet \in Packet : packet.pass \in Nat /\ packet.index \in Nat
  BY <1>1 DEF Packet
<1>3. \A i \in 1..Len(q) : q[i] \in Packet
  BY ElementOfSeq
<1> QED
  BY <1>2, <1>3, LenProperties

\* The packets stay in the order of the file.
LEMMA OrderKept == ASSUME FileTyped, PacketsReadInOrder, FileAdapterNext PROVE PacketsReadInOrder'
<1> USE DEF frontend, demux, asking
<1>0. \A i \in 1..Len(dvr) : dvr[i].pass \in Nat /\ dvr[i].index \in Nat
  BY Numbered DEF FileTyped
<1>1. pass \in Nat /\ position \in Nat /\ Len(dvr) \in Nat
  BY FileAdapterAssumption DEF FileTyped
<1>2. CASE UNCHANGED <<dvr, pass, position>>
  BY <1>2 DEF PacketsReadInOrder
<1>3. CASE dvr' = dvr /\ pass' = pass + 1
  BY <1>0, <1>1, <1>3 DEF PacketsReadInOrder
<1>4. CASE dvr' = <<>>
  BY <1>4 DEF PacketsReadInOrder
<1>5. CASE FilterPackets
  <2>1. pass' = pass /\ position' \in Nat /\ position <= position'
    <3>1. 0..Len(Contents) \subseteq Nat
      BY FileAdapterAssumption
    <3>2. position' \in 0..Len(Contents) /\ position <= position'
      BY <1>5, Filtering
    <3> QED
      BY <1>5, <3>1, <3>2 DEF FilterPackets
  <2>2. \A i \in 1..Len(dvr') :
          \/ i \in 1..Len(dvr) /\ dvr'[i] = dvr[i]
          \/ /\ i > Len(dvr) /\ dvr'[i].pass = pass
             /\ dvr'[i].index > position /\ dvr'[i].index <= position'
    BY <1>5, Filtering
  <2>3. \A i, j \in 1..Len(dvr') :
          Len(dvr) < i /\ i < j => dvr'[i].index < dvr'[j].index
    BY <1>5, Filtering
  <2>4. /\ \A i \in 1..Len(dvr') : dvr'[i].pass \in Nat /\ dvr'[i].index \in Nat
        /\ Len(dvr') \in Nat /\ Len(dvr) \in Nat
    <3>1. dvr' \in Seq(Packet) /\ dvr \in Seq(Packet)
      BY <1>5, Filtering DEF FileTyped
    <3> QED
      BY <3>1, Numbered
  <2>5. ASSUME NEW i \in 1..Len(dvr'), NEW j \in 1..Len(dvr'), i < j
        PROVE  \/ dvr'[i].pass < dvr'[j].pass
               \/ dvr'[i].pass = dvr'[j].pass /\ dvr'[i].index < dvr'[j].index
    <3>1. CASE j \in 1..Len(dvr)
      BY <2>2, <2>4, <2>5, <3>1 DEF PacketsReadInOrder
    <3>2. CASE j \notin 1..Len(dvr) /\ i \in 1..Len(dvr)
      <4>1. dvr'[i] = dvr[i] /\ dvr'[j].pass = pass /\ dvr'[j].index > position
        BY <2>2, <2>4, <3>2
      <4>2. dvr[i].pass < pass \/ (dvr[i].pass = pass /\ dvr[i].index <= position)
        BY <3>2 DEF PacketsReadInOrder
      <4> QED
        BY <1>0, <1>1, <2>4, <3>2, <4>1, <4>2
    <3>3. CASE j \notin 1..Len(dvr) /\ i \notin 1..Len(dvr)
      BY <2>2, <2>3, <2>4, <2>5, <3>3
    <3> QED
      BY <3>1, <3>2, <3>3
  <2>6. ASSUME NEW i \in 1..Len(dvr')
        PROVE  dvr'[i].pass < pass \/ (dvr'[i].pass = pass /\ dvr'[i].index <= position')
    BY <1>0, <1>1, <2>1, <2>2 DEF PacketsReadInOrder
  <2> QED
    BY <2>1, <2>5, <2>6 DEF PacketsReadInOrder
<1>6. CASE HandleRetuning \/ HandleActivate
  <2>1. PICK lock \in BOOLEAN : OpenStreamFile(lock)
    BY <1>6 DEF HandleRetuning, HandleActivate, FileTyped
  <2>2. dvr' = dvr /\ ((pass' = pass /\ position' = position) \/ pass' = pass + 1)
    BY <1>6, <2>1, Opening DEF HandleRetuning, HandleActivate
  <2> QED
    BY <1>2, <1>3, <2>2
<1> QED
  BY <1>2, <1>3, <1>4, <1>5, <1>6
     DEF FileAdapterNext, FileWriteParams, FileSendTune, FileSetActive, TakeSlot, FreeSlot,
         NameSlot, HandleDeactivate, Rewind, ReadDVR, DisposeFileAdapter

\* What is in the pipe passed a slot, and slots in use are remembered.
LEMMA PassedKept == ASSUME FileTyped, PacketsPassed, FileAdapterNext PROVE PacketsPassed'
<1> USE DEF frontend, demux, asking
<1>1. CASE UNCHANGED <<dvr, slots, passed>>
  BY <1>1 DEF PacketsPassed, PidOf
<1>2. ASSUME NEW pid \in FilterPid, TakeSlot(pid) PROVE PacketsPassed'
  <2>1. PICK s \in Free : /\ slots' = [slots EXCEPT ![s].used = TRUE]
                          /\ passed' = passed \cup {slots[s].pid}
    BY <1>2 DEF TakeSlot
  <2>2. dvr' = dvr /\ s \in 1..Slots
    BY <1>2 DEF TakeSlot, Free
  <2>3. \A t \in 1..Slots : /\ slots'[t].pid = slots[t].pid
                            /\ t # s => slots'[t].used = slots[t].used
    BY <2>1, <2>2 DEF FileTyped
  <2> QED
    BY <2>1, <2>2, <2>3 DEF PacketsPassed, PidOf
<1>3. ASSUME NEW pid \in FilterPid, FreeSlot(pid) PROVE PacketsPassed'
  <2>1. PICK s \in Named(pid) : slots' = [slots EXCEPT ![s].used = FALSE]
    BY <1>3 DEF FreeSlot
  <2>2. dvr' = dvr /\ passed' = passed
    BY <1>3 DEF FreeSlot
  <2>3. \A t \in 1..Slots : /\ slots'[t].pid = slots[t].pid
                            /\ slots'[t].used => slots[t].used
    BY <2>1 DEF FileTyped, Named
  <2> QED
    BY <2>2, <2>3 DEF PacketsPassed, PidOf
<1>4. CASE NameSlot
  <2>1. /\ slots' = [slots EXCEPT ![naming].pid = forPid]
        /\ passed' = passed \cup {forPid} /\ dvr' = dvr
    BY <1>4 DEF NameSlot
  <2>2. \A t \in 1..Slots : /\ slots'[t].used = slots[t].used
                            /\ slots'[t].pid = slots[t].pid \/ slots'[t].pid = forPid
    BY <2>1 DEF FileTyped
  <2> QED
    BY <2>1, <2>2 DEF PacketsPassed, PidOf
<1>5. CASE FilterPackets
  <2>1. UNCHANGED <<slots, passed>>
    BY <1>5 DEF FilterPackets
  <2>2. \A i \in 1..Len(dvr') : (i \in 1..Len(dvr) /\ dvr'[i] = dvr[i]) \/ Passes(dvr'[i])
    BY <1>5, Filtering
  <2>3. ASSUME NEW packet, Passes(packet) PROVE PidOf(packet) \in passed \/ Everything \in passed
    BY <2>3 DEF Passes, PacketsPassed
  <2>4. \A i \in 1..Len(dvr') : PidOf(dvr'[i]) \in passed \/ Everything \in passed
    BY <2>2, <2>3 DEF PacketsPassed
  <2> QED
    BY <2>1, <2>4 DEF PacketsPassed, PidOf
<1>6. CASE ReadDVR
  BY <1>6 DEF ReadDVR, PacketsPassed
<1>7. CASE DisposeFileAdapter
  <2>1. /\ \A t \in 1..Slots : ~slots'[t].used
        /\ dvr' = <<>> /\ Len(dvr') = 0
    BY <1>7, EmptyTyped DEF DisposeFileAdapter, FileTyped
  <2> QED
    BY <2>1 DEF PacketsPassed
<1>8. CASE Rewind
  BY <1>1, <1>8 DEF Rewind
<1> QED
  BY <1>1, <1>2, <1>3, <1>4, <1>5, <1>6, <1>7, <1>8
     DEF FileAdapterNext, FileWriteParams, FileSendTune, FileSetActive,
         HandleRetuning, HandleActivate, HandleDeactivate

\* Slots in use are for different PIDs.
LEMMA ApartKept == ASSUME FileTyped, SlotsApart, FileAdapterNext PROVE SlotsApart'
<1> USE DEF frontend, demux, asking
<1>1. CASE UNCHANGED <<slots, naming, forPid>>
  BY <1>1 DEF SlotsApart, OneSlotPerPid, Named
<1>2. ASSUME NEW pid \in FilterPid, TakeSlot(pid) PROVE SlotsApart'
  <2>1. PICK s \in Free : slots' = [slots EXCEPT ![s].used = TRUE] /\ naming' = s
    BY <1>2 DEF TakeSlot
  <2>2. naming = 0 /\ Named(pid) = {} /\ forPid' = pid /\ s \in 1..Slots
    BY <1>2 DEF TakeSlot, Free
  <2>3. /\ \A t \in 1..Slots : /\ slots'[t].pid = slots[t].pid
                               /\ t # s => slots'[t].used = slots[t].used
        /\ slots'[s].used
    BY <2>1, <2>2 DEF FileTyped
  <2>4. OneSlotPerPid'
    BY <2>1, <2>2, <2>3, FileAdapterAssumption DEF SlotsApart, OneSlotPerPid
  <2>5. \A t \in 1..Slots : slots'[t].used /\ slots'[t].pid = pid => t = s
    BY <2>2, <2>3 DEF Named
  <2> QED
    BY <2>1, <2>2, <2>3, <2>4, <2>5 DEF SlotsApart, Named
<1>3. ASSUME NEW pid \in FilterPid, FreeSlot(pid) PROVE SlotsApart'
  <2>1. PICK s \in Named(pid) : slots' = [slots EXCEPT ![s].used = FALSE]
    BY <1>3 DEF FreeSlot
  <2>2. naming = 0 /\ naming' = 0
    BY <1>3 DEF FreeSlot
  <2>3. \A t \in 1..Slots : /\ slots'[t].pid = slots[t].pid
                            /\ slots'[t].used => slots[t].used
    BY <2>1 DEF FileTyped, Named
  <2> QED
    BY <2>2, <2>3 DEF SlotsApart, OneSlotPerPid
<1>4. CASE NameSlot
  <2>1. /\ slots' = [slots EXCEPT ![naming].pid = forPid]
        /\ naming' = 0 /\ naming # 0
    BY <1>4 DEF NameSlot
  <2>2. naming \in 1..Slots /\ slots[naming].used /\ \A t \in Named(forPid) : t = naming
    BY <2>1, FileAdapterAssumption DEF SlotsApart, FileTyped
  <2>3. \A t \in 1..Slots : /\ slots'[t].used = slots[t].used
                            /\ slots'[t].pid = IF t = naming THEN forPid ELSE slots[t].pid
    BY <2>1, <2>2 DEF FileTyped
  <2>4. ASSUME NEW t \in 1..Slots, NEW u \in 1..Slots, t # u, slots'[t].used, slots'[u].used
        PROVE  slots'[t].pid # slots'[u].pid
    <3>1. CASE t # naming /\ u # naming
      BY <2>3, <2>4, <3>1 DEF SlotsApart, OneSlotPerPid
    <3>2. CASE t = naming \/ u = naming
      BY <2>2, <2>3, <2>4, <3>2 DEF Named
    <3> QED
      BY <3>1, <3>2
  <2> QED
    BY <2>1, <2>4 DEF SlotsApart, OneSlotPerPid
<1>5. CASE DisposeFileAdapter
  <2>1. naming' = 0 /\ \A t \in 1..Slots : ~slots'[t].used
    BY <1>5 DEF DisposeFileAdapter, FileTyped
  <2> QED
    BY <2>1 DEF SlotsApart, OneSlotPerPid
<1> QED
  BY <1>1, <1>2, <1>3, <1>4, <1>5
     DEF FileAdapterNext, FileWriteParams, FileSendTune, FileSetActive, FilterPackets, Rewind,
         ReadDVR, HandleRetuning, HandleActivate, HandleDeactivate

\* For every set of frequencies, file, filter table and pipe: the file adapter
\* plays what was tuned to, is open as it was asked to be, passes packets once,
\* in order and only as filtered, and has one slot for a PID.
THEOREM FilesPlayAsAsked == FileAdapterSpec => []FileAdapterSound
<1>1. FileAdapterInit => FileIInv
  <2> SUFFICES ASSUME FileAdapterInit PROVE FileIInv
    OBVIOUS
  <2>1. commands \in Seq(FileCommand) /\ dvr \in Seq(Packet) /\ Len(commands) = 0 /\ Len(dvr) = 0
    BY EmptyTyped DEF FileAdapterInit
  <2>2. /\ slots \in [1..Slots -> [used : BOOLEAN, pid : FilterPid \cup {0}]]
        /\ \A s \in 1..Slots : ~slots[s].used
    BY DEF FileAdapterInit
  <2>3. FileTyped
    <3>1. /\ position \in 0..Len(Contents) /\ pass \in Nat /\ naming \in 0..Slots
          /\ forPid \in FilterPid \cup {0}
          /\ frequency \in Freq \cup {0} /\ file \in Listed \cup {0}
      BY FileAdapterAssumption DEF FileAdapterInit
    <3>2. /\ unsent \in BOOLEAN /\ lockedOn \in BOOLEAN /\ timer \in BOOLEAN
          /\ disposed \in BOOLEAN /\ asked \in BOOLEAN /\ unheard \in BOOLEAN
          /\ failed \in BOOLEAN
      BY DEF FileAdapterInit
    <3> QED
      BY <2>1, <2>2, <3>1, <3>2 DEF FileTyped
  <2>4. Playing /\ LastAsAsked
    BY DEF FileAdapterInit, Playing, LastAsAsked
  <2>5. PacketsReadInOrder /\ PacketsPassed /\ SlotsApart
    BY <2>1, <2>2
       DEF FileAdapterInit, PacketsReadInOrder, PacketsPassed, SlotsApart, OneSlotPerPid
  <2> QED
    BY <2>3, <2>4, <2>5 DEF FileIInv
<1>2. FileIInv /\ [FileAdapterNext]_fileState => FileIInv'
  <2> SUFFICES ASSUME FileIInv, [FileAdapterNext]_fileState PROVE FileIInv'
    OBVIOUS
  <2>1. CASE FileAdapterNext
    BY <2>1, FileTypedKept, PlayingKept, LastKept, OrderKept, PassedKept, ApartKept DEF FileIInv
  <2>2. CASE UNCHANGED fileState
    BY <2>2 DEF fileState, frontend, demux, asking, FileIInv, FileTyped, Playing, NoRetuneToCome,
                LastAsAsked, PacketsReadInOrder, PacketsPassed, PidOf, SlotsApart,
                OneSlotPerPid, Named
  <2> QED
    BY <2>1, <2>2
<1>3. FileIInv => FileAdapterSound
  <2> SUFFICES ASSUME FileIInv PROVE FileAdapterSound
    OBVIOUS
  <2>1. PlaysTheWanted
    <3>1. commands = <<>> => Len(commands) = 0
      BY EmptyTyped
    <3> QED
      BY <3>1 DEF FileIInv, Playing, NoRetuneToCome, PlaysTheWanted, CarriedOut
  <2>2. ActiveAsAsked
    BY DEF FileIInv, LastAsAsked, ActiveAsAsked, CarriedOut
  <2>3. PacketsAsFiltered
    BY DEF FileIInv, PacketsReadInOrder, PacketsPassed, PacketsAsFiltered
  <2> QED
    BY <2>1, <2>2, <2>3 DEF FileIInv, SlotsApart, FileAdapterSound
<1> QED
  BY <1>1, <1>2, <1>3, PTL DEF FileAdapterSpec

=============================================================================
