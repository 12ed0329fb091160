------------------------------- MODULE Frontend -------------------------------
(***************************************************************************)
(* The front end half of the DVB adapter (dvbadapter.c): tuning, signal    *)
(* lock and the starting and stopping of the demux filters.                *)
(*                                                                         *)
(* The user's thread writes the parameters into the adapter and a command  *)
(* into a pipe; the input thread reads commands and the driver's events.   *)
(* Both read and write the adapter's fields without a lock.                *)
(*                                                                         *)
(* The driver is modelled from the ioctls used: tuning discards its events *)
(* and reports the loss of the signal, every change of the signal is one   *)
(* event, and of too many events the oldest are lost.                      *)
(***************************************************************************)
EXTENDS Integers, Sequences

CONSTANTS Params,          \* tuning parameters a multiplex may have
          None,            \* no parameters yet, no allocation under way
          Pid,             \* PIDs that may be filtered
          MaxPipe,         \* commands in the pipe
          MaxEvents        \* events the driver keeps

ASSUME FrontendAssumption ==
  /\ None \notin Params \cup Pid
  /\ MaxPipe \in Nat \ {0} /\ MaxEvents \in Nat \ {0}

VARIABLES
  wanted,     \* the parameters of the last DVBFrontEndTune
  requested,  \* frontEndRequestedFreq
  properties, \* frontEndPropertyArray apart from the frequency
  written,    \* DVBFrontEndTune has written them and not yet sent the command
  tuning,     \* adapter->tuning
  locked,     \* frontEndLocked
  opened,     \* frontEndFd # -1
  pipe,       \* commands sent and not yet read
  allocated,  \* PIDs with an open demux descriptor
  running,    \* those whose filter is set and started
  setting,    \* PID whose filter the user's thread is setting up
  immediate,  \* and whether it will be started with that
  tuned,      \* external: frequency and other parameters the device has
  signal,     \* external: whether it has lock
  events,     \* external: status changes not yet read
  overtaken,  \* an event was read between the last tune and its command
  raced       \* the input thread has run while a filter was set up, and the
              \* filters have not all been started since

adapter == <<wanted, requested, properties, written, tuning, locked, opened, pipe>>
filters == <<allocated, running, setting, immediate>>
driver  == <<tuned, signal, events>>
state   == <<adapter, filters, driver>>
history == <<overtaken, raced>>
vars    == <<state, history>>

Untuned == [freq |-> None, rest |-> None]

-----------------------------------------------------------------------------
(* The user's thread.                                                      *)

\* DVBFrontEndTune as far as tuning = TRUE.
WriteParams(p) ==
  /\ ~written /\ setting = None
  /\ wanted' = p
  /\ requested' = p
  /\ properties' = p
  /\ tuning' = TRUE
  /\ written' = TRUE
  /\ UNCHANGED <<locked, opened, pipe, filters, driver>>

Send(cmd) == Len(pipe) < MaxPipe /\ pipe' = Append(pipe, cmd)

\* DVBCommandSend at the end of DVBFrontEndTune.
SendTune ==
  /\ written
  /\ Send("TUNE")
  /\ written' = FALSE
  /\ UNCHANGED <<wanted, requested, properties, tuning, locked, opened, filters, driver>>

\* DVBFrontEndSetActive.
SetActive(active) ==
  /\ ~written /\ setting = None
  /\ Send(IF active THEN "ACTIVE" ELSE "INACTIVE")
  /\ UNCHANGED <<wanted, requested, properties, written, tuning, locked, opened,
                 filters, driver>>

\* DVBDemuxAllocateFilter as far as the choice of the flags.
OpenFilter(pid) ==
  /\ ~written /\ setting = None /\ pid \notin allocated
  /\ allocated' = allocated \cup {pid}
  /\ setting' = pid
  /\ immediate' = (locked /\ ~tuning)
  /\ UNCHANGED <<running, adapter, driver>>

\* DMX_SET_PES_FILTER: without DMX_IMMEDIATE_START the filter is set but stopped.
SetFilter ==
  /\ setting # None
  /\ running' = IF immediate THEN running \cup {setting} ELSE running \ {setting}
  /\ setting' = None
  /\ immediate' = FALSE
  /\ UNCHANGED <<allocated, adapter, driver>>

\* DVBDemuxReleaseFilter.
ReleaseFilter(pid) ==
  /\ ~written /\ setting = None /\ pid \in allocated
  /\ allocated' = allocated \ {pid}
  /\ running' = running \ {pid}
  /\ UNCHANGED <<setting, immediate, adapter, driver>>

-----------------------------------------------------------------------------
(* The input thread.                                                       *)

StopAllFilters == running' = {}

\* DMX_START on a descriptor whose filter is not set fails.
StartAllFilters == running' = allocated \ {setting}

\* The device is told to tune: FE_SET_PROPERTY.
Retune ==
  /\ tuning' = TRUE
  /\ tuned' = [freq |-> requested, rest |-> properties]
  /\ signal' = FALSE
  /\ events' = <<"loss">>

\* DVB_CMD_TUNE of DVBCommandCallback.
HandleTune ==
  /\ pipe # <<>> /\ Head(pipe) = "TUNE"
  /\ pipe' = Tail(pipe)
  /\ StopAllFilters
  /\ IF opened THEN Retune ELSE UNCHANGED <<tuning, driver>>
  /\ UNCHANGED <<wanted, requested, properties, written, locked, opened,
                 allocated, setting, immediate>>

\* Mutant of HandleActive: the front end is opened and not tuned.
HandleActiveUntuned ==
  /\ pipe # <<>> /\ Head(pipe) = "ACTIVE"
  /\ pipe' = Tail(pipe)
  /\ opened' = TRUE
  /\ UNCHANGED <<wanted, requested, properties, written, tuning, locked, filters, driver>>

\* DVB_CMD_FE_ACTIVE: opening the device may fail.
HandleActive ==
  /\ pipe # <<>> /\ Head(pipe) = "ACTIVE"
  /\ pipe' = Tail(pipe)
  /\ \/ ~opened /\ opened' = TRUE /\ Retune
     \/ UNCHANGED <<opened, tuning, driver>>
  /\ UNCHANGED <<wanted, requested, properties, written, locked, filters>>

\* DVB_CMD_FE_INACTIVE: a closed device has no events.
HandleInactive ==
  /\ pipe # <<>> /\ Head(pipe) = "INACTIVE"
  /\ pipe' = Tail(pipe)
  /\ IF opened THEN /\ StopAllFilters
                    /\ opened' = FALSE
                    /\ tuned' = Untuned
                    /\ signal' = FALSE
                    /\ events' = <<>>
     ELSE UNCHANGED <<running, opened, driver>>
  /\ UNCHANGED <<wanted, requested, properties, written, tuning, locked,
                 allocated, setting, immediate>>

\* A tune is asked for and not yet carried out.
TuneUnderWay == written \/ \E i \in 1..Len(pipe) : pipe[i] = "TUNE"

\* What the oldest event not yet read says: FE_HAS_LOCK.
Reported == Head(events) = "lock"

\* Mutant of HandleEvent: the filters are not started.
HandleEventUnstarted ==
  /\ opened /\ events # <<>>
  /\ events' = Tail(events)
  /\ locked' = Reported
  /\ tuning' = IF Reported /\ ~locked THEN FALSE ELSE tuning
  /\ UNCHANGED <<wanted, requested, properties, written, opened, pipe, filters, tuned,
                 signal>>

\* Mutant of HandleEvent: the end of tuning is not noted.
HandleEventStillTuning ==
  /\ opened /\ events # <<>>
  /\ events' = Tail(events)
  /\ locked' = Reported
  /\ IF Reported = locked THEN UNCHANGED running
     ELSE IF Reported THEN StartAllFilters ELSE StopAllFilters
  /\ UNCHANGED <<wanted, requested, properties, written, tuning, opened, pipe,
                 allocated, setting, immediate, tuned, signal>>

\* DVBFrontendCallback.  On lock the properties are read back from the device.
HandleEvent ==
  /\ opened /\ events # <<>>
  /\ events' = Tail(events)
  /\ locked' = Reported
  /\ IF Reported = locked THEN UNCHANGED <<tuning, running, properties>>
     ELSE IF Reported
     THEN tuning' = FALSE /\ StartAllFilters /\ properties' = tuned.rest
     ELSE StopAllFilters /\ UNCHANGED <<tuning, properties>>
  /\ UNCHANGED <<wanted, requested, written, opened, pipe, allocated, setting,
                 immediate, tuned, signal>>

-----------------------------------------------------------------------------
(* The driver.                                                             *)

\* The signal comes or goes.
SignalChange(has) ==
  /\ opened /\ tuned.freq # None /\ signal # has
  /\ signal' = has
  /\ LET all == Append(events, IF has THEN "lock" ELSE "loss")
     IN  events' = IF Len(all) > MaxEvents THEN Tail(all) ELSE all
  /\ UNCHANGED <<adapter, filters, tuned>>

-----------------------------------------------------------------------------

Init ==
  /\ wanted = None /\ requested = None /\ properties = None
  /\ written = FALSE /\ tuning = FALSE /\ locked = FALSE /\ opened = FALSE
  /\ pipe = <<>>
  /\ allocated = {} /\ running = {} /\ setting = None /\ immediate = FALSE
  /\ tuned = Untuned /\ signal = FALSE /\ events = <<>>
  /\ overtaken = FALSE /\ raced = FALSE

User ==
  \/ \E p \in Params : WriteParams(p)
  \/ SendTune
  \/ \E active \in BOOLEAN : SetActive(active)
  \/ \E pid \in Pid : OpenFilter(pid) \/ ReleaseFilter(pid)
  \/ SetFilter

\* The next tune writes all the parameters again.
UserStep == User /\ overtaken' = (overtaken /\ ~written') /\ UNCHANGED raced

InputStep ==
  /\ \/ HandleEvent /\ overtaken' = (overtaken \/ TuneUnderWay)
     \/ (HandleTune \/ HandleActive \/ HandleInactive) /\ UNCHANGED overtaken
  /\ raced' = (setting # None \/ (raced /\ running' # allocated))

SignalStep == (\E has \in BOOLEAN : SignalChange(has)) /\ UNCHANGED history

Next == UserStep \/ InputStep \/ SignalStep

Spec == Init /\ [][Next]_vars

\* The input loop handles what is in the pipe and what the driver reports.
FairSpec ==
  /\ Spec
  /\ WF_state(HandleTune) /\ WF_state(HandleActive) /\ WF_state(HandleInactive)
  /\ WF_state(HandleEvent)

-----------------------------------------------------------------------------
(* Properties.                                                             *)

\* Every variable keeps its type.
TypeOK ==
  /\ {wanted, requested, properties} \subseteq Params \cup {None}
  /\ written \in BOOLEAN /\ tuning \in BOOLEAN /\ locked \in BOOLEAN
  /\ opened \in BOOLEAN /\ immediate \in BOOLEAN /\ signal \in BOOLEAN
  /\ pipe \in Seq({"TUNE", "ACTIVE", "INACTIVE"}) /\ Len(pipe) <= MaxPipe
  /\ allocated \subseteq Pid /\ running \subseteq allocated
  /\ setting \in Pid \cup {None}
  /\ tuned \in [freq : Params \cup {None}, rest : Params \cup {None}]
  /\ events \in Seq({"lock", "loss"}) /\ Len(events) <= MaxEvents
  /\ overtaken \in BOOLEAN /\ raced \in BOOLEAN

\* When all commands are carried out the device is tuned to all the parameters
\* of the last request (DVBFrontEndTune), whatever locks and losses of signal
\* were handled in between. The exception: a lock read between the tune and its
\* command puts the old multiplex's properties back.
TunedAsRequested ==
  opened /\ ~TuneUnderWay /\ ~overtaken => tuned = [freq |-> wanted, rest |-> wanted]

\* Once a tune has ended in lock every allocated filter streams, also those that
\* were allocated before the front end was opened or while it was tuning. The
\* exception: the flags of a filter are chosen before the filter is set.
FiltersStream ==
  opened /\ locked /\ ~tuning /\ setting = None /\ ~raced => running = allocated

\* If the front end stays open, no tune is asked for any more and the signal is
\* there to stay, the adapter is locked in the end and knows that tuning is over,
\* however many events were lost.
LocksInTheEnd ==
  <>[](opened /\ ~TuneUnderWay /\ signal) => <>[](locked /\ ~tuning)

==============================================================================
