------------------------------ MODULE FileAdapter ------------------------------
(***************************************************************************)
(* The adapter that plays recorded multiplexes (fileadapter.c): the same    *)
(* calls as the DVB adapter, answered from a file per frequency.            *)
(*                                                                         *)
(* Threads that tune or switch the front end write the frequency and send   *)
(* commands through a pipe; the input thread carries them out and, ten      *)
(* times a second, copies the packets that pass a filter into a pipe the    *)
(* reader empties. Nothing is locked. Opening a file may fail: it is        *)
(* missing, or the descriptors are used up (the one replaced by a retune is *)
(* never closed).                                                          *)
(***************************************************************************)
EXTENDS Integers, Sequences, FiniteSets

CONSTANTS Freq,       \* frequencies asked for
          Listed,     \* those with a description in the data directory
          Contents,   \* the PIDs of a file's packets, in order
          FilterPid,  \* PIDs filters are asked for
          Everything, \* PID 8192, which stands for all
          Slots,      \* maxFilters
          Batch,      \* packets read at once
          Room,       \* packets the pipe to the reader holds
          MaxSent,    \* commands in the pipe
          MaxPasses   \* openings and rewinds

\* Frequency 0 is none, and what has a description can be asked for.
ASSUME FileAdapterAssumption ==
  /\ 0 \notin Freq /\ Listed \subseteq Freq
  /\ DOMAIN Contents = 1..Len(Contents) /\ Len(Contents) \in Nat
  /\ {Slots, Batch, Room, MaxSent, MaxPasses} \subseteq Nat

VARIABLES
  frequency, \* frontEndRequestedFreq, 0 before the first
  unsent,    \* DVBFrontEndTune has written it and not yet sent the command
  commands,  \* the command pipe
  file,      \* frontEndFd: the file's frequency, or 0
  lockedOn,  \* frontEndLocked
  timer,     \* sendTimer is active
  position,  \* packets of the file read
  pass,      \* which opening or rewind they belong to
  slots,     \* the filters: in use, and the PID
  naming,    \* slot DVBDemuxAllocateFilter has taken and not named yet, or 0
  forPid,    \* the PID it is for
  dvr,       \* packets in the pipe to the reader
  disposed,  \* DVBDispose
  asked,     \* history: what was asked for last, the front end open or closed
  unheard,   \* and whether it was dropped while another was on its way
  failed,    \* the file asked for last could not be opened
  passed     \* PIDs of slots in use since the reader emptied the pipe

frontend  == <<frequency, unsent, commands, file, lockedOn, timer, position, pass>>
demux     == <<slots, naming, forPid>>
asking    == <<asked, unheard>>
fileState == <<frontend, demux, dvr, disposed, asking, failed, passed>>

PidOf(packet) == Contents[packet.index]

-----------------------------------------------------------------------------
(* Threads that tune, switch and filter.                                   *)

\* DVBFrontEndTune as far as the frequency.
FileWriteParams(f) ==
  /\ ~unsent
  /\ frequency' = f /\ unsent' = TRUE
  /\ asked' = TRUE /\ unheard' = FALSE
  /\ UNCHANGED <<commands, file, lockedOn, timer, position, pass, demux, dvr, disposed,
                 failed, passed>>

\* DVBFrontEndMonitorSend.
MonitorSend(command) == Len(commands) < MaxSent /\ commands' = Append(commands, command)

\* The end of DVBFrontEndTune.
FileSendTune ==
  /\ unsent /\ unsent' = FALSE
  /\ MonitorSend("RETUNING")
  /\ UNCHANGED <<frequency, file, lockedOn, timer, position, pass, demux, dvr, disposed,
                 asking, failed, passed>>

\* The last command in the pipe opens the front end (open) or closes it.
OnItsWay(open) ==
  commands # <<>> /\ (open = (commands[Len(commands)] # "DEACTIVATE"))

\* DVBFrontEndSetActive: only if the front end is not what it is to be.
FileSetActive(active) ==
  /\ ~unsent
  /\ asked' = active
  /\ IF active = (file = 0)
     THEN MonitorSend(IF active THEN "ACTIVATE" ELSE "DEACTIVATE") /\ unheard' = FALSE
     ELSE unheard' = OnItsWay(~active) /\ UNCHANGED commands
  /\ UNCHANGED <<frequency, unsent, file, lockedOn, timer, position, pass, demux, dvr,
                 disposed, failed, passed>>

Free == {s \in 1..Slots : ~slots[s].used}
Named(pid) == {s \in 1..Slots : slots[s].used /\ slots[s].pid = pid}

\* DVBDemuxAllocateFilter: the last free slot is taken ...
TakeSlot(pid) ==
  /\ naming = 0 /\ Free # {} /\ Named(pid) = {}
  /\ \E s \in Free :
       /\ \A t \in Free : t <= s
       /\ slots' = [slots EXCEPT ![s].used = TRUE]
       /\ passed' = passed \cup {slots[s].pid}
       /\ naming' = s
  /\ forPid' = pid
  /\ UNCHANGED <<frontend, dvr, disposed, asking, failed>>

\* ... and then named. What it was used for before passes until then.
NameSlot ==
  /\ naming # 0
  /\ slots' = [slots EXCEPT ![naming].pid = forPid]
  /\ passed' = passed \cup {forPid}
  /\ naming' = 0 /\ forPid' = 0
  /\ UNCHANGED <<frontend, dvr, disposed, asking, failed>>

\* DVBDemuxReleaseFilter on restricted hardware. Elsewhere only Everything is
\* ever released.
FreeSlot(pid) ==
  /\ naming = 0
  /\ \E s \in Named(pid) : slots' = [slots EXCEPT ![s].used = FALSE]
  /\ UNCHANGED <<frontend, naming, forPid, dvr, disposed, asking, failed, passed>>

-----------------------------------------------------------------------------
(* The input thread.                                                       *)

StartFile ==
  /\ file' = frequency /\ position' = 0 /\ pass' = pass + 1
  /\ lockedOn' = TRUE /\ timer' = TRUE /\ failed' = FALSE

\* Mutant of OpenStreamFile: the timer goes on with the file that was open.
OpenStreamFileTimed(lock) ==
  IF frequency \in Listed
  THEN /\ pass < MaxPasses
       /\ \/ StartFile
          \/ file' = 0 /\ timer' = FALSE /\ lockedOn' = lock /\ failed' = TRUE
             /\ UNCHANGED <<position, pass>>
  ELSE lockedOn' = lock /\ failed' = TRUE /\ UNCHANGED <<file, timer, position, pass>>

\* DVBOpenStreamFile and what depends on it. A frequency without a description
\* leaves the old file open; one whose file cannot be opened does not.
OpenStreamFile(lock) ==
  IF frequency \in Listed
  THEN /\ pass < MaxPasses
       /\ \/ StartFile
          \/ file' = 0 /\ timer' = FALSE /\ lockedOn' = lock /\ failed' = TRUE
             /\ UNCHANGED <<position, pass>>
  ELSE timer' = FALSE /\ lockedOn' = lock /\ failed' = TRUE
       /\ UNCHANGED <<file, position, pass>>

\* MONITOR_CMD_RETUNING of DVBCommandCallback, which goes on as ACTIVATE.
HandleRetuning ==
  /\ commands # <<>> /\ Head(commands) = "RETUNING"
  /\ commands' = Tail(commands)
  /\ OpenStreamFile(FALSE)
  /\ UNCHANGED <<frequency, unsent, demux, dvr, disposed, asking, passed>>

\* MONITOR_CMD_FE_ACTIVATE.
HandleActivate ==
  /\ commands # <<>> /\ Head(commands) = "ACTIVATE"
  /\ commands' = Tail(commands)
  /\ OpenStreamFile(lockedOn)
  /\ UNCHANGED <<frequency, unsent, demux, dvr, disposed, asking, passed>>

\* MONITOR_CMD_FE_DEACTIVATE: the lock is not taken back.
HandleDeactivate ==
  /\ commands # <<>> /\ Head(commands) = "DEACTIVATE"
  /\ commands' = Tail(commands)
  /\ file' = 0 /\ timer' = FALSE
  /\ UNCHANGED <<frequency, unsent, lockedOn, position, pass, demux, dvr, disposed,
                 asking, failed, passed>>

\* Some slot in use lets the packet through.
Passes(packet) ==
  \E s \in 1..Slots : slots[s].used /\ slots[s].pid \in {Everything, PidOf(packet)}

\* DVBFilterPackets while there is something to read: what passes is written
\* once and in order, and is lost where the pipe is full.
FilterPackets ==
  /\ timer /\ file # 0 /\ position < Len(Contents)
  /\ LET upto    == IF position + Batch < Len(Contents) THEN position + Batch
                    ELSE Len(Contents)
         read    == [index : position + 1 .. upto, freq : {file}, pass : {pass}]
         passing == {packet \in read : Passes(packet)}
         whole   == Len(dvr) + Cardinality(passing)
     IN /\ position' = upto
        /\ \E order \in [1..Cardinality(passing) -> passing] :
             /\ \A i, j \in DOMAIN order : i < j => order[i].index < order[j].index
             /\ dvr' = [i \in 1..(IF whole > Room THEN Room ELSE whole) |->
                          IF i <= Len(dvr) THEN dvr[i] ELSE order[i - Len(dvr)]]
  /\ UNCHANGED <<frequency, unsent, commands, file, lockedOn, timer, pass, demux,
                 disposed, asking, failed, passed>>

\* DVBFilterPackets at the end of the file.
Rewind ==
  /\ timer /\ file # 0 /\ position = Len(Contents) /\ pass < MaxPasses
  /\ position' = 0 /\ pass' = pass + 1
  /\ UNCHANGED <<frequency, unsent, commands, file, lockedOn, timer, demux, dvr,
                 disposed, asking, failed, passed>>

\* The reader takes all there is (DVBDVRGetFD).
ReadDVR ==
  /\ dvr # <<>> /\ dvr' = <<>>
  /\ passed' = {slots[s].pid : s \in {t \in 1..Slots : slots[t].used}}
  /\ UNCHANGED <<frontend, demux, disposed, asking, failed>>

\* DVBDispose, when the loops have ended and nobody calls any more.
DisposeFileAdapter ==
  /\ naming = 0 /\ ~unsent
  /\ disposed' = TRUE
  /\ dvr' = <<>> /\ commands' = <<>> /\ file' = 0 /\ timer' = FALSE
  /\ slots' = [s \in 1..Slots |-> [slots[s] EXCEPT !.used = FALSE]]
  /\ UNCHANGED <<frequency, unsent, lockedOn, position, pass, naming, forPid, asking,
                 failed, passed>>

-----------------------------------------------------------------------------

\* DVBInit: the timer runs from the start.
FileAdapterInit ==
  /\ frequency = 0 /\ unsent = FALSE /\ commands = <<>>
  /\ file = 0 /\ lockedOn = FALSE /\ timer = TRUE /\ position = 0 /\ pass = 0
  /\ slots = [s \in 1..Slots |-> [used |-> FALSE, pid |-> 0]]
  /\ naming = 0 /\ forPid = 0 /\ dvr = <<>> /\ disposed = FALSE
  /\ asked = FALSE /\ unheard = FALSE /\ failed = FALSE /\ passed = {}

FileAdapterNext ==
  /\ ~disposed
  /\ \/ \E f \in Freq : FileWriteParams(f)
     \/ FileSendTune
     \/ \E active \in BOOLEAN : FileSetActive(active)
     \/ \E pid \in FilterPid : TakeSlot(pid) \/ FreeSlot(pid)
     \/ NameSlot
     \/ HandleRetuning \/ HandleActivate \/ HandleDeactivate
     \/ FilterPackets \/ Rewind \/ ReadDVR
     \/ DisposeFileAdapter

FileAdapterSpec == FileAdapterInit /\ [][FileAdapterNext]_fileState

-----------------------------------------------------------------------------
(* Properties.                                                             *)

\* Every command that was sent has been carried out.
CarriedOut == commands = <<>> /\ ~unsent /\ ~disposed

\* The timer never sends packets of another frequency than the last asked for
\* (DVBOpenStreamFile may leave the old file open), and a lock is only reported
\* while packets of that frequency are sent. The exception: DEACTIVATE leaves
\* the lock, and an ACTIVATE that fails does so after it.
PlaysTheWanted ==
  CarriedOut =>
    /\ timer /\ file # 0 => file = frequency
    /\ lockedOn /\ file # 0 => timer /\ file = frequency

\* The front end ends as it was asked for last, open or closed. The exceptions:
\* a request that agreed with the front end while a contrary command was on its
\* way is dropped (DVBFrontEndSetActive reads frontEndFd, not the pipe), and a
\* file may not be opened.
ActiveAsAsked ==
  CarriedOut /\ ~unheard => /\ ~asked => file = 0
                            /\ asked /\ ~failed => file # 0

\* The reader gets each packet once and in order, whatever was retuned or
\* filtered meanwhile, and only PIDs of slots in use. (A slot taken again has the
\* PID it had before until it is named, 0 the first time.)
PacketsAsFiltered ==
  /\ \A i, j \in 1..Len(dvr) : i < j =>
       \/ dvr[i].pass < dvr[j].pass
       \/ dvr[i].pass = dvr[j].pass /\ dvr[i].index < dvr[j].index
  /\ \A i \in 1..Len(dvr) : PidOf(dvr[i]) \in passed \/ Everything \in passed

\* A PID has one slot at most, so that a release ends its packets.
OneSlotPerPid ==
  \A s, t \in 1..Slots :
    s # t /\ slots[s].used /\ slots[t].used /\ naming \notin {s, t} =>
      slots[s].pid # slots[t].pid

\* The file adapter keeps to what the reader and the tuning code ask of an
\* adapter: it plays what was tuned to, is open when it was asked to be, and
\* sends each packet that passes a filter once and in order.
FileAdapterSound ==
  PlaysTheWanted /\ ActiveAsAsked /\ PacketsAsFiltered /\ OneSlotPerPid

==============================================================================
