------------------------------- MODULE Scanning -------------------------------
(***************************************************************************)
(* The scan commands and their state machine (cmd_scanning.c) on top of    *)
(* Tuning. The commands run on the user's thread: they test the state,     *)
(* fill the list and wake the input thread, one after the other. The       *)
(* machine runs on the input thread; the timer, the front end and the      *)
(* table events drive it. The transitions it makes in one call are steps   *)
(* of that call here, because tuning in between takes a while.             *)
(***************************************************************************)
EXTENDS Tuning, SequencesExt

CONSTANTS FirstRows,     \* multiplexes in the database to begin with
          Spectrum,      \* the multiplexes in the order of their frequencies
          Alive,         \* those with a signal to lock to
          Attempts,      \* parameter sets tried for an unknown frequency
          Programs,      \* the program numbers in the PAT of each multiplex
          Announced,     \* the transponders in the NIT of each
          LockTicks,     \* locktimeout
          TablesTicks,   \* tablestimeout
          MaxPMTs,       \* MAX_PMT_COUNT
          Kinds,         \* the kinds of scan that are asked for
          MaxEntries,    \* bound: entries the commands may bring the list to
          MaxCommands    \* bound: commands given

\* scan full, for each delivery system there is a front end for.
FullKinds == {"dvbt", "dvbc", "atsc"}

ASSUME ScanningAssumption ==
  /\ FirstRows \subseteq Mux /\ Alive \subseteq Mux
  /\ Spectrum \in Seq(Mux)
  /\ Programs \in [Mux -> Seq(Nat \ {0})] /\ Announced \in [Mux -> Seq(Mux)]
  /\ {Attempts, LockTicks, TablesTicks, MaxPMTs} \subseteq Nat \ {0}
  /\ MaxEntries \in Nat /\ MaxCommands \in Nat
  /\ Kinds \subseteq {"one", "all"} \cup FullKinds \cup {"net"}

VARIABLES
  state,         \* currentScanState
  entries,       \* toScan: a multiplex, or the parameter sets to try
  current,       \* toScan.current, 0 when it is NULL
  entry,         \* currentEntry
  param,         \* currentTuningParams, counted from one
  timeout,
  identified,    \* the rows with the ids of their network and stream
  got,           \* PATReceived, PMTReceived and SDTReceived
  table,         \* PMTsReceived, up to its first free entry
  count,         \* PMTCount
  transponders,  \* transponderList
  network,       \* the scan is a network scan
  cancelScan,
  pending,       \* scanStartAsync has been sent
  timer,         \* timeoutTimer runs
  listed,        \* entries there were when the scan started
  tried,         \* those tuned to
  visits,        \* multiplexes locked to by this scan
  heard,         \* programs of this multiplex whose PMT has come
  cancelled,     \* this scan has been cancelled
  served,        \* there was a current service when the scan started
  raced,         \* a select and the scan have tuned at the same time
  commands       \* commands given

list    == <<entries, current, transponders, identified>>
machine == <<state, entry, param, timeout, got, table, count, timer>>
async   == <<network, cancelScan, pending>>
history == <<listed, tried, visits, heard, cancelled, served>>
vars    == <<tuning, list, machine, async, history, raced, commands>>

States == {"Init", "NextMux", "WaitingForTables", "WaitingForNIT", "Stopping",
           "Stopped", "Canceling"}

Tables == {"PAT", "PMTs", "SDT"}

Entered == <<<<"scan", "Entered">>>>

\* The numbers of K, the smallest first, and what q has at these places.
InOrder(K) == [i \in 1..Cardinality(K) |->
                 CHOOSE k \in K : Cardinality({j \in K : j < k}) = i - 1]

Selected(q, K) == [i \in 1..Cardinality(K) |-> q[InOrder(K)[i]]]

\* The steps of t that move the front end or the reader.
Tunes(t) == \E i \in 1..Len(todo[t]) :
              todo[t][i][1] \in {"disable", "find", "retune", "load", "tune", "announce",
                                 "enable", "frontend", "restore"}

-----------------------------------------------------------------------------
(* The commands.                                                           *)

\* An entry for a multiplex of the database, or one for an unknown frequency.
KnownEntry(m) == [mux |-> m, docs |-> <<>>]
UnknownEntry(docs) == [mux |-> None, docs |-> docs]

EntryFor(m, attempts) ==
  IF m \in rows THEN KnownEntry(m) ELSE UnknownEntry([i \in 1..attempts |-> m])

ScanCurrentMultiplexes ==
  LET known == Selected(Spectrum, {i \in DOMAIN Spectrum : Spectrum[i] \in rows})
  IN  [i \in DOMAIN known |-> KnownEntry(known[i])]

\* Every channel with its offsets.
ScanFullDVBT == [i \in DOMAIN Spectrum |-> EntryFor(Spectrum[i], Attempts)]

\* An unknown frequency is listed once for each symbol rate, with the parameters
\* of the last one only: those before are overwritten in docs[s*m].
TryTuneDVBC(m) == IF m \in rows THEN KnownEntry(m) ELSE UnknownEntry(<<m>>)

ScanFullDVBC ==
  LET rates == [i \in 1..Len(Spectrum) * Attempts |-> Spectrum[(i - 1) \div Attempts + 1]]
      all   == Selected(rates, {i \in DOMAIN rates :
                                  rates[i] \in rows => (i - 1) % Attempts = 0})
  IN  [i \in DOMAIN all |-> TryTuneDVBC(all[i])]

ScanFullATSC == [i \in DOMAIN Spectrum |-> EntryFor(Spectrum[i], 1)]

ScanNetwork(m) == <<EntryFor(m, 1)>>

SpectrumOf(kind) ==
  CASE kind = "dvbt" -> ScanFullDVBT
    [] kind = "dvbc" -> ScanFullDVBC
    [] kind = "atsc" -> ScanFullATSC

\* The loops over the spectrum stop on cancelScan, which the start of a scan
\* only sets to FALSE when its list is there. The other kinds are scan
\* <multiplex>, all, and net with the parameters of a multiplex.
EntriesOf(kind, m) ==
  CASE kind = "one"  -> <<KnownEntry(m)>>
    [] kind = "all"  -> ScanCurrentMultiplexes
    [] kind = "net"  -> ScanNetwork(m)
    [] kind \in FullKinds -> IF cancelScan THEN <<>> ELSE SpectrumOf(kind)

\* CommandScan: refused while a scan runs, or something else has the lock.
Scan ==
  \E kind \in Kinds, m \in Mux :
    /\ commands < MaxCommands
    /\ state = "Stopped" /\ ~locked
    /\ kind = "one" => m \in rows
    /\ kind \notin {"one", "net"} => m = Spectrum[1]
    /\ Len(entries) + Len(EntriesOf(kind, m)) <= MaxEntries
    /\ Call(User, <<<<"list", <<kind, m>>>>, <<"start", kind = "net">>>>)
    /\ commands' = commands + 1
    /\ UNCHANGED <<enabled, held, currentService, currentMultiplex, cached, locked,
                   tunedTo, rows, changed, crashed, list, machine, async, history>>

\* Mutant of AddEntries: every new entry becomes the current one.
AddEntriesLast(more) ==
  /\ entries' = entries \o more
  /\ current' = IF more = <<>> THEN current ELSE Len(entries) + Len(more)

\* ScanListAddEntry: the next entry becomes the current one only in an empty list.
AddEntries(more) ==
  /\ entries' = entries \o more
  /\ current' = IF entries = <<>> /\ more # <<>> THEN 1 ELSE current

FillList ==
  \E kind \in Kinds, m \in Mux :
    /\ Doing(User, "list", <<kind, m>>)
    /\ AddEntries(EntriesOf(kind, m))
    /\ transponders' = IF kind = "net" THEN <<>> ELSE transponders
    /\ UNCHANGED identified
    /\ Then(User, <<>>)
    /\ UNCHANGED <<enabled, held, currentService, currentMultiplex, cached, locked,
                   tunedTo, rows, changed, crashed, machine, async, history, commands>>

\* ScanStart.
Start ==
  \E net \in BOOLEAN :
    /\ Doing(User, "start", net)
    /\ network' = net /\ cancelScan' = FALSE /\ pending' = TRUE
    /\ Then(User, <<>>)
    /\ UNCHANGED <<enabled, held, currentService, currentMultiplex, cached, locked,
                   tunedTo, rows, changed, crashed, list, machine, history, commands>>

\* CommandScanCancel.
CancelScan ==
  /\ commands < MaxCommands
  /\ ~crashed /\ Idle(User)
  /\ cancelScan' = TRUE /\ pending' = TRUE
  /\ commands' = commands + 1
  /\ UNCHANGED <<tuning, list, machine, network, history>>

\* select: the services of a multiplex go with its row.
Select ==
  \E s \in Service :
    /\ commands < MaxCommands
    /\ MuxOf[s] \in rows
    /\ SetCurrentService(User, s)
    /\ commands' = commands + 1
    /\ UNCHANGED <<enabled, held, currentService, currentMultiplex, cached, locked,
                   tunedTo, rows, changed, crashed, list, machine, async, history>>

-----------------------------------------------------------------------------
(* What the machine is made of.                                            *)

\* The machine handles this event in this state.
On(s, event) == state = s /\ Doing(Input, "scan", event)

\* It goes to another state: the loop runs once more with StateEntered.
Goto(s) == state' = s /\ Then(Input, Entered)

Stay == state' = state /\ Then(Input, <<>>)

\* A tick: the state is left, or more is done, when the time is up.
Tick(s, last, else) ==
  /\ On(s, "Tick")
  /\ timeout' = timeout - 1
  /\ IF timeout - 1 <= 0 THEN last ELSE else

\* Most transitions leave the tuning alone.
Quietly == UNCHANGED <<enabled, held, currentService, currentMultiplex, cached, locked,
                       tunedTo, rows, changed, crashed>>

-----------------------------------------------------------------------------
(* The transitions.                                                        *)

\* Mutant of Begin: the timer is taken to run still.
BeginNoTimer ==
  /\ On("Init", "Entered")
  /\ Goto("NextMux")
  /\ timer' = timer /\ locked' = TRUE
  /\ count' = MaxPMTs /\ table' = <<>>
  /\ current' = IF entries = <<>> THEN 0 ELSE 1
  /\ listed' = Len(entries) /\ tried' = {} /\ visits' = 0 /\ cancelled' = FALSE
  /\ served' = (currentService # None)
  /\ UNCHANGED <<enabled, held, currentService, currentMultiplex, cached, tunedTo, rows,
                 changed, crashed, entries, transponders, identified, entry, param, timeout,
                 got, async, heard, commands>>

Begin ==
  /\ On("Init", "Entered")
  /\ Goto("NextMux")
  /\ timer' = TRUE /\ locked' = TRUE
  /\ count' = MaxPMTs /\ table' = <<>>
  /\ current' = IF entries = <<>> THEN 0 ELSE 1
  /\ listed' = Len(entries) /\ tried' = {} /\ visits' = 0 /\ cancelled' = FALSE
  /\ served' = (currentService # None)
  /\ UNCHANGED <<enabled, held, currentService, currentMultiplex, cached, tunedTo, rows,
                 changed, crashed, entries, transponders, identified, entry, param, timeout,
                 got, async, heard, commands>>

\* ScanListNextEntry.
NextEntry ==
  /\ On("NextMux", "Entered")
  /\ param' = 0
  /\ entry' = current
  /\ IF current = 0
       THEN Goto("Stopping") /\ UNCHANGED current
       ELSE /\ state' = state
            /\ current' = IF current = Len(entries) THEN 0 ELSE current + 1
            /\ Then(Input, <<<<"scan", "Next">>>>)
  /\ Quietly
  /\ UNCHANGED <<entries, transponders, identified, timeout, got, table, count, timer, async,
                 history, commands>>

\* What there is to try for the current entry.
TuningParams ==
  IF entries[entry].mux # None THEN <<entries[entry].mux>> ELSE entries[entry].docs

\* NextTuningParams: the front end is tuned, the current multiplex stays.
NextParams ==
  /\ On("NextMux", "Next")
  /\ param' = param + 1
  /\ state' = state
  /\ IF param + 1 \in DOMAIN TuningParams
       THEN /\ timeout' = LockTicks
            /\ Then(Input, <<<<"disable", None>>, <<"frontend", TuningParams[param + 1]>>>>)
       ELSE /\ UNCHANGED timeout
            /\ Then(Input, Entered)
  /\ Quietly
  /\ UNCHANGED <<list, entry, got, table, count, timer, async, history, commands>>

TuneFrontend ==
  \E m \in Mux :
    /\ Doing(Input, "frontend", m)
    /\ tunedTo' = m
    /\ tried' = tried \cup {entry}
    /\ Then(Input, <<>>)
    /\ UNCHANGED <<enabled, held, currentService, currentMultiplex, cached, locked, rows,
                   changed, crashed, list, machine, async, listed, visits, heard,
                   cancelled, served, commands>>

\* The front end has locked: an unknown frequency becomes a multiplex.
LockedOn ==
  /\ On("NextMux", "Locked")
  /\ LET m == IF entries[entry].mux = None THEN tunedTo ELSE entries[entry].mux
     IN  /\ rows' = IF entries[entry].mux = None THEN rows \cup {m} ELSE rows
         /\ entries' = [entries EXCEPT ![entry].mux = m]
         /\ Then(Input, MultiplexSteps(m) \o <<<<"wait", None>>>>)
  /\ UNCHANGED <<enabled, held, currentService, currentMultiplex, cached, locked, tunedTo,
                 changed, crashed, current, transponders, identified, machine, async,
                 history, commands>>

WaitForTables ==
  /\ Doing(Input, "wait", None)
  /\ Goto("WaitingForTables")
  /\ visits' = visits + 1
  /\ Quietly
  /\ UNCHANGED <<list, entry, param, timeout, got, table, count, timer, async, listed,
                 tried, heard, cancelled, served, commands>>

\* No lock: the next parameters, and a multiplex of the database is removed
\* (removeFailedFreqs), its row only, its entry stays.
NoLock ==
  /\ Tick("NextMux", Then(Input, <<<<"scan", "Next">>>>), Then(Input, <<>>))
  /\ state' = state
  /\ rows' = IF timeout' <= 0 THEN rows \ {entries[entry].mux} ELSE rows
  /\ identified' = identified \cap rows'
  /\ UNCHANGED <<enabled, held, currentService, currentMultiplex, cached, locked, tunedTo,
                 changed, crashed, entries, current, transponders, entry, param, got, table, count, timer, async,
                 history, commands>>

TablesEntered ==
  /\ On("WaitingForTables", "Entered")
  /\ Stay
  /\ got' = {} /\ timeout' = TablesTicks
  /\ heard' = {}
  /\ Quietly
  /\ UNCHANGED <<list, entry, param, table, count, timer, async, listed, tried, visits,
                 cancelled, served, commands>>

\* One more kind of table is complete: with all of them the multiplex is done,
\* and the table processors have seen to the ids in its row.
TableReceived ==
  \E k \in Tables :
    /\ On("WaitingForTables", k)
    /\ got' = got \cup {k}
    /\ IF got' # Tables THEN Stay /\ UNCHANGED identified
       ELSE /\ Goto(IF network THEN "WaitingForNIT" ELSE "NextMux")
            /\ identified' = identified \cup ({currentMultiplex} \cap rows)
    /\ Quietly
    /\ UNCHANGED <<entries, current, transponders, entry, param, timeout, table, count, timer, async, history,
                   commands>>

NoTables ==
  /\ Tick("WaitingForTables", Goto("NextMux"), Stay)
  /\ Quietly
  /\ UNCHANGED <<list, entry, param, got, table, count, timer, async, history, commands>>

NITEntered ==
  /\ On("WaitingForNIT", "Entered")
  /\ Stay
  /\ timeout' = TablesTicks
  /\ Quietly
  /\ UNCHANGED <<list, entry, param, got, table, count, timer, async, history, commands>>

\* ProcessTransponderList: those the database knows by their ids are skipped,
\* one it knows by its frequency is an entry, and so is one it does not know;
\* the parameters of the latter leave the list for the entry.
ProcessTransponders ==
  LET fresh == Selected(transponders, {i \in DOMAIN transponders :
                                         transponders[i].mux \notin identified})
  IN  /\ AddEntries([i \in DOMAIN fresh |->
                       IF fresh[i].mux \in rows THEN KnownEntry(fresh[i].mux)
                       ELSE UnknownEntry(IF fresh[i].used THEN <<>> ELSE <<fresh[i].mux>>)])
      /\ transponders' = [i \in DOMAIN transponders |->
                            [transponders[i] EXCEPT !.used = @ \/ transponders[i].mux \notin rows]]

\* The wait for the NIT ends with the time only; a list another scan has freed
\* is used all the same.
NITDone ==
  /\ Tick("WaitingForNIT", Goto("NextMux"), Stay)
  /\ crashed' = (timeout' <= 0 /\ transponders = None)
  /\ IF timeout' > 0 \/ transponders = None THEN UNCHANGED <<entries, current, transponders>>
     ELSE ProcessTransponders
  /\ UNCHANGED <<enabled, held, currentService, currentMultiplex, cached, locked,
                 tunedTo, rows, changed, identified, entry, param, got, table, count,
                 timer, async, history, commands>>

\* A cancellation is for every state but the one without a scan.
Cancel ==
  /\ Doing(Input, "scan", "Cancel")
  /\ IF state = "Stopped" THEN Stay /\ UNCHANGED cancelled
     ELSE Goto("Canceling") /\ cancelled' = TRUE
  /\ Quietly
  /\ UNCHANGED <<list, entry, param, timeout, got, table, count, timer, async, listed,
                 tried, visits, heard, served, commands>>

Cancelled ==
  /\ On("Canceling", "Entered")
  /\ Goto("Stopping")
  /\ Quietly
  /\ UNCHANGED <<list, entry, param, timeout, got, table, count, timer, async, history,
                 commands>>

\* TuningCurrentServiceUnlock comes first, the retune follows.
Stop ==
  /\ On("Stopping", "Entered")
  /\ locked' = FALSE
  /\ Then(Input, <<<<"restore", None>>, <<"finish", None>>>>)
  /\ UNCHANGED <<enabled, held, currentService, currentMultiplex, cached, tunedTo, rows,
                 changed, crashed, list, machine, async, history, commands>>

\* Mutant of Restore: the retune is left to the next select.
RestoreLater ==
  /\ Doing(Input, "restore", None)
  /\ Then(Input, <<>>)
  /\ Quietly
  /\ UNCHANGED <<list, machine, async, history, commands>>

\* TuningCurrentServiceRetune.
Restore ==
  /\ Doing(Input, "restore", None)
  /\ Then(Input, RetuneSteps)
  /\ Quietly
  /\ UNCHANGED <<list, machine, async, history, commands>>

\* ScanListReset and the rest of Stopping. What else the machine leaves behind
\* is set again before anything reads it, and is forgotten here.
Finish ==
  /\ Doing(Input, "finish", None)
  /\ entries' = <<>> /\ current' = 0 /\ transponders' = None
  /\ timer' = FALSE
  /\ entry' = 0 /\ param' = 0 /\ timeout' = 0 /\ got' = {} /\ table' = <<>> /\ count' = 0
  /\ state' = "Stopped"
  /\ listed' = 0 /\ tried' = {} /\ visits' = 0 /\ heard' = {} /\ cancelled' = FALSE
  /\ Then(Input, <<>>)
  /\ Quietly
  /\ UNCHANGED <<identified, async, served, commands>>

\* What no state waits for any more.
Ignored ==
  /\ \/ \E k \in Tables : On("NextMux", k) \/ On("WaitingForNIT", k)
     \/ On("Stopped", "Tick") \/ On("Stopped", "PMTs")
  /\ Stay
  /\ Quietly
  /\ UNCHANGED <<list, entry, param, timeout, got, table, count, timer, async, history,
                 commands>>

-----------------------------------------------------------------------------
(* What drives the machine.                                                *)

\* An event reaches the input thread.
Arrives(steps) ==
  /\ Call(Input, steps)
  /\ Quietly

\* ScanStartStopWatcher.
Watcher ==
  /\ pending /\ pending' = FALSE
  /\ IF cancelScan THEN Arrives(<<<<"scan", "Cancel">>>>) /\ UNCHANGED state
     ELSE Arrives(Entered) /\ state' = "Init"
  /\ UNCHANGED <<list, entry, param, timeout, got, table, count, timer, network,
                 cancelScan, history, commands>>

\* TimeoutWatcher.
TimerTick ==
  /\ timer
  /\ Arrives(<<<<"scan", "Tick">>, <<"again", None>>>>)
  /\ UNCHANGED <<list, machine, async, history, commands>>

TimerAgain ==
  /\ Doing(Input, "again", None)
  /\ timer' = TRUE
  /\ Then(Input, <<>>)
  /\ Quietly
  /\ UNCHANGED <<list, state, entry, param, timeout, got, table, count, async, history,
                 commands>>

\* FELockedEventListener.
FrontendLocked ==
  /\ state = "NextMux" /\ tunedTo \in Alive
  /\ Arrives(<<<<"scan", "Locked">>>>)
  /\ UNCHANGED <<list, machine, async, history, commands>>

\* The tables of the multiplex that is tuned come through the reader.
Receiving == enabled /\ tunedTo \in Alive

\* PMTsRecievedFindOrAdd for one of these ids after the other: those that are
\* not there yet are added, as long as there is room.
FindOrAdd(received, ids) ==
  LET new == Selected(ids, {k \in DOMAIN ids :
                              /\ \A i \in DOMAIN received : received[i].id # ids[k]
                              /\ \A j \in 1..k - 1 : ids[j] # ids[k]})
      all == received \o [i \in DOMAIN new |-> [id |-> new[i], received |-> FALSE]]
  IN  IF Len(all) <= MaxPMTs THEN all ELSE [i \in 1..MaxPMTs |-> all[i]]

\* PATEventListener: those that are found or added are counted.
PATEvent ==
  /\ Receiving /\ state = "WaitingForTables"
  /\ table' = FindOrAdd(table, Programs[tunedTo])
  /\ count' = Cardinality({k \in DOMAIN Programs[tunedTo] :
                             \E i \in DOMAIN table' : table'[i].id = Programs[tunedTo][k]})
  /\ Arrives(<<<<"scan", "PAT">>, <<"check", None>>>>)
  /\ UNCHANGED <<list, state, entry, param, timeout, got, timer, async, history, commands>>

\* PMTEventListener.
PMTEvent ==
  /\ Receiving /\ state = "WaitingForTables"
  /\ \E id \in ToSet(Programs[tunedTo]) :
    /\ LET with == FindOrAdd(table, <<id>>)
       IN  table' = [i \in DOMAIN with |->
                       [with[i] EXCEPT !.received = @ \/ with[i].id = id]]
    /\ heard' = heard \cup {id}
    /\ Arrives(<<<<"check", None>>>>)
    /\ UNCHANGED <<list, state, entry, param, timeout, got, count, timer, async, listed,
                   tried, visits, cancelled, served, commands>>

\* Mutant of AllReceived: one will do.
AnyReceived == \E i \in 1..count : i \in DOMAIN table /\ table[i].received

\* CheckPMTsReceived looks at the first entries, as many as the PAT had.
AllReceived == \A i \in 1..count : i \in DOMAIN table /\ table[i].received

CheckPMTs ==
  /\ Doing(Input, "check", None)
  /\ Then(Input, IF AllReceived THEN <<<<"scan", "PMTs">>>> ELSE <<>>)
  /\ Quietly
  /\ UNCHANGED <<list, machine, async, history, commands>>

\* SDTEventListener and VCTEventListener.
SDTEvent ==
  /\ Receiving /\ state = "WaitingForTables"
  /\ Arrives(<<<<"scan", "SDT">>>>)
  /\ UNCHANGED <<list, machine, async, history, commands>>

\* NITEventListener; the model lets a NIT bring the same ones once.
NITEvent ==
  /\ Receiving /\ state \in {"WaitingForTables", "WaitingForNIT"}
  /\ network /\ transponders # None
  /\ LET sent == Announced[tunedTo]
         news == Selected(sent, {k \in DOMAIN sent :
                                   \A i \in DOMAIN transponders : transponders[i].mux # sent[k]})
     IN  /\ news # <<>>
         /\ transponders' = transponders
              \o [i \in DOMAIN news |-> [mux |-> news[i], used |-> FALSE]]
  /\ ~crashed /\ Idle(Input)
  /\ UNCHANGED <<tuning, entries, current, identified, machine, async, history, commands>>

-----------------------------------------------------------------------------
(* The system.                                                             *)

Init ==
  /\ \E s \in {None} \cup {k \in Service : MuxOf[k] \in FirstRows} : TuningInit(s)
  /\ rows = FirstRows
  /\ state = "Stopped" /\ entries = <<>> /\ current = 0 /\ entry = 0 /\ param = 0
  /\ timeout = 0 /\ got = {} /\ table = <<>> /\ count = 0
  /\ transponders = None /\ identified = {}
  /\ network = FALSE /\ cancelScan = FALSE /\ pending = FALSE
  /\ timer = FALSE
  /\ listed = 0 /\ tried = {} /\ visits = 0 /\ heard = {} /\ cancelled = FALSE
  /\ served = TRUE
  /\ raced = FALSE /\ commands = 0

\* ServiceFilters has what selecting a service does to the primary filter.
Follow(t) ==
  /\ Doing(t, "follow", None)
  /\ Then(t, <<>>)
  /\ Quietly

TuneStep == /\ \E t \in Thread : TuningStep(t) \/ Follow(t)
            /\ UNCHANGED <<list, machine, async, history, commands>>

Command == Scan \/ CancelScan \/ Select

Events == Watcher \/ TimerTick \/ FrontendLocked \/ PATEvent \/ PMTEvent \/ SDTEvent
          \/ NITEvent

MachineStep ==
  \/ Begin \/ NextEntry \/ NextParams \/ TuneFrontend \/ LockedOn \/ WaitForTables
  \/ NoLock \/ TablesEntered \/ TableReceived \/ NoTables \/ NITEntered \/ NITDone
  \/ Cancel \/ Cancelled \/ Stop \/ Restore \/ Finish \/ Ignored \/ CheckPMTs
  \/ TimerAgain

Step == FillList \/ Start \/ TuneStep \/ MachineStep

Race == raced' = (raced \/ (Tunes(User) /\ Tunes(Input))')

Next == (Command \/ Events \/ Step) /\ Race

\* Both threads go on with what they have begun, and the loop of the input
\* thread comes to what was sent to it and to its timer.
Fairness == WF_vars(Step /\ Race) /\ WF_vars(Watcher /\ Race) /\ SF_vars(TimerTick /\ Race)

Spec == Init /\ [][Next]_vars /\ Fairness

-----------------------------------------------------------------------------
(* Properties.                                                             *)

\* A scan that was asked for comes to its end, whatever the front end and the
\* tables do: the machine waits nowhere without its timer (cmd_scanning.c
\* TimeoutWatcher and the TimerTick cases of ScanStateMachine).
ScanEnds ==
  pending \/ state # "Stopped" ~>
    crashed \/ (state = "Stopped" /\ Idle(Input) /\ ~locked)

\* A scan that nobody cancels tunes to every entry that was in the list when it
\* started, also when entries are added on the way or it is started again
\* (ScanListNextEntry, NextTuningParams). Transponders whose parameters an
\* entry before them has taken are left out.
ListedEntriesTried ==
  state = "Stopping" /\ ~cancelled =>
    {i \in 1..listed : entries[i] # UnknownEntry(<<>>)} \subseteq tried

\* The first multiplex a scan locks to is only left as complete when the PMT of
\* every program in its PAT has come (CheckPMTsReceived). It does not hold for
\* the next one: PMTsReceived is not emptied between two multiplexes.
FirstMultiplexComplete ==
  [][state = "WaitingForTables" /\ state' # state /\ got' = Tables /\ visits = 1 /\ ~raced
       => heard = ToSet(Programs[tunedTo])]_vars

\* After a scan, finished or cancelled, the reader is on for the multiplex of
\* the current service again, with its services in the cache, unless a select
\* and the scan were tuning at the same time (TuningCurrentServiceRetune). A
\* scan that began without a current service promises nothing: the front end
\* stays where it is, and a select on CurrentMultiplex does not tune it.
ServiceRestored ==
  (\A t \in Thread : Idle(t)) /\ state = "Stopped" /\ currentService # None
    /\ served /\ ~raced /\ ~crashed
  => /\ enabled /\ ~locked
     /\ tunedTo = MuxOf[currentService]
     /\ {currentMultiplex, cached} = {tunedTo}

\* The help of "scan net" has the network scanned from the initial tuning data
\* (cmd_scanning.c:235): so a scan nobody cancels tunes to every entry its list
\* has in the end, the transponders of the NIT included.
EveryEntryTried ==
  state = "Stopping" /\ ~cancelled => DOMAIN entries \subseteq tried

=============================================================================
