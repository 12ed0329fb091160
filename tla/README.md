# DVBStreamer: formal models

DVBStreamer reads MPEG transport streams from a DVB or ATSC adapter and sends
the services in them to files, pipes and network addresses.  It follows the
tables of the stream to keep a database of multiplexes and services up to date
and offers filtered services, an EPG, scanning and a remote control.  This
directory holds TLA+ models of the parts of it that are hard to test, the TLC
configurations that check them on small instances, and proofs for TLAPS.

Paths below are relative to the repository root; `ts.c` and the like are under
`src/`.

## The program

### Threads

| thread | what runs on it |
|---|---|
| input dispatcher (`dispatchers.c`, a libev loop) | reads the DVR device and delivers packets (`TSReaderDVRCallback`), front end events and commands (`dvbadapter.c`), the notification of a new multiplex, the timers and the machine of the scan |
| network dispatcher (a second libev loop, on the main thread in a daemon) | accepts remote connections, the announcements of streams |
| a thread for each remote connection, and the console | every command, so tuning and the changes of filters |
| deferred processing (`threading/deferredproc.c`) | database writes and whatever else must not hold up the input |
| main | starts everything, waits, stops the loops and then the deferred thread |
| plugin threads | the poll of the CAM, EPG outputs, output methods |

### Locks

`TSReader.mutex` (recursive; held by the input thread while it handles a batch
of packets, so while every section and packet callback runs), the cache's mutex
(recursive), the events mutex (recursive; held while listeners run), the mutex
of each message queue, and mutexes of single modules (object types, scanning,
manual filters, outputs, DSM-CC sessions, the tuning lock).  The state of the
adapter, the current service and multiplex, the reader's change flag, the
properties and the commands of two connections have none.

Listeners run with the events mutex and may take the reader's: those of DSM-CC
take `sessionMutex` and then the reader's.  The packet loop holds the reader's
and, in `CacheUpdateProgramInfo` (`cache.c:655`), the cache's while it fires
events.  So there is a cycle once there are DSM-CC sessions; it is a hazard no
module here covers, because each models one of the two sides with its calls
atomic.

### Components

| component | state | operations | what makes it correct |
|---|---|---|---|
| TS reader (`ts.c`) | per PID a list of packet filters; section filter lists that wait for a PID or are active; groups | add and remove packet and section filters, deliver packets, rotate section lists, promiscuous mode | every filtered PID has a demux filter and no other one has; a removed filter is not called again; every section list gets its turn |
| adapter, demux half (`dvbadapter.c`) | slots with descriptor and PID | allocate, release, start, stop | never more filters than the hardware has; an allocated PID streams |
| adapter, front end half | parameters, `tuning`, `frontEndLocked`, a command pipe | tune, activate, handle events | the device ends up tuned to what was asked for last, and streaming |
| file adapter (`fileadapter.c`) | file, position, slots, a pipe | the same calls, answered from files | plays what was asked for, each packet once |
| deferred processing | a queue with a quit flag, references on the jobs' arguments | add a job, run, shut down | jobs run one at a time, in order, exactly once until shutdown; nothing leaks; shutdown ends |
| cache (`cache.c`) over the database | services of one multiplex, flags, queued updates, rows | find, add, update, delete, load | cache and rows agree when the updates have run; services that exist stay; none gets under another multiplex |
| table processors (`standard/`) | their filter group, decoder handles, the multiplex they were told of | handlers of PAT, PMT, SDT, VCT, NIT, TDT, MGT, STT | the cache follows the tables |
| tuning (`tuning.c`) | current service and multiplex, a lock | set service, set multiplex, retune | readers see a pair that belongs together; every group hears of the last multiplex |
| service filters (`servicefilter.c`) | service, PIDs, rewritten PAT and PMT, delivery method | set service, deliver a packet, PIDs updated | what is sent is one service's, with its own PAT and PMT |
| scanning (`cmd_scanning.c`) | a state machine, a list of multiplexes to do, timeouts | events of lock, tables and timer, cancel | every entry is visited once, the scan ends and gives the reader back |
| PSI assembly (`dvbpsi/`) | per PID a continuity counter and a section, per table the sections of a version, free buffers | push packet, push section | a decoded table is one that was sent; a buffer has one owner |
| descriptors, tables, dates, texts | none, but for the buffers of two converters | generate, decode, convert | what is generated is decoded again; nothing is read or written outside |
| events, objects (`events.c`, `objects.c`), events dispatcher | listeners; reference counts | fire, (un)register; ref, unref | listeners are told once and in order; freed once |
| EPG channel (`epgchannel.c`), EPG capture | listeners' queues; groups and decoders of the EPG tables | register, send; start, stop, restart | messages reach those registered; captured events are those on air |
| remote interface, commands, properties | connections; the lists of commands; a tree | execute a line; add, remove, list | a line is what was typed; nothing is used after the end |
| delivery methods, outputs | destination, buffers | open, send, close | an instance has one owner and is destroyed once |
| DSM-CC, CAM | sessions, caches of objects and modules | enable, tune, download; open, close, send PMTs | a session has what its service calls for; a module descrambles the program watched |
| set-up tools (`setup.c`, `convertdvbdb.c`, `parsezap.c`, `dvbctrl.c`) | none over time | | |

`PROJECT.json` lists each with its sources and what is modelled, and the places
where something can go wrong that a test would hardly reach (`hazards`).

### How they interact

The user's thread tunes: it disables the reader, loads the cache, writes the
parameters and a command for the input thread, sets the reader's change flag,
wakes the input thread and enables the reader.  The input thread carries the
tune out, hears of the lock, starts the demux filters, reads packets and gives
them to the filters in them; sections go to the processors' decoders, decoded
tables to handlers, handlers to the cache, the cache's updates to the deferred
thread, which writes the database and fires events.  Groups hear of a new
multiplex from a notification that is not ordered with the packets.

## Models

| module | models |
|---|---|
| `TSReader` | `ts.c` with the demux filters of `dvbadapter.c` |
| `JobQueue` | what `deferredproc.h` promises: the abstract specification of `DeferredProc` |
| `DeferredProc` | `messageq.c` and `deferredproc.c`; implements `JobQueue` |
| `Program` | start and end of the program with its loops, connections and EPG listeners |
| `Cache`, `ServiceTables` | `cache.c` over the statements of `services.c` and `multiplexes.c`; the handlers of PAT, SDT and VCT, tunes and restarts that call it |
| `Frontend` | the front end half of `dvbadapter.c` with the driver |
| `FileAdapter` | `fileadapter.c` |
| `Sections`, `Decoders`, `Psi` | packets to sections; sections to tables; one PID from the carousel to the decoders' callbacks |
| `SectionPool` | who holds the buffers of sections |
| `Tuning` | `tuning.c`; extended by the next two |
| `ServiceFilters` | `servicefilter.c`, `pmtprocessor.c`, the reader's notification |
| `Scanning` | `cmd_scanning.c` |
| `Deliveries` | instances of delivery methods, manual filters, outputs |
| `Streams` | headers, files and datagrams of a filter, announcements, destinations |
| `Descriptors`, `TableCoding` | descriptors bit by bit; the generators and decoders of tables |
| `Text` | DVB, Freesat and ATSC texts, XML |
| `Properties`, `Commands` | `properties.c`; `commands.c` with the startup file and the remote stream |
| `Carousel`, `DSMCC` | `libdsmcc`; the sessions of `plugins/dsmcc.c` |
| `CAM`, `Transport`, `Dialogs` | `cam.c` and the sessions of `en50221.c`; its transport layer; its menus and times |
| `EventsDispatcher` | `plugins/eventsdispatcher.c` over `events.c` |
| `Epg` | the capture of EPG tables (`dvbtoepg.c`, `atsctoepg.c`) and now/next |
| `MC...` | values for TLC; components that share nothing are parts of one `MC` module, and a behaviour is of one of them |
| `...Proofs` | theorems |

A definition whose comment says "Mutant of" is a plausible mistake in the code,
written down to show that a property notices.  A variable described as
"history", or named for what went wrong (`raced`, `overtaken`, `mixed`,
`crossed`, `forgotten`, ...), is no state of the program: it records that a
behaviour took one of the courses for which a property does not hold, so that
the property says exactly when it is excepted.  Each exception is necessary:
without it TLC finds the property violated.

A constant that only bounds the instance (`Max...`) says so where it is declared.

### TSReader

`listed[p]` is `reader->packetFilters[p]`: which owners, groups and the section
list of the PID, have a filter there; `doomed` those that are marked
`PACKET_FILTER_DISABLED` because they were removed while their list was being
delivered.  `sections[p]` are the groups with section filters on a PID,
`active` and `waiting` the two lists of section filter lists, `demux` the PIDs
with a slot of the adapter.  The packet loop is `StartPacket`, one `VisitFilter`
per filter and `FinishLoop`; between its steps, and inside callbacks, groups add
and remove filters.  The reader's mutex makes each call atomic, and the calls of
the other thread fall between batches, which adds no order the callbacks do not
have already.

Assumptions: a section callback does not remove the section list it was called
for (the code would free the list it then rotates; the processors remove their
filters in the events of a changed multiplex or structure, outside that loop).
A list holds one filter per owner; groups with several filters on a PID behave
like several groups.

| run | bounds | shows |
|---|---|---|
| `ReaderShared` | 2 PIDs, 2 groups, 1 demux filter, no hardware limit, set-up may fail | `NoCallAfterRemoval` |
| `ReaderFaulty` | 3 PIDs, 1 group, 2 demux filters, hardware restricted, no reserve, set-up may fail | `SectionListsConsistent`, `FiltersHaveSlots` |
| `ReaderRotation` | 4 PIDs, 1 group, 1 demux filter, set-up does not fail | `NoSlotLeaked`, `EveryListGetsATurn` |

Three PIDs and two demux filters are the least in which one list is active, one
waits and a group competes with both; two groups are the least that share a PID,
and promiscuous mode is reached without a limit only.  Only a restricted adapter's
slots are released (`DVBDemuxReleaseFilter`), so `FiltersHaveSlots` is checked on
one; for the others it is proved.  A failed set-up
(`DVBDemuxAllocateFilter` returning an error) is a choice of every allocation;
with it a slot stays taken, so `NoSlotLeaked` is about `FilterSetupMayFail`
FALSE.  `ReaderRotation` assumes that packets keep arriving on every PID with a
demux filter and that each brings a section to its end now and then
(`Broadcast`): that is the broadcaster's carousel, which repeats every table.

### DeferredProc and Program

`messages` and `quit` are the fields of the queue, `worker` is where the thread
is in `DeferredProcessingThread`, waiting for the condition variable included,
`main` how far `DeferredProcessingDeinit` is, `refs` how often a job's argument
is referenced by the queue.  Sending, receiving and setting the flag are atomic
under the queue's mutex; the wait is entered atomically with releasing it.  Jobs
are added by any thread, also from inside a running job, until the process ends.

`JobQueue` says: jobs wait in the order they were submitted, one runs at a time,
closing lets the running one finish, drops the rest and ends.  `KeepsPromise` is
that specification with its fairness under the refinement mapping, `KeepsOrder`
without.  A wake-up without a signal makes the thread read past the empty list
(`messageq.c:125`, an `if` where a `while` belongs), which the model turns into
a worker that is `crashed`; `KeepsPromise` is therefore conditional: as long as
every receive returns (`ReceiveReturns`) the progress of `JobQueue` holds.

`Program` has the main thread from the start of the loops to the last release,
the signal handler, both loops, and for each connection its thread from
`accept` to its end, executing one command at a time, among them the one that
listens to EPG messages.  Each command runs without a common lock.  A
connection that is accepted after main has counted them is `unawaited`; the list
is then freed under it.  So are all that are there when main's wait for the last
one ends by itself (`WakeEarly`): `remoteintf.c:281` waits in no loop, and a
condition variable may wake up without a signal.  `NothingFreedIsUsed` excepts
these two cases, and only these.

| run | bounds | shows |
|---|---|---|
| `Threads` | 4 jobs, wake-ups without a signal; 2 connections, 2 EPG messages | `QueuedJobsAreReferenced`, `DiscardedJobsAreReleased`, `KeepsOrder`, `KeepsPromise`; `NothingFreedIsUsed`, `ProgramEnds` |

Four jobs are a running one, one it adds, one that waits and one that comes
during the shutdown; two connections are one that ends while the other is
accepted.  The fairness is that each thread goes on when it can, and that a poll
of a connection returns after its 30 s; nobody has to add a job or type a
command.  A client that does not read what it is sent can block the end, so
clients read here.

### Cache and ServiceTables

`services` and `flags` are the parallel arrays of `cache.c`, `jobs` the deferred
updates, `db` the rows by multiplex and service, `multiplex` the one that is
cached.  Three abstractions: the eight `CacheUpdateService...` functions take
the same path, so a service has one field per table that tells it; finding a
service and updating it from one table entry is one step, because only the
input thread changes the arrays while packets are delivered; and a job is one
transaction that does not fail.  `cached` of a job says whether its object is
still the one in the cache: a job writes its value into the object too, and
objects that were deleted or reloaded are no longer looked at.

`ServiceTables` adds the handlers: `Begin` a table, one `Entry` per entry,
`Prune` for each service found in neither table, `Finish`.  The database thread
(`Writes`) runs in between.  The user's thread (`Tune`) does not: it disables
the reader first, which takes the mutex the handlers run under.  What it cannot
prevent is that the first packets after it are those of the multiplex before
(`onAir`, `Arrive`) and that the processors still have the old one (`told`,
`Notify`).  A table that is begun in that time is handled like any other;
`strays` remembers the services it listed for a multiplex it is not of.
`Restart` loses the queue and keeps the rows.

| run | bounds | shows |
|---|---|---|
| `Tables` | 2 multiplexes, 2 services, a table is begun when at most 1 job is left; 2 values, or 1 value and 2 tables that are begun before the reader has followed a tune | `WritebackConverges`, `ListedServicesStay`, `NoForeignServices` |

`MaxJobs` bounds the queue when a table is begun, so up to six jobs are queued
while it is handled.  `TunesWithJobs` FALSE excludes that a multiplex is loaded
while jobs for it are queued; the code does not exclude it, and with TRUE
`WritebackConverges` does not hold.  `MaxStale` bounds how many tables are begun
between a tune and its news; one is enough to list a service for the wrong
multiplex, to prune those of the right one, and for both to be repaired.  The
services of such a table do get under the multiplex tuned to, where
`NoForeignServices` excepts them by name (`strays`): nothing else puts a service
there.  Both are in the list of where code and comments part.

### Frontend and FileAdapter

`WriteParams` and `SendTune` are the two halves of `DVBFrontEndTune`, the
commands and events are handled one by one by `HandleTune`, `HandleActive`,
`HandleInactive` and `HandleEvent`.  The parameters are a frequency, which is
kept apart (`frontEndRequestedFreq`), and the rest of the property array, which
is read back from the device on every lock.  `OpenFilter` and `SetFilter` are
the two halves of `DVBDemuxAllocateFilter`.  The driver discards its events when
it tunes, reports the loss of the signal first, and drops the oldest event when
it has too many; that is how the code relies on it.

`FileAdapter` has the same calls over a file per frequency and a timer that
copies the packets whose PID has a slot into a pipe.  Its properties except what
the code cannot give: a file that could not be opened (`failed`), and a command
that was dropped because another was on its way (`unheard`).

| run | bounds | shows |
|---|---|---|
| `Frontend` | 2 multiplexes, 2 PIDs, 2 commands, 2 events; 3 frequencies of which 2 are listed, a file of 3 packets, 2 slots, a pipe of 2, 2 commands, 2 passes | `TunedAsRequested`, `FiltersStream`, `LocksInTheEnd`; `FileAdapterSound` |

`TunedAsRequested` excepts an event that is read between `DVBFrontEndTune` and
its command (`overtaken`), `FiltersStream` one that is handled in the middle of
an allocation (`raced`).  Two commands in the pipe and two events are the least
with which a command overtakes an event and an event is lost.  The fairness is
that of the input loop: libev watchers are level-triggered, so a command in the
pipe or an event in the driver is handled in the end.

### Sections, Decoders, Psi and SectionPool

`Sections` is `dvbpsi_PushPacket` with `dvbpsi_ValidPSISection`, `Decoders` the
`Gather` functions of all tables, both as operators; `Psi` puts them behind the
packets of one PID.  A section is cut into pieces of a size that does not
matter, the first of which has the header; a packet holds some pieces of one
section or several.  `Consumed` is the loop over a packet, with the way it finds
the next section after one that was complete, invalid or too long, and a
misread header may ask for any length of `Garbage`.  That a CRC fails is that
the pieces are not one section's; tables without one (the TDT) are not checked.
Sections that begin at a misread header are taken as invalid, although one
without the syntax indicator would reach a decoder and be discarded there.

The decoders differ in two ways only: whether they share the handle of a demux
(and with it `b_discontinuity`, the set `fresh`), and how they handle sections:
`gather` collects them until all are there, `segments` (the EIT, built with
`PROCESS_SINGLE_SECTION`) signals each and collects them to know when it has had
all, `texts` (the ETT) keeps a version per text, `times` signals every section.
A table keeps its number of sections.

The broadcaster repeats its carousel and may, between two rounds, change a table
or announce its next version; that and the faults (a packet lost, a packet
twice, the list back from its rest in the rotation) are bounded.  Fairness is
that packets go on arriving.

`SectionPool` follows the buffers: `made` and their `p_next`, the free list of
each handle, the section under way, and the arrays of the decoders.  What the
code leaks is `lost` and is told apart from what has two owners.

| run | bounds | shows |
|---|---|---|
| `PsiTables` | 2 tables of 2 and 1 sections, sections of 1 to 7 pieces in packets of 3, 1 change, 2 faults, a counter modulo 2, 3 versions; 7 buffers, 3 openings of filters, every kind of decoder beside another | `WholeTables`, `NothingMissed`, `LatestInTheEnd`; `BuffersOwned` |

A counter modulo 2 makes two lost packets an undetected loss, which takes
sixteen in the real stream, so that the CRC and the way back into the stream
after a misread header are exercised.  More changes than there are versions are
not covered: a decoder that misses as many keeps an old table for the new one.

### Tuning, ServiceFilters, Deliveries and Streams

A call of `Tuning` is the list of the steps its thread has still to take
(`todo`): whatever the code does between two locks, or reads again later, is a
step of its own, so the two threads interleave inside each other's calls.
`locked` is the flag a scan sets, tested when a call starts and never again.
`MultiplexFindUID` of a row that is gone is dereferenced all the same
(`crashed`).

`ServiceFilters` adds what happens to a filter: the user's commands (`addsf`,
`rmsf`, `setsf`, its options, `select`), the input thread's PMTs and the
notification of a changed multiplex and structure, which walks the groups
(`ForEach`) and calls each filter back (`Callback`).  `pids`, `chosen`, `patOf`
and `pmtOf` are what the filter forwards and rewrites; `info` is the program
information, in the cache or in its rows; `services` and `handles` are the PMT
processor's references and decoders.  Removing and adding packet filters are two
steps, and a filter two threads rebuild at once is `mixed`.  The PMT processor's
decoders are made one by one (`AttachPMT`) from what the cache's array holds by
then, as many as were counted before the cache was released
(`pmtprocessor.c:148`): the next entry may be of another multiplex by then, or
NULL, which crashes (`AttachNothing`).  That `rmsf` or `addsf` come while the
notification walks the groups (`ts.c:1000`, no lock) is excluded by a guard.

`Deliveries` is who owns an instance of a delivery method: a service filter, a
manual filter or an output, each changed by two commanding threads while the
packet loop delivers.  All service filters have one name, so do all manual
filters.  What a thread does is an `order`: the steps that are left (`todo`), the
filter or output, and the instances it has made or is to destroy.  Two threads at
one filter or output, or a change under the packet loop, are `crossed` and end a
behaviour, for then the code does destroy twice what it should destroy once.
`InstancesList` has no mutex (`deliverymethod.c:125`, 138; `list.c:80`, 177): of
two threads that change it at once one may lose its change
(`ChangeInstancesList`).  What such a list does afterwards is not followed:
`tangled` ends the behaviour, and of that state everything is claimed but what
the list holds.
`Streams` is what comes out: the header of a file, datagrams of
`MAX_TS_PACKETS_PER_DATAGRAM` packets with their sequence number, the
announcements of SAP sessions, and the taking apart of a destination's name.  The
digits of the hops are copied without an end to them (`udpoutput.c:223`), so the
number goes on with what is behind them in memory (`Behind`); host, port and name
are copied whatever their length (186, 200, 213), and once one has overrun its
buffer nothing more is claimed (`Overruns`).  A destination may be refused: no such
host, no memory, no socket.

| run | bounds | shows |
|---|---|---|
| `Filters` | 3 services on 2 multiplexes, the primary and one more filter, 3 commands; 2 threads, 2 outputs, 4 orders; 2 services with PMTs of 2 and 1 packets, 3 packets, 2 changes, 3 sessions, 5 announcements; hosts of up to 3 characters where there is room for 2, ports of 2 where there is for one, hops of up to 4 digits | `SettledFiltersFollow`; `DeliveriesOwned`; `StreamsSound` |

Three services on two multiplexes give a change with and one without a tune;
three commands are a selection, a change of the second filter and one that
comes while both are told of the first.

### Scanning

The commands run on the user's thread and fill the list; the machine runs on the
input thread, driven by the timer, the front end and the tables.  Transitions
that call one another are steps of one call, because tuning in between takes a
while.  An entry is a multiplex of the database or the parameter sets to try for
a frequency.  A row is named by its frequency; `identified` are the rows that
have the ids of their network and stream, set once the tables are complete.  A
NIT brings the same transponder once.  What a finished scan leaves in its list
is forgotten at `Finish`.

| run | bounds | shows |
|---|---|---|
| `Scanning` | a known and an unknown multiplex, with 2 and no programs, 2 parameter sets, time-outs of 1 tick, 2 entries, 2 commands among full and network scans, cancellations and selections | `ListedEntriesTried`, `ServiceRestored`, `FirstMultiplexComplete`, `ScanEnds` |
| `ScanNetwork` | one command, the database's multiplex and what its NIT announces | `EveryEntryTried` is violated |

`FirstMultiplexComplete` needs that no PAT lists more programs than there is
room for in `PMTsReceived` (`PATsFit`; `MAX_PMT_COUNT` is 253, the most a PAT of
one section can have).  Without it `PMTsRecievedFindOrAdd` finds no entry for the
programs beyond, `PMTCount` leaves them out, and the multiplex is taken for
complete when the others have been received.

The fairness of `ScanEnds`: both threads go on with a call they have begun, the
loop of the input thread comes to what was sent to it, and the timer, a libev
watcher that is started again after each tick, is handled however often other
events are (strong fairness, since each of them disables it for a moment).

### Descriptors, TableCoding, Text, Properties and Commands

A descriptor's payload has no values: a field is the piece of it that it is read
from or written to, so `GeneratedIsCarried` compares which bits the generator
and the decoder mean by a field, for every kind and every length up to a bound
that reaches the limits.  `StaysInside` is about what is read before the length
is checked, the arrays that keep the entries, and the walk of a table's decoder
through length fields that may say anything: every step of the walk records
what it has read last, an entry's header, a length, a descriptor, and where that
ends.  The descriptors for which they do not hold are named in `Divergent`,
`Unchecked` and `Overfull`.  What a table's decoder reads without a check is
named in `Overread`, each pair of which is needed, and `Leading` is what it
takes for granted at a table's start; so it is only the CAT, the SDT, a TOT's,
STT's and AEIT's descriptors, those of a PMT's streams, of a NIT and of an ATSC
table's entries that stay inside.

`Text` converts one text after another; what one conversion leaves for the next
(the open converter and its mutex, two buffers) is kept.  The Huffman tables are
replaced by a small tree.  `Properties` is the tree as it is linked; the names
are numbers.  Two threads change it: each looks up the place in a list first and
links or unlinks there in a later step, node by node for a path, as nothing locks
the tree (`properties.c:199`, 555).  `TreeIsKept` holds for all of this but for
two changes that meet (`met`): one has changed the place the other found, or one
reads or changes what the other is freeing; what is left of the lists then is not
followed.  The freeing of what is below a node, one node at a time, is the time
between the look-up and the unlinking, and a look-up itself is one step.
`Commands` has the cutting of a line, the look-up, the startup
file and the remote stream; a behaviour is about one of them.

| run | bounds | shows |
|---|---|---|
| `Coding` | payloads of 0 to 12, 248 and 252 to 255 bytes; sections of 40 bytes, payloads of 5, 8, 25 and 50; texts of up to 4 bytes or characters in every encoding, buffers of 6 and 9; paths of 2 names, 2 threads, 3 nodes; lines of up to 4 characters and commands with 5 more, 3 lists of commands, files of 3 lines, 3 lines of a client | `GeneratedIsCarried`, `StaysInside`, `TextsDecoded`, `PropertiesKept`, `CommandsUnderstood` |

### Carousel, DSMCC, CAM, Transport, Dialogs, EventsDispatcher and Epg

`Carousel` is `libdsmcc` from the download information to files on disk: modules
are listed, gathered and taken apart, directories wait until the way from the
gateway to them is known.  `FilesArrive` names what is lost, and the crash when
data comes for a file whose directory is not linked yet (`dsmcc-cache.c:789`);
blocks before the carousel's id is known are left out by `Block`'s guard, for then
the code follows an uninitialised pointer (`dsmcc-receiver.c:605`).  `DSMCC` is the plugin: a session for each filter it
was enabled for, download sessions counted by references, PIDs that are attached
while the service's multiplex is the current one.

`CAM` has the sessions of `en50221.c` and the CA PMTs of `cam.c` for slots whose
module is external and only keeps the programs it was told of; a transfer may
fail at any time.  `ModuleServed` is weak because the code is: the first PMT to
be descrambled crashes the program if a module has opened a CA session by then
(`cam.c:117` passes on `currentPMT`, which is NULL), so only a module that comes
after the PMT is served; and a zap between two scrambled programmes misleads it
(`cam.c:121`).  `Transport` is the layer below with answers that come late or
from another slot; `Dialogs` the menus and the date and time.

`EventsDispatcher` is the commands that add, change and remove listeners, each a
sequence of steps because finding, counting and removing a listener take locks
of their own, while events fire.  `Epg` is the capture: groups, decoders and
tables, two callers' commands, the packet loop, and what the listeners of the
channel get.  The front end is tuned some time after the multiplex has become the
current one (`FrontEndTuned`), so tables of the one before still arrive, and
`atsctoepg.c:235` notes the current one with them: a job keeps all three (`from`,
`current`, `noted`).  Now and next are apart from that: the packet loop writes a
table over a service's two events field by field (`ProcessPFEIT`, `WriteOn`) and
a command reads them field by field (`CommandNow`, `PrintEvent`), with no lock
between them (`dvbtoepg.c:363`, 666).  What is printed while a table is written
may be of any events (`torn`), and `NowNextAgree` says so; it is about what was
printed between two.

| run | bounds | shows |
|---|---|---|
| `Plugins` | 4 modules of which one has 2 blocks, 2 changes; 2 filters, 2 services on 2 multiplexes, 2 PIDs, 3 downloads; 1 slot, 3 programs, 3 resources, 3 sessions; 2 retries, 2 late answers, 4 dialogues; 2 clients, 2 listeners of one name, 1 filter, 2 events; 2 multiplexes with 2 tables and one, 2 callers, alike by symmetry; tables of up to 2 of 2 events, one command that prints | `FilesArrive`, `SessionsServed`, `ModuleServed`, `LinkSound`, `ListenersServed`, `CaptureSound` |

Two directories that wait for one parent are the least in which only the first
is attached; two listeners of one name exist when both clients have found it
unused.

## Proofs

TLC has checked each inductive invariant below on its run's instance before it
was proved.  The assumptions are those the modules name (`...Assumption`): what
the constants are, and nothing about the environment.

| theorem | module | says, for every value of the constants |
|---|---|---|
| `TypeCorrect`, `SectionListsAreConsistent`, `FilteredPidsHaveSlots`, `SlotsSuffice` | `TSReaderProofs` | the types; a section filter list is in one queue, and active while it owns a packet filter; a filtered PID has a demux filter; never more of them than there are |
| `RemovedFiltersStaySilent` | | no step calls an owner back that has removed its filter (an action property) |
| `NoSlotIsLeaked` | | the demux filters in use are those of filtered PIDs, if `FilterSetupMayFail` is FALSE |
| `TypeCorrect`, `ArgumentsAreHeld`, `NeverReadsPastTheEnd`, `NothingLeavesHeld` | `ThreadsProofs` | the types; each waiting or running job's argument is referenced once; no read past the end without spurious wake-ups; what is dropped at the end is released |
| `ImplementsJobQueue` | | `DeferredProc` refines the safety part of `JobQueue` |
| `NothingIsUsedAfterwards` | | nothing that main has freed is used, unless a connection was accepted after main had counted them or main's wait for the last one ended by itself |
| `TypeCorrect`, `ServicesStayHome` | `ServiceTablesProofs` | the types; rows stay under their multiplex, but for services that a table of the multiplex before lists after a tune |
| `CacheAndRowsMeet`, `ListedStay` | | once the jobs have run, cache and rows agree, if `TunesWithJobs` is FALSE; a service that a table lists is not deleted |
| `TypeCorrect`, `TunesAsRequested`, `FiltersAlwaysStream` | `FrontendProofs` | the types; the device has what was asked for last; every allocated filter streams after a lock; each but for its race |
| `FilesPlayAsAsked` | | the file adapter plays what was asked for, is open when it should be, sends each packet once and in order |
| `FiltersFollow` | `ServiceFiltersProofs` | once things are quiet every filter forwards and names what its service calls for, and the PMT processor watches the cached multiplex, unless it has found an entry of the array NULL and crashed |
| `DeliveriesAreOwned` | `DeliveriesProofs` | unless commands cross: an instance of a delivery method has one owner until it is destroyed, once, and is not used after that; an output is freed when no instance refers to it; the list of instances holds those that there are, unless two threads have changed it at once |
| `EntriesTried` | `ScanningProofs` | a scan nobody cancels has tuned to every entry its list had at the start |
| `Restored` | | after a scan the reader is on for the multiplex of the current service, unless a selection and the scan have tuned at once |
| `FirstIsComplete` | | the first multiplex of a scan is only left as complete with the PMTs of all its programs, if `PATsFit` (an action property) |
| `SessionsAreServed`, `ModulesAreServed`, `ListenersAreServed` | `PluginsProofs` | DSM-CC sessions, CA modules and event listeners get what they are to get; a CA module only if it comes after the PMT, for `cam.c:117` crashes otherwise |
| `LinkIsSound` | | the messages of a CA module come in order, each once; without late answers no module is reset; its dialogues and times are kept, freed and answered |
| `CaptureIsSound` | | one group captures all that is on the air, no section reaches a decoder that is gone unless commands meet; an event is announced for its own multiplex, with ATSC for the one current when its table was decoded; what is shown is of one event unless a table is written over it meanwhile |

For each condition on a constant (`FilterSetupMayFail`, `TunesWithJobs`,
`SpuriousWakeups`, `PATsFit`) the section on the model says what becomes
of the property without it.

### The arguments

*Reader.* `IInv` is the types, the consistency of the two section queues with
`sections` and `listed`, every listed filter's PID having a slot, the number of
slots, and where the packet loop stands.  The consistency alone is not
inductive: that a list which is moved between the queues loses and gains exactly
one filter needs that the two queues are disjoint and duplicate-free, and that a
filter of a section list is listed exactly while the list is active.
`NoCallAfterRemoval` follows from the same invariant, step by step.
`NoSlotLeaked` needs one more: outside promiscuous mode the slots used are those
of PIDs with filters, at every step of a rotation.

*Queue.* The invariant relates where the thread is, what it holds, the two flags
and the sequence of messages; the refinement maps a submitted job to a message,
and each step to one of `JobQueue` or to none.

*End of the program.* `ListIsThreads` (the list of connections is that of the
threads that have not unlinked themselves), `FreedInOrder` (what main has freed
follows from where it stands), `LoopOnMain` and `Counted`: who is in the list
when main waits for it to be empty.

*Cache.* `ServicesStayHome` is not inductive alone: the row a job adds was
decided when it was queued, so the invariant (`Own`) says of every queued
addition that a table of its multiplex lists the service, and of the table being
handled that it is one of the cached multiplex.  `CacheAndRowsMeet` compares the
cache with the rows *after the queued jobs*: the value a row will have is that of
the last job that writes it.  "Last" is a least number of steps from the end, so
the proof goes by the least-number principle (`WFMin` of the library) where an
induction over the queue would be expected.

*Front end.* `TunesAsRequested` follows what the three copies of the parameters
(what the caller wrote, what the property array holds, what the device has) may
be at each length of the pipe; `FiltersAlwaysStream` needs that a lock cannot be
seen between opening a filter and deciding whether to start it.  *File adapter:*
`FileIInv` is the types, which file plays (`Playing`), what the last commands in
the pipe ask for (`LastAsAsked`), the order of the packets in the pipe by pass
and position (`PacketsReadInOrder`), the slots they passed (`PacketsPassed`) and
`SlotsApart`.

*Service filters.* A filter that is not as it should be has something still to
come that puts it right.  What may be in a thread's list of steps, and which
step goes with which, is said first (`Formed`: a rebuilding opens with removing
and closes with adding, the notification names the filters that are left); then
for each part of the state what it is if nothing that changes it is under way
(`CacheInStep`, `ServicesInStep`, `HandlesInStep`, `TablesNamed`,
`ChosenInStep`, `PidsInStep`), and `OneRebuilds`: but for a `mixed` filter only
one thread is between its two steps.  While decoders are made and no change of
multiplex is still to be told, those made are some of the cached services; so
when they are as many as the services that were counted they are all of them,
which takes that there are finitely many.

*Deliveries.* That the holders of an instance are as many as its entries in the
list (`Counted`) is not inductive alone.  `Fits` says for each step that may be
next what its thread has in hand: the filter or output, whether that is listed,
and what was made for it; so whoever is to destroy an instance is one of its
holders.  While nothing has crossed no two threads are at one thing (`Alone`), a
filter without an instance has somebody who brings one (`FiltersKnown`), an output
counts exactly those who refer to it (`Referred`), and the packet loop has read
an instance that is there (`PacketKnown`).  A step takes at most one filter, one
output and one thread into the holders of an instance or out of them
(`HeldChanges`), which makes the count of each action a comparison of three sets.
The proof needs no bound on the number of orders.

*Scanning.* `ScanKnown` has four parts.  `CallsFit`: which step may follow which
in a call of either thread, and with which a call may end; so what a thread will
still do follows from its next step.  `StateFits`: what the state of the machine
says of the input thread's call.  `ListTyped`: the list and the place in it.
`EntriesFine`: every entry before the next is tuned to or has nothing to try,
but for the one whose first parameters are still to come; `EntriesTried` is this
at the end of the list.  `RestoreKnown` adds, while the two threads have not
tuned at once and nothing has crashed: only one of them tunes (`OneTunes`), what
is cached, current and tuned follow each other step by step (`CacheFollows`), a
scan under way leads back to the current service (`Returns`), and from the end
of one to the next the front end stays with it (`Returned`).  `FirstKnown` is
about the first multiplex: the machine has the lock while it visits multiplexes
and has noted nothing before the first (`Visited`), nobody selects while it waits
for tables (`UserWaits`), and then `PMTsReceived` has the programs of this
multiplex only, each once, those marked whose PMTs have come, while `PMTCount`
is no less than their number or what no number reaches (`FirstFits`).  That this
number never exceeds that of the programs counts an injection into a finite set.

*DSM-CC.* `DSMCCIInv`: download sessions are made in order, attached as the tune
that was told says (`AttachedAsTuned`), and one that is not shared belongs to one
filter and has its service (`OwnedAlone`).  *CAM:* the sessions of the table,
those the module takes for open and those it has yet to confirm the closing of
are kept apart, and what a module was told of is the current program unless it
was misled; a session still to be closed is open or crossed (`OwedAreOpen`), so
that a crash is one of those the property names.  *Dispatcher:* `DispatcherIInv`: `Registered`,
`ToldInOrder` and `DueIsQueued` for the events, and `ListedOnce` and `Counted`
(the references of a listener are those of the list and of the commands that have
found it).

*Link to a module.*  `TransportIInv`, slot by slot: a module that is not connected
has nothing pending (`GoneIsEmpty`), and one that is, is plugged in and its slot
open, but while the reply to `CREATE_TC` is waited for (`LinkedIsOpen`); of that
reply there is at most one, and all other answers that nobody has read tell the
state only, so that each that says there is data is still true: nothing but a
request for data takes any away (`OldAnswers`).  Hence data is asked for when there
is some, and its number is the next.  While no answer was late all queues are
empty between two requests, and every request gets its own answer.
`DialogsIInv`: the pointers that the type of the object frees are held
(`HeldAsTyped`) unless a menu came with less than three texts; the texts kept are
those meant (`TextsAreMeant`); no poll has gone by an interval (`TimeIsGiven`).
`LinkSpec` leaves the order in which the two layers act open.

*Capture.*  `CaptureFollows` only speaks of the moments when no command is under
way; `CaptureInv` says what holds between its steps.  What may remain of a command
is one of nine lists (`Remains`).  A group that is noted is there, unless a stop
that destroyed it has yet to note so (`NotedExists`); from there to its end no
group is made, and none is left (`NoOther`).  `DecodersLive`, as long as nothing
has met a command halfway: every filter has a decoder that is attached, so have the
tables until a command detaches them, for which its group's filters are removed
first; and no other group has one of theirs, so that detaching them ends nobody
else's.  That a fresh decoder is nobody's is a lemma about `Fresh` (`FreshAre`), as
is that the parts of a text can be put in order (`Sorting`): both count, by the
least-number principle.  `Announced`: each waiting job, and the last that was announced, has noted what is to be reported for it.
`NowNextInv`: between two tables each of the two events is whole, or has lost its
name; and what a command has printed while none was written is of the event it
prints (`WrittenIsWhole`: a table leaves whole events behind).

### What is only model-checked

- Liveness (`EveryListGetsATurn`, `KeepsPromise`, `ProgramEnds`, `LocksInTheEnd`,
  `LatestInTheEnd`, `ScanEnds`): temporal reasoning under fairness and `ENABLED`
  are beyond TLAPS 1.4.
- `WholeTables`, `NothingMissed`, `BuffersOwned`, `FilesArrive`,
  `GeneratedIsCarried`, `StaysInside`, `TextsDecoded`: their modules compute with
  recursive definitions and folds over packets, buffers and bytes, about which an
  induction would be needed that none of the provers can do.
- `PropertiesKept`, `CommandsUnderstood`, `StreamsSound`: their modules select and
  reorder with the sequence operators of the community modules (`SelectSeq`,
  `FlattenSeq`, `SetToSortSeq`), with the same obstacle.

## Where code and comments part, and what the code does not promise

`findings` has the one a run shows.  The others were met while modelling; the
properties name them as exceptions, a constant excludes them, or they lie
outside what is modelled.

Reader and adapter
- `ts.c:59` reserves PIDs for section filters, `ts.c:565` compares with the
  number of PIDs in use and so never holds all of the reserve; a section list
  that should give way (`ts.c:579`) is not reached when that test has failed.
- Promiscuous mode (`ts.h:252`) is switched on even if allocating the filter for
  all PIDs failed (`ts.c:507`).
- A failing `DMX_SET_PES_FILTER` (`dvbadapter.c:1172`) leaves the slot taken.
- A waiting section list starves as long as the active ones' PIDs are shared
  with other filters (`ts.c:977`).
- A filter allocated while a lock is handled may not be started
  (`dvbadapter.c:1160`), and closing the front end leaves it reported as locked
  (`dvbadapter.c:1334`).  An event read between a tune and its command reads the
  parameters back from the device (`dvbadapter.c:1420`), against
  `dvbadapter.h:148`.
- File adapter: the descriptor replaced by a retune is never closed, so opening
  fails in the end; a frequency without a description leaves the old file open
  and the timer stopped; a command dropped because the opposite one is in the
  pipe is lost; `demuxFd` 1 marks a used filter and `ReleaseAllFilters` closes
  it, which is the standard output; unrestricted adapters release only PID 8192;
  a failed `DVBInit` closes descriptor 0.

Threads
- A job added during shutdown keeps the reference taken for it
  (`deferredproc.c:90`).  A wake-up without a signal reads past an empty queue
  (`messageq.c:125`).  A nanosecond overflow lets the timed receive return early
  (`messageq.c:153`), which its caller does not notice.
- Remote commands of two connections run without a common lock.  The end of the
  remote interface starts its watcher where it should stop it
  (`remoteintf.c:263`); setting `sys.rc.username` or `password` sets the streamer's
  name (`remoteintf.c:236`).  The initial "scan all" of a program that is to end
  only queues the scan and removes what it needs (`main.c:480`).

Cache and tables
- A service gone from PAT and SDT stays if it was loaded after one of the two was
  last heard (`cache.h:205`, `cache.c:710`).
- `CacheWriteback` writes nothing (`cache.h:64`, `tuning.c:219`): a multiplex that
  is loaded again is read from rows which queued jobs have yet to change, and
  cache and rows disagree until the tables change (`TunesWithJobs`).
- Tables of the multiplex before are taken for those of the new one
  (`patprocessor.c:147`, `cache.h:57`; `strays` in `ServiceTables`).
- `sdtprocessor.c:176` compares with a name that the deferred thread may be
  freeing (`services.c:205`); `services.h:53` promises the Deleted event before
  the service is gone from the database.
- `cachedServices`, `cachedPIDs` and `cacheFlags` have 256 entries and nothing
  compares with that (`cache.c:708`).

PSI
- The segments of an EIT may leave gaps in the section numbers, so after a lost
  section at such a place the table counts as complete (`eit.c:461` to 467 calls
  the test the only way to be sure), and the section is not decoded before the
  next version.
- A decoder's `b_discontinuity` is set when it is attached and never again: the
  decoders get clones of sections (`ts.c:856`) that another handle put together,
  so the check for discontinuities (`pat.c:235`) only ever finds the first
  section.  For that other handle the flag is never cleared, so the branch for
  repeated packets (`dvbpsi.c:71`) is not taken and a repeated packet costs the
  section under way.
- A table that was announced is signalled when it is announced, as if in use,
  and signalled with no entries when it comes into use: `current_pat` is copied
  before the sections are decoded (`pat.c:355`), in every decoder alike.
- Buffers: detaching PAT, PMT and CAT frees only the heads of sections
  (`pat.c:112`); the end of an EIT's round drops sections without releasing them
  (`eit.c:506`); a section without the syntax indicator is not released by the
  STT (`atsc_stt.c:214`).
- Descriptors: 0x4d and 0x4e take inner lengths a byte early, 0x55 and 0x56
  generate with a stride of 8, 0x59 takes the length modulo 255; 0x02, 0x43 and
  0x5a check the length late or never; 0x59, 0x73 and 0x76 take more than their
  arrays hold; the generators of PMT and SDT drop an entry's last descriptor
  rather than open a section.
- Sections: a PAT's program is 4 bytes where one is left (`pat.c:398`); an entry
  of a VCT, MGT or ATSC EIT is 32, 11 or 10 bytes and a title where 7 or 5 are
  left (`atsc_vct.c:562`, `atsc_mgt.c:518`, `atsc_eit.c:497`); a NIT's second
  length is read wherever its first loop has ended, and 6 bytes of a transport
  where 2 are left (`nit.c:447`, `nit.c:452`); so are the lengths behind the
  entries of a VCT and an MGT (`atsc_vct.c:608`, `atsc_mgt.c:549`).  The
  descriptors behind those, a PMT's own and an EIT's end where their length says
  (`pmt.c:475`, `eit.c:595`); what comes before the first entry of any table is
  read from however short a section.
- Texts: a character set that `iconv` does not know leaves the mutex locked
  for ever (`dvbtext.c:220`); the substitute for ISO 6937 strips only the text
  that opens it; ATSC's mode 0xff and its Huffman codes go through the wrong
  converter.

Tuning, filters and deliveries
- `tuning.c:137` does not tune to a service of the current multiplex, although a
  scan has moved the front end elsewhere (`tuning.h:34`).
- A filter two threads rebuild at once may keep PIDs of both (`mixed`).
- The PMT processor reads the cache's array after it has released the cache
  (`pmtprocessor.c:150`): while `CacheLoad` clears it, or when the next multiplex
  has fewer services, the entry is NULL and is dereferenced; otherwise some
  decoders have no reference to their service until the change is told.
- Nothing locks the list of instances (`deliverymethod.c:125`, 138): two
  connections that change the destinations of different filters can lose an
  entry, which is then not destroyed at the end, or link one that is freed.
- `CommandSetOutputMRL` locks its mutex twice when the destination can be made
  (`manualfilters.c:281`), which stops every later command about manual filters
  and the end of the program; `CommandListMF` passes the filter for its instance
  (255); two replacements at once destroy an instance twice
  (`servicefilter.c:304`, `outputs.c:352`); an output whose destination is an
  output stops the packet loop; at the end the outputs' instances are destroyed
  twice (`main.c:537`).  The help names properties and prefixes that are not
  those of the code.
- The header of a file may be of another service, or the rest of a section, until
  a whole PMT has passed since the last change (`servicefilter.c:374`); the last
  packets short of a datagram are lost; a deleted session is freed before its
  packet is made (`sap.c:285`).
- Of a UDP destination the hops may be followed by digits that were never given
  (`udpoutput.c:232`), and a long host, port or session name is written past its
  buffer (186, 200, 213, 492).  Not modelled: errors of `setsockopt` and
  `sendto`, which the code ignores, and the text of the session's description
  beyond the name.

Scanning
- The network scan of the finding; a retune dereferences a row that the scan has
  removed (`tuning.c:184`); without a current service the reader stays as the
  scan left it; PMTs of the multiplex before are counted for the next one; a
  cancellation is remembered for the next full scan (`cmd_scanning.c:636`); the
  symbol rates of DVB-C overwrite each other; a transponder list is used after
  another scan has freed it; the help's time-out of 5 s is 30 and 60 s.

Commands and properties
- `#` cuts a line even in quotes; an unclosed quote reads behind the line; more
  than ten words are dropped silently; a line of 255 characters of the startup
  file is executed as several; of two lines that arrive together an answer is
  lost and the connection ends (`dvbctrl` waits for each answer).
- Nothing keeps two connections' `addsf` and `rmsf` from changing the tree of
  properties at one place at once (`properties.c:199`, 555): nodes are lost, or
  linked to what is freed.
- `cmd_scanning.c:377` and 379 register one name twice, so the lock time-out of
  DVB-C cannot be set; removing the first child of a property dereferences NULL
  (`properties.c:157`), which nothing does; a PID property takes text for what
  was in a variable (`properties.c:411`).

Plugins
- Carousel: data of a file in an unknown directory crashes
  (`dsmcc-cache.c:789`); a block of a carousel that is not known is followed
  through an uninitialised pointer (`dsmcc-receiver.c:605`); only the first waiting directory is attached; a module
  that is being replaced carries a pointer of the one before
  (`dsmcc-receiver.c:640`).  DSM-CC: a download session that is found gets no
  reference (`dsmcc.c:374`); PIDs that are not known when it is enabled are never
  added.
- CAM: with a session open the first PMT to be descrambled crashes the program
  (`cam.c:117` adds the previous PMT, NULL), one of another program is sent as an
  update, programs are counted again for each CA_INFO; half-opened
  sessions keep their resource (`en50221.c:485`); a crossing close frees data
  twice.  Transport: a late answer is taken for that to the next request until
  the slot is reset.  Dialogs: a menu with fewer than three texts frees what it
  never had.
- Dispatcher: two clients that remove a listener release it twice, removing an
  unknown filter keeps a reference for ever, the list of filters is walked
  without its lock.
- EPG: a restart forgets the tables until the next MGT (`atsctoepg.c:308`), two
  starts lose a group, now/next keeps the previous description (a `memset` of the
  size of another type, `dvbtoepg.c:664`); a table of the multiplex before that is
  decoded after a tune is announced for the new one (`atsctoepg.c:235`); what now and
  next print while a table is written is a mixture (`dvbtoepg.c:363`, 666).  The
  list of services is read without a lock as well, which is not modelled.

## Not modelled

`PROJECT.json` says for each component what is left out.  Throughout: reference
counts outside the deferred queue, DSM-CC and the dispatcher, memory that runs
out, contents of tables beyond what the properties tell apart, logging,
statistics.  The set-up tools and `dvbctrl` are sequential programs with no
state over time.  `info` commands only print.  Known hazards without a property:
the lock cycle above, the 256 entries of the cache, and the gaps of an EIT's
segments.

## Left to do

A model of the lock order over reader, cache, events and sessions would cover the
hazard that has no property.
