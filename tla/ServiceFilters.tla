---------------------------- MODULE ServiceFilters ----------------------------
(***************************************************************************)
(* The service filters (servicefilter.c) and the PMT processor             *)
(* (pmtprocessor.c) on top of Tuning, with the reader's notification of a  *)
(* change of multiplex and of structure (ts.c).                            *)
(*                                                                         *)
(* A filter is rebuilt from three sides: by the user who changes its       *)
(* service, by the notification and by an update of the program info.     *)
(* Removing the old packet filters and adding the new ones each take the   *)
(* reader's mutex; what lies between, and the notification as a whole,     *)
(* does not have it.                                                       *)
(***************************************************************************)
EXTENDS Tuning, SequencesExt

CONSTANTS Primary,        \* the filter of the current service
          Secondary,      \* filters that addsf and rmsf create and destroy
          Stream,         \* elementary streams of a service, its PCR included
          FirstOfKind,    \* those a filter for A/V/S only takes if it finds them
          Infos,          \* per service the sets of streams its PMT may list
          MaxCommands     \* bound: commands other than addsf

Filter == {Primary} \cup Secondary

ASSUME FiltersAssumption ==
  /\ IsFiniteSet(Service)
  /\ Primary \notin Secondary /\ None \notin Filter
  /\ FirstOfKind \subseteq Stream
  /\ Infos \in [Service -> SUBSET SUBSET Stream]
  /\ MaxCommands \in Nat

VARIABLES
  exists,     \* the filters, in the order of their groups
  service,    \* per filter its service
  avsOnly,    \* per filter: audio, video and subtitles only
  pids,       \* per filter the PIDs it has packet filters on
  chosen,     \* per filter the PCR, video, audio and subtitle streams
  patOf,      \* per filter the service its rewritten PAT names
  pmtOf,      \* per filter the service of the PMT in its header packets
  info,       \* per service the program info, in the cache or in its rows
  services,   \* the services the PMT processor has references to
  handles,    \* the services whose PMT it has a decoder for
  heard,      \* services whose PMT was handled since the cache was loaded
  mixed,      \* filters two threads were rebuilding at the same time
  lost,       \* a change was announced while another was being told
  commands    \* such commands given so far

filters == <<exists, service, avsOnly, pids, chosen, patOf, pmtOf>>
tables  == <<info, services, handles, heard>>
vars    == <<tuning, filters, tables, mixed, lost, commands>>

\* A PID is named by the service and the stream it carries.
PidPAT      == <<None, "PAT">>
PidPMT(s)   == <<s, "PMT">>
PidsOf(s, streams) == {PidPAT, PidPMT(s)} \cup {<<s, k>> : k \in streams}

Existing == ToSet(exists)

ServicesOf(m) == {s \in Service : MuxOf[s] = m}

\* CacheProgramInfoGet finds nothing for a service that is not in the cache.
ProgramInfo(s) == IF cached = MuxOf[s] THEN info[s] ELSE {}

-----------------------------------------------------------------------------
(* The steps a filter is rebuilt in.                                       *)

\* ServiceFilterServiceSet.
ServiceSetSteps(f, s) ==
  IF s = None THEN <<<<"drop", f>>, <<"assign", <<f, s>>>>>>
  ELSE <<<<"drop", f>>, <<"assign", <<f, s>>>>, <<"check", f>>>>

\* The step begins to rebuild f, or is one of rebuilding it.
Begins(step, f) == step = <<"drop", f>> \/ (step[1] = "callback" /\ step[2][1] = f)

About(step, f) ==
  \/ step[1] \in {"avs on", "avs off", "rewrite", "rewrite PMT", "check", "add"} /\ step[2] = f
  \/ step[1] = "assign" /\ step[2][1] = f

\* t is between removing the filters of f and adding them again.
Rebuilding(t, f) ==
  \E i \in 1..Len(todo[t]) :
    About(todo[t][i], f) /\ \A j \in 1..i : ~Begins(todo[t][j], f)

\* TSFilterGroupRemoveAllFilters.
RemoveAllFilters(t, f) ==
  /\ MayLock(t)
  /\ pids' = [pids EXCEPT ![f] = {}]
  /\ mixed' = IF \E o \in Thread \ {t} : Rebuilding(o, f)
              THEN mixed \cup {f} ELSE mixed \ {f}
  /\ UNCHANGED <<enabled, held, currentService, currentMultiplex, cached, locked,
                 tunedTo, rows, changed, crashed, exists, service, avsOnly, chosen,
                 patOf, pmtOf, tables, lost>>

Drop(t) ==
  \E f \in Filter : Doing(t, "drop", f) /\ RemoveAllFilters(t, f) /\ Then(t, <<>>)

\* ServiceFilterFilterEventCallback.
Callback(t) ==
  \E f \in Filter, structure \in BOOLEAN :
    /\ Doing(t, "callback", <<f, structure>>)
    /\ RemoveAllFilters(t, f)
    /\ Then(t, IF structure THEN <<<<"rewrite", f>>, <<"check", f>>>> ELSE <<<<"check", f>>>>)

\* What the steps below leave alone.
OnlyTables == UNCHANGED <<enabled, held, currentService, currentMultiplex, cached, locked,
                          tunedTo, rows, changed, crashed, exists, pids, tables, mixed,
                          lost>>

\* ServiceFilterPATRewrite and ServiceFilterPMTRewrite of f for service s.
RewritePAT(f, s) == patOf' = [patOf EXCEPT ![f] = s]

RewritePMT(f, s) ==
  /\ chosen' = [chosen EXCEPT ![f] = ProgramInfo(s) \cap FirstOfKind]
  /\ pmtOf' = [pmtOf EXCEPT ![f] = s]

\* The middle of ServiceFilterServiceSet.
Assign(t) ==
  \E f \in Filter, s \in Service \cup {None} :
    /\ Doing(t, "assign", <<f, s>>)
    /\ service' = [service EXCEPT ![f] = s]
    /\ IF s # None THEN RewritePAT(f, s) ELSE UNCHANGED patOf
    /\ IF s # None /\ avsOnly[f] THEN RewritePMT(f, s) ELSE UNCHANGED <<chosen, pmtOf>>
    /\ Then(t, <<>>)
    /\ UNCHANGED avsOnly
    /\ OnlyTables

\* The middle of ServiceFilterAVSOnlySet.
AssignAVSOnly(t) ==
  \E f \in Filter, on \in BOOLEAN :
    /\ Doing(t, IF on THEN "avs on" ELSE "avs off", f)
    /\ avsOnly' = [avsOnly EXCEPT ![f] = on]
    /\ IF service[f] # None /\ on THEN RewritePMT(f, service[f])
       ELSE UNCHANGED <<chosen, pmtOf>>
    /\ Then(t, IF service[f] = None THEN <<>> ELSE <<<<"check", f>>>>)
    /\ UNCHANGED <<service, patOf>>
    /\ OnlyTables

\* The tables after a change of structure.
Rewrite(t) ==
  \E f \in Filter :
    /\ Doing(t, "rewrite", f)
    /\ IF service[f] # None THEN RewritePAT(f, service[f]) ELSE UNCHANGED patOf
    /\ IF service[f] # None /\ avsOnly[f] THEN RewritePMT(f, service[f])
       ELSE UNCHANGED <<chosen, pmtOf>>
    /\ Then(t, <<>>)
    /\ UNCHANGED <<service, avsOnly>>
    /\ OnlyTables

\* ServiceFilterPIDSUpdatedListener compares the service and rebuilds.
PidsUpdated(t) ==
  \E f \in Filter, s \in Service :
    /\ Doing(t, "updated", <<f, s>>)
    /\ Then(t, IF service[f] = s
               THEN <<<<"drop", f>>, <<"rewrite PMT", f>>, <<"check", f>>>> ELSE <<>>)
    /\ UNCHANGED <<service, avsOnly, chosen, patOf, pmtOf>>
    /\ OnlyTables

PidsUpdatedRewrite(t) ==
  \E f \in Filter :
    /\ Doing(t, "rewrite PMT", f)
    /\ RewritePMT(f, service[f])
    /\ Then(t, <<>>)
    /\ UNCHANGED <<service, avsOnly, patOf>>
    /\ OnlyTables

\* Mutant of CheckMultiplex: a service of another multiplex is filtered too.
CheckNoMultiplex(t) ==
  \E f \in Filter :
    /\ Doing(t, "check", f)
    /\ Then(t, IF /\ currentMultiplex # None
                  /\ service[f] # None
               THEN <<<<"add", f>>>> ELSE <<>>)
    /\ UNCHANGED <<service, avsOnly, chosen, patOf, pmtOf>>
    /\ OnlyTables

\* ServiceFilterAllocateFilters up to the mutex: nothing is filtered unless the
\* service is one of the current multiplex.
CheckMultiplex(t) ==
  \E f \in Filter :
    /\ Doing(t, "check", f)
    /\ Then(t, IF /\ currentMultiplex # None
                  /\ service[f] # None
                  /\ MuxOf[service[f]] = currentMultiplex
               THEN <<<<"add", f>>>> ELSE <<>>)
    /\ UNCHANGED <<service, avsOnly, chosen, patOf, pmtOf>>
    /\ OnlyTables

\* The rest of it, which reads the service again; a PID that the group filters
\* already is not added twice.
AddFilters(t) ==
  \E f \in Filter :
    /\ Doing(t, "add", f)
    /\ MayLock(t)
    /\ pids' = [pids EXCEPT ![f] = @ \cup
                   PidsOf(service[f], IF avsOnly[f] THEN chosen[f]
                                      ELSE ProgramInfo(service[f]))]
    /\ Then(t, <<>>)
    /\ UNCHANGED <<enabled, held, currentService, currentMultiplex, cached, locked, tunedTo,
                   rows, changed, crashed, exists, service, avsOnly, chosen, patOf, pmtOf,
                   tables, mixed, lost>>

-----------------------------------------------------------------------------
(* The PMT processor.                                                      *)

\* Its callback: everything is given up, references to the cached services are
\* taken, and the cache is released ...
TakeServices(t) ==
  /\ Doing(t, "services", None)
  /\ services' = ServicesOf(cached)
  /\ handles' = {}
  /\ Then(t, <<>>)
  /\ UNCHANGED <<enabled, held, currentService, currentMultiplex, cached, locked, tunedTo,
                 rows, changed, crashed, filters, info, heard, mixed, lost>>

\* The decoders made so far are fewer than the services that were counted.
MoreToAttach == Cardinality(handles) < Cardinality(services)

\* Another thread is in CacheLoad, which first clears the array.
ArrayIsCleared(t) == \E o \in Thread \ {t}, m \in Mux : Doing(o, "load", m)

\* ... before the decoders are made, one by one, each from the next entry that the
\* cache's array has by then: no mutex keeps the cache from being loaded meanwhile.
AttachPMT(t) ==
  /\ Doing(t, "attach", None) /\ MoreToAttach
  /\ MayLock(t)
  /\ \E s \in ServicesOf(cached) \ handles : handles' = handles \cup {s}
  /\ UNCHANGED <<tuning, filters, info, services, heard, mixed, lost>>

\* An entry that was cleared, or of fewer than there were, is NULL.
AttachNothing(t) ==
  /\ Doing(t, "attach", None) /\ MoreToAttach
  /\ Cardinality(handles) >= Cardinality(ServicesOf(cached)) \/ ArrayIsCleared(t)
  /\ Crash(t)
  /\ UNCHANGED <<filters, tables, mixed, lost>>

\* As many as were counted.
AttachedPMTs(t) ==
  /\ Doing(t, "attach", None) /\ ~MoreToAttach
  /\ Then(t, <<>>)
  /\ UNCHANGED <<enabled, held, currentService, currentMultiplex, cached, locked, tunedTo,
                 rows, changed, crashed, filters, tables, mixed, lost>>

-----------------------------------------------------------------------------
(* The reader.                                                             *)

\* The filters in the order of their groups, each with its step.
ForEach(step, x) == [i \in 1..Len(exists) |-> <<step, <<exists[i], x>>>>]

Inform(structure) ==
  <<<<"services", None>>, <<"attach", None>>>> \o ForEach("callback", structure)

\* TSReaderNotificationCallback, without the mutex; ...
Notify ==
  /\ changed /\ held = None
  /\ Call(Input, Inform(FALSE) \o <<<<"clear", None>>>>)
  /\ lost' = FALSE
  /\ UNCHANGED <<enabled, held, currentService, currentMultiplex, cached, locked, tunedTo,
                 rows, changed, crashed, filters, tables, mixed>>

\* ... the flag is cleared when all groups have been told.
ClearChanged ==
  /\ Doing(Input, "clear", None)
  /\ changed' = FALSE
  /\ Then(Input, <<>>)
  /\ UNCHANGED <<enabled, held, currentService, currentMultiplex, cached, locked, tunedTo,
                 rows, crashed, filters, tables, mixed, lost>>

\* TSReaderDVRCallback keeps the mutex for a batch of packets.
TakeBatch ==
  /\ ~crashed /\ Idle(Input) /\ enabled /\ held = None /\ tunedTo # None
  /\ held' = Input
  /\ UNCHANGED <<enabled, currentService, currentMultiplex, cached, locked, tunedTo, rows,
                 changed, todo, crashed, filters, tables, mixed, lost>>

EndBatch ==
  /\ ~crashed /\ Idle(Input) /\ held = Input
  /\ held' = None
  /\ UNCHANGED <<enabled, currentService, currentMultiplex, cached, locked, tunedTo, rows,
                 changed, todo, crashed, filters, tables, mixed, lost>>

\* A PMT in the batch: PMTHandler and CacheUpdateProgramInfo, which tells the
\* filters of a service that is in the cache.
ReceivePMT ==
  \E s \in handles : \E i \in Infos[s] :
    /\ held = Input /\ enabled /\ MuxOf[s] = tunedTo /\ cached = MuxOf[s]
    /\ Call(Input, ForEach("updated", s))
    /\ info' = [info EXCEPT ![s] = i]
    /\ heard' = heard \cup {s}
    /\ UNCHANGED <<enabled, held, currentService, currentMultiplex, cached, locked,
                   tunedTo, rows, changed, crashed, filters, services, handles, mixed, lost>>

\* A PAT or SDT in it brings services or takes them away: InformTSStructureChanged.
ChangeStructure ==
  /\ held = Input /\ enabled
  /\ Call(Input, Inform(TRUE))
  /\ UNCHANGED <<enabled, held, currentService, currentMultiplex, cached, locked, tunedTo,
                 rows, changed, crashed, filters, tables, mixed, lost>>

-----------------------------------------------------------------------------
(* The user's commands (cmd_servicefilter.c).                              *)

\* CommandSelect.
Select ==
  /\ \E s \in Service : SetCurrentService(User, s)
  /\ UNCHANGED <<enabled, held, currentService, currentMultiplex, cached, locked, tunedTo,
                 rows, changed, crashed, filters, tables, mixed, lost>>

\* CommandSetSFService: any filter but the primary one.
SetSFService ==
  /\ \E f \in Existing \ {Primary}, s \in Service : Call(User, ServiceSetSteps(f, s))
  /\ UNCHANGED <<enabled, held, currentService, currentMultiplex, cached, locked, tunedTo,
                 rows, changed, crashed, filters, tables, mixed, lost>>

\* CommandSetSFAVSOnly.
SetSFAVSOnly ==
  /\ \E f \in Existing :
       Call(User, <<<<"drop", f>>, <<IF avsOnly[f] THEN "avs off" ELSE "avs on", f>>>>)
  /\ UNCHANGED <<enabled, held, currentService, currentMultiplex, cached, locked, tunedTo,
                 rows, changed, crashed, filters, tables, mixed, lost>>

\* CommandAddSF; the input thread is taken not to be walking the groups.
AddSF ==
  /\ ~crashed /\ Idle(User) /\ Idle(Input) /\ MayLock(User)
  /\ \E f \in Filter \ Existing : exists' = Append(exists, f)
  /\ UNCHANGED <<tuning, service, avsOnly, pids, chosen, patOf, pmtOf, tables, mixed, lost>>

\* CommandRemoveSF, likewise.
RemoveSF ==
  /\ ~crashed /\ Idle(User) /\ Idle(Input) /\ MayLock(User)
  /\ \E f \in Existing \ {Primary} :
       /\ \E i \in 1..Len(exists) : exists[i] = f /\ exists' = RemoveAt(exists, i)
       /\ service' = [service EXCEPT ![f] = None]
       /\ avsOnly' = [avsOnly EXCEPT ![f] = FALSE]
       /\ pids' = [pids EXCEPT ![f] = {}]
       /\ chosen' = [chosen EXCEPT ![f] = {}]
       /\ patOf' = [patOf EXCEPT ![f] = None]
       /\ pmtOf' = [pmtOf EXCEPT ![f] = None]
       /\ mixed' = mixed \ {f}
  /\ UNCHANGED <<tuning, tables, lost>>

-----------------------------------------------------------------------------
(* The steps of Tuning, with what this module adds to them.                *)

\* TuningCurrentServiceSet hands the current service to the primary filter.
Follow(t) ==
  /\ Doing(t, "follow", None)
  /\ Then(t, ServiceSetSteps(Primary, currentService))
  /\ UNCHANGED <<enabled, held, currentService, currentMultiplex, cached, locked, tunedTo,
                 rows, changed, crashed, filters, tables, mixed, lost>>

TuneStep(t) ==
  \/ /\ Enable(t) \/ FindMultiplex(t) \/ TuneMultiplex(t) \/ SetCurrent(t)
     /\ UNCHANGED <<filters, tables, mixed, lost>>
  \/ LoadCache(t) /\ heard' = {} /\ UNCHANGED <<filters, info, services, handles, mixed, lost>>
  \/ /\ Announce(t)
     /\ lost' = (lost \/ \E i \in 1..Len(todo[Input]) : todo[Input][i][1] = "clear")
     /\ UNCHANGED <<filters, tables, mixed>>

Init ==
  /\ TuningInit(None)
  /\ rows = Mux
  /\ exists = <<Primary>>
  /\ service = [f \in Filter |-> None]
  /\ avsOnly = [f \in Filter |-> FALSE]
  /\ pids = [f \in Filter |-> {}]
  /\ chosen = [f \in Filter |-> {}]
  /\ patOf = [f \in Filter |-> None]
  /\ pmtOf = [f \in Filter |-> None]
  /\ info \in {f \in [Service -> SUBSET Stream] : \A s \in Service : f[s] \in Infos[s]}
  /\ services = {} /\ handles = {} /\ heard = {}
  /\ mixed = {} /\ lost = FALSE /\ commands = 0

Step(t) ==
  \/ TuneStep(t) \/ Follow(t)
  \/ Drop(t) \/ Callback(t) \/ Assign(t) \/ AssignAVSOnly(t) \/ Rewrite(t)
  \/ PidsUpdated(t) \/ PidsUpdatedRewrite(t) \/ CheckMultiplex(t) \/ AddFilters(t)
  \/ TakeServices(t) \/ AttachPMT(t) \/ AttachNothing(t) \/ AttachedPMTs(t)

Command == Select \/ SetSFService \/ SetSFAVSOnly \/ RemoveSF

Events == Notify \/ ClearChanged \/ TakeBatch \/ EndBatch \/ ReceivePMT \/ ChangeStructure

Next ==
  \/ /\ commands < MaxCommands
     /\ commands' = commands + 1
     /\ Command
  \/ UNCHANGED commands /\ (AddSF \/ Events \/ \E t \in Thread : Step(t))

Spec == Init /\ [][Next]_vars
-----------------------------------------------------------------------------
(* Properties.                                                             *)

\* No call is under way and every change has been told, one at a time.
Settled == Idle(User) /\ Idle(Input) /\ ~changed /\ ~lost /\ ~crashed

\* What a filter is to filter: nothing off its service's multiplex.
Wanted(f) ==
  IF service[f] = None \/ currentMultiplex = None THEN {}
  ELSE IF MuxOf[service[f]] # currentMultiplex THEN {}
  ELSE PidsOf(service[f], IF avsOnly[f] THEN chosen[f] ELSE info[service[f]])

\* A filter follows its service: once the calls are over, and whatever the user
\* and the input thread did before, a filter has the PIDs of its service as the
\* last PMT gives them and no others; and the PAT it sends in place of the
\* multiplex's, and the PMT when only A/V/S are kept, name that service.  Left
\* out: a filter that both threads were rebuilding at the same time, until it is
\* rebuilt again, and a change of multiplex made while another is being told,
\* until the next (ts.c:923).
FollowsItsService ==
  Settled =>
    \A f \in Existing \ mixed :
      /\ pids[f] = Wanted(f)
      /\ (avsOnly[f] /\ service[f] \in heard)
           => chosen[f] = info[service[f]] \cap FirstOfKind
      /\ pids[f] # {} => patOf[f] = service[f] /\ (avsOnly[f] => pmtOf[f] = service[f])

\* The PMT processor follows the cache: after every change it has a decoder and
\* a reference for the services of the multiplex that is in the cache and for
\* no other, although the cache may be loaded again between the two and while the
\* decoders are made, which may also find an entry of its array NULL: then the program
\* has crashed, and nothing is said of it.
MonitorsTheCache ==
  (Settled /\ currentMultiplex # None) => /\ handles = ServicesOf(cached)
                                         /\ services = ServicesOf(cached)

\* Once the calls are over the filters fit their services and the PMT processor
\* the multiplex in the cache.
SettledFiltersFollow == FollowsItsService /\ MonitorsTheCache

=============================================================================
