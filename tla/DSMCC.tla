-------------------------------- MODULE DSMCC --------------------------------
(***************************************************************************)
(* The plugin that downloads object carousels (plugins/dsmcc.c): a session *)
(* for each service filter it was enabled for, each with a download        *)
(* session for the filter's service, counted by references. Commands and   *)
(* events come on the thread that gave the command; a section is delivered *)
(* by the packet loop and may ask for further PIDs.                        *)
(***************************************************************************)
EXTENDS Integers, FiniteSets

CONSTANTS Filter, Channel,   \* service filters and the services they may have
          Multiplexes, On,   \* the multiplex of each service
          Pid, DataPids,     \* its PIDs that carry a carousel, by the PMT
          Off, Null, Freed,
          MaxDownloads       \* bound: download sessions ever made

ASSUME DSMCCAssumption ==
  /\ On \in [Channel -> Multiplexes] /\ DataPids \in [Channel -> SUBSET Pid]
  /\ MaxDownloads \in Nat \ {0} /\ Null \notin 1..MaxDownloads /\ Off \notin 1..MaxDownloads
  /\ Freed \notin [service : Channel, refs : {1},
                    pids : [Pid -> {"absent", "attached", "idle"}]]

VARIABLES
  channel,    \* the service of a filter, Null for none
  sessions,   \* a filter's session: Off, or its download session or Null
  downloads,  \* the download sessions, Freed when destroyed
  made,       \* how many there have been
  tuned,      \* the current multiplex
  informed,   \* the event of the tune has been handled
  shared,     \* download sessions that were found for a second session
  broken      \* a reference of a freed download session was dropped

dsmcc == <<channel, sessions, downloads, made, tuned, informed, shared, broken>>

Ids == 1..MaxDownloads
Live == {d \in Ids : downloads[d] # Freed}

DSMCCInit ==
  /\ channel \in [Filter -> Channel \cup {Null}]
  /\ sessions = [f \in Filter |-> Off]
  /\ downloads = [d \in Ids |-> Freed]
  /\ made = 0 /\ tuned \in Multiplexes /\ informed = TRUE
  /\ shared = {} /\ broken = FALSE

\* Attached while the service's multiplex is the current one.
Attach(s) == IF On[s] = tuned THEN "attached" ELSE "idle"

PIDAdd(d, p) ==
  IF d.pids[p] # "absent" THEN d ELSE [d EXCEPT !.pids[p] = Attach(d.service)]

\* Dropping a reference; the last one destroys the object, and takes it from
\* the list and its filters from the reader.
RefDec(ds, d) ==
  IF ds[d] = Freed THEN ds
  ELSE IF ds[d].refs = 1 THEN [ds EXCEPT ![d] = Freed]
  ELSE [ds EXCEPT ![d].refs = @ - 1]

Dropped(ds, f) == IF sessions[f] \in Ids THEN RefDec(ds, sessions[f]) ELSE ds

\* The PIDs of a new download session are those of its service's PMT, if that
\* is known already; there is no second chance.
NewDownload(s, known) ==
  [service |-> s, refs |-> 1,
   pids |-> [p \in Pid |-> IF known /\ p \in DataPids[s] THEN Attach(s) ELSE "absent"]]

\* A download session that is found is used without taking a reference.
EnableSession(f, s) ==
  LET ds == Dropped(downloads, f)
      found == {d \in Ids : ds[d] # Freed /\ ds[d].service = s}
  IN  \/ /\ s = Null
         /\ sessions' = [sessions EXCEPT ![f] = Null]
         /\ downloads' = ds
         /\ UNCHANGED <<made, shared>>
      \/ /\ s # Null /\ found # {}
         /\ \E d \in found : /\ sessions' = [sessions EXCEPT ![f] = d]
                             /\ shared' = shared \cup {d}
         /\ downloads' = ds
         /\ UNCHANGED made
      \/ /\ s # Null /\ found = {} /\ made < MaxDownloads
         /\ made' = made + 1
         /\ \E known \in {FALSE, On[s] = tuned} :
              downloads' = [ds EXCEPT ![made + 1] = NewDownload(s, known)]
         /\ sessions' = [sessions EXCEPT ![f] = made + 1]
         /\ UNCHANGED shared

\* Dropping the reference of a freed object is the end of what can be said.
Drops(f) == broken' = (sessions[f] \in Ids /\ sessions[f] \notin Live)

Commanding == ~broken /\ informed

Enable(f) ==
  /\ Commanding /\ sessions[f] = Off
  /\ EnableSession(f, channel[f])
  /\ UNCHANGED <<channel, tuned, informed, broken>>

\* Disabled by the command, or because its filter is removed. A filter that is
\* made again begins without a service.
Leave(f) ==
  /\ sessions' = [sessions EXCEPT ![f] = Off]
  /\ downloads' = Dropped(downloads, f)
  /\ Drops(f)
  /\ UNCHANGED <<made, tuned, informed, shared>>

Disable(f) == Commanding /\ sessions[f] # Off /\ Leave(f) /\ UNCHANGED channel

FilterRemoved(f) == Commanding /\ Leave(f) /\ channel' = [channel EXCEPT ![f] = Null]

FilterChanged(f, s) ==
  /\ Commanding /\ s # channel[f]
  /\ channel' = [channel EXCEPT ![f] = s]
  /\ \/ sessions[f] = Off /\ UNCHANGED <<sessions, downloads, made, shared, broken>>
     \/ sessions[f] # Off /\ EnableSession(f, s) /\ Drops(f)
  /\ UNCHANGED <<tuned, informed>>

Retune(m) ==
  /\ Commanding /\ m # tuned
  /\ tuned' = m /\ informed' = FALSE
  /\ UNCHANGED <<channel, sessions, downloads, made, shared, broken>>

\* Mutant: what is not attached is left alone.
MultiplexDetaches ==
  /\ ~broken /\ ~informed
  /\ informed' = TRUE
  /\ downloads' =
       [d \in Ids |->
          IF d \notin Live THEN Freed
          ELSE [downloads[d] EXCEPT !.pids =
                  [p \in Pid |-> IF @[p] # "attached" THEN @[p]
                                 ELSE Attach(downloads[d].service)]]]
  /\ UNCHANGED <<channel, sessions, made, tuned, shared, broken>>

\* The filters of every download session are removed, and those whose service
\* is on the new multiplex put back.
MultiplexChanged ==
  /\ ~broken /\ ~informed
  /\ informed' = TRUE
  /\ downloads' =
       [d \in Ids |->
          IF d \notin Live THEN Freed
          ELSE [downloads[d] EXCEPT !.pids =
                  [p \in Pid |-> IF @[p] = "absent" THEN "absent"
                                 ELSE Attach(downloads[d].service)]]]
  /\ UNCHANGED <<channel, sessions, made, tuned, shared, broken>>

\* A section names a stream by its tag; a tag without a PID gives the invalid
\* one, which is added like any other.
Section(d, p) ==
  /\ ~broken
  /\ d \in Live /\ \E q \in Pid : downloads[d].pids[q] = "attached"
  /\ downloads' = [downloads EXCEPT ![d] = PIDAdd(@, p)]
  /\ UNCHANGED <<channel, sessions, made, tuned, informed, shared, broken>>

DSMCCNext ==
  \/ \E f \in Filter : \/ Enable(f) \/ Disable(f) \/ FilterRemoved(f)
                       \/ \E s \in Channel \cup {Null} : FilterChanged(f, s)
  \/ \E m \in Multiplexes : Retune(m)
  \/ MultiplexChanged
  \/ \E d \in Ids, p \in Pid : Section(d, p)

DSMCCSpec == DSMCCInit /\ [][DSMCCNext]_dsmcc

----------------------------------------------------------------------------

\* A filter for which DSM-CC is enabled has the download session of its service
\* as long as it has one, and nobody else's command takes it away; what that
\* session knows of is attached exactly while its multiplex is tuned. Filters
\* that have come to share a download session are excepted: the second takes no
\* reference, and the first to leave frees it for both.
SessionsServed ==
  \A f \in Filter :
    sessions[f] # Off =>
      \/ channel[f] = Null /\ sessions[f] = Null
      \/ sessions[f] \in shared
      \/ /\ channel[f] # Null /\ sessions[f] \in Live
         /\ downloads[sessions[f]].service = channel[f]
         /\ informed => \A p \in Pid :
              downloads[sessions[f]].pids[p] \in {"absent", Attach(channel[f])}

=============================================================================
