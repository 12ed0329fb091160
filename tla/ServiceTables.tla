----------------------------- MODULE ServiceTables -----------------------------
(***************************************************************************)
(* The handlers of the tables that list the services of a multiplex: the   *)
(* PAT (patprocessor.c) and the SDT or VCT (sdtprocessor.c,                *)
(* psipprocessor.c).  "SDT" stands for both of the latter.                 *)
(*                                                                         *)
(* They run on the input dispatcher with the reader's mutex held, one at a  *)
(* time, and call the cache once per entry.  The database thread runs jobs  *)
(* meanwhile.  The user's thread tunes (tuning.c) only while the reader is  *)
(* disabled, so between two tables; but the first tables after that may     *)
(* still come from the multiplex before: its packets are in the buffers,    *)
(* and the filters learn of the change from a notification.                 *)
(***************************************************************************)
EXTENDS Cache

CONSTANTS Broadcast,        \* per multiplex the contents its tables may have
          TunesWithJobs,    \* a tune may come while jobs for it are queued
          MaxJobs,          \* bound: a table is handled when no more are queued
          MaxStale          \* bound: tables ever handled between a tune and its news

NoTable == [t \in {} |-> Default]

ASSUME TablesAssumption ==
  /\ Table \subseteq Field
  /\ Broadcast \in [Mux -> SUBSET UNION {[S -> Value] : S \in SUBSET Id}]
  /\ TunesWithJobs \in BOOLEAN
  /\ MaxJobs \in Nat /\ MaxStale \in Nat

VARIABLES
  onAir,    \* the multiplex the packets are of, NoMux: none yet
  told,     \* the multiplex the PAT processor was told of
  table,    \* the table being handled: PAT, SDT or none
  content,  \* its entries: per service id what it tells of the service
  todo,     \* entries still to handle
  next,     \* the index the search for vanished services goes on at
  heard,    \* per table its last contents since the load, or Absent
  stale,    \* how many tables were handled before the reader had followed a tune
  strays    \* services one of those listed for a multiplex they are not of

vars == <<cacheVars, onAir, told, table, content, todo, next, heard, stale, strays>>

-----------------------------------------------------------------------------
(* Handling a table.                                                       *)

\* No table is being handled.
Idle == table' = "none" /\ content' = NoTable /\ todo' = {} /\ next' = 1

\* Contents c of table t have arrived, which may be of the multiplex before.
Begin(t, c) ==
  /\ table = "none" /\ told # NoMux /\ Len(jobs) <= MaxJobs
  /\ table' = t
  /\ content' = c
  /\ todo' = DOMAIN c
  /\ next' = 1
  /\ heard' = [heard EXCEPT ![t] = c]
  /\ strays' = strays \cup IF onAir = multiplex THEN {} ELSE {multiplex} \X DOMAIN c
  /\ stale' = stale + IF onAir = multiplex /\ told = multiplex THEN 0 ELSE 1
  /\ stale' <= MaxStale
  /\ UNCHANGED <<cacheVars, onAir, told>>

\* Mutant of Seen: a service that is listed again stays marked as missing.
SeenStaysMarked(fl, id) == fl

\* The flags after CacheServiceSeen(service id, TRUE).
Seen(fl, id) ==
  [i \in 1..Len(fl) |->
     IF i \in IndexOf(services, id) THEN fl[i] \ {table} ELSE fl[i]]

\* One entry: an unknown service is added, a known one is marked as seen, and
\* what the table tells is updated if it differs from what is cached.
Entry(id) ==
  /\ table \in Table /\ id \in todo
  /\ todo' = todo \ {id}
  /\ LET found == IF InCache(id)
                  THEN [services |-> services, flags |-> Seen(flags, id), jobs |-> jobs]
                  ELSE AddTo(services, flags, jobs, id)
         i     == CHOOSE i \in IndexOf(found.services, id) : TRUE
         known == found.services[i].row[table]
         after == IF known = content[id]
                  THEN [services |-> found.services, jobs |-> found.jobs]
                  ELSE UpdateIn(found.services, found.jobs, id, table, content[id])
     IN  /\ services' = after.services
         /\ flags' = found.flags
         /\ jobs' = after.jobs
  /\ UNCHANGED <<multiplex, muxIds, db, dbIds, onAir, told, table, content,
                 next, heard, stale, strays>>

Unlisted(i) == services[i].id \notin DOMAIN content

\* Indices from next on whose service no table lists any more.
Vanished == {i \in next..Len(services) :
               Unlisted(i) /\ flags[i] \cup {table} = Table}

\* The flags once the loop has gone on to index i.
Marked(i) ==
  [k \in 1..Len(flags) |-> IF k \in next..i /\ Unlisted(k) THEN flags[k] \cup {table}
                                                          ELSE flags[k]]

\* The loop over the services marks those that are not listed, up to the first
\* one that no longer exists, which is deleted.
Prune ==
  /\ table \in Table /\ todo = {}
  /\ \E i \in Vanished :
       /\ \A k \in Vanished : i <= k
       /\ services' = Without(services, i)
       /\ flags' = Without(Marked(i), i)
       /\ jobs' = DeleteJobs(i)
       /\ next' = i
  /\ UNCHANGED <<multiplex, muxIds, db, dbIds, onAir, told, table, content, todo,
                 heard, stale, strays>>

\* The loop ends; the multiplex learns its TS id from the PAT, and from the SDT
\* its network id, the SDT handler asking the tuner which multiplex it is for.
Finish(v) ==
  /\ table \in Table /\ todo = {} /\ Vanished = {}
  /\ flags' = Marked(Len(services))
  /\ IF table = "SDT" /\ v = muxIds[table] THEN UNCHANGED <<muxIds, jobs>>
     ELSE UpdateMultiplex(IF table = "PAT" THEN told ELSE multiplex, table, v)
  /\ Idle
  /\ UNCHANGED <<multiplex, services, db, dbIds, onAir, told, heard, stale, strays>>

-----------------------------------------------------------------------------
(* The other threads.                                                      *)

Writes == RunJob /\ UNCHANGED <<onAir, told, table, content, todo, next, heard, stale, strays>>

\* TuneMultiplex of the user's thread, between TSReaderEnable FALSE and TRUE.
Tune(m) ==
  /\ table = "none"
  /\ TunesWithJobs \/ \A k \in 1..Len(jobs) : jobs[k].mux # m
  /\ Load(m)
  /\ heard' = [t \in Table |-> Absent]
  /\ UNCHANGED <<onAir, told, table, content, todo, next, stale, strays>>

\* The receiver is on the new frequency and the buffered packets are used up.
Arrive ==
  /\ multiplex # NoMux /\ onAir # multiplex /\ table = "none"
  /\ onAir' = multiplex
  /\ UNCHANGED <<cacheVars, told, table, content, todo, next, heard, stale, strays>>

\* TSReaderNotificationCallback; the PAT processor is told.
Notify ==
  /\ multiplex # NoMux /\ told # multiplex /\ table = "none"
  /\ told' = multiplex
  /\ UNCHANGED <<cacheVars, onAir, table, content, todo, next, heard, stale, strays>>

\* The program stops or is killed; queued jobs are lost.
Restart ==
  /\ Start
  /\ Idle
  /\ told' = NoMux
  /\ onAir' = NoMux
  /\ heard' = [t \in Table |-> Absent]
  /\ UNCHANGED <<stale, strays>>

Init ==
  /\ CacheInit
  /\ onAir = NoMux
  /\ told = NoMux
  /\ table = "none"
  /\ content = NoTable
  /\ todo = {}
  /\ next = 1
  /\ heard = [t \in Table |-> Absent]
  /\ stale = 0 /\ strays = {}

Next ==
  \/ \E t \in Table, m \in Mux : \E c \in Broadcast[m] : m = onAir /\ Begin(t, c)
  \/ \E id \in Id : Entry(id)
  \/ Prune
  \/ \E v \in Value : Finish(v)
  \/ Writes
  \/ \E m \in Mux : Tune(m)
  \/ Arrive \/ Notify
  \/ Restart

Spec == Init /\ [][Next]_vars

-----------------------------------------------------------------------------
(* Properties.                                                             *)

\* Every variable keeps its type.
TypeOK ==
  /\ CacheTypeOK
  /\ onAir \in Mux \cup {NoMux}
  /\ told \in Mux \cup {NoMux}
  /\ table \in Table \cup {"none"}
  /\ content \in UNION {[S -> Value] : S \in SUBSET Id}
  /\ todo \subseteq DOMAIN content
  /\ next \in Nat \ {0}
  /\ DOMAIN heard = Table
  /\ stale \in Nat /\ strays \subseteq Mux \X Id

\* The row of service id in the cached multiplex, and a cached object of it,
\* when the jobs up to the k-th have run.
RowThen(id) ==
  LET then[k \in 0..Len(jobs)] ==
        IF k = 0 THEN db[multiplex][id]
        ELSE IF <<jobs[k].mux, jobs[k].id>> = <<multiplex, id>>
             THEN RowAfter(then[k - 1], jobs[k]) ELSE then[k - 1]
  IN  then[Len(jobs)]

ObjectThen(i) ==
  LET then[k \in 0..Len(jobs)] ==
        IF k = 0 THEN services[i]
        ELSE IF jobs[k].id = services[i].id THEN ObjectAfter(then[k - 1], jobs[k])
             ELSE then[k - 1]
  IN  then[Len(jobs)]

\* Cache and database meet again: once the queued jobs have run, the rows of the
\* cached multiplex are the cached services, value for value, whatever was
\* added, changed, deleted and added again meanwhile.
WritebackConverges ==
  multiplex # NoMux =>
    \A id \in Id :
      \/ InCache(id) /\ \A i \in IndexOf(services, id) :
                          RowThen(id) = ObjectThen(i).row
      \/ ~InCache(id) /\ RowThen(id) = Absent

\* A service the last PAT or the last SDT lists is cached, however often it left
\* and came back in the other table.
ListedServicesStay ==
  table = "none" =>
    \A t \in Table : heard[t] # Absent => DOMAIN heard[t] \subseteq CachedIds

\* The database holds a service only under a multiplex whose tables list it, or
\* for which a table of the multiplex before was taken that lists it, although
\* jobs are run after the cache was loaded with another one: nothing else puts a
\* service under a multiplex it is not of.
NoForeignServices ==
  \A m \in Mux, id \in Id :
    db[m][id] # Absent => \/ \E c \in Broadcast[m] : id \in DOMAIN c
                         \/ <<m, id>> \in strays

================================================================================
