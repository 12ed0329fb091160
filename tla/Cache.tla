-------------------------------- MODULE Cache --------------------------------
(***************************************************************************)
(* The cache of the current multiplex's services (cache.c) in front of the *)
(* database (services.c, multiplexes.c, pids.c).                           *)
(*                                                                         *)
(* The table handlers read and change the services in memory; each change  *)
(* queues a job for the deferred processing thread, which runs the jobs in *)
(* order (DeferredProc), each in one transaction.  A job writes its value  *)
(* into the database row and then into the Service_t object it was queued  *)
(* for, which may have left the cache meanwhile.                           *)
(*                                                                         *)
(* This module has the state, the functions of cache.c as operators and    *)
(* the database thread; ServiceTables has the threads that call them.      *)
(***************************************************************************)
EXTENDS Integers, Sequences, FiniteSets

CONSTANTS Mux,      \* the multiplexes of the database
          NoMux,    \* no multiplex is loaded
          Id,       \* service ids
          Absent,   \* no row, no entry
          Field,    \* what is known of a service, by the table that tells it
          Default,  \* the value of a field of a service just added
          Value     \* the values tables give, for services and multiplexes

ASSUME CacheAssumption ==
  /\ NoMux \notin Mux
  /\ IsFiniteSet(Id)
  /\ Default \in Value
  /\ Absent \notin Id /\ Absent \notin [Field -> Value]

VARIABLES
  multiplex,  \* cachedServicesMultiplex
  muxIds,     \* per field the ids of that multiplex: TS id, network id
  services,   \* cachedServices[0..cachedServicesCount-1]
  flags,      \* cacheFlags, one entry per cached service
  db,         \* per multiplex and service id the row of the services table
  dbIds,      \* per multiplex its ids in the multiplexes table
  jobs        \* the deferred updates, CacheUpdateMessage_t

cacheVars == <<multiplex, muxIds, services, flags, db, dbIds, jobs>>

Table == {"PAT", "SDT"}  \* a service may be missing in: CacheFlag_Not_Seen_In_...
Row   == [Field -> Value]
NewRow == [f \in Field |-> Default]
Service == [id : Id, row : Row]

\* CacheUpdateMessage_t, and whether its object is the one in the cache.
Job == [kind : {"update", "add", "delete", "ids"}, mux : Mux,
        id : Id \cup {Absent}, field : Field \cup {Absent},
        value : Value \cup {Absent}, cached : BOOLEAN]

-----------------------------------------------------------------------------
(* Looking services up.                                                    *)

\* Indices of the cached service with this id; there is one at most.
IndexOf(s, id) == {i \in 1..Len(s) : s[i].id = id}

InCache(id) == IndexOf(services, id) # {}

CachedIds == {services[i].id : i \in 1..Len(services)}

\* Sequence s without its element i.
Without(s, i) == [k \in 1..Len(s) - 1 |-> s[IF k < i THEN k ELSE k + 1]]

\* The jobs q once the objects of these ids have left the cache; Absent stands
\* for the multiplex.
Detach(q, gone) ==
  [k \in 1..Len(q) |->
     IF q[k].id \in gone THEN [q[k] EXCEPT !.cached = FALSE] ELSE q[k]]

\* A new job for service id of the cached multiplex.
NewJob(kind, id, f, v) ==
  [kind |-> kind, mux |-> multiplex, id |-> id, field |-> f, value |-> v,
   cached |-> kind \in {"update", "ids"}]

-----------------------------------------------------------------------------
(* The functions of cache.c.                                               *)

\* CacheServiceAdd, on the services s, flags fl and jobs q.
AddTo(s, fl, q, id) ==
  [services |-> Append(s, [id |-> id, row |-> NewRow]),
   flags    |-> Append(fl, {}),
   jobs     |-> Append(q, NewJob("add", id, Absent, Absent))]

\* Mutant of UpdateIn: the database is told of the SDT's values only.
UpdateInUnqueued(s, q, id, f, v) ==
  IF IndexOf(s, id) = {} THEN [services |-> s, jobs |-> q]
  ELSE [services |-> [i \in 1..Len(s) |->
                        IF s[i].id = id THEN [s[i] EXCEPT !.row[f] = v] ELSE s[i]],
        jobs |-> IF f = "PAT" THEN q ELSE Append(q, NewJob("update", id, f, v))]

\* CacheUpdateServicePMTPID, CacheUpdateServiceName and the like: the cached
\* service is changed at once and its row later.
UpdateIn(s, q, id, f, v) ==
  IF IndexOf(s, id) = {} THEN [services |-> s, jobs |-> q]
  ELSE [services |-> [i \in 1..Len(s) |->
                        IF s[i].id = id THEN [s[i] EXCEPT !.row[f] = v] ELSE s[i]],
        jobs |-> Append(q, NewJob("update", id, f, v))]

\* CacheServiceDelete of the service at index i: the jobs, the flags, the array.
DeleteJobs(i) == Append(Detach(jobs, {services[i].id}),
                        NewJob("delete", services[i].id, Absent, Absent))

\* CacheUpdateMultiplex and CacheUpdateNetworkId, for the caller's multiplex m.
UpdateMultiplex(m, f, v) ==
  IF m = multiplex
  THEN /\ muxIds' = [muxIds EXCEPT ![f] = v]
       /\ jobs' = Append(jobs, NewJob("ids", Absent, f, v))
  ELSE UNCHANGED <<muxIds, jobs>>

\* CacheLoad: fresh objects for the rows of the multiplex.
Load(m) ==
  /\ multiplex' = m
  /\ muxIds' = dbIds[m]
  /\ \E order \in [1..Cardinality({id \in Id : db[m][id] # Absent}) -> Id] :
       /\ {order[i] : i \in DOMAIN order} = {id \in Id : db[m][id] # Absent}
       /\ services' = [i \in DOMAIN order |->
                         [id |-> order[i], row |-> db[m][order[i]]]]
       /\ flags' = [i \in DOMAIN order |-> {}]
  /\ jobs' = Detach(jobs, Id \cup {Absent})
  /\ UNCHANGED <<db, dbIds>>

-----------------------------------------------------------------------------
(* The database thread.                                                    *)

\* What the SQL of a job does to its row: inserting a row that is there fails,
\* updating or deleting one that is not changes nothing.
RowAfter(r, j) ==
  IF j.kind = "delete" THEN Absent
  ELSE IF r = Absent THEN (IF j.kind = "add" THEN NewRow ELSE Absent)
  ELSE IF j.kind = "update" THEN [r EXCEPT ![j.field] = j.value] ELSE r

\* An update goes into the object too.
ObjectAfter(s, j) ==
  IF j.kind = "update" /\ j.cached
  THEN [s EXCEPT !.row[j.field] = j.value] ELSE s

\* Mutant of RunJob: the row is written for the multiplex tuned to now.
RunJobCurrentMux ==
  /\ jobs # <<>>
  /\ LET j == Head(jobs)
     IN  /\ db' = [m \in Mux |-> [id \in Id |->
                     IF <<m, id>> = <<multiplex, j.id>> THEN RowAfter(db[m][id], j)
                                                        ELSE db[m][id]]]
         /\ UNCHANGED <<dbIds, services, muxIds>>
  /\ jobs' = Tail(jobs)
  /\ UNCHANGED <<multiplex, flags>>

\* CacheProcessUpdateMessage of the first job.
RunJob ==
  /\ jobs # <<>>
  /\ LET j == Head(jobs)
     IN  /\ db' = [m \in Mux |-> [id \in Id |->
                     IF <<m, id>> = <<j.mux, j.id>> THEN RowAfter(db[m][id], j)
                                                    ELSE db[m][id]]]
         /\ dbIds' = IF j.kind = "ids" THEN [dbIds EXCEPT ![j.mux][j.field] = j.value]
                                       ELSE dbIds
         /\ services' = [i \in 1..Len(services) |->
                           IF services[i].id = j.id THEN ObjectAfter(services[i], j)
                                                    ELSE services[i]]
         /\ muxIds' = IF j.kind = "ids" /\ j.cached
                      THEN [muxIds EXCEPT ![j.field] = j.value] ELSE muxIds
  /\ jobs' = Tail(jobs)
  /\ UNCHANGED <<multiplex, flags>>

-----------------------------------------------------------------------------

\* The program starts: nothing is cached, the database is what it was.
Start ==
  /\ multiplex' = NoMux
  /\ muxIds' = [f \in Field |-> Default]
  /\ services' = <<>>
  /\ flags' = <<>>
  /\ jobs' = <<>>
  /\ UNCHANGED <<db, dbIds>>

CacheInit ==
  /\ multiplex = NoMux
  /\ muxIds = [f \in Field |-> Default]
  /\ services = <<>>
  /\ flags = <<>>
  /\ jobs = <<>>
  /\ db = [m \in Mux |-> [id \in Id |-> Absent]]
  /\ dbIds = [m \in Mux |-> [f \in Field |-> Default]]

CacheTypeOK ==
  /\ multiplex \in Mux \cup {NoMux}
  /\ muxIds \in [Field -> Value]
  /\ services \in Seq(Service)
  /\ flags \in Seq(SUBSET Table)
  /\ Len(flags) = Len(services)
  /\ db \in [Mux -> [Id -> Row \cup {Absent}]]
  /\ dbIds \in [Mux -> [Field -> Value]]
  /\ jobs \in Seq(Job)

=============================================================================
