-------------------------- MODULE ServiceTablesProofs --------------------------
(***************************************************************************)
(* The cache and its tables for every set of multiplexes and services: the *)
(* types; that no service gets under a multiplex whose tables never list   *)
(* it, but by a table of the multiplex before that lists it; that the rows *)
(* become what is cached; and that listed services stay.                   *)
(***************************************************************************)
EXTENDS ServiceTables, FiniteSetTheorems, WellFoundedInduction, TLAPS

\* A table of multiplex m may list the service, or one of the multiplex before it
\* has.
Listed(m, id) == (\E c \in Broadcast[m] : id \in DOMAIN c) \/ <<m, id>> \in strays

Contents == UNION {[S -> Value] : S \in SUBSET Id}

\* Queued jobs add only services that a table of their multiplex lists.
OwnJobs(q) ==
  /\ q \in Seq(Job)
  /\ \A k \in 1..Len(q) : q[k].kind = "add" => Listed(q[k].mux, q[k].id)

\* Jobs that write a value have one, and a field for it.
Valued(q) ==
  \A k \in 1..Len(q) : q[k].kind \in {"update", "ids"}
                         => q[k].field \in Field /\ q[k].value \in Value

\* The table being handled is one of the cached multiplex.
OwnTable ==
  table # "none" =>
    /\ multiplex \in Mux
    /\ \A id \in DOMAIN content : Listed(multiplex, id)

\* The types, and that a table is handled only with a multiplex cached.
Typed ==
  /\ TypeOK /\ Valued(jobs)
  /\ table # "none" \/ told # NoMux => multiplex \in Mux

-----------------------------------------------------------------------------
(* The operators of the cache.                                             *)

\* A sequence without one of its elements.
LEMMA WithoutTyped ==
  ASSUME NEW S, NEW s \in Seq(S), NEW i \in 1..Len(s)
  PROVE  Without(s, i) \in Seq(S) /\ Len(Without(s, i)) = Len(s) - 1
<1>1. Len(s) \in Nat /\ Len(s) - 1 \in Nat
  OBVIOUS
<1>2. \A k \in 1..Len(s) - 1 : s[IF k < i THEN k ELSE k + 1] \in S
  OBVIOUS
<1> QED
  BY <1>1, <1>2 DEF Without

\* A new job is one, and for the cached multiplex.
LEMMA NewJobTyped ==
  ASSUME multiplex \in Mux, NEW kind \in {"update", "add", "delete", "ids"},
         NEW id \in Id \cup {Absent}, NEW f \in Field \cup {Absent},
         NEW v \in Value \cup {Absent}
  PROVE  /\ NewJob(kind, id, f, v) \in Job
         /\ NewJob(kind, id, f, v).kind = kind
         /\ NewJob(kind, id, f, v).mux = multiplex
         /\ NewJob(kind, id, f, v).field = f
         /\ NewJob(kind, id, f, v).value = v
<1>1. (kind \in {"update", "ids"}) \in BOOLEAN
  OBVIOUS
<1> QED
  BY <1>1 DEF NewJob, Job

\* The same for a job that adds or deletes a service.
LEMMA NewRowJobTyped ==
  ASSUME multiplex \in Mux, NEW kind \in {"add", "delete"}, NEW id \in Id
  PROVE  /\ NewJob(kind, id, Absent, Absent) \in Job
         /\ NewJob(kind, id, Absent, Absent).kind = kind
         /\ NewJob(kind, id, Absent, Absent).mux = multiplex
         /\ NewJob(kind, id, Absent, Absent).id = id
<1>1. kind \in {"update", "add", "delete", "ids"}
  OBVIOUS
<1>2. (kind \in {"update", "ids"}) \in BOOLEAN
  OBVIOUS
<1> QED
  BY <1>1, <1>2 DEF NewJob, Job

\* Detaching objects changes nothing of where the jobs write.
LEMMA DetachTyped ==
  ASSUME NEW q \in Seq(Job), NEW gone
  PROVE  /\ Detach(q, gone) \in Seq(Job)
         /\ Valued(q) => Valued(Detach(q, gone))
         /\ OwnJobs(q) => OwnJobs(Detach(q, gone))
<1> DEFINE d == [k \in 1..Len(q) |->
                   IF q[k].id \in gone THEN [q[k] EXCEPT !.cached = FALSE] ELSE q[k]]
<1>1. ASSUME NEW j \in Job
      PROVE  LET e == [j EXCEPT !.cached = FALSE]
             IN  /\ e \in Job /\ e.kind = j.kind /\ e.mux = j.mux /\ e.id = j.id
                 /\ e.field = j.field /\ e.value = j.value
  BY DEF Job
<1>2. \A k \in 1..Len(q) : q[k] \in Job
  OBVIOUS
<1>3. \A k \in 1..Len(q) : /\ d[k] \in Job /\ d[k].kind = q[k].kind
                           /\ d[k].mux = q[k].mux /\ d[k].id = q[k].id
                           /\ d[k].field = q[k].field /\ d[k].value = q[k].value
  BY <1>1, <1>2
<1>4. d \in Seq(Job) /\ Len(d) = Len(q)
  BY <1>3
<1>5. Detach(q, gone) = d
  BY DEF Detach
<1> HIDE DEF d
<1>6. (OwnJobs(q) => OwnJobs(d)) /\ (Valued(q) => Valued(d))
  BY <1>3, <1>4 DEF OwnJobs, Valued
<1> QED
  BY <1>4, <1>5, <1>6

\* A job at the end of the queue.
LEMMA AppendJob ==
  ASSUME NEW q \in Seq(Job), NEW j \in Job
  PROVE  /\ Append(q, j) \in Seq(Job)
         /\ OwnJobs(q) /\ (j.kind = "add" => Listed(j.mux, j.id))
              => OwnJobs(Append(q, j))
         /\ Valued(q) /\ (j.kind \in {"update", "ids"}
                            => j.field \in Field /\ j.value \in Value)
              => Valued(Append(q, j))
<1>1. Append(q, j) \in Seq(Job) /\ Len(Append(q, j)) = Len(q) + 1
  OBVIOUS
<1>2. \A k \in 1..Len(Append(q, j)) :
        Append(q, j)[k] = j \/ (k \in 1..Len(q) /\ Append(q, j)[k] = q[k])
  OBVIOUS
<1> QED
  BY <1>1, <1>2 DEF OwnJobs, Valued

\* Updating a service keeps the types, and queues no addition.
LEMMA UpdateInTyped ==
  ASSUME multiplex \in Mux, NEW s \in Seq(Service), NEW q \in Seq(Job),
         NEW id \in Id, NEW f \in Field, NEW v \in Value
  PROVE  LET u == UpdateIn(s, q, id, f, v)
         IN  /\ u.services \in Seq(Service) /\ Len(u.services) = Len(s)
             /\ u.jobs \in Seq(Job) /\ (Valued(q) => Valued(u.jobs))
             /\ OwnJobs(q) => OwnJobs(u.jobs)
<1> DEFINE t == [i \in 1..Len(s) |->
                   IF s[i].id = id THEN [s[i] EXCEPT !.row[f] = v] ELSE s[i]]
<1>1. ASSUME NEW x \in Service PROVE [x EXCEPT !.row[f] = v] \in Service
  BY DEF Service, Row
<1>2. \A i \in 1..Len(s) : t[i] \in Service
  BY <1>1
<1>3. t \in Seq(Service) /\ Len(t) = Len(s)
  BY <1>2
<1>4. /\ Append(q, NewJob("update", id, f, v)) \in Seq(Job)
      /\ Valued(q) => Valued(Append(q, NewJob("update", id, f, v)))
      /\ OwnJobs(q) => OwnJobs(Append(q, NewJob("update", id, f, v)))
  BY NewJobTyped, AppendJob
<1>5. UpdateIn(s, q, id, f, v)
        = IF IndexOf(s, id) = {} THEN [services |-> s, jobs |-> q]
          ELSE [services |-> t, jobs |-> Append(q, NewJob("update", id, f, v))]
  BY DEF UpdateIn
<1> HIDE DEF t
<1> QED
  BY <1>3, <1>4, <1>5

\* Adding a service keeps the types; the job is as good as the table.
LEMMA AddToTyped ==
  ASSUME multiplex \in Mux, NEW s \in Seq(Service), NEW fl \in Seq(SUBSET Table),
         Len(fl) = Len(s), NEW q \in Seq(Job), NEW id \in Id
  PROVE  LET u == AddTo(s, fl, q, id)
         IN  /\ u.services \in Seq(Service) /\ u.flags \in Seq(SUBSET Table)
             /\ Len(u.flags) = Len(u.services)
             /\ u.jobs \in Seq(Job) /\ (Valued(q) => Valued(u.jobs))
             /\ OwnJobs(q) /\ Listed(multiplex, id) => OwnJobs(u.jobs)
<1> DEFINE new == [id |-> id, row |-> NewRow]
           j == NewJob("add", id, Absent, Absent)
<1>1. new \in Service
  BY CacheAssumption DEF Service, Row, NewRow
<1>2. /\ j \in Job /\ j.kind = "add" /\ j.mux = multiplex /\ j.id = id
  BY NewRowJobTyped
<1>3. AddTo(s, fl, q, id) = [services |-> Append(s, new), flags |-> Append(fl, {}),
                             jobs |-> Append(q, j)]
  BY DEF AddTo
<1> HIDE DEF new, j
<1>6. /\ Append(q, j) \in Seq(Job)
      /\ Valued(q) => Valued(Append(q, j))
      /\ OwnJobs(q) /\ Listed(multiplex, id) => OwnJobs(Append(q, j))
  BY <1>2, AppendJob
<1>4. Append(s, new) \in Seq(Service) /\ Len(Append(s, new)) = Len(s) + 1
  BY <1>1
<1>5. Append(fl, {}) \in Seq(SUBSET Table) /\ Len(Append(fl, {})) = Len(fl) + 1
  OBVIOUS
<1> QED
  BY <1>3, <1>4, <1>5, <1>6

-----------------------------------------------------------------------------
(* The steps of the handlers.                                              *)

\* The first index of a service is one of it.
LEMMA FirstIndex ==
  ASSUME NEW s \in Seq(Service), NEW id \in Id, IndexOf(s, id) # {}
  PROVE  (CHOOSE i \in IndexOf(s, id) : TRUE) \in 1..Len(s)
  BY DEF IndexOf

\* One entry of a table keeps the types, and queues an addition only of itself.
LEMMA EntryTyped ==
  ASSUME Typed, NEW id \in Id, Entry(id)
  PROVE  /\ Typed'
         /\ OwnJobs(jobs) /\ Listed(multiplex, id) => OwnJobs(jobs')
<1> DEFINE found == IF InCache(id)
                    THEN [services |-> services, flags |-> Seen(flags, id), jobs |-> jobs]
                    ELSE AddTo(services, flags, jobs, id)
           known == found.services[CHOOSE i \in IndexOf(found.services, id) : TRUE].row[table]
           after == IF known = content[id]
                    THEN [services |-> found.services, jobs |-> found.jobs]
                    ELSE UpdateIn(found.services, found.jobs, id, table, content[id])
<1>1. /\ services' = after.services /\ flags' = found.flags /\ jobs' = after.jobs
      /\ table \in Table /\ id \in todo /\ todo' = todo \ {id}
      /\ UNCHANGED <<multiplex, muxIds, db, dbIds, onAir, told, table, content, next,
                     heard, stale, strays>>
  BY DEF Entry
<1>2. /\ multiplex \in Mux /\ services \in Seq(Service) /\ flags \in Seq(SUBSET Table)
      /\ Len(flags) = Len(services) /\ jobs \in Seq(Job) /\ Valued(jobs)
  BY <1>1 DEF Typed, TypeOK, CacheTypeOK, Table
<1>3. Seen(flags, id) \in Seq(SUBSET Table) /\ Len(Seen(flags, id)) = Len(flags)
  BY <1>2 DEF Seen
<1>4. /\ found.services \in Seq(Service) /\ found.flags \in Seq(SUBSET Table)
      /\ Len(found.flags) = Len(found.services)
      /\ found.jobs \in Seq(Job) /\ Valued(found.jobs)
      /\ OwnJobs(jobs) /\ Listed(multiplex, id) => OwnJobs(found.jobs)
  <2>1. CASE InCache(id)
    BY <1>2, <1>3, <2>1
  <2>2. CASE ~InCache(id)
    BY <1>2, <2>2, AddToTyped
  <2> QED
    BY <2>1, <2>2
<1>5. content[id] \in Value /\ table \in Field
  BY <1>1, TablesAssumption DEF Typed, TypeOK
<1> HIDE DEF found
<1>6. /\ after.services \in Seq(Service) /\ Len(after.services) = Len(found.services)
      /\ after.jobs \in Seq(Job) /\ Valued(after.jobs)
      /\ OwnJobs(found.jobs) => OwnJobs(after.jobs)
  <2>1. CASE known = content[id]
    BY <1>4, <2>1
  <2>2. CASE known # content[id]
    BY <1>2, <1>4, <1>5, <2>2, UpdateInTyped
  <2> QED
    BY <2>1, <2>2
<1> HIDE DEF after
<1>7. Typed'
  BY <1>1, <1>2, <1>4, <1>6 DEF Typed, TypeOK, CacheTypeOK
<1> QED
  BY <1>1, <1>4, <1>6, <1>7

\* The flags of the loop over the services keep their type.
LEMMA MarkedTyped ==
  ASSUME Typed, table \in Table, NEW i
  PROVE  Marked(i) \in Seq(SUBSET Table) /\ Len(Marked(i)) = Len(flags)
<1>1. flags \in Seq(SUBSET Table)
  BY DEF Typed, TypeOK, CacheTypeOK
<1> QED
  BY <1>1 DEF Marked

\* Deleting a service keeps the types, and queues no addition.
LEMMA PruneTyped ==
  ASSUME Typed, Prune
  PROVE  Typed' /\ (OwnJobs(jobs) => OwnJobs(jobs'))
<1>1. PICK i \in Vanished : /\ services' = Without(services, i)
                            /\ flags' = Without(Marked(i), i)
                            /\ jobs' = DeleteJobs(i) /\ next' = i
  BY DEF Prune
<1>2. /\ table \in Table /\ multiplex \in Mux /\ services \in Seq(Service)
      /\ Len(flags) = Len(services) /\ jobs \in Seq(Job) /\ Valued(jobs)
      /\ next \in Nat \ {0}
      /\ UNCHANGED <<multiplex, muxIds, db, dbIds, onAir, told, table, content, todo,
                     heard, stale, strays>>
  BY DEF Prune, Typed, TypeOK, CacheTypeOK, Table
<1>3. i \in 1..Len(services) /\ i \in Nat \ {0} /\ services[i].id \in Id
  <2>1. i \in next..Len(services)
    BY DEF Vanished
  <2>2. i \in 1..Len(services) /\ i \in Nat \ {0}
    BY <1>2, <2>1
  <2>3. services[i] \in Service
    BY <1>2, <2>2
  <2> QED
    BY <2>2, <2>3 DEF Service
<1>4. /\ services' \in Seq(Service) /\ flags' \in Seq(SUBSET Table)
      /\ Len(flags') = Len(services')
  BY <1>1, <1>2, <1>3, WithoutTyped, MarkedTyped, SMTT(20)
<1> DEFINE d == Detach(jobs, {services[i].id})
           j == NewJob("delete", services[i].id, Absent, Absent)
<1>5. /\ d \in Seq(Job) /\ Valued(d) /\ (OwnJobs(jobs) => OwnJobs(d))
  BY <1>2, DetachTyped
<1>6. j \in Job /\ j.kind = "delete"
  BY <1>2, <1>3, NewRowJobTyped
<1>7. jobs' = Append(d, j)
  BY <1>1 DEF DeleteJobs
<1> HIDE DEF d, j
<1>8. jobs' \in Seq(Job) /\ Valued(jobs') /\ (OwnJobs(jobs) => OwnJobs(jobs'))
  BY <1>5, <1>6, <1>7, AppendJob
<1>9. Typed'
  BY <1>1, <1>2, <1>3, <1>4, <1>8 DEF Typed, TypeOK, CacheTypeOK
<1> QED
  BY <1>8, <1>9

\* The end of a table keeps the types, and queues no addition.
LEMMA FinishTyped ==
  ASSUME Typed, NEW v \in Value, Finish(v)
  PROVE  Typed' /\ (OwnJobs(jobs) => OwnJobs(jobs'))
<1>1. /\ table \in Table /\ flags' = Marked(Len(services)) /\ Idle
      /\ UNCHANGED <<multiplex, services, db, dbIds, onAir, told, heard, stale, strays>>
  BY DEF Finish
<1>2. /\ multiplex \in Mux /\ jobs \in Seq(Job) /\ Valued(jobs) /\ table \in Field
      /\ muxIds \in [Field -> Value]
  BY <1>1, TablesAssumption DEF Typed, TypeOK, CacheTypeOK, Table
<1>3. /\ muxIds' \in [Field -> Value] /\ jobs' \in Seq(Job) /\ Valued(jobs')
      /\ OwnJobs(jobs) => OwnJobs(jobs')
  <2>1. CASE UNCHANGED <<muxIds, jobs>>
    BY <1>2, <2>1
  <2>2. CASE /\ muxIds' = [muxIds EXCEPT ![table] = v]
             /\ jobs' = Append(jobs, NewJob("ids", Absent, table, v))
    <3> DEFINE j == NewJob("ids", Absent, table, v)
    <3>1. /\ j \in Job /\ j.kind = "ids" /\ j.field = table /\ j.value = v
      BY <1>2, NewJobTyped
    <3> HIDE DEF j
    <3>2. /\ Append(jobs, j) \in Seq(Job) /\ Valued(Append(jobs, j))
          /\ OwnJobs(jobs) => OwnJobs(Append(jobs, j))
      BY <1>2, <3>1, AppendJob
    <3>3. muxIds' \in [Field -> Value]
      BY <1>2, <2>2
    <3> QED
      BY <2>2, <3>2, <3>3 DEF j
  <2> QED
    BY <2>1, <2>2 DEF Finish, UpdateMultiplex
<1>4. content' = NoTable /\ content' \in Contents /\ todo' = {} /\ next' = 1
      /\ table' = "none"
  <2>1. NoTable \in [{} -> Value] /\ {} \in SUBSET Id
    BY DEF NoTable
  <2> QED
    BY <1>1, <2>1 DEF Idle, Contents
<1>5. flags' \in Seq(SUBSET Table) /\ Len(flags') = Len(services')
  BY <1>1, MarkedTyped DEF Typed, TypeOK, CacheTypeOK
<1>6. Typed'
  BY <1>1, <1>3, <1>4, <1>5 DEF Typed, TypeOK, CacheTypeOK, Contents
<1> QED
  BY <1>3, <1>6

-----------------------------------------------------------------------------
(* The steps of the other threads.                                         *)

\* The beginning of a table keeps the types.
LEMMA BeginTyped ==
  ASSUME Typed, NEW t \in Table, NEW m \in Mux, m = onAir,
         NEW c \in Broadcast[m], Begin(t, c)
  PROVE  /\ Typed' /\ jobs' = jobs
         /\ strays \subseteq strays' /\ OwnTable'
<1>1. /\ table' = t /\ content' = c /\ todo' = DOMAIN c /\ next' = 1
      /\ heard' = [heard EXCEPT ![t] = c]
      /\ stale' = stale + IF onAir = multiplex /\ told = multiplex THEN 0 ELSE 1
      /\ strays' = strays \cup IF onAir = multiplex THEN {} ELSE {multiplex} \X DOMAIN c
      /\ UNCHANGED <<cacheVars, onAir, told>>
  BY DEF Begin
<1>2. c \in Contents
  BY TablesAssumption DEF Contents
<1>3. UNCHANGED <<multiplex, muxIds, services, flags, db, dbIds, jobs>>
  BY <1>1 DEF cacheVars
<1>4. multiplex \in Mux
  BY DEF Begin, Typed
<1>5. stale' \in Nat /\ strays' \subseteq Mux \X Id
  <2>1. stale \in Nat /\ strays \subseteq Mux \X Id
    BY DEF Typed, TypeOK
  <2>2. DOMAIN c \subseteq Id
    BY <1>2 DEF Contents
  <2> QED
    BY <1>1, <1>4, <2>1, <2>2
<1>6. Typed'
  BY <1>1, <1>2, <1>3, <1>4, <1>5 DEF Typed, TypeOK, CacheTypeOK, Contents
<1>7. OwnTable'
  <2>1. multiplex' \in Mux /\ content' = c
    BY <1>1, <1>3, <1>4
  <2>2. ASSUME NEW id \in DOMAIN c PROVE Listed(multiplex, id)'
    BY <1>1, <1>3, <2>2 DEF Listed
  <2> QED
    BY <1>3, <2>1, <2>2 DEF OwnTable
<1> QED
  BY <1>1, <1>3, <1>6, <1>7

\* What a job does to its row.
LEMMA RowAfterTyped ==
  ASSUME NEW r \in Row \cup {Absent}, NEW j \in Job,
         j.kind \in {"update", "ids"} => j.field \in Field /\ j.value \in Value
  PROVE  /\ RowAfter(r, j) \in Row \cup {Absent}
         /\ RowAfter(r, j) # Absent => r # Absent \/ j.kind = "add"
  BY CacheAssumption DEF RowAfter, Row, NewRow

\* What it does to its object.
LEMMA ObjectAfterTyped ==
  ASSUME NEW s \in Service, NEW j \in Job,
         j.kind \in {"update", "ids"} => j.field \in Field /\ j.value \in Value
  PROVE  ObjectAfter(s, j) \in Service
  BY DEF ObjectAfter, Service, Row

\* Running a job keeps the types; it makes a row only if it adds a service.
LEMMA WritesTyped ==
  ASSUME Typed, Writes
  PROVE  /\ Typed'
         /\ OwnJobs(jobs) /\ NoForeignServices => OwnJobs(jobs') /\ NoForeignServices'
<1> DEFINE j == Head(jobs)
<1>1. /\ jobs # <<>> /\ jobs' = Tail(jobs)
      /\ db' = [m \in Mux |-> [id \in Id |->
                  IF <<m, id>> = <<j.mux, j.id>> THEN RowAfter(db[m][id], j)
                                                 ELSE db[m][id]]]
      /\ dbIds' = IF j.kind = "ids" THEN [dbIds EXCEPT ![j.mux][j.field] = j.value]
                                    ELSE dbIds
      /\ services' = [i \in 1..Len(services) |->
                        IF services[i].id = j.id THEN ObjectAfter(services[i], j)
                                                 ELSE services[i]]
      /\ muxIds' = IF j.kind = "ids" /\ j.cached
                   THEN [muxIds EXCEPT ![j.field] = j.value] ELSE muxIds
      /\ UNCHANGED <<multiplex, flags, onAir, told, table, content, todo, next, heard, stale, strays>>
  BY DEF Writes, RunJob
<1>2. /\ services \in Seq(Service) /\ Len(flags) = Len(services) /\ jobs \in Seq(Job)
      /\ Valued(jobs) /\ db \in [Mux -> [Id -> Row \cup {Absent}]]
      /\ dbIds \in [Mux -> [Field -> Value]] /\ muxIds \in [Field -> Value]
  BY DEF Typed, TypeOK, CacheTypeOK
<1>3. /\ j \in Job /\ j = jobs[1] /\ 1 \in 1..Len(jobs)
      /\ Tail(jobs) \in Seq(Job)
      /\ \A k \in 1..Len(Tail(jobs)) :
           k + 1 \in 1..Len(jobs) /\ Tail(jobs)[k] = jobs[k + 1]
  BY <1>1, <1>2
<1>4. j.kind \in {"update", "ids"} => j.field \in Field /\ j.value \in Value
  BY <1>2, <1>3 DEF Valued
<1> HIDE DEF j
<1>5. Valued(jobs') /\ (OwnJobs(jobs) => OwnJobs(jobs'))
  BY <1>1, <1>2, <1>3 DEF Valued, OwnJobs
<1>6. \A i \in 1..Len(services) : ObjectAfter(services[i], j) \in Service
  BY <1>2, <1>3, <1>4, ObjectAfterTyped
<1>7. services' \in Seq(Service) /\ Len(services') = Len(services)
  BY <1>1, <1>2, <1>6
<1>8. \A m \in Mux, id \in Id :
        /\ RowAfter(db[m][id], j) \in Row \cup {Absent}
        /\ RowAfter(db[m][id], j) # Absent => db[m][id] # Absent \/ j.kind = "add"
  BY <1>2, <1>3, <1>4, RowAfterTyped, ZenonT(40)
<1>9. db' \in [Mux -> [Id -> Row \cup {Absent}]]
  BY <1>1, <1>2, <1>8
<1>10. j.mux \in Mux
  BY <1>3 DEF Job
<1>11. dbIds' \in [Mux -> [Field -> Value]] /\ muxIds' \in [Field -> Value]
  BY <1>1, <1>2, <1>4, <1>10
<1>12. Typed'
  BY <1>1, <1>3, <1>5, <1>7, <1>9, <1>11 DEF Typed, TypeOK, CacheTypeOK
<1>13. ASSUME OwnJobs(jobs), NoForeignServices PROVE NoForeignServices'
  <2>1. j.kind = "add" => Listed(j.mux, j.id)
    BY <1>3, <1>13 DEF OwnJobs
  <2>2. ASSUME NEW m \in Mux, NEW id \in Id, db'[m][id] # Absent PROVE Listed(m, id)
    <3>1. db[m][id] # Absent => Listed(m, id)
      BY <1>13 DEF NoForeignServices, Listed
    <3>2. CASE m = j.mux /\ id = j.id
      <4>1. RowAfter(db[m][id], j) # Absent
        BY <1>1, <2>2, <3>2
      <4> QED
        BY <1>8, <2>1, <3>1, <3>2, <4>1
    <3>3. CASE ~(m = j.mux /\ id = j.id)
      BY <1>1, <2>2, <3>1, <3>3
    <3> QED
      BY <3>2, <3>3
  <2>3. strays' = strays
    BY <1>1
  <2> QED
    BY <2>2, <2>3 DEF NoForeignServices, Listed
<1> QED
  BY <1>5, <1>12, <1>13

\* Loading a multiplex keeps the types.
LEMMA TuneTyped ==
  ASSUME Typed, NEW m \in Mux, Tune(m)
  PROVE  /\ Typed' /\ (OwnJobs(jobs) => OwnJobs(jobs'))
         /\ UNCHANGED <<db, table, strays>> /\ table = "none"
<1> DEFINE rows == {id \in Id : db[m][id] # Absent}
<1>1. /\ multiplex' = m /\ muxIds' = dbIds[m] /\ jobs' = Detach(jobs, Id \cup {Absent})
      /\ heard' = [t \in Table |-> Absent] /\ table = "none"
      /\ UNCHANGED <<db, dbIds, onAir, told, table, content, todo, next, stale, strays>>
  BY DEF Tune, Load
<1>2. PICK order \in [1..Cardinality(rows) -> Id] :
        /\ {order[i] : i \in DOMAIN order} = rows
        /\ services' = [i \in DOMAIN order |-> [id |-> order[i], row |-> db[m][order[i]]]]
        /\ flags' = [i \in DOMAIN order |-> {}]
  BY DEF Tune, Load
<1>3. /\ jobs \in Seq(Job) /\ Valued(jobs) /\ db \in [Mux -> [Id -> Row \cup {Absent}]]
      /\ dbIds \in [Mux -> [Field -> Value]]
  BY DEF Typed, TypeOK, CacheTypeOK
<1>4. Cardinality(rows) \in Nat
  <2>1. rows \subseteq Id
    OBVIOUS
  <2> HIDE DEF rows
  <2>2. IsFiniteSet(rows)
    BY <2>1, CacheAssumption, FS_Subset
  <2> QED
    BY <2>2, FS_CardinalityType
<1>5. \A i \in 1..Cardinality(rows) :
        [id |-> order[i], row |-> db[m][order[i]]] \in Service
  <2>1. ASSUME NEW i \in 1..Cardinality(rows)
        PROVE  [id |-> order[i], row |-> db[m][order[i]]] \in Service
    <3>1. i \in DOMAIN order
      BY <1>2
    <3>2. order[i] \in rows
      BY <1>2, <3>1
    <3>3. order[i] \in Id /\ db[m][order[i]] \in Row
      BY <1>3, <3>2
    <3> QED
      BY <3>3 DEF Service
  <2> QED
    BY <2>1
<1> HIDE DEF rows
<1>6. DOMAIN order = 1..Cardinality(rows)
  BY <1>2
<1>7. services' \in Seq(Service) /\ flags' \in Seq(SUBSET Table)
      /\ Len(flags') = Len(services')
  <2>1. PICK n \in Nat : n = Cardinality(rows)
    BY <1>4
  <2>2. services' = [i \in 1..n |-> [id |-> order[i], row |-> db[m][order[i]]]]
    BY <1>2, <1>6, <2>1
  <2>3. flags' = [i \in 1..n |-> {}]
    BY <1>2, <1>6, <2>1
  <2>4. \A i \in 1..n : [id |-> order[i], row |-> db[m][order[i]]] \in Service
    BY <1>5, <2>1
  <2>5. services' \in Seq(Service) /\ Len(services') = n
    BY <2>1, <2>2, <2>4
  <2>6. flags' \in Seq(SUBSET Table) /\ Len(flags') = n
    BY <2>1, <2>3
  <2> QED
    BY <2>5, <2>6
<1>8. jobs' \in Seq(Job) /\ Valued(jobs') /\ (OwnJobs(jobs) => OwnJobs(jobs'))
  BY <1>1, <1>3, DetachTyped
<1>9. muxIds' \in [Field -> Value]
  BY <1>1, <1>3
<1>10. Typed'
  BY <1>1, <1>7, <1>8, <1>9 DEF Typed, TypeOK, CacheTypeOK
<1> QED
  BY <1>1, <1>8, <1>10

\* A restart keeps the types and the rows; no job is left.
LEMMA RestartTyped ==
  ASSUME Typed, Restart
  PROVE  Typed' /\ jobs' = <<>> /\ UNCHANGED <<db, strays>> /\ table' = "none"
<1>1. /\ multiplex' = NoMux /\ muxIds' = [f \in Field |-> Default] /\ services' = <<>>
      /\ flags' = <<>> /\ jobs' = <<>> /\ UNCHANGED <<db, dbIds, stale, strays>>
      /\ table' = "none" /\ content' = NoTable /\ todo' = {} /\ next' = 1
      /\ told' = NoMux /\ onAir' = NoMux /\ heard' = [t \in Table |-> Absent]
  BY DEF Restart, Start, Idle
<1>2. content' \in Contents
  BY <1>1, CacheAssumption DEF NoTable, Contents
<1>3. jobs' \in Seq(Job) /\ Valued(jobs') /\ services' \in Seq(Service)
      /\ flags' \in Seq(SUBSET Table) /\ Len(flags') = Len(services')
  BY <1>1 DEF Valued
<1>4. muxIds' \in [Field -> Value]
  BY <1>1, CacheAssumption
<1> QED
  BY <1>1, <1>2, <1>3, <1>4 DEF Typed, TypeOK, CacheTypeOK, Contents

\* The other threads' other steps keep the types.
LEMMA NewsTyped ==
  ASSUME Typed, Arrive \/ Notify
  PROVE  Typed' /\ jobs' = jobs /\ UNCHANGED <<db, strays>> /\ table' = "none"
<1>1. /\ multiplex \in Mux /\ table' = "none" /\ table = "none"
      /\ UNCHANGED <<multiplex, muxIds, services, flags, db, dbIds, jobs, content, todo,
                     next, heard, stale, strays>>
  BY DEF Arrive, Notify, cacheVars, Typed, TypeOK, CacheTypeOK
<1>2. onAir' \in Mux \cup {NoMux} /\ told' \in Mux \cup {NoMux}
  BY <1>1 DEF Arrive, Notify, Typed, TypeOK
<1> QED
  BY <1>1, <1>2 DEF Typed, TypeOK, CacheTypeOK

-----------------------------------------------------------------------------
(* Theorems.                                                               *)

\* The initial state has the types.
LEMMA InitTyped ==
  ASSUME Init PROVE Typed
<1>1. /\ multiplex = NoMux /\ muxIds = [f \in Field |-> Default] /\ services = <<>>
      /\ flags = <<>> /\ jobs = <<>>
      /\ table = "none" /\ content = NoTable /\ todo = {} /\ next = 1
      /\ told = NoMux /\ onAir = NoMux /\ heard = [t \in Table |-> Absent]
      /\ db = [m \in Mux |-> [id \in Id |-> Absent]]
      /\ dbIds = [m \in Mux |-> [f \in Field |-> Default]]
      /\ stale = 0 /\ strays = {}
  BY DEF Init, CacheInit
<1>2. content \in Contents
  <2>1. NoTable \in [{} -> Value]
    BY DEF NoTable
  <2>2. {} \in SUBSET Id
    OBVIOUS
  <2> QED
    BY <1>1, <2>1, <2>2 DEF Contents
<1>3. jobs \in Seq(Job) /\ Valued(jobs) /\ services \in Seq(Service)
      /\ flags \in Seq(SUBSET Table) /\ Len(flags) = Len(services)
  BY <1>1 DEF Valued
<1>4. muxIds \in [Field -> Value] /\ dbIds \in [Mux -> [Field -> Value]]
      /\ db \in [Mux -> [Id -> Row \cup {Absent}]]
  BY <1>1, CacheAssumption
<1> QED
  BY <1>1, <1>2, <1>3, <1>4 DEF Typed, TypeOK, CacheTypeOK, Contents

\* Every step keeps the types.
LEMMA StepTyped ==
  ASSUME Typed, [Next]_vars
  PROVE  Typed'
<1>1. ASSUME NEW t \in Table, NEW m \in Mux, NEW c \in Broadcast[m], m = onAir,
             Begin(t, c)
      PROVE  Typed'
  BY <1>1, BeginTyped
<1>2. ASSUME NEW id \in Id, Entry(id) PROVE Typed'
  BY <1>2, EntryTyped
<1>3. CASE Prune
  BY <1>3, PruneTyped
<1>4. ASSUME NEW v \in Value, Finish(v) PROVE Typed'
  BY <1>4, FinishTyped
<1>5. CASE Writes
  BY <1>5, WritesTyped
<1>6. ASSUME NEW m \in Mux, Tune(m) PROVE Typed'
  BY <1>6, TuneTyped
<1>7. CASE Arrive \/ Notify
  BY <1>7, NewsTyped
<1>8. CASE Restart
  BY <1>8, RestartTyped
<1>9. CASE UNCHANGED vars
  BY <1>9 DEF vars, cacheVars, Typed, TypeOK, CacheTypeOK, Valued
<1> QED
  BY <1>1, <1>2, <1>3, <1>4, <1>5, <1>6, <1>7, <1>8, <1>9 DEF Next

\* The variables of the cache and of its callers keep their types, the arrays of
\* services and flags (cache.c:52) their common length.
THEOREM TypeCorrect == Spec => []TypeOK
<1>1. Init => Typed
  BY InitTyped
<1>2. Typed /\ [Next]_vars => Typed'
  BY StepTyped
<1>3. Typed => TypeOK
  BY DEF Typed
<1> QED
  BY <1>1, <1>2, <1>3, PTL DEF Spec

\* What the table, the queue and the rows hold belongs to the right multiplex.
Own == Typed /\ OwnTable /\ OwnJobs(jobs) /\ NoForeignServices

\* Nothing does when the program starts for the first time.
LEMMA InitOwn ==
  ASSUME Init PROVE Own
<1>1. table = "none" /\ jobs = <<>> /\ db = [m \in Mux |-> [id \in Id |-> Absent]]
  BY DEF Init, CacheInit
<1>2. OwnJobs(jobs)
  BY <1>1 DEF OwnJobs
<1>3. OwnTable /\ NoForeignServices
  BY <1>1 DEF OwnTable, NoForeignServices
<1> QED
  BY <1>2, <1>3, InitTyped DEF Own

\* Every step keeps it so, also where a table is not of the multiplex that is
\* cached.
LEMMA StepOwn ==
  ASSUME Own, [Next]_vars
  PROVE  Own'
<1>0. Typed /\ OwnTable /\ OwnJobs(jobs) /\ NoForeignServices /\ Typed'
  BY StepTyped DEF Own
<1>1. ASSUME NEW t \in Table, NEW m \in Mux, NEW c \in Broadcast[m], m = onAir,
             Begin(t, c)
      PROVE  Own'
  <2>1. db' = db /\ jobs' = jobs
    BY <1>1 DEF Begin, cacheVars
  <2>2. OwnTable' /\ strays \subseteq strays'
    BY <1>0, <1>1, BeginTyped
  <2>3. OwnJobs(jobs)' /\ NoForeignServices'
    BY <1>0, <2>1, <2>2 DEF OwnJobs, NoForeignServices, Listed
  <2> QED
    BY <1>0, <2>2, <2>3 DEF Own
<1>2. ASSUME NEW id \in Id, Entry(id) PROVE Own'
  <2>1. table \in Table /\ id \in todo /\ UNCHANGED <<multiplex, db, table, content, strays>>
    BY <1>2 DEF Entry
  <2>2. Listed(multiplex, id)
    BY <1>0, <2>1 DEF OwnTable, Typed, TypeOK, Table
  <2>3. OwnJobs(jobs')
    BY <1>0, <1>2, <2>2, EntryTyped
  <2> QED
    BY <1>0, <2>1, <2>3 DEF Own, OwnTable, NoForeignServices, OwnJobs, Listed
<1>3. CASE Prune
  <2>1. UNCHANGED <<multiplex, db, table, content, strays>> /\ OwnJobs(jobs')
    BY <1>0, <1>3, PruneTyped DEF Prune
  <2> QED
    BY <1>0, <2>1 DEF Own, OwnTable, NoForeignServices, OwnJobs, Listed
<1>4. ASSUME NEW v \in Value, Finish(v) PROVE Own'
  <2>1. UNCHANGED <<db, strays>> /\ table' = "none" /\ OwnJobs(jobs')
    BY <1>0, <1>4, FinishTyped DEF Finish, Idle
  <2> QED
    BY <1>0, <2>1 DEF Own, OwnTable, NoForeignServices, OwnJobs, Listed
<1>5. CASE Writes
  <2>1. UNCHANGED <<multiplex, table, content, strays>>
    BY <1>5 DEF Writes, RunJob
  <2>2. OwnJobs(jobs') /\ NoForeignServices'
    BY <1>0, <1>5, WritesTyped
  <2> QED
    BY <1>0, <2>1, <2>2 DEF Own, OwnTable, OwnJobs, Listed
<1>6. ASSUME NEW m \in Mux, Tune(m) PROVE Own'
  <2>1. UNCHANGED <<db, strays>> /\ table' = "none" /\ OwnJobs(jobs')
    BY <1>0, <1>6, TuneTyped
  <2> QED
    BY <1>0, <2>1 DEF Own, OwnTable, NoForeignServices, OwnJobs, Listed
<1>7. CASE Arrive \/ Notify
  <2>1. UNCHANGED <<db, strays>> /\ jobs' = jobs /\ table' = "none"
    BY <1>0, <1>7, NewsTyped
  <2> QED
    BY <1>0, <2>1 DEF Own, OwnTable, NoForeignServices, OwnJobs, Listed
<1>8. CASE Restart
  <2>1. UNCHANGED <<db, strays>> /\ jobs' = <<>> /\ table' = "none"
    BY <1>0, <1>8, RestartTyped
  <2>2. OwnJobs(jobs')
    BY <2>1 DEF OwnJobs
  <2> QED
    BY <1>0, <2>1, <2>2 DEF Own, OwnTable, NoForeignServices, OwnJobs, Listed
<1>9. CASE UNCHANGED vars
  BY <1>0, <1>9 DEF vars, cacheVars, Own, OwnTable, NoForeignServices, OwnJobs, Listed
<1> QED
  BY <1>1, <1>2, <1>3, <1>4, <1>5, <1>6, <1>7, <1>8, <1>9 DEF Next

\* Jobs name the multiplex they were queued for (cache.c:634-641), so rows never
\* get under another one, whenever the user tunes and however late jobs run: only a
\* table of the multiplex before that is handled after the tune (patprocessor.c:143)
\* puts them there, and then only the services it lists.
THEOREM ServicesStayHome == Spec => []NoForeignServices
<1>1. Init => Own
  BY InitOwn
<1>2. Own /\ [Next]_vars => Own'
  BY StepOwn
<1>3. Own => NoForeignServices
  BY DEF Own
<1> QED
  BY <1>1, <1>2, <1>3, PTL DEF Spec

-----------------------------------------------------------------------------
(* What the queued jobs will make of a row and of a cached object.         *)

\* A job for service id of multiplex m.
For(j, m, id) == j.mux = m /\ j.id = id

\* The row r of the service after each of the jobs q.
RowTrace(f, r, q, m, id) ==
  /\ f \in [0..Len(q) -> Row \cup {Absent}] /\ f[0] = r
  /\ \A k \in 1..Len(q) :
       f[k] = IF For(q[k], m, id) THEN RowAfter(f[k - 1], q[k]) ELSE f[k - 1]

\* The object s after each of them.
ObjectTrace(g, s, q) ==
  /\ g \in [0..Len(q) -> Service] /\ g[0] = s
  /\ \A k \in 1..Len(q) :
       g[k] = IF q[k].id = s.id THEN ObjectAfter(g[k - 1], q[k]) ELSE g[k - 1]

\* They end as row e and as object o.
RowEnds(r, q, m, id, e) == \E f : RowTrace(f, r, q, m, id) /\ f[Len(q)] = e

ObjectEnds(s, q, o) == \E g : ObjectTrace(g, s, q) /\ g[Len(q)] = o

\* A queue of jobs, each with what it writes.
Queue(q) == q \in Seq(Job) /\ Valued(q)

\* Natural numbers are counted from the least.
LEMMA LeastNumber ==
  ASSUME NEW T \in SUBSET Nat, T # {}
  PROVE  \E m \in T : \A k \in T : m <= k
<1> DEFINE R == OpToRel(<, Nat)
<1>1. IsWellFoundedOn(R, Nat)
  BY NatLessThanWellFounded
<1>2. \A x, y \in Nat : <<x, y>> \in R <=> x < y
  BY DEF OpToRel
<1> HIDE DEF R
<1>3. T \subseteq Nat
  OBVIOUS
<1>4. \E x \in T : \A y \in T : ~ (<<y, x>> \in R)
  BY <1>1, <1>3, WFMin
<1>5. PICK x \in T : \A y \in T : ~ (<<y, x>> \in R)
  BY <1>4
<1>6. ASSUME NEW y \in T PROVE x <= y
  <2>1. x \in Nat /\ y \in Nat /\ ~ (y < x)
    BY <1>2, <1>3, <1>5
  <2> QED
    BY <2>1
<1> QED
  BY <1>6

\* Two functions that agree at the start, and at each place after one at which they
\* agree, are one.
LEMMA SameSteps ==
  ASSUME NEW n \in Nat, NEW f, NEW g, f[0] = g[0],
         \A k \in 1..n : f[k - 1] = g[k - 1] => f[k] = g[k]
  PROVE  \A k \in 0..n : f[k] = g[k]
<1> DEFINE T == {k \in 0..n : f[k] # g[k]}
<1>1. SUFFICES ASSUME T # {} PROVE FALSE
  OBVIOUS
<1>2. T \in SUBSET Nat
  OBVIOUS
<1>3. PICK k \in T : \A l \in T : k <= l
  BY <1>1, <1>2, LeastNumber
<1>4. k \in 1..n /\ f[k] # g[k]
  BY <1>3
<1>5. k - 1 \in 0..n /\ ~(k <= k - 1)
  BY <1>4
<1>6. f[k - 1] = g[k - 1]
  BY <1>3, <1>5
<1> QED
  BY <1>4, <1>6

\* Whoever computes the row after the jobs finds the end of its trace.
LEMMA RowThenIsEnd ==
  ASSUME Queue(jobs), NEW id, NEW e, RowEnds(db[multiplex][id], jobs, multiplex, id, e)
  PROVE  RowThen(id) = e
<1> DEFINE n == Len(jobs)
           Step(f) == [k \in 0..n |->
                 IF k = 0 THEN db[multiplex][id]
                 ELSE IF <<jobs[k].mux, jobs[k].id>> = <<multiplex, id>>
                      THEN RowAfter(f[k - 1], jobs[k]) ELSE f[k - 1]]
           then == CHOOSE f : f = Step(f)
<1>1. RowThen(id) = then[n]
  BY DEF RowThen
<1>2. n \in Nat
  BY DEF Queue
<1>3. PICK f : RowTrace(f, db[multiplex][id], jobs, multiplex, id) /\ f[n] = e
  BY DEF RowEnds
<1>4. f = Step(f)
  BY <1>2, <1>3 DEF RowTrace, For
<1>5. then = Step(then)
  BY <1>4
<1> HIDE DEF then
<1>6. f[0] = then[0]
  BY <1>2, <1>4, <1>5
<1>7. \A k \in 1..n : f[k - 1] = then[k - 1] => f[k] = then[k]
  <2>1. ASSUME NEW h, h = Step(h), NEW k \in 1..n
        PROVE  h[k] = IF <<jobs[k].mux, jobs[k].id>> = <<multiplex, id>>
                   THEN RowAfter(h[k - 1], jobs[k]) ELSE h[k - 1]
    <3>1. k \in 0..n /\ k # 0
      BY <1>2
    <3>2. h[k] = Step(h)[k]
      BY <2>1
    <3> QED
      BY <3>1, <3>2
  <2> HIDE DEF Step
  <2>2. TAKE k \in 1..n
  <2>3. HAVE f[k - 1] = then[k - 1]
  <2>4. f[k] = IF <<jobs[k].mux, jobs[k].id>> = <<multiplex, id>>
                THEN RowAfter(f[k - 1], jobs[k]) ELSE f[k - 1]
    BY <1>4, <2>1
  <2>5. then[k] = IF <<jobs[k].mux, jobs[k].id>> = <<multiplex, id>>
                THEN RowAfter(then[k - 1], jobs[k]) ELSE then[k - 1]
    BY <1>5, <2>1
  <2> QED
    BY <2>3, <2>4, <2>5
<1> HIDE DEF n
<1>8. f[n] = then[n]
  BY <1>2, <1>6, <1>7, SameSteps
<1> QED
  BY <1>1, <1>3, <1>8

\* The same for an object.
LEMMA ObjectThenIsEnd ==
  ASSUME Queue(jobs), NEW i, NEW o, ObjectEnds(services[i], jobs, o)
  PROVE  ObjectThen(i) = o
<1> DEFINE n == Len(jobs)
           Step(f) == [k \in 0..n |->
                 IF k = 0 THEN services[i]
                 ELSE IF jobs[k].id = services[i].id THEN ObjectAfter(f[k - 1], jobs[k])
                      ELSE f[k - 1]]
           then == CHOOSE f : f = Step(f)
<1>1. ObjectThen(i) = then[n]
  BY DEF ObjectThen
<1>2. n \in Nat
  BY DEF Queue
<1>3. PICK g : ObjectTrace(g, services[i], jobs) /\ g[n] = o
  BY DEF ObjectEnds
<1>4. g = Step(g)
  BY <1>2, <1>3 DEF ObjectTrace
<1>5. then = Step(then)
  BY <1>4
<1> HIDE DEF then
<1>6. g[0] = then[0]
  BY <1>2, <1>4, <1>5
<1>7. \A k \in 1..n : g[k - 1] = then[k - 1] => g[k] = then[k]
  <2>1. ASSUME NEW h, h = Step(h), NEW k \in 1..n
        PROVE  h[k] = IF jobs[k].id = services[i].id
                   THEN ObjectAfter(h[k - 1], jobs[k]) ELSE h[k - 1]
    <3>1. k \in 0..n /\ k # 0
      BY <1>2
    <3>2. h[k] = Step(h)[k]
      BY <2>1
    <3> QED
      BY <3>1, <3>2
  <2> HIDE DEF Step
  <2>2. TAKE k \in 1..n
  <2>3. HAVE g[k - 1] = then[k - 1]
  <2>4. g[k] = IF jobs[k].id = services[i].id THEN ObjectAfter(g[k - 1], jobs[k])
                ELSE g[k - 1]
    BY <1>4, <2>1
  <2>5. then[k] = IF jobs[k].id = services[i].id THEN ObjectAfter(then[k - 1], jobs[k])
                ELSE then[k - 1]
    BY <1>5, <2>1
  <2> QED
    BY <2>3, <2>4, <2>5
<1> HIDE DEF n
<1>8. g[n] = then[n]
  BY <1>2, <1>6, <1>7, SameSteps
<1> QED
  BY <1>1, <1>3, <1>8

\* A job added at the end goes on from where the others end.
LEMMA RowEndsAppend ==
  ASSUME NEW q, Queue(q), NEW j \in Job, Valued(<<j>>), NEW r, NEW m, NEW id, NEW e,
         RowEnds(r, q, m, id, e)
  PROVE  RowEnds(r, Append(q, j), m, id, IF For(j, m, id) THEN RowAfter(e, j) ELSE e)
<1> DEFINE n == Len(q)
           e1 == IF For(j, m, id) THEN RowAfter(e, j) ELSE e
<1>1. PICK f : RowTrace(f, r, q, m, id) /\ f[n] = e
  BY DEF RowEnds
<1>2. n \in Nat /\ q \in Seq(Job)
  BY DEF Queue
<1>3. e \in Row \cup {Absent}
  BY <1>1, <1>2 DEF RowTrace
<1>4. e1 \in Row \cup {Absent}
  BY <1>3, RowAfterTyped DEF Valued
<1>5. /\ Len(Append(q, j)) = n + 1 /\ Append(q, j)[n + 1] = j
      /\ \A k \in 1..n : Append(q, j)[k] = q[k]
  BY <1>2
<1> DEFINE h == [k \in 0..n + 1 |-> IF k = n + 1 THEN e1 ELSE f[k]]
<1> HIDE DEF e1
<1>6. h \in [0..n + 1 -> Row \cup {Absent}] /\ h[0] = r /\ h[n + 1] = e1
  BY <1>1, <1>2, <1>4 DEF RowTrace
<1>7. ASSUME NEW k \in 1..n + 1
      PROVE  h[k] = IF For(Append(q, j)[k], m, id)
                    THEN RowAfter(h[k - 1], Append(q, j)[k]) ELSE h[k - 1]
  <2>1. CASE k = n + 1
    <3>1. h[k] = e1 /\ h[k - 1] = e
      BY <1>1, <1>2, <2>1
    <3> QED
      BY <1>5, <2>1, <3>1 DEF e1
  <2>2. CASE k \in 1..n
    <3>1. h[k] = f[k] /\ h[k - 1] = f[k - 1]
      BY <1>2, <2>2
    <3> QED
      BY <1>1, <1>5, <2>2, <3>1 DEF RowTrace
  <2> QED
    BY <1>2, <2>1, <2>2
<1> HIDE DEF h
<1>8. RowTrace(h, r, Append(q, j), m, id)
  BY <1>5, <1>6, <1>7 DEF RowTrace
<1> QED
  BY <1>5, <1>6, <1>8 DEF RowEnds, e1

\* The same for an object.
LEMMA ObjectEndsAppend ==
  ASSUME NEW q, Queue(q), NEW j \in Job, Valued(<<j>>), NEW s, NEW o,
         ObjectEnds(s, q, o)
  PROVE  ObjectEnds(s, Append(q, j), IF j.id = s.id THEN ObjectAfter(o, j) ELSE o)
<1> DEFINE n == Len(q)
           o1 == IF j.id = s.id THEN ObjectAfter(o, j) ELSE o
<1>1. PICK g : ObjectTrace(g, s, q) /\ g[n] = o
  BY DEF ObjectEnds
<1>2. n \in Nat /\ q \in Seq(Job)
  BY DEF Queue
<1>3. o \in Service
  BY <1>1, <1>2 DEF ObjectTrace
<1>4. o1 \in Service
  BY <1>3, ObjectAfterTyped DEF Valued
<1>5. /\ Len(Append(q, j)) = n + 1 /\ Append(q, j)[n + 1] = j
      /\ \A k \in 1..n : Append(q, j)[k] = q[k]
  BY <1>2
<1> DEFINE h == [k \in 0..n + 1 |-> IF k = n + 1 THEN o1 ELSE g[k]]
<1> HIDE DEF o1
<1>6. h \in [0..n + 1 -> Service] /\ h[0] = s /\ h[n + 1] = o1
  BY <1>1, <1>2, <1>4 DEF ObjectTrace
<1>7. ASSUME NEW k \in 1..n + 1
      PROVE  h[k] = IF Append(q, j)[k].id = s.id
                    THEN ObjectAfter(h[k - 1], Append(q, j)[k]) ELSE h[k - 1]
  <2>1. CASE k = n + 1
    <3>1. h[k] = o1 /\ h[k - 1] = o
      BY <1>1, <1>2, <2>1
    <3> QED
      BY <1>5, <2>1, <3>1 DEF o1
  <2>2. CASE k \in 1..n
    <3>1. h[k] = g[k] /\ h[k - 1] = g[k - 1]
      BY <1>2, <2>2
    <3> QED
      BY <1>1, <1>5, <2>2, <3>1 DEF ObjectTrace
  <2> QED
    BY <1>2, <2>1, <2>2
<1> HIDE DEF h
<1>8. ObjectTrace(h, s, Append(q, j))
  BY <1>5, <1>6, <1>7 DEF ObjectTrace
<1> QED
  BY <1>5, <1>6, <1>8 DEF ObjectEnds, o1

\* The first job run, the others end where they did.
LEMMA EndsTail ==
  ASSUME NEW q, Queue(q), q # <<>>
  PROVE  /\ \A r, m, id, e :
              RowEnds(r, q, m, id, e)
                => RowEnds(IF For(Head(q), m, id) THEN RowAfter(r, Head(q)) ELSE r,
                           Tail(q), m, id, e)
         /\ \A s, o :
              ObjectEnds(s, q, o)
                => ObjectEnds(IF Head(q).id = s.id THEN ObjectAfter(s, Head(q)) ELSE s,
                              Tail(q), o)
<1> DEFINE n == Len(q)
<1>1. n \in Nat \ {0} /\ q \in Seq(Job)
  BY DEF Queue
<1>2. /\ Len(Tail(q)) = n - 1 /\ Head(q) = q[1]
      /\ \A k \in 1..n - 1 : Tail(q)[k] = q[k + 1]
  BY <1>1
<1> HIDE DEF n
<1>3. ASSUME NEW r, NEW m, NEW id, NEW e, RowEnds(r, q, m, id, e)
      PROVE  RowEnds(IF For(Head(q), m, id) THEN RowAfter(r, Head(q)) ELSE r,
                     Tail(q), m, id, e)
  <2>1. PICK f : RowTrace(f, r, q, m, id) /\ f[n] = e
    BY <1>3 DEF RowEnds, n
  <2> DEFINE h == [k \in 0..n - 1 |-> f[k + 1]]
  <2>2. f \in [0..n -> Row \cup {Absent}] /\ f[0] = r
        /\ \A k \in 1..n : f[k] = IF For(q[k], m, id) THEN RowAfter(f[k - 1], q[k])
                                                      ELSE f[k - 1]
    BY <2>1 DEF RowTrace, n
  <2>3. h \in [0..n - 1 -> Row \cup {Absent}] /\ h[n - 1] = e
    BY <1>1, <2>1, <2>2
  <2>4. h[0] = IF For(Head(q), m, id) THEN RowAfter(r, Head(q)) ELSE r
    <3>1. h[0] = f[1] /\ 1 \in 1..n /\ 1 - 1 = 0
      BY <1>1
    <3> QED
      BY <1>2, <2>2, <3>1
  <2>5. ASSUME NEW k \in 1..n - 1
        PROVE  h[k] = IF For(Tail(q)[k], m, id) THEN RowAfter(h[k - 1], Tail(q)[k])
                                                ELSE h[k - 1]
    <3>1. h[k] = f[k + 1] /\ h[k - 1] = f[k] /\ k + 1 \in 1..n /\ (k + 1) - 1 = k
      BY <1>1
    <3> HIDE DEF h
    <3> QED
      BY <1>2, <2>2, <3>1
  <2> HIDE DEF h
  <2> QED
    BY <1>2, <2>3, <2>4, <2>5 DEF RowEnds, RowTrace
<1>4. ASSUME NEW s, NEW o, ObjectEnds(s, q, o)
      PROVE  ObjectEnds(IF Head(q).id = s.id THEN ObjectAfter(s, Head(q)) ELSE s,
                        Tail(q), o)
  <2>1. PICK g : ObjectTrace(g, s, q) /\ g[n] = o
    BY <1>4 DEF ObjectEnds, n
  <2> DEFINE h == [k \in 0..n - 1 |-> g[k + 1]]
             s1 == IF Head(q).id = s.id THEN ObjectAfter(s, Head(q)) ELSE s
  <2>2. g \in [0..n -> Service] /\ g[0] = s
        /\ \A k \in 1..n : g[k] = IF q[k].id = s.id THEN ObjectAfter(g[k - 1], q[k])
                                                    ELSE g[k - 1]
    BY <2>1 DEF ObjectTrace, n
  <2>3. h \in [0..n - 1 -> Service] /\ h[n - 1] = o
    BY <1>1, <2>1, <2>2
  <2>4. h[0] = s1
    <3>1. h[0] = g[1] /\ 1 \in 1..n /\ 1 - 1 = 0
      BY <1>1
    <3> QED
      BY <1>2, <2>2, <3>1
  <2>5. s1.id = s.id
    <3>1. s \in Service
      BY <1>1, <2>2
    <3> QED
      BY <3>1 DEF ObjectAfter, Service
  <2>6. ASSUME NEW k \in 1..n - 1
        PROVE  h[k] = IF Tail(q)[k].id = s1.id THEN ObjectAfter(h[k - 1], Tail(q)[k])
                                               ELSE h[k - 1]
    <3>1. h[k] = g[k + 1] /\ h[k - 1] = g[k] /\ k + 1 \in 1..n /\ (k + 1) - 1 = k
      BY <1>1
    <3> HIDE DEF h, s1
    <3> QED
      BY <1>2, <2>2, <2>5, <3>1
  <2> HIDE DEF h, s1
  <2>7. ObjectEnds(s1, Tail(q), o)
    BY <1>2, <2>3, <2>4, <2>6 DEF ObjectEnds, ObjectTrace
  <2> QED
    BY <2>7 DEF s1
<1> QED
  BY <1>3, <1>4

\* Objects that leave the cache change nothing of where rows end, and of where
\* other objects do.
LEMMA EndsDetach ==
  ASSUME NEW q, Queue(q), NEW gone
  PROVE  /\ \A r, m, id, e : RowEnds(r, q, m, id, e) => RowEnds(r, Detach(q, gone), m, id, e)
         /\ \A s, o : ObjectEnds(s, q, o) /\ s.id \notin gone
                        => ObjectEnds(s, Detach(q, gone), o)
<1> DEFINE d == Detach(q, gone)
<1>1. Len(q) \in Nat /\ \A k \in 1..Len(q) : q[k] \in Job
  BY DEF Queue
<1>2. ASSUME NEW j \in Job
      PROVE  LET e == [j EXCEPT !.cached = FALSE]
             IN  /\ e.kind = j.kind /\ e.mux = j.mux /\ e.id = j.id
                 /\ e.field = j.field /\ e.value = j.value
  BY DEF Job
<1>3. /\ Len(d) = Len(q)
      /\ \A k \in 1..Len(q) :
           /\ d[k].kind = q[k].kind /\ d[k].mux = q[k].mux /\ d[k].id = q[k].id
           /\ d[k].field = q[k].field /\ d[k].value = q[k].value
           /\ q[k].id \notin gone => d[k] = q[k]
  BY <1>1, <1>2 DEF Detach
<1> HIDE DEF d
<1>4. ASSUME NEW r, NEW m, NEW id, NEW e, RowEnds(r, q, m, id, e)
      PROVE  RowEnds(r, d, m, id, e)
  <2>1. PICK f : RowTrace(f, r, q, m, id) /\ f[Len(q)] = e
    BY <1>4 DEF RowEnds
  <2>2. \A k \in 1..Len(q) : /\ For(d[k], m, id) <=> For(q[k], m, id)
                             /\ RowAfter(f[k - 1], d[k]) = RowAfter(f[k - 1], q[k])
    BY <1>3 DEF For, RowAfter
  <2>3. RowTrace(f, r, d, m, id)
    BY <1>3, <2>1, <2>2 DEF RowTrace
  <2> QED
    BY <1>3, <2>1, <2>3 DEF RowEnds
<1>5. ASSUME NEW s, NEW o, ObjectEnds(s, q, o), s.id \notin gone
      PROVE  ObjectEnds(s, d, o)
  <2>1. PICK g : ObjectTrace(g, s, q) /\ g[Len(q)] = o
    BY <1>5 DEF ObjectEnds
  <2>2. \A k \in 1..Len(q) : IF d[k].id = s.id THEN d[k] = q[k] ELSE q[k].id # s.id
    BY <1>3, <1>5
  <2>3. ObjectTrace(g, s, d)
    BY <1>3, <2>1, <2>2 DEF ObjectTrace
  <2> QED
    BY <1>3, <2>1, <2>3 DEF ObjectEnds
<1> QED
  BY <1>4, <1>5 DEF d

\* A row no job is for, and an object no job writes, end as they are.
LEMMA EndsUntouched ==
  ASSUME NEW q, Queue(q)
  PROVE  /\ \A r \in Row \cup {Absent} : \A m, id :
              (\A k \in 1..Len(q) : ~For(q[k], m, id)) => RowEnds(r, q, m, id, r)
         /\ \A s \in Service :
              (\A k \in 1..Len(q) : q[k].id = s.id => ~q[k].cached) => ObjectEnds(s, q, s)
<1>1. Len(q) \in Nat
  BY DEF Queue
<1>2. ASSUME NEW r \in Row \cup {Absent}, NEW m, NEW id,
             \A k \in 1..Len(q) : ~For(q[k], m, id)
      PROVE  RowEnds(r, q, m, id, r)
  <2> DEFINE f == [k \in 0..Len(q) |-> r]
  <2>1. f \in [0..Len(q) -> Row \cup {Absent}] /\ f[0] = r /\ f[Len(q)] = r
    BY <1>1
  <2>2. \A k \in 1..Len(q) : f[k] = f[k - 1]
    BY <1>1
  <2> HIDE DEF f
  <2> QED
    BY <1>2, <2>1, <2>2 DEF RowEnds, RowTrace
<1>3. ASSUME NEW s \in Service, \A k \in 1..Len(q) : q[k].id = s.id => ~q[k].cached
      PROVE  ObjectEnds(s, q, s)
  <2> DEFINE g == [k \in 0..Len(q) |-> s]
  <2>1. g \in [0..Len(q) -> Service] /\ g[0] = s /\ g[Len(q)] = s
    BY <1>1
  <2>2. \A k \in 1..Len(q) : g[k] = s /\ g[k - 1] = s
    BY <1>1
  <2>3. \A k \in 1..Len(q) : q[k].id = s.id => ObjectAfter(s, q[k]) = s
    BY <1>3 DEF ObjectAfter
  <2> HIDE DEF g
  <2> QED
    BY <2>1, <2>2, <2>3 DEF ObjectEnds, ObjectTrace
<1> QED
  BY <1>2, <1>3

\* The service with v for field h.
With(s, h, v) == [s EXCEPT !.row[h] = v]

\* A job that writes the object writes over v or leaves it alone.
LEMMA AfterWith ==
  ASSUME NEW s \in Service, NEW j \in Job, NEW h \in Field, NEW v \in Value,
         j.kind \in {"update", "ids"} => j.field \in Field /\ j.value \in Value
  PROVE  IF j.kind = "update" /\ j.cached /\ j.field = h
         THEN ObjectAfter(With(s, h, v), j) = ObjectAfter(s, j)
         ELSE ObjectAfter(With(s, h, v), j) = With(ObjectAfter(s, j), h, v)
<1>1. \A t \in Service, f \in Field, w \in Value :
        /\ With(t, f, w) \in Service /\ With(t, f, w).id = t.id
        /\ With(t, f, w).row = [t.row EXCEPT ![f] = w]
  BY DEF With, Service, Row
<1>2. \A t, u \in Service : t.id = u.id /\ t.row = u.row => t = u
  BY DEF Service
<1>3. CASE j.kind = "update" /\ j.cached
  <2>1. j.field \in Field /\ j.value \in Value
    BY <1>3
  <2>2. \A t : ObjectAfter(t, j) = With(t, j.field, j.value)
    BY <1>3 DEF ObjectAfter, With
  <2> DEFINE old == With(With(s, h, v), j.field, j.value)
             new == With(s, j.field, j.value)
             both == With(With(s, j.field, j.value), h, v)
  <2>3. /\ old \in Service /\ new \in Service /\ both \in Service
        /\ old.id = s.id /\ new.id = s.id /\ both.id = s.id
        /\ old.row = [[s.row EXCEPT ![h] = v] EXCEPT ![j.field] = j.value]
        /\ new.row = [s.row EXCEPT ![j.field] = j.value]
        /\ both.row = [[s.row EXCEPT ![j.field] = j.value] EXCEPT ![h] = v]
    <3>1. /\ With(s, h, v) \in Service /\ With(s, h, v).id = s.id
          /\ With(s, h, v).row = [s.row EXCEPT ![h] = v]
      BY <1>1
    <3>2. /\ new \in Service /\ new.id = s.id
          /\ new.row = [s.row EXCEPT ![j.field] = j.value]
      BY <1>1, <2>1
    <3>3. /\ old \in Service /\ old.id = s.id
          /\ old.row = [[s.row EXCEPT ![h] = v] EXCEPT ![j.field] = j.value]
      BY <1>1, <2>1, <3>1
    <3> HIDE DEF new
    <3>4. both = With(new, h, v)
      BY DEF new
    <3>5. With(new, h, v) \in Service /\ With(new, h, v).id = new.id
          /\ With(new, h, v).row = [new.row EXCEPT ![h] = v]
      BY <1>1, <3>2
    <3> QED
      BY <3>2, <3>3, <3>4, <3>5
  <2> HIDE DEF old, new, both
  <2>4. s.row \in [Field -> Value]
    BY DEF Service, Row
  <2>5. IF j.field = h THEN old.row = new.row ELSE old.row = both.row
    <3>1. /\ old.row \in [Field -> Value] /\ new.row \in [Field -> Value]
          /\ both.row \in [Field -> Value]
      BY <2>1, <2>3, <2>4
    <3>2. \A x \in Field :
            /\ old.row[x] = IF x = j.field THEN j.value ELSE IF x = h THEN v ELSE s.row[x]
            /\ new.row[x] = IF x = j.field THEN j.value ELSE s.row[x]
            /\ both.row[x] = IF x = h THEN v ELSE IF x = j.field THEN j.value ELSE s.row[x]
      BY <2>1, <2>3, <2>4
    <3>3. \A f, g \in [Field -> Value] : (\A x \in Field : f[x] = g[x]) => f = g
      OBVIOUS
    <3>4. CASE j.field = h
      <4>1. \A x \in Field : old.row[x] = new.row[x]
        BY <3>2, <3>4
      <4> QED
        BY <3>1, <3>3, <3>4, <4>1
    <3>5. CASE j.field # h
      <4>1. \A x \in Field : old.row[x] = both.row[x]
        BY <3>2, <3>5
      <4> QED
        BY <3>1, <3>3, <3>5, <4>1
    <3> QED
      BY <3>4, <3>5
  <2>6. IF j.field = h THEN old = new ELSE old = both
    BY <1>2, <2>3, <2>5
  <2> QED
    BY <1>3, <2>2, <2>6 DEF old, new, both
<1>4. CASE ~(j.kind = "update" /\ j.cached)
  BY <1>4 DEF ObjectAfter
<1> QED
  BY <1>3, <1>4

\* What an object ends as once v has been put into it differs at most there.
LEMMA EndsWith ==
  ASSUME NEW q, Queue(q), NEW s, NEW o, ObjectEnds(s, q, o), NEW h \in Field, NEW v \in Value
  PROVE  \E p \in Service : ObjectEnds(With(s, h, v), q, p) /\ With(p, h, v) = With(o, h, v)
<1> DEFINE n == Len(q)
<1>1. n \in Nat /\ \A k \in 1..n : q[k] \in Job
  BY DEF Queue
<1>2. \A t \in Service : /\ With(t, h, v) \in Service /\ With(t, h, v).id = t.id
                         /\ With(With(t, h, v), h, v) = With(t, h, v)
  BY DEF With, Service, Row
<1>3. PICK g : ObjectTrace(g, s, q) /\ g[n] = o
  BY DEF ObjectEnds
<1> DEFINE Hit(k) == q[k].id = s.id /\ q[k].kind = "update" /\ q[k].cached /\ q[k].field = h
           Over(k) == \E l \in 1..k : Hit(l)
           f == [k \in 0..n |-> IF Over(k) THEN g[k] ELSE With(g[k], h, v)]
<1>4. /\ g \in [0..n -> Service] /\ g[0] = s
      /\ \A k \in 1..n : g[k] = IF q[k].id = s.id THEN ObjectAfter(g[k - 1], q[k])
                                                  ELSE g[k - 1]
  BY <1>3 DEF ObjectTrace
<1>5. s \in Service /\ f \in [0..n -> Service] /\ f[0] = With(s, h, v)
  BY <1>1, <1>2, <1>4
<1>6. ASSUME NEW k \in 1..n
      PROVE  f[k] = IF q[k].id = With(s, h, v).id THEN ObjectAfter(f[k - 1], q[k])
                                                  ELSE f[k - 1]
  <2>1. k \in 0..n /\ k - 1 \in 0..n
    BY <1>1
  <2>2. Over(k) <=> (Over(k - 1) \/ Hit(k))
    <3>1. \A l : l \in 1..k <=> (l \in 1..k - 1 \/ l = k)
      BY <1>1
    <3> HIDE DEF Hit
    <3> QED
      BY <3>1
  <2>3. /\ f[k] = (IF Over(k) THEN g[k] ELSE With(g[k], h, v))
        /\ f[k - 1] = (IF Over(k - 1) THEN g[k - 1] ELSE With(g[k - 1], h, v))
    BY <2>1
  <2>4. With(s, h, v).id = s.id
    BY <1>2, <1>5
  <2>5. g[k - 1] \in Service /\ q[k] \in Job
    BY <1>1, <1>4, <2>1
  <2>6. q[k].kind \in {"update", "ids"} => q[k].field \in Field /\ q[k].value \in Value
    BY <1>1 DEF Queue, Valued
  <2>7. IF q[k].kind = "update" /\ q[k].cached /\ q[k].field = h
        THEN ObjectAfter(With(g[k - 1], h, v), q[k]) = ObjectAfter(g[k - 1], q[k])
        ELSE ObjectAfter(With(g[k - 1], h, v), q[k]) = With(ObjectAfter(g[k - 1], q[k]), h, v)
    BY <2>5, <2>6, AfterWith
  <2>8. g[k] = IF q[k].id = s.id THEN ObjectAfter(g[k - 1], q[k]) ELSE g[k - 1]
    BY <1>4
  <2>9. CASE q[k].id # s.id
    <3>1. ~Hit(k)
      BY <2>9
    <3> HIDE DEF f, Over, Hit
    <3> QED
      BY <2>2, <2>3, <2>4, <2>8, <2>9, <3>1
  <2>10. CASE q[k].id = s.id
    <3>1. Hit(k) <=> q[k].kind = "update" /\ q[k].cached /\ q[k].field = h
      BY <2>10
    <3> HIDE DEF f, Over, Hit
    <3>2. CASE Over(k - 1)
      BY <2>2, <2>3, <2>4, <2>8, <2>10, <3>2
    <3>3. CASE ~Over(k - 1)
      BY <2>2, <2>3, <2>4, <2>7, <2>8, <2>10, <3>1, <3>3
    <3> QED
      BY <3>2, <3>3
  <2> QED
    BY <2>9, <2>10
<1>7. f[n] \in {o, With(o, h, v)} /\ o \in Service
  BY <1>1, <1>3, <1>4
<1> HIDE DEF f
<1>8. ObjectEnds(With(s, h, v), q, f[n])
  BY <1>5, <1>6 DEF ObjectEnds, ObjectTrace
<1> QED
  BY <1>2, <1>7, <1>8

-----------------------------------------------------------------------------
(* Cache and database meet: the steps of the cache keep it so.             *)

\* The row r of service id ends as the object does, or absent if there is none,
\* and then no job writes an object either.
MeetsAt(s, q, m, r, id) ==
  /\ \A i \in IndexOf(s, id) :
       \E o \in Service : ObjectEnds(s[i], q, o) /\ RowEnds(r, q, m, id, o.row)
  /\ IndexOf(s, id) = {} => /\ RowEnds(r, q, m, id, Absent)
                            /\ \A k \in 1..Len(q) : q[k].id = id => ~q[k].cached

Unique(s) == \A i, k \in 1..Len(s) : s[i].id = s[k].id => i = k

\* The services s, with the jobs q, and the rows d of multiplex m.
Meets(s, q, m, d) == Unique(s) /\ \A id \in Id : MeetsAt(s, q, m, d[id], id)

\* It is about the objects of the service alone.
LEMMA SameObjects ==
  ASSUME NEW s, NEW t, NEW q, NEW m, NEW r, NEW id, MeetsAt(s, q, m, r, id),
         \A i \in IndexOf(t, id) : \E k \in IndexOf(s, id) : t[i] = s[k],
         IndexOf(t, id) = {} => IndexOf(s, id) = {}
  PROVE  MeetsAt(t, q, m, r, id)
  BY DEF MeetsAt

\* A job for another service does not matter.
LEMMA OthersJob ==
  ASSUME NEW s, NEW q, Queue(q), NEW j \in Job, Valued(<<j>>), NEW m, NEW r, NEW id,
         MeetsAt(s, q, m, r, id), j.id # id
  PROVE  MeetsAt(s, Append(q, j), m, r, id)
<1>1. \A e : RowEnds(r, q, m, id, e) => RowEnds(r, Append(q, j), m, id, e)
  BY RowEndsAppend DEF For
<1>2. ASSUME NEW i \in IndexOf(s, id)
      PROVE  \E o \in Service : ObjectEnds(s[i], Append(q, j), o)
                                /\ RowEnds(r, Append(q, j), m, id, o.row)
  <2>1. PICK o \in Service : ObjectEnds(s[i], q, o) /\ RowEnds(r, q, m, id, o.row)
    BY DEF MeetsAt
  <2>2. s[i].id = id
    BY DEF IndexOf
  <2>3. ObjectEnds(s[i], Append(q, j), o)
    BY <2>1, <2>2, ObjectEndsAppend
  <2> QED
    BY <1>1, <2>1, <2>3
<1>3. \A k \in 1..Len(Append(q, j)) :
        Append(q, j)[k] = j \/ (k \in 1..Len(q) /\ Append(q, j)[k] = q[k])
  BY DEF Queue
<1>4. IndexOf(s, id) = {} => /\ RowEnds(r, Append(q, j), m, id, Absent)
                             /\ \A k \in 1..Len(Append(q, j)) :
                                  Append(q, j)[k].id = id => ~Append(q, j)[k].cached
  BY <1>1, <1>3 DEF MeetsAt
<1> QED
  BY <1>2, <1>4 DEF MeetsAt

\* Nor does it that another service's object leaves the cache.
LEMMA OthersLeave ==
  ASSUME NEW s, NEW q, Queue(q), NEW gone, NEW m, NEW r, NEW id, id \notin gone,
         MeetsAt(s, q, m, r, id)
  PROVE  MeetsAt(s, Detach(q, gone), m, r, id)
<1>1. \A i \in IndexOf(s, id) : s[i].id = id
  BY DEF IndexOf
<1>2. /\ Len(Detach(q, gone)) = Len(q)
      /\ \A k \in 1..Len(q) : Detach(q, gone)[k].id = id => Detach(q, gone)[k] = q[k]
  <2>1. \A k \in 1..Len(q) : q[k] \in Job
    BY DEF Queue
  <2>2. \A j \in Job : [j EXCEPT !.cached = FALSE].id = j.id
    BY DEF Job
  <2>3. Len(q) \in Nat
    BY DEF Queue
  <2> QED
    BY <2>1, <2>2, <2>3 DEF Detach
<1> QED
  BY <1>1, <1>2, EndsDetach DEF MeetsAt

\* An update goes into the object now, into the row and again into the object later.
LEMMA UpdateInMeets ==
  ASSUME multiplex \in Mux, NEW s \in Seq(Service), NEW q, Queue(q), NEW d,
         Meets(s, q, multiplex, d), NEW id \in Id, NEW f \in Field, NEW v \in Value
  PROVE  LET u == UpdateIn(s, q, id, f, v)
         IN  Meets(u.services, u.jobs, multiplex, d)
<1> DEFINE t == [i \in 1..Len(s) |-> IF s[i].id = id THEN [s[i] EXCEPT !.row[f] = v]
                                                     ELSE s[i]]
           j == NewJob("update", id, f, v)
<1>1. /\ j \in Job /\ j.kind = "update" /\ j.mux = multiplex /\ j.id = id
      /\ j.field = f /\ j.value = v /\ j.cached = TRUE
  BY NewJobTyped DEF NewJob
<1>2. UpdateIn(s, q, id, f, v)
        = IF IndexOf(s, id) = {} THEN [services |-> s, jobs |-> q]
          ELSE [services |-> t, jobs |-> Append(q, j)]
  BY DEF UpdateIn
<1>3. SUFFICES ASSUME IndexOf(s, id) # {} PROVE Meets(t, Append(q, j), multiplex, d)
  BY <1>2
<1> HIDE DEF j
<1>4. Valued(<<j>>)
  BY <1>1 DEF Valued
<1>5. \A p \in Service : [p EXCEPT !.row[f] = v] = With(p, f, v)
  BY DEF With
<1>6. \A p \in Service : /\ With(p, f, v) \in Service /\ With(p, f, v).id = p.id
                         /\ With(p, f, v).row = [p.row EXCEPT ![f] = v]
                         /\ p.row \in Row
  BY DEF With, Service, Row
<1>7. /\ Len(t) = Len(s)
      /\ \A i \in 1..Len(s) : /\ s[i] \in Service /\ t[i].id = s[i].id
                              /\ t[i] = IF s[i].id = id THEN With(s[i], f, v) ELSE s[i]
  <2>1. Len(t) = Len(s) /\ \A i \in 1..Len(s) : s[i] \in Service
    OBVIOUS
  <2>2. \A i \in 1..Len(s) : t[i] = IF s[i].id = id THEN With(s[i], f, v) ELSE s[i]
    BY <1>5, <2>1
  <2> HIDE DEF t
  <2> QED
    BY <1>6, <2>1, <2>2
<1> HIDE DEF t
<1>8. \A x : IndexOf(t, x) = IndexOf(s, x)
  BY <1>7 DEF IndexOf
<1>9. Unique(t)
  BY <1>7 DEF Meets, Unique
<1>10. ASSUME NEW x \in Id, x # id PROVE MeetsAt(t, Append(q, j), multiplex, d[x], x)
  <2>1. MeetsAt(s, Append(q, j), multiplex, d[x], x)
    BY <1>1, <1>4, <1>10, OthersJob DEF Meets
  <2>2. \A i \in IndexOf(t, x) : i \in IndexOf(s, x) /\ t[i] = s[i]
    BY <1>7, <1>8, <1>10 DEF IndexOf
  <2> QED
    BY <1>8, <2>1, <2>2, SameObjects
<1>11. ASSUME NEW i \in IndexOf(t, id)
       PROVE  \E o \in Service : /\ ObjectEnds(t[i], Append(q, j), o)
                                 /\ RowEnds(d[id], Append(q, j), multiplex, id, o.row)
  <2>1. i \in 1..Len(s) /\ s[i].id = id /\ t[i] = With(s[i], f, v) /\ t[i].id = id
    BY <1>7 DEF IndexOf
  <2>2. i \in IndexOf(s, id)
    BY <2>1 DEF IndexOf
  <2>3. PICK o \in Service : ObjectEnds(s[i], q, o) /\ RowEnds(d[id], q, multiplex, id, o.row)
    BY <2>2 DEF Meets, MeetsAt
  <2>4. PICK p \in Service : ObjectEnds(t[i], q, p) /\ With(p, f, v) = With(o, f, v)
    BY <2>1, <2>3, EndsWith
  <2>5. ObjectAfter(p, j) = With(o, f, v)
    BY <1>1, <2>4 DEF ObjectAfter, With
  <2>6. ObjectEnds(t[i], Append(q, j), With(o, f, v))
    BY <1>1, <1>4, <2>1, <2>4, <2>5, ObjectEndsAppend
  <2>7. RowAfter(o.row, j) = With(o, f, v).row
    <3>1. o.row # Absent
      BY <1>6, CacheAssumption DEF Row
    <3> QED
      BY <1>1, <1>6, <3>1 DEF RowAfter
  <2>8. For(j, multiplex, id)
    BY <1>1 DEF For
  <2>9. RowEnds(d[id], Append(q, j), multiplex, id, With(o, f, v).row)
    BY <1>1, <1>4, <2>3, <2>7, <2>8, RowEndsAppend
  <2> QED
    BY <1>6, <2>6, <2>9
<1> QED
  BY <1>3, <1>8, <1>9, <1>10, <1>11 DEF Meets, MeetsAt

\* A service is added with the row it is to have.
LEMMA AddToMeets ==
  ASSUME multiplex \in Mux, NEW s \in Seq(Service), NEW fl, NEW q, Queue(q), NEW d,
         Meets(s, q, multiplex, d), NEW id \in Id, IndexOf(s, id) = {}
  PROVE  LET u == AddTo(s, fl, q, id)
         IN  Meets(u.services, u.jobs, multiplex, d)
<1> DEFINE new == [id |-> id, row |-> NewRow]
           j == NewJob("add", id, Absent, Absent)
           t == Append(s, new)
<1>1. new \in Service /\ new.id = id /\ new.row = NewRow
  BY CacheAssumption DEF Service, Row, NewRow
<1>2. /\ j \in Job /\ j.kind = "add" /\ j.mux = multiplex /\ j.id = id
  BY NewRowJobTyped
<1>3. SUFFICES Meets(t, Append(q, j), multiplex, d)
  BY DEF AddTo
<1> HIDE DEF new, j
<1>4. Valued(<<j>>)
  BY <1>2 DEF Valued
<1>5. /\ Len(t) = Len(s) + 1 /\ t[Len(s) + 1] = new /\ Len(s) \in Nat
      /\ \A i \in 1..Len(s) : t[i] = s[i]
  BY <1>1
<1> HIDE DEF t
<1>6. IndexOf(t, id) = {Len(s) + 1} /\ \A x : x # id => IndexOf(t, x) = IndexOf(s, x)
  <2>1. \A i : i \in 1..Len(t) <=> (i \in 1..Len(s) \/ i = Len(s) + 1)
    BY <1>5
  <2>2. \A i \in 1..Len(s) : s[i].id # id
    BY DEF IndexOf
  <2> QED
    BY <1>1, <1>5, <2>1, <2>2 DEF IndexOf
<1>7. Unique(t)
  <2>1. \A i \in 1..Len(s) : s[i].id # id
    BY DEF IndexOf
  <2> QED
    BY <1>1, <1>5, <2>1 DEF Unique, Meets
<1>8. ASSUME NEW x \in Id, x # id PROVE MeetsAt(t, Append(q, j), multiplex, d[x], x)
  <2>1. MeetsAt(s, Append(q, j), multiplex, d[x], x)
    BY <1>2, <1>4, <1>8, OthersJob DEF Meets
  <2>2. \A i \in IndexOf(t, x) : i \in IndexOf(s, x) /\ t[i] = s[i]
    BY <1>5, <1>6, <1>8 DEF IndexOf
  <2> QED
    BY <1>6, <1>8, <2>1, <2>2, SameObjects
<1>9. /\ RowEnds(d[id], q, multiplex, id, Absent)
      /\ \A k \in 1..Len(q) : q[k].id = id => ~q[k].cached
  BY DEF Meets, MeetsAt
<1>10. RowEnds(d[id], Append(q, j), multiplex, id, NewRow)
  <2>1. RowAfter(Absent, j) = NewRow /\ For(j, multiplex, id)
    BY <1>2 DEF RowAfter, For
  <2> QED
    BY <1>2, <1>4, <1>9, <2>1, RowEndsAppend
<1>11. ObjectEnds(new, Append(q, j), new)
  <2>1. ObjectEnds(new, q, new)
    BY <1>1, <1>9, EndsUntouched
  <2>2. ObjectAfter(new, j) = new
    BY <1>2 DEF ObjectAfter
  <2> QED
    BY <1>2, <1>4, <2>1, <2>2, ObjectEndsAppend
<1>12. MeetsAt(t, Append(q, j), multiplex, d[id], id)
  BY <1>1, <1>5, <1>6, <1>10, <1>11 DEF MeetsAt
<1> QED
  BY <1>7, <1>8, <1>12 DEF Meets

\* A deleted service leaves no job that writes its object.
LEMMA DeleteMeets ==
  ASSUME multiplex \in Mux, services \in Seq(Service), Queue(jobs), NEW d,
         Meets(services, jobs, multiplex, d), NEW i \in 1..Len(services)
  PROVE  Meets(Without(services, i), DeleteJobs(i), multiplex, d)
<1> DEFINE t == Without(services, i)
           id == services[i].id
           q == Detach(jobs, {id})
           j == NewJob("delete", id, Absent, Absent)
<1>1. id \in Id
  <2>1. services[i] \in Service
    OBVIOUS
  <2> QED
    BY <2>1 DEF Service
<1>2. j \in Job /\ j.kind = "delete" /\ j.mux = multiplex /\ j.id = id /\ ~j.cached
  <2>1. ~j.cached
    BY DEF NewJob
  <2> HIDE DEF id
  <2> QED
    BY <1>1, <2>1, NewRowJobTyped
<1>3. Queue(q)
  BY DetachTyped DEF Queue
<1>4. \A k \in 1..Len(q) : q[k].id = id => ~q[k].cached
  <2>1. Len(jobs) \in Nat /\ \A k \in 1..Len(jobs) : jobs[k] \in Job
    BY DEF Queue
  <2>2. \A x \in Job : LET y == [x EXCEPT !.cached = FALSE]
                       IN  y.id = x.id /\ ~y.cached
    BY DEF Job
  <2> QED
    BY <2>1, <2>2 DEF Detach
<1>5. DeleteJobs(i) = Append(q, j)
  BY DEF DeleteJobs
<1> HIDE DEF j
<1>6. Valued(<<j>>)
  BY <1>2 DEF Valued
<1>7. /\ Len(t) = Len(services) - 1 /\ Len(services) \in Nat
      /\ \A k \in 1..Len(t) : t[k] = services[IF k < i THEN k ELSE k + 1]
  BY DEF Without
<1>8. Unique(services)
  BY DEF Meets
<1>9. \A k \in 1..Len(services) : k # i => services[k].id # id
  BY <1>8 DEF Unique
<1> HIDE DEF t, id, q
<1>10. Unique(t)
  BY <1>7, <1>8 DEF Unique
<1>11. IndexOf(t, id) = {}
  BY <1>7, <1>9 DEF IndexOf
<1>12. ASSUME NEW x \in Id, x # id PROVE MeetsAt(t, Append(q, j), multiplex, d[x], x)
  <2>1. MeetsAt(services, q, multiplex, d[x], x)
    BY <1>12, OthersLeave DEF Meets, q
  <2>2. MeetsAt(services, Append(q, j), multiplex, d[x], x)
    BY <1>2, <1>3, <1>6, <1>12, <2>1, OthersJob
  <2>3. \A k \in IndexOf(t, x) : \E l \in IndexOf(services, x) : t[k] = services[l]
    BY <1>7 DEF IndexOf
  <2>4. ASSUME NEW l \in IndexOf(services, x) PROVE IndexOf(t, x) # {}
    <3>1. l \in 1..Len(services) /\ services[l].id = x /\ l # i
      BY <1>12 DEF IndexOf, id
    <3>2. CASE l < i
      <4>1. l \in 1..Len(t) /\ t[l] = services[l]
        BY <1>7, <3>1, <3>2
      <4> QED
        BY <3>1, <4>1 DEF IndexOf
    <3>3. CASE l > i
      <4>1. l - 1 \in 1..Len(t) /\ t[l - 1] = services[l]
        BY <1>7, <3>1, <3>3
      <4> QED
        BY <3>1, <4>1 DEF IndexOf
    <3> QED
      BY <3>1, <3>2, <3>3
  <2> QED
    BY <2>2, <2>3, <2>4, SameObjects
<1>13. RowEnds(d[id], Append(q, j), multiplex, id, Absent)
  <2>1. PICK e : RowEnds(d[id], jobs, multiplex, id, e)
    BY <1>1 DEF Meets, MeetsAt
  <2>2. RowEnds(d[id], q, multiplex, id, e)
    BY <2>1, EndsDetach DEF q
  <2>3. RowAfter(e, j) = Absent /\ For(j, multiplex, id)
    BY <1>2 DEF RowAfter, For
  <2> QED
    BY <1>2, <1>3, <1>6, <2>2, <2>3, RowEndsAppend
<1>14. \A k \in 1..Len(Append(q, j)) :
         Append(q, j)[k].id = id => ~Append(q, j)[k].cached
  <2>1. \A k \in 1..Len(Append(q, j)) :
          Append(q, j)[k] = j \/ (k \in 1..Len(q) /\ Append(q, j)[k] = q[k])
    BY <1>3 DEF Queue
  <2> QED
    BY <1>2, <1>4, <2>1
<1>15. MeetsAt(t, Append(q, j), multiplex, d[id], id)
  BY <1>11, <1>13, <1>14 DEF MeetsAt
<1> QED
  BY <1>5, <1>10, <1>12, <1>15 DEF Meets, t

\* The database thread brings row and object one job further, each by the same job.
LEMMA RunJobMeets ==
  ASSUME multiplex \in Mux, Typed, Meets(services, jobs, multiplex, db[multiplex]), RunJob
  PROVE  Meets(services', jobs', multiplex, db'[multiplex])
<1> DEFINE j == Head(jobs)
           d == db[multiplex]
           t == services'
<1>1. /\ jobs # <<>> /\ jobs' = Tail(jobs)
      /\ db' = [m \in Mux |-> [id \in Id |->
                  IF <<m, id>> = <<j.mux, j.id>> THEN RowAfter(db[m][id], j)
                                                 ELSE db[m][id]]]
      /\ services' = [i \in 1..Len(services) |->
                        IF services[i].id = j.id THEN ObjectAfter(services[i], j)
                                                 ELSE services[i]]
  BY DEF RunJob
<1>2. Queue(jobs) /\ services \in Seq(Service) /\ jobs \in Seq(Job)
  BY DEF Typed, TypeOK, CacheTypeOK, Queue
<1>3. \A id \in Id : db'[multiplex][id]
                       = IF For(j, multiplex, id) THEN RowAfter(d[id], j) ELSE d[id]
  BY <1>1 DEF For
<1>4. j \in Job /\ j = jobs[1] /\ Len(Tail(jobs)) = Len(jobs) - 1 /\ Len(jobs) \in Nat
      /\ \A k \in 1..Len(Tail(jobs)) : k + 1 \in 1..Len(jobs) /\ Tail(jobs)[k] = jobs[k + 1]
  BY <1>1, <1>2
<1> HIDE DEF j
<1>5. /\ Len(t) = Len(services)
      /\ \A i \in 1..Len(services) :
           /\ t[i].id = services[i].id
           /\ t[i] = IF j.id = services[i].id THEN ObjectAfter(services[i], j)
                                              ELSE services[i]
  <2>1. Len(t) = Len(services) /\ \A i \in 1..Len(services) : services[i] \in Service
    BY <1>1, <1>2
  <2>2. \A i \in 1..Len(services) :
           t[i] = IF j.id = services[i].id THEN ObjectAfter(services[i], j) ELSE services[i]
    BY <1>1, <2>1
  <2>3. \A s \in Service : ObjectAfter(s, j).id = s.id
    BY DEF ObjectAfter, Service
  <2> HIDE DEF t
  <2> QED
    BY <2>1, <2>2, <2>3
<1> HIDE DEF t, d
<1>6. \A x : IndexOf(t, x) = IndexOf(services, x)
  BY <1>5 DEF IndexOf
<1>7. Unique(t)
  BY <1>5 DEF Meets, Unique
<1>8. ASSUME NEW id \in Id PROVE MeetsAt(t, Tail(jobs), multiplex, db'[multiplex][id], id)
  <2>1. MeetsAt(services, jobs, multiplex, d[id], id)
    BY DEF Meets, d
  <2>2. \A e : RowEnds(d[id], jobs, multiplex, id, e)
                 => RowEnds(db'[multiplex][id], Tail(jobs), multiplex, id, e)
    BY <1>1, <1>2, <1>3, EndsTail DEF j
  <2>3. ASSUME NEW i \in IndexOf(t, id)
        PROVE  \E o \in Service : ObjectEnds(t[i], Tail(jobs), o)
                 /\ RowEnds(db'[multiplex][id], Tail(jobs), multiplex, id, o.row)
    <3>1. PICK o \in Service : /\ ObjectEnds(services[i], jobs, o)
                               /\ RowEnds(d[id], jobs, multiplex, id, o.row)
      BY <1>6, <2>1 DEF MeetsAt
    <3>2. i \in 1..Len(services)
      BY <1>6 DEF IndexOf
    <3>3. ObjectEnds(IF j.id = services[i].id THEN ObjectAfter(services[i], j)
                                              ELSE services[i], Tail(jobs), o)
      BY <1>1, <1>2, <3>1, EndsTail DEF j
    <3> QED
      BY <1>5, <2>2, <3>1, <3>2, <3>3
  <2>4. IndexOf(t, id) = {} =>
          /\ RowEnds(db'[multiplex][id], Tail(jobs), multiplex, id, Absent)
          /\ \A k \in 1..Len(Tail(jobs)) : Tail(jobs)[k].id = id => ~Tail(jobs)[k].cached
    BY <1>4, <1>6, <2>1, <2>2 DEF MeetsAt
  <2> QED
    BY <2>3, <2>4 DEF MeetsAt
<1> QED
  BY <1>1, <1>7, <1>8 DEF Meets, t

\* A function onto a finite set, from as many numbers, takes each value once.
LEMMA OntoIsInjective ==
  ASSUME NEW S, IsFiniteSet(S), NEW f \in [1..Cardinality(S) -> S],
         {f[i] : i \in DOMAIN f} = S
  PROVE  \A i, k \in 1..Cardinality(S) : f[i] = f[k] => i = k
<1> DEFINE n == Cardinality(S)
<1>1. n \in Nat
  BY FS_CardinalityType
<1>2. IsFiniteSet(1..n) /\ Cardinality(1..n) = n
  BY <1>1, FS_Interval
<1>3. \A s \in S : \E i \in 1..n : f[i] = s
  OBVIOUS
<1>4. f \in Surjection(1..n, S)
  BY <1>3 DEF Surjection
<1> HIDE DEF n
<1>5. f \in Injection(1..n, S)
  BY <1>1, <1>2, <1>4, FS_SurjSameCardinalityImpliesInj DEF n
<1> QED
  BY <1>5 DEF Injection, IsInjective, n

\* Fresh objects are the rows, if no job for the multiplex is queued.
LEMMA LoadMeets ==
  ASSUME Typed, NEW m \in Mux, Load(m), \A k \in 1..Len(jobs) : jobs[k].mux # m
  PROVE  Meets(services', jobs', m, db'[m])
<1> DEFINE rows == {id \in Id : db[m][id] # Absent}
           q == Detach(jobs, Id \cup {Absent})
           t == services'
<1>1. /\ jobs' = q /\ db' = db
      /\ \E f \in [1..Cardinality(rows) -> Id] :
           /\ {f[i] : i \in DOMAIN f} = rows
           /\ services' = [i \in DOMAIN f |-> [id |-> f[i], row |-> db[m][f[i]]]]
  BY DEF Load
<1>2. PICK order \in [1..Cardinality(rows) -> Id] :
        /\ {order[i] : i \in DOMAIN order} = rows
        /\ services' = [i \in DOMAIN order |-> [id |-> order[i], row |-> db[m][order[i]]]]
  BY <1>1
<1>3. Queue(jobs) /\ db[m] \in [Id -> Row \cup {Absent}]
  BY DEF Typed, TypeOK, CacheTypeOK, Queue
<1>4. IsFiniteSet(rows) /\ Cardinality(rows) \in Nat
  <2>1. rows \subseteq Id
    OBVIOUS
  <2> HIDE DEF rows
  <2> QED
    BY <2>1, CacheAssumption, FS_Subset, FS_CardinalityType
<1>5. PICK n \in Nat : n = Cardinality(rows)
  BY <1>4
<1>6. order \in [1..n -> rows] /\ DOMAIN order = 1..n
  BY <1>2, <1>5
<1>7. \A i, k \in 1..n : order[i] = order[k] => i = k
  <2>1. order \in [1..Cardinality(rows) -> rows] /\ {order[i] : i \in DOMAIN order} = rows
    BY <1>2, <1>5, <1>6
  <2> HIDE DEF rows
  <2>2. \A i, k \in 1..Cardinality(rows) : order[i] = order[k] => i = k
    BY <1>4, <2>1, OntoIsInjective
  <2> QED
    BY <1>5, <2>2
<1>8. /\ Len(t) = n
      /\ \A i \in 1..n : /\ t[i] = [id |-> order[i], row |-> db[m][order[i]]]
                        /\ t[i].id = order[i] /\ t[i].row = db[m][order[i]]
  <2> DEFINE object(i) == [id |-> order[i], row |-> db[m][order[i]]]
  <2>1. t = [i \in 1..n |-> object(i)]
    BY <1>2, <1>6
  <2>2. \A i : object(i).id = order[i] /\ object(i).row = db[m][order[i]]
    OBVIOUS
  <2> HIDE DEF object, t
  <2>3. Len(t) = n /\ \A i \in 1..n : t[i] = object(i)
    BY <2>1
  <2>4. \A i \in 1..n : t[i].id = order[i] /\ t[i].row = db[m][order[i]]
    BY <2>2, <2>3
  <2> QED
    BY <2>3, <2>4 DEF object
<1> HIDE DEF t
<1>9. Unique(t)
  <2>1. ASSUME NEW i \in 1..Len(t), NEW k \in 1..Len(t), t[i].id = t[k].id
        PROVE  i = k
    <3>1. i \in 1..n /\ k \in 1..n
      BY <1>8
    <3>2. order[i] = order[k]
      BY <1>8, <2>1, <3>1
    <3> QED
      BY <1>7, <3>1, <3>2
  <2> QED
    BY <2>1 DEF Unique
<1>10. /\ Queue(q) /\ Len(q) = Len(jobs)
       /\ \A k \in 1..Len(q) : q[k].mux # m /\ ~q[k].cached
  <2>1. Len(jobs) \in Nat /\ \A k \in 1..Len(jobs) : jobs[k] \in Job
    BY <1>3 DEF Queue
  <2>2. \A x \in Job : LET y == [x EXCEPT !.cached = FALSE]
                       IN  y.mux = x.mux /\ ~y.cached /\ x.id \in Id \cup {Absent}
    BY DEF Job
  <2>3. Queue(q)
    BY <1>3, DetachTyped DEF Queue
  <2> QED
    BY <2>1, <2>2, <2>3 DEF Detach
<1> HIDE DEF q
<1>11. ASSUME NEW id \in Id PROVE MeetsAt(t, q, m, db[m][id], id)
  <2>1. RowEnds(db[m][id], q, m, id, db[m][id])
    BY <1>3, <1>10, EndsUntouched DEF For
  <2>2. ASSUME NEW i \in IndexOf(t, id)
        PROVE  \E o \in Service : ObjectEnds(t[i], q, o) /\ RowEnds(db[m][id], q, m, id, o.row)
    <3>1. i \in 1..n /\ order[i] = id /\ t[i] = [id |-> id, row |-> db[m][id]]
      <4>1. i \in 1..n /\ t[i].id = id
        BY <1>8 DEF IndexOf
      <4> QED
        BY <1>8, <4>1
    <3>2. id \in rows
      BY <1>6, <3>1
    <3>3. t[i] \in Service /\ t[i].row = db[m][id]
      BY <1>3, <3>1, <3>2 DEF Service
    <3>4. ObjectEnds(t[i], q, t[i])
      BY <1>10, <3>3, EndsUntouched
    <3> QED
      BY <2>1, <3>3, <3>4
  <2>3. ASSUME IndexOf(t, id) = {} PROVE db[m][id] = Absent
    <3>1. SUFFICES ASSUME id \in rows PROVE FALSE
      OBVIOUS
    <3>2. PICK i \in 1..n : order[i] = id
      BY <1>2, <1>6, <3>1
    <3>3. i \in IndexOf(t, id)
      <4>1. t[i].id = id /\ i \in 1..Len(t)
        BY <1>8, <3>2
      <4> QED
        BY <4>1 DEF IndexOf
    <3> QED
      BY <2>3, <3>3
  <2> QED
    BY <1>10, <2>1, <2>2, <2>3 DEF MeetsAt
<1> QED
  BY <1>1, <1>9, <1>11 DEF Meets, t

\* The invariant: while a multiplex is loaded, its cache and its rows will meet.
Joined == Typed /\ (multiplex # NoMux => Meets(services, jobs, multiplex, db[multiplex]))

\* The entry of a table adds the service, or updates it, or both.
LEMMA EntryJoined ==
  ASSUME Joined, NEW id \in Id, Entry(id)
  PROVE  Meets(services', jobs', multiplex, db[multiplex])
<1> DEFINE found == IF InCache(id)
                    THEN [services |-> services, flags |-> Seen(flags, id), jobs |-> jobs]
                    ELSE AddTo(services, flags, jobs, id)
           known == found.services[CHOOSE i \in IndexOf(found.services, id) : TRUE].row[table]
           after == IF known = content[id]
                    THEN [services |-> found.services, jobs |-> found.jobs]
                    ELSE UpdateIn(found.services, found.jobs, id, table, content[id])
           d == db[multiplex]
<1>1. services' = after.services /\ jobs' = after.jobs /\ table \in Table /\ id \in todo
  BY DEF Entry
<1>2. /\ multiplex \in Mux /\ multiplex # NoMux /\ services \in Seq(Service)
      /\ flags \in Seq(SUBSET Table) /\ Len(flags) = Len(services)
      /\ jobs \in Seq(Job) /\ Valued(jobs) /\ Queue(jobs)
  BY <1>1, CacheAssumption DEF Joined, Typed, TypeOK, CacheTypeOK, Table, Queue
<1>3. /\ found.services \in Seq(Service) /\ Queue(found.jobs)
      /\ Meets(found.services, found.jobs, multiplex, d)
  <2>1. CASE InCache(id)
    BY <1>2, <2>1 DEF Joined
  <2>2. CASE ~InCache(id)
    <3>1. found = AddTo(services, flags, jobs, id)
      BY <2>2
    <3> HIDE DEF found
    <3>2. IndexOf(services, id) = {}
      BY <2>2 DEF InCache
    <3>3. found.services \in Seq(Service) /\ found.jobs \in Seq(Job) /\ Valued(found.jobs)
      BY <1>2, <3>1, AddToTyped
    <3>4. Meets(found.services, found.jobs, multiplex, d)
      BY <1>2, <3>1, <3>2, AddToMeets DEF Joined
    <3> QED
      BY <3>3, <3>4 DEF Queue
  <2> QED
    BY <2>1, <2>2
<1>4. content[id] \in Value /\ table \in Field
  BY <1>1, TablesAssumption DEF Joined, Typed, TypeOK
<1> HIDE DEF found
<1>5. CASE known = content[id]
  BY <1>1, <1>3, <1>5
<1>6. CASE known # content[id]
  <2>1. after = UpdateIn(found.services, found.jobs, id, table, content[id])
    BY <1>6
  <2> HIDE DEF after, known, d
  <2>2. Meets(after.services, after.jobs, multiplex, d)
    BY <1>2, <1>3, <1>4, <2>1, UpdateInMeets
  <2> QED
    BY <1>1, <2>2 DEF d
<1> QED
  BY <1>5, <1>6

\* The multiplex learns its ids without any service being concerned.
LEMMA FinishJoined ==
  ASSUME Joined, NEW v \in Value, Finish(v)
  PROVE  Meets(services', jobs', multiplex, db[multiplex])
<1>1. table \in Table /\ services' = services
  BY DEF Finish
<1>2. /\ multiplex \in Mux /\ multiplex # NoMux /\ jobs \in Seq(Job) /\ Queue(jobs)
      /\ table \in Field /\ Meets(services, jobs, multiplex, db[multiplex])
  BY <1>1, CacheAssumption, TablesAssumption
     DEF Joined, Typed, TypeOK, CacheTypeOK, Table, Queue
<1> DEFINE j == NewJob("ids", Absent, table, v)
<1>3. jobs' = jobs \/ jobs' = Append(jobs, j)
  BY DEF Finish, UpdateMultiplex
<1>4. CASE jobs' = jobs
  BY <1>1, <1>2, <1>4
<1>5. CASE jobs' = Append(jobs, j)
  <2>1. j \in Job /\ j.kind = "ids" /\ j.field = table /\ j.value = v /\ j.id = Absent
    <3>1. j \in Job /\ j.kind = "ids" /\ j.field = table /\ j.value = v
      BY <1>2, NewJobTyped
    <3> QED
      BY <3>1 DEF NewJob
  <2> HIDE DEF j
  <2>2. Valued(<<j>>)
    BY <1>2, <2>1 DEF Valued
  <2>3. \A id \in Id : j.id # id
    BY <2>1, CacheAssumption
  <2>4. \A id \in Id : MeetsAt(services, jobs', multiplex, db[multiplex][id], id)
    BY <1>2, <1>5, <2>1, <2>2, <2>3, OthersJob DEF Meets
  <2> QED
    BY <1>1, <1>2, <2>4 DEF Meets
<1> QED
  BY <1>3, <1>4, <1>5

\* Every step keeps the invariant, if no multiplex is loaded while jobs for it are
\* still queued.
LEMMA StepJoined ==
  ASSUME TunesWithJobs = FALSE, Joined, [Next]_vars
  PROVE  Joined'
<1>1. Typed'
  BY StepTyped DEF Joined
<1>2. /\ multiplex # NoMux => multiplex \in Mux /\ Meets(services, jobs, multiplex, db[multiplex])
      /\ services \in Seq(Service) /\ Queue(jobs)
      /\ table # "none" => multiplex \in Mux /\ multiplex # NoMux
  BY CacheAssumption DEF Joined, Typed, TypeOK, CacheTypeOK, Queue
<1>3. CASE UNCHANGED <<multiplex, services, jobs, db>>
  BY <1>1, <1>3 DEF Joined
<1>4. ASSUME NEW t \in Table, NEW c, Begin(t, c) PROVE Joined'
  BY <1>3, <1>4 DEF Begin, cacheVars
<1>5. ASSUME NEW id \in Id, Entry(id) PROVE Joined'
  <2>1. UNCHANGED <<multiplex, db>>
    BY <1>5 DEF Entry
  <2> QED
    BY <1>1, <1>5, <2>1, EntryJoined DEF Joined
<1>6. CASE Prune
  <2>1. PICK i \in Vanished : services' = Without(services, i) /\ jobs' = DeleteJobs(i)
    BY <1>6 DEF Prune
  <2>2. table \in Table /\ UNCHANGED <<multiplex, db>>
    BY <1>6 DEF Prune
  <2>3. i \in 1..Len(services)
    <3>1. next \in Nat \ {0} /\ i \in next..Len(services) /\ Len(services) \in Nat
      BY <1>2 DEF Vanished, Joined, Typed, TypeOK
    <3> QED
      BY <3>1
  <2>4. Meets(services', jobs', multiplex, db[multiplex])
    BY <1>2, <2>1, <2>2, <2>3, DeleteMeets DEF Table
  <2> QED
    BY <1>1, <2>2, <2>4 DEF Joined
<1>7. ASSUME NEW v \in Value, Finish(v) PROVE Joined'
  <2>1. UNCHANGED <<multiplex, db>>
    BY <1>7 DEF Finish
  <2> QED
    BY <1>1, <1>7, <2>1, FinishJoined DEF Joined
<1>8. CASE Writes
  <2>1. RunJob /\ multiplex' = multiplex
    BY <1>8 DEF Writes, RunJob
  <2>2. multiplex # NoMux => Meets(services', jobs', multiplex, db'[multiplex])
    BY <1>2, <2>1, RunJobMeets DEF Joined
  <2> QED
    BY <1>1, <2>1, <2>2 DEF Joined
<1>9. ASSUME NEW m \in Mux, Tune(m) PROVE Joined'
  <2>1. Load(m) /\ \A k \in 1..Len(jobs) : jobs[k].mux # m
    BY <1>9 DEF Tune
  <2>2. Meets(services', jobs', m, db'[m])
    BY <2>1, LoadMeets DEF Joined
  <2>3. multiplex' = m
    BY <2>1 DEF Load
  <2> QED
    BY <1>1, <2>2, <2>3 DEF Joined
<1>10. CASE Arrive \/ Notify
  BY <1>3, <1>10 DEF Arrive, Notify, cacheVars
<1>11. CASE Restart
  <2>1. multiplex' = NoMux
    BY <1>11 DEF Restart, Start
  <2> QED
    BY <1>1, <2>1 DEF Joined
<1>12. CASE UNCHANGED vars
  BY <1>3, <1>12 DEF vars, cacheVars
<1> QED
  BY <1>4, <1>5, <1>6, <1>7, <1>8, <1>9, <1>10, <1>11, <1>12 DEF Next

\* However many jobs are queued, in whatever order services were added, changed,
\* deleted and added again, the rows of the loaded multiplex become its cached
\* services: what a job writes into the object as well (cache.c:843-959) never
\* brings an older value back for good. It takes that no multiplex is loaded before
\* the jobs of the last visit have run.
THEOREM CacheAndRowsMeet ==
  ASSUME TunesWithJobs = FALSE
  PROVE  Spec => []WritebackConverges
<1>1. Init => Joined
  BY InitTyped DEF Init, CacheInit, Joined
<1>2. Joined /\ [Next]_vars => Joined'
  BY StepJoined
<1>3. Joined => WritebackConverges
  <2> SUFFICES ASSUME Joined, multiplex # NoMux, NEW id \in Id
               PROVE  \/ InCache(id) /\ \A i \in IndexOf(services, id) :
                                          RowThen(id) = ObjectThen(i).row
                      \/ ~InCache(id) /\ RowThen(id) = Absent
    BY DEF WritebackConverges
  <2>1. Queue(jobs) /\ MeetsAt(services, jobs, multiplex, db[multiplex][id], id)
    BY DEF Joined, Typed, TypeOK, CacheTypeOK, Queue, Meets
  <2>2. ASSUME NEW i \in IndexOf(services, id) PROVE RowThen(id) = ObjectThen(i).row
    <3>1. PICK o \in Service : /\ ObjectEnds(services[i], jobs, o)
                               /\ RowEnds(db[multiplex][id], jobs, multiplex, id, o.row)
      BY <2>1 DEF MeetsAt
    <3> QED
      BY <2>1, <3>1, RowThenIsEnd, ObjectThenIsEnd
  <2>3. ~InCache(id) => RowThen(id) = Absent
    BY <2>1, RowThenIsEnd DEF MeetsAt, InCache
  <2> QED
    BY <2>2, <2>3
<1> QED
  BY <1>1, <1>2, <1>3, PTL DEF Spec

-----------------------------------------------------------------------------
(* Listed services stay.                                                   *)

\* The last contents of table t list the service.
Lists(t, id) == heard[t] # Absent /\ id \in DOMAIN heard[t]

\* Its entry in the table being handled has not been reached yet.
Pending(t, id) == t = table /\ id \in todo

\* What a table lists is cached, and a service that is marked as missing in a table
\* is not listed by it; the entries still to handle excepted.
Listing ==
  /\ Typed
  /\ table = "none" => todo = {}
  /\ table # "none" => heard[table] = content
  /\ \A t \in Table : \A id : Lists(t, id) => id \in CachedIds \/ Pending(t, id)
  /\ \A i \in 1..Len(services) : \A t \in flags[i] :
       Lists(t, services[i].id) => Pending(t, services[i].id)

\* The same services, with the same marks, are listed no less.
LEMMA SameServices ==
  ASSUME Listing, Typed', UNCHANGED <<table, todo, content, heard, flags>>,
         Len(services') = Len(services),
         \A i \in 1..Len(services) : services'[i].id = services[i].id
  PROVE  Listing'
<1>1. CachedIds' = CachedIds
  BY DEF CachedIds
<1> QED
  BY <1>1 DEF Listing, Lists, Pending

\* Updating a service or running a job changes the ids of none.
LEMMA UpdateKeepsIds ==
  ASSUME NEW s \in Seq(Service), NEW q, NEW id, NEW f \in Field, NEW v \in Value
  PROVE  LET u == UpdateIn(s, q, id, f, v).services
         IN  Len(u) = Len(s) /\ \A i \in 1..Len(s) : u[i].id = s[i].id
<1> DEFINE t == [i \in 1..Len(s) |-> IF s[i].id = id THEN [s[i] EXCEPT !.row[f] = v]
                                                     ELSE s[i]]
<1>1. Len(t) = Len(s) /\ \A i \in 1..Len(s) : s[i] \in Service
  OBVIOUS
<1>2. \A p \in Service : [p EXCEPT !.row[f] = v].id = p.id
  BY DEF Service
<1>3. \A i \in 1..Len(s) : t[i].id = s[i].id
  BY <1>1, <1>2
<1>4. UpdateIn(s, q, id, f, v).services = s \/ UpdateIn(s, q, id, f, v).services = t
  BY DEF UpdateIn
<1> HIDE DEF t
<1> QED
  BY <1>1, <1>3, <1>4

\* An entry has its service cached, and no longer marked in its table.
LEMMA EntryListing ==
  ASSUME Listing, NEW id \in Id, Entry(id)
  PROVE  Listing'
<1> DEFINE found == IF InCache(id)
                    THEN [services |-> services, flags |-> Seen(flags, id), jobs |-> jobs]
                    ELSE AddTo(services, flags, jobs, id)
           known == found.services[CHOOSE i \in IndexOf(found.services, id) : TRUE].row[table]
           after == IF known = content[id]
                    THEN [services |-> found.services, jobs |-> found.jobs]
                    ELSE UpdateIn(found.services, found.jobs, id, table, content[id])
<1>1. /\ services' = after.services /\ flags' = found.flags
      /\ table \in Table /\ id \in todo /\ todo' = todo \ {id}
      /\ UNCHANGED <<table, content, heard, stale, strays>>
  BY DEF Entry
<1>2. Typed /\ Typed'
  BY EntryTyped DEF Listing
<1>3. /\ multiplex \in Mux /\ services \in Seq(Service) /\ flags \in Seq(SUBSET Table)
      /\ Len(flags) = Len(services) /\ jobs \in Seq(Job) /\ Len(services) \in Nat
      /\ content[id] \in Value /\ table \in Field
  BY <1>1, <1>2, TablesAssumption DEF Typed, TypeOK, CacheTypeOK, Table
\* What is found is the cache with the service, and without its mark.
<1>4. /\ found.services \in Seq(Service) /\ Len(found.services) \in Nat
      /\ \A i \in 1..Len(services) : /\ i \in 1..Len(found.services)
                                     /\ found.services[i].id = services[i].id
      /\ \E i \in 1..Len(found.services) : found.services[i].id = id
      /\ \A i \in 1..Len(found.services) : \A t \in found.flags[i] :
           /\ i \in 1..Len(services) /\ t \in flags[i]
           /\ found.services[i].id = id => t # table
  <2>1. CASE InCache(id)
    <3>1. found.services = services /\ found.flags = Seen(flags, id)
      BY <2>1
    <3> HIDE DEF found
    <3>2. \A i \in 1..Len(services) :
            Seen(flags, id)[i] = IF services[i].id = id THEN flags[i] \ {table} ELSE flags[i]
      BY <1>3 DEF Seen, IndexOf
    <3>3. \E i \in 1..Len(services) : services[i].id = id
      BY <2>1 DEF InCache, IndexOf
    <3> QED
      BY <1>3, <3>1, <3>2, <3>3
  <2>2. CASE ~InCache(id)
    <3> DEFINE new == [id |-> id, row |-> NewRow]
    <3>1. found.services = Append(services, new) /\ found.flags = Append(flags, {})
      BY <2>2 DEF AddTo
    <3>2. new \in Service /\ new.id = id
      BY CacheAssumption DEF Service, Row, NewRow
    <3>3. \A i \in 1..Len(services) : services[i].id # id
      BY <2>2 DEF InCache, IndexOf
    <3> HIDE DEF found, new
    <3>4. /\ Len(found.services) = Len(services) + 1
          /\ found.services \in Seq(Service)
          /\ found.services[Len(services) + 1] = new /\ found.flags[Len(services) + 1] = {}
          /\ \A i \in 1..Len(services) : found.services[i] = services[i]
                                         /\ found.flags[i] = flags[i]
      BY <1>3, <3>1, <3>2
    <3>5. \A i : i \in 1..Len(services) + 1 <=> (i \in 1..Len(services) \/ i = Len(services) + 1)
      BY <1>3
    <3> QED
      BY <1>3, <3>2, <3>3, <3>4, <3>5
  <2> QED
    BY <2>1, <2>2
<1> HIDE DEF found
<1>5. /\ Len(services') = Len(found.services)
      /\ \A i \in 1..Len(found.services) : services'[i].id = found.services[i].id
  <2>1. CASE known = content[id]
    BY <1>1, <2>1
  <2>2. CASE known # content[id]
    <3>1. services' = UpdateIn(found.services, found.jobs, id, table, content[id]).services
      BY <1>1, <2>2
    <3> HIDE DEF known, after
    <3> QED
      BY <1>3, <1>4, <3>1, UpdateKeepsIds
  <2> QED
    BY <2>1, <2>2
<1> HIDE DEF after, known
<1>6. CachedIds \subseteq CachedIds' /\ id \in CachedIds'
  BY <1>4, <1>5 DEF CachedIds
<1>7. \A t, x : Lists(t, x)' <=> Lists(t, x)
  BY <1>1 DEF Lists
<1>8. ASSUME NEW t \in Table, NEW x, Lists(t, x)
      PROVE  x \in CachedIds' \/ Pending(t, x)'
  <2>1. x \in CachedIds \/ Pending(t, x)
    BY <1>8 DEF Listing
  <2> QED
    BY <1>1, <1>6, <2>1 DEF Pending
<1>9. ASSUME NEW i \in 1..Len(services'), NEW t \in flags'[i], NEW x,
             x = services'[i].id, Lists(t, x)
      PROVE  Pending(t, x)'
  <2>1. /\ i \in 1..Len(services) /\ t \in flags[i] /\ x = services[i].id
        /\ x = id => t # table
    BY <1>1, <1>4, <1>5, <1>9
  <2>2. Pending(t, x)
    BY <1>9, <2>1 DEF Listing
  <2> QED
    BY <1>1, <2>1, <2>2 DEF Pending
<1> QED
  BY <1>1, <1>2, <1>7, <1>8, <1>9 DEF Listing, Table

\* What is marked by the loop is not listed by its table.
LEMMA MarkedListing ==
  ASSUME Listing, table \in Table, todo = {}, NEW i,
         NEW k \in 1..Len(services), NEW t \in Marked(i)[k]
  PROVE  ~Lists(t, services[k].id)
<1>1. Len(flags) = Len(services) /\ heard[table] = content
  BY DEF Listing, Typed, TypeOK, CacheTypeOK, Table
<1>2. Marked(i)[k] = IF k \in next..i /\ Unlisted(k) THEN flags[k] \cup {table} ELSE flags[k]
  BY <1>1 DEF Marked
<1>3. CASE t \in flags[k]
  BY <1>3 DEF Listing, Pending
<1>4. CASE t = table /\ Unlisted(k)
  BY <1>1, <1>4 DEF Unlisted, Lists
<1> QED
  BY <1>2, <1>3, <1>4

\* A service is deleted only if neither table lists it.
LEMMA PruneListing ==
  ASSUME Listing, Prune
  PROVE  Listing'
<1>1. PICK i \in Vanished : /\ services' = Without(services, i)
                            /\ flags' = Without(Marked(i), i)
  BY DEF Prune
<1>2. /\ table \in Table /\ todo = {} /\ UNCHANGED <<table, todo, content, heard, stale, strays>>
      /\ Typed /\ Typed' /\ heard[table] = content
  BY PruneTyped DEF Prune, Listing, Table
<1>3. /\ services \in Seq(Service) /\ Len(services) \in Nat /\ Len(flags) = Len(services)
      /\ Marked(i) \in Seq(SUBSET Table) /\ Len(Marked(i)) = Len(services)
      /\ i \in 1..Len(services) /\ Unlisted(i) /\ flags[i] \cup {table} = Table
  <2>1. services \in Seq(Service) /\ Len(flags) = Len(services) /\ next \in Nat \ {0}
    BY <1>2 DEF Typed, TypeOK, CacheTypeOK
  <2>2. i \in next..Len(services) /\ Unlisted(i) /\ flags[i] \cup {table} = Table
    BY DEF Vanished
  <2> QED
    BY <1>2, <2>1, <2>2, MarkedTyped
<1>4. /\ Len(services') = Len(services) - 1
      /\ \A k \in 1..Len(services') : \E l \in 1..Len(services) :
           l # i /\ services'[k] = services[l] /\ flags'[k] = Marked(i)[l]
  <2>1. /\ Len(services') = Len(services) - 1
        /\ \A k \in 1..Len(services) - 1 :
             /\ services'[k] = services[IF k < i THEN k ELSE k + 1]
             /\ flags'[k] = Marked(i)[IF k < i THEN k ELSE k + 1]
    BY <1>1, <1>3 DEF Without
  <2>2. ASSUME NEW k \in 1..Len(services')
        PROVE  \E l \in 1..Len(services) :
                 l # i /\ services'[k] = services[l] /\ flags'[k] = Marked(i)[l]
    <3> DEFINE l == IF k < i THEN k ELSE k + 1
    <3>1. l \in 1..Len(services) /\ l # i
      BY <1>3, <2>1
    <3> QED
      BY <2>1, <3>1
  <2> QED
    BY <2>1, <2>2
<1>5. \A l \in 1..Len(services) :
        l # i => \E k \in 1..Len(services') : services'[k] = services[l]
  <2>1. ASSUME NEW l \in 1..Len(services), l # i
        PROVE  \E k \in 1..Len(services') : services'[k] = services[l]
    <3>1. CASE l < i
      <4>1. l \in 1..Len(services') /\ services'[l] = services[l]
        BY <1>1, <1>3, <1>4, <3>1 DEF Without
      <4> QED
        BY <4>1
    <3>2. CASE l > i
      <4>1. l - 1 \in 1..Len(services') /\ services'[l - 1] = services[l]
        BY <1>1, <1>3, <1>4, <3>2 DEF Without
      <4> QED
        BY <4>1
    <3> QED
      BY <1>3, <2>1, <3>1, <3>2
  <2> QED
    BY <2>1
<1>6. \A t \in Table : ~Lists(t, services[i].id)
  <2>1. ~Lists(table, services[i].id)
    BY <1>2, <1>3 DEF Unlisted, Lists
  <2>2. \A t \in flags[i] : ~Lists(t, services[i].id)
    BY <1>2, <1>3 DEF Listing, Pending
  <2> QED
    BY <1>3, <2>1, <2>2
<1>7. \A t, x : Lists(t, x)' <=> Lists(t, x)
  BY <1>2 DEF Lists
<1>8. ASSUME NEW t \in Table, NEW x, Lists(t, x) PROVE x \in CachedIds'
  <2>1. x \in CachedIds
    BY <1>2, <1>8 DEF Listing, Pending
  <2>2. PICK l \in 1..Len(services) : services[l].id = x
    BY <2>1 DEF CachedIds
  <2>3. l # i
    BY <1>6, <1>8, <2>2
  <2> QED
    BY <1>5, <2>2, <2>3 DEF CachedIds
<1>9. ASSUME NEW k \in 1..Len(services'), NEW t \in flags'[k], NEW x, x = services'[k].id
      PROVE  ~Lists(t, x)
  BY <1>2, <1>4, <1>9, MarkedListing
<1> QED
  BY <1>2, <1>7, <1>8, <1>9 DEF Listing, Table

\* The loop has marked the others when the table ends.
LEMMA FinishListing ==
  ASSUME Listing, NEW v \in Value, Finish(v)
  PROVE  Listing'
<1>1. /\ table \in Table /\ todo = {} /\ flags' = Marked(Len(services))
      /\ services' = services /\ heard' = heard /\ table' = "none" /\ todo' = {}
  BY DEF Finish, Idle
<1>2. Typed'
  BY FinishTyped DEF Listing
<1>3. \A t, x : Lists(t, x)' <=> Lists(t, x)
  BY <1>1 DEF Lists
<1>4. \A t \in Table : \A x : Lists(t, x) => x \in CachedIds'
  BY <1>1 DEF Listing, Pending, CachedIds
<1>5. \A k \in 1..Len(services') : \A t \in flags'[k] : ~Lists(t, services'[k].id)
  BY <1>1, MarkedListing
<1> QED
  BY <1>1, <1>2, <1>3, <1>4, <1>5 DEF Listing

\* All entries of a table are still to handle when it begins.
LEMMA BeginListing ==
  ASSUME Listing, NEW t \in Table, NEW m \in Mux, m = onAir,
         NEW c \in Broadcast[m], Begin(t, c)
  PROVE  Listing'
<1>1. /\ table = "none" /\ table' = t /\ content' = c /\ todo' = DOMAIN c
      /\ heard' = [heard EXCEPT ![t] = c] /\ UNCHANGED <<services, flags>>
  BY DEF Begin, cacheVars
<1>2. Typed' /\ DOMAIN heard = Table
  BY BeginTyped DEF Listing, Typed, TypeOK
<1>3. heard'[t] = c /\ \A u \in Table : u # t => heard'[u] = heard[u]
  BY <1>1, <1>2
<1>4. ASSUME NEW u \in Table, NEW x, Lists(u, x)'
      PROVE  Pending(u, x)' \/ (Lists(u, x) /\ u # t)
  BY <1>1, <1>3, <1>4 DEF Lists, Pending
<1>5. ASSUME NEW u \in Table, NEW x, Lists(u, x)'
      PROVE  x \in CachedIds' \/ Pending(u, x)'
  <2>1. Lists(u, x) /\ u # t => x \in CachedIds
    BY <1>1 DEF Listing, Pending
  <2> QED
    BY <1>1, <1>4, <1>5, <2>1 DEF CachedIds
<1>6. ASSUME NEW i \in 1..Len(services), NEW u \in flags[i], NEW x, x = services[i].id,
             Lists(u, x)'
      PROVE  Pending(u, x)'
  <2>1. u \in Table
    BY DEF Listing, Typed, TypeOK, CacheTypeOK
  <2>2. ~Lists(u, x)
    BY <1>1, <1>6 DEF Listing, Pending
  <2> QED
    BY <1>4, <1>6, <2>1, <2>2
<1> QED
  BY <1>1, <1>2, <1>3, <1>5, <1>6 DEF Listing, Table

\* Every step keeps listed services.
LEMMA StepListing ==
  ASSUME Listing, [Next]_vars
  PROVE  Listing'
<1>0. Typed'
  BY StepTyped DEF Listing
<1>1. CASE UNCHANGED <<services, flags, table, todo, content, heard, stale, strays>>
  BY <1>0, <1>1, SameServices
<1>2. ASSUME NEW t \in Table, NEW m \in Mux, NEW c \in Broadcast[m], m = onAir, Begin(t, c)
      PROVE  Listing'
  BY <1>2, BeginListing
<1>3. CASE Writes
  <2>1. /\ services' = [i \in 1..Len(services) |->
                          IF services[i].id = Head(jobs).id
                          THEN ObjectAfter(services[i], Head(jobs)) ELSE services[i]]
        /\ UNCHANGED <<table, todo, content, heard, flags>>
    BY <1>3 DEF Writes, RunJob
  <2>2. services \in Seq(Service)
    BY DEF Listing, Typed, TypeOK, CacheTypeOK
  <2>3. \A s \in Service : \A j : ObjectAfter(s, j).id = s.id
    BY DEF ObjectAfter, Service
  <2>4. /\ Len(services') = Len(services)
        /\ \A i \in 1..Len(services) : services'[i].id = services[i].id
    BY <2>1, <2>2, <2>3
  <2> QED
    BY <1>0, <2>1, <2>4, SameServices
<1>4. ASSUME NEW m \in Mux, Tune(m) PROVE Listing'
  <2>1. /\ table = "none" /\ UNCHANGED <<table, todo>> /\ todo = {}
        /\ heard' = [t \in Table |-> Absent]
    BY <1>4 DEF Tune, Listing
  <2>2. \A i \in 1..Len(services') : flags'[i] = {}
    <3>1. \E n : /\ services' = [i \in n |-> services'[i]]
                 /\ flags' = [i \in n |-> {}]
      BY <1>4 DEF Tune, Load
    <3>2. PICK n : /\ services' = [i \in n |-> services'[i]] /\ flags' = [i \in n |-> {}]
      BY <3>1
    <3>3. services' \in Seq(Service)
      BY <1>0 DEF Typed, TypeOK, CacheTypeOK
    <3> QED
      BY <3>2, <3>3
  <2>3. Listing'
    BY <1>0, <2>1, <2>2 DEF Listing, Lists, Table
  <2> QED
    BY <2>3
<1>5. CASE Restart
  <2>1. /\ services' = <<>> /\ table' = "none" /\ todo' = {}
        /\ heard' = [t \in Table |-> Absent]
    BY <1>5 DEF Restart, Start, Idle
  <2> QED
    BY <1>0, <2>1 DEF Listing, Lists, Table
<1>6. CASE Arrive \/ Notify \/ UNCHANGED vars
  BY <1>1, <1>6 DEF Arrive, Notify, vars, cacheVars
<1> QED
  BY <1>2, <1>3, <1>4, <1>5, <1>6, EntryListing, PruneListing, FinishListing DEF Next

\* A service that the last PAT or the last SDT lists is never pruned (cache.c:729-765):
\* it must be missing in both, and being seen again in one clears the mark of that
\* one, whatever the order in which tables come and however often services leave
\* and return.
THEOREM ListedStay == Spec => []ListedServicesStay
<1>1. Init => Listing
  BY InitTyped DEF Init, CacheInit, Listing, Lists, Table
<1>2. Listing /\ [Next]_vars => Listing'
  BY StepListing
<1>3. Listing => ListedServicesStay
  <2> SUFFICES ASSUME Listing, table = "none", NEW t \in Table, heard[t] # Absent,
                      NEW id \in DOMAIN heard[t]
               PROVE  id \in CachedIds
    BY DEF ListedServicesStay
  <2> QED
    BY DEF Listing, Lists, Pending, Table
<1> QED
  BY <1>1, <1>2, <1>3, PTL DEF Spec

=============================================================================
