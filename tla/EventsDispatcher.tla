-------------------------- MODULE EventsDispatcher --------------------------
(***************************************************************************)
(* Events (events.c) as the events dispatcher uses them                    *)
(* (eventsdispatcher.c): commands add and remove listeners by name, on the *)
(* thread of their connection; a thread that fires an event runs the       *)
(* callbacks with the events mutex held, and the dispatcher's only queues  *)
(* a job, with which the thread of deferred processing tells the           *)
(* listeners. A listener is an object whose references are counted         *)
(* (objects.c).                                                            *)
(***************************************************************************)
EXTENDS Integers, Sequences, FiniteSets, SequencesExt

CONSTANTS Client,        \* threads that execute commands
          Label,         \* the names of listeners
          Event,
          All,           \* the filter for all events
          Selects,       \* other filters, with the set of events each is a prefix of
          MaxListeners,  \* bound: listeners ever made
          MaxFilters,    \* bound: filters of a listener
          MaxFired       \* bound: events ever fired

ASSUME EventsDispatcherAssumption ==
  /\ MaxListeners \in Nat /\ MaxFilters \in Nat /\ MaxFired \in Nat
  /\ All \notin DOMAIN Selects
  /\ IsFiniteSet(Client) /\ Label # {}
  /\ "free" \notin Client \cup Event

VARIABLES
  listenersList,
  listener,        \* name, filters and references of every listener made
  created,
  callbacks,       \* registrations of EventCallback in globalListenersList
  listenersMutex,  \* held by a client across its call into events.c
  eventsMutex,     \* held for the event that is fired
  command,         \* what a client has found, and is about to do
  jobs, fired,
  notified, due,       \* what a listener was told; what it has to be told
  removedTwice,    \* two clients have found a listener to remove it
  leaked,          \* listeners with a reference nobody will drop
  dangling         \* a listener was used that had been freed

dispatcher == <<listenersList, listener, created, callbacks, listenersMutex, eventsMutex,
                command, jobs, fired, notified, due, removedTwice, leaked, dangling>>

Free == "free"
Idle == [at |-> "idle"]
Listeners == 1..MaxListeners
Filters == {All} \cup DOMAIN Selects

EventDispatcherInstalled ==
  /\ listenersList = <<>> /\ created = 0 /\ callbacks = 0
  /\ listener = [l \in Listeners |-> [name |-> CHOOSE x \in Label : TRUE, all |-> FALSE,
                                    events |-> <<>>, refs |-> 0]]
  /\ listenersMutex = Free /\ eventsMutex = Free
  /\ command = [c \in Client |-> Idle]
  /\ jobs = <<>> /\ fired = 0
  /\ notified = [l \in Listeners |-> <<>>] /\ due = [l \in Listeners |-> {}]
  /\ removedTwice = {} /\ leaked = {} /\ dangling = FALSE

Named(x) == {i \in DOMAIN listenersList : listener[listenersList[i]].name = x}

Becomes(c, next) == command' = [command EXCEPT ![c] = next]

\* No listener is told what it no longer asks for.
Excused(ls) == due' = [l \in Listeners |-> IF l \in ls THEN {} ELSE due[l]]

----------------------------------------------------------------------------
(* The commands: each finds a listener, then works on it. *)

\* A client is about to remove the listener, or has.
Removes(d, l) ==
  command[d].at \in {"remove", "unregister", "release"} /\ command[d].l = l

\* Mutant: the listener is found without taking a reference.
FindListenerOnly(c, x, does) ==
  /\ command[c] = Idle /\ listenersMutex = Free
  /\ \E i \in Named(x) :
       /\ \A j \in Named(x) : i <= j
       /\ LET l == listenersList[i] IN
            /\ UNCHANGED listener
            /\ Becomes(c, [at |-> does, l |-> l])
            /\ removedTwice' = IF does = "remove" /\ \E d \in Client \ {c} : Removes(d, l)
                               THEN removedTwice \cup {l} ELSE removedTwice
  /\ UNCHANGED <<listenersList, created, callbacks, listenersMutex, eventsMutex, jobs,
                 fired, notified, due, leaked, dangling>>

FindListener(c, x, does) ==
  /\ command[c] = Idle /\ listenersMutex = Free
  /\ \E i \in Named(x) :
       /\ \A j \in Named(x) : i <= j
       /\ LET l == listenersList[i] IN
            /\ listener' = [listener EXCEPT ![l].refs = @ + 1]
            /\ Becomes(c, [at |-> does, l |-> l])
            /\ removedTwice' = IF does = "remove" /\ \E d \in Client \ {c} : Removes(d, l)
                               THEN removedTwice \cup {l} ELSE removedTwice
  /\ UNCHANGED <<listenersList, created, callbacks, listenersMutex, eventsMutex, jobs,
                 fired, notified, due, leaked, dangling>>

CommandAddListener(c, x) ==
  /\ command[c] = Idle /\ listenersMutex = Free /\ Named(x) = {}
  /\ created < MaxListeners
  /\ created' = created + 1
  /\ listener' = [listener EXCEPT ![created + 1] =
                    [name |-> x, all |-> FALSE, events |-> <<>>, refs |-> 1]]
  /\ Becomes(c, [at |-> "add", l |-> created + 1])
  /\ UNCHANGED <<listenersList, callbacks, listenersMutex, eventsMutex, jobs, fired,
                 notified, due, removedTwice, leaked, dangling>>

\* The first listener registers the callback, with its own mutex held.
AddListener(c) ==
  /\ command[c].at = "add" /\ listenersMutex = Free
  /\ listenersList' = Append(listenersList, command[c].l)
  /\ IF Len(listenersList') = 1
     THEN Becomes(c, [command[c] EXCEPT !.at = "register"]) /\ listenersMutex' = c
     ELSE Becomes(c, Idle) /\ UNCHANGED listenersMutex
  /\ UNCHANGED <<listener, created, callbacks, eventsMutex, jobs, fired, notified, due,
                 removedTwice, leaked, dangling>>

EventsRegisterListener(c) ==
  /\ command[c].at = "register" /\ eventsMutex = Free
  /\ callbacks' = callbacks + 1
  /\ listenersMutex' = Free /\ Becomes(c, Idle)
  /\ UNCHANGED <<listenersList, listener, created, eventsMutex, jobs, fired, notified, due,
                 removedTwice, leaked, dangling>>

\* The last to go unregisters it.
RemoveListener(c) ==
  /\ command[c].at = "remove" /\ listenersMutex = Free
  /\ LET l == command[c].l IN
       /\ \/ l \notin ToSet(listenersList) /\ UNCHANGED listenersList
          \/ \E i \in DOMAIN listenersList :
               listenersList[i] = l /\ listenersList' = RemoveAt(listenersList, i)
       /\ Excused({l})
       /\ dangling' = (dangling \/ listener[l].refs = 0)
  /\ IF listenersList' = <<>>
     THEN Becomes(c, [command[c] EXCEPT !.at = "unregister"]) /\ listenersMutex' = c
     ELSE Becomes(c, [command[c] EXCEPT !.at = "release"]) /\ UNCHANGED listenersMutex
  /\ UNCHANGED <<listener, created, callbacks, eventsMutex, jobs, fired, notified,
                 removedTwice, leaked>>

EventsUnregisterListener(c) ==
  /\ command[c].at = "unregister" /\ eventsMutex = Free
  /\ callbacks' = IF callbacks > 0 THEN callbacks - 1 ELSE 0
  /\ listenersMutex' = Free
  /\ Becomes(c, [command[c] EXCEPT !.at = "release"])
  /\ UNCHANGED <<listenersList, listener, created, eventsMutex, jobs, fired, notified, due,
                 removedTwice, leaked, dangling>>

\* The reference of the list and the one taken to find it.
ReleaseListener(c) ==
  /\ command[c].at = "release"
  /\ LET refs == listener[command[c].l].refs IN
       /\ listener' = [listener EXCEPT ![command[c].l].refs = IF refs < 2 THEN 0 ELSE refs - 2]
       /\ dangling' = (dangling \/ refs < 2)
  /\ Becomes(c, Idle)
  /\ UNCHANGED <<listenersList, created, callbacks, listenersMutex, eventsMutex, jobs,
                 fired, notified, due, removedTwice, leaked>>

\* The reference of what a command has found.
ObjectRefDec(L) == [L EXCEPT !.refs = @ - 1]

AddListenerEvent(L, f) ==
  [L EXCEPT !.all = @ \/ f = All, !.events = IF f = All THEN @ ELSE Append(@, f)]

\* One filter of those that read f, of which nobody can tell which.
RemoveListenerEvent(L, f) ==
  IF f = All THEN {[L EXCEPT !.all = FALSE]}
  ELSE {[L EXCEPT !.events = RemoveAt(@, i)] : i \in {k \in DOMAIN L.events : L.events[k] = f}}

\* The reference is dropped.
CommandAddListenEvent(c, f) ==
  /\ command[c].at = "addevent" /\ listenersMutex = Free
  /\ f = All \/ Len(listener[command[c].l].events) < MaxFilters
  /\ LET l == command[c].l IN
       /\ dangling' = (dangling \/ listener[l].refs = 0)
       /\ listener' = [listener EXCEPT ![l] = ObjectRefDec(AddListenerEvent(listener[l], f))]
  /\ Becomes(c, Idle)
  /\ UNCHANGED <<listenersList, created, callbacks, listenersMutex, eventsMutex, jobs,
                 fired, notified, due, removedTwice, leaked>>

\* The reference is kept when there is no such filter (bound: once for a
\* listener).
CommandRemoveListenEvent(c, f) ==
  /\ command[c].at = "rmevent" /\ listenersMutex = Free
  /\ LET l       == command[c].l
         without == RemoveListenerEvent(listener[l], f) IN
       /\ dangling' = (dangling \/ listener[l].refs = 0)
       /\ \/ /\ \E L \in without : listener' = [listener EXCEPT ![l] = ObjectRefDec(L)]
             /\ UNCHANGED leaked
          \/ /\ without = {} /\ l \notin leaked
             /\ leaked' = leaked \cup {l} /\ UNCHANGED listener
       /\ Excused({l})
  /\ Becomes(c, Idle)
  /\ UNCHANGED <<listenersList, created, callbacks, listenersMutex, eventsMutex, jobs,
                 fired, notified, removedTwice>>

----------------------------------------------------------------------------
(* Events. *)

EventsFireEventListeners(e) ==
  /\ eventsMutex = Free /\ fired < MaxFired
  /\ eventsMutex' = e
  /\ UNCHANGED <<listenersList, listener, created, callbacks, listenersMutex, command, jobs,
                 fired, notified, due, removedTwice, leaked, dangling>>

Asks(l, e) ==
  listener[l].all \/ \E f \in ToSet(listener[l].events) : e \in Selects[f]

\* One job for each registration, then the mutex is released. Who listens by
\* now has to be told, if its callback is registered.
EventCallback ==
  /\ eventsMutex # Free
  /\ fired' = fired + 1
  /\ jobs' = jobs \o [i \in 1..callbacks |-> [event |-> eventsMutex, n |-> fired']]
  /\ due' = [l \in Listeners |->
               IF l \in ToSet(listenersList) /\ Asks(l, eventsMutex) /\ listenersMutex = Free
               THEN due[l] \cup {fired'} ELSE due[l]]
  /\ eventsMutex' = Free
  /\ UNCHANGED <<listenersList, listener, created, callbacks, listenersMutex, command,
                 notified, removedTwice, leaked, dangling>>

DeferredInformListeners ==
  /\ jobs # <<>> /\ listenersMutex = Free
  /\ jobs' = Tail(jobs)
  /\ notified' = [l \in Listeners |->
                IF l \in ToSet(listenersList) /\ Asks(l, Head(jobs).event)
                THEN Append(notified[l], Head(jobs).n) ELSE notified[l]]
  /\ dangling' = (dangling \/ \E l \in ToSet(listenersList) : listener[l].refs = 0)
  /\ UNCHANGED <<listenersList, listener, created, callbacks, listenersMutex, eventsMutex,
                 command, fired, due, removedTwice, leaked>>

----------------------------------------------------------------------------

DispatcherNext ==
  \/ \E c \in Client :
       \/ \E x \in Label :
            \/ CommandAddListener(c, x)
            \/ \E does \in {"remove", "addevent", "rmevent"} : FindListener(c, x, does)
       \/ AddListener(c) \/ EventsRegisterListener(c)
       \/ RemoveListener(c) \/ EventsUnregisterListener(c) \/ ReleaseListener(c)
       \/ \E f \in Filters : CommandAddListenEvent(c, f) \/ CommandRemoveListenEvent(c, f)
  \/ \E e \in Event : EventsFireEventListeners(e)
  \/ EventCallback
  \/ DeferredInformListeners

DispatcherSpec == EventDispatcherInstalled /\ [][DispatcherNext]_dispatcher

----------------------------------------------------------------------------

\* An event that is fired while a listener is there and asks for it, and goes
\* on doing so, is told to it or is still queued for it; and whatever a
\* listener is told comes once and in the order of the events.
ListenersTold ==
  \A l \in Listeners :
    /\ \A n \in due[l] : n \in ToSet(notified[l]) \/ \E i \in DOMAIN jobs : jobs[i].n = n
    /\ \A i, j \in DOMAIN notified[l] : i < j => notified[l][i] < notified[l][j]

\* Clients with a reference of their own to a listener, and whether there is one
\* of the list.
Holders(l) ==
  {c \in Client : command[c] # Idle /\ command[c].at # "register" /\ command[c].l = l}
Kept(l) ==
  \/ l \in ToSet(listenersList)
  \/ \E c \in Client : command[c].at \in {"unregister", "release"} /\ command[c].l = l

\* A listener that is listed or in the hands of a command is not freed, and one
\* nobody has is freed; unless two clients remove it at the same time, or a
\* filter that was to be removed from it did not exist.
ListenersCounted ==
  /\ dangling => removedTwice # {}
  /\ \A l \in Listeners \ (removedTwice \cup leaked) :
       listener[l].refs = Cardinality(Holders(l)) + IF Kept(l) THEN 1 ELSE 0

\* Listeners are told what they ask for, and are there for as long as anybody
\* has them.
ListenersServed == ListenersTold /\ ListenersCounted

=============================================================================
