-------------------------------- MODULE Tuning --------------------------------
(***************************************************************************)
(* The current service and multiplex (tuning.c), shared by the user's      *)
(* thread and the input thread.                                            *)
(*                                                                         *)
(* A call is the list of the steps its thread has still to take: whatever  *)
(* the code does between two locks, or reads again later, is a step of its *)
(* own.  The only lock around all of this, "locked", is a flag that a      *)
(* scan sets: it is tested when a call starts and never again.             *)
(***************************************************************************)
EXTENDS Integers, Sequences, FiniteSets

CONSTANTS Service,       \* the services of the database
          Mux,           \* the multiplexes there are
          MuxOf,         \* multiplexUID of each service
          None,          \* NULL
          User, Input    \* the threads

Thread == {User, Input}

ASSUME TuningAssumption ==
  /\ MuxOf \in [Service -> Mux]
  /\ None \notin Service \cup Mux
  /\ User # Input /\ None \notin Thread

VARIABLES
  enabled,           \* reader->enabled
  held,              \* thread that keeps the reader's mutex over several steps
  currentService,    \* CurrentService
  currentMultiplex,  \* CurrentMultiplex
  cached,            \* multiplex whose services are in the cache
  locked,            \* the lock of the current service
  tunedTo,           \* what the front end was last asked for
  rows,              \* the multiplexes in the database
  changed,           \* reader->multiplexChanged
  todo,              \* per thread the steps of its call
  crashed            \* NULL has been dereferenced

tuning == <<enabled, held, currentService, currentMultiplex, cached, locked,
            tunedTo, rows, changed, todo, crashed>>

-----------------------------------------------------------------------------
(* Steps.                                                                  *)

Idle(t) == todo[t] = <<>>

\* The next step of t is this one, with argument x.
Doing(t, step, x) ==
  /\ ~crashed
  /\ ~Idle(t)
  /\ Head(todo[t]) = <<step, x>>

\* The step is done; these come before the rest of the call.
Then(t, steps) == todo' = [todo EXCEPT ![t] = steps \o Tail(@)]

\* t starts a call.
Call(t, steps) == /\ ~crashed /\ Idle(t)
                  /\ todo' = [todo EXCEPT ![t] = steps]

\* The mutex is free for t, which may have it already.
MayLock(t) == held \in {None, t}

\* TuneMultiplex.
TuneSteps(m) == <<<<"load", m>>, <<"tune", m>>, <<"announce", m>>>>

-----------------------------------------------------------------------------
(* The calls.                                                              *)

\* TuningCurrentServiceSet: nothing happens when a scan has the lock or the
\* service is the current one already.
SetCurrentService(t, s) ==
  /\ ~locked /\ currentService # s
  /\ Call(t, <<<<"disable", None>>, <<"find", s>>>>)

\* What a retune is made of; without a current service it is nothing.
RetuneSteps ==
  IF currentService = None THEN <<>>
  ELSE <<<<"disable", None>>, <<"retune", None>>>>

\* TuningCurrentMultiplexSet; the write back takes the mutex on its own.
MultiplexSteps(m) ==
  <<<<"disable", None>>>> \o TuneSteps(m) \o <<<<"enable", None>>>>

-----------------------------------------------------------------------------
(* Their steps.                                                            *)

Enable(t) ==
  \E on \in BOOLEAN :
    /\ Doing(t, IF on THEN "enable" ELSE "disable", None)
    /\ MayLock(t)
    /\ enabled' = on
    /\ Then(t, <<>>)
    /\ UNCHANGED <<held, currentService, currentMultiplex, cached, locked, tunedTo,
                   rows, changed, crashed>>

\* MultiplexFindUID finds no row: the result is dereferenced all the same.
Crash(t) ==
  /\ crashed' = TRUE
  /\ UNCHANGED <<enabled, held, currentService, currentMultiplex, cached, locked,
                 tunedTo, rows, changed, todo>>

\* The multiplex of the service to be selected: it is tuned only if it is not
\* the current one.
FindMultiplex(t) ==
  \E s \in Service :
    /\ Doing(t, "find", s)
    /\ \/ MuxOf[s] \notin rows /\ Crash(t)
       \/ /\ MuxOf[s] \in rows
          /\ Then(t, (IF currentMultiplex = MuxOf[s] THEN <<>> ELSE TuneSteps(MuxOf[s]))
                       \o <<<<"current", s>>, <<"follow", None>>, <<"enable", None>>>>)
          /\ UNCHANGED <<enabled, held, currentService, currentMultiplex, cached,
                         locked, tunedTo, rows, changed, crashed>>

\* TuningCurrentServiceRetune reads the current service again.
RetuneMultiplex(t) ==
  /\ Doing(t, "retune", None)
  /\ \/ /\ currentService = None \/ MuxOf[currentService] \notin rows
        /\ Crash(t)
     \/ /\ currentService # None /\ MuxOf[currentService] \in rows
        /\ Then(t, TuneSteps(MuxOf[currentService]) \o <<<<"enable", None>>>>)
        /\ UNCHANGED <<enabled, held, currentService, currentMultiplex, cached, locked,
                       tunedTo, rows, changed, crashed>>

\* CacheLoad.
LoadCache(t) ==
  \E m \in Mux :
    /\ Doing(t, "load", m)
    /\ cached' = m
    /\ Then(t, <<>>)
    /\ UNCHANGED <<enabled, held, currentService, currentMultiplex, locked, tunedTo,
                   rows, changed, crashed>>

\* CurrentMultiplex and DVBFrontEndTune.
TuneMultiplex(t) ==
  \E m \in Mux :
    /\ Doing(t, "tune", m)
    /\ currentMultiplex' = m
    /\ tunedTo' = m
    /\ Then(t, <<>>)
    /\ UNCHANGED <<enabled, held, currentService, cached, locked, rows, changed, crashed>>

\* TSReaderMultiplexChanged: a flag and a wake-up, with no lock.
Announce(t) ==
  \E m \in Mux :
    /\ Doing(t, "announce", m)
    /\ changed' = TRUE
    /\ Then(t, <<>>)
    /\ UNCHANGED <<enabled, held, currentService, currentMultiplex, cached, locked,
                   tunedTo, rows, crashed>>

\* CurrentService becomes what the cache has for the id, which is NULL when
\* another multiplex has been loaded since.
SetCurrent(t) ==
  \E s \in Service :
    /\ Doing(t, "current", s)
    /\ currentService' = IF cached = MuxOf[s] THEN s ELSE None
    /\ Then(t, <<>>)
    /\ UNCHANGED <<enabled, held, currentMultiplex, cached, locked, tunedTo, rows,
                   changed, crashed>>

TuningStep(t) ==
  \/ Enable(t) \/ FindMultiplex(t) \/ RetuneMultiplex(t) \/ LoadCache(t)
  \/ TuneMultiplex(t) \/ Announce(t) \/ SetCurrent(t)

\* Nothing is under way: s is selected, or nothing yet.
TuningInit(s) ==
  LET m == IF s = None THEN None ELSE MuxOf[s]
  IN  /\ enabled = (s # None) /\ held = None
      /\ currentService = s /\ currentMultiplex = m /\ cached = m
      /\ locked = FALSE /\ tunedTo = m
      /\ changed = FALSE
      /\ todo = [t \in Thread |-> <<>>]
      /\ crashed = FALSE

=============================================================================
