----------------------------- MODULE DeferredProc -----------------------------
(***************************************************************************)
(* The deferred processing thread (threading/deferredproc.c) on its        *)
(* message queue (threading/messageq.c).                                   *)
(*                                                                         *)
(* The dispatcher threads and the running job add jobs; main stops the     *)
(* dispatchers before it shuts the thread down (main.c).  Each call of the *)
(* queue holds its mutex and is one step, but a receiver that finds no     *)
(* message gives the mutex up while it waits for the condition.            *)
(***************************************************************************)
EXTENDS Integers, Sequences

CONSTANTS Job, NoJob,
          SpuriousWakeups  \* pthread_cond_wait may return without a signal

ASSUME DeferredAssumption == NoJob \notin Job /\ SpuriousWakeups \in BOOLEAN

VARIABLES messages,  \* MessageQ_s.messages
          quit,      \* MessageQ_s.quit
          worker,    \* where DeferredProcessingThread stands
          job,       \* the job it runs
          main,      \* where DeferredProcessingDeinit stands
          added,     \* jobs DeferredProcessingAddJob was called for
          refs       \* references it holds on the arguments

vars == <<messages, quit, worker, job, main, added, refs>>

-----------------------------------------------------------------------------
(* The message queue.                                                      *)

\* pthread_cond_signal: the receiver leaves the wait, once it has the mutex.
Signal == worker' = IF worker = "asleep" THEN "woken" ELSE worker

\* Mutant of Send: the newest message is put in front.
SendInFront(m) ==
  IF quit THEN UNCHANGED <<messages, worker>>
          ELSE messages' = <<m>> \o messages /\ Signal

\* MessageQSend: a queue that was told to quit takes no more messages.
Send(m) ==
  IF quit THEN UNCHANGED <<messages, worker>>
          ELSE messages' = Append(messages, m) /\ Signal

\* The last part of MessageQReceive.  ListIterator_Current reads through the
\* NULL head of an empty list.
Take ==
  \/ /\ quit
     /\ worker' = "test"
     /\ UNCHANGED <<messages, job>>
  \/ /\ ~quit /\ messages # <<>>
     /\ job' = Head(messages)
     /\ messages' = Tail(messages)
     /\ worker' = "run"
  \/ /\ ~quit /\ messages = <<>>
     /\ worker' = "crashed"
     /\ UNCHANGED <<messages, job>>

-----------------------------------------------------------------------------
(* The deferred processing thread.                                         *)

TestQuit ==
  /\ worker = "test"
  /\ worker' = IF quit THEN "reset" ELSE "receive"
  /\ UNCHANGED <<messages, quit, job, main, added, refs>>

\* Mutant of Receive: it waits without having tested the quit flag.
ReceiveUntested ==
  /\ worker = "receive"
  /\ \/ /\ messages = <<>>
        /\ worker' = "asleep"
        /\ UNCHANGED <<messages, job>>
     \/ /\ messages # <<>>
        /\ Take
  /\ UNCHANGED <<quit, main, added, refs>>

Receive ==
  /\ worker = "receive"
  /\ \/ /\ ~quit /\ messages = <<>>
        /\ worker' = "asleep"
        /\ UNCHANGED <<messages, job>>
     \/ /\ quit \/ messages # <<>>
        /\ Take
  /\ UNCHANGED <<quit, main, added, refs>>

WakeUp ==
  /\ worker = "woken"
  /\ Take
  /\ UNCHANGED <<quit, main, added, refs>>

WakeSpuriously ==
  /\ SpuriousWakeups
  /\ worker = "asleep"
  /\ worker' = "woken"
  /\ UNCHANGED <<messages, quit, job, main, added, refs>>

\* The processor has run and dropped the reference of its argument.
FinishJob ==
  /\ worker = "run"
  /\ refs' = [refs EXCEPT ![job] = @ - 1]
  /\ job' = NoJob
  /\ worker' = "test"
  /\ UNCHANGED <<messages, quit, main, added>>

ResetQuit ==
  /\ worker = "reset"
  /\ quit' = FALSE
  /\ worker' = "discard"
  /\ UNCHANGED <<messages, job, main, added, refs>>

\* Mutant of Discard: the waiting jobs' arguments are not released.
DiscardUnreleased ==
  /\ worker = "discard"
  /\ \/ /\ messages # <<>>
        /\ messages' = Tail(messages)
        /\ UNCHANGED worker
     \/ /\ messages = <<>>
        /\ worker' = "exited"
        /\ UNCHANGED messages
  /\ UNCHANGED <<quit, job, main, added, refs>>

Discard ==
  /\ worker = "discard"
  /\ \/ /\ messages # <<>>
        /\ refs' = [refs EXCEPT ![Head(messages)] = @ - 1]
        /\ messages' = Tail(messages)
        /\ UNCHANGED worker
     \/ /\ messages = <<>>
        /\ worker' = "exited"
        /\ UNCHANGED <<messages, refs>>
  /\ UNCHANGED <<quit, job, main, added>>

-----------------------------------------------------------------------------
(* Its callers.                                                            *)

\* Mutant of AddJob: the argument is not referenced.
AddJobUnreferenced(j) ==
  /\ j \notin added
  /\ main = "serving" \/ worker = "run"
  /\ added' = added \cup {j}
  /\ Send(j)
  /\ UNCHANGED <<quit, job, main, refs>>

\* DeferredProcessingAddJob, called from a dispatcher that still runs or from
\* a running job.
AddJob(j) ==
  /\ j \notin added
  /\ main = "serving" \/ worker = "run"
  /\ added' = added \cup {j}
  /\ refs' = [refs EXCEPT ![j] = @ + 1]
  /\ Send(j)
  /\ UNCHANGED <<quit, job, main>>

\* DeferredProcessingDeinit up to pthread_join.
SetQuit ==
  /\ main = "serving"
  /\ main' = "joining"
  /\ quit' = TRUE
  /\ Signal
  /\ UNCHANGED <<messages, job, added, refs>>

\* DeferredProcessingDeinit after pthread_join: MessageQDestroy drops the
\* messages still queued.
Destroy ==
  /\ main = "joining"
  /\ worker = "exited"
  /\ main' = "destroyed"
  /\ quit' = TRUE
  /\ messages' = <<>>
  /\ UNCHANGED <<worker, job, added, refs>>

-----------------------------------------------------------------------------

Init ==
  /\ messages = <<>>
  /\ quit = FALSE
  /\ worker = "test"
  /\ job = NoJob
  /\ main = "serving"
  /\ added = {}
  /\ refs = [j \in Job |-> 0]

Worker == TestQuit \/ Receive \/ WakeUp \/ FinishJob \/ ResetQuit \/ Discard

Next ==
  \/ Worker \/ WakeSpuriously
  \/ \E j \in Job : AddJob(j)
  \/ SetQuit \/ Destroy

Spec == Init /\ [][Next]_vars

\* The threads are scheduled and every job ends.
FairSpec == Spec /\ WF_vars(Worker) /\ WF_vars(Destroy)

-----------------------------------------------------------------------------
(* Properties.                                                             *)

\* Every variable keeps its type.
TypeOK ==
  /\ messages \in Seq(Job)
  /\ quit \in BOOLEAN
  /\ worker \in {"test", "receive", "asleep", "woken", "run", "reset",
                 "discard", "exited", "crashed"}
  /\ job \in Job \cup {NoJob}
  /\ main \in {"serving", "joining", "destroyed"}
  /\ added \in SUBSET Job
  /\ refs \in [Job -> {0, 1}]

\* messageq.h:74: MessageQReceive returns an object, or NULL if quit is set.  It
\* does not where the condition may wake up without a signal.
ReceiveReturns == worker # "crashed"

\* What the abstract queue shows of a state.
Promise == INSTANCE JobQueue WITH
  submitted <- added,
  waiting   <- messages,
  running   <- job,
  phase     <- IF main = "serving" THEN "open"
               ELSE IF main = "joining" THEN "closing" ELSE "closed"

\* The thread and its queue keep the promise of deferredproc.h: jobs run in the
\* order they were added, one at a time, none once the shutdown began, also where
\* a wake-up may come without a signal.
KeepsOrder == Promise!Spec

\* They keep its progress too, unless the thread crashes: no wake-up is lost, all
\* jobs run until the shutdown and main's join returns.
KeepsPromise == []ReceiveReturns => Promise!Progress

\* The arguments of the jobs that wait or run are referenced, once each.
QueuedJobsAreReferenced ==
  \A j \in Job : (j = job \/ \E i \in 1..Len(messages) : messages[i] = j)
                   => refs[j] = 1

\* A job that was queued when the module shut down leaves no reference behind:
\* discarding it releases what adding it took.
DiscardedJobsAreReleased ==
  [][\A j \in Job :
       (j \in {messages[i] : i \in 1..Len(messages)}
          /\ j \notin {messages'[i] : i \in 1..Len(messages')}
          /\ job' # j)
         => refs'[j] = refs[j] - 1]_vars

=============================================================================
