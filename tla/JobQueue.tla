------------------------------ MODULE JobQueue ------------------------------
(***************************************************************************)
(* What deferredproc.h promises its callers: jobs handed over run later,   *)
(* one at a time and in the order they were added; once the module is shut *)
(* down no job is started any more and the waiting ones are dropped.       *)
(***************************************************************************)
EXTENDS Sequences

CONSTANTS Job,    \* the jobs that are ever added, each once
          NoJob   \* no job runs

VARIABLES submitted,  \* jobs handed over so far
          waiting,    \* the jobs to run, in order
          running,    \* the job being run
          phase       \* open, closing or closed

vars == <<submitted, waiting, running, phase>>

Init ==
  /\ submitted = {}
  /\ waiting = <<>>
  /\ running = NoJob
  /\ phase = "open"

\* A job added after the shutdown began is forgotten.
Submit(j) ==
  /\ j \notin submitted
  /\ phase # "closed"
  /\ submitted' = submitted \cup {j}
  /\ waiting' = IF phase = "open" THEN Append(waiting, j) ELSE waiting
  /\ UNCHANGED <<running, phase>>

Run ==
  /\ phase = "open"
  /\ running = NoJob
  /\ waiting # <<>>
  /\ running' = Head(waiting)
  /\ waiting' = Tail(waiting)
  /\ UNCHANGED <<submitted, phase>>

Finish ==
  /\ running # NoJob
  /\ running' = NoJob
  /\ UNCHANGED <<submitted, waiting, phase>>

BeginClose ==
  /\ phase = "open"
  /\ phase' = "closing"
  /\ UNCHANGED <<submitted, waiting, running>>

Drop ==
  /\ phase = "closing"
  /\ running = NoJob
  /\ waiting # <<>>
  /\ waiting' = Tail(waiting)
  /\ UNCHANGED <<submitted, running, phase>>

EndClose ==
  /\ phase = "closing"
  /\ running = NoJob
  /\ waiting = <<>>
  /\ phase' = "closed"
  /\ UNCHANGED <<submitted, waiting, running>>

Next ==
  \/ \E j \in Job : Submit(j)
  \/ Run \/ Finish \/ BeginClose \/ Drop \/ EndClose

Spec == Init /\ [][Next]_vars

\* Jobs are run and a shutdown ends as long as the jobs themselves end.
Progress == WF_vars(Run) /\ WF_vars(Finish) /\ WF_vars(Drop) /\ WF_vars(EndClose)

=============================================================================
