------------------------------- MODULE MCThreads -------------------------------
(* DeferredProc and Program for TLC. They share nothing, so one behaviour is  *)
(* of one of them: four jobs; or two clients of the remote interface, either  *)
(* of which may listen to EPG messages.                                       *)
EXTENDS DeferredProc, Program

CONSTANTS j1, j2, j3, j4

VARIABLE part

MCJob == {j1, j2, j3, j4}

MCInit ==
  /\ part \in {"jobs", "program"}
  /\ Init
  /\ ProgramInit /\ (part = "program" \/ sync)

MCNext ==
  \/ part = "jobs" /\ Next /\ UNCHANGED <<part, program>>
  \/ part = "program" /\ ProgramNext /\ UNCHANGED <<part, vars>>

\* Nothing of the program is under way where the jobs are, so that its fairness
\* asks nothing there.
MCSpec ==
  /\ MCInit /\ [][MCNext]_<<part, vars, program>>
  /\ WF_vars(part = "jobs" /\ Worker) /\ WF_vars(part = "jobs" /\ Destroy)
  /\ ProgramFairness

=============================================================================
