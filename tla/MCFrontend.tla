------------------------------ MODULE MCFrontend ------------------------------
(* Frontend and FileAdapter for TLC: two multiplexes, two PIDs. They share      *)
(* nothing, so one behaviour is of one of them.                                 *)
EXTENDS Frontend, FileAdapter

CONSTANTS p1, p2, v, a

VARIABLE part

MCParams == {p1, p2}
MCPid == {v, a}

\* A file of one packet of PID 1 among two of PID 2.
MCContents == <<2, 1, 2>>

MCInit ==
  /\ part \in {"device", "file"}
  /\ Init
  /\ FileAdapterInit

\* The adapter that is done away with stays so.
MCNext ==
  \/ part = "device" /\ Next /\ UNCHANGED <<part, fileState>>
  \/ part = "file" /\ FileAdapterNext /\ UNCHANGED <<part, vars>>
  \/ part = "file" /\ disposed /\ UNCHANGED <<part, vars, fileState>>

\* Where the files are, nothing of the device is under way and its fairness asks
\* nothing.
MCSpec ==
  /\ MCInit /\ [][MCNext]_<<part, vars, fileState>>
  /\ WF_state(HandleTune) /\ WF_state(HandleActive) /\ WF_state(HandleInactive)
  /\ WF_state(HandleEvent)

=============================================================================
