----------------------------- MODULE MCTSReader -----------------------------
(* TLC instances of TSReader. *)
EXTENDS TSReader, TLC

CONSTANTS g1, g2

\* The first group's section lists are the first to give way.
MCPriority == [g \in Group |-> IF g = g1 THEN 1 ELSE 0]

PidSymmetry == Permutations(Pid)

=============================================================================
