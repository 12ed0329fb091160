------------------------------ MODULE MCScanning ------------------------------
(* Scanning for TLC: a multiplex of the database and an unknown one that a    *)
(* full scan or the NIT of the first can find, each with a service. Locking   *)
(* may fail on both, so both may also be removed.                             *)
EXTENDS Scanning

CONSTANTS m1, m2, s1, s2

MCMux == {m1, m2}
MCService == {s1, s2}
MCMuxOf == [s \in MCService |-> IF s = s1 THEN m1 ELSE m2]
MCFirstRows == {m1}
MCSpectrum == <<m1, m2>>
MCAlive == MCMux
MCPrograms == [m \in MCMux |-> IF m = m1 THEN <<1, 2>> ELSE <<>>]
MCAnnounced == [m \in MCMux |-> IF m = m1 THEN <<m2>> ELSE <<>>]

=============================================================================
