---------------------------- MODULE MCFixtureRun ----------------------------
(* A plan of a parent and a child that hangs on it.                        *)
EXTENDS FixtureRun

CONSTANTS parent, child

MCLevel == [n \in Nodes |-> IF n = parent THEN 1 ELSE 2]
MCParents == [n \in Nodes |-> IF n = parent THEN {} ELSE {parent}]

\* A lost lease takes the place of a fault.
FewTroubles == lease = "LOST" => faults < MaxFaults
=============================================================================
