---------------------------- MODULE MCTaskLaunch ----------------------------
(* One run of two partitions; two callers share a key and want different runs. *)
EXTENDS TaskLaunch
CONSTANTS r1, p1, p2, ci, other
\* Consumers that come too late leave before a dispatcher takes up the start: all
\* that they may still write needs a claim that they have lost.
LateConsumersGo == deliveries # {} => fills = {}

MCKey == [c \in Callers |-> "KEY"]
MCInput == [c \in Callers |-> IF c = other THEN "OTHER" ELSE "ONE"]
=============================================================================
