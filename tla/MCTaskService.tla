---------------------------- MODULE MCTaskService ----------------------------
(* TaskService for TLC: the shapes of processes, dependencies, triggers.   *)
EXTENDS TaskService, TLC

CONSTANTS ta, tb, g1, g2, g3, p1, p2, x1, x2

OneProcess == [x \in Thread |-> p1]
TwoProcesses == [x \in Thread |-> IF x = x1 THEN p1 ELSE p2]

Independent == [t \in Task |-> {}]
BAfterA == [t \in Task |-> IF t = tb THEN {ta} ELSE {}]

AllForA == [g \in Trigger |-> ta]
OneEach == [g \in Trigger |-> IF g = g1 THEN ta ELSE tb]
=============================================================================
