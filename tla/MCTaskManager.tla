--------------------------- MODULE MCTaskManager ---------------------------
(* Instances of TaskManager for TLC.                                       *)
EXTENDS TaskManager, TLC

CONSTANTS w1, w2, p1, p2, t1, t2

Threads == Permutations(Thread)

\* t1 hooks both libraries, t2 (single) only the second.
Scopes == [t \in Task |-> IF t = t1 THEN Path ELSE {p2}]
==========================================================================
