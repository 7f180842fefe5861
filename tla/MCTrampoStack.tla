--------------------------- MODULE MCTrampoStack ---------------------------
(* Instances of TrampoStack for TLC.                                       *)
EXTENDS TrampoStack, TLC

CONSTANTS e1, e2, g1, g2, g3, o1, o2, o3, t1, t2, f1, f2

\* Two ELFs, whose three slots lead to different functions.
TwoElfGots == e1 :> {g1} @@ e2 :> {g2, g3}
TwoElfOrig == g1 :> o1 @@ g2 :> o2 @@ g3 :> o3
TwoTaskFunc == t1 :> f1 @@ t2 :> f2
TwoTaskScope == t1 :> {e1, e2} @@ t2 :> {e1}
NoCallee == [t \in Task |-> None]
======================================================================
