--------------------------- MODULE MCHookManager ---------------------------
(* Instances of HookManager for TLC.                                       *)
EXTENDS HookManager, TLC

CONSTANTS w1, w2, e1, e2, g1, g2, o1, o2, t1, t2, t3, f1, f2

Threads == Permutations(Thread)

\* One ELF with one slot, three tasks, two of them with the same proxy.
OneElfGots == e1 :> {g1}
OneElfOrig == g1 :> o1
SharedFunc == t1 :> f1 @@ t2 :> f1 @@ t3 :> f2
NoCallee == [t \in Task |-> None]
OneElfScope == [t \in Task |-> {e1}]

\* Two slots in one ELF, two tasks, the second with a callee filter.
TwoSlotGots == e1 :> {g1, g2}
TwoSlotOrig == g1 :> o1 @@ g2 :> o2
TwoTaskFunc == t1 :> f1 @@ t2 :> f2
TwoTaskCallee == t1 :> None @@ t2 :> o1
==========================================================================
