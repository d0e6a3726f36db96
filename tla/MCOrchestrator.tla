---------------------------- MODULE MCOrchestrator ----------------------------
(***************************************************************************)
(* Small plans for TLC: two or three tasks, one or two dependencies, agents *)
(* x and y.                                                                *)
(***************************************************************************)
EXTENDS OrchestratorInv, TLC

CONSTANTS a, b, c, x, y

NoDeps == {}
\* b needs a.
ChainDeps == {<<b, a>>}
\* c needs a; b needs nothing.
ForkDeps == {<<c, a>>}

\* Agent y works on one task only.
YTakesA == [t \in Tasks |-> IF t = a THEN y ELSE x]
YTakesB == [t \in Tasks |-> IF t = b THEN y ELSE x]

FlatPriority == [t \in Tasks |-> 0]

NoRetry == [t \in Tasks |-> 0]
OneRetry == [t \in Tasks |-> 1]
RetryFirst == [t \in Tasks |-> IF t = a THEN 1 ELSE 0]

\* Processes are interchangeable; used only where no liveness is checked.
Symmetry == Permutations(Procs)
=============================================================================
