----------------------- MODULE MCServiceReconciliation -----------------------
(* ServiceReconciliation on small instances: a service alone, or one that   *)
(* needs another.                                                          *)
EXTENDS ServiceReconciliation, TLC

CONSTANTS db, web

Alone    == [svc \in Services |-> {}]
WebOnDb  == [svc \in Services |-> IF svc = web THEN {db} ELSE {}]
Symmetry == Permutations(Nodes)
=============================================================================
