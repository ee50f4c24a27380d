----------------------- MODULE MCClusterCoordination -----------------------
(* ClusterCoordination on two peers; two tasks call the first.             *)
EXTENDS ClusterCoordination

CONSTANTS p1, p2, t1, t2

TasksOf == [p \in Peers |-> IF p = p1 THEN {t1, t2} ELSE {t1}]
=============================================================================
