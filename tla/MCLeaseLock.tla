----------------------------- MODULE MCLeaseLock -----------------------------
(* LeaseLock on one daemon: its clients differ in their names and in the   *)
(* ttl they ask for.                                                       *)
EXTENDS LeaseLock

CONSTANTS p1, s1, s2, a, b

OneDaemon == [s \in Sessions |-> p1]
Names     == [s \in Sessions |-> IF s = s1 THEN a ELSE b]
Ttls      == [s \in Sessions |-> IF s = s1 THEN 2 ELSE 1]
=============================================================================
