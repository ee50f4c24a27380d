---------------------------- MODULE MCTableParts ----------------------------
(* Two daemons that connect twice, and a name that one of them gives;      *)
(* three services; ttl 2 is the window of the nonces; two clients and one  *)
(* template.                                                               *)
EXTENDS TableParts, TLC

CONSTANTS a, b, h, v1

MCHomes  == {<<a, h>>}
MCTtl    == (a :> 1) @@ (b :> 2)

\* Up to three services, numbered in the order in which they occur.
MCStates ==
  {s \in UNION {[1 .. n -> [name : 1 .. 4, deps : SUBSET (1 .. 4)]] :
                  n \in 0 .. 3} :
     \A i \in DOMAIN s : \A n \in 1 .. s[i].name - 1 :
       \E j \in 1 .. i - 1 : s[j].name = n}
=============================================================================
