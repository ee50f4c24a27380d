----------------------------- MODULE MCLiveParts ----------------------------
(* Two daemons, one connection, two adds of one name or two, a stream of   *)
(* two chunks from the client besides those no frame holds, of which both  *)
(* ends send as many as they like, keys of every length that matters.      *)
EXTENDS LiveParts, TLC

CONSTANTS a, b, h, v1, v2, empty, long

MCHomes  == {<<a, h>>}
MCChunks == (a :> 2) @@ (b :> 0)
MCKeyLen == (a :> 1) @@ (b :> 2) @@ (empty :> 0) @@ (long :> 9)
MCValLen == (v1 :> 1) @@ (v2 :> 3)
=============================================================================
