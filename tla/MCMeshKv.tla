------------------------------ MODULE MCMeshKv ------------------------------
(* MeshKv on two peers, one of which loses its store once; 1 and 2 stand   *)
(* for two ordered Uuids.                                                  *)
EXTENDS MeshKv

CONSTANTS x

MCMaxRestarts == <<1, 0>>
=============================================================================
