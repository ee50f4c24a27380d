--------------------------- MODULE MCHubProbing ---------------------------
(* One slot for two ids, the first of which has a health check.            *)
EXTENDS HubProbing
=============================================================================
