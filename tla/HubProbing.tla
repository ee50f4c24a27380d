---------------------------- MODULE HubProbing ----------------------------
(***************************************************************************)
(* The whole of the local supervision: HealthProbing and HubDeployment over *)
(* one NodeSupervision, a registry that fills up and a health loop that    *)
(* awaits probes.                                                          *)
(***************************************************************************)
EXTENDS HubDeployment, HealthProbing

localVars == <<hubVars, probingVars>>

LocalTypeOK == HubTypeOK /\ ProbingTypeOK

LocalInit == ProbingInit /\ unlisted = {}

LocalNext ==
  \/ ProbingNext /\ UNCHANGED unlisted
  \/ /\ \E w \in Portals, n \in Nodes : PortalOverflow(w, n)
     /\ UNCHANGED probingVars

\* The health loop goes round, and a probe ends by its timeout at the latest.
LocalSpec == LocalInit /\ [][LocalNext]_localVars
               /\ WF_localVars(ProbeStep /\ UNCHANGED unlisted)
               /\ WF_localVars(HealthStep /\ Others /\ UNCHANGED unlisted)
=============================================================================
