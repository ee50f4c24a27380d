--------------------------- MODULE HubDeployment ---------------------------
(***************************************************************************)
(* NodeSupervision with a full registry.  Sessions and the reconciler give *)
(* up when alloc_node fails; the portal (portal.rs) goes on with slot 0,   *)
(* so its node writes its pid and its exit over another node's slot.       *)
(* Slots are never freed, so the registry is full for good after MaxNodes  *)
(* spawns.                                                                 *)
(***************************************************************************)
EXTENDS NodeSupervision

VARIABLE unlisted   \* the ids that were given no slot of their own

hubVars == <<vars, unlisted>>

HubTypeOK == TypeOK /\ unlisted \in SUBSET Nodes

HubInit == Init /\ unlisted = {}

---------------------------------------------------------------------------
\* A new UUID: in no slot, and not that of another unlisted node.
NewId(n) == Fresh(n) /\ n \notin unlisted

\* alloc_node(..).unwrap_or(0).
PortalOverflow(w, n) ==
  /\ ~Busy(w)
  /\ Full
  /\ NewId(n)
  /\ spawns' = spawns \cup {[node |-> n, slot |-> 0, svc |-> NoService,
                             by |-> w, auto |-> FALSE, started |-> FALSE]}
  /\ unlisted' = unlisted \cup {n}
  /\ UNCHANGED <<slots, nodes, labels, procs, strays, kills, restarts, scan,
                 conn, autoKill, killed>>

\* What the other tasks do.  A full registry stays full, so none of them
\* draws an id any more once one is unlisted.
Supervise == Next /\ UNCHANGED unlisted

HubNext == Supervise \/ \E w \in Portals, n \in Nodes : PortalOverflow(w, n)

HubSpec == HubInit /\ [][HubNext]_hubVars

---------------------------------------------------------------------------
(* Properties.                                                             *)

\* Sharing a slot confuses the registry only: every process still has one
\* holder and every id one process.
NodesApart == OneHolder /\ OneProcessPerNode /\ KilledStaysDead
=============================================================================
