--------------------- MODULE ServiceReconciliationProofs ---------------------
(***************************************************************************)
(* Proofs about ServiceReconciliation for any nodes, services, dependencies *)
(* and replica counts: it implements NodeSupervision, so everything proved *)
(* there holds of a daemon whose reconciler runs, and a pass neither       *)
(* exceeds the replicas asked for nor kills what it did not spawn for the  *)
(* service.                                                                *)
(*                                                                         *)
(* The argument has two halves.  What the other tasks do to nodes, labels  *)
(* and spawns between two steps of a pass is summed up once, in            *)
(* Interference; the steps of the pass are then taken against that.        *)
(***************************************************************************)
EXTENDS ServiceReconciliation, NodeSupervisionProofs, FiniteSetTheorems

\* What a running pass is made of, whatever the copies it works from hold.
LEMMA PassFields ==
  ASSUME RecTypeOK, pass # NoPass
  PROVE  /\ pass \in Pass
         /\ pass.spec \in DesiredState
         /\ pass.live \in [Services -> SUBSET Nodes]
         /\ pass.todo \in SUBSET Services
         /\ pass.svc \in Services \cup {NoService}
         /\ pass.spawn \in Counts
         /\ pass.kill \in SUBSET Nodes
  BY DEF RecTypeOK, Pass

\* The replicas a desired state gives a service it lists are a bounded number.
LEMMA ReplicasAreCounts ==
  ASSUME NEW d \in DesiredState, NEW svc \in DOMAIN d
  PROVE  /\ svc \in Services
         /\ d[svc] \in Counts
<1>1. PICK S \in SUBSET Services : d \in [S -> Counts]
  BY DEF DesiredState
<1>2. QED
  BY <1>1

---------------------------------------------------------------------------
(* The pass is a client of NodeSupervision: it changes nothing there but   *)
(* through spawn_node_via_state and kill_node.                             *)

\* Every step of the reconciler's pass is a step of NodeSupervision's
\* reconciler or leaves the supervised state alone.
LEMMA StepImplements ==
  ASSUME RecTypeOK, CountsBound, [RecNext]_recVars
  PROVE  [Next]_vars
<1>1. CASE SupervisionStep
  BY <1>1 DEF Next
<1>2. ASSUME NEW s \in Sessions, NEW spec \in DesiredState,
             ApplyDesiredState(s, spec)
      PROVE  [Next]_vars
  BY <1>2 DEF ApplyDesiredState
<1>3. CASE PassBegins \/ PassEnds \/ SpawnRefused
  BY <1>3 DEF PassBegins, PassEnds, SpawnRefused
<1>4. ASSUME NEW svc \in Services,
             SkipService(svc) \/ AtCount(svc) \/ ScaleUp(svc) \/ ScaleDown(svc)
      PROVE  [Next]_vars
  BY <1>4 DEF SkipService, AtCount, ScaleUp, ScaleDown
<1>5. ASSUME NEW n \in Nodes, SpawnReplica(n)
      PROVE  [Next]_vars
  <2>1. pass.svc \in Services
    BY <1>5, PassFields DEF SpawnReplica, CountsBound
  <2>2. QED
    BY <1>5, <2>1 DEF SpawnReplica, Next, ReconcilerStep
<1>6. ASSUME NEW n \in Nodes, KillReplica(n)
      PROVE  [Next]_vars
  BY <1>6 DEF KillReplica, Next, ReconcilerStep
<1>7. CASE CoreLosesDesired
  BY <1>7 DEF CoreLosesDesired, Next
<1>8. CASE UNCHANGED recVars
  BY <1>8 DEF recVars
<1>9. QED
  BY <1>1, <1>2, <1>3, <1>4, <1>5, <1>6, <1>7, <1>8 DEF RecNext, PassStep

---------------------------------------------------------------------------
(* Labels.                                                                 *)

\* A node id Uuid::new_v4 may still return has no label and bears nothing.
LEMMA FreshUnlabelled ==
  ASSUME IInv, NEW n \in Nodes, Fresh(n)
  PROVE  /\ labels[n] = NoService
         /\ \A x \in Holders : x.node # n
<1>1. \A x \in Holders : x.node # n
  <2>1. ASSUME NEW x \in Holders
        PROVE  x.slot \in Slots
    BY DEF IInv, TypeOK, Holders, Handle, Spawn, Kill, Restart
  <2>2. QED
    BY <2>1 DEF IInv, SlotsExclusive, Fresh
<1>2. labels[n] = NoService
  BY <1>1 DEF IInv, LabelsInTable, InTable, Holders
<1>3. QED
  BY <1>1, <1>2

\* alloc_node and the spawn it opens keep the labels true.
LEMMA AllocKeepsLabels ==
  ASSUME IInv, LabelsTrue, NEW a \in Actors, NEW n \in Nodes,
         NEW svc \in Services \cup {NoService}, NEW auto \in BOOLEAN,
         svc # NoService <=> a = Reconciler, AllocNode(a, n, svc, auto)
  PROVE  LabelsTrue'
<1>1. PICK i \in Slots :
        spawns' = spawns \cup {[node |-> n, slot |-> i, svc |-> svc, by |-> a,
                                auto |-> auto, started |-> FALSE]}
  BY DEF AllocNode
<1>2. labels[n] = NoService
  BY FreshUnlabelled DEF AllocNode
<1>3. QED
  BY <1>1, <1>2 DEF AllocNode, LabelsTrue, Bearers

\* Taking a handle out of the table, with its label, keeps the labels true.
LEMMA RemoveKeepsLabels ==
  ASSUME IInv, LabelsTrue, NEW h \in nodes, RemoveNode(h),
         UNCHANGED spawns,
         restarts' \subseteq restarts \cup {[node |-> h.node, slot |-> h.slot,
           inc |-> h.inc + 1, svc |-> h.svc, started |-> FALSE]}
  PROVE  LabelsTrue'
<1>1. \A x \in Bearers : x.node \in Nodes
  BY DEF IInv, TypeOK, Bearers, Handle, Spawn, Restart
<1>2. \A n \in Nodes : labels'[n] = labels[n] \/ labels'[n] = NoService
  BY DEF RemoveNode, IInv, TypeOK
<1>3. labels'[h.node] = NoService
  BY <1>1 DEF RemoveNode, IInv, TypeOK, Bearers
<1>4. \A x \in Bearers' : x \in Bearers \/ x.node = h.node
  BY DEF Bearers, RemoveNode
<1>5. QED
  BY <1>1, <1>2, <1>3, <1>4 DEF LabelsTrue

\* Every step of every task keeps the labels true.
LEMMA LabelsStep == IInv /\ LabelsTrue /\ [Next]_vars => LabelsTrue'
<1> SUFFICES ASSUME IInv, LabelsTrue, [Next]_vars PROVE LabelsTrue'
  OBVIOUS
<1>1. CASE UNCHANGED <<nodes, labels, spawns, restarts>>
  BY <1>1 DEF LabelsTrue, Bearers
<1>2. ASSUME NEW a \in Sessions \cup Portals, NEW n \in Nodes,
             NEW auto \in BOOLEAN, AllocNode(a, n, NoService, auto)
      PROVE  LabelsTrue'
  BY <1>2, AllocKeepsLabels, ActorsAssumption DEF Actors
<1>3. ASSUME NEW n \in Nodes, NEW svc \in Services, ReconcilerSpawn(n, svc)
      PROVE  LabelsTrue'
  BY <1>3, AllocKeepsLabels, ServicesAssumption DEF ReconcilerSpawn, Actors
<1>4. ASSUME NEW o \in spawns, SpawnProcess(o)
      PROVE  LabelsTrue'
  <2> DEFINE q == [o EXCEPT !.started = TRUE]
  <2>1. q.node = o.node /\ q.svc = o.svc /\ q.by = o.by /\ o.node \in Nodes
    BY DEF IInv, TypeOK, Spawn
  <2>2. \A x \in Bearers : x.node \in Nodes /\ (x.node = o.node => x = o)
    BY DEF IInv, TypeOK, Bearers, Handle, Spawn, Restart, OneHolder, Distinct,
           Apart
  <2>3. \A x \in Bearers' : x = q \/ x \in Bearers \ {o}
    BY <1>4 DEF SpawnProcess, Bearers, IInv, OneHolder, Apart
  <2>4. \A x \in Bearers \ {o} : labels'[x.node] = labels[x.node]
    BY <1>4, <2>2 DEF SpawnProcess, IInv, TypeOK
  <2>5. labels'[o.node] \in {NoService, o.svc}
    BY <1>4, <2>1 DEF SpawnProcess, IInv, TypeOK, LabelsTrue, Bearers
  <2>6. QED
    BY <1>4, <2>1, <2>3, <2>4, <2>5 DEF SpawnProcess, LabelsTrue
<1>5. ASSUME NEW o \in spawns, SpawnFails(o)
      PROVE  LabelsTrue'
  BY <1>5 DEF SpawnFails, LabelsTrue, Bearers
<1>6. ASSUME NEW o \in spawns, InsertSpawned(o)
      PROVE  LabelsTrue'
  BY <1>6 DEF InsertSpawned, Inserted, LabelsTrue, Bearers
<1>7. ASSUME NEW h \in nodes, RemoveNode(h), UNCHANGED <<spawns, restarts>>
      PROVE  LabelsTrue'
  BY <1>7, RemoveKeepsLabels
<1>8. ASSUME NEW e \in scan, ScanExited(e)
      PROVE  LabelsTrue'
  <2>1. CASE UNCHANGED <<nodes, labels, restarts>>
    BY <1>1, <1>8, <2>1 DEF ScanExited
  <2>2. CASE \E h \in nodes :
               /\ RemoveNode(h)
               /\ restarts' \subseteq restarts \cup
                    {[node |-> h.node, slot |-> h.slot, inc |-> h.inc + 1,
                      svc |-> h.svc, started |-> FALSE]}
    BY <1>8, <2>2, RemoveKeepsLabels DEF ScanExited
  <2>3. QED
    BY <1>8, <2>1, <2>2 DEF ScanExited
<1>9. ASSUME NEW r \in restarts, RestartSpawn(r)
      PROVE  LabelsTrue'
  <2>1. r \in Restart
    BY DEF IInv, TypeOK
  <2>2. /\ [r EXCEPT !.started = TRUE].node = r.node
        /\ [r EXCEPT !.started = TRUE].svc = r.svc
    BY <2>1 DEF Restart
  <2>3. QED
    BY <1>9, <2>2 DEF RestartSpawn, LabelsTrue, Bearers
<1>10. ASSUME NEW r \in restarts, RestartFails(r)
       PROVE  LabelsTrue'
  BY <1>10 DEF RestartFails, LabelsTrue, Bearers
<1>11. ASSUME NEW r \in restarts, RestartInsert(r)
       PROVE  LabelsTrue'
  BY <1>11 DEF RestartInsert, Inserted, LabelsTrue, Bearers
<1>12. CASE CoreRestarts
  BY <1>12 DEF CoreRestarts, LabelsTrue, Bearers
<1>13. ASSUME NEW s \in Sessions, SessionStep(s)
       PROVE  LabelsTrue'
  BY <1>1, <1>2, <1>7, <1>13 DEF SessionStep, Connect, Disconnect,
     CleanupDone, SessionSpawn, SessionKillNotFound, CleanupNode, SessionKill,
     StartKill
<1>14. CASE ReconcilerStep
  BY <1>3, <1>7, <1>14 DEF ReconcilerStep, ReconcilerKill, StartKill
<1>15. CASE HealthStep
  BY <1>1, <1>8, <1>15 DEF HealthStep, ScanBegin, ScanSkip
<1>16. ASSUME NEW w \in Portals, NEW n \in Nodes, PortalDeploy(w, n)
       PROVE  LabelsTrue'
  BY <1>2, <1>16 DEF PortalDeploy
<1>17. ASSUME NEW k \in kills, KillStep(k)
       PROVE  LabelsTrue'
  BY <1>1, <1>17 DEF KillStep, FinishKill, FinishKillFails
<1>18. ASSUME NEW p \in procs, ProcessExits(p)
       PROVE  LabelsTrue'
  BY <1>1, <1>18 DEF ProcessExits
<1>19. CASE UNCHANGED vars
  BY <1>1, <1>19 DEF vars
<1>20. QED
  BY <1>4, <1>5, <1>6, <1>9, <1>10, <1>11, <1>12, <1>13, <1>14, <1>15, <1>16,
     <1>17, <1>18, <1>19 DEF Next, SupervisionStep, SpawnStep, RestartStep

---------------------------------------------------------------------------
(* What happens between two steps of a pass.                               *)

\* What a step of another task, or a kill of the reconciler's, may do to the
\* state a pass depends on.
Interference ==
  /\ \A o \in spawns' : o.by = Reconciler =>
       \E q \in spawns : q.by = Reconciler /\ q.svc = o.svc
  /\ \A svc \in Services, n \in Nodes : labels'[n] = svc =>
       \/ labels[n] = svc
       \/ \E q \in spawns : q.by = Reconciler /\ q.svc = svc
  /\ \A svc \in Services : Managed(svc)' \subseteq Managed(svc)
  /\ \A x \in Bearers' :
       \/ Fresh(x.node)
       \/ \E y \in Bearers : y.node = x.node /\ y.svc = x.svc
  /\ \A n \in Nodes : Fresh(n)' => Fresh(n)

\* A step that brings no new bearer and no new label interferes as above.
LEMMA FewerBearers ==
  ASSUME spawns' \subseteq spawns, UNCHANGED slots,
         \A n \in Nodes : labels'[n] \in {labels[n], NoService},
         \A x \in Bearers' :
           \E y \in Bearers : y.node = x.node /\ y.svc = x.svc
  PROVE  Interference
  BY ServicesAssumption DEF Interference, Managed, Fresh

\* An id whose slot changes status stays the slot's owner.
LEMMA StoppedKeepsOwners ==
  ASSUME TypeOK, NEW i \in Slots, slots' = Stopped(i)
  PROVE  \A n \in Nodes : Fresh(n)' => Fresh(n)
  BY DEF TypeOK, Stopped, Fresh

\* A client's spawn, or the portal's, is of a new id and for no service.
LEMMA AllocInterferes ==
  ASSUME IInv, NEW a \in Sessions \cup Portals, NEW n \in Nodes,
         NEW auto \in BOOLEAN, AllocNode(a, n, NoService, auto)
  PROVE  Interference
<1>1. PICK i \in Slots :
        /\ IsFirstEmpty(i)
        /\ slots' = [slots EXCEPT ![i] = [owner |-> n, status |-> "Running"]]
        /\ spawns' = spawns \cup {[node |-> n, slot |-> i, svc |-> NoService,
                                   by |-> a, auto |-> auto,
                                   started |-> FALSE]}
  BY DEF AllocNode
<1>2. \A m \in Nodes : Fresh(m)' => Fresh(m)
  <2>1. slots[i].owner = NoNode
    BY <1>1 DEF IInv, TracesRecorded, IsFirstEmpty
  <2>2. QED
    BY <1>1, <2>1, NodesAssumption DEF Fresh, IInv, TypeOK
<1>3. a # Reconciler
  BY ActorsAssumption
<1>4. QED
  BY <1>1, <1>2, <1>3, ServicesAssumption
  DEF AllocNode, Interference, Managed, Bearers

\* Every step of the other tasks, and every kill of the reconciler's,
\* interferes with a pass only as Interference says.
LEMMA OthersInterfere ==
  ASSUME IInv, LabelsTrue,
         SupervisionStep \/ \E h \in nodes : ReconcilerKill(h)
  PROVE  Interference
<1> USE DEF IInv
<1>0. /\ \A h \in nodes : h.node \in Nodes
      /\ \A o \in spawns : o.node \in Nodes
      /\ \A r \in restarts : r.node \in Nodes
  BY DEF TypeOK, Handle, Spawn, Restart
<1>1. CASE UNCHANGED <<slots, nodes, labels, spawns, restarts>>
  BY <1>1, FewerBearers DEF Bearers
<1>2. ASSUME NEW h \in nodes, RemoveNode(h),
             UNCHANGED <<slots, spawns, restarts>>
      PROVE  Interference
  BY <1>2, <1>0, FewerBearers DEF RemoveNode, Bearers, TypeOK
<1>3. ASSUME NEW o \in spawns, SpawnProcess(o)
      PROVE  Interference
  <2> DEFINE q == [o EXCEPT !.started = TRUE]
  <2>1. /\ q.node = o.node /\ q.svc = o.svc /\ q.by = o.by
        /\ spawns' = (spawns \ {o}) \cup {q}
    BY <1>3 DEF TypeOK, Spawn, SpawnProcess
  <2>2. \A n \in Nodes : \/ labels'[n] = labels[n]
                         \/ n = o.node /\ labels'[n] = o.svc /\ o.by = Reconciler
    BY <1>3, <1>0 DEF SpawnProcess, TypeOK
  <2>3. \A svc \in Services : Managed(svc)' \subseteq Managed(svc)
    BY <2>1, <2>2 DEF Managed
  <2>4. \A x \in Bearers' : \E y \in Bearers : y.node = x.node /\ y.svc = x.svc
    BY <1>3, <2>1 DEF SpawnProcess, Bearers
  <2>5. QED
    BY <1>3, <2>1, <2>2, <2>3, <2>4 DEF SpawnProcess, Interference, Fresh
<1>4. ASSUME NEW o \in spawns, SpawnFails(o)
      PROVE  Interference
  BY <1>4, FewerBearers DEF SpawnFails, Bearers
<1>5. ASSUME NEW o \in spawns, InsertSpawned(o)
      PROVE  Interference
  BY <1>5, FewerBearers DEF InsertSpawned, Inserted, Bearers
<1>6. ASSUME NEW k \in kills, KillStep(k)
      PROVE  Interference
  <2>1. k.slot \in Slots
    BY DEF TypeOK, Kill
  <2>2. \A n \in Nodes : Fresh(n)' => Fresh(n)
    BY <1>6, <2>1, StoppedKeepsOwners
    DEF KillStep, FinishKill, FinishKillFails, Fresh
  <2>3. UNCHANGED <<nodes, labels, spawns, restarts>>
    BY <1>6 DEF KillStep, FinishKill, FinishKillFails
  <2>4. QED
    BY <2>2, <2>3 DEF Interference, Managed, Bearers
<1>7. ASSUME NEW e \in scan, ScanExited(e)
      PROVE  Interference
  <2>1. \A n \in Nodes : Fresh(n)' => Fresh(n)
    BY <1>7, StoppedKeepsOwners DEF ScanExited, TypeOK, Handle
  <2>2. \A n \in Nodes : labels'[n] \in {labels[n], NoService}
    BY <1>7, <1>0 DEF ScanExited, RemoveNode, TypeOK
  <2>3. \A x \in Bearers' : \E y \in Bearers : y.node = x.node /\ y.svc = x.svc
    BY <1>7 DEF ScanExited, RemoveNode, Bearers
  <2>4. spawns' = spawns
    BY <1>7 DEF ScanExited
  <2>5. QED
    BY <2>1, <2>2, <2>3, <2>4, ServicesAssumption DEF Interference, Managed
<1>8. ASSUME NEW r \in restarts, RestartStep(r)
      PROVE  Interference
  <2>1. /\ [r EXCEPT !.started = TRUE].node = r.node
        /\ [r EXCEPT !.started = TRUE].svc = r.svc
    BY DEF TypeOK, Restart
  <2>2. CASE RestartSpawn(r)
    BY <2>1, <2>2, FewerBearers DEF RestartSpawn, Bearers
  <2>3. CASE RestartFails(r)
    BY <2>3, FewerBearers DEF RestartFails, Bearers
  <2>4. CASE RestartInsert(r)
    BY <2>4, FewerBearers DEF RestartInsert, Inserted, Bearers
  <2>5. QED
    BY <1>8, <2>2, <2>3, <2>4 DEF RestartStep
<1>9. ASSUME NEW s \in Sessions, SessionStep(s)
      PROVE  Interference
  BY <1>1, <1>2, <1>9, AllocInterferes
  DEF SessionStep, Connect, Disconnect, CleanupDone, SessionSpawn,
      SessionKillNotFound, CleanupNode, SessionKill, StartKill
<1>10. ASSUME NEW w \in Portals, NEW n \in Nodes, PortalDeploy(w, n)
       PROVE  Interference
  BY <1>10, AllocInterferes DEF PortalDeploy
<1>11. CASE HealthStep
  BY <1>1, <1>7, <1>11 DEF HealthStep, ScanBegin, ScanSkip
<1>12. ASSUME NEW p \in procs, ProcessExits(p)
       PROVE  Interference
  BY <1>1, <1>12 DEF ProcessExits
<1>13. ASSUME NEW h \in nodes, ReconcilerKill(h)
       PROVE  Interference
  BY <1>2, <1>13 DEF ReconcilerKill, StartKill
<1>14. QED
  BY <1>3, <1>4, <1>5, <1>6, <1>8, <1>9, <1>10, <1>11, <1>12, <1>13
  DEF SupervisionStep, SpawnStep

---------------------------------------------------------------------------
(* The steps of the pass.                                                  *)

\* What a pass relies on, besides the types.
PassInv == SpawnsForPass /\ CountsBound /\ CopyTrue /\ NeverTooMany

\* The nodes of a service are finitely many.
LEMMA FewNodes ==
  ASSUME NEW S \in SUBSET Nodes
  PROVE  IsFiniteSet(S) /\ Cardinality(S) \in Nat
  BY FiniteAssumption, FS_Subset, FS_CardinalityType

\* While the reconciler spawns, the pass has a service at hand.
LEMMA SpawningForService ==
  ASSUME IInv, LabelsTrue, RecTypeOK, PassInv, pass # NoPass, Spawning
  PROVE  /\ pass.svc \in Services
         /\ pass.spawn \in Int
         /\ pass.spec[pass.svc] \in Int
<1>1. pass.svc \in Services
  <2>1. CASE pass.spawn > 0
    BY <2>1, PassFields DEF PassInv, CountsBound
  <2>2. CASE \E o \in spawns : o.by = Reconciler
    BY <2>2 DEF PassInv, SpawnsForPass, LabelsTrue, IInv, TypeOK, Spawn
  <2>3. QED
    BY <2>1, <2>2 DEF Spawning
<1>2. pass.svc \in DOMAIN pass.spec
  BY <1>1, ServicesAssumption DEF PassInv, CountsBound
<1>3. QED
  BY <1>1, <1>2, PassFields, ReplicasAreCounts, ReplicasAssumption DEF Counts

\* The pass stays where it is, but may have taken a kill off its list.
SamePass ==
  \/ UNCHANGED pass
  \/ /\ pass # NoPass /\ pass' # NoPass
     /\ pass'.spec = pass.spec /\ pass'.live = pass.live
     /\ pass'.todo = pass.todo /\ pass'.svc = pass.svc
     /\ pass'.spawn = pass.spawn
     /\ pass'.kill \subseteq pass.kill

\* A step of another task keeps what a pass relies on, and so does a kill of
\* the reconciler's: they can only take nodes from a service.
LEMMA InterferenceKeepsPass ==
  ASSUME IInv, LabelsTrue, RecTypeOK, PassInv, Interference, SamePass,
         \A x \in Bearers' : x.node \in Nodes
  PROVE  PassInv'
<1> USE DEF PassInv, SamePass
<1>1. SpawnsForPass'
  BY DEF SpawnsForPass, Interference
<1>2. CountsBound'
  BY PassFields DEF CountsBound, Interference, SpawnsForPass
<1>3. CopyTrue'
  <2> SUFFICES ASSUME pass # NoPass, NEW svc \in Services,
                      NEW n \in pass.live[svc]
               PROVE  /\ ~Fresh(n)'
                      /\ \A x \in Bearers' : x.node = n => x.svc = svc
    BY DEF CopyTrue
  <2>1. n \in Nodes /\ ~Fresh(n)
    BY PassFields DEF CopyTrue
  <2>2. QED
    BY <2>1 DEF CopyTrue, Interference
<1>4. NeverTooMany'
  <2> SUFFICES ASSUME pass # NoPass, Spawning'
               PROVE  (Cardinality(Managed(pass.svc)) + pass.spawn
                         <= pass.spec[pass.svc])'
    BY DEF NeverTooMany
  <2>1. Spawning
    BY DEF Spawning, Interference
  <2>2. /\ pass.svc \in Services
        /\ pass.spawn \in Int
        /\ pass.spec[pass.svc] \in Int
    BY <2>1, SpawningForService
  <2>3. Managed(pass.svc)' \subseteq Managed(pass.svc)
    BY <2>2 DEF Interference
  <2>4. Managed(pass.svc) \subseteq Nodes
    BY DEF Managed, IInv, TypeOK, Spawn
  <2>5. Cardinality(Managed(pass.svc)') <= Cardinality(Managed(pass.svc))
    BY <2>3, <2>4, FewNodes, FS_Subset
  <2>6. /\ Cardinality(Managed(pass.svc)) \in Nat
        /\ Cardinality(Managed(pass.svc)') \in Nat
    BY <2>3, <2>4, FewNodes
  <2>7. Cardinality(Managed(pass.svc)) + pass.spawn <= pass.spec[pass.svc]
    BY <2>1 DEF NeverTooMany
  <2>8. QED
    BY <2>2, <2>5, <2>6, <2>7
<1>5. QED
  BY <1>1, <1>2, <1>3, <1>4

\* While the reconciler is not busy, and while it sleeps, no spawn is for a
\* service.
LEMMA NoServiceSpawns ==
  ASSUME IInv, LabelsTrue, PassInv, ~Busy(Reconciler) \/ pass = NoPass
  PROVE  /\ \A o \in spawns : o.by # Reconciler /\ o.svc = NoService
         /\ \A svc \in Services, n \in Nodes :
              labels[n] = svc => \E h \in nodes : h.node = n
<1>1. \A o \in spawns : o.by # Reconciler
  BY DEF PassInv, SpawnsForPass, Busy
<1>2. \A o \in spawns : o.svc = NoService
  BY <1>1 DEF LabelsTrue
<1>3. ASSUME NEW svc \in Services, NEW n \in Nodes, labels[n] = svc
      PROVE  \E h \in nodes : h.node = n
  <2>1. \A o \in spawns : o.node # n
    BY <1>2, <1>3, ServicesAssumption DEF LabelsTrue, Bearers
  <2>2. QED
    BY <1>3, <2>1, ServicesAssumption DEF IInv, LabelsInTable, InTable
<1>4. QED
  BY <1>1, <1>2, <1>3

\* A pass that begins has counted every labelled node, and every node it has
\* counted bears the service.
LEMMA PassBeginsKeeps ==
  ASSUME IInv, LabelsTrue, RecTypeOK, PassInv, PassBegins
  PROVE  PassInv'
<1> USE DEF PassInv
<1>1. /\ pass'.spec = desired /\ pass'.todo = DOMAIN desired
      /\ pass'.live = [svc \in Services |-> LiveNodes(svc)]
      /\ pass'.svc = NoService /\ pass'.spawn = 0 /\ pass'.kill = {}
  BY DEF PassBegins
<1>2. desired \in DesiredState
  BY DEF PassBegins, RecTypeOK
<1>3. UNCHANGED <<slots, nodes, labels, spawns, restarts>>
  BY DEF PassBegins, vars
<1>4. \A o \in spawns : o.by # Reconciler
  BY NoServiceSpawns DEF PassBegins
<1>5. SpawnsForPass'
  BY <1>3, <1>4 DEF SpawnsForPass
<1>6. CountsBound'
  <2>1. \A svc \in Services, n \in Nodes : labels[n] = svc => n \in LiveNodes(svc)
    BY NoServiceSpawns DEF PassBegins, LiveNodes
  <2>2. NoService \notin DOMAIN desired
    BY <1>2, ReplicasAreCounts, ServicesAssumption
  <2>3. QED
    BY <1>1, <1>2, <1>3, <2>1, <2>2, ReplicasAreCounts DEF CountsBound
<1>7. CopyTrue'
  <2>1. ASSUME NEW svc \in Services, NEW n \in LiveNodes(svc)
        PROVE  ~Fresh(n) /\ \A x \in Bearers : x.node = n => x.svc = svc
    <3>1. n \in Nodes /\ labels[n] = svc
      BY DEF LiveNodes, IInv, TypeOK, Handle
    <3>2. QED
      BY <3>1, FreshUnlabelled, ServicesAssumption DEF LabelsTrue
  <2>2. QED
    BY <1>1, <1>3, <2>1, ServicesAssumption DEF CopyTrue, Fresh, Bearers
<1>8. NeverTooMany'
  BY <1>1, <1>3, <1>4 DEF NeverTooMany, Spawning
<1>9. QED
  BY <1>5, <1>6, <1>7, <1>8

\* A pass that ends has no spawn under way.
LEMMA PassEndsKeeps ==
  ASSUME IInv, LabelsTrue, PassInv, PassEnds
  PROVE  PassInv'
<1>1. \A o \in spawns : o.by # Reconciler
  BY NoServiceSpawns DEF PassEnds, Settled
<1>2. QED
  BY <1>1 DEF PassEnds, vars, PassInv, SpawnsForPass, CountsBound, CopyTrue,
              NeverTooMany

\* What holds of the service whose turn has come: all that bears it has been
\* counted, and the pass may spawn what is missing or kill what it counted.
LEMMA TurnKeeps ==
  ASSUME IInv, LabelsTrue, RecTypeOK, PassInv, NEW svc \in Services, Turn(svc),
         UNCHANGED <<slots, nodes, labels, spawns, restarts>>,
         pass' # NoPass,
         pass'.spec = pass.spec, pass'.live = pass.live,
         pass'.todo = pass.todo \ {svc}, pass'.svc = svc,
         pass'.spawn \in Counts, pass'.kill \subseteq pass.live[svc],
         pass'.spawn > 0 =>
           Cardinality(pass.live[svc]) + pass'.spawn <= pass.spec[svc]
  PROVE  PassInv'
<1> USE DEF PassInv, Turn
<1>1. /\ \A o \in spawns : o.by # Reconciler /\ o.svc = NoService
      /\ svc \in DOMAIN pass.spec
  BY NoServiceSpawns DEF Settled, CountsBound
<1>2. SpawnsForPass'
  BY <1>1 DEF SpawnsForPass
<1>3. CountsBound'
  BY <1>1, ServicesAssumption DEF CountsBound
<1>4. CopyTrue'
  BY DEF CopyTrue, Fresh, Bearers
<1>5. NeverTooMany'
  <2> SUFFICES ASSUME Spawning'
               PROVE  Cardinality(Managed(svc)') + pass'.spawn <= pass.spec[svc]
    BY DEF NeverTooMany, Managed
  <2>1. pass'.spawn > 0
    BY <1>1 DEF Spawning
  <2>2. Managed(svc)' \subseteq pass.live[svc]
    BY <1>1, ServicesAssumption DEF Managed, CountsBound
  <2>3. pass.live[svc] \in SUBSET Nodes
    BY PassFields
  <2>4. /\ Cardinality(Managed(svc)') <= Cardinality(pass.live[svc])
        /\ Cardinality(Managed(svc)') \in Nat
        /\ Cardinality(pass.live[svc]) \in Nat
    BY <2>2, <2>3, FewNodes, FS_Subset
  <2>5. pass'.spawn \in Int /\ pass.spec[svc] \in Int
    BY <1>1, PassFields, ReplicasAreCounts, ReplicasAssumption DEF Counts
  <2>6. QED
    BY <2>1, <2>4, <2>5
<1>6. QED
  BY <1>2, <1>3, <1>4, <1>5

\* What a service lacks is a count, and with what it has makes what is asked.
LEMMA MissingCounts ==
  ASSUME RecTypeOK, CountsBound, NEW svc \in Services, ScaleUp(svc)
  PROVE  /\ Missing(svc) \in Counts
         /\ Cardinality(pass.live[svc]) + Missing(svc) = pass.spec[svc]
<1>1. pass.spec[svc] \in Counts
  BY PassFields, ReplicasAreCounts DEF ScaleUp, Turn, CountsBound
<1>2. Cardinality(pass.live[svc]) \in Nat
  BY PassFields, FewNodes DEF ScaleUp, Turn
<1>3. QED
  BY <1>1, <1>2, ReplicasAssumption DEF ScaleUp, Missing, Counts

\* Each outcome of a service's turn keeps what the pass relies on.
LEMMA TurnStepKeeps ==
  ASSUME IInv, LabelsTrue, RecTypeOK, PassInv, NEW svc \in Services,
         SkipService(svc) \/ AtCount(svc) \/ ScaleUp(svc) \/ ScaleDown(svc)
  PROVE  PassInv' /\ pass' \in Pass
<1>1. Turn(svc) /\ UNCHANGED <<slots, nodes, labels, spawns, restarts>>
  BY DEF SkipService, AtCount, ScaleUp, ScaleDown, vars
<1>2. /\ pass # NoPass /\ pass \in Pass
      /\ pass.spawn = 0 /\ pass.kill = {}
  BY <1>1, PassFields DEF Turn, Settled
<1>3. /\ Turned(svc).spec = pass.spec /\ Turned(svc).live = pass.live
      /\ Turned(svc).todo = pass.todo \ {svc} /\ Turned(svc).svc = svc
      /\ Turned(svc).spawn = 0 /\ Turned(svc).kill = {}
      /\ Turned(svc) \in Pass
  BY <1>2 DEF Turned, Pass
<1>4. CASE pass' = Turned(svc)
  BY <1>1, <1>3, <1>4, TurnKeeps, NoneAssumption, ReplicasAssumption DEF Counts
<1>5. CASE ScaleUp(svc)
  <2>1. pass' = [Turned(svc) EXCEPT !.spawn = Missing(svc)]
    BY <1>5 DEF ScaleUp
  <2>2. /\ pass'.spec = pass.spec /\ pass'.live = pass.live
        /\ pass'.todo = pass.todo \ {svc} /\ pass'.svc = svc
        /\ pass'.spawn = Missing(svc) /\ pass'.kill = {}
    BY <1>3, <2>1 DEF Pass
  <2>3. /\ Missing(svc) \in Counts
        /\ Cardinality(pass.live[svc]) + Missing(svc) <= pass.spec[svc]
    <3>1. pass.spec[svc] \in Int
      BY <1>5, PassFields, ReplicasAreCounts, ReplicasAssumption
      DEF ScaleUp, Turn, PassInv, CountsBound, Counts
    <3>2. QED
      BY <1>5, <3>1, MissingCounts DEF PassInv
  <2>4. pass' \in Pass
    BY <1>3, <2>1, <2>3 DEF Pass
  <2>5. PassInv'
    BY <1>1, <2>2, <2>3, <2>4, TurnKeeps, NoneAssumption
  <2>6. QED
    BY <2>4, <2>5
<1>6. CASE ScaleDown(svc)
  <2>1. PICK K \in SUBSET pass.live[svc] :
          pass' = [Turned(svc) EXCEPT !.kill = K]
    BY <1>6 DEF ScaleDown
  <2>2. K \in SUBSET Nodes
    BY PassFields, <1>2
  <2>3. pass' \in Pass
    BY <1>3, <2>1, <2>2 DEF Pass
  <2>4. /\ pass'.spec = pass.spec /\ pass'.live = pass.live
        /\ pass'.todo = pass.todo \ {svc} /\ pass'.svc = svc
        /\ pass'.spawn = 0 /\ pass'.kill = K
    BY <1>3, <2>1 DEF Pass
  <2>5. PassInv'
    BY <1>1, <2>3, <2>4, TurnKeeps, NoneAssumption, ReplicasAssumption
    DEF Counts
  <2>6. QED
    BY <2>3, <2>5
<1>7. QED
  BY <1>4, <1>5, <1>6 DEF SkipService, AtCount

\* One spawn fewer to make is still a pass.
LEMMA OneSpawnFewer ==
  ASSUME RecTypeOK, pass # NoPass, pass.spawn > 0,
         pass' = [pass EXCEPT !.spawn = @ - 1]
  PROVE  /\ pass' \in Pass
         /\ pass'.spec = pass.spec /\ pass'.live = pass.live
         /\ pass'.todo = pass.todo /\ pass'.svc = pass.svc
         /\ pass'.spawn = pass.spawn - 1 /\ pass'.kill = pass.kill
         /\ pass.spawn \in Int
<1>1. pass \in Pass /\ pass.spawn \in Counts
  BY PassFields
<1>2. pass.spawn - 1 \in Counts /\ pass.spawn \in Int
  BY <1>1, ReplicasAssumption DEF Counts
<1>3. QED
  BY <1>1, <1>2 DEF Pass

\* A spawn of the pass adds one node to its service and takes one off what is
\* left to spawn.
LEMMA SpawnReplicaKeeps ==
  ASSUME IInv, LabelsTrue, RecTypeOK, PassInv, NEW n \in Nodes, SpawnReplica(n)
  PROVE  PassInv' /\ pass' \in Pass
<1> USE DEF PassInv
<1>1. /\ pass # NoPass /\ pass.spawn > 0 /\ ~Busy(Reconciler) /\ Fresh(n)
      /\ pass' = [pass EXCEPT !.spawn = @ - 1]
  BY DEF SpawnReplica, ReconcilerSpawn, AllocNode
<1>2. PICK i \in Slots :
        /\ IsFirstEmpty(i)
        /\ slots' = [slots EXCEPT ![i] = [owner |-> n, status |-> "Running"]]
        /\ spawns' = spawns \cup {[node |-> n, slot |-> i, svc |-> pass.svc,
                                   by |-> Reconciler, auto |-> FALSE,
                                   started |-> FALSE]}
  BY DEF SpawnReplica, ReconcilerSpawn, AllocNode
<1>3. UNCHANGED <<nodes, labels, restarts>>
  BY DEF SpawnReplica, ReconcilerSpawn, AllocNode
<1>4. /\ pass' \in Pass
      /\ pass'.spec = pass.spec /\ pass'.live = pass.live
      /\ pass'.todo = pass.todo /\ pass'.svc = pass.svc
      /\ pass'.spawn = pass.spawn - 1 /\ pass'.kill = pass.kill
      /\ pass.spawn \in Int
  BY <1>1, OneSpawnFewer
<1>5. pass' # NoPass
  BY <1>4, NoneAssumption
<1>6. \A o \in spawns : o.by # Reconciler
  BY <1>1, NoServiceSpawns
<1>7. SpawnsForPass'
  BY <1>2, <1>4, <1>5, <1>6 DEF SpawnsForPass
<1>8. CountsBound'
  BY <1>1, <1>3, <1>4, <1>5 DEF CountsBound
<1>9. \A m \in Nodes : Fresh(m)' => Fresh(m)
  <2>1. slots[i].owner = NoNode
    BY <1>2 DEF IInv, TracesRecorded, IsFirstEmpty
  <2>2. QED
    BY <1>2, <2>1, NodesAssumption DEF Fresh, IInv, TypeOK
<1>10. CopyTrue'
  <2>1. \A x \in Bearers' : x \in Bearers \/ x.node = n
    BY <1>2, <1>3 DEF Bearers
  <2>2. ASSUME NEW svc \in Services, NEW m \in pass.live[svc]
        PROVE  /\ ~Fresh(m)'
               /\ \A x \in Bearers' : x.node = m => x.svc = svc
    <3>1. m \in Nodes
      BY <1>1, PassFields
    <3>2. ~Fresh(m) /\ \A x \in Bearers : x.node = m => x.svc = svc
      BY <1>1 DEF CopyTrue
    <3>3. m # n
      BY <1>1, <3>2
    <3>4. QED
      BY <1>9, <2>1, <3>1, <3>2, <3>3
  <2>3. QED
    BY <1>1, <1>4, <2>2 DEF CopyTrue
<1>11. NeverTooMany'
  <2> DEFINE M == Managed(pass.svc)
  <2>1. M' = M \cup {n}
    <3> DEFINE q == [node |-> n, slot |-> i, svc |-> pass.svc,
                     by |-> Reconciler, auto |-> FALSE, started |-> FALSE]
    <3>1. q.node = n /\ q.svc = pass.svc
      OBVIOUS
    <3>2. spawns' = spawns \cup {q}
      BY <1>2
    <3> HIDE DEF q
    <3>3. {o.node : o \in {x \in spawns' : x.svc = pass.svc}}
             = {o.node : o \in {x \in spawns : x.svc = pass.svc}} \cup {n}
      BY <3>1, <3>2
    <3>4. QED
      BY <1>3, <1>4, <3>3 DEF Managed
  <2>2. M \in SUBSET Nodes
    BY DEF Managed, IInv, TypeOK, Spawn
  <2>3. IsFiniteSet(M) /\ Cardinality(M) \in Nat /\ Cardinality(M') \in Nat
    BY <2>1, <2>2, FewNodes
  <2>4. Cardinality(M') <= Cardinality(M) + 1
    BY <2>1, <2>3, FS_AddElement
  <2>5. Cardinality(M) + pass.spawn <= pass.spec[pass.svc]
    BY <1>1 DEF NeverTooMany, Spawning
  <2>6. pass.spec[pass.svc] \in Int
    BY <1>1, SpawningForService DEF Spawning
  <2>7. Cardinality(M') + pass'.spawn <= pass.spec[pass.svc]
    BY <1>4, <2>3, <2>4, <2>5, <2>6
  <2>8. QED
    BY <1>4, <2>7 DEF NeverTooMany
<1>12. QED
  BY <1>4, <1>7, <1>8, <1>10, <1>11

\* A spawn the registry refuses takes one off what is left to spawn.
LEMMA SpawnRefusedKeeps ==
  ASSUME IInv, LabelsTrue, RecTypeOK, PassInv, SpawnRefused
  PROVE  PassInv' /\ pass' \in Pass
<1> USE DEF PassInv
<1>1. /\ pass # NoPass /\ pass.spawn > 0
      /\ pass' = [pass EXCEPT !.spawn = @ - 1]
      /\ UNCHANGED <<slots, nodes, labels, spawns, restarts>>
  BY DEF SpawnRefused, vars
<1>2. /\ pass' \in Pass
      /\ pass'.spec = pass.spec /\ pass'.live = pass.live
      /\ pass'.todo = pass.todo /\ pass'.svc = pass.svc
      /\ pass'.spawn = pass.spawn - 1 /\ pass'.kill = pass.kill
      /\ pass.spawn \in Int
  BY <1>1, OneSpawnFewer
<1>3. SpawnsForPass' /\ CountsBound' /\ CopyTrue'
  BY <1>1, <1>2, NoneAssumption
  DEF SpawnsForPass, CountsBound, CopyTrue, Fresh, Bearers
<1>4. NeverTooMany'
  <2>1. Cardinality(Managed(pass.svc)) + pass.spawn <= pass.spec[pass.svc]
    BY <1>1 DEF NeverTooMany, Spawning
  <2>2. Managed(pass.svc) \in SUBSET Nodes
    BY DEF Managed, IInv, TypeOK, Spawn
  <2>3. Cardinality(Managed(pass.svc)) \in Nat
    BY <2>2, FewNodes
  <2>4. pass.spec[pass.svc] \in Int
    BY <1>1, SpawningForService DEF Spawning
  <2>5. Cardinality(Managed(pass.svc)) + pass'.spawn <= pass.spec[pass.svc]
    BY <1>2, <2>1, <2>3, <2>4
  <2>6. QED
    BY <1>1, <1>2, <2>5 DEF NeverTooMany, Managed
<1>5. QED
  BY <1>2, <1>3, <1>4

\* A kill of the pass, or of a node that has gone, only takes nodes away.
LEMMA KillReplicaKeeps ==
  ASSUME IInv, LabelsTrue, RecTypeOK, PassInv, NEW n \in Nodes, KillReplica(n),
         TypeOK'
  PROVE  PassInv' /\ pass' \in Pass
<1>1. pass # NoPass /\ pass \in Pass
  BY PassFields DEF KillReplica
<1>2. pass' = [pass EXCEPT !.kill = @ \ {n}]
  BY DEF KillReplica
<1>3. pass' \in Pass /\ SamePass
  BY <1>1, <1>2, NoneAssumption DEF SamePass, Pass
<1>4. \A x \in Bearers' : x.node \in Nodes
  BY DEF Bearers, TypeOK, Handle, Spawn, Restart
<1>5. Interference
  <2>1. CASE \E h \in nodes : ReconcilerKill(h)
    BY <2>1, OthersInterfere
  <2>2. CASE UNCHANGED vars
    BY <2>2, FewerBearers DEF vars, Bearers
  <2>3. QED
    BY <2>1, <2>2 DEF KillReplica
<1>6. QED
  BY <1>3, <1>4, <1>5, InterferenceKeepsPass

---------------------------------------------------------------------------
(* The invariant.                                                          *)

\* A daemon that starts has no pass and no desired state.
LEMMA RecIInvInit == RecInit => RecIInv
<1> SUFFICES ASSUME RecInit PROVE RecIInv
  OBVIOUS
<1>1. IInv
  BY IInvInit DEF RecInit
<1>2. RecTypeOK
  BY <1>1 DEF RecInit, RecTypeOK, IInv
<1>3. LabelsTrue /\ SpawnsForPass /\ CountsBound /\ CopyTrue /\ NeverTooMany
  BY DEF RecInit, Init, LabelsTrue, Bearers, SpawnsForPass, CountsBound,
         CopyTrue, NeverTooMany
<1>4. QED
  BY <1>1, <1>2, <1>3 DEF RecIInv

\* A pass that begins copies a desired state and nodes of the table.
LEMMA PassBeginsType ==
  ASSUME RecTypeOK, PassBegins
  PROVE  pass' \in Pass
<1>1. desired \in DesiredState
  BY DEF PassBegins, RecTypeOK
<1>2. [svc \in Services |-> LiveNodes(svc)] \in [Services -> SUBSET Nodes]
  BY DEF LiveNodes, RecTypeOK, TypeOK, Handle
<1>3. DOMAIN desired \in SUBSET Services
  BY <1>1, ReplicasAreCounts
<1>4. 0 \in Counts
  BY ReplicasAssumption DEF Counts
<1>5. QED
  BY <1>1, <1>2, <1>3, <1>4 DEF PassBegins, Pass

\* Every step of the reconciler, and of every task around it, keeps what the
\* passes rely on.
LEMMA RecIInvStep == RecIInv /\ [RecNext]_recVars => RecIInv'
<1> SUFFICES ASSUME RecIInv, [RecNext]_recVars PROVE RecIInv'
  OBVIOUS
<1> USE DEF RecIInv
<1>1. [Next]_vars
  BY StepImplements
<1>2. IInv' /\ TypeOK'
  BY <1>1, IInvStep DEF IInv
<1>3. LabelsTrue'
  BY <1>1, LabelsStep
<1>4. PassInv
  BY DEF PassInv
<1>5. SUFFICES /\ PassInv'
               /\ desired' \in DesiredState \cup {NoSpec}
               /\ pass' \in Pass \cup {NoPass}
               /\ replica' \in [Nodes -> Nat]
  BY <1>2, <1>3 DEF PassInv, RecTypeOK
<1> USE DEF RecTypeOK
<1>6. CASE SupervisionStep /\ UNCHANGED <<desired, pass, replica>>
  <2>1. Interference
    BY <1>6, OthersInterfere
  <2>2. \A x \in Bearers' : x.node \in Nodes
    BY <1>2 DEF Bearers, TypeOK, Handle, Spawn, Restart
  <2>3. PassInv'
    BY <1>4, <1>6, <2>1, <2>2, InterferenceKeepsPass DEF SamePass
  <2>4. QED
    BY <1>6, <2>3
<1>7. CASE /\ UNCHANGED <<vars, pass, replica>>
           /\ desired' \in DesiredState \cup {NoSpec}
  BY <1>4, <1>7 DEF vars, PassInv, SpawnsForPass, CountsBound, CopyTrue, Fresh,
     Bearers, NeverTooMany, Spawning, Managed
<1>8. CASE PassBegins
  <2>1. PassInv' /\ pass' \in Pass
    BY <1>4, <1>8, PassBeginsKeeps, PassBeginsType
  <2>2. QED
    BY <1>8, <2>1 DEF PassBegins
<1>9. CASE PassEnds
  BY <1>4, <1>9, PassEndsKeeps DEF PassEnds
<1>10. CASE SpawnRefused
  BY <1>4, <1>10, SpawnRefusedKeeps DEF SpawnRefused
<1>11. ASSUME NEW svc \in Services,
              SkipService(svc) \/ AtCount(svc) \/ ScaleUp(svc) \/ ScaleDown(svc)
       PROVE  /\ PassInv'
              /\ desired' \in DesiredState \cup {NoSpec}
              /\ pass' \in Pass \cup {NoPass}
              /\ replica' \in [Nodes -> Nat]
  <2>1. UNCHANGED <<desired, replica>>
    BY <1>11 DEF SkipService, AtCount, ScaleUp, ScaleDown
  <2>2. QED
    BY <1>4, <1>11, <2>1, TurnStepKeeps
<1>12. ASSUME NEW n \in Nodes, SpawnReplica(n)
       PROVE  /\ PassInv'
              /\ desired' \in DesiredState \cup {NoSpec}
              /\ pass' \in Pass \cup {NoPass}
              /\ replica' \in [Nodes -> Nat]
  <2>1. LiveNodes(pass.svc) \in SUBSET Nodes
    BY DEF LiveNodes, TypeOK, Handle
  <2>2. Cardinality(LiveNodes(pass.svc)) \in Nat
    BY <2>1, FewNodes
  <2>3. desired' = desired /\ replica' \in [Nodes -> Nat]
    BY <1>12, <2>2 DEF SpawnReplica
  <2>4. QED
    BY <1>4, <1>12, <2>3, SpawnReplicaKeeps
<1>13. ASSUME NEW n \in Nodes, KillReplica(n)
       PROVE  /\ PassInv'
              /\ desired' \in DesiredState \cup {NoSpec}
              /\ pass' \in Pass \cup {NoPass}
              /\ replica' \in [Nodes -> Nat]
  <2>1. UNCHANGED <<desired, replica>>
    BY <1>13 DEF KillReplica
  <2>2. QED
    BY <1>2, <1>4, <1>13, <2>1, KillReplicaKeeps
<1>14. CASE CoreLosesDesired
  BY <1>14 DEF CoreLosesDesired, CoreRestarts, PassInv, SpawnsForPass,
     CountsBound, CopyTrue, NeverTooMany
<1>15. ASSUME NEW s \in Sessions, NEW spec \in DesiredState,
              ApplyDesiredState(s, spec)
       PROVE  UNCHANGED <<vars, pass, replica>> /\ desired' \in DesiredState
  BY <1>15 DEF ApplyDesiredState
<1>16. CASE UNCHANGED recVars
  BY <1>7, <1>16 DEF recVars
<1>17. QED
  BY <1>6, <1>7, <1>8, <1>9, <1>10, <1>11, <1>12, <1>13, <1>14, <1>15, <1>16
  DEF RecNext, PassStep

\* In every state the reconciler and the other tasks can reach, what its
\* passes rely on holds (reconciler.rs, reconcile_once).
THEOREM ReconciliationInvariant == RecSpec => []RecIInv
<1>1. RecInit => RecIInv
  BY RecIInvInit
<1>2. RecIInv /\ [RecNext]_recVars => RecIInv'
  BY RecIInvStep
<1>3. QED
  BY <1>1, <1>2, PTL DEF RecSpec

\* Every variable keeps its type, however passes, sessions, restarts and
\* crashes interleave.
THEOREM RecTypeCorrect == RecSpec => []RecTypeOK
<1>1. RecIInv => RecTypeOK
  BY DEF RecIInv
<1>2. QED
  BY <1>1, ReconciliationInvariant, PTL

\* A daemon whose reconciler runs is a NodeSupervision daemon: every step of a
\* pass is one its reconciler may take there, or none, so whatever is proved
\* of NodeSupervision holds of it.
THEOREM ReconcilerImplements == RecSpec => Spec
<1>1. RecInit => Init
  BY DEF RecInit
<1>2. RecIInv /\ [RecNext]_recVars => [Next]_vars
  BY StepImplements DEF RecIInv
<1>3. QED
  BY <1>1, <1>2, ReconciliationInvariant, PTL DEF RecSpec, Spec

\* A pass never takes a service above the replicas it was asked for, although
\* it counts the live nodes once and awaits every spawn.
THEOREM ScaleUpIsBounded == RecSpec => []NeverTooMany
<1>1. RecIInv => NeverTooMany
  BY DEF RecIInv
<1>2. QED
  BY <1>1, ReconciliationInvariant, PTL

\* What a pass is about to kill was spawned for the service at hand.
THEOREM ScaleDownKillsItsOwn == RecSpec => []KillsItsOwn
<1>1. RecIInv => KillsItsOwn
  BY DEF RecIInv, CopyTrue, CountsBound, KillsItsOwn, Bearers
<1>2. QED
  BY <1>1, ReconciliationInvariant, PTL
=============================================================================
