------------------------ MODULE ServiceReconciliation ------------------------
(***************************************************************************)
(* The reconciler (veloce-core, reconciler.rs) over NodeSupervision: every *)
(* few seconds reconcile_once compares the live nodes that bear a service's *)
(* label with the replicas asked for, and spawns or kills the difference.  *)
(*                                                                         *)
(* A pass works from two copies taken at its start, the desired state and  *)
(* the live nodes by service, and awaits every spawn; sessions, the health *)
(* loop and the restart tasks go on meanwhile.  The health a condition     *)
(* reads is outside this module: a ServiceHealthy condition may be met or  *)
(* not whenever the dependency has a live node.                            *)
(***************************************************************************)
EXTENDS NodeSupervision

CONSTANTS
  Needs,         \* depends_on of each service: the services it names
  NeedsHealthy,  \* those of them with condition ServiceHealthy
  MaxReplicas,   \* bound on the replicas asked for
  NoSpec,        \* no desired state
  NoPass         \* the reconciler sleeps

ASSUME NeedsAssumption ==
  /\ Needs \in [Services -> SUBSET Services]
  /\ NeedsHealthy \in [Services -> SUBSET Services]
  /\ \A svc \in Services : NeedsHealthy[svc] \subseteq Needs[svc]
ASSUME ReplicasAssumption == MaxReplicas \in Nat
ASSUME FiniteAssumption   == IsFiniteSet(Nodes)

Counts == 0 .. MaxReplicas

\* DesiredStateSpec: the services it lists and the replicas of each.
DesiredState == UNION {[S -> Counts] : S \in SUBSET Services}

Pass == [spec : DesiredState, live : [Services -> SUBSET Nodes],
         todo : SUBSET Services, svc : Services \cup {NoService},
         spawn : Counts, kill : SUBSET Nodes]

ASSUME NoneAssumption == NoSpec \notin DesiredState /\ NoPass \notin Pass

VARIABLES
  desired,   \* Reconciler.desired
  pass,      \* the pass under way: its two copies, the services left to do,
             \* the one at hand and what is left to spawn and kill for it
  replica    \* the replica_index of the labels in NodeTable.service_labels

recVars == <<vars, desired, pass, replica>>

RecTypeOK ==
  /\ TypeOK
  /\ desired \in DesiredState \cup {NoSpec}
  /\ pass \in Pass \cup {NoPass}
  /\ replica \in [Nodes -> Nat]

RecInit ==
  /\ Init
  /\ desired = NoSpec
  /\ pass = NoPass
  /\ replica = [n \in Nodes |-> 0]

---------------------------------------------------------------------------
(* Helpers.                                                                *)

\* Mutant: the label is not looked at.
AllLive(svc) == {h.node : h \in nodes}

\* live_nodes_by_service, for one service.
LiveNodes(svc) == {h.node : h \in {g \in nodes : labels[g.node] = svc}}

\* topo_sort succeeds: every dependency is listed and none is circular.
Orderable(spec) ==
  /\ \A svc \in DOMAIN spec : Needs[svc] \subseteq DOMAIN spec
  /\ \A S \in SUBSET DOMAIN spec \ {{}} : \E svc \in S : Needs[svc] \cap S = {}

\* Nothing is left to spawn or kill for the service at hand.
Settled == pass.spawn = 0 /\ pass.kill = {} /\ ~Busy(Reconciler)

\* svc may come next in a topological order.
Turn(svc) ==
  /\ pass # NoPass
  /\ Settled
  /\ svc \in pass.todo
  /\ Needs[svc] \cap pass.todo = {}

Started(svc) == \A d \in Needs[svc] : pass.live[d] # {}

\* Mutants: what runs already is not counted; one too few.
MissingAll(svc) == pass.spec[svc]
OneShort(svc)   == pass.spec[svc] - Cardinality(pass.live[svc]) - 1

Missing(svc) == pass.spec[svc] - Cardinality(pass.live[svc])

Turned(svc) == [pass EXCEPT !.todo = @ \ {svc}, !.svc = svc]

---------------------------------------------------------------------------
(* The desired state and the pass.                                         *)

ApplyDesiredState(s, spec) ==
  /\ conn[s] = "open"
  /\ ~Busy(s)
  /\ desired' = spec
  /\ UNCHANGED <<vars, pass, replica>>

\* A desired state topo_sort rejects leaves the pass at once.
PassBegins ==
  /\ pass = NoPass
  /\ desired # NoSpec
  /\ Orderable(desired)
  /\ pass' = [spec |-> desired, live |-> [svc \in Services |-> LiveNodes(svc)],
              todo |-> DOMAIN desired, svc |-> NoService, spawn |-> 0,
              kill |-> {}]
  /\ UNCHANGED <<vars, desired, replica>>

\* deps_satisfied is false.
SkipService(svc) ==
  /\ Turn(svc)
  /\ ~Started(svc) \/ NeedsHealthy[svc] # {}
  /\ pass' = Turned(svc)
  /\ UNCHANGED <<vars, desired, replica>>

ScaleUp(svc) ==
  /\ Turn(svc)
  /\ Started(svc)
  /\ Cardinality(pass.live[svc]) < pass.spec[svc]
  /\ pass' = [Turned(svc) EXCEPT !.spawn = Missing(svc)]
  /\ UNCHANGED <<vars, desired, replica>>

\* The table's order decides which replicas go.
ScaleDown(svc) ==
  /\ Turn(svc)
  /\ Started(svc)
  /\ Cardinality(pass.live[svc]) > pass.spec[svc]
  /\ \E K \in SUBSET pass.live[svc] :
       /\ Cardinality(K) = Cardinality(pass.live[svc]) - pass.spec[svc]
       /\ pass' = [Turned(svc) EXCEPT !.kill = K]
  /\ UNCHANGED <<vars, desired, replica>>

AtCount(svc) ==
  /\ Turn(svc)
  /\ Started(svc)
  /\ Cardinality(pass.live[svc]) = pass.spec[svc]
  /\ pass' = Turned(svc)
  /\ UNCHANGED <<vars, desired, replica>>

\* spawn_replica: the index is how many replicas are live now.  The rest of
\* the spawn is NodeSupervision's, and its failure is logged.
SpawnReplica(n) ==
  /\ pass # NoPass
  /\ pass.spawn > 0
  /\ ReconcilerSpawn(n, pass.svc)
  /\ pass' = [pass EXCEPT !.spawn = @ - 1]
  /\ replica' = [replica EXCEPT ![n] = Cardinality(LiveNodes(pass.svc))]
  /\ UNCHANGED desired

\* The registry is full: alloc_node fails.
SpawnRefused ==
  /\ pass # NoPass
  /\ pass.spawn > 0
  /\ ~Busy(Reconciler)
  /\ \A i \in Slots : ~IsFirstEmpty(i)
  /\ pass' = [pass EXCEPT !.spawn = @ - 1]
  /\ UNCHANGED <<vars, desired, replica>>

\* Mutant: the kills are not awaited one by one.
KillsTogether(id) ==
  /\ pass # NoPass
  /\ id \in pass.kill
  /\ pass' = [pass EXCEPT !.kill = @ \ {id}]
  /\ \/ \E h \in nodes : h.node = id /\ StartKill(Reconciler, h, FALSE)
     \/ ~InTable(id) /\ UNCHANGED <<nodes, labels, kills>>
  /\ UNCHANGED <<slots, procs, strays, spawns, restarts, scan, conn, autoKill,
                 killed, desired, replica>>

\* kill_node; a node that has left the table since is passed over.
KillReplica(id) ==
  /\ pass # NoPass
  /\ id \in pass.kill
  /\ ~Busy(Reconciler)
  /\ pass' = [pass EXCEPT !.kill = @ \ {id}]
  /\ \/ \E h \in nodes : h.node = id /\ ReconcilerKill(h)
     \/ ~InTable(id) /\ UNCHANGED vars
  /\ UNCHANGED <<desired, replica>>

PassEnds ==
  /\ pass # NoPass
  /\ pass.todo = {}
  /\ Settled
  /\ pass' = NoPass
  /\ UNCHANGED <<vars, desired, replica>>

\* The desired state is in memory only.
CoreLosesDesired ==
  /\ CoreRestarts
  /\ desired' = NoSpec
  /\ pass' = NoPass
  /\ UNCHANGED replica

---------------------------------------------------------------------------
PassStep ==
  \/ PassBegins \/ PassEnds \/ SpawnRefused
  \/ \E svc \in Services : \/ SkipService(svc) \/ AtCount(svc)
                           \/ ScaleUp(svc) \/ ScaleDown(svc)
  \/ \E n \in Nodes : SpawnReplica(n) \/ KillReplica(n)

RecNext ==
  \/ SupervisionStep /\ UNCHANGED <<desired, pass, replica>>
  \/ \E s \in Sessions, spec \in DesiredState : ApplyDesiredState(s, spec)
  \/ PassStep
  \/ CoreLosesDesired

RecSpec == RecInit /\ [][RecNext]_recVars

\* As in NodeSupervision, and the reconciler's loop goes round.
RecFairness ==
  /\ WF_recVars(PassStep)
  /\ WF_recVars(HealthStep /\ UNCHANGED <<desired, pass, replica>>)
  /\ \A a \in Actors :
       /\ WF_recVars(/\ \E o \in spawns : o.by = a /\ SpawnStep(o)
                     /\ UNCHANGED <<desired, pass, replica>>)
       /\ WF_recVars(/\ \E k \in kills : k.by = a /\ KillStep(k)
                     /\ UNCHANGED <<desired, pass, replica>>)
  /\ \A n \in Nodes :
       WF_recVars(/\ \E r \in restarts : r.node = n /\ RestartStep(r)
                  /\ UNCHANGED <<desired, pass, replica>>)

FairRecSpec == RecSpec /\ RecFairness

---------------------------------------------------------------------------
(* Properties.                                                             *)

\* The nodes of a service the reconciler has, or is about to have.
Managed(svc) == {n \in Nodes : labels[n] = svc}
                  \cup {o.node : o \in {x \in spawns : x.svc = svc}}

\* The reconciler has spawns to make or one under way.
Spawning == pass.spawn > 0 \/ \E o \in spawns : o.by = Reconciler

\* Although a pass counts the live nodes once, at its start, and awaits every
\* spawn, it never takes a service above the replicas it was asked for: only
\* the reconciler labels nodes, so the count can but fall behind its back.
NeverTooMany ==
  pass # NoPass /\ Spawning =>
    Cardinality(Managed(pass.svc)) + pass.spawn <= pass.spec[pass.svc]

\* What a pass is about to kill are nodes spawned for the service at hand,
\* however much of its copy of the table has been killed, restarted or
\* removed by others; a client's own node is never among them.
KillsItsOwn ==
  pass # NoPass =>
    \A h \in nodes : h.node \in pass.kill => h.svc = pass.svc

\* What bears a service: a node, or what is about to be one.
Bearers == nodes \cup spawns \cup restarts

\* A label names the service its node was spawned for, and only what the
\* reconciler spawns has a service.
LabelsTrue ==
  /\ \A x \in Bearers : labels[x.node] \in {NoService, x.svc}
  /\ \A o \in spawns : o.svc # NoService <=> o.by = Reconciler

\* The reconciler's spawns are those of the service at hand.
SpawnsForPass ==
  \A o \in spawns : o.by = Reconciler => pass # NoPass /\ o.svc = pass.svc

\* A service whose turn is to come has no labelled node the pass has not
\* counted.
CountsBound ==
  pass # NoPass =>
    /\ pass.todo \subseteq DOMAIN pass.spec
    /\ pass.svc \in DOMAIN pass.spec \cup {NoService}
    /\ pass.spawn > 0 => pass.svc # NoService
    /\ pass.svc \notin pass.todo
    /\ \A svc \in pass.todo, n \in Nodes :
         labels[n] = svc => n \in pass.live[svc]

\* The pass's copy of the table is of nodes that bear the service it says.
CopyTrue ==
  pass # NoPass =>
    /\ pass.kill # {} => pass.svc \in Services
    /\ pass.svc \in Services => pass.kill \subseteq pass.live[pass.svc]
    /\ \A svc \in Services : \A n \in pass.live[svc] :
         ~Fresh(n) /\ \A x \in Bearers : x.node = n => x.svc = svc

\* The inductive strengthening of NeverTooMany and KillsItsOwn.
RecIInv ==
  /\ IInv /\ RecTypeOK /\ LabelsTrue /\ SpawnsForPass /\ CountsBound
  /\ CopyTrue /\ NeverTooMany

\* A service short of replicas gets them, unless the registry is full, its
\* dependencies are not up, or the desired state changes.
Short(svc) == /\ desired # NoSpec
              /\ svc \in DOMAIN desired
              /\ Cardinality(LiveNodes(svc)) < desired[svc]

ShortageEnds ==
  \A svc \in Services, k \in Counts :
    (Short(svc) /\ desired[svc] = k) ~>
      \/ ~Short(svc) \/ desired[svc] # k
      \/ \A i \in Slots : slots[i].status # "Empty"
      \/ ~Orderable(desired)
      \/ \E d \in Needs[svc] : LiveNodes(d) = {}

\* reconciler.rs: "brings actual running nodes into alignment with the spec":
\* the running nodes that were spawned for a service do not stay more than
\* the replicas asked for.
Running(svc) == {h \in nodes : h.svc = svc /\ Alive(h)}

ExcessIsRemoved ==
  \A svc \in Services :
    []<>(desired = NoSpec \/ svc \notin DOMAIN desired
           \/ Cardinality(Running(svc)) <= desired[svc])

\* message.rs: "Replica index within the service (set by reconciler,
\* 0-based)": no two live replicas have the same.
IndexNamesReplica ==
  \A svc \in Services : \A m, n \in LiveNodes(svc) :
    replica[m] = replica[n] => m = n
=============================================================================
