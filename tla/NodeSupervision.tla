-------------------------- MODULE NodeSupervision --------------------------
(***************************************************************************)
(* The life of a node (a supervised child process) inside veloce-core:     *)
(* the NodeTable of state.rs, the node slots of the memory-mapped registry *)
(* (registry.rs), and the five kinds of task that act on both of them      *)
(* without any common lock:                                                *)
(*                                                                         *)
(*   - client sessions (session.rs), which spawn and kill nodes and kill   *)
(*     their auto_kill nodes when the client goes away;                    *)
(*   - the reconciler, through spawn_node_via_state and kill_node;         *)
(*   - the portal's requests to deploy a Hub application (portal.rs);      *)
(*   - the health loop (job.rs, check_nodes in its Windows form), which    *)
(*     walks a snapshot of the table and notices exits;                    *)
(*   - one detached task per scheduled restart.                            *)
(*                                                                         *)
(* A step of this module is the code between two points at which another   *)
(* task can run: a registry or table lock taken and released, a process    *)
(* created or terminated.  A process is the pair <<node, inc>>, inc being  *)
(* the restart_count of the handle it was spawned for.                     *)
(*                                                                         *)
(* The code has two forms.  With cfg(windows) every process is in a job    *)
(* object that dies with its handle, and the health loop runs.  With       *)
(* cfg(unix) a process is a plain child that outlives the Core, a kill may *)
(* miss it, and check_nodes is empty: nothing is scanned or restarted.     *)
(***************************************************************************)
EXTENDS Integers, FiniteSets

CONSTANTS
  Nodes,        \* the node ids Uuid::new_v4 may return
  Sessions,     \* the client sessions
  Portals,      \* the portal requests that may be deploying at once
  Services,     \* the compose services the reconciler may spawn for
  NoNode,       \* the owner of an Empty slot
  NoService,    \* the label of a node that has none
  Reconciler,   \* the reconciler task, as the author of a spawn or a kill
  MaxNodes,     \* MAX_NODES, the number of slots in the registry file
  MaxRestarts,  \* the largest max_restarts of the nodes' restart policies
  OnWindows     \* cfg(windows) of the build, as against cfg(unix)

ASSUME NodesAssumption    == NoNode \notin Nodes
ASSUME ServicesAssumption == NoService \notin Services
ASSUME ActorsAssumption   == /\ Reconciler \notin Sessions \cup Portals
                             /\ Sessions \cap Portals = {}
ASSUME BoundsAssumption   == MaxNodes \in Nat \ {0} /\ MaxRestarts \in Nat
ASSUME PlatformAssumption == OnWindows \in BOOLEAN

Slots  == 0 .. (MaxNodes - 1)
Actors == Sessions \cup Portals \cup {Reconciler}
Incs   == 0 .. MaxRestarts

VARIABLES
  slots,      \* registry: slot index -> owning node id and status byte
  nodes,      \* NodeTable.nodes: the set of NodeHandles, one per node id
  labels,     \* NodeTable.service_labels
  procs,      \* the live operating-system processes
  strays,     \* processes that were left without a handle (history): out of
              \* their job object, missed by a kill, older than the Core
  spawns,     \* spawns between alloc_node and NodeTable::insert
  kills,      \* kills between NodeTable::remove and the terminate call
  restarts,   \* the detached restart tasks
  scan,       \* what is left of the health loop's list_live snapshot
  conn,       \* the life of each session
  autoKill,   \* ClientSession.auto_kill_nodes
  killed      \* node ids a client was sent NodeKilled for (history)

vars == <<slots, nodes, labels, procs, strays, spawns, kills, restarts,
          scan, conn, autoKill, killed>>

---------------------------------------------------------------------------
(* What the variables hold.                                                *)

Handle  == [node : Nodes, slot : Slots, inc : Incs,
            svc : Services \cup {NoService}]
Spawn   == [node : Nodes, slot : Slots, svc : Services \cup {NoService},
            by : Actors, auto : BOOLEAN, started : BOOLEAN]
Kill    == [node : Nodes, slot : Slots, inc : Incs, by : Actors,
            cleanup : BOOLEAN]
Restart == [node : Nodes, slot : Slots, inc : Incs,
            svc : Services \cup {NoService}, started : BOOLEAN]
Process == Nodes \X Incs

TypeOK ==
  /\ slots \in [Slots -> [owner : Nodes \cup {NoNode},
                          status : {"Empty", "Running", "Stopped"}]]
  /\ nodes \in SUBSET Handle
  /\ labels \in [Nodes -> Services \cup {NoService}]
  /\ procs \in SUBSET Process
  /\ strays \in SUBSET Process
  /\ spawns \in SUBSET Spawn
  /\ kills \in SUBSET Kill
  /\ restarts \in SUBSET Restart
  /\ scan \in SUBSET Handle
  /\ conn \in [Sessions -> {"closed", "open", "closing"}]
  /\ autoKill \in [Sessions -> SUBSET Nodes]
  /\ killed \in SUBSET Nodes

Init ==
  /\ slots = [i \in Slots |-> [owner |-> NoNode, status |-> "Empty"]]
  /\ nodes = {}
  /\ labels = [n \in Nodes |-> NoService]
  /\ procs = {}
  /\ strays = {}
  /\ spawns = {}
  /\ kills = {}
  /\ restarts = {}
  /\ scan = {}
  /\ conn = [s \in Sessions |-> "closed"]
  /\ autoKill = [s \in Sessions |-> {}]
  /\ killed = {}

---------------------------------------------------------------------------
(* Helpers.                                                                *)

Proc(h)    == <<h.node, h.inc>>
Alive(h)   == Proc(h) \in procs
InTable(n) == \E h \in nodes : h.node = n

\* Mutant: Stopped slots are given out again.
ReusesStopped(i) ==
  /\ slots[i].status # "Running"
  /\ \A j \in Slots : j < i => slots[j].status = "Running"

\* find_empty_slot: the first slot whose status byte is Empty.
IsFirstEmpty(i) ==
  /\ slots[i].status = "Empty"
  /\ \A j \in Slots : j < i => slots[j].status # "Empty"

\* find_empty_slot returns None.
Full == \A i \in Slots : slots[i].status # "Empty"

\* A new UUID: no slot has ever been given to it.
Fresh(n) == \A i \in Slots : slots[i].owner # n

\* NodeTable::insert: a HashMap insert, replacing any handle of the same id.
Inserted(h) == {g \in nodes : g.node # h.node} \cup {h}

\* Mutant: the handle is borrowed and stays.
KeepsHandle(h) ==
  /\ nodes' = nodes
  /\ labels' = [labels EXCEPT ![h.node] = NoService]

\* NodeTable::remove: the handle goes, and its label with it (under a second
\* lock, but list_live shows the labels of handles only).
RemoveNode(h) ==
  /\ nodes' = nodes \ {h}
  /\ labels' = [labels EXCEPT ![h.node] = NoService]

\* Mutants: the result of the wait is ignored; it is never the exit code.
AlwaysExited(e) == TRUE
NeverExited(e)  == FALSE

\* WaitForSingleObject on the handle the snapshot copied.
Exited(e) == ~Alive(e)

\* Mutant: one restart too many.
OneTooMany(h) == h.inc <= MaxRestarts

\* restart_count < max_restarts, for the largest max_restarts.
MayRestart(h) == h.inc < MaxRestarts

\* A task runs one handler at a time.
Busy(a) == \/ \E o \in spawns : o.by = a
           \/ \E k \in kills : k.by = a

\* Registry::set_node_status(slot, Stopped, _): whoever owns the slot.
Stopped(i) == [slots EXCEPT ![i].status = "Stopped"]

---------------------------------------------------------------------------
(* Spawning: Registry::alloc_node, then spawn_node, then the insert.       *)

AllocNode(a, n, svc, auto) ==
  /\ ~Busy(a)
  /\ Fresh(n)
  /\ \E i \in Slots :
       /\ IsFirstEmpty(i)
       /\ slots' = [slots EXCEPT ![i] = [owner |-> n, status |-> "Running"]]
       /\ spawns' = spawns \cup {[node |-> n, slot |-> i, svc |-> svc,
                                  by |-> a, auto |-> auto,
                                  started |-> FALSE]}
  /\ UNCHANGED <<nodes, labels, procs, strays, kills, restarts, scan, conn,
                 autoKill, killed>>

\* SpawnNode; HubDeploy does the same, without auto_kill.
SessionSpawn(s, n, auto) ==
  /\ conn[s] = "open"
  /\ AllocNode(s, n, NoService, auto)

\* While the registry has room; HubDeployment has the rest.
PortalDeploy(w, n) == AllocNode(w, n, NoService, FALSE)

ReconcilerSpawn(n, svc) == AllocNode(Reconciler, n, svc, FALSE)

\* spawn_node succeeded; a reconciler's spawn then sets the service label,
\* before the handle is in the table.
SpawnProcess(o) ==
  /\ ~o.started
  /\ spawns' = (spawns \ {o}) \cup {[o EXCEPT !.started = TRUE]}
  /\ procs' = procs \cup {<<o.node, 0>>}
  /\ labels' = IF o.by = Reconciler
                 THEN [labels EXCEPT ![o.node] = o.svc] ELSE labels
  /\ UNCHANGED <<slots, nodes, strays, kills, restarts, scan, conn,
                 autoKill, killed>>

\* spawn_node returned Err: `?` leaves the slot as alloc_node wrote it.  When
\* the failing call is AssignProcessToJobObject the process runs on.
SpawnFails(o) ==
  /\ ~o.started
  /\ spawns' = spawns \ {o}
  /\ \/ UNCHANGED <<procs, strays>>
     \/ /\ OnWindows
        /\ procs' = procs \cup {<<o.node, 0>>}
        /\ strays' = strays \cup {<<o.node, 0>>}
  /\ UNCHANGED <<slots, nodes, labels, kills, restarts, scan, conn, autoKill,
                 killed>>

InsertSpawned(o) ==
  /\ o.started
  /\ spawns' = spawns \ {o}
  /\ nodes' = Inserted([node |-> o.node, slot |-> o.slot, inc |-> 0,
                        svc |-> o.svc])
  /\ autoKill' = IF o.auto
                   THEN [autoKill EXCEPT ![o.by] = @ \cup {o.node}]
                   ELSE autoKill
  /\ UNCHANGED <<slots, labels, procs, strays, kills, restarts, scan, conn,
                 killed>>

---------------------------------------------------------------------------
(* Killing.                                                                *)

\* Mutant: an error between the remove and the terminate drops the handle.
DropsHandle(a, h, cleanup) == RemoveNode(h) /\ kills' = kills

StartKill(a, h, cleanup) ==
  /\ RemoveNode(h)
  /\ kills' = kills \cup {[node |-> h.node, slot |-> h.slot, inc |-> h.inc,
                           by |-> a, cleanup |-> cleanup]}

\* KillNode, the node found: it leaves the table and the auto-kill list.
SessionKill(s, h) ==
  /\ conn[s] = "open"
  /\ ~Busy(s)
  /\ StartKill(s, h, FALSE)
  /\ autoKill' = [autoKill EXCEPT ![s] = @ \ {h.node}]
  /\ UNCHANGED <<slots, procs, strays, spawns, restarts, scan, conn, killed>>

\* KillNode of an id that is not in the table: NotFound, but the id is
\* dropped from the auto-kill list all the same.
SessionKillNotFound(s, n) ==
  /\ conn[s] = "open"
  /\ ~Busy(s)
  /\ ~InTable(n)
  /\ autoKill' = [autoKill EXCEPT ![s] = @ \ {n}]
  /\ UNCHANGED <<slots, nodes, labels, procs, strays, spawns, kills, restarts,
                 scan, conn, killed>>

ReconcilerKill(h) ==
  /\ ~Busy(Reconciler)
  /\ StartKill(Reconciler, h, FALSE)
  /\ UNCHANGED <<slots, procs, strays, spawns, restarts, scan, conn, autoKill,
                 killed>>

\* terminate_node returned Ok.  On unix it does so too when the process never
\* got into its cgroup (a failed add_proc is only a warning): cg.kill finds
\* the cgroup empty, and the process runs on.  A session writes Stopped and,
\* for a KillNode, answers NodeKilled; the reconciler does neither.
FinishKill(k) ==
  /\ kills' = kills \ {k}
  /\ \/ procs' = procs \ {Proc(k)} /\ UNCHANGED strays
     \/ /\ ~OnWindows /\ Alive(k)
        /\ strays' = strays \cup {Proc(k)}
        /\ UNCHANGED procs
  /\ slots' = IF k.by = Reconciler THEN slots ELSE Stopped(k.slot)
  /\ killed' = IF k.by = Reconciler \/ k.cleanup
                 THEN killed ELSE killed \cup {k.node}
  /\ UNCHANGED <<nodes, labels, spawns, restarts, scan, conn,
                 autoKill>>

\* terminate_node failed in KillNode, which it never does on unix: `?` skips
\* the status and the answer, and dropping the handle closes the job, which
\* kills the process.
FinishKillFails(k) ==
  /\ OnWindows
  /\ k.by # Reconciler
  /\ ~k.cleanup
  /\ kills' = kills \ {k}
  /\ procs' = procs \ {Proc(k)}
  /\ UNCHANGED <<slots, nodes, labels, strays, spawns, restarts, scan, conn,
                 autoKill, killed>>

---------------------------------------------------------------------------
(* Sessions come and go; cleanup_auto_kill runs when one ends.             *)

Connect(s) ==
  /\ conn[s] = "closed"
  /\ conn' = [conn EXCEPT ![s] = "open"]
  /\ UNCHANGED <<slots, nodes, labels, procs, strays, spawns, kills, restarts,
                 scan, autoKill, killed>>

Disconnect(s) ==
  /\ conn[s] = "open"
  /\ ~Busy(s)
  /\ conn' = [conn EXCEPT ![s] = "closing"]
  /\ UNCHANGED <<slots, nodes, labels, procs, strays, spawns, kills, restarts,
                 scan, autoKill, killed>>

\* Mutant: the list entry is dropped only with its node.
CleansFoundOnly(s, n) ==
  /\ conn[s] = "closing"
  /\ ~Busy(s)
  /\ n \in autoKill[s]
  /\ autoKill' = [autoKill EXCEPT ![s] = @ \ {n}]
  /\ \E h \in nodes : h.node = n /\ StartKill(s, h, TRUE)
  /\ UNCHANGED <<slots, procs, strays, spawns, restarts, scan, conn, killed>>

CleanupNode(s, n) ==
  /\ conn[s] = "closing"
  /\ ~Busy(s)
  /\ n \in autoKill[s]
  /\ autoKill' = [autoKill EXCEPT ![s] = @ \ {n}]
  /\ \/ \E h \in nodes : h.node = n /\ StartKill(s, h, TRUE)
     \/ ~InTable(n) /\ UNCHANGED <<nodes, labels, kills>>
  /\ UNCHANGED <<slots, procs, strays, spawns, restarts, scan, conn, killed>>

CleanupDone(s) ==
  /\ conn[s] = "closing"
  /\ ~Busy(s)
  /\ autoKill[s] = {}
  /\ conn' = [conn EXCEPT ![s] = "closed"]
  /\ UNCHANGED <<slots, nodes, labels, procs, strays, spawns, kills, restarts,
                 scan, autoKill, killed>>

---------------------------------------------------------------------------
(* The health loop and the restart tasks.                                  *)

\* check_nodes, on Windows, takes a snapshot of the table ...
ScanBegin ==
  /\ OnWindows
  /\ scan = {}
  /\ nodes # {}
  /\ scan' = nodes
  /\ UNCHANGED <<slots, nodes, labels, procs, strays, spawns, kills, restarts,
                 conn, autoKill, killed>>

\* ... skips the entries whose process still runs (probing is the business
\* of HealthProbing), as it does when the handle it copied has been closed
\* by a kill and its value reused ...
ScanSkip(e) ==
  /\ ~Exited(e) \/ e \notin nodes
  /\ scan' = scan \ {e}
  /\ UNCHANGED <<slots, nodes, labels, procs, strays, spawns, kills, restarts,
                 conn, autoKill, killed>>

\* ... and for a process that has exited writes the slot, takes whatever
\* handle the table now has for that id, and schedules a restart for it,
\* unless it has no restart policy or the budget of its policy is spent.
ScanExited(e) ==
  /\ Exited(e)
  /\ scan' = scan \ {e}
  /\ slots' = Stopped(e.slot)
  /\ \/ /\ ~InTable(e.node)
        /\ UNCHANGED <<nodes, labels, restarts>>
     \/ \E h \in nodes :
          /\ h.node = e.node
          /\ RemoveNode(h)
          /\ \/ UNCHANGED restarts
             \/ /\ MayRestart(h)
                /\ restarts' = restarts \cup
                     {[node |-> h.node, slot |-> h.slot, inc |-> h.inc + 1,
                       svc |-> h.svc, started |-> FALSE]}
  /\ UNCHANGED <<procs, strays, spawns, kills, conn, autoKill, killed>>

\* The back-off delay has passed and spawn_node succeeded.
RestartSpawn(r) ==
  /\ ~r.started
  /\ restarts' = (restarts \ {r}) \cup {[r EXCEPT !.started = TRUE]}
  /\ procs' = procs \cup {Proc(r)}
  /\ UNCHANGED <<slots, nodes, labels, strays, spawns, kills, scan, conn,
                 autoKill, killed>>

\* spawn_node failed: logged, and the node is never retried.
RestartFails(r) ==
  /\ ~r.started
  /\ restarts' = restarts \ {r}
  /\ \/ UNCHANGED <<procs, strays>>
     \/ /\ procs' = procs \cup {Proc(r)}
        /\ strays' = strays \cup {Proc(r)}
  /\ UNCHANGED <<slots, nodes, labels, spawns, kills, scan, conn, autoKill,
                 killed>>

\* The new handle goes into the table; neither the service label nor the
\* registry slot is written again.
RestartInsert(r) ==
  /\ r.started
  /\ restarts' = restarts \ {r}
  /\ nodes' = Inserted([node |-> r.node, slot |-> r.slot, inc |-> r.inc,
                        svc |-> r.svc])
  /\ UNCHANGED <<slots, labels, procs, strays, spawns, kills, scan, conn,
                 autoKill, killed>>

---------------------------------------------------------------------------
(* The environment.                                                        *)

ProcessExits(p) ==
  /\ procs' = procs \ {p}
  /\ UNCHANGED <<slots, nodes, labels, strays, spawns, kills, restarts, scan,
                 conn, autoKill, killed>>

\* What lives on when the Core dies.  On Windows every job is closed
\* (JOB_OBJECT_LIMIT_KILL_ON_JOB_CLOSE), so that only strays do.  On unix
\* nothing ties a child to the Core: it goes on, and nobody holds it.
Survivors == IF OnWindows THEN procs \cap strays ELSE procs

\* VeloceCore dies and comes back: only the registry file and the survivors
\* do, and no handle leads to those.
CoreRestarts ==
  /\ nodes' = {}
  /\ labels' = [n \in Nodes |-> NoService]
  /\ procs' = Survivors
  /\ strays' = strays \cup Survivors
  /\ spawns' = {}
  /\ kills' = {}
  /\ restarts' = {}
  /\ scan' = {}
  /\ conn' = [s \in Sessions |-> "closed"]
  /\ autoKill' = [s \in Sessions |-> {}]
  /\ UNCHANGED <<slots, killed>>

---------------------------------------------------------------------------
SessionStep(s) ==
  \/ Connect(s) \/ Disconnect(s) \/ CleanupDone(s)
  \/ \E n \in Nodes : \/ \E auto \in BOOLEAN : SessionSpawn(s, n, auto)
                      \/ SessionKillNotFound(s, n)
                      \/ CleanupNode(s, n)
  \/ \E h \in nodes : SessionKill(s, h)

ReconcilerStep ==
  \/ \E n \in Nodes, svc \in Services : ReconcilerSpawn(n, svc)
  \/ \E h \in nodes : ReconcilerKill(h)

\* The rest of a spawn or a kill, whoever began it.
SpawnStep(o) == SpawnProcess(o) \/ SpawnFails(o) \/ InsertSpawned(o)
KillStep(k)  == FinishKill(k) \/ FinishKillFails(k)

HealthStep ==
  \/ ScanBegin
  \/ \E e \in scan : ScanSkip(e) \/ ScanExited(e)

RestartStep(r) == RestartSpawn(r) \/ RestartFails(r) \/ RestartInsert(r)

SupervisionStep ==
  \/ \E s \in Sessions : SessionStep(s)
  \/ \E o \in spawns : SpawnStep(o)
  \/ \E k \in kills : KillStep(k)
  \/ HealthStep
  \/ \E r \in restarts : RestartStep(r)
  \/ \E w \in Portals, n \in Nodes : PortalDeploy(w, n)
  \/ \E p \in procs : ProcessExits(p)

Next == SupervisionStep \/ ReconcilerStep \/ CoreRestarts

Spec == Init /\ [][Next]_vars

\* The runtime keeps polling the tasks it has been given: handlers under way
\* finish, the health loop goes round, cleanup runs to its end and restart
\* timers fire.  Nothing obliges a client, the reconciler, a process or the
\* machine to do anything.
Fairness ==
  /\ WF_vars(HealthStep)
  /\ \A a \in Actors :
       /\ WF_vars(\E o \in spawns : o.by = a /\ SpawnStep(o))
       /\ WF_vars(\E k \in kills : k.by = a /\ KillStep(k))
  /\ \A n \in Nodes :
       WF_vars(\E r \in restarts : r.node = n /\ RestartStep(r))
  /\ \A s \in Sessions :
       WF_vars(CleanupDone(s) \/ \E n \in Nodes : CleanupNode(s, n))

FairSpec == Spec /\ Fairness

---------------------------------------------------------------------------
(* Properties.                                                             *)

Distinct(S)  == \A x, y \in S : x.node = y.node => x = y
Apart(S, T)  == \A x \in S, y \in T : x.node # y.node

\* At any time one task at most answers for a node id: it is being spawned,
\* or it is in the table, or it has been taken out to be killed, or it waits
\* to be restarted.  The code has no lock that says so: it rests on fresh
\* ids, on remove handing the handle to one caller only, and on the health
\* loop being the only author of restarts.
OneHolder ==
  /\ Distinct(spawns) /\ Distinct(nodes) /\ Distinct(kills)
  /\ Distinct(restarts)
  /\ Apart(spawns, nodes) /\ Apart(spawns, kills)
  /\ Apart(spawns, restarts) /\ Apart(nodes, kills)
  /\ Apart(nodes, restarts) /\ Apart(kills, restarts)

Holders == nodes \cup spawns \cup kills \cup restarts

\* A registry slot belongs to the node that was given it for as long as any
\* task can still write to it, so set_node_status never marks the slot of
\* another node, however late it comes (registry.rs, job.rs).
SlotsExclusive ==
  /\ \A x \in Holders : slots[x.slot].owner = x.node
  /\ \A e \in scan : slots[e.slot].owner = e.node

\* Some task will track the process or terminate it.
Reachable(p) ==
  \/ \E h \in nodes : Proc(h) = p
  \/ \E k \in kills : Proc(k) = p
  \/ \E o \in spawns : o.started /\ <<o.node, 0>> = p
  \/ \E r \in restarts : r.started /\ Proc(r) = p

\* Every live process can still be reached by someone who will track it or
\* terminate it, except a stray: on Windows one that could not be put in its
\* job object, on unix one that a kill has missed or that the Core's death has
\* left.  No order of spawns, scans, kills and restarts loses another.
NoLostProcess == \A p \in procs : p \in strays \/ Reachable(p)

\* A node id never has two live processes: a restart is scheduled only after
\* the process it replaces is gone, whatever kills and scans overlap with it.
OneProcessPerNode == \A p, q \in procs : p[1] = q[1] => p = q

\* The health loop acts on a copy of the table taken before its awaits.  If
\* the node is still in the table when its turn comes, it is there with the
\* handle that was copied, never with a later incarnation.
ScanIsCurrent ==
  \A e \in scan, h \in nodes : h.node = e.node => h = e

\* A node a client was told is killed is in nobody's hands and never gets a
\* process again: no restart was, or will be, scheduled for it.  On Windows it
\* has none either; on unix the one its kill has missed may live on.
KilledStaysDead ==
  \A n \in killed :
    /\ \A x \in Holders : x.node # n
    /\ \A p \in procs : p[1] = n => ~OnWindows /\ p \in strays

\* A service label outlives its node in no order of events: a labelled id is
\* in the table or about to be, for remove clears the label with the handle
\* and nothing labels a node that has left (NodeTable, state.rs).
LabelsInTable ==
  \A n \in Nodes : labels[n] # NoService =>
    InTable(n) \/ \E o \in spawns : o.node = n /\ o.started

\* What the rest of the scan may still meet: no id twice, and none that is
\* being spawned or waits to be restarted.
ScanApart == Distinct(scan) /\ Apart(scan, spawns) /\ Apart(scan, restarts)

\* A process left without a handle is the last one its node id ever has.
StraysUnheld ==
  /\ \A p \in strays : \A x \in Holders : x.node # p[1]
  /\ \A p, q \in strays : p[1] = q[1] => p = q

\* An id that has left a trace is in a slot, so Uuid::new_v4 avoids it, and
\* the slots that alloc_node may take have never been anyone's.
TracesRecorded ==
  /\ \A i \in Slots : slots[i].status = "Empty" => slots[i].owner = NoNode
  /\ \A p \in procs \cup strays : ~Fresh(p[1])
  /\ \A n \in killed : ~Fresh(n)

\* The inductive strengthening of the invariants above.
IInv ==
  /\ TypeOK /\ OneHolder /\ SlotsExclusive /\ NoLostProcess
  /\ ScanIsCurrent /\ ScanApart /\ KilledStaysDead /\ LabelsInTable
  /\ StraysUnheld /\ TracesRecorded

\* How far a node id has come, and with how many restarts behind it.
Life(n) ==
  IF \E o \in spawns : o.node = n THEN "spawning"
  ELSE IF InTable(n) THEN "tracked"
  ELSE IF \E k \in kills : k.node = n THEN "killing"
  ELSE IF \E r \in restarts : r.node = n THEN "restarting"
  ELSE IF Fresh(n) THEN "new" ELSE "gone"

Attempt(n) ==
  IF \E x \in nodes \cup kills \cup restarts : x.node = n
    THEN (CHOOSE x \in nodes \cup kills \cup restarts : x.node = n).inc
    ELSE 0

Promised == INSTANCE NodeLifecycle WITH
  life     <- [n \in Nodes |-> Life(n)],
  attempt  <- [n \in Nodes |-> Attempt(n)],
  alive    <- {p[1] : p \in procs},
  Outlives <- ~OnWindows

\* All of it together keeps the promise of NodeLifecycle: whatever sessions,
\* portal, reconciler, scans, restart timers and daemon restarts do to it, an
\* id lives once, with one process at a time, within its restart budget.
KeepsLifecycle == Promised!Spec

\* A node whose process has died does not stay in the table: the health loop
\* removes it, or somebody kills it first, or the Core itself restarts.
ExitIsNoticed ==
  \A n \in Nodes :
    (\E h \in nodes : h.node = n /\ ~Alive(h))
      ~> (\A h \in nodes : h.node = n => Alive(h))

\* A session whose client has gone ends: cleanup_auto_kill gets through its
\* list although other tasks kill and restart the same nodes.
CleanupEnds == \A s \in Sessions : conn[s] = "closing" ~> conn[s] = "closed"

\* message.rs: "If true, the node is automatically killed when the client
\* disconnects."
AutoKillOnDisconnect ==
  \A s \in Sessions, n \in Nodes :
    (conn[s] = "closing" /\ n \in autoKill[s])
      ~> [](\A p \in procs : p[1] # n)
=============================================================================
