----------------------- MODULE NodeSupervisionProofs -----------------------
(***************************************************************************)
(* Proofs about NodeSupervision for any nodes, sessions, services, slots   *)
(* and restart bound.  The safety properties are not inductive one by one: *)
(* that no process is lost needs that a node id has one holder, which      *)
(* needs that a scan entry is current, which needs the ids of the scan     *)
(* apart from those being restarted.  IInv is their conjunction, with what *)
(* it takes about strays and about which ids are still fresh.  It splits   *)
(* into TaskInv, which the tasks keep even when ids share a slot, and      *)
(* SlotsExclusive, which they keep when no two do.                         *)
(***************************************************************************)
EXTENDS NodeSupervision, TLAPS

\* The empty tables of a fresh daemon are well typed.
LEMMA TypeInit == Init => TypeOK
  BY BoundsAssumption DEF Init, TypeOK, Slots

\* Registry::alloc_node writes an id and a status the slot table admits, and
\* records a spawn of a known node in a known slot.
LEMMA TypeAlloc ==
  ASSUME TypeOK, NEW a \in Actors, NEW n \in Nodes,
         NEW svc \in Services \cup {NoService}, NEW auto \in BOOLEAN,
         AllocNode(a, n, svc, auto)
  PROVE  TypeOK'
<1>1. PICK i \in Slots :
        /\ slots' = [slots EXCEPT ![i] = [owner |-> n, status |-> "Running"]]
        /\ spawns' = spawns \cup {[node |-> n, slot |-> i, svc |-> svc,
                                   by |-> a, auto |-> auto,
                                   started |-> FALSE]}
  BY DEF AllocNode
<1>2. [node |-> n, slot |-> i, svc |-> svc, by |-> a, auto |-> auto,
       started |-> FALSE] \in Spawn
  BY DEF Spawn
<1>3. spawns' \in SUBSET Spawn
  BY <1>1, <1>2 DEF TypeOK
<1>4. slots' \in [Slots -> [owner : Nodes \cup {NoNode},
                           status : {"Empty", "Running", "Stopped"}]]
  BY <1>1 DEF TypeOK
<1>5. QED
  BY <1>3, <1>4 DEF TypeOK, AllocNode

\* Taking a handle out of the NodeTable to kill it keeps the table, the labels
\* and the kills under way well typed.
LEMMA TypeStartKill ==
  ASSUME TypeOK, NEW a \in Actors, NEW h \in nodes, NEW c \in BOOLEAN,
         StartKill(a, h, c)
  PROVE  /\ nodes' \in SUBSET Handle
         /\ labels' \in [Nodes -> Services \cup {NoService}]
         /\ kills' \in SUBSET Kill
<1>1. h \in Handle
  BY DEF TypeOK
<1>2. kills' \in SUBSET Kill
  BY <1>1 DEF TypeOK, StartKill, Handle, Kill
<1>3. QED
  BY <1>1, <1>2 DEF TypeOK, StartKill, RemoveNode, Handle

\* Every handler keeps every table well typed; the restart count stays within
\* max_restarts because a restart is scheduled only below it.
LEMMA TypeStep == TypeOK /\ [Next]_vars => TypeOK'
<1> SUFFICES ASSUME TypeOK, [Next]_vars PROVE TypeOK'
  OBVIOUS
<1> USE BoundsAssumption, ServicesAssumption, NodesAssumption
    DEF TypeOK, Handle, Spawn, Kill, Restart, Process, Incs, Actors
<1>1. ASSUME NEW s \in Sessions, NEW n \in Nodes, NEW auto \in BOOLEAN, SessionSpawn(s, n, auto)
      PROVE  TypeOK'
  BY <1>1, TypeAlloc DEF SessionSpawn
<1>2. ASSUME NEW n \in Nodes, NEW svc \in Services, ReconcilerSpawn(n, svc)
      PROVE  TypeOK'
  BY <1>2, TypeAlloc DEF ReconcilerSpawn
<1>3. ASSUME NEW o \in spawns, SpawnProcess(o)
      PROVE  TypeOK'
  <2>1. o \in Spawn
    OBVIOUS
  <2>2. [o EXCEPT !.started = TRUE] \in Spawn
    BY <2>1
  <2>3. <<o.node, 0>> \in Process
    BY <2>1
  <2>4. QED
    BY <1>3, <2>2, <2>3 DEF SpawnProcess
<1>4. ASSUME NEW o \in spawns, SpawnFails(o)
      PROVE  TypeOK'
  <2>1. <<o.node, 0>> \in Process
    OBVIOUS
  <2>2. QED
    BY <1>4, <2>1 DEF SpawnFails
<1>5. ASSUME NEW o \in spawns, InsertSpawned(o)
      PROVE  TypeOK'
  <2>1. o \in Spawn
    OBVIOUS
  <2>2. [node |-> o.node, slot |-> o.slot, inc |-> 0, svc |-> o.svc] \in Handle
    BY <2>1
  <2>3. nodes' \in SUBSET Handle
    BY <1>5, <2>2 DEF InsertSpawned, Inserted
  <2>4. autoKill' \in [Sessions -> SUBSET Nodes]
    BY <1>5, <2>1 DEF InsertSpawned
  <2>5. labels' \in [Nodes -> Services \cup {NoService}]
    BY <1>5, <2>1 DEF InsertSpawned
  <2>6. QED
    BY <1>5, <2>3, <2>4, <2>5 DEF InsertSpawned
<1>6. ASSUME NEW s \in Sessions, NEW h \in nodes, SessionKill(s, h)
      PROVE  TypeOK'
  BY <1>6, TypeStartKill DEF SessionKill
<1>7. ASSUME NEW s \in Sessions, NEW n \in Nodes, SessionKillNotFound(s, n)
      PROVE  TypeOK'
  BY <1>7 DEF SessionKillNotFound
<1>8. ASSUME NEW h \in nodes, ReconcilerKill(h)
      PROVE  TypeOK'
  BY <1>8, TypeStartKill DEF ReconcilerKill
<1>9. ASSUME NEW k \in kills, FinishKill(k)
      PROVE  TypeOK'
  <2>1. k.slot \in Slots /\ k.node \in Nodes /\ Proc(k) \in Process
    BY DEF Proc
  <2>2. strays' \in SUBSET Process /\ procs' \in SUBSET Process
    BY <1>9, <2>1 DEF FinishKill
  <2>3. /\ slots' \in [Slots -> [owner : Nodes \cup {NoNode},
                                status : {"Empty", "Running", "Stopped"}]]
        /\ killed' \in SUBSET Nodes
    BY <1>9, <2>1 DEF FinishKill, Stopped
  <2>4. QED
    BY <1>9, <2>2, <2>3 DEF FinishKill
<1>10. ASSUME NEW k \in kills, FinishKillFails(k)
       PROVE  TypeOK'
  BY <1>10 DEF FinishKillFails
<1>11. ASSUME NEW s \in Sessions, Connect(s)
       PROVE  TypeOK'
  BY <1>11 DEF Connect
<1>12. ASSUME NEW s \in Sessions, Disconnect(s)
       PROVE  TypeOK'
  BY <1>12 DEF Disconnect
<1>13. ASSUME NEW s \in Sessions, NEW n \in Nodes, CleanupNode(s, n)
       PROVE  TypeOK'
  <2>1. CASE \E h \in nodes : h.node = n /\ StartKill(s, h, TRUE)
    BY <1>13, <2>1, TypeStartKill DEF CleanupNode
  <2>2. CASE ~InTable(n) /\ UNCHANGED <<nodes, labels, kills>>
    BY <1>13, <2>2 DEF CleanupNode
  <2>3. QED
    BY <1>13, <2>1, <2>2 DEF CleanupNode
<1>14. ASSUME NEW s \in Sessions, CleanupDone(s)
       PROVE  TypeOK'
  BY <1>14 DEF CleanupDone
<1>15. ASSUME ScanBegin
       PROVE  TypeOK'
  BY <1>15 DEF ScanBegin
<1>16. ASSUME NEW e \in scan, ScanSkip(e)
       PROVE  TypeOK'
  BY <1>16 DEF ScanSkip
<1>17. ASSUME NEW e \in scan, ScanExited(e)
       PROVE  TypeOK'
  <2>1. e \in Handle
    OBVIOUS
  <2>2. slots' \in [Slots -> [owner : Nodes \cup {NoNode},
                             status : {"Empty", "Running", "Stopped"}]]
    BY <1>17, <2>1 DEF ScanExited, Stopped
  <2>3. CASE UNCHANGED <<nodes, labels, restarts>>
    BY <1>17, <2>2, <2>3 DEF ScanExited
  <2>4. ASSUME NEW h \in nodes, RemoveNode(h), h.inc < MaxRestarts,
               restarts' = restarts \cup {[node |-> h.node, slot |-> h.slot,
                                          inc |-> h.inc + 1, svc |-> h.svc,
                                          started |-> FALSE]}
        PROVE  TypeOK'
    <3>1. h \in Handle
      OBVIOUS
    <3>2. h.inc + 1 \in Incs
      BY <2>4, <3>1
    <3>3. [node |-> h.node, slot |-> h.slot, inc |-> h.inc + 1,
           svc |-> h.svc, started |-> FALSE] \in Restart
      BY <3>1, <3>2
    <3>4. restarts' \in SUBSET Restart
      BY <2>4, <3>3
    <3>5. QED
      BY <1>17, <2>2, <2>4, <3>1, <3>4 DEF ScanExited, MayRestart, RemoveNode
  <2>5. ASSUME NEW h \in nodes, RemoveNode(h), UNCHANGED restarts
        PROVE  TypeOK'
    BY <1>17, <2>2, <2>5 DEF ScanExited, MayRestart, RemoveNode
  <2>6. QED
    BY <1>17, <2>3, <2>4, <2>5 DEF ScanExited, MayRestart
<1>18. ASSUME NEW r \in restarts, RestartSpawn(r)
       PROVE  TypeOK'
  <2>1. r \in Restart
    OBVIOUS
  <2>2. [r EXCEPT !.started = TRUE] \in Restart
    BY <2>1
  <2>3. Proc(r) \in Process
    BY <2>1 DEF Proc
  <2>4. QED
    BY <1>18, <2>2, <2>3 DEF RestartSpawn
<1>19. ASSUME NEW r \in restarts, RestartFails(r)
       PROVE  TypeOK'
  BY <1>19 DEF RestartFails, Proc
<1>20. ASSUME NEW r \in restarts, RestartInsert(r)
       PROVE  TypeOK'
  BY <1>20 DEF RestartInsert, Inserted
<1>21. ASSUME NEW p \in procs, ProcessExits(p)
       PROVE  TypeOK'
  BY <1>21 DEF ProcessExits
<1>22. ASSUME CoreRestarts
       PROVE  TypeOK'
  BY <1>22 DEF CoreRestarts, Survivors
<1>23. CASE UNCHANGED vars
  BY <1>23 DEF vars
<1>24. ASSUME NEW w \in Portals, NEW n \in Nodes, PortalDeploy(w, n)
       PROVE  TypeOK'
  BY <1>24, TypeAlloc DEF PortalDeploy
<1>25. QED
  BY <1>1, <1>2, <1>3, <1>4, <1>5, <1>6, <1>7, <1>8, <1>9, <1>10, <1>11,
     <1>12, <1>13, <1>14, <1>15, <1>16, <1>17, <1>18, <1>19, <1>20, <1>21,
     <1>22, <1>23, <1>24
  DEF Next, SupervisionStep, SessionStep, ReconcilerStep, SpawnStep, KillStep,
      HealthStep, RestartStep

\* The NodeTable, the registry slots and the tasks under way are always well
\* typed, for any number of nodes, sessions, slots and restarts.
THEOREM TypeCorrect == Spec => []TypeOK
<1>1. Init => TypeOK
  BY TypeInit
<1>2. TypeOK /\ [Next]_vars => TypeOK'
  BY TypeStep
<1>3. QED
  BY <1>1, <1>2, PTL DEF Spec

---------------------------------------------------------------------------
(* What the tasks keep whatever they do to the slots: all of the inductive  *)
(* invariant but SlotsExclusive.  U is a set of ids that are in no slot of  *)
(* their own, as the portal makes them once the registry is full: empty for *)
(* NodeSupervision.                                                        *)

\* Nobody draws the id any more.
Taken(n, U) == n \in U \/ ~Fresh(n)

\* Every id that has left a trace is taken, no task writes to an Empty slot,
\* and such a slot is nobody's.
Recorded(U) ==
  /\ \A i \in Slots : slots[i].status = "Empty" => slots[i].owner = NoNode
  /\ \A x \in Holders \cup scan :
       Taken(x.node, U) /\ slots[x.slot].status # "Empty"
  /\ \A p \in procs \cup strays : Taken(p[1], U)
  /\ \A n \in killed : Taken(n, U)

TaskInv(U) ==
  /\ TypeOK /\ OneHolder /\ NoLostProcess /\ ScanIsCurrent /\ ScanApart
  /\ KilledStaysDead /\ LabelsInTable /\ StraysUnheld /\ Recorded(U)

\* With a slot for each id, this and SlotsExclusive are the invariant.
LEMMA IInvParts == IInv <=> TaskInv({}) /\ SlotsExclusive
<1>1. ASSUME IInv PROVE TaskInv({})
  <2>1. \A x \in Holders \cup scan : x.slot \in Slots /\ x.node \in Nodes
    BY <1>1 DEF IInv, TypeOK, Holders, Handle, Spawn, Kill, Restart
  <2>2. \A x \in Holders \cup scan :
          Taken(x.node, {}) /\ slots[x.slot].status # "Empty"
    BY <1>1, <2>1, NodesAssumption
    DEF IInv, SlotsExclusive, TracesRecorded, Taken, Fresh
  <2>3. QED
    BY <1>1, <2>2 DEF IInv, TaskInv, TracesRecorded, Recorded, Taken
<1>2. ASSUME TaskInv({}), SlotsExclusive PROVE IInv
  BY <1>2 DEF IInv, TaskInv, TracesRecorded, Recorded, Taken
<1>3. QED
  BY <1>1, <1>2 DEF IInv

LEMMA TaskInvInit == Init => TaskInv({})
  BY TypeInit DEF Init, TaskInv, OneHolder, Distinct, Apart, Recorded,
      Holders, NoLostProcess, ScanIsCurrent, ScanApart, KilledStaysDead,
      LabelsInTable, StraysUnheld

LEMMA IInvInit == Init => IInv
  BY IInvParts, TaskInvInit DEF Init, SlotsExclusive, Holders

---------------------------------------------------------------------------
(* Where things come from.                                                 *)

\* A step that draws no id: no slot changes hands or becomes Empty, and what
\* is held, scanned, running or killed was held, scanned, running or killed.
Follows ==
  /\ \A i \in Slots :
       /\ slots'[i].owner = slots[i].owner
       /\ slots'[i].status = "Empty" => slots[i].status = "Empty"
  /\ \A x \in (Holders \cup scan)' :
       \E y \in Holders \cup scan : y.node = x.node /\ y.slot = x.slot
  /\ \A p \in (procs \cup strays)' :
       p \in procs \cup strays \/ \E y \in Holders : y.node = p[1]
  /\ \A n \in killed' : n \in killed \/ \E y \in Holders : y.node = n

Allocates ==
  \E a \in Actors, n \in Nodes, svc \in Services \cup {NoService},
     auto \in BOOLEAN : AllocNode(a, n, svc, auto)


LEMMA StepFollows ==
  ASSUME TypeOK, [Next]_vars
  PROVE  Follows \/ Allocates
<1> USE DEF Holders
<1>1. ASSUME UNCHANGED slots,
             (Holders \cup scan)' \subseteq Holders \cup scan,
             (procs \cup strays)' \subseteq procs \cup strays,
             killed' = killed
      PROVE  Follows
  BY <1>1 DEF Follows
<1>2. ASSUME NEW i \in Slots, slots' = Stopped(i)
      PROVE  \A j \in Slots :
               /\ slots'[j].owner = slots[j].owner
               /\ slots'[j].status = "Empty" => slots[j].status = "Empty"
  BY <1>2 DEF Stopped, TypeOK
<1>3. ASSUME NEW o \in spawns, SpawnStep(o)
      PROVE  Follows
  <2>1. o \in Spawn
    BY DEF TypeOK
  <2>2. CASE SpawnProcess(o)
    BY <2>1, <2>2 DEF SpawnProcess, Follows, Spawn
  <2>3. CASE SpawnFails(o)
    BY <2>3 DEF SpawnFails, Follows
  <2>4. CASE InsertSpawned(o)
    BY <2>4 DEF InsertSpawned, Inserted, Follows
  <2>5. QED
    BY <1>3, <2>2, <2>3, <2>4 DEF SpawnStep
<1>4. ASSUME NEW r \in restarts, RestartStep(r)
      PROVE  Follows
  <2>1. r \in Restart
    BY DEF TypeOK
  <2>2. CASE RestartSpawn(r)
    BY <2>1, <2>2 DEF RestartSpawn, Follows, Restart, Proc
  <2>3. CASE RestartFails(r)
    BY <2>3 DEF RestartFails, Follows, Proc
  <2>4. CASE RestartInsert(r)
    BY <2>4 DEF RestartInsert, Inserted, Follows
  <2>5. QED
    BY <1>4, <2>2, <2>3, <2>4 DEF RestartStep
<1>5. ASSUME NEW k \in kills, KillStep(k)
      PROVE  Follows
  <2>1. k.slot \in Slots
    BY DEF TypeOK, Kill
  <2>2. CASE FinishKill(k)
    BY <1>2, <2>1, <2>2 DEF FinishKill, Alive, Follows
  <2>3. CASE FinishKillFails(k)
    BY <2>3 DEF FinishKillFails, Follows
  <2>4. QED
    BY <1>5, <2>2, <2>3 DEF KillStep
<1>6. ASSUME NEW e \in scan, ScanExited(e)
      PROVE  Follows
  <2>1. e.slot \in Slots
    BY DEF TypeOK, Handle
  <2>2. \A i \in Slots :
          /\ slots'[i].owner = slots[i].owner
          /\ slots'[i].status = "Empty" => slots[i].status = "Empty"
    BY <1>2, <1>6, <2>1 DEF ScanExited
  <2>3. UNCHANGED <<procs, strays, killed, spawns, kills>>
    BY <1>6 DEF ScanExited
  <2>4. scan' \subseteq scan /\ nodes' \subseteq nodes
    BY <1>6 DEF ScanExited, RemoveNode
  <2>5. \A r \in restarts' : r \in restarts
          \/ \E h \in nodes : h.node = r.node /\ h.slot = r.slot
    BY <1>6 DEF ScanExited
  <2>6. QED
    BY <2>2, <2>3, <2>4, <2>5 DEF Follows
<1>7. ASSUME NEW a, NEW h \in nodes, NEW c, StartKill(a, h, c),
             UNCHANGED <<slots, procs, strays, spawns, restarts, scan, killed>>
      PROVE  Follows
  BY <1>7 DEF StartKill, RemoveNode, Follows
<1>8. ASSUME NEW s \in Sessions, SessionStep(s)
      PROVE  Follows \/ Allocates
  <2>1. ASSUME NEW n \in Nodes, NEW auto \in BOOLEAN, SessionSpawn(s, n, auto)
        PROVE  Allocates
    BY <2>1 DEF SessionSpawn, Allocates, Actors
  <2>2. CASE \E h \in nodes : SessionKill(s, h)
    BY <1>7, <2>2 DEF SessionKill
  <2>3. ASSUME NEW n \in Nodes, CleanupNode(s, n)
        PROVE  Follows
    BY <1>1, <1>7, <2>3 DEF CleanupNode
  <2>4. QED
    BY <1>1, <1>8, <2>1, <2>2, <2>3
    DEF SessionStep, Connect, Disconnect, CleanupDone, SessionKillNotFound
<1>9. ASSUME HealthStep
      PROVE  Follows
  BY <1>1, <1>6, <1>9 DEF HealthStep, ScanBegin, ScanSkip
<1>10. ASSUME ReconcilerStep
       PROVE  Follows \/ Allocates
  BY <1>7, <1>10
  DEF ReconcilerStep, ReconcilerSpawn, ReconcilerKill, Allocates, Actors
<1>11. ASSUME NEW w \in Portals, NEW n \in Nodes, PortalDeploy(w, n)
       PROVE  Allocates
  BY <1>11 DEF PortalDeploy, Allocates, Actors
<1>12. ASSUME NEW p \in procs, ProcessExits(p)
       PROVE  Follows
  BY <1>1, <1>12 DEF ProcessExits
<1>13. CASE CoreRestarts
  BY <1>1, <1>13 DEF CoreRestarts, Survivors
<1>14. CASE UNCHANGED vars
  BY <1>1, <1>14 DEF vars
<1>15. QED
  BY <1>3, <1>4, <1>5, <1>8, <1>9, <1>10, <1>11, <1>12, <1>13, <1>14
  DEF Next, SupervisionStep

\* Such a step keeps the record ...
LEMMA FollowsRecorded ==
  ASSUME NEW U, TypeOK, TypeOK', Recorded(U), Follows
  PROVE  Recorded(U)'
<1>1. \A n : Taken(n, U) => Taken(n, U)'
  BY DEF Follows, Taken, Fresh
<1>2. \A x \in (Holders \cup scan)' : x.slot \in Slots
  BY DEF TypeOK, Holders, Handle, Spawn, Kill, Restart
<1>3. \A i \in Slots : slots'[i].status = "Empty" => slots'[i].owner = NoNode
  BY DEF Follows, Recorded
<1>4. \A x \in (Holders \cup scan)' :
        Taken(x.node, U)' /\ slots'[x.slot].status # "Empty"
  BY <1>1, <1>2 DEF Follows, Recorded
<1>5. \A p \in (procs \cup strays)' : Taken(p[1], U)'
  BY <1>1 DEF Follows, Recorded
<1>6. \A n \in killed' : Taken(n, U)'
  BY <1>1 DEF Follows, Recorded
<1>7. QED
  BY <1>3, <1>4, <1>5, <1>6 DEF Recorded

\* ... and so does one that draws an id, which takes a slot nobody had.
LEMMA AllocatesRecorded ==
  ASSUME NEW U, TypeOK, TypeOK', Recorded(U), Allocates,
         U # {} => Full
  PROVE  /\ Recorded(U)' /\ U = {}
         /\ \A i \in Slots : slots[i].owner # NoNode =>
              slots'[i].owner = slots[i].owner
<1>1. PICK a \in Actors, n \in Nodes, svc \in Services \cup {NoService},
           auto \in BOOLEAN : AllocNode(a, n, svc, auto)
  BY DEF Allocates
<1>2. PICK i \in Slots :
        /\ IsFirstEmpty(i)
        /\ slots' = [slots EXCEPT ![i] = [owner |-> n, status |-> "Running"]]
        /\ spawns' = spawns \cup {[node |-> n, slot |-> i, svc |-> svc,
                                   by |-> a, auto |-> auto,
                                   started |-> FALSE]}
  BY <1>1 DEF AllocNode
<1>3. U = {}
  BY <1>2 DEF IsFirstEmpty, Full
<1>4. UNCHANGED <<nodes, labels, procs, strays, kills, restarts, scan, killed>>
  BY <1>1 DEF AllocNode
<1>5. slots[i].status = "Empty" /\ slots[i].owner = NoNode
  BY <1>2 DEF IsFirstEmpty, Recorded
<1>6. slots'[i] = [owner |-> n, status |-> "Running"]
      /\ \A j \in Slots : j # i => slots'[j] = slots[j]
  BY <1>2 DEF TypeOK
<1>7. \A j \in Slots : slots[j].owner # NoNode => slots'[j].owner = slots[j].owner
  BY <1>5, <1>6
<1>8. ASSUME NEW m \in Nodes, Taken(m, U) PROVE Taken(m, U)'
  BY <1>3, <1>7, <1>8, NodesAssumption DEF Taken, Fresh
<1>9. Taken(n, U)'
  BY <1>6 DEF Taken, Fresh
<1>10. /\ \A x \in Holders \cup scan : x.node \in Nodes /\ x.slot \in Slots
       /\ \A p \in procs \cup strays : p[1] \in Nodes
       /\ \A m \in killed : m \in Nodes
  BY DEF TypeOK, Holders, Handle, Spawn, Kill, Restart, Process
<1>11. \A x \in (Holders \cup scan)' :
         x \in Holders \cup scan \/ (x.node = n /\ x.slot = i)
  BY <1>2, <1>4 DEF Holders
<1>12. \A x \in (Holders \cup scan)' :
         Taken(x.node, U)' /\ slots'[x.slot].status # "Empty"
  <2> SUFFICES ASSUME NEW x \in (Holders \cup scan)'
               PROVE  Taken(x.node, U)' /\ slots'[x.slot].status # "Empty"
    OBVIOUS
  <2>1. CASE x \in Holders \cup scan
    <3>1. Taken(x.node, U) /\ slots[x.slot].status # "Empty"
      BY <2>1 DEF Recorded
    <3>2. QED
      BY <1>5, <1>6, <1>8, <1>10, <2>1, <3>1
  <2>2. CASE x.node = n /\ x.slot = i
    BY <1>6, <1>9, <2>2
  <2>3. QED
    BY <1>11, <2>1, <2>2
<1>13. \A j \in Slots : slots'[j].status = "Empty" => slots'[j].owner = NoNode
  BY <1>6 DEF Recorded
<1>14. /\ \A p \in (procs \cup strays)' : Taken(p[1], U)'
       /\ \A m \in killed' : Taken(m, U)'
  BY <1>4, <1>8, <1>10 DEF Recorded
<1>15. QED
  BY <1>3, <1>7, <1>12, <1>13, <1>14 DEF Recorded

LEMMA RecordedStep ==
  ASSUME NEW U, TypeOK, Recorded(U), [Next]_vars,
         U # {} => Full
  PROVE  Recorded(U)'
  BY TypeStep, StepFollows, FollowsRecorded, AllocatesRecorded

\* No slot is ever given back, so an id that is in use does not become fresh.
LEMMA FreshOnlyBefore ==
  ASSUME NEW U, TypeOK, Recorded(U), [Next]_vars,
         U # {} => Full,
         NEW n \in Nodes, Fresh(n)'
  PROVE  Fresh(n)
<1>1. CASE Follows
  BY <1>1 DEF Follows, Fresh
<1>2. CASE Allocates
  BY <1>2, TypeStep, AllocatesRecorded, NodesAssumption DEF Fresh
<1>3. QED
  BY <1>1, <1>2, StepFollows

\* A registry without an Empty slot stays so.
LEMMA FullStaysFull ==
  ASSUME TypeOK, [Next]_vars, Full
  PROVE  Full'
<1>1. CASE Follows
  BY <1>1 DEF Follows, Full
<1>2. CASE Allocates
  BY <1>2 DEF Allocates, AllocNode, IsFirstEmpty, Full
<1>3. QED
  BY <1>1, <1>2, StepFollows

\* A task for a node id nobody holds can be added to a set of tasks.
LEMMA ElementAdded ==
  ASSUME NEW T, NEW y, Distinct(T), \A x \in T : x.node # y.node
  PROVE  /\ Distinct(T \cup {y})
         /\ \A W : (\A x \in W : x.node # y.node) =>
              /\ Apart(T, W) => Apart(T \cup {y}, W)
              /\ Apart(W, T) => Apart(W, T \cup {y})
  BY DEF Distinct, Apart

\* Handing a node id from one set of tasks to another (the handle remove
\* returns, say) leaves it with one holder.
LEMMA ElementMoved ==
  ASSUME NEW S, NEW T, NEW x \in S, NEW y, y.node = x.node,
         Distinct(S), Distinct(T), Apart(S, T) \/ Apart(T, S)
  PROVE  /\ Distinct(S \ {x}) /\ Distinct(T \cup {y})
         /\ Apart(S \ {x}, T \cup {y}) /\ Apart(T \cup {y}, S \ {x})
         /\ \A W : Apart(S, W) \/ Apart(W, S) =>
              /\ Apart(S \ {x}, W) /\ Apart(W, S \ {x})
              /\ Apart(T, W) \/ Apart(W, T) =>
                   Apart(T \cup {y}, W) /\ Apart(W, T \cup {y})
  BY DEF Distinct, Apart

\* A task that goes on to its next stage still holds the same node id.
LEMMA ElementReplaced ==
  ASSUME NEW S, NEW x \in S, NEW y, y.node = x.node, Distinct(S)
  PROVE  /\ Distinct((S \ {x}) \cup {y})
         /\ \A W : Apart(S, W) \/ Apart(W, S) =>
              /\ Apart((S \ {x}) \cup {y}, W)
              /\ Apart(W, (S \ {x}) \cup {y})
  BY DEF Distinct, Apart

---------------------------------------------------------------------------
(* Every step keeps the invariant.                                         *)

\* Steps that touch neither tables nor tasks (a client connecting, a kill of an
\* unknown id) keep it.
LEMMA UnchangedKeeps ==
  ASSUME NEW U, TaskInv(U), TypeOK', Recorded(U)',
         UNCHANGED <<slots, nodes, labels, procs, strays, spawns, kills,
                     restarts, scan, killed>>
  PROVE  TaskInv(U)'
  BY DEF TaskInv, OneHolder, Distinct, Apart, NoLostProcess, Reachable, Proc,
         ScanIsCurrent, ScanApart, KilledStaysDead, LabelsInTable,
         StraysUnheld, Holders, InTable

\* A spawn of an id that has left no trace, whatever its slot, disturbs no
\* other task.
LEMMA DrawKeeps ==
  ASSUME NEW U, TaskInv(U), TypeOK', NEW W, Recorded(W)', NEW o,
         spawns' = spawns \cup {o}, o.node \in Nodes, ~Taken(o.node, U),
         UNCHANGED <<nodes, labels, procs, strays, kills, restarts, scan,
                     killed>>
  PROVE  TaskInv(W)'
<1> USE DEF TaskInv
<1>1. \A x \in Holders \cup scan : x.node # o.node
  BY DEF Recorded
<1>2. OneHolder'
  <2>1. \A x \in spawns \cup nodes \cup kills \cup restarts : x.node # o.node
    BY <1>1 DEF Holders
  <2>2. QED
    BY <2>1, ElementAdded DEF OneHolder
<1>3. NoLostProcess'
  BY DEF NoLostProcess, Reachable
<1>4. ScanIsCurrent' /\ LabelsInTable'
  BY DEF ScanIsCurrent, LabelsInTable, InTable
<1>5. ScanApart'
  BY <1>1 DEF ScanApart, Distinct, Apart
<1>6. \A x \in Holders' : x \in Holders \/ x.node = o.node
  BY DEF Holders
<1>7. KilledStaysDead'
  <2>1. o.node \notin killed
    BY DEF Recorded
  <2>2. QED
    BY <1>6, <2>1 DEF KilledStaysDead
<1>8. StraysUnheld'
  <2>1. \A p \in strays : p[1] # o.node
    BY DEF Recorded
  <2>2. QED
    BY <1>6, <2>1 DEF StraysUnheld
<1>9. QED
  BY <1>2, <1>3, <1>4, <1>5, <1>7, <1>8 DEF TaskInv

\* Registry::alloc_node draws such an id: it is in no slot, and while the
\* registry has an Empty slot every id has one of its own.
LEMMA AllocKeeps ==
  ASSUME NEW U, TaskInv(U), TypeOK', Recorded(U)', U # {} => Full,
         NEW a \in Actors, NEW n \in Nodes,
         NEW svc \in Services \cup {NoService}, NEW auto \in BOOLEAN,
         AllocNode(a, n, svc, auto)
  PROVE  TaskInv(U)'
<1>1. PICK i \in Slots :
        /\ IsFirstEmpty(i)
        /\ spawns' = spawns \cup {[node |-> n, slot |-> i, svc |-> svc,
                                   by |-> a, auto |-> auto,
                                   started |-> FALSE]}
  BY DEF AllocNode
<1>2. U = {}
  BY <1>1 DEF IsFirstEmpty, Full
<1>3. ~Taken(n, U)
  BY <1>2 DEF Taken, AllocNode
<1> DEFINE o == [node |-> n, slot |-> i, svc |-> svc, by |-> a,
                 auto |-> auto, started |-> FALSE]
<1>4. o.node = n /\ spawns' = spawns \cup {o}
  BY <1>1
<1> HIDE DEF o
<1>5. QED
  BY <1>3, <1>4, DrawKeeps DEF AllocNode

\* Taking a handle out of the table to kill it loses no process: the kill under
\* way holds what the table held.
LEMMA StartKillLosesNone ==
  ASSUME NoLostProcess, NEW a, NEW h \in nodes, NEW c, StartKill(a, h, c),
         UNCHANGED <<procs, strays, spawns, restarts>>
  PROVE  NoLostProcess'
<1>1. SUFFICES ASSUME NEW p \in procs, p \notin strays
               PROVE  Reachable(p)'
  BY DEF NoLostProcess
<1>2. Reachable(p)
  BY <1>1 DEF NoLostProcess
<1>3. CASE Proc(h) = p
  <2>1. [node |-> h.node, slot |-> h.slot, inc |-> h.inc, by |-> a,
         cleanup |-> c] \in kills'
    BY DEF StartKill
  <2>2. QED
    BY <1>3, <2>1 DEF Reachable, Proc
<1>4. CASE Proc(h) # p
  BY <1>2, <1>4 DEF StartKill, RemoveNode, Reachable
<1>5. QED
  BY <1>3, <1>4

\* A handle taken out of the table belongs to the kill under way and to no
\* other task.
LEMMA StartKillKeepsOneHolder ==
  ASSUME OneHolder, NEW a, NEW h \in nodes, NEW c, StartKill(a, h, c),
         UNCHANGED <<spawns, restarts>>
  PROVE  OneHolder'
<1> DEFINE k == [node |-> h.node, slot |-> h.slot, inc |-> h.inc, by |-> a,
                 cleanup |-> c]
<1>1. k.node = h.node
  OBVIOUS
<1>2. nodes' = nodes \ {h} /\ kills' = kills \cup {k}
  BY DEF StartKill, RemoveNode
<1> HIDE DEF k
<1>3. QED
  BY <1>1, <1>2, ElementMoved DEF OneHolder

\* A process that no task holds is a stray of a node nobody holds, and a
\* process that is held names its node's one holder: two of one node are the
\* same.
LEMMA OneProcess == ASSUME NEW U, TaskInv(U) PROVE OneProcessPerNode
<1> SUFFICES ASSUME NEW p \in procs, NEW q \in procs, p[1] = q[1]
             PROVE  p = q
  BY DEF OneProcessPerNode
<1> USE DEF TaskInv
<1>1. CASE p \in strays \/ q \in strays
  <2>1. \A r \in procs : r[1] = p[1] => ~Reachable(r)
    BY <1>1 DEF StraysUnheld, Reachable, Holders, Proc
  <2>2. p \in strays /\ q \in strays
    BY <2>1 DEF NoLostProcess
  <2>3. QED
    BY <2>2 DEF StraysUnheld
<1>2. CASE p \notin strays /\ q \notin strays
  <2>1. Reachable(p) /\ Reachable(q)
    BY <1>2 DEF NoLostProcess
  <2>2. QED
    BY <2>1 DEF Reachable, Proc, OneHolder, Distinct, Apart
<1>3. QED
  BY <1>1, <1>2

\* Whatever sessions, portal, reconciler, health loop, restart tasks, exits
\* and restarts of the daemon do, and whatever ids share slots.
LEMMA TaskStep ==
  ASSUME NEW U, TaskInv(U), [Next]_vars,
         U # {} => Full
  PROVE  TaskInv(U)'
<1>0. Recorded(U)'
  BY RecordedStep DEF TaskInv
<1> USE DEF TaskInv
<1>1. TypeOK'
  BY TypeStep
<1>2. ASSUME NEW o \in spawns, SpawnProcess(o)
      PROVE  TaskInv(U)'
  <2>1. OneHolder'
    <3> DEFINE x == [o EXCEPT !.started = TRUE]
    <3>1. x.node = o.node
      BY DEF TypeOK, Spawn
    <3>2. spawns' = (spawns \ {o}) \cup {x}
      BY <1>2 DEF SpawnProcess
    <3> HIDE DEF x
    <3>3. /\ Distinct(spawns')
          /\ \A W : Apart(spawns, W) \/ Apart(W, spawns) =>
               Apart(spawns', W) /\ Apart(W, spawns')
      BY <3>1, <3>2, ElementReplaced DEF OneHolder
    <3>4. QED
      BY <1>2, <3>3 DEF SpawnProcess, OneHolder
  <2>2. NoLostProcess'
    <3>1. SUFFICES ASSUME NEW p \in procs', p \notin strays
                   PROVE  Reachable(p)'
      BY <1>2 DEF SpawnProcess, NoLostProcess
    <3>2. CASE p = <<o.node, 0>>
      <4>1. [o EXCEPT !.started = TRUE] \in spawns'
        BY <1>2 DEF SpawnProcess
      <4>2. o \in Spawn
        BY DEF TypeOK
      <4>3. QED
        BY <3>2, <4>1, <4>2 DEF Reachable, Spawn
    <3>3. CASE p # <<o.node, 0>>
      BY <1>2, <3>1, <3>3 DEF SpawnProcess, Reachable, NoLostProcess
    <3>4. QED
      BY <3>2, <3>3
  <2>3. ScanApart'
    BY <1>2 DEF SpawnProcess, ScanApart, Apart, TypeOK, Spawn
  <2>4. KilledStaysDead'
    BY <1>2 DEF SpawnProcess, KilledStaysDead, Holders, TypeOK, Spawn
  <2>5. StraysUnheld'
    BY <1>2 DEF SpawnProcess, StraysUnheld, Holders, TypeOK, Spawn
  <2>6. ScanIsCurrent'
    BY <1>2 DEF SpawnProcess, ScanIsCurrent
  <2>7. LabelsInTable'
    <3> DEFINE x == [o EXCEPT !.started = TRUE]
    <3>1. x.node = o.node /\ x.started
      BY DEF TypeOK, Spawn
    <3>2. x \in spawns' /\ \A y \in spawns : y # o => y \in spawns'
      BY <1>2 DEF SpawnProcess
    <3> HIDE DEF x
    <3>3. ~o.started /\ nodes' = nodes
      BY <1>2 DEF SpawnProcess
    <3>4. ASSUME NEW n \in Nodes, labels'[n] # NoService
          PROVE  n = o.node \/ labels[n] # NoService
      BY <1>2, <3>4 DEF SpawnProcess, TypeOK
    <3>5. QED
      BY <3>1, <3>2, <3>3, <3>4 DEF LabelsInTable, InTable
  <2>8. QED
    BY <1>1, <1>0, <2>1, <2>2, <2>3, <2>4, <2>5, <2>6, <2>7 DEF TaskInv
<1>3. ASSUME NEW o \in spawns, SpawnFails(o)
      PROVE  TaskInv(U)'
  <2>1. OneHolder'
    BY <1>3 DEF SpawnFails, OneHolder, Distinct, Apart
  <2>2. NoLostProcess'
    BY <1>3 DEF SpawnFails, NoLostProcess, Reachable, Proc
  <2>3. ScanApart'
    BY <1>3 DEF SpawnFails, ScanApart, Distinct, Apart
  <2>4. KilledStaysDead'
    BY <1>3 DEF SpawnFails, KilledStaysDead, Holders
  <2>5. StraysUnheld'
    BY <1>3 DEF SpawnFails, StraysUnheld, Holders, OneHolder, Distinct,
      Apart
  <2>6. ScanIsCurrent' /\ LabelsInTable'
    BY <1>3 DEF SpawnFails,
      ScanIsCurrent, LabelsInTable, InTable
  <2>7. QED
    BY <1>1, <1>0, <2>1, <2>2, <2>3, <2>4, <2>5, <2>6 DEF TaskInv
<1>4. ASSUME NEW o \in spawns, InsertSpawned(o)
      PROVE  TaskInv(U)'
  <2>1. OneHolder'
    BY <1>4 DEF InsertSpawned, Inserted, OneHolder, Distinct, Apart
  <2>2. NoLostProcess'
    <3>1. SUFFICES ASSUME NEW p \in procs, p \notin strays
                   PROVE  Reachable(p)'
      BY <1>4 DEF InsertSpawned, NoLostProcess
    <3>2. Reachable(p)
      BY <3>1 DEF NoLostProcess
    <3>3. CASE p = <<o.node, 0>>
      <4>1. [node |-> o.node, slot |-> o.slot, inc |-> 0, svc |-> o.svc]
              \in nodes'
        BY <1>4 DEF InsertSpawned, Inserted
      <4>2. QED
        BY <3>3, <4>1 DEF Reachable, Proc
    <3>4. CASE p # <<o.node, 0>>
      BY <1>4, <3>2, <3>4
      DEF InsertSpawned, Inserted, Reachable, Proc, OneHolder, Apart
    <3>5. QED
      BY <3>3, <3>4
  <2>3. ScanIsCurrent'
    BY <1>4 DEF InsertSpawned, Inserted, ScanIsCurrent, Apart, ScanApart
  <2>4. ScanApart'
    BY <1>4 DEF InsertSpawned, Inserted, ScanApart, Distinct, Apart
  <2>5. KilledStaysDead'
    BY <1>4 DEF InsertSpawned, Inserted, KilledStaysDead, Holders
  <2>6. LabelsInTable'
    <3>1. [node |-> o.node, slot |-> o.slot, inc |-> 0, svc |-> o.svc]
            \in nodes'
      BY <1>4 DEF InsertSpawned, Inserted
    <3>2. QED
      BY <1>4, <3>1
      DEF InsertSpawned, Inserted, LabelsInTable, InTable, TypeOK
  <2>7. StraysUnheld'
    BY <1>4 DEF InsertSpawned, Inserted, StraysUnheld, Holders
  <2>8. QED
    BY <1>1, <1>0, <2>1, <2>2, <2>3, <2>4, <2>5, <2>6, <2>7 DEF TaskInv
<1>5. ASSUME NEW s \in Sessions, NEW h \in nodes, SessionKill(s, h)
      PROVE  TaskInv(U)'
  <2>1. OneHolder'
    BY <1>5, StartKillKeepsOneHolder DEF SessionKill
  <2>2. NoLostProcess'
    BY <1>5, StartKillLosesNone DEF SessionKill
  <2>3. ScanIsCurrent'
    BY <1>5 DEF SessionKill, StartKill, RemoveNode, ScanIsCurrent
  <2>4. KilledStaysDead'
    BY <1>5 DEF SessionKill, StartKill, RemoveNode, KilledStaysDead, Holders
  <2>5. LabelsInTable'
    BY <1>5 DEF SessionKill, StartKill, RemoveNode, LabelsInTable, InTable,
        TypeOK
  <2>6. StraysUnheld'
    BY <1>5 DEF SessionKill, StartKill, RemoveNode, StraysUnheld, Holders
  <2>7. ScanApart'
    BY <1>5 DEF SessionKill,
      ScanApart, Apart, Distinct, Fresh
  <2>8. QED
    BY <1>1, <1>0, <2>1, <2>2, <2>3, <2>4, <2>5, <2>6, <2>7 DEF TaskInv
<1>6. ASSUME NEW s \in Sessions, NEW n \in Nodes, SessionKillNotFound(s, n)
      PROVE  TaskInv(U)'
  BY <1>0, <1>1, <1>6, UnchangedKeeps DEF SessionKillNotFound
<1>7. ASSUME NEW h \in nodes, ReconcilerKill(h)
      PROVE  TaskInv(U)'
  <2>1. OneHolder'
    BY <1>7, StartKillKeepsOneHolder DEF ReconcilerKill
  <2>2. NoLostProcess'
    BY <1>7, StartKillLosesNone DEF ReconcilerKill
  <2>3. ScanIsCurrent'
    BY <1>7 DEF ReconcilerKill, StartKill, RemoveNode, ScanIsCurrent
  <2>4. KilledStaysDead'
    BY <1>7 DEF ReconcilerKill, StartKill, RemoveNode, KilledStaysDead,
      Holders
  <2>5. LabelsInTable'
    BY <1>7 DEF ReconcilerKill, StartKill, RemoveNode, LabelsInTable,
        InTable, TypeOK
  <2>6. StraysUnheld'
    BY <1>7 DEF ReconcilerKill, StartKill, RemoveNode, StraysUnheld, Holders
  <2>7. ScanApart'
    BY <1>7 DEF ReconcilerKill,
      ScanApart, Apart, Distinct, Fresh
  <2>8. QED
    BY <1>1, <1>0, <2>1, <2>2, <2>3, <2>4, <2>5, <2>6, <2>7 DEF TaskInv
<1>8. ASSUME NEW k \in kills, FinishKill(k)
      PROVE  TaskInv(U)'
  <2>1. OneHolder'
    BY <1>8 DEF FinishKill, Stopped, OneHolder, Distinct, Apart
  <2>2. NoLostProcess'
    BY <1>8 DEF FinishKill, Stopped, NoLostProcess, Reachable, Proc
  <2>3. KilledStaysDead'
    <3>1. \A p \in procs : p[1] = k.node => p = Proc(k)
      <4>1. SUFFICES ASSUME NEW p \in procs, p[1] = k.node
                     PROVE  p = Proc(k)
        OBVIOUS
      <4>2. Reachable(p)
        BY <4>1 DEF NoLostProcess, StraysUnheld, Holders
      <4>3. QED
        BY <4>1, <4>2 DEF Reachable, OneHolder, Distinct, Apart, Proc
    <3>2. \A x \in Holders' : x.node # k.node
      BY <1>8 DEF FinishKill, OneHolder, Distinct, Apart, Holders
    <3>3. /\ Holders' \subseteq Holders
          /\ procs' \subseteq procs /\ strays \subseteq strays'
      BY <1>8 DEF FinishKill, Holders
    <3>4. \A p \in procs' : p[1] = k.node => ~OnWindows /\ p \in strays'
      BY <1>8, <3>1 DEF FinishKill
    <3>5. killed' \subseteq killed \cup {k.node}
      BY <1>8 DEF FinishKill
    <3>6. QED
      BY <3>2, <3>3, <3>4, <3>5 DEF KilledStaysDead
  <2>4. StraysUnheld'
    <3>1. k.node = Proc(k)[1] /\ \A p \in strays : p[1] # k.node
      BY DEF StraysUnheld, Holders, Proc
    <3>2. \A x \in Holders' : x \in Holders /\ x.node # k.node
      BY <1>8 DEF FinishKill, OneHolder, Distinct, Apart, Holders
    <3>3. strays' \subseteq strays \cup {Proc(k)}
      BY <1>8 DEF FinishKill
    <3>4. QED
      BY <3>1, <3>2, <3>3 DEF StraysUnheld
  <2>5. ScanIsCurrent' /\ ScanApart' /\ LabelsInTable'
    BY <1>8 DEF
      FinishKill, ScanIsCurrent, ScanApart, LabelsInTable, Apart, Distinct,
      InTable
  <2>6. QED
    BY <1>1, <1>0, <2>1, <2>2, <2>3, <2>4, <2>5 DEF TaskInv
<1>9. ASSUME NEW k \in kills, FinishKillFails(k)
      PROVE  TaskInv(U)'
  <2>1. OneHolder'
    BY <1>9 DEF FinishKillFails, OneHolder, Distinct, Apart
  <2>2. NoLostProcess'
    BY <1>9 DEF FinishKillFails, NoLostProcess, Reachable, Proc
  <2>3. KilledStaysDead'
    BY <1>9 DEF FinishKillFails, KilledStaysDead, Holders
  <2>4. StraysUnheld'
    BY <1>9 DEF FinishKillFails, StraysUnheld, Holders
  <2>5. ScanIsCurrent' /\ ScanApart' /\ LabelsInTable'
    BY <1>9 DEF
      FinishKillFails, ScanIsCurrent, ScanApart, LabelsInTable, Apart,
      Distinct, InTable
  <2>6. QED
    BY <1>1, <1>0, <2>1, <2>2, <2>3, <2>4, <2>5 DEF TaskInv
<1>10. ASSUME NEW s \in Sessions, Connect(s)
      PROVE  TaskInv(U)'
  BY <1>0, <1>1, <1>10, UnchangedKeeps DEF Connect
<1>11. ASSUME NEW s \in Sessions, Disconnect(s)
      PROVE  TaskInv(U)'
  BY <1>0, <1>1, <1>11, UnchangedKeeps DEF Disconnect
<1>12. ASSUME NEW s \in Sessions, NEW n \in Nodes, CleanupNode(s, n)
      PROVE  TaskInv(U)'
  <2>1. OneHolder'
    <3>1. CASE UNCHANGED <<nodes, labels, kills>>
      BY <1>12, <3>1 DEF CleanupNode, OneHolder
    <3>2. CASE \E h \in nodes : StartKill(s, h, TRUE)
      BY <1>12, <3>2, StartKillKeepsOneHolder DEF CleanupNode
    <3>3. QED
      BY <1>12, <3>1, <3>2 DEF CleanupNode
  <2>2. NoLostProcess'
    <3>1. CASE UNCHANGED <<nodes, labels, kills>>
      BY <1>12, <3>1 DEF CleanupNode, NoLostProcess, Reachable
    <3>2. CASE \E h \in nodes : StartKill(s, h, TRUE)
      BY <1>12, <3>2, StartKillLosesNone DEF CleanupNode
    <3>3. QED
      BY <1>12, <3>1, <3>2 DEF CleanupNode
  <2>3. ScanIsCurrent'
    BY <1>12 DEF CleanupNode, StartKill, RemoveNode, ScanIsCurrent
  <2>4. KilledStaysDead'
    BY <1>12 DEF CleanupNode, StartKill, RemoveNode, KilledStaysDead,
      Holders
  <2>5. LabelsInTable'
    BY <1>12 DEF CleanupNode, StartKill, RemoveNode, LabelsInTable, InTable,
        TypeOK
  <2>6. StraysUnheld'
    BY <1>12 DEF CleanupNode, StartKill, RemoveNode, StraysUnheld, Holders
  <2>7. ScanApart'
    BY <1>12 DEF CleanupNode,
      ScanApart, Apart, Distinct, Fresh
  <2>8. QED
    BY <1>1, <1>0, <2>1, <2>2, <2>3, <2>4, <2>5, <2>6, <2>7 DEF TaskInv
<1>13. ASSUME NEW s \in Sessions, CleanupDone(s)
      PROVE  TaskInv(U)'
  BY <1>0, <1>1, <1>13, UnchangedKeeps DEF CleanupDone
<1>14. CASE ScanBegin
  <2>1. ScanIsCurrent'
    BY <1>14 DEF ScanBegin, ScanIsCurrent, OneHolder, Distinct, Apart
  <2>2. ScanApart'
    BY <1>14 DEF ScanBegin, ScanApart, Distinct, Apart, OneHolder
  <2>3. /\ OneHolder' /\ NoLostProcess' /\ KilledStaysDead'
        /\ LabelsInTable' /\ StraysUnheld'
    BY <1>14 DEF ScanBegin, OneHolder, NoLostProcess, KilledStaysDead,
        LabelsInTable, StraysUnheld, Fresh, Holders,
        InTable, Reachable
  <2>4. QED
    BY <1>1, <1>0, <2>1, <2>2, <2>3 DEF TaskInv
<1>15. ASSUME NEW e \in scan, ScanSkip(e)
      PROVE  TaskInv(U)'
  <2>1. ScanIsCurrent'
    BY <1>15 DEF ScanSkip, ScanIsCurrent
  <2>2. ScanApart'
    BY <1>15 DEF ScanSkip, ScanApart, Distinct, Apart
  <2>3. /\ OneHolder' /\ NoLostProcess' /\ KilledStaysDead'
        /\ LabelsInTable' /\ StraysUnheld'
    BY <1>15 DEF ScanSkip, OneHolder, NoLostProcess, KilledStaysDead,
        LabelsInTable, StraysUnheld, Fresh, Holders,
        InTable, Reachable
  <2>4. QED
    BY <1>1, <1>0, <2>1, <2>2, <2>3 DEF TaskInv
<1>16. ASSUME NEW e \in scan, ScanExited(e)
      PROVE  TaskInv(U)'
  <2>1. OneHolder'
    <3>1. CASE UNCHANGED <<nodes, labels, restarts>>
      BY <1>16, <3>1 DEF ScanExited, OneHolder
    <3>2. ASSUME NEW h \in nodes, RemoveNode(h)
          PROVE  Distinct(nodes') /\ Apart(spawns, nodes') /\ Apart(nodes', kills)
                 /\ Apart(nodes', restarts)
      BY <3>2 DEF RemoveNode, OneHolder, Distinct, Apart
    <3>3. ASSUME NEW h \in nodes, RemoveNode(h), NEW r, r.node = h.node,
                 restarts' = restarts \cup {r}
          PROVE  OneHolder'
      BY <1>16, <3>3, ElementMoved DEF ScanExited, RemoveNode, OneHolder
    <3>4. QED
      BY <1>16, <3>1, <3>2, <3>3 DEF ScanExited, OneHolder
  <2>2. NoLostProcess'
    <3>1. SUFFICES ASSUME NEW p \in procs, p \notin strays
                   PROVE  Reachable(p)'
      BY <1>16 DEF ScanExited, NoLostProcess
    <3>2. Reachable(p)
      BY <3>1 DEF NoLostProcess
    <3>3. CASE UNCHANGED <<nodes, labels, restarts>>
      BY <1>16, <3>2, <3>3 DEF ScanExited, Reachable
    <3>4. ASSUME NEW h \in nodes, h.node = e.node, RemoveNode(h),
                 restarts \subseteq restarts'
          PROVE  Reachable(p)'
      <4>1. h = e
        BY <3>4 DEF ScanIsCurrent
      <4>2. Proc(h) # p
        BY <1>16, <4>1 DEF ScanExited, Exited, Alive
      <4>3. QED
        BY <1>16, <3>2, <3>4, <4>2 DEF ScanExited, RemoveNode, Reachable
    <3>5. QED
      BY <1>16, <3>3, <3>4 DEF ScanExited
  <2>3. ScanIsCurrent'
    BY <1>16 DEF ScanExited, Stopped, RemoveNode, Exited, Alive, ScanIsCurrent
  <2>4. ScanApart'
    BY <1>16 DEF ScanExited, Stopped, RemoveNode, Exited, Alive, ScanApart,
      Distinct, Apart
  <2>5. KilledStaysDead'
    BY <1>16 DEF ScanExited, Stopped, RemoveNode, Exited, Alive, KilledStaysDead,
      Holders
  <2>6. LabelsInTable'
    BY <1>16 DEF ScanExited, RemoveNode, LabelsInTable, InTable, TypeOK
  <2>7. StraysUnheld'
    BY <1>16 DEF ScanExited, Stopped, RemoveNode, Exited, Alive, StraysUnheld,
      Holders
  <2>8. QED
    BY <1>1, <1>0, <2>1, <2>2, <2>3, <2>4, <2>5, <2>6, <2>7 DEF TaskInv
<1>17. ASSUME NEW r \in restarts, RestartSpawn(r)
      PROVE  TaskInv(U)'
  <2>1. OneHolder'
    <3> DEFINE x == [r EXCEPT !.started = TRUE]
    <3>1. x.node = r.node
      BY DEF TypeOK, Restart
    <3>2. restarts' = (restarts \ {r}) \cup {x}
      BY <1>17 DEF RestartSpawn
    <3> HIDE DEF x
    <3>3. /\ Distinct(restarts')
          /\ \A W : Apart(restarts, W) \/ Apart(W, restarts) =>
               Apart(restarts', W) /\ Apart(W, restarts')
      BY <3>1, <3>2, ElementReplaced DEF OneHolder
    <3>4. QED
      BY <1>17, <3>3 DEF RestartSpawn, OneHolder
  <2>2. NoLostProcess'
    <3>1. SUFFICES ASSUME NEW p \in procs', p \notin strays
                   PROVE  Reachable(p)'
      BY <1>17 DEF RestartSpawn, NoLostProcess
    <3>2. CASE p = Proc(r)
      <4>1. [r EXCEPT !.started = TRUE] \in restarts'
        BY <1>17 DEF RestartSpawn
      <4>2. r \in Restart
        BY DEF TypeOK
      <4>3. QED
        BY <3>2, <4>1, <4>2 DEF Reachable, Restart, Proc
    <3>3. CASE p # Proc(r)
      BY <1>17, <3>1, <3>3 DEF RestartSpawn, Reachable, NoLostProcess, Proc
    <3>4. QED
      BY <3>2, <3>3
  <2>3. ScanApart'
    BY <1>17 DEF RestartSpawn, ScanApart, Apart, TypeOK, Restart
  <2>4. KilledStaysDead'
    BY <1>17 DEF RestartSpawn, KilledStaysDead, Holders, Proc, TypeOK,
        Restart
  <2>5. StraysUnheld'
    BY <1>17 DEF RestartSpawn, StraysUnheld, Holders, TypeOK, Restart
  <2>6. ScanIsCurrent' /\ LabelsInTable'
    BY <1>17 DEF RestartSpawn,
      ScanIsCurrent, LabelsInTable, InTable
  <2>7. QED
    BY <1>1, <1>0, <2>1, <2>2, <2>3, <2>4, <2>5, <2>6 DEF TaskInv
<1>18. ASSUME NEW r \in restarts, RestartFails(r)
      PROVE  TaskInv(U)'
  <2>1. OneHolder'
    BY <1>18 DEF RestartFails, OneHolder, Distinct, Apart
  <2>2. NoLostProcess'
    BY <1>18 DEF RestartFails, NoLostProcess, Reachable, Proc
  <2>3. ScanApart'
    BY <1>18 DEF RestartFails, ScanApart, Distinct, Apart
  <2>4. KilledStaysDead'
    BY <1>18 DEF RestartFails, KilledStaysDead, Holders, Proc
  <2>5. StraysUnheld'
    BY <1>18 DEF RestartFails, StraysUnheld, Holders, OneHolder, Distinct,
        Apart, Proc
  <2>6. ScanIsCurrent' /\ LabelsInTable'
    BY <1>18 DEF RestartFails,
      ScanIsCurrent, LabelsInTable, InTable
  <2>7. QED
    BY <1>1, <1>0, <2>1, <2>2, <2>3, <2>4, <2>5, <2>6 DEF TaskInv
<1>19. ASSUME NEW r \in restarts, RestartInsert(r)
      PROVE  TaskInv(U)'
  <2>1. OneHolder'
    BY <1>19 DEF RestartInsert, Inserted, OneHolder, Distinct, Apart
  <2>2. NoLostProcess'
    <3>1. SUFFICES ASSUME NEW p \in procs, p \notin strays
                   PROVE  Reachable(p)'
      BY <1>19 DEF RestartInsert, NoLostProcess
    <3>2. Reachable(p)
      BY <3>1 DEF NoLostProcess
    <3>3. CASE p = Proc(r)
      <4>1. [node |-> r.node, slot |-> r.slot, inc |-> r.inc, svc |-> r.svc]
              \in nodes'
        BY <1>19 DEF RestartInsert, Inserted
      <4>2. QED
        BY <3>3, <4>1 DEF Reachable, Proc
    <3>4. CASE p # Proc(r)
      BY <1>19, <3>2, <3>4
      DEF RestartInsert, Inserted, Reachable, Proc, OneHolder, Apart
    <3>5. QED
      BY <3>3, <3>4
  <2>3. ScanIsCurrent'
    BY <1>19 DEF RestartInsert, Inserted, ScanIsCurrent, Apart, ScanApart
  <2>4. ScanApart'
    BY <1>19 DEF RestartInsert, Inserted, ScanApart, Distinct, Apart
  <2>5. KilledStaysDead'
    BY <1>19 DEF RestartInsert, Inserted, KilledStaysDead, Holders
  <2>6. LabelsInTable'
    BY <1>19 DEF RestartInsert, Inserted, LabelsInTable, InTable
  <2>7. StraysUnheld'
    BY <1>19 DEF RestartInsert, Inserted, StraysUnheld, Holders
  <2>8. QED
    BY <1>1, <1>0, <2>1, <2>2, <2>3, <2>4, <2>5, <2>6, <2>7 DEF TaskInv
<1>20. ASSUME NEW p \in procs, ProcessExits(p)
      PROVE  TaskInv(U)'
  <2>1. NoLostProcess'
    BY <1>20 DEF ProcessExits, NoLostProcess, Reachable, Proc
  <2>2. KilledStaysDead'
    BY <1>20 DEF ProcessExits, KilledStaysDead, Holders
  <2>3. /\ OneHolder' /\ ScanIsCurrent' /\ ScanApart'
        /\ LabelsInTable' /\ StraysUnheld'
    BY <1>20 DEF ProcessExits, OneHolder, ScanIsCurrent,
        ScanApart, LabelsInTable, StraysUnheld, Holders, InTable
  <2>4. QED
    BY <1>1, <1>0, <2>1, <2>2, <2>3 DEF TaskInv
<1>21. CASE CoreRestarts
  <2>1. OneHolder'
    BY <1>21 DEF CoreRestarts, OneHolder, Distinct, Apart
  <2>2. NoLostProcess'
    BY <1>21 DEF CoreRestarts, NoLostProcess
  <2>3. ScanIsCurrent'
    BY <1>21 DEF CoreRestarts, ScanIsCurrent
  <2>4. ScanApart'
    BY <1>21 DEF CoreRestarts, ScanApart, Distinct, Apart
  <2>5. KilledStaysDead'
    <3>1. Holders' = {} /\ killed' = killed /\ strays \subseteq strays'
      BY <1>21 DEF CoreRestarts, Holders
    <3>2. procs' \subseteq procs
      BY <1>21 DEF CoreRestarts, Survivors
    <3>3. QED
      BY <3>1, <3>2 DEF KilledStaysDead
  <2>6. LabelsInTable'
    BY <1>21 DEF CoreRestarts, LabelsInTable, InTable
  <2>7. StraysUnheld'
    <3>1. Holders' = {}
      BY <1>21 DEF CoreRestarts, Holders
    <3>2. ASSUME NEW p \in procs, NEW q \in strays, p[1] = q[1]
          PROVE  p = q
      <4>1. ~Reachable(p)
        BY <3>2 DEF StraysUnheld, Reachable, Holders, Proc
      <4>2. QED
        BY <3>2, <4>1 DEF NoLostProcess, StraysUnheld
    <3>3. \A p, q \in procs : p[1] = q[1] => p = q
      BY OneProcess DEF OneProcessPerNode
    <3>4. \A p \in strays' : p \in strays \/ p \in procs
      BY <1>21 DEF CoreRestarts, Survivors
    <3>5. \A p, q \in strays' : p[1] = q[1] => p = q
      BY <3>2, <3>3, <3>4 DEF StraysUnheld
    <3>6. QED
      BY <3>1, <3>5 DEF StraysUnheld
  <2>8. QED
    BY <1>1, <1>0, <2>1, <2>2, <2>3, <2>4, <2>5, <2>6, <2>7 DEF TaskInv
<1>22. ASSUME NEW s \in Sessions, NEW n \in Nodes, NEW auto \in BOOLEAN,
              SessionSpawn(s, n, auto)
       PROVE  TaskInv(U)'
  BY <1>0, <1>1, <1>22, AllocKeeps DEF SessionSpawn, Actors
<1>23. ASSUME NEW n \in Nodes, NEW svc \in Services, ReconcilerSpawn(n, svc)
       PROVE  TaskInv(U)'
  BY <1>0, <1>1, <1>23, AllocKeeps DEF ReconcilerSpawn, Actors
<1>24. CASE UNCHANGED vars
  BY <1>0, <1>1, <1>24, UnchangedKeeps DEF vars
<1>25. ASSUME NEW w \in Portals, NEW n \in Nodes, PortalDeploy(w, n)
       PROVE  TaskInv(U)'
  BY <1>0, <1>1, <1>25, AllocKeeps DEF PortalDeploy, Actors
<1>26. QED
  BY <1>1, <1>2, <1>3, <1>4, <1>5, <1>6, <1>7, <1>8, <1>9, <1>10, <1>11,
     <1>12, <1>13, <1>14, <1>15, <1>16, <1>17, <1>18, <1>19, <1>20, <1>21,
     <1>22, <1>23, <1>24, <1>25
  DEF Next, SupervisionStep, SessionStep, ReconcilerStep, SpawnStep, KillStep,
      HealthStep, RestartStep


\* A slot that somebody can still write to does not change hands.
LEMMA SlotsStep ==
  ASSUME TaskInv({}), SlotsExclusive, [Next]_vars
  PROVE  SlotsExclusive'
<1>1. SlotsExclusive <=> \A x \in Holders \cup scan : slots[x.slot].owner = x.node
  BY DEF SlotsExclusive
<1>2. SlotsExclusive' <=>
        \A x \in (Holders \cup scan)' : slots'[x.slot].owner = x.node
  BY DEF SlotsExclusive
<1>3. /\ \A x \in Holders \cup scan : x.slot \in Slots /\ x.node \in Nodes
      /\ TypeOK'
  BY TypeStep DEF TaskInv, TypeOK, Holders, Handle, Spawn, Kill, Restart
<1>4. CASE Follows
  BY <1>1, <1>2, <1>3, <1>4 DEF Follows
<1>5. CASE Allocates
  <2>1. \A i \in Slots : slots[i].owner # NoNode =>
          slots'[i].owner = slots[i].owner
    BY <1>3, <1>5, AllocatesRecorded DEF TaskInv
  <2>2. \A x \in (Holders \cup scan)' :
          x \in Holders \cup scan \/ slots'[x.slot].owner = x.node
    BY <1>5 DEF Allocates, AllocNode, Holders, TaskInv, TypeOK
  <2>3. QED
    BY <1>1, <1>2, <1>3, <2>1, <2>2, NodesAssumption
<1>6. QED
  BY <1>4, <1>5, StepFollows DEF TaskInv

\* Every handler of every task keeps the inductive invariant.
LEMMA IInvStep == IInv /\ [Next]_vars => IInv'
<1> SUFFICES ASSUME IInv, [Next]_vars PROVE IInv'
  OBVIOUS
<1>1. TaskInv({}) /\ SlotsExclusive
  BY IInvParts
<1>2. TaskInv({})' /\ SlotsExclusive'
  BY <1>1, TaskStep, SlotsStep
<1>3. QED
  BY <1>2 DEF IInv, TaskInv, TracesRecorded, Recorded, Taken

\* The inductive invariant holds whatever the sessions, the reconciler, the
\* health loop, the restart tasks, exits and daemon restarts do.
THEOREM SupervisionInvariant == Spec => []IInv
<1>1. Init => IInv
  BY IInvInit
<1>2. IInv /\ [Next]_vars => IInv'
  BY IInvStep
<1>3. QED
  BY <1>1, <1>2, PTL DEF Spec

\* The properties of the runs, each for every instance.

\* A node id never has two live processes, whatever kills, scans, restarts,
\* failed spawns and daemon restarts overlap.
THEOREM NeverTwoProcesses == Spec => []OneProcessPerNode
<1>1. IInv => OneProcessPerNode
  BY OneProcess, IInvParts
<1>2. QED
  BY <1>1, SupervisionInvariant, PTL

\* A node a client was told is killed is never held again and has no process,
\* but on unix the stray its kill has missed.
THEOREM KilledForGood == Spec => []KilledStaysDead
<1>1. IInv => KilledStaysDead
  BY DEF IInv
<1>2. QED
  BY <1>1, SupervisionInvariant, PTL

\* Every live process is held by a task that will track it or terminate it,
\* but for those left without a handle: out of their job object on Windows,
\* missed by a kill or older than the Core on unix.
THEOREM NothingLost == Spec => []NoLostProcess
<1>1. IInv => NoLostProcess
  BY DEF IInv
<1>2. QED
  BY <1>1, SupervisionInvariant, PTL

\* Each node id is held by one task at most: spawning, table, kill or restart.
THEOREM OneAnswers == Spec => []OneHolder
<1>1. IInv => OneHolder
  BY DEF IInv
<1>2. QED
  BY <1>1, SupervisionInvariant, PTL

\* The health loop never takes a handle for another than the one it copied.
THEOREM ScansStayCurrent == Spec => []ScanIsCurrent
<1>1. IInv => ScanIsCurrent
  BY DEF IInv
<1>2. QED
  BY <1>1, SupervisionInvariant, PTL

\* A service label never outlives the node that bore it.
THEOREM LabelsFollowNodes == Spec => []LabelsInTable
<1>1. IInv => LabelsInTable
  BY DEF IInv
<1>2. QED
  BY <1>1, SupervisionInvariant, PTL

\* No late set_node_status ever marks the registry slot of another node.
THEOREM SlotsKeepTheirOwner == Spec => []SlotsExclusive
<1>1. IInv => SlotsExclusive
  BY DEF IInv
<1>2. QED
  BY <1>1, SupervisionInvariant, PTL

---------------------------------------------------------------------------
(* NodeSupervision implements NodeLifecycle.  LifeFacts says what the      *)
(* refinement mapping makes of each holder of an id, and HeldFacts what a  *)
(* live process says about its id's holder; both follow from the inductive *)
(* invariant.  Then every action is a step of NodeLifecycle or leaves its  *)
(* variables alone.                                                        *)

\* What the mapping makes of an id, by the one task that answers for it.
LifeFacts ==
  /\ \A o \in spawns : Life(o.node) = "spawning" /\ Attempt(o.node) = 0
  /\ \A h \in nodes : Life(h.node) = "tracked" /\ Attempt(h.node) = h.inc
  /\ \A k \in kills : Life(k.node) = "killing" /\ Attempt(k.node) = k.inc
  /\ \A r \in restarts :
       Life(r.node) = "restarting" /\ Attempt(r.node) = r.inc
  /\ \A n \in Nodes : (\A x \in Holders : x.node # n) =>
       /\ Life(n) = IF Fresh(n) THEN "new" ELSE "gone"
       /\ Attempt(n) = 0

\* As an id has one holder, the mapping is a function of that holder.
LEMMA LifeReads == IInv => LifeFacts
<1> SUFFICES ASSUME IInv PROVE LifeFacts
  OBVIOUS
<1> USE DEF IInv
<1>1. \A o \in spawns : Life(o.node) = "spawning" /\ Attempt(o.node) = 0
  BY DEF Life, Attempt, OneHolder, Apart
<1>2. \A x, y \in nodes \cup kills \cup restarts : x.node = y.node => x = y
  BY DEF OneHolder, Apart, Distinct
<1>3. ASSUME NEW x \in nodes \cup kills \cup restarts
      PROVE  Attempt(x.node) = x.inc
  <2> DEFINE y == CHOOSE z \in nodes \cup kills \cup restarts :
                    z.node = x.node
  <2>1. y \in nodes \cup kills \cup restarts /\ y.node = x.node
    OBVIOUS
  <2>2. y = x
    BY <1>2, <2>1
  <2>3. QED
    BY <2>2 DEF Attempt
<1>4. \A h \in nodes : Life(h.node) = "tracked"
  BY DEF Life, InTable, OneHolder, Apart
<1>5. \A k \in kills : Life(k.node) = "killing"
  BY DEF Life, InTable, OneHolder, Apart
<1>6. \A r \in restarts : Life(r.node) = "restarting"
  BY DEF Life, InTable, OneHolder, Apart
<1>7. ASSUME NEW n \in Nodes, \A x \in Holders : x.node # n
      PROVE  /\ Life(n) = IF Fresh(n) THEN "new" ELSE "gone"
             /\ Attempt(n) = 0
  BY <1>7 DEF Life, Attempt, InTable, Holders
<1>8. QED
  BY <1>1, <1>3, <1>4, <1>5, <1>6, <1>7 DEF LifeFacts

\* A live process of a held id is the one its holder knows.
HeldFacts ==
  \A p \in procs :
    /\ \A o \in spawns : o.node = p[1] => o.started /\ p = <<o.node, 0>>
    /\ \A h \in nodes \cup kills : h.node = p[1] => p = Proc(h)
    /\ \A r \in restarts : r.node = p[1] => r.started /\ p = Proc(r)

\* If a node has a live process and somebody answers for it, the process is
\* the one that task knows: no other process can bear the id.
LEMMA HolderHasProcess == IInv => HeldFacts
<1> SUFFICES ASSUME IInv, NEW p \in procs, NEW x \in Holders, x.node = p[1]
             PROVE  /\ x \in spawns => x.started /\ p = <<x.node, 0>>
                    /\ x \in nodes \cup kills => p = Proc(x)
                    /\ x \in restarts => x.started /\ p = Proc(x)
  BY DEF HeldFacts, Holders
<1>1. Reachable(p)
  BY DEF IInv, NoLostProcess, StraysUnheld
<1>2. QED
  BY <1>1 DEF IInv, Reachable, Holders, Proc, OneHolder, Distinct, Apart

\* Only id n moves: the other ids read the same before and after.
OthersStay(n) ==
  \A m \in Nodes \ {n} : Life(m)' = Life(m) /\ Attempt(m)' = Attempt(m)

\* The step Becomes of NodeLifecycle, in terms of the mapping.
LEMMA BecomesThat ==
  ASSUME NEW n \in Nodes, OthersStay(n)
  PROVE  Promised!Becomes(n, Life(n)', Attempt(n)')
  BY DEF OthersStay, Promised!Becomes

\* Holders of other ids are left alone, so those ids read the same.
LEMMA HoldersStay ==
  ASSUME LifeFacts, LifeFacts', TypeOK, NEW m \in Nodes,
         {o \in spawns : o.node = m}' = {o \in spawns : o.node = m},
         {h \in nodes : h.node = m}' = {h \in nodes : h.node = m},
         {k \in kills : k.node = m}' = {k \in kills : k.node = m},
         \A r \in restarts : r.node = m =>
           \E q \in restarts' : q.node = m /\ q.inc = r.inc,
         \A q \in restarts' : q.node = m => \E r \in restarts : r.node = m,
         Fresh(m)' = Fresh(m)
  PROVE  Life(m)' = Life(m) /\ Attempt(m)' = Attempt(m)
<1>1. CASE \E x \in Holders : x.node = m
  <2>1. PICK x \in Holders : x.node = m
    BY <1>1
  <2>2. CASE x \in spawns
    BY <2>1, <2>2 DEF LifeFacts
  <2>3. CASE x \in nodes
    BY <2>1, <2>3 DEF LifeFacts
  <2>4. CASE x \in kills
    BY <2>1, <2>4 DEF LifeFacts
  <2>5. CASE x \in restarts
    BY <2>1, <2>5 DEF LifeFacts
  <2>6. QED
    BY <2>2, <2>3, <2>4, <2>5 DEF Holders
<1>2. CASE \A x \in Holders : x.node # m
  <2>1. \A x \in Holders' : x.node # m
    BY <1>2 DEF Holders
  <2>2. QED
    BY <1>2, <2>1 DEF LifeFacts
<1>3. QED
  BY <1>1, <1>2

\* What an action makes of the ids other than n, in terms of the tables.
OnlyTouches(n) ==
  \A m \in Nodes \ {n} :
    /\ {o \in spawns : o.node = m}' = {o \in spawns : o.node = m}
    /\ {h \in nodes : h.node = m}' = {h \in nodes : h.node = m}
    /\ {k \in kills : k.node = m}' = {k \in kills : k.node = m}
    /\ {r \in restarts : r.node = m}' = {r \in restarts : r.node = m}
    /\ Fresh(m)' = Fresh(m)

\* A step that touches one node leaves the life of every other as it was.
LEMMA OthersRead ==
  ASSUME LifeFacts, LifeFacts', TypeOK, NEW n \in Nodes, OnlyTouches(n)
  PROVE  OthersStay(n)
<1> SUFFICES ASSUME NEW m \in Nodes \ {n}
             PROVE  Life(m)' = Life(m) /\ Attempt(m)' = Attempt(m)
  BY DEF OthersStay
<1>1. {r \in restarts : r.node = m}' = {r \in restarts : r.node = m}
  BY DEF OnlyTouches
<1>2. QED
  BY <1>1, HoldersStay DEF OnlyTouches

\* alloc_node: a fresh id is drawn.
LEMMA AllocDraws ==
  ASSUME IInv, LifeFacts, LifeFacts', NEW a \in Actors, NEW n \in Nodes,
         NEW svc \in Services \cup {NoService}, NEW auto \in BOOLEAN,
         AllocNode(a, n, svc, auto)
  PROVE  Promised!Draw(n)
<1>a. PICK i \in Slots :
        /\ IsFirstEmpty(i)
        /\ slots' = [slots EXCEPT ![i] = [owner |-> n, status |-> "Running"]]
        /\ spawns' = spawns \cup {[node |-> n, slot |-> i, svc |-> svc,
                                   by |-> a, auto |-> auto,
                                   started |-> FALSE]}
  BY DEF AllocNode
<1>b. slots[i].owner = NoNode
  BY <1>a DEF IInv, TracesRecorded, IsFirstEmpty
<1>c. \A m \in Nodes \ {n} : Fresh(m)' = Fresh(m)
  BY <1>a, <1>b, NodesAssumption DEF Fresh, IInv, TypeOK
<1>1. OnlyTouches(n)
  BY <1>a, <1>c DEF AllocNode, OnlyTouches
<1>2. \A x \in Holders : x.node # n
  BY DEF AllocNode, Fresh, IInv, SlotsExclusive, TypeOK, Holders, Handle,
         Spawn, Kill, Restart
<1>3. Life(n) = "new"
  BY <1>2 DEF LifeFacts, AllocNode
<1>4. Life(n)' = "spawning" /\ Attempt(n)' = 0
  <2> DEFINE o == [node |-> n, slot |-> i, svc |-> svc, by |-> a,
                   auto |-> auto, started |-> FALSE]
  <2>1. o \in spawns' /\ o.node = n
    BY <1>a
  <2>2. QED
    BY <2>1 DEF LifeFacts
<1>5. Promised!Becomes(n, "spawning", 0)
  BY <1>1, <1>4, OthersRead, BecomesThat DEF IInv
<1>6. UNCHANGED {p[1] : p \in procs}
  BY DEF AllocNode
<1>7. QED
  BY <1>3, <1>5, <1>6 DEF Promised!Draw

\* remove, on the way to terminate_node: a tracked id is taken out.
LEMMA StartKillTakesOut ==
  ASSUME IInv, LifeFacts, LifeFacts', NEW a \in Actors, NEW h \in nodes,
         NEW c \in BOOLEAN, StartKill(a, h, c),
         UNCHANGED <<slots, procs, spawns, restarts>>
  PROVE  Promised!TakeOut(h.node)
<1>0. h.node \in Nodes
  BY DEF IInv, TypeOK, Handle
<1>1. OnlyTouches(h.node)
  BY DEF StartKill, RemoveNode, OnlyTouches, Fresh
<1>2. Life(h.node) = "tracked" /\ Attempt(h.node) = h.inc
  BY DEF LifeFacts
<1>3. Life(h.node)' = "killing" /\ Attempt(h.node)' = h.inc
  <2> DEFINE k == [node |-> h.node, slot |-> h.slot, inc |-> h.inc,
                   by |-> a, cleanup |-> c]
  <2>1. k \in kills' /\ k.node = h.node /\ k.inc = h.inc
    BY DEF StartKill
  <2>2. QED
    BY <2>1 DEF LifeFacts
<1>4. Promised!Becomes(h.node, "killing", Attempt(h.node))
  BY <1>0, <1>1, <1>2, <1>3, OthersRead, BecomesThat DEF IInv
<1>5. QED
  BY <1>0, <1>2, <1>4 DEF Promised!TakeOut

\* terminate_node, whether it succeeds or fails: the process is gone.
LEMMA EndOfKillTerminates ==
  ASSUME IInv, LifeFacts, LifeFacts', HeldFacts, NEW k \in kills,
         kills' = kills \ {k},
         procs' = procs \ {Proc(k)} \/ (~OnWindows /\ UNCHANGED procs),
         \A n \in Nodes : Fresh(n)' = Fresh(n),
         UNCHANGED <<nodes, spawns, restarts>>
  PROVE  Promised!Terminate(k.node)
<1>0. k.node \in Nodes
  BY DEF IInv, TypeOK, Kill
<1>1. OnlyTouches(k.node)
  BY DEF OnlyTouches
<1>2. Life(k.node) = "killing"
  BY DEF LifeFacts
<1>3. \A x \in Holders' : x.node # k.node
  BY DEF Holders, IInv, OneHolder, Distinct, Apart
<1>4. ~Fresh(k.node)
  BY DEF IInv, SlotsExclusive, Holders, TypeOK, Kill, Fresh
<1>5. Life(k.node)' = "gone" /\ Attempt(k.node)' = 0
  BY <1>0, <1>3, <1>4 DEF LifeFacts
<1>6. Promised!Becomes(k.node, "gone", 0)
  BY <1>0, <1>1, <1>5, OthersRead, BecomesThat DEF IInv
<1>7. \A p \in procs : p[1] = k.node <=> p = Proc(k)
  BY DEF HeldFacts, Proc
<1>8. \/ {p[1] : p \in procs'} = {p[1] : p \in procs} \ {k.node}
      \/ ~OnWindows /\ UNCHANGED {p[1] : p \in procs}
  BY <1>7
<1>9. QED
  BY <1>0, <1>2, <1>6, <1>8 DEF Promised!Terminate

\* Steps between holders and steps of the environment that read no id anew.
LEMMA ReadsTheSame ==
  ASSUME IInv, LifeFacts, LifeFacts',
         \A n \in Nodes : Fresh(n)' = Fresh(n),
         UNCHANGED <<nodes, spawns, kills, restarts>>
  PROVE  UNCHANGED <<[n \in Nodes |-> Life(n)], [n \in Nodes |-> Attempt(n)]>>
<1>1. ASSUME NEW m \in Nodes
      PROVE  Life(m)' = Life(m) /\ Attempt(m)' = Attempt(m)
  BY HoldersStay DEF IInv
<1>2. QED
  BY <1>1

\* One process more is one id more that has one.
LEMMA ProcessAdded ==
  ASSUME NEW n, NEW i
  PROVE  {p[1] : p \in procs \cup {<<n, i>>}} = {p[1] : p \in procs} \cup {n}
<1>1. <<n, i>>[1] = n
  OBVIOUS
<1>2. \A x : x \in {p[1] : p \in procs \cup {<<n, i>>}}
              <=> x \in {p[1] : p \in procs} \cup {n}
  BY <1>1
<1>3. QED
  BY <1>2

\* spawn_node succeeded, for a new node: it has no process yet.
LEMMA SpawnLaunches ==
  ASSUME IInv, LifeFacts, LifeFacts', HeldFacts, NEW o \in spawns,
         SpawnProcess(o)
  PROVE  Promised!Launch(o.node)
<1>0. o.node \in Nodes
  BY DEF IInv, TypeOK, Spawn
<1>1. Life(o.node) = "spawning" /\ o.node \notin {p[1] : p \in procs}
  BY DEF LifeFacts, HeldFacts, SpawnProcess
<1>2. ASSUME NEW m \in Nodes
      PROVE  Life(m)' = Life(m) /\ Attempt(m)' = Attempt(m)
  <2>1. CASE m = o.node
    <3>1. [o EXCEPT !.started = TRUE] \in spawns'
          /\ [o EXCEPT !.started = TRUE].node = o.node
      BY DEF SpawnProcess, IInv, TypeOK, Spawn
    <3>2. QED
      BY <2>1, <3>1 DEF LifeFacts
  <2>2. CASE m # o.node
    <3>1. [o EXCEPT !.started = TRUE].node = o.node
      BY DEF IInv, TypeOK, Spawn
    <3>2. {q \in spawns : q.node = m}' = {q \in spawns : q.node = m}
      BY <2>2, <3>1 DEF SpawnProcess
    <3>3. QED
      BY <2>2, <3>2, HoldersStay DEF SpawnProcess, Fresh, IInv
  <2>3. QED
    BY <2>1, <2>2
<1>3. {p[1] : p \in procs'} = {p[1] : p \in procs} \cup {o.node}
  BY ProcessAdded DEF SpawnProcess
<1>4. QED
  BY <1>0, <1>1, <1>2, <1>3 DEF Promised!Launch

\* spawn_node succeeded, for a restart: the process before it is dead.
LEMMA RestartLaunches ==
  ASSUME IInv, LifeFacts, LifeFacts', HeldFacts, NEW r \in restarts,
         RestartSpawn(r)
  PROVE  Promised!Launch(r.node)
<1>0. r.node \in Nodes
  BY DEF IInv, TypeOK, Restart
<1>1. Life(r.node) = "restarting" /\ r.node \notin {p[1] : p \in procs}
  BY DEF LifeFacts, HeldFacts, RestartSpawn
<1>s. /\ [r EXCEPT !.started = TRUE].node = r.node
      /\ [r EXCEPT !.started = TRUE].inc = r.inc
  BY DEF IInv, TypeOK, Restart
<1>2. ASSUME NEW m \in Nodes
      PROVE  Life(m)' = Life(m) /\ Attempt(m)' = Attempt(m)
  <2>1. \A x \in restarts : x.node = m =>
          \E y \in restarts' : y.node = m /\ y.inc = x.inc
    BY <1>s DEF RestartSpawn
  <2>2. \A y \in restarts' : y.node = m => \E x \in restarts : x.node = m
    BY <1>s DEF RestartSpawn
  <2>3. QED
    BY <2>1, <2>2, HoldersStay DEF RestartSpawn, Fresh, IInv
<1>3. {p[1] : p \in procs'} = {p[1] : p \in procs} \cup {r.node}
  BY ProcessAdded DEF RestartSpawn, Proc
<1>4. QED
  BY <1>0, <1>1, <1>2, <1>3 DEF Promised!Launch

\* insert: the new handle, of a first spawn or a restart, is in the table.
LEMMA InsertTracks ==
  ASSUME IInv, LifeFacts, LifeFacts', NEW o \in spawns, InsertSpawned(o)
  PROVE  Promised!Track(o.node)
<1>0. o.node \in Nodes
  BY DEF IInv, TypeOK, Spawn
<1> DEFINE h == [node |-> o.node, slot |-> o.slot, inc |-> 0, svc |-> o.svc]
<1>1. h \in nodes' /\ h.node = o.node /\ h.inc = 0
  BY DEF InsertSpawned, Inserted
<1>2. OnlyTouches(o.node)
  BY DEF InsertSpawned, Inserted, OnlyTouches, Fresh
<1>3. Life(o.node) = "spawning" /\ Attempt(o.node) = 0
  BY DEF LifeFacts
<1>4. Life(o.node)' = "tracked" /\ Attempt(o.node)' = 0
  BY <1>1 DEF LifeFacts
<1>5. Promised!Becomes(o.node, "tracked", Attempt(o.node))
  BY <1>0, <1>2, <1>3, <1>4, OthersRead, BecomesThat DEF IInv
<1>6. QED
  BY <1>0, <1>3, <1>5 DEF Promised!Track, InsertSpawned

\* insert after a restart: the new handle is in the table, with its attempt.
LEMMA RestartTracks ==
  ASSUME IInv, LifeFacts, LifeFacts', NEW r \in restarts, RestartInsert(r)
  PROVE  Promised!Track(r.node)
<1>0. r.node \in Nodes
  BY DEF IInv, TypeOK, Restart
<1> DEFINE h == [node |-> r.node, slot |-> r.slot, inc |-> r.inc,
                 svc |-> r.svc]
<1>1. h \in nodes' /\ h.node = r.node /\ h.inc = r.inc
  BY DEF RestartInsert, Inserted
<1>2. OnlyTouches(r.node)
  BY DEF RestartInsert, Inserted, OnlyTouches, Fresh
<1>3. Life(r.node) = "restarting" /\ Attempt(r.node) = r.inc
  BY DEF LifeFacts
<1>4. Life(r.node)' = "tracked" /\ Attempt(r.node)' = r.inc
  BY <1>1 DEF LifeFacts
<1>5. Promised!Becomes(r.node, "tracked", Attempt(r.node))
  BY <1>0, <1>2, <1>3, <1>4, OthersRead, BecomesThat DEF IInv
<1>6. QED
  BY <1>0, <1>3, <1>5 DEF Promised!Track, RestartInsert

\* spawn_node failed: the id is given up, with or without a stray process.
LEMMA SpawnGivesUp ==
  ASSUME IInv, LifeFacts, LifeFacts', HeldFacts, NEW o \in spawns,
         SpawnFails(o)
  PROVE  Promised!GiveUp(o.node)
<1>0. o.node \in Nodes
  BY DEF IInv, TypeOK, Spawn
<1>1. Life(o.node) = "spawning" /\ o.node \notin {p[1] : p \in procs}
  BY DEF LifeFacts, HeldFacts, SpawnFails
<1>2. OnlyTouches(o.node)
  BY DEF SpawnFails, OnlyTouches, Fresh
<1>3. \A x \in Holders' : x.node # o.node
  BY DEF SpawnFails, Holders, IInv, OneHolder, Distinct, Apart
<1>4. ~Fresh(o.node)'
  BY DEF SpawnFails, IInv, SlotsExclusive, Holders, TypeOK, Spawn, Fresh
<1>5. Life(o.node)' = "gone" /\ Attempt(o.node)' = 0
  BY <1>0, <1>3, <1>4 DEF LifeFacts
<1>6. Promised!Becomes(o.node, "gone", 0)
  BY <1>0, <1>2, <1>5, OthersRead, BecomesThat DEF IInv
<1>7. {p[1] : p \in procs'} \in
        {{p[1] : p \in procs}, {p[1] : p \in procs} \cup {o.node}}
  BY ProcessAdded DEF SpawnFails
<1>8. QED
  BY <1>0, <1>1, <1>6, <1>7 DEF Promised!GiveUp

\* A restart that fails is not retried, so the id is gone.
LEMMA RestartGivesUp ==
  ASSUME IInv, LifeFacts, LifeFacts', HeldFacts, NEW r \in restarts,
         RestartFails(r)
  PROVE  Promised!GiveUp(r.node)
<1>0. r.node \in Nodes
  BY DEF IInv, TypeOK, Restart
<1>1. Life(r.node) = "restarting" /\ r.node \notin {p[1] : p \in procs}
  BY DEF LifeFacts, HeldFacts, RestartFails
<1>2. OnlyTouches(r.node)
  BY DEF RestartFails, OnlyTouches, Fresh
<1>3. \A x \in Holders' : x.node # r.node
  BY DEF RestartFails, Holders, IInv, OneHolder, Distinct, Apart
<1>4. ~Fresh(r.node)'
  BY DEF RestartFails, IInv, SlotsExclusive, Holders, TypeOK, Restart, Fresh
<1>5. Life(r.node)' = "gone" /\ Attempt(r.node)' = 0
  BY <1>0, <1>3, <1>4 DEF LifeFacts
<1>6. Promised!Becomes(r.node, "gone", 0)
  BY <1>0, <1>2, <1>5, OthersRead, BecomesThat DEF IInv
<1>7. {p[1] : p \in procs'} \in
        {{p[1] : p \in procs}, {p[1] : p \in procs} \cup {r.node}}
  BY ProcessAdded DEF RestartFails, Proc
<1>8. QED
  BY <1>0, <1>1, <1>6, <1>7 DEF Promised!GiveUp

\* The health loop saw the process of a tracked node dead: the node goes, or
\* waits for its restart.
LEMMA ScanNotices ==
  ASSUME IInv, LifeFacts, LifeFacts', HeldFacts, NEW e \in scan,
         ScanExited(e), InTable(e.node)
  PROVE  Promised!NoticeExit(e.node)
<1>1. PICK h \in nodes :
        /\ h.node = e.node
        /\ RemoveNode(h)
        /\ \/ UNCHANGED restarts
           \/ /\ MayRestart(h)
              /\ restarts' = restarts \cup
                   {[node |-> h.node, slot |-> h.slot, inc |-> h.inc + 1,
                     svc |-> h.svc, started |-> FALSE]}
  BY DEF ScanExited
<1>2. h = e
  BY <1>1 DEF IInv, ScanIsCurrent
<1>0. h.node \in Nodes /\ h.inc \in Nat
  BY BoundsAssumption DEF IInv, TypeOK, Handle, Incs
<1>3. Life(h.node) = "tracked" /\ Attempt(h.node) = h.inc
  BY DEF LifeFacts
<1>4. h.node \notin {p[1] : p \in procs}
  BY <1>2 DEF ScanExited, Exited, Alive, HeldFacts
<1>f. \A m \in Nodes : Fresh(m)' = Fresh(m)
  BY DEF ScanExited, Stopped, Fresh, IInv, TypeOK
<1>5. OnlyTouches(h.node)
  BY <1>1, <1>f DEF ScanExited, RemoveNode, OnlyTouches
<1>6. ~Fresh(h.node)'
  BY <1>0, <1>f DEF IInv, SlotsExclusive, Holders, TypeOK, Handle, Fresh
<1>7. CASE UNCHANGED restarts
  <2>1. \A x \in Holders' : x.node # h.node
    BY <1>1, <1>7 DEF ScanExited, RemoveNode, Holders, IInv, OneHolder,
                      Distinct, Apart
  <2>2. Life(h.node)' = "gone" /\ Attempt(h.node)' = 0
    BY <1>0, <1>6, <2>1 DEF LifeFacts
  <2>3. Promised!Becomes(h.node, "gone", 0)
    BY <1>0, <1>5, <2>2, OthersRead, BecomesThat DEF IInv
  <2>4. QED
    BY <1>0, <1>1, <1>3, <1>4, <2>3 DEF Promised!NoticeExit, ScanExited
<1>8. CASE /\ MayRestart(h)
           /\ restarts' = restarts \cup
                {[node |-> h.node, slot |-> h.slot, inc |-> h.inc + 1,
                  svc |-> h.svc, started |-> FALSE]}
  <2> DEFINE r == [node |-> h.node, slot |-> h.slot, inc |-> h.inc + 1,
                   svc |-> h.svc, started |-> FALSE]
  <2>1. r \in restarts' /\ r.node = h.node /\ r.inc = h.inc + 1
    BY <1>8
  <2>2. Life(h.node)' = "restarting" /\ Attempt(h.node)' = h.inc + 1
    BY <2>1 DEF LifeFacts
  <2>3. Promised!Becomes(h.node, "restarting", h.inc + 1)
    BY <1>0, <1>5, <2>2, OthersRead, BecomesThat DEF IInv
  <2>4. h.inc < MaxRestarts
    BY <1>8 DEF MayRestart
  <2>5. QED
    BY <1>0, <1>1, <1>3, <1>4, <2>3, <2>4 DEF Promised!NoticeExit, ScanExited
<1>9. QED
  BY <1>1, <1>7, <1>8

\* A process exits by itself: its id has no other.
LEMMA ExitEnds ==
  ASSUME IInv, LifeFacts, LifeFacts', NEW q \in procs, ProcessExits(q)
  PROVE  Promised!Exit(q[1])
<1>0. q[1] \in Nodes
  BY DEF IInv, TypeOK, Process
<1>1. UNCHANGED <<[n \in Nodes |-> Life(n)], [n \in Nodes |-> Attempt(n)]>>
  BY ReadsTheSame DEF ProcessExits, Fresh
<1>2. \A p \in procs : p[1] = q[1] => p = q
  BY OneProcess, IInvParts DEF OneProcessPerNode
<1>3. {p[1] : p \in procs'} = {p[1] : p \in procs} \ {q[1]}
  BY <1>2 DEF ProcessExits
<1>4. QED
  BY <1>0, <1>1, <1>3 DEF Promised!Exit

\* The daemon dies: nobody answers for any id.  On Windows only strays live
\* on, which are the processes of ids that were gone; on unix all do.
LEMMA CoreRestartDies ==
  ASSUME IInv, LifeFacts, LifeFacts', HeldFacts, CoreRestarts
  PROVE  Promised!DaemonDies
<1>1. ASSUME NEW n \in Nodes
      PROVE  /\ Life(n)' = IF Life(n) = "new" THEN "new" ELSE "gone"
             /\ Attempt(n)' = 0
  <2>1. \A x \in Holders' : x.node # n
    BY DEF CoreRestarts, Holders
  <2>2. Fresh(n)' = Fresh(n)
    BY DEF CoreRestarts, Fresh
  <2>3. Life(n)' = (IF Fresh(n) THEN "new" ELSE "gone") /\ Attempt(n)' = 0
    BY <2>1, <2>2 DEF LifeFacts
  <2>4. Life(n) = "new" <=> Fresh(n)
    <3>1. CASE \E x \in Holders : x.node = n
      <4>1. PICK x \in Holders : x.node = n
        BY <3>1
      <4>2. ~Fresh(n)
        BY <4>1 DEF IInv, SlotsExclusive, Holders, TypeOK, Handle, Spawn,
                    Kill, Restart, Fresh
      <4>3. Life(n) # "new"
        BY <4>1 DEF LifeFacts, Holders
      <4>4. QED
        BY <4>2, <4>3
    <3>2. CASE \A x \in Holders : x.node # n
      BY <3>2 DEF LifeFacts
    <3>3. QED
      BY <3>1, <3>2
  <2>5. QED
    BY <2>3, <2>4
<1>2. ASSUME NEW p \in procs
      PROVE  p \in strays <=> Life(p[1]) = "gone"
  <2>0. p[1] \in Nodes /\ ~Fresh(p[1])
    BY DEF IInv, TypeOK, Process, TracesRecorded
  <2>1. CASE p \in strays
    <3>1. \A x \in Holders : x.node # p[1]
      BY <2>1 DEF IInv, StraysUnheld
    <3>2. QED
      BY <2>0, <2>1, <3>1 DEF LifeFacts
  <2>2. CASE p \notin strays
    <3>1. Reachable(p)
      BY <2>2 DEF IInv, NoLostProcess
    <3>2. \E x \in Holders : x.node = p[1]
      BY <3>1 DEF Reachable, Proc, Holders
    <3>3. QED
      BY <2>2, <3>2 DEF LifeFacts, Holders
  <2>3. QED
    BY <2>1, <2>2
<1>3. {p[1] : p \in procs'}
        = {n \in {p[1] : p \in procs} : ~OnWindows \/ Life(n) = "gone"}
  <2>1. procs' = {p \in procs : ~OnWindows \/ p \in strays}
    BY DEF CoreRestarts, Survivors
  <2>2. QED
    BY <1>2, <2>1
<1>4. \A n \in {p[1] : p \in procs} : n \in Nodes
  BY DEF IInv, TypeOK, Process
<1>5. QED
  BY <1>1, <1>3, <1>4 DEF Promised!DaemonDies

\* A fresh daemon has drawn no id.
LEMMA LifecycleInit == Init => Promised!Init
<1> SUFFICES ASSUME Init PROVE Promised!Init
  OBVIOUS
<1>1. LifeFacts
  BY IInvInit, LifeReads
<1>2. ASSUME NEW n \in Nodes PROVE Life(n) = "new" /\ Attempt(n) = 0
  BY <1>1, NodesAssumption DEF LifeFacts, Init, Holders, Fresh
<1>3. QED
  BY <1>2 DEF Promised!Init, Init

\* Every step of supervision is a step in the life of one id, the death of
\* the daemon, or nothing to NodeLifecycle.
LEMMA LifecycleStep ==
  IInv /\ [Next]_vars => Promised!Next \/ UNCHANGED Promised!vars
<1> SUFFICES ASSUME IInv, [Next]_vars
             PROVE  Promised!Next \/ UNCHANGED Promised!vars
  OBVIOUS
<1>i. IInv'
  BY IInvStep
<1>f. LifeFacts /\ HeldFacts
  BY LifeReads, HolderHasProcess
<1>g. LifeFacts'
  BY <1>i, LifeReads, PTL
<1>a. ASSUME NEW a \in Actors, NEW n \in Nodes,
             NEW svc \in Services \cup {NoService}, NEW auto \in BOOLEAN,
             AllocNode(a, n, svc, auto)
      PROVE  Promised!Next
  BY <1>a, <1>f, <1>g, AllocDraws DEF Promised!Next
<1>k. ASSUME NEW a \in Actors, NEW h \in nodes, NEW c \in BOOLEAN,
             StartKill(a, h, c), UNCHANGED <<slots, procs, spawns, restarts>>
      PROVE  Promised!Next
  <2>1. h.node \in Nodes
    BY DEF IInv, TypeOK, Handle
  <2>2. QED
    BY <1>k, <1>f, <1>g, <2>1, StartKillTakesOut DEF Promised!Next
<1>s. ASSUME UNCHANGED <<nodes, spawns, kills, restarts, procs>>,
             \A n \in Nodes : Fresh(n)' = Fresh(n)
      PROVE  UNCHANGED Promised!vars
  BY <1>s, <1>f, <1>g, ReadsTheSame DEF Promised!vars
<1>1. ASSUME NEW s \in Sessions, SessionStep(s)
      PROVE  Promised!Next \/ UNCHANGED Promised!vars
  <2>1. ASSUME NEW n \in Nodes, NEW auto \in BOOLEAN,
               SessionSpawn(s, n, auto)
        PROVE  Promised!Next
    BY <1>a, <2>1 DEF SessionSpawn, Actors
  <2>2. ASSUME NEW h \in nodes, SessionKill(s, h)
        PROVE  Promised!Next
    BY <1>k, <2>2 DEF SessionKill, Actors
  <2>3. ASSUME NEW n \in Nodes, CleanupNode(s, n)
        PROVE  Promised!Next \/ UNCHANGED Promised!vars
    <3>1. CASE \E h \in nodes : h.node = n /\ StartKill(s, h, TRUE)
      BY <1>k, <2>3, <3>1 DEF CleanupNode, Actors
    <3>2. CASE ~InTable(n) /\ UNCHANGED <<nodes, labels, kills>>
      BY <1>s, <2>3, <3>2 DEF CleanupNode, Fresh
    <3>3. QED
      BY <2>3, <3>1, <3>2 DEF CleanupNode
  <2>4. ASSUME \/ Connect(s) \/ Disconnect(s) \/ CleanupDone(s)
               \/ \E n \in Nodes : SessionKillNotFound(s, n)
        PROVE  UNCHANGED Promised!vars
    BY <1>s, <2>4 DEF Connect, Disconnect, CleanupDone, SessionKillNotFound,
                      Fresh
  <2>5. QED
    BY <1>1, <2>1, <2>2, <2>3, <2>4 DEF SessionStep
<1>2. ASSUME NEW o \in spawns, SpawnStep(o)
      PROVE  Promised!Next
  <2>1. o.node \in Nodes
    BY DEF IInv, TypeOK, Spawn
  <2>2. QED
    BY <1>2, <1>f, <1>g, <2>1, SpawnLaunches, SpawnGivesUp, InsertTracks
    DEF SpawnStep, Promised!Next
<1>3. ASSUME NEW k \in kills, KillStep(k)
      PROVE  Promised!Next
  <2>1. k.node \in Nodes
    BY DEF IInv, TypeOK, Kill
  <2>2. /\ kills' = kills \ {k}
        /\ procs' = procs \ {Proc(k)} \/ (~OnWindows /\ UNCHANGED procs)
        /\ UNCHANGED <<nodes, spawns, restarts>>
    BY <1>3 DEF KillStep, FinishKill, FinishKillFails
  <2>3. \A n \in Nodes : Fresh(n)' = Fresh(n)
    BY <1>3 DEF KillStep, FinishKill, FinishKillFails, Stopped, Fresh, IInv,
                TypeOK
  <2>4. QED
    BY <1>f, <1>g, <2>1, <2>2, <2>3, EndOfKillTerminates DEF Promised!Next
<1>4. ASSUME HealthStep
      PROVE  Promised!Next \/ UNCHANGED Promised!vars
  <2>1. CASE ScanBegin
    BY <1>s, <2>1 DEF ScanBegin, Fresh
  <2>2. ASSUME NEW e \in scan, ScanSkip(e)
        PROVE  UNCHANGED Promised!vars
    BY <1>s, <2>2 DEF ScanSkip, Fresh
  <2>3. ASSUME NEW e \in scan, ScanExited(e), InTable(e.node)
        PROVE  Promised!Next
    <3>1. e.node \in Nodes
      BY DEF IInv, TypeOK, Handle
    <3>2. QED
      BY <1>f, <1>g, <2>3, <3>1, ScanNotices DEF Promised!Next
  <2>4. ASSUME NEW e \in scan, ScanExited(e), ~InTable(e.node)
        PROVE  UNCHANGED Promised!vars
    <3>1. \A n \in Nodes : Fresh(n)' = Fresh(n)
      BY <2>4 DEF ScanExited, Stopped, Fresh, IInv, TypeOK
    <3>2. UNCHANGED <<nodes, spawns, kills, restarts, procs>>
      BY <2>4 DEF ScanExited, InTable
    <3>3. QED
      BY <1>s, <3>1, <3>2
  <2>5. QED
    BY <1>4, <2>1, <2>2, <2>3, <2>4 DEF HealthStep
<1>5. ASSUME NEW r \in restarts, RestartStep(r)
      PROVE  Promised!Next
  <2>1. r.node \in Nodes
    BY DEF IInv, TypeOK, Restart
  <2>2. QED
    BY <1>5, <1>f, <1>g, <2>1, RestartLaunches, RestartGivesUp, RestartTracks
    DEF RestartStep, Promised!Next
<1>6. ASSUME NEW w \in Portals, NEW n \in Nodes, PortalDeploy(w, n)
      PROVE  Promised!Next
  BY <1>a, <1>6 DEF PortalDeploy, Actors
<1>7. ASSUME NEW p \in procs, ProcessExits(p)
      PROVE  Promised!Next
  <2>1. p[1] \in Nodes
    BY DEF IInv, TypeOK, Process
  <2>2. QED
    BY <1>7, <1>f, <1>g, <2>1, ExitEnds DEF Promised!Next
<1>8. ASSUME ReconcilerStep
      PROVE  Promised!Next
  BY <1>8, <1>a, <1>k DEF ReconcilerStep, ReconcilerSpawn, ReconcilerKill,
                          Actors
<1>9. CASE CoreRestarts
  BY <1>9, <1>f, <1>g, CoreRestartDies DEF Promised!Next
<1>10. CASE UNCHANGED vars
  BY <1>10, <1>s DEF vars, Fresh
<1>11. QED
  BY <1>1, <1>2, <1>3, <1>4, <1>5, <1>6, <1>7, <1>8, <1>9, <1>10
  DEF Next, SupervisionStep

\* The tables, tasks, timers and restarts of VeloceCore together implement
\* the life of a node id that NodeLifecycle describes.
THEOREM SupervisionImplementsLifecycle == Spec => KeepsLifecycle
<1>1. Init => Promised!Init
  BY LifecycleInit
<1>2. IInv /\ [Next]_vars => [Promised!Next]_(Promised!vars)
  BY LifecycleStep
<1>3. QED
  BY <1>1, <1>2, SupervisionInvariant, PTL
  DEF Spec, KeepsLifecycle, Promised!Spec
=============================================================================
