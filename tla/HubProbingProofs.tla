-------------------------- MODULE HubProbingProofs --------------------------
(***************************************************************************)
(* Proofs about HealthProbing, HubDeployment and the two together in       *)
(* HubProbing.                                                             *)
(*                                                                         *)
(* Over a full registry the ids of the portal share slot 0, so IInv does   *)
(* not hold; its part TaskInv does, for the set of the unlisted ids.       *)
(*                                                                         *)
(* That a status is that of the process a node now has is not inductive:   *)
(* it needs that the probe under way cannot belong to an earlier process   *)
(* (ProbeIsCurrent), which needs that the loop takes no exit while it      *)
(* awaits one, and that an id on its way into the table has no status      *)
(* (StatusRests).  That a status is earned needs that the streaks agree    *)
(* with the results they count (StreaksTrue).                              *)
(***************************************************************************)
EXTENDS HubProbing, NodeSupervisionProofs

\* Whose probe may still be under way: one of the handle in the table, if the
\* id is in the table at all, and never of one that is spawned or restarted.
ProbeIsCurrent(U) ==
  probe # NoProbe =>
    /\ \A h \in nodes : h.node = probe.node => h = probe
    /\ \A x \in spawns \cup restarts : x.node # probe.node
    /\ Taken(probe.node, U)

\* What a status rests on: it is of an id somebody has drawn, and an id that
\* is about to enter the table has none.
StatusRests(U) ==
  /\ \A n \in Nodes : health[n] # "Unknown" => Taken(n, U)
  /\ \A x \in spawns \cup restarts : health[x.node] = "Unknown"

\* A streak counts results that have come in, one after the other.
StreaksTrue ==
  \A n \in Nodes : /\ LastAre(results[n], streak[n].pass, TRUE)
                   /\ LastAre(results[n], streak[n].fail, FALSE)

\* What probing keeps, U being the ids without a slot of their own.
ProbingInv(U) == /\ ProbingTypeOK /\ StreaksTrue
                 /\ HealthIsCurrent /\ ProbeIsCurrent(U) /\ StatusRests(U)

---------------------------------------------------------------------------

\* Probing only adds to the supervision: each of its steps is one that the
\* supervision takes or none.
LEMMA ProbingSupervises == ProbingNext => [Next]_vars
  BY DEF ProbingNext, ProbeStep, ProbeBegin, ProbeEnds, Others,
         ProbingRestarts, Next, SupervisionStep, HealthStep

\* Where the handles, spawns and restarts of the next state come from: a new
\* handle was being spawned or restarted, a spawn begins with a fresh id, and
\* a restart begins with the health loop taking the id out of the table.
LEMMA WhereTheyComeFrom ==
  ASSUME NEW U, TaskInv(U), SupervisionStep \/ ReconcilerStep
  PROVE  /\ \A h \in nodes' : h \in nodes
              \/ \E x \in spawns \cup restarts : x.node = h.node
         /\ \A o \in spawns' :
              \/ Fresh(o.node) /\ ~Full
              \/ \E x \in spawns : x.node = o.node
         /\ \A r \in restarts' :
              \/ \E x \in restarts : x.node = r.node
              \/ InTable(r.node) /\ ~InTable(r.node)' /\ scan' # scan
<1> DEFINE Goal ==
      /\ \A h \in nodes' : h \in nodes
           \/ \E x \in spawns \cup restarts : x.node = h.node
      /\ \A o \in spawns' :
           \/ Fresh(o.node) /\ ~Full
           \/ \E x \in spawns : x.node = o.node
      /\ \A r \in restarts' :
           \/ \E x \in restarts : x.node = r.node
           \/ InTable(r.node) /\ ~InTable(r.node)' /\ scan' # scan
<1>1. ASSUME NEW a, NEW n, NEW svc, NEW auto, AllocNode(a, n, svc, auto)
      PROVE  Goal
  BY <1>1 DEF AllocNode, IsFirstEmpty, Full
<1>2. ASSUME nodes' \in SUBSET nodes, UNCHANGED <<spawns, restarts>>
      PROVE  Goal
  BY <1>2
<1>3. ASSUME NEW o \in spawns, SpawnStep(o)
      PROVE  Goal
  BY <1>3 DEF SpawnStep, SpawnProcess, SpawnFails, InsertSpawned, Inserted,
              TaskInv, TypeOK, Spawn
<1>4. ASSUME NEW r \in restarts, RestartStep(r)
      PROVE  Goal
  BY <1>4 DEF RestartStep, RestartSpawn, RestartFails, RestartInsert,
              Inserted, TaskInv, TypeOK, Restart
<1>5. ASSUME NEW e \in scan, ScanExited(e)
      PROVE  Goal
  <2>1. scan' # scan
    BY <1>5 DEF ScanExited
  <2>2. ASSUME NEW h \in nodes, RemoveNode(h),
               \A r \in restarts' : r \in restarts \/ r.node = h.node
        PROVE  Goal
    <3>1. InTable(h.node) /\ ~InTable(h.node)'
      BY <2>2 DEF InTable, RemoveNode, TaskInv, OneHolder, Distinct
    <3>2. spawns' = spawns
      BY <1>5 DEF ScanExited
    <3>3. QED
      BY <2>1, <2>2, <3>1, <3>2 DEF RemoveNode
  <2>3. QED
    BY <1>5, <1>2, <2>2 DEF ScanExited
<1>6. ASSUME NEW a, NEW h, NEW c, StartKill(a, h, c),
             UNCHANGED <<spawns, restarts>>
      PROVE  Goal
  BY <1>2, <1>6 DEF StartKill, RemoveNode
<1>7. QED
  <2>1. ASSUME NEW s \in Sessions, SessionStep(s)
        PROVE  Goal
    BY <1>1, <1>2, <1>6, <2>1
    DEF SessionStep, Connect, Disconnect, CleanupDone, SessionSpawn,
        SessionKillNotFound, CleanupNode, SessionKill
  <2>2. ASSUME NEW k \in kills, KillStep(k)
        PROVE  Goal
    BY <1>2, <2>2 DEF KillStep, FinishKill, FinishKillFails
  <2>3. ASSUME HealthStep
        PROVE  Goal
    BY <1>2, <1>5, <2>3 DEF HealthStep, ScanBegin, ScanSkip
  <2>4. ASSUME NEW p \in procs, ProcessExits(p)
        PROVE  Goal
    BY <1>2, <2>4 DEF ProcessExits
  <2>5. ASSUME ReconcilerStep
        PROVE  Goal
    BY <1>1, <1>6, <2>5 DEF ReconcilerStep, ReconcilerSpawn, ReconcilerKill
  <2>6. ASSUME NEW w \in Portals, NEW n \in Nodes, PortalDeploy(w, n)
        PROVE  Goal
    BY <1>1, <2>6 DEF PortalDeploy
  <2>7. QED
    BY <1>3, <1>4, <2>1, <2>2, <2>3, <2>4, <2>5, <2>6 DEF SupervisionStep

---------------------------------------------------------------------------
(* Streaks and the results they count.                                     *)

\* What is remembered after a result: at most one is forgotten, the oldest.
LEMMA Remembered ==
  ASSUME NEW r \in Seq(BOOLEAN), NEW v \in BOOLEAN
  PROVE  /\ Remember(r, v) \in Seq(BOOLEAN)
         /\ \/ /\ Len(Remember(r, v)) = Len(r) + 1
               /\ \A i \in 1 .. Len(r) : Remember(r, v)[i] = r[i]
               /\ Remember(r, v)[Len(r) + 1] = v
            \/ /\ Len(Remember(r, v)) = Len(r) /\ Len(r) >= Kept
               /\ \A i \in 1 .. Len(r) - 1 : Remember(r, v)[i] = r[i + 1]
               /\ Len(r) > 0 => Remember(r, v)[Len(r)] = v
<1>0. Kept \in Nat
  BY ThresholdsAssumption DEF Kept
<1> DEFINE all == Append(r, v)
<1>1. /\ Len(all) = Len(r) + 1 /\ all[Len(r) + 1] = v
      /\ \A i \in 1 .. Len(r) : all[i] = r[i]
      /\ all \in Seq(BOOLEAN) /\ Len(r) \in Nat
  OBVIOUS
<1>2. Len(all) # 0 /\ all # <<>>
  BY <1>1
<1>3. /\ Tail(all) \in Seq(BOOLEAN) /\ Len(Tail(all)) = Len(all) - 1
      /\ \A i \in 1 .. Len(all) - 1 : Tail(all)[i] = all[i + 1]
  BY <1>1, <1>2
<1>4. Remember(r, v) = IF Len(all) > Kept THEN Tail(all) ELSE all
  BY DEF Remember
<1> HIDE DEF all
<1>5. CASE Len(all) > Kept
  <2>1. Remember(r, v) = Tail(all) /\ Len(r) >= Kept
    BY <1>0, <1>1, <1>4, <1>5
  <2>2. QED
    BY <1>1, <1>3, <2>1
<1>6. CASE ~(Len(all) > Kept)
  BY <1>1, <1>4, <1>6
<1>7. QED
  BY <1>5, <1>6

\* One result more of the same kind, and one more in a row.
LEMMA OneMore ==
  ASSUME NEW r \in Seq(BOOLEAN), NEW v \in BOOLEAN, NEW k \in Nat,
         LastAre(r, k, v), k < Kept
  PROVE  LastAre(Remember(r, v), k + 1, v)
<1> DEFINE q == Remember(r, v)
<1>1. Kept \in Nat /\ Len(r) \in Nat
  BY ThresholdsAssumption DEF Kept
<1>2. Len(r) >= k /\ \A i \in Len(r) - k + 1 .. Len(r) : r[i] = v
  BY DEF LastAre
<1>3. \/ /\ Len(q) = Len(r) + 1 /\ \A i \in 1 .. Len(r) : q[i] = r[i]
         /\ q[Len(r) + 1] = v
      \/ /\ Len(q) = Len(r) /\ Len(r) >= Kept
         /\ \A i \in 1 .. Len(r) - 1 : q[i] = r[i + 1]
         /\ Len(r) > 0 => q[Len(r)] = v
  BY Remembered
<1> HIDE DEF q
<1>4. CASE Len(q) = Len(r) + 1
  <2>1. ASSUME NEW i \in Len(q) - (k + 1) + 1 .. Len(q) PROVE q[i] = v
    BY <1>1, <1>2, <1>3, <1>4, <2>1
  <2>2. QED
    BY <1>1, <1>2, <1>4, <2>1 DEF LastAre, q
<1>5. CASE Len(q) = Len(r)
  <2>1. ASSUME NEW i \in Len(q) - (k + 1) + 1 .. Len(q) PROVE q[i] = v
    <3>1. i \in 1 .. Len(r) /\ (i # Len(r) => i + 1 \in Len(r) - k + 1 .. Len(r))
      BY <1>1, <1>2, <1>3, <1>5, <2>1
    <3>2. QED
      BY <1>1, <1>2, <1>3, <1>5, <3>1
  <2>2. QED
    BY <1>1, <1>2, <1>3, <1>5, <2>1 DEF LastAre, q
<1>6. QED
  BY <1>3, <1>4, <1>5

\* A full streak stays full.
LEMMA StillFull ==
  ASSUME NEW r \in Seq(BOOLEAN), NEW v \in BOOLEAN, NEW k \in Nat,
         LastAre(r, k, v), k <= Kept
  PROVE  LastAre(Remember(r, v), k, v)
<1>0. Kept \in Nat
  BY ThresholdsAssumption DEF Kept
<1>1. CASE k = 0
  <2>1. Remember(r, v) \in Seq(BOOLEAN)
    BY Remembered
  <2>2. QED
    BY <1>1, <2>1 DEF LastAre
<1>2. CASE k > 0
  <2>1. LastAre(r, k - 1, v)
    BY <1>2 DEF LastAre
  <2>2. k - 1 \in Nat /\ k - 1 < Kept /\ (k - 1) + 1 = k
    BY <1>0, <1>2
  <2>3. LastAre(Remember(r, v), (k - 1) + 1, v)
    BY <2>1, <2>2, OneMore
  <2>4. QED
    BY <2>2, <2>3
<1>3. QED
  BY <1>1, <1>2

\* The streaks after a probe count the results after it.
LEMMA CountedTrue ==
  ASSUME NEW r \in Seq(BOOLEAN), NEW v \in BOOLEAN,
         NEW s \in [pass : 0 .. SuccessThreshold, fail : 0 .. FailureThreshold],
         LastAre(r, s.pass, TRUE), LastAre(r, s.fail, FALSE)
  PROVE  /\ Remember(r, v) \in Seq(BOOLEAN)
         /\ Counted(s, v) \in [pass : 0 .. SuccessThreshold,
                               fail : 0 .. FailureThreshold]
         /\ LastAre(Remember(r, v), Counted(s, v).pass, TRUE)
         /\ LastAre(Remember(r, v), Counted(s, v).fail, FALSE)
<1> USE ThresholdsAssumption
<1>1. Remember(r, v) \in Seq(BOOLEAN)
  BY Remembered
<1>2. LastAre(Remember(r, v), 0, TRUE) /\ LastAre(Remember(r, v), 0, FALSE)
  BY <1>1 DEF LastAre
<1>3. SuccessThreshold <= Kept /\ FailureThreshold <= Kept /\ Kept \in Nat
  BY DEF Kept
<1>4. Counted(s, v) \in [pass : 0 .. SuccessThreshold,
                        fail : 0 .. FailureThreshold]
  BY DEF Counted
<1>5. CASE v
  <2>1. Remember(r, v) = Remember(r, TRUE) /\ Counted(s, v) = Counted(s, TRUE)
    BY <1>5, Zenon
  <2>2. s.pass \in Nat /\ s.pass <= Kept /\ TRUE \in BOOLEAN
    BY <1>3
  <2>3. CASE s.pass < SuccessThreshold
    <3>1. s.pass < Kept
      BY <1>3, <2>2, <2>3
    <3>2. LastAre(Remember(r, TRUE), s.pass + 1, TRUE)
      BY <2>2, <3>1, OneMore, Zenon
    <3>3. Counted(s, TRUE).pass = s.pass + 1 /\ Counted(s, TRUE).fail = 0
      BY <2>3 DEF Counted
    <3>4. QED
      BY <1>1, <1>2, <1>4, <2>1, <3>2, <3>3, Zenon
  <2>4. CASE ~(s.pass < SuccessThreshold)
    <3>1. LastAre(Remember(r, TRUE), s.pass, TRUE)
      BY <2>2, StillFull, Zenon
    <3>2. Counted(s, TRUE).pass = s.pass /\ Counted(s, TRUE).fail = 0
      BY <2>4 DEF Counted
    <3>3. QED
      BY <1>1, <1>2, <1>4, <2>1, <3>1, <3>2, Zenon
  <2>5. QED
    BY <2>3, <2>4
<1>6. CASE ~v
  <2>1. Remember(r, v) = Remember(r, FALSE) /\ Counted(s, v) = Counted(s, FALSE)
    BY <1>6, Zenon
  <2>2. s.fail \in Nat /\ s.fail <= Kept /\ FALSE \in BOOLEAN
    BY <1>3
  <2>3. CASE s.fail < FailureThreshold
    <3>1. s.fail < Kept
      BY <1>3, <2>2, <2>3
    <3>2. LastAre(Remember(r, FALSE), s.fail + 1, FALSE)
      BY <2>2, <3>1, OneMore, Zenon
    <3>3. Counted(s, FALSE).fail = s.fail + 1 /\ Counted(s, FALSE).pass = 0
      BY <2>3 DEF Counted
    <3>4. QED
      BY <1>1, <1>2, <1>4, <2>1, <3>2, <3>3, Zenon
  <2>4. CASE ~(s.fail < FailureThreshold)
    <3>1. LastAre(Remember(r, FALSE), s.fail, FALSE)
      BY <2>2, StillFull, Zenon
    <3>2. Counted(s, FALSE).fail = s.fail /\ Counted(s, FALSE).pass = 0
      BY <2>4 DEF Counted
    <3>3. QED
      BY <1>1, <1>2, <1>4, <2>1, <3>1, <3>2, Zenon
  <2>5. QED
    BY <2>3, <2>4
<1>7. QED
  BY <1>5, <1>6


---------------------------------------------------------------------------
(* What probing keeps, whatever the slots.                                 *)

LEMMA ProbingInvInit == ProbingInit => ProbingInv({})
<1> SUFFICES ASSUME ProbingInit PROVE ProbingInv({})
  OBVIOUS
<1>1. ProbingTypeOK
  BY BoundsAssumption, ThresholdsAssumption
  DEF ProbingInit, ProbingFresh, ProbingTypeOK, Incs
<1>2. HealthIsCurrent /\ ProbeIsCurrent({}) /\ StatusRests({})
  BY DEF ProbingInit, ProbingFresh, Init, HealthIsCurrent, ProbeIsCurrent,
         StatusRests
<1>3. StreaksTrue
  BY DEF ProbingInit, ProbingFresh, StreaksTrue, LastAre
<1>4. QED
  BY <1>1, <1>2, <1>3 DEF ProbingInv

\* The entry whose probe begins is current, for it is taken from the scan.
LEMMA BeginKeeps ==
  ASSUME NEW U, TaskInv(U), ProbingInv(U), NEW e \in scan, ProbeBegin(e)
  PROVE  ProbingInv(U)'
<1>1. UNCHANGED <<slots, nodes, spawns, restarts, health, healthOf, streak,
                  results>>
  BY DEF ProbeBegin, ScanSkip
<1>2. e \in Handle
  BY DEF TaskInv, TypeOK
<1>3. ProbingTypeOK' /\ StreaksTrue'
  BY <1>1, <1>2 DEF ProbingInv, ProbingTypeOK, StreaksTrue, ProbeBegin
<1>4. ProbeIsCurrent(U)'
  <2>1. \A h \in nodes : h.node = e.node => h = e
    BY DEF TaskInv, ScanIsCurrent
  <2>2. \A x \in spawns \cup restarts : x.node # e.node
    BY DEF TaskInv, ScanApart, Apart
  <2>3. Taken(e.node, U)
    BY DEF TaskInv, Recorded
  <2>4. probe' = e
    BY DEF ProbeBegin
  <2>5. QED
    BY <1>1, <2>1, <2>2, <2>3, <2>4 DEF ProbeIsCurrent, Taken, Fresh
<1>5. HealthIsCurrent' /\ StatusRests(U)'
  BY <1>1 DEF ProbingInv, HealthIsCurrent, StatusRests, Taken, Fresh
<1>6. QED
  BY <1>3, <1>4, <1>5 DEF ProbingInv

\* set_health after the await writes about the process that is in the table,
\* or about an id that neither is there nor will come back.
LEMMA EndKeeps ==
  ASSUME NEW U, TaskInv(U), ProbingInv(U), NEW passed \in BOOLEAN,
         ProbeEnds(passed)
  PROVE  ProbingInv(U)'
<1>1. UNCHANGED <<slots, nodes, spawns, restarts>>
  BY DEF ProbeEnds, vars
<1>2. probe \in Handle /\ probe' = NoProbe
  BY DEF ProbingInv, ProbingTypeOK, ProbeEnds
<1>3. \/ UNCHANGED <<health, healthOf>>
      \/ /\ health' = [health EXCEPT ![probe.node] = Verdict(passed)]
         /\ healthOf' = [healthOf EXCEPT ![probe.node] = probe.inc]
  BY DEF ProbeEnds
<1>4. /\ health' \in [Nodes -> {"Unknown", "Healthy", "Unhealthy"}]
      /\ probe' \in Handle \cup {NoProbe}
      /\ healthOf' \in [Nodes -> Incs]
  BY <1>2, <1>3 DEF ProbingInv, ProbingTypeOK, Verdict, Handle
<1>5. HealthIsCurrent'
  <2>1. \A h \in nodes : h.node \in Nodes
    BY DEF TaskInv, TypeOK, Handle
  <2>2. \A h \in nodes : h.node = probe.node => h = probe
    BY DEF ProbingInv, ProbeIsCurrent, ProbeEnds
  <2>3. QED
    BY <1>1, <1>2, <1>3, <2>1, <2>2
    DEF ProbingInv, HealthIsCurrent, ProbingTypeOK, Handle
<1>6. StatusRests(U)'
  <2>1. Taken(probe.node, U) /\ \A x \in spawns \cup restarts :
                                  x.node # probe.node
    BY DEF ProbingInv, ProbeIsCurrent, ProbeEnds
  <2>2. \A n \in Nodes : Taken(n, U)' = Taken(n, U)
    BY <1>1 DEF Taken, Fresh
  <2>3. \A x \in spawns \cup restarts : x.node \in Nodes
    BY DEF TaskInv, TypeOK, Spawn, Restart
  <2>4. \A n \in Nodes : n # probe.node => health'[n] = health[n]
    BY <1>3 DEF ProbingInv, ProbingTypeOK
  <2>5. QED
    BY <1>1, <2>1, <2>2, <2>3, <2>4 DEF ProbingInv, StatusRests
<1>7. ProbeIsCurrent(U)'
  BY <1>2 DEF ProbeIsCurrent
<1>8. /\ streak' \in [Nodes -> [pass : 0 .. SuccessThreshold,
                               fail : 0 .. FailureThreshold]]
      /\ results' \in [Nodes -> Seq(BOOLEAN)]
      /\ StreaksTrue'
  <2> DEFINE n == probe.node
             s == Counted(streak[n], passed)
             r == Remember(results[n], passed)
  <2>1. n \in Nodes
    BY <1>2 DEF Handle
  <2>2. /\ streak[n] \in [pass : 0 .. SuccessThreshold,
                          fail : 0 .. FailureThreshold]
        /\ results[n] \in Seq(BOOLEAN)
        /\ LastAre(results[n], streak[n].pass, TRUE)
        /\ LastAre(results[n], streak[n].fail, FALSE)
    BY <2>1 DEF ProbingInv, ProbingTypeOK, StreaksTrue
  <2>3. /\ r \in Seq(BOOLEAN)
        /\ s \in [pass : 0 .. SuccessThreshold, fail : 0 .. FailureThreshold]
        /\ LastAre(r, s.pass, TRUE) /\ LastAre(r, s.fail, FALSE)
    BY <2>2, CountedTrue
  <2>4. /\ streak' = [streak EXCEPT ![n] = s]
        /\ results' = [results EXCEPT ![n] = r]
    BY DEF ProbeEnds
  <2> HIDE DEF n, s, r
  <2>5. \A m \in Nodes : /\ streak'[m] = IF m = n THEN s ELSE streak[m]
                         /\ results'[m] = IF m = n THEN r ELSE results[m]
    BY <2>4 DEF ProbingInv, ProbingTypeOK
  <2>6. StreaksTrue'
    BY <2>3, <2>5 DEF ProbingInv, StreaksTrue
  <2>7. QED
    BY <2>1, <2>3, <2>4, <2>6 DEF ProbingInv, ProbingTypeOK
<1>9. QED
  BY <1>4, <1>5, <1>6, <1>7, <1>8 DEF ProbingInv, ProbingTypeOK

\* Everybody else may do as they please, even while a probe is awaited.
LEMMA OthersKeep ==
  ASSUME NEW U, TaskInv(U), TaskInv(U)', ProbingInv(U), U # {} => Full, Others
  PROVE  ProbingInv(U)'
<1>1. [Next]_vars
  BY DEF Others, Next
<1>2. /\ \A h \in nodes' : h \in nodes
           \/ \E x \in spawns \cup restarts : x.node = h.node
      /\ \A o \in spawns' :
           \/ Fresh(o.node) /\ ~Full
           \/ \E x \in spawns : x.node = o.node
      /\ \A r \in restarts' :
           \/ \E x \in restarts : x.node = r.node
           \/ InTable(r.node) /\ ~InTable(r.node)' /\ scan' # scan
  BY WhereTheyComeFrom DEF Others
<1>3. \A n \in Nodes :
        /\ health'[n] \in {"Unknown", health[n]}
        /\ InTable(n) /\ ~InTable(n)' => health'[n] = "Unknown"
  BY DEF Others, StatusCleared
<1>4. UNCHANGED <<probe, healthOf, streak, results>>
  BY DEF Others
<1>5. \A x \in nodes' \cup spawns' \cup restarts' : x.node \in Nodes
  BY DEF TaskInv, TypeOK, Handle, Spawn, Restart
<1>6. ProbingTypeOK' /\ StreaksTrue'
  BY <1>4 DEF ProbingInv, ProbingTypeOK, StreaksTrue, Others, StatusCleared
<1>7. HealthIsCurrent'
  BY <1>2, <1>3, <1>4, <1>5 DEF ProbingInv, HealthIsCurrent, StatusRests
<1>8. \A n \in Nodes : Taken(n, U) => Taken(n, U)'
  BY <1>1, FreshOnlyBefore DEF TaskInv, Taken
<1>9. \A o \in spawns' : ~Taken(o.node, U) \/ \E x \in spawns : x.node = o.node
  BY <1>2 DEF Taken
<1>10. ProbeIsCurrent(U)'
  <2>1. SUFFICES ASSUME probe # NoProbe PROVE ProbeIsCurrent(U)'
    BY <1>4 DEF ProbeIsCurrent
  <2>2. scan' = scan /\ probe.node \in Nodes
    BY <2>1 DEF Others, ProbingInv, ProbingTypeOK, Handle
  <2>3. Taken(probe.node, U)
    BY <2>1 DEF ProbingInv, ProbeIsCurrent
  <2>4. Taken(probe.node, U)'
    BY <1>4, <1>8, <2>2, <2>3 DEF Taken, Fresh
  <2>5. \A h \in nodes' : h.node = probe.node => h = probe
    BY <1>2, <2>1 DEF ProbingInv, ProbeIsCurrent
  <2>6. \A x \in spawns' \cup restarts' : x.node # probe.node
    BY <1>2, <1>9, <2>1, <2>2, <2>3 DEF ProbingInv, ProbeIsCurrent
  <2>7. QED
    BY <1>4, <2>4, <2>5, <2>6 DEF ProbeIsCurrent
<1>11. StatusRests(U)'
  <2>1. \A n \in Nodes : health'[n] # "Unknown" => Taken(n, U)'
    BY <1>3, <1>8 DEF ProbingInv, StatusRests
  <2>2. \A o \in spawns' : health'[o.node] = "Unknown"
    BY <1>3, <1>5, <1>9 DEF ProbingInv, StatusRests
  <2>3. \A r \in restarts' : health'[r.node] = "Unknown"
    BY <1>2, <1>3, <1>5 DEF ProbingInv, StatusRests
  <2>4. QED
    BY <2>1, <2>2, <2>3 DEF StatusRests
<1>12. QED
  BY <1>6, <1>7, <1>10, <1>11 DEF ProbingInv

\* A new daemon shows nothing of what the old one measured.
LEMMA RestartKeeps ==
  ASSUME NEW U, ProbingInv(U), ProbingRestarts
  PROVE  ProbingInv(U)'
<1>1. nodes' = {} /\ spawns' = {} /\ restarts' = {}
  BY DEF ProbingRestarts, CoreRestarts
<1>2. probe' = NoProbe /\ health' = [n \in Nodes |-> "Unknown"]
  BY DEF ProbingRestarts, ProbingFresh
<1>3. healthOf' = healthOf
  BY DEF ProbingRestarts
<1>4. /\ streak' = [n \in Nodes |-> [pass |-> 0, fail |-> 0]]
      /\ results' = [n \in Nodes |-> <<>>]
  BY DEF ProbingRestarts, ProbingFresh
<1>5. ProbingTypeOK'
  BY <1>2, <1>3, <1>4, ThresholdsAssumption DEF ProbingInv, ProbingTypeOK
<1>6. StreaksTrue'
  BY <1>4 DEF StreaksTrue, LastAre
<1>7. HealthIsCurrent' /\ ProbeIsCurrent(U)' /\ StatusRests(U)'
  BY <1>1, <1>2 DEF HealthIsCurrent, ProbeIsCurrent, StatusRests
<1>8. QED
  BY <1>5, <1>6, <1>7 DEF ProbingInv

\* Steps that touch nothing keep everything.
LEMMA IdleKeeps ==
  ASSUME NEW U, ProbingInv(U), UNCHANGED allProbingVars
  PROVE  ProbingInv(U)'
  BY DEF ProbingInv, ProbingTypeOK, StreaksTrue, HealthIsCurrent,
         ProbeIsCurrent, StatusRests, Taken, Fresh, allProbingVars,
         probingVars, vars

\* Whatever is probed, found, spawned, killed or restarted.
LEMMA ProbingStep ==
  ASSUME NEW U, TaskInv(U), ProbingInv(U), U # {} => Full,
         [ProbingNext]_allProbingVars
  PROVE  TaskInv(U)' /\ ProbingInv(U)'
<1>1. [Next]_vars
  BY ProbingSupervises DEF allProbingVars
<1>2. TaskInv(U)'
  BY <1>1, TaskStep
<1>3. QED
  BY <1>2, BeginKeeps, EndKeeps, OthersKeep, RestartKeeps, IdleKeeps
  DEF ProbingNext, ProbeStep

\* A status changes to Healthy or Unhealthy only when a probe ends, and only
\* if the streak it extends is then as long as the threshold.
LEMMA EarnedStep ==
  ASSUME NEW U, ProbingInv(U), ProbingInv(U)', [ProbingNext]_allProbingVars,
         NEW n \in Nodes, health'[n] # health[n]
  PROVE  /\ health'[n] = "Healthy" =>
              LastAre(results'[n], SuccessThreshold, TRUE)
         /\ health'[n] = "Unhealthy" =>
              LastAre(results'[n], FailureThreshold, FALSE)
<1>1. ASSUME NEW passed \in BOOLEAN, ProbeEnds(passed)
      PROVE  /\ health'[n] = "Healthy" => streak'[n].pass >= SuccessThreshold
             /\ health'[n] = "Unhealthy" => streak'[n].fail >= FailureThreshold
  <2> DEFINE s == Counted(streak[probe.node], passed)
  <2>1. Decides(s, passed) /\ health' = [health EXCEPT ![probe.node] = Verdict(passed)]
    BY <1>1 DEF ProbeEnds
  <2>2. n = probe.node /\ health'[n] = Verdict(passed)
    BY <2>1 DEF ProbingInv, ProbingTypeOK
  <2>3. streak'[n] = s
    BY <1>1, <2>2 DEF ProbeEnds, ProbingInv, ProbingTypeOK
  <2> HIDE DEF s
  <2>4. QED
    BY <2>1, <2>2, <2>3 DEF Decides, Verdict
<1>2. ASSUME NEW passed \in BOOLEAN, ProbeEnds(passed)
      PROVE  /\ health'[n] = "Healthy" => streak'[n].pass = SuccessThreshold
             /\ health'[n] = "Unhealthy" => streak'[n].fail = FailureThreshold
  BY <1>1, <1>2, ThresholdsAssumption DEF ProbingInv, ProbingTypeOK
<1>3. CASE \E passed \in BOOLEAN : ProbeEnds(passed)
  <2>1. /\ LastAre(results'[n], streak'[n].pass, TRUE)
        /\ LastAre(results'[n], streak'[n].fail, FALSE)
    BY DEF ProbingInv, StreaksTrue
  <2>2. QED
    BY <1>2, <1>3, <2>1, Zenon
<1>4. CASE Others \/ ProbingRestarts
  <2>1. health'[n] \in {"Unknown", health[n]}
    BY <1>4 DEF Others, StatusCleared, ProbingRestarts, ProbingFresh
  <2>2. QED
    BY <2>1
<1>5. CASE UNCHANGED allProbingVars \/ \E e \in scan : ProbeBegin(e)
  BY <1>5 DEF ProbeBegin, allProbingVars, probingVars
<1>6. QED
  BY <1>3, <1>4, <1>5 DEF ProbingNext, ProbeStep

---------------------------------------------------------------------------
(* HealthProbing over a registry with room.                                *)

\* The invariants of tasks and probes hold whatever is probed, killed and
\* restarted meanwhile.
LEMMA ProbingInvariant ==
  ProbingSpec => [](TaskInv({}) /\ ProbingInv({}))
<1>1. ProbingInit => TaskInv({}) /\ ProbingInv({})
  BY TaskInvInit, ProbingInvInit DEF ProbingInit
<1>2. TaskInv({}) /\ ProbingInv({}) /\ [ProbingNext]_allProbingVars
        => (TaskInv({}) /\ ProbingInv({}))'
  BY ProbingStep
<1>3. QED
  BY <1>1, <1>2, PTL DEF ProbingSpec

\* For any nodes, thresholds, tasks and slots: the health the NodeTable shows
\* of a node is what was measured of the process it now has.
THEOREM HealthStaysCurrent == ProbingSpec => []HealthIsCurrent
<1>1. ProbingInv({}) => HealthIsCurrent
  BY DEF ProbingInv
<1>2. QED
  BY <1>1, ProbingInvariant, PTL

\* Probing leaves the supervision as it is: every behaviour with probes is
\* one of NodeSupervision, whose invariants and lifecycle it therefore keeps.
THEOREM ProbingImplementsSupervision == ProbingSpec => Spec
<1>1. ProbingInit => Init
  BY DEF ProbingInit
<1>2. [ProbingNext]_allProbingVars => [Next]_vars
  BY ProbingSupervises DEF allProbingVars
<1>3. QED
  BY <1>1, <1>2, PTL DEF ProbingSpec, Spec

---------------------------------------------------------------------------
(* HubDeployment: the portal goes on when the registry is full.            *)

\* Ids share a slot only once the registry is full.
HubIInv == /\ TaskInv(unlisted) /\ unlisted \subseteq Nodes
           /\ unlisted # {} => Full

\* A fresh daemon has an empty registry and no unlisted node.
LEMMA HubIInvInit == HubInit => HubIInv
  BY TaskInvInit DEF HubInit, HubIInv

\* The steps that leave the unlisted ids alone keep what was said of them.
LEMMA SameUnlisted ==
  ASSUME NEW U, U = unlisted, UNCHANGED unlisted, HubIInv, [Next]_vars
  PROVE  TaskInv(U) /\ TaskInv(U)' /\ HubIInv' /\ (U # {} => Full)
<1>1. TaskInv(U) /\ (U # {} => Full)
  BY DEF HubIInv
<1>2. TaskInv(U)' /\ (U # {} => Full')
  BY <1>1, TaskStep, FullStaysFull DEF TaskInv
<1>3. TaskInv(unlisted)'
  BY <1>2 DEF TaskInv, Recorded, Taken
<1>4. QED
  BY <1>1, <1>2, <1>3 DEF HubIInv

\* The portal's node is a new holder of a new id, in a slot that is not Empty.
LEMMA OverflowKeeps ==
  ASSUME HubIInv, NEW w \in Portals, NEW n \in Nodes, PortalOverflow(w, n)
  PROVE  HubIInv'
<1> DEFINE o == [node |-> n, slot |-> 0, svc |-> NoService, by |-> w,
                 auto |-> FALSE, started |-> FALSE]
<1>1. PICK U, W : U = unlisted /\ W = unlisted \cup {n}
  OBVIOUS
<1>2. o.node = n /\ o.slot = 0 /\ spawns' = spawns \cup {o}
      /\ unlisted' = W /\ Full
  BY <1>1 DEF PortalOverflow
<1>3. o \in Spawn /\ 0 \in Slots
  BY BoundsAssumption DEF Spawn, Slots, Actors
<1>4. TaskInv(U) /\ ~Taken(n, U)
  BY <1>1 DEF HubIInv, PortalOverflow, NewId, Taken, TaskInv, Recorded
<1> HIDE DEF o
<1>5. UNCHANGED <<slots, nodes, labels, procs, strays, kills, restarts, scan,
                  conn, autoKill, killed>>
  BY DEF PortalOverflow
<1>6. TypeOK'
  BY <1>2, <1>3, <1>4, <1>5 DEF TaskInv, TypeOK
<1>7. Recorded(W)'
  <2>1. \A m : Taken(m, U) => Taken(m, W)'
    BY <1>1, <1>5 DEF Taken, Fresh
  <2>2. Taken(n, W)'
    BY <1>1 DEF Taken
  <2>3. \A x \in (Holders \cup scan)' : x \in Holders \cup scan \/ x = o
    BY <1>2, <1>5 DEF Holders
  <2>4. slots'[0].status # "Empty"
    BY <1>2, <1>3, <1>5 DEF Full
  <2>5. QED
    BY <1>2, <1>4, <1>5, <2>1, <2>2, <2>3, <2>4 DEF TaskInv, Recorded
<1>8. TaskInv(W)'
  BY <1>2, <1>4, <1>5, <1>6, <1>7, DrawKeeps
<1>9. TaskInv(unlisted)'
  BY <1>2, <1>8 DEF TaskInv, Recorded, Taken
<1>10. QED
  BY <1>1, <1>2, <1>5, <1>9 DEF HubIInv, Full

\* Whatever is deployed over a full registry, the tasks keep their invariant.
LEMMA HubInvariant == HubSpec => []HubIInv
<1>1. HubInit => HubIInv
  BY HubIInvInit
<1>2. HubIInv /\ [HubNext]_hubVars => HubIInv'
  <2> SUFFICES ASSUME HubIInv, [HubNext]_hubVars PROVE HubIInv'
    OBVIOUS
  <2>1. CASE [Next]_vars /\ UNCHANGED unlisted
    <3>1. PICK U : U = unlisted
      OBVIOUS
    <3>2. QED
      BY <2>1, <3>1, SameUnlisted
  <2>2. QED
    BY <2>1, OverflowKeeps DEF HubNext, Supervise, hubVars
<1>3. QED
  BY <1>1, <1>2, PTL DEF HubSpec

\* However many nodes share slot 0: one holder and one process for each id,
\* and what was killed stays dead.
THEOREM HubKeepsNodesApart == HubSpec => []NodesApart
<1>1. HubIInv => NodesApart
  <2> SUFFICES ASSUME HubIInv PROVE NodesApart
    OBVIOUS
  <2>1. PICK U : U = unlisted
    OBVIOUS
  <2>2. TaskInv(U)
    BY <2>1 DEF HubIInv
  <2>3. QED
    BY <2>2, OneProcess DEF NodesApart, TaskInv
<1>2. QED
  BY <1>1, HubInvariant, PTL

---------------------------------------------------------------------------
(* HubProbing: the portal's nodes and the probes together.                 *)

LocalIInv == HubIInv /\ ProbingInv(unlisted)

\* Probes leave the registry and the tasks as they are.
THEOREM LocalImplementsHub == LocalSpec => HubSpec
<1>1. LocalInit => HubInit
  BY DEF LocalInit, ProbingInit, HubInit
<1>2. [LocalNext]_localVars => [HubNext]_hubVars
  BY ProbingSupervises
  DEF LocalNext, localVars, HubNext, Supervise, hubVars, vars
<1>3. QED
  BY <1>1, <1>2, PTL DEF LocalSpec, HubSpec

\* Tasks, portal and probes keep the inductive invariant of them all.
LEMMA LocalIInvStep == LocalIInv /\ [LocalNext]_localVars => LocalIInv'
<1> SUFFICES ASSUME LocalIInv, [LocalNext]_localVars PROVE LocalIInv'
  OBVIOUS
<1>1. CASE [ProbingNext]_allProbingVars /\ UNCHANGED unlisted
  <2>1. PICK U : U = unlisted
    OBVIOUS
  <2>2. [Next]_vars
    BY <1>1, ProbingSupervises DEF allProbingVars
  <2>3. TaskInv(U) /\ TaskInv(U)' /\ HubIInv' /\ (U # {} => Full)
    BY <1>1, <2>1, <2>2, SameUnlisted DEF LocalIInv
  <2>4. ProbingInv(U)
    BY <2>1 DEF LocalIInv
  <2>5. ProbingInv(U)'
    BY <1>1, <2>3, <2>4, ProbingStep
  <2>6. ProbingInv(unlisted)'
    BY <1>1, <2>1, <2>5 DEF ProbingInv, ProbeIsCurrent, StatusRests, Taken
  <2>7. QED
    BY <2>3, <2>6 DEF LocalIInv
<1>2. ASSUME NEW w \in Portals, NEW n \in Nodes, PortalOverflow(w, n),
             UNCHANGED probingVars
      PROVE  LocalIInv'
  <2>1. HubIInv'
    BY <1>2, OverflowKeeps DEF LocalIInv
  <2>2. UNCHANGED <<slots, nodes, restarts, health, streak, probe, healthOf,
                    results>>
        /\ unlisted' = unlisted \cup {n}
    BY <1>2 DEF PortalOverflow, probingVars
  <2>3. \A x \in spawns' : x \in spawns \/ x.node = n
    BY <1>2 DEF PortalOverflow
  <2>4. ~Taken(n, unlisted)
    BY <1>2 DEF PortalOverflow, NewId, Taken
  <2>5. \A m : Taken(m, unlisted) => Taken(m, unlisted)'
    BY <2>2 DEF Taken, Fresh
  <2>6. health[n] = "Unknown" /\ (probe # NoProbe => probe.node # n)
    BY <2>4 DEF LocalIInv, ProbingInv, StatusRests, ProbeIsCurrent
  <2>7. ProbingTypeOK' /\ StreaksTrue' /\ HealthIsCurrent'
    BY <2>2 DEF LocalIInv, ProbingInv, ProbingTypeOK, StreaksTrue,
                HealthIsCurrent
  <2>8. ProbeIsCurrent(unlisted)' /\ StatusRests(unlisted)'
    BY <2>2, <2>3, <2>5, <2>6
    DEF LocalIInv, ProbingInv, ProbeIsCurrent, StatusRests
  <2>9. QED
    BY <2>1, <2>7, <2>8 DEF LocalIInv, ProbingInv
<1>3. QED
  BY <1>1, <1>2
  DEF LocalNext, localVars, hubVars, allProbingVars, vars

\* The invariant of tables, tasks, slots and probes together.
LEMMA LocalInvariant == LocalSpec => []LocalIInv
<1>1. LocalInit => LocalIInv
  BY TaskInvInit, ProbingInvInit DEF LocalInit, ProbingInit, LocalIInv, HubIInv
<1>2. LocalIInv /\ [LocalNext]_localVars => LocalIInv'
  BY LocalIInvStep
<1>3. QED
  BY <1>1, <1>2, PTL DEF LocalSpec

\* Node table, registry, tasks, probes, statuses and streaks are well typed.
THEOREM LocalTypeCorrect == LocalSpec => []LocalTypeOK
<1>1. LocalIInv => LocalTypeOK
  BY DEF LocalIInv, HubIInv, TaskInv, ProbingInv, LocalTypeOK, HubTypeOK
<1>2. QED
  BY <1>1, LocalInvariant, PTL

\* The health shown is that of the process the node now has, also for nodes
\* the registry does not list.
THEOREM LocalHealthIsCurrent == LocalSpec => []HealthIsCurrent
<1>1. LocalIInv => HealthIsCurrent
  BY DEF LocalIInv, ProbingInv
<1>2. QED
  BY <1>1, LocalInvariant, PTL

\* No status is shown before the threshold's number of results in a row.
THEOREM LocalStatusEarned == LocalSpec => StatusEarned
<1>1. LocalIInv /\ LocalIInv' /\ [LocalNext]_localVars =>
        [\A n \in Nodes : health'[n] # health[n] =>
          /\ health'[n] = "Healthy" =>
               LastAre(results'[n], SuccessThreshold, TRUE)
          /\ health'[n] = "Unhealthy" =>
               LastAre(results'[n], FailureThreshold, FALSE)]_allProbingVars
  <2> SUFFICES ASSUME LocalIInv, LocalIInv', [LocalNext]_localVars,
                      NEW n \in Nodes, health'[n] # health[n]
               PROVE  /\ health'[n] = "Healthy" =>
                           LastAre(results'[n], SuccessThreshold, TRUE)
                      /\ health'[n] = "Unhealthy" =>
                           LastAre(results'[n], FailureThreshold, FALSE)
    OBVIOUS
  <2>1. [ProbingNext]_allProbingVars /\ UNCHANGED unlisted
    BY DEF LocalNext, localVars, hubVars, allProbingVars, probingVars, vars
  <2>2. PICK U : U = unlisted
    OBVIOUS
  <2>3. ProbingInv(U)
    BY <2>2 DEF LocalIInv
  <2>4. ProbingInv(U)'
    BY <2>1, <2>2 DEF LocalIInv, ProbingInv, ProbeIsCurrent, StatusRests, Taken
  <2>5. QED
    BY <2>1, <2>3, <2>4, EarnedStep
<1>2. QED
  BY <1>1, LocalInvariant, PTL DEF LocalSpec, StatusEarned

\* One holder and one process for each id, whatever is probed meanwhile.
THEOREM LocalNodesApart == LocalSpec => []NodesApart
  BY LocalImplementsHub, HubKeepsNodesApart, PTL
=============================================================================
