--------------------------- MODULE HealthProbing ---------------------------
(***************************************************************************)
(* The health probes of check_nodes (job.rs) over NodeSupervision.  The    *)
(* health loop is one task: while it awaits a probe it neither notices an  *)
(* exit nor takes another snapshot, and everybody else goes on, so the     *)
(* result may concern a node that has left the table.  The streaks are in  *)
(* health_map, a local of health_loop; the statuses in the NodeTable.      *)
(***************************************************************************)
EXTENDS NodeSupervision, Sequences

CONSTANTS
  Checked,           \* the node ids spawned with a health_check
  NoProbe,           \* the health loop awaits no probe
  SuccessThreshold,  \* HealthCheck::success_threshold
  FailureThreshold   \* HealthCheck::failure_threshold

ASSUME CheckedAssumption    == Checked \subseteq Nodes
ASSUME NoProbeAssumption    == NoProbe \notin Handle
ASSUME ThresholdsAssumption == /\ SuccessThreshold \in Nat
                               /\ FailureThreshold \in Nat

VARIABLES
  health,    \* NodeTable.health_statuses; "Unknown" where it has no entry
  streak,    \* health_map: consec_pass and consec_fail of each id
  probe,     \* the snapshot entry whose probe is awaited
  healthOf,  \* the process each status was measured on (history)
  results    \* the last probe results of each id, oldest first (history)

probingVars == <<health, streak, probe, healthOf, results>>
allProbingVars == <<vars, probingVars>>

\* How many results the history keeps: as many as a threshold may ask for.
Kept == IF SuccessThreshold > FailureThreshold THEN SuccessThreshold
                                               ELSE FailureThreshold

ProbingTypeOK ==
  /\ health \in [Nodes -> {"Unknown", "Healthy", "Unhealthy"}]
  /\ streak \in [Nodes -> [pass : 0 .. SuccessThreshold,
                           fail : 0 .. FailureThreshold]]
  /\ probe \in Handle \cup {NoProbe}
  /\ healthOf \in [Nodes -> Incs]
  /\ results \in [Nodes -> Seq(BOOLEAN)]

\* What a daemon starts with.
ProbingFresh ==
  [health  |-> [n \in Nodes |-> "Unknown"],
   streak  |-> [n \in Nodes |-> [pass |-> 0, fail |-> 0]],
   results |-> [n \in Nodes |-> <<>>]]

ProbingInit ==
  /\ Init
  /\ health = ProbingFresh.health
  /\ streak = ProbingFresh.streak
  /\ probe = NoProbe
  /\ healthOf = [n \in Nodes |-> 0]
  /\ results = ProbingFresh.results

---------------------------------------------------------------------------
\* Mutant: the status stays behind when the node leaves the table.
StatusStays == health

\* NodeTable::remove takes the status with the handle it finds.
StatusCleared ==
  [n \in Nodes |-> IF InTable(n) /\ ~InTable(n)' THEN "Unknown" ELSE health[n]]

\* Mutant: a result of the other kind does not break the streak.
KeepsOther(s, passed) ==
  IF passed THEN [s EXCEPT !.pass = IF @ < SuccessThreshold THEN @ + 1 ELSE @]
            ELSE [s EXCEPT !.fail = IF @ < FailureThreshold THEN @ + 1 ELSE @]

\* One counter goes up and the other back to 0.  A counter stops at its
\* threshold, from which on it tells nothing new.
Counted(s, passed) ==
  IF passed
    THEN [pass |-> IF s.pass < SuccessThreshold THEN s.pass + 1 ELSE s.pass,
          fail |-> 0]
    ELSE [pass |-> 0,
          fail |-> IF s.fail < FailureThreshold THEN s.fail + 1 ELSE s.fail]

\* The counter that went up has reached its threshold.
Decides(s, passed) == IF passed THEN s.pass >= SuccessThreshold
                                ELSE s.fail >= FailureThreshold

Verdict(passed) == IF passed THEN "Healthy" ELSE "Unhealthy"

Remember(r, passed) ==
  LET all == Append(r, passed) IN IF Len(all) > Kept THEN Tail(all) ELSE all

\* The process looks alive and its check is due: the loop awaits the probe.
ProbeBegin(e) ==
  /\ probe = NoProbe
  /\ e.node \in Checked
  /\ ScanSkip(e)
  /\ probe' = e
  /\ UNCHANGED <<health, streak, healthOf, results>>

\* The probe passed, failed or timed out.  set_health writes whatever became
\* of the node meanwhile.
ProbeEnds(passed) ==
  /\ probe # NoProbe
  /\ LET n == probe.node
         s == Counted(streak[n], passed)
     IN /\ streak' = [streak EXCEPT ![n] = s]
        /\ IF Decides(s, passed)
             THEN /\ health' = [health EXCEPT ![n] = Verdict(passed)]
                  /\ healthOf' = [healthOf EXCEPT ![n] = probe.inc]
             ELSE UNCHANGED <<health, healthOf>>
        /\ results' = [results EXCEPT ![n] = Remember(@, passed)]
  /\ probe' = NoProbe
  /\ UNCHANGED vars

\* Everyone else, and the health loop when it awaits no probe.
Others ==
  /\ SupervisionStep \/ ReconcilerStep
  /\ probe # NoProbe => UNCHANGED scan
  /\ health' = StatusCleared
  /\ UNCHANGED <<streak, probe, healthOf, results>>

\* Table and health_map die with the daemon.
ProbingRestarts ==
  /\ CoreRestarts
  /\ health' = ProbingFresh.health
  /\ streak' = ProbingFresh.streak
  /\ probe' = NoProbe
  /\ results' = ProbingFresh.results
  /\ UNCHANGED healthOf

ProbeStep == (\E e \in scan : ProbeBegin(e))
             \/ \E passed \in BOOLEAN : ProbeEnds(passed)

ProbingNext == ProbeStep \/ Others \/ ProbingRestarts

ProbingSpec == ProbingInit /\ [][ProbingNext]_allProbingVars

---------------------------------------------------------------------------
(* Properties.                                                             *)

\* The health shown for a node is that of the process it now has, although
\* statuses are written after an await and by node id: a restart begins with
\* Unknown, and no late probe of the process before it can say otherwise.
HealthIsCurrent ==
  \A h \in nodes :
    health[h.node] # "Unknown" => healthOf[h.node] = h.inc

LastAre(r, k, v) == Len(r) >= k /\ \A i \in Len(r) - k + 1 .. Len(r) : r[i] = v

\* A node turns Healthy or Unhealthy only after the threshold's number of
\* probe results in a row, counted anew after each result of the other kind.
StatusEarned ==
  [][\A n \in Nodes : health'[n] # health[n] =>
       /\ health'[n] = "Healthy" => LastAre(results'[n], SuccessThreshold, TRUE)
       /\ health'[n] = "Unhealthy" =>
            LastAre(results'[n], FailureThreshold, FALSE)]_allProbingVars
=============================================================================
