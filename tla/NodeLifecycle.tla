--------------------------- MODULE NodeLifecycle ---------------------------
(***************************************************************************)
(* What the supervision of nodes promises about one node id, without the   *)
(* tasks, tables and locks that bring it about.  An id lives once: it is   *)
(* drawn, spawned, tracked, restarted at most MaxRestarts times, and gone. *)
(* It has one process at most, and a restart begins when that process is   *)
(* dead.  A kill ends the process, and a daemon that dies takes it along   *)
(* unless it had escaped before; where processes outlive their keepers,    *)
(* either may leave it, as the last one of an id that is gone.             *)
(***************************************************************************)
EXTENDS Integers

CONSTANTS
  Nodes,        \* the node ids
  MaxRestarts,  \* the largest restart budget
  Outlives      \* whether a process may outlive its kill and its daemon

VARIABLES
  life,      \* how far each id has come
  attempt,   \* the restarts an id has behind it while somebody answers for it
  alive      \* the ids with a live process

vars == <<life, attempt, alive>>

Init ==
  /\ life = [n \in Nodes |-> "new"]
  /\ attempt = [n \in Nodes |-> 0]
  /\ alive = {}

Becomes(n, l, a) ==
  /\ life' = [life EXCEPT ![n] = l]
  /\ attempt' = [attempt EXCEPT ![n] = a]

Draw(n) ==
  /\ life[n] = "new"
  /\ Becomes(n, "spawning", 0)
  /\ UNCHANGED alive

Launch(n) ==
  /\ life[n] \in {"spawning", "restarting"}
  /\ n \notin alive
  /\ alive' = alive \cup {n}
  /\ UNCHANGED <<life, attempt>>

\* By now the process may have exited again.
Track(n) ==
  /\ life[n] \in {"spawning", "restarting"}
  /\ Becomes(n, "tracked", attempt[n])
  /\ UNCHANGED alive

\* A spawn fails, with or without a process left behind.
GiveUp(n) ==
  /\ life[n] \in {"spawning", "restarting"}
  /\ Becomes(n, "gone", 0)
  /\ n \notin alive
  /\ alive' \in {alive, alive \cup {n}}

TakeOut(n) ==
  /\ life[n] = "tracked"
  /\ Becomes(n, "killing", attempt[n])
  /\ UNCHANGED alive

Terminate(n) ==
  /\ life[n] = "killing"
  /\ Becomes(n, "gone", 0)
  /\ \/ alive' = alive \ {n}
     \/ Outlives /\ UNCHANGED alive

\* An exit is noticed: never while the process lives.
NoticeExit(n) ==
  /\ life[n] = "tracked"
  /\ n \notin alive
  /\ \/ Becomes(n, "gone", 0)
     \/ attempt[n] < MaxRestarts /\ Becomes(n, "restarting", attempt[n] + 1)
  /\ UNCHANGED alive

Exit(n) ==
  /\ n \in alive
  /\ alive' = alive \ {n}
  /\ UNCHANGED <<life, attempt>>

DaemonDies ==
  /\ life' = [n \in Nodes |-> IF life[n] = "new" THEN "new" ELSE "gone"]
  /\ attempt' = [n \in Nodes |-> 0]
  /\ alive' = {n \in alive : Outlives \/ life[n] = "gone"}

Next ==
  \/ \E n \in Nodes : \/ Draw(n) \/ Launch(n) \/ Track(n) \/ GiveUp(n)
                      \/ TakeOut(n) \/ Terminate(n) \/ NoticeExit(n)
                      \/ Exit(n)
  \/ DaemonDies

Spec == Init /\ [][Next]_vars
=============================================================================
