------------------------ MODULE ClusterCoordination ------------------------
(***************************************************************************)
(* The ClusterCoordinator of each mesh peer (veloce-mesh, control.rs): a    *)
(* term, a role and the leader it recognises, each behind a lock of its    *)
(* own, and the two calls that write them, promote_to_leader and           *)
(* handle_heartbeat.                                                       *)
(*                                                                         *)
(* A step is what happens between two places where another task can run:   *)
(* one atomic operation or one lock taken and released.  What carries an   *)
(* announcement to handle_heartbeat is outside the code: it may come late, *)
(* again, out of order or never.                                           *)
(***************************************************************************)
EXTENDS Integers

CONSTANTS
  Peers,
  Tasks,        \* Tasks[p]: what may call the coordinator of p at one time
  None,         \* Option::None, and a task outside both calls
  MaxTerm,      \* bound on the terms
  MaxRestarts   \* bound on the restarts of one peer

ASSUME NoneAssumption   == None \notin Peers
ASSUME BoundsAssumption == MaxTerm \in Nat /\ MaxRestarts \in Nat

Terms == 0 .. MaxTerm

\* A call under way, named by the step it takes next.
Call == [step : {"takeRole", "nameSelf", "store", "follow", "resign"},
         leader : Peers, term : Terms]

ASSUME CallAssumption == None \notin Call

VARIABLES
  term,        \* current_term of each peer
  leader,      \* leader_id
  role,        \* role; Candidate is never written
  calls,       \* the calls under way in each peer
  announced,   \* what promote_to_leader has returned, with its peer
  epoch,       \* how often each peer has restarted
  setBack      \* history: the peers whose term a store has lowered in this life

vars == <<term, leader, role, calls, announced, epoch, setBack>>

TypeOK ==
  /\ term \in [Peers -> Terms]
  /\ leader \in [Peers -> Peers \cup {None}]
  /\ role \in [Peers -> {"Follower", "Leader"}]
  /\ calls = [p \in Peers |-> calls[p]]
  /\ \A p \in Peers : calls[p] \in [Tasks[p] -> Call \cup {None}]
  /\ announced \in SUBSET (Peers \X Terms)
  /\ epoch \in [Peers -> 0 .. MaxRestarts]
  /\ setBack \subseteq Peers

Init ==
  /\ term = [p \in Peers |-> 0]
  /\ leader = [p \in Peers |-> None]
  /\ role = [p \in Peers |-> "Follower"]
  /\ calls = [p \in Peers |-> [k \in Tasks[p] |-> None]]
  /\ announced = {}
  /\ epoch = [p \in Peers |-> 0]
  /\ setBack = {}

---------------------------------------------------------------------------
(* Helpers.                                                                *)

\* Task k of p goes on with c, or is done with its call.
Continue(p, k, c) == calls' = [calls EXCEPT ![p][k] = c]
Done(p, k)        == Continue(p, k, None)

At(p, k, step) == calls[p][k] # None /\ calls[p][k].step = step

Promoting(p, k) == At(p, k, "takeRole") \/ At(p, k, "nameSelf")

\* Mutant: only announcements of higher terms are accepted.
AcceptsHigher(p, t) == t > term[p]

Accepts(p, t) == t >= term[p]

\* Mutant: the term a promotion returns is the one it found.
OldTerm(p) == term[p]

NewTerm(p) == term[p] + 1

---------------------------------------------------------------------------
(* promote_to_leader.                                                      *)

Promote(p, k) ==
  /\ calls[p][k] = None
  /\ term[p] < MaxTerm
  /\ term' = [term EXCEPT ![p] = NewTerm(p)]
  /\ Continue(p, k, [step |-> "takeRole", leader |-> p, term |-> NewTerm(p)])
  /\ UNCHANGED <<leader, role, announced, epoch, setBack>>

TakeRole(p, k) ==
  /\ At(p, k, "takeRole")
  /\ role' = [role EXCEPT ![p] = "Leader"]
  /\ Continue(p, k, [calls[p][k] EXCEPT !.step = "nameSelf"])
  /\ UNCHANGED <<term, leader, announced, epoch, setBack>>

\* The call returns its term, and whoever made it may announce it.
NameSelf(p, k) ==
  /\ At(p, k, "nameSelf")
  /\ leader' = [leader EXCEPT ![p] = p]
  /\ announced' = announced \cup {<<p, calls[p][k].term>>}
  /\ Done(p, k)
  /\ UNCHANGED <<term, role, epoch, setBack>>

---------------------------------------------------------------------------
(* handle_heartbeat; one that is refused changes nothing.                  *)

Heartbeat(p, k, l, t) ==
  /\ calls[p][k] = None
  /\ Accepts(p, t)
  /\ Continue(p, k, [step |-> "store", leader |-> l, term |-> t])
  /\ UNCHANGED <<term, leader, role, announced, epoch, setBack>>

StoreTerm(p, k) ==
  /\ At(p, k, "store")
  /\ term' = [term EXCEPT ![p] = calls[p][k].term]
  /\ Continue(p, k, [calls[p][k] EXCEPT !.step = "follow"])
  /\ setBack' = IF calls[p][k].term < term[p] THEN setBack \cup {p} ELSE setBack
  /\ UNCHANGED <<leader, role, announced, epoch>>

\* Mutant: the role stays.
NamesOnly(p, k) ==
  /\ At(p, k, "follow")
  /\ leader' = [leader EXCEPT ![p] = calls[p][k].leader]
  /\ Done(p, k)
  /\ UNCHANGED <<term, role, announced, epoch, setBack>>

Follow(p, k) ==
  /\ At(p, k, "follow")
  /\ leader' = [leader EXCEPT ![p] = calls[p][k].leader]
  /\ IF calls[p][k].leader = p
       THEN Done(p, k)
       ELSE Continue(p, k, [calls[p][k] EXCEPT !.step = "resign"])
  /\ UNCHANGED <<term, role, announced, epoch, setBack>>

Resign(p, k) ==
  /\ At(p, k, "resign")
  /\ role' = [role EXCEPT ![p] = "Follower"]
  /\ Done(p, k)
  /\ UNCHANGED <<term, leader, announced, epoch, setBack>>

\* Nothing is persisted: a peer comes back as new.
Restart(p) ==
  /\ epoch[p] < MaxRestarts
  /\ epoch' = [epoch EXCEPT ![p] = @ + 1]
  /\ term' = [term EXCEPT ![p] = 0]
  /\ leader' = [leader EXCEPT ![p] = None]
  /\ role' = [role EXCEPT ![p] = "Follower"]
  /\ calls' = [calls EXCEPT ![p] = [k \in Tasks[p] |-> None]]
  /\ setBack' = setBack \ {p}
  /\ UNCHANGED announced

---------------------------------------------------------------------------
CallStep(p, k) ==
  \/ TakeRole(p, k) \/ NameSelf(p, k)
  \/ StoreTerm(p, k) \/ Follow(p, k) \/ Resign(p, k)

Next ==
  \E p \in Peers :
    \/ Restart(p)
    \/ \E k \in Tasks[p] :
         \/ Promote(p, k)
         \/ \E a \in announced : Heartbeat(p, k, a[1], a[2])
         \/ CallStep(p, k)

Spec == Init /\ [][Next]_vars

\* A call goes on once it is made; the partition has healed: a peer that
\* leads repeats what it announced for the term it is in until each of the
\* others has taken it.  Nobody is obliged to promote itself.
Fairness ==
  \A p \in Peers :
    /\ \A k \in Tasks[p] : WF_vars(CallStep(p, k))
    /\ \A l \in Peers \ {p} :
         SF_vars(\E k \in Tasks[p] : /\ role[l] = "Leader"
                                     /\ <<l, term[l]>> \in announced
                                     /\ Heartbeat(p, k, l, term[l]))

FairSpec == Spec /\ Fairness

---------------------------------------------------------------------------
(* Properties.                                                             *)

Idle(p) == \A k \in Tasks[p] : calls[p][k] = None

Announced(t) == \E q \in Peers : <<q, t>> \in announced

\* The three locks are never left telling different stories, whatever calls
\* overlap.  A peer leads under another leader only while a promotion is
\* about to name it or a heartbeat to take its role.  Who is recognised has
\* announced a leadership; and the term of a peer between calls is one that
\* was announced, though by which leader two calls at once do not say.
Recognises(p) ==
  /\ role[p] = "Leader" /\ leader[p] # p =>
       \E k \in Tasks[p] : At(p, k, "nameSelf") \/ At(p, k, "resign")
  /\ leader[p] # None => \E t \in Terms : <<leader[p], t>> \in announced
  /\ Idle(p) => term[p] = 0 \/ Announced(term[p])

LeaderIsRecognised == \A p \in Peers : Recognises(p)

\* A running peer never returns one term from two promotions, whatever
\* promotions run beside one another and whatever announcements it takes
\* between them: its terms name its leaderships.  The exception is a peer
\* whose term a heartbeat, checked before a promotion raised the term and
\* stored after it, has set back.
NewLeadership ==
  [][\A p \in Peers : \A k \in Tasks[p] :
       NameSelf(p, k) /\ epoch[p] = 0 /\ p \notin setBack =>
         <<p, calls[p][k].term>> \notin announced]_vars

\* p leads in a term that is not its own: while its promotion was under way a
\* heartbeat stored another peer's term, and every peer that announced that
\* term has restarted since.  What p announced is of a term it has left, and
\* nobody repeats the one it is in.
Stranded(p) ==
  /\ role[p] = "Leader" /\ <<p, term[p]>> \notin announced
  /\ \A q \in Peers : <<q, term[p]>> \in announced => epoch[q] > 0

\* consensus_test.rs: "Split-Brain Leadership Resignation upon Partition
\* Heal": once nobody promotes itself any more, two peers do not lead for
\* good, unless one of them is stranded.
SplitBrainHeals ==
  []<>(\A p, q \in Peers : role[p] = "Leader" /\ role[q] = "Leader" =>
         p = q \/ Stranded(p) \/ Stranded(q))

\* Where the term of p comes from.
TermKnown(p) ==
  \/ term[p] = 0 \/ Announced(term[p])
  \/ \E k \in Tasks[p] : Promoting(p, k) /\ calls[p][k].term = term[p]

\* A call under way has what it was made with.
CallConsistent(p, k) ==
  /\ Promoting(p, k) => calls[p][k].leader = p
  /\ calls[p][k] # None /\ ~Promoting(p, k) =>
       <<calls[p][k].leader, calls[p][k].term>> \in announced

\* Until p restarts or is set back, what it has announced is not ahead of it,
\* and the terms its promotions are about to announce are neither ahead of it
\* nor announced, nor those of one another.
TermsAreNew(p) ==
  epoch[p] = 0 /\ p \notin setBack =>
    /\ \A t \in Terms : <<p, t>> \in announced => t <= term[p]
    /\ \A k \in Tasks[p] : Promoting(p, k) =>
         /\ calls[p][k].term <= term[p]
         /\ <<p, calls[p][k].term>> \notin announced
         /\ \A j \in Tasks[p] \ {k} :
              Promoting(p, j) => calls[p][j].term # calls[p][k].term

\* The inductive strengthening.
IInv ==
  /\ TypeOK /\ LeaderIsRecognised
  /\ \A p \in Peers :
       /\ TermKnown(p) /\ TermsAreNew(p)
       /\ \A k \in Tasks[p] : CallConsistent(p, k)
=============================================================================
