------------------------------ MODULE LeaseLock ------------------------------
(***************************************************************************)
(* Lease locks with fencing tokens (veloce-mesh, kv.rs: acquire_lock and   *)
(* release_lock), as a client session sees them.  Every daemon (peer) keeps *)
(* a lock table and a token counter of its own, in memory only.            *)
(*                                                                         *)
(* acquire_lock reads the clock first and takes the table's lock after, so *)
(* the time it decides with may be old by the time it decides; its answer  *)
(* then reaches the client later still.  Hence three steps per call: the   *)
(* clock is read (AskLock), the table changes (AcquireLock), the client    *)
(* learns the outcome (LearnOutcome).  A client believes it holds a lease  *)
(* until the expiry it was last told, or until it asks for its release.    *)
(***************************************************************************)
EXTENDS Integers

CONSTANTS
  Peers,        \* daemons
  Sessions,     \* clients, one call at a time each
  Keys,
  Holders,      \* holder names
  PeerOf,       \* session -> the daemon it is connected to
  HolderOf,     \* session -> the holder name it sends
  Ttl,          \* session -> the ttl_secs it asks for, at least 1
  None,         \* Option::None
  MaxTime,      \* bound on the clock
  MaxFence,     \* bound on the tokens one process hands out
  MaxRestarts   \* bound on the restarts of one daemon

ASSUME SessionAssumption ==
  /\ PeerOf \in [Sessions -> Peers]
  /\ HolderOf \in [Sessions -> Holders]
  /\ Ttl \in [Sessions -> Nat \ {0}]
ASSUME BoundsAssumption ==
  MaxTime \in Nat /\ MaxFence \in Nat /\ MaxRestarts \in Nat

\* Clients of one daemon use different holder names: a lock is re-entrant
\* for its name, so two users of a name are one holder as far as it goes.
ASSUME HolderAssumption ==
  \A s, t \in Sessions :
    PeerOf[s] = PeerOf[t] /\ HolderOf[s] = HolderOf[t] => s = t

VARIABLES
  now,        \* SystemTime::now in seconds, the same on every daemon and
              \* never set back
  locks,      \* MeshKvStore.locks
  nextFence,  \* MeshKvStore.next_fence
  epoch,      \* how often each daemon has restarted (history)
  call,       \* the acquire_lock call each session has under way
  lease,      \* the lease each session believes it has on each key
  granted     \* every token ever handed out (history)

vars == <<now, locks, nextFence, epoch, call, lease, granted>>

Time == 0 .. MaxTime

Lock  == [holder : Holders, fence : Nat, expires : Nat]
Lease == [fence : Nat, expires : Nat, epoch : Nat]
Call  == [stage : {"asked"}, key : Keys, at : Nat]
           \cup [stage : {"answered"}, key : Keys, ok : BOOLEAN, fence : Nat,
                 expires : Nat]
Grant == [peer : Peers, epoch : Nat, key : Keys, holder : Holders,
          fence : Nat]

ASSUME NoneAssumption == None \notin Lock /\ None \notin Lease /\ None \notin Call

TypeOK ==
  /\ now \in Time
  /\ locks \in [Peers -> [Keys -> Lock \cup {None}]]
  /\ nextFence \in [Peers -> 1 .. MaxFence + 1]
  /\ epoch \in [Peers -> 0 .. MaxRestarts]
  /\ call \in [Sessions -> Call \cup {None}]
  /\ lease \in [Sessions -> [Keys -> Lease \cup {None}]]
  /\ granted \in SUBSET Grant

\* AtomicU64::new(1).
FirstFence == 1

Init ==
  /\ now = 0
  /\ locks = [p \in Peers |-> [k \in Keys |-> None]]
  /\ nextFence = [p \in Peers |-> FirstFence]
  /\ epoch = [p \in Peers |-> 0]
  /\ call = [s \in Sessions |-> None]
  /\ lease = [s \in Sessions |-> [k \in Keys |-> None]]
  /\ granted = {}

---------------------------------------------------------------------------
Asked(s)    == call[s] # None /\ call[s].stage = "asked"
Answered(s) == call[s] # None /\ call[s].stage = "answered"

\* acquire_lock reads the clock.
AskLock(s, k) ==
  /\ call[s] = None
  /\ call' = [call EXCEPT ![s] = [stage |-> "asked", key |-> k, at |-> now]]
  /\ UNCHANGED <<now, locks, nextFence, epoch, lease, granted>>

\* `lock.expires_at > now`, with the time that was read.
Live(l, at) == l # None /\ l.expires > at

\* Mutant: taking over an expired lock keeps its token.
RenewsExpired(l, h, at) == l # None

\* The holder itself comes back in time: the token stays.
Renews(l, h, at) == Live(l, at) /\ l.holder = h

\* Held by someone else: (false, 0, expires_at).
Refuse(s) ==
  /\ Asked(s)
  /\ LET p == PeerOf[s]
         k == call[s].key
         l == locks[p][k]
     IN /\ Live(l, call[s].at)
        /\ l.holder # HolderOf[s]
        /\ call' = [call EXCEPT ![s] = [stage |-> "answered", key |-> k,
                                        ok |-> FALSE, fence |-> 0,
                                        expires |-> l.expires]]
  /\ UNCHANGED <<now, locks, nextFence, epoch, lease, granted>>

\* Renewed under the old token, or acquired under a new one.
AcquireLock(s) ==
  /\ Asked(s)
  /\ LET p       == PeerOf[s]
         k       == call[s].key
         l       == locks[p][k]
         renewal == Renews(l, HolderOf[s], call[s].at)
         fence   == IF renewal THEN l.fence ELSE nextFence[p]
         expires == call[s].at + Ttl[s]
     IN /\ Live(l, call[s].at) => l.holder = HolderOf[s]
        /\ fence <= MaxFence
        /\ locks' = [locks EXCEPT ![p][k] =
                       [holder |-> HolderOf[s], fence |-> fence,
                        expires |-> expires]]
        /\ nextFence' = IF renewal THEN nextFence
                                   ELSE [nextFence EXCEPT ![p] = @ + 1]
        /\ granted' = granted \cup {[peer |-> p, epoch |-> epoch[p],
                                     key |-> k, holder |-> HolderOf[s],
                                     fence |-> fence]}
        /\ call' = [call EXCEPT ![s] = [stage |-> "answered", key |-> k,
                                        ok |-> TRUE, fence |-> fence,
                                        expires |-> expires]]
  /\ UNCHANGED <<now, epoch, lease>>

LearnOutcome(s) ==
  /\ Answered(s)
  /\ call' = [call EXCEPT ![s] = None]
  /\ lease' = [lease EXCEPT ![s][call[s].key] =
                 IF call[s].ok
                   THEN [fence |-> call[s].fence, expires |-> call[s].expires,
                         epoch |-> epoch[PeerOf[s]]]
                   ELSE None]
  /\ UNCHANGED <<now, locks, nextFence, epoch, granted>>

\* Mutant: the holder is not compared.
MatchesAnyHolder(l, h, f) == l # None /\ (l.fence = f \/ f = 0)

\* The lock release_lock removes: 0 is any token.
Matches(l, h, f) == l # None /\ l.holder = h /\ (l.fence = f \/ f = 0)

\* release_lock, with the token of the lease or with 0.
ReleaseLock(s, k) ==
  /\ call[s] = None
  /\ lease[s][k] # None
  /\ lease' = [lease EXCEPT ![s][k] = None]
  /\ \E f \in {lease[s][k].fence, 0} :
       LET p == PeerOf[s]
           l == locks[p][k]
       IN locks' = IF Matches(l, HolderOf[s], f)
                     THEN [locks EXCEPT ![p][k] = None]
                     ELSE locks
  /\ UNCHANGED <<now, nextFence, epoch, call, granted>>

Tick ==
  /\ now < MaxTime
  /\ now' = now + 1
  /\ UNCHANGED <<locks, nextFence, epoch, call, lease, granted>>

\* The daemon restarts with MeshKvStore::new; calls on it are cut off, but
\* its clients remember what they were told.
Restart(p) ==
  /\ epoch[p] < MaxRestarts
  /\ epoch' = [epoch EXCEPT ![p] = @ + 1]
  /\ locks' = [locks EXCEPT ![p] = [k \in Keys |-> None]]
  /\ nextFence' = [nextFence EXCEPT ![p] = FirstFence]
  /\ call' = [s \in Sessions |-> IF PeerOf[s] = p THEN None ELSE call[s]]
  /\ UNCHANGED <<now, lease, granted>>

Next ==
  \/ Tick
  \/ \E p \in Peers : Restart(p)
  \/ \E s \in Sessions :
       \/ Refuse(s) \/ AcquireLock(s) \/ LearnOutcome(s)
       \/ \E k \in Keys :
            \/ AskLock(s, k)
            \/ ReleaseLock(s, k)

Spec == Init /\ [][Next]_vars

---------------------------------------------------------------------------
(* Properties.                                                             *)

\* The session may still act on the lease.
Believes(s, k) == lease[s][k] # None /\ lease[s][k].expires > now

\* The daemon that granted the lease is still the same process.
SameEpoch(s, k) == lease[s][k].epoch = epoch[PeerOf[s]]

\* Two clients of one daemon never both believe in a lease on a key granted
\* by the process that now runs, although acquire_lock decides with a time
\* read before it has the table and the client learns of it even later.
MutualExclusion ==
  \A s, t \in Sessions, k \in Keys :
    /\ PeerOf[s] = PeerOf[t] /\ s # t
    /\ Believes(s, k) /\ SameEpoch(s, k)
    => ~(Believes(t, k) /\ SameEpoch(t, k))

\* A token is worth more than any the same process gave another holder of
\* the key before: a resource that keeps the highest token it has seen can
\* turn away every earlier holder.
FencesIncrease ==
  [][\A g \in granted' \ granted : \A o \in granted :
       /\ o.peer = g.peer /\ o.epoch = g.epoch
       /\ o.key = g.key /\ o.holder # g.holder
       => o.fence < g.fence]_vars

\* What makes MutualExclusion inductive: an unexpired lease of this epoch is
\* in the table under its holder's name, with an expiry no earlier than the
\* one the client was told; an answer under way is too; and a session's lock
\* was taken with a clock reading older than that of its call under way.
Backed(s, k, expires) ==
  expires > now =>
    LET l == locks[PeerOf[s]][k]
    IN l # None /\ l.holder = HolderOf[s] /\ l.expires >= expires

LeasesBacked ==
  \A s \in Sessions, k \in Keys :
    lease[s][k] # None /\ SameEpoch(s, k) => Backed(s, k, lease[s][k].expires)

LeasesDated ==
  \A s \in Sessions, k \in Keys :
    lease[s][k] # None => lease[s][k].epoch <= epoch[PeerOf[s]]

AnswersBacked ==
  \A s \in Sessions :
    Answered(s) /\ call[s].ok => Backed(s, call[s].key, call[s].expires)

CallsInOrder ==
  \A s \in Sessions :
    Asked(s) =>
      /\ call[s].at <= now
      /\ \A k \in Keys :
           LET l == locks[PeerOf[s]][k]
           IN l # None /\ l.holder = HolderOf[s]
                => l.expires <= call[s].at + Ttl[s]

LocksInTime ==
  \A s \in Sessions, k \in Keys :
    LET l == locks[PeerOf[s]][k]
    IN l # None /\ l.holder = HolderOf[s] => l.expires <= now + Ttl[s]

TokensIssued ==
  /\ \A g \in granted : /\ g.epoch <= epoch[g.peer]
                        /\ g.epoch = epoch[g.peer]
                             => g.fence < nextFence[g.peer]
  /\ \A p \in Peers, k \in Keys :
       locks[p][k] # None =>
         [peer |-> p, epoch |-> epoch[p], key |-> k,
          holder |-> locks[p][k].holder, fence |-> locks[p][k].fence]
           \in granted

IInv ==
  /\ TypeOK /\ LeasesBacked /\ LeasesDated /\ AnswersBacked
  /\ CallsInOrder /\ LocksInTime /\ TokensIssued
=============================================================================
