-------------------------- MODULE LeaseLockProofs --------------------------
(***************************************************************************)
(* Proofs about LeaseLock for any daemons, sessions, keys and ttls.  That  *)
(* two clients never both believe in a lease follows from LeasesBacked:    *)
(* what a client believes is still in the table under its name, and a      *)
(* table has one lock per key.  LeasesBacked needs AnswersBacked, since a  *)
(* lease comes out of an answer, and both need CallsInOrder: a session's   *)
(* own stale clock reading never shortens the lock it already has.         *)
(***************************************************************************)
EXTENDS LeaseLock, TLAPS

\* A fresh daemon has no locks and starts its tokens at 1.
LEMMA TypeInit == Init => TypeOK
  BY BoundsAssumption DEF Init, TypeOK, Time, FirstFence

\* An acquire_lock call that succeeds keeps the table and the answer well
\* typed; its token is within the bound.
LEMMA TypeAcquire ==
  ASSUME TypeOK, NEW s \in Sessions, AcquireLock(s)
  PROVE  TypeOK'
<1> USE SessionAssumption, BoundsAssumption, NoneAssumption
<1> DEFINE p == PeerOf[s]
           k == call[s].key
           l == locks[p][k]
           renewal == Renews(l, HolderOf[s], call[s].at)
           fence == IF renewal THEN l.fence ELSE nextFence[p]
           expires == call[s].at + Ttl[s]
<1>1. p \in Peers /\ k \in Keys /\ call[s].at \in Nat
  BY DEF TypeOK, AcquireLock, Asked, Call
<1>2. fence \in Nat /\ expires \in Nat
  BY <1>1 DEF TypeOK, Renews, Live, Lock
<1>3. [holder |-> HolderOf[s], fence |-> fence, expires |-> expires] \in Lock
  BY <1>2 DEF Lock
<1>4. locks' \in [Peers -> [Keys -> Lock \cup {None}]]
  BY <1>1, <1>3 DEF TypeOK, AcquireLock
<1>5. nextFence' \in [Peers -> 1 .. MaxFence + 1]
  BY <1>1 DEF TypeOK, AcquireLock
<1>6. call' \in [Sessions -> Call \cup {None}]
  BY <1>1, <1>2 DEF TypeOK, AcquireLock, Call
<1>7. granted' \in SUBSET Grant
  <2>1. [peer |-> p, epoch |-> epoch[p], key |-> k, holder |-> HolderOf[s],
         fence |-> fence] \in Grant
    BY <1>1, <1>2 DEF TypeOK, Grant
  <2>2. QED
    BY <2>1 DEF TypeOK, AcquireLock
<1>8. QED
  BY <1>4, <1>5, <1>6, <1>7 DEF TypeOK, AcquireLock

\* Every step of a call, the clock and a daemon restart keep the types.
LEMMA TypeStep == TypeOK /\ [Next]_vars => TypeOK'
<1> SUFFICES ASSUME TypeOK, [Next]_vars PROVE TypeOK'
  OBVIOUS
<1> USE SessionAssumption, BoundsAssumption, NoneAssumption
<1>1. CASE Tick
  BY <1>1 DEF Tick, TypeOK, Time
<1>2. ASSUME NEW p \in Peers, Restart(p) PROVE TypeOK'
  BY <1>2 DEF Restart, TypeOK, FirstFence
<1>3. ASSUME NEW s \in Sessions, Refuse(s) PROVE TypeOK'
  <2>1. call[s] \in Call /\ call[s].key \in Keys
    BY <1>3 DEF Refuse, Asked, TypeOK, Call
  <2>2. locks[PeerOf[s]][call[s].key].expires \in Nat
    BY <1>3, <2>1 DEF Refuse, Live, TypeOK, Lock
  <2>3. call' \in [Sessions -> Call \cup {None}]
    BY <1>3, <2>1, <2>2 DEF Refuse, TypeOK, Call
  <2>4. QED
    BY <1>3, <2>3 DEF Refuse, TypeOK
<1>4. ASSUME NEW s \in Sessions, AcquireLock(s) PROVE TypeOK'
  BY <1>4, TypeAcquire
<1>5. ASSUME NEW s \in Sessions, LearnOutcome(s) PROVE TypeOK'
  <2>1. /\ call[s] \in Call /\ call[s].key \in Keys
        /\ call[s].fence \in Nat /\ call[s].expires \in Nat
    BY <1>5 DEF LearnOutcome, Answered, TypeOK, Call
  <2>2. epoch[PeerOf[s]] \in Nat
    BY DEF TypeOK
  <2>3. [fence |-> call[s].fence, expires |-> call[s].expires,
         epoch |-> epoch[PeerOf[s]]] \in Lease
    BY <2>1, <2>2 DEF Lease
  <2>4. lease' \in [Sessions -> [Keys -> Lease \cup {None}]]
    BY <1>5, <2>1, <2>3 DEF LearnOutcome, TypeOK
  <2>5. QED
    BY <1>5, <2>4 DEF LearnOutcome, TypeOK
<1>6. ASSUME NEW s \in Sessions, NEW k \in Keys, AskLock(s, k) PROVE TypeOK'
  <2>1. [stage |-> "asked", key |-> k, at |-> now] \in Call
    BY DEF TypeOK, Time, Call
  <2>2. QED
    BY <1>6, <2>1 DEF AskLock, TypeOK
<1>7. ASSUME NEW s \in Sessions, NEW k \in Keys, ReleaseLock(s, k)
      PROVE  TypeOK'
  BY <1>7 DEF ReleaseLock, TypeOK
<1>8. CASE UNCHANGED vars
  BY <1>8 DEF vars, TypeOK
<1>9. QED
  BY <1>1, <1>2, <1>3, <1>4, <1>5, <1>6, <1>7, <1>8 DEF Next

\* The lock tables, the tokens and the calls under way are always well typed.
THEOREM TypeCorrect == Spec => []TypeOK
<1>1. Init => TypeOK
  BY TypeInit
<1>2. TypeOK /\ [Next]_vars => TypeOK'
  BY TypeStep
<1>3. QED
  BY <1>1, <1>2, PTL DEF Spec

---------------------------------------------------------------------------
\* The inductive invariant holds of fresh daemons.
LEMMA IInvInit == Init => IInv
  BY TypeInit, SessionAssumption
  DEF Init, IInv, TypeOK, FirstFence, LeasesBacked, LeasesDated, AnswersBacked,
      Answered, Asked, CallsInOrder, LocksInTime, TokensIssued

\* A call of acquire_lock that takes or renews the lock keeps the invariant:
\* whoever was backed by the lock it overwrites is the caller itself, whose
\* old expiry is no later than the new one, or has seen its lease expire.
LEMMA AcquireKeepsIInv ==
  ASSUME IInv, NEW s \in Sessions, AcquireLock(s)
  PROVE  IInv'
<1> USE SessionAssumption, BoundsAssumption, NoneAssumption DEF IInv
<1>1. TypeOK'
  BY TypeAcquire
<1> DEFINE p == PeerOf[s]
           k == call[s].key
           l == locks[p][k]
           renewal == Renews(l, HolderOf[s], call[s].at)
           fence == IF renewal THEN l.fence ELSE nextFence[p]
           expires == call[s].at + Ttl[s]
           new == [holder |-> HolderOf[s], fence |-> fence,
                   expires |-> expires]
<1>2. /\ p \in Peers /\ k \in Keys /\ call[s].at \in Nat /\ now \in Nat
      /\ call[s].at <= now
  <2>1. Asked(s) /\ now \in Nat
    BY DEF AcquireLock, TypeOK, Time
  <2>2. call[s] \in Call /\ call[s].stage = "asked"
    BY <2>1 DEF Asked, TypeOK
  <2>3. call[s].key \in Keys /\ call[s].at \in Nat
    BY <2>2 DEF Call
  <2>4. QED
    BY <2>1, <2>3 DEF CallsInOrder
<1>3. fence \in Nat /\ expires \in Nat
  BY <1>2 DEF TypeOK, Renews, Live, Lock
<1>4. new \in Lock /\ new # None
  BY <1>3 DEF Lock
<1>5. /\ locks' = [locks EXCEPT ![p][k] = new]
      /\ call' = [call EXCEPT ![s] = [stage |-> "answered", key |-> k,
                                      ok |-> TRUE, fence |-> fence,
                                      expires |-> expires]]
      /\ Live(l, call[s].at) => l.holder = HolderOf[s]
      /\ UNCHANGED <<now, epoch, lease>>
  BY DEF AcquireLock
<1>6. /\ locks'[p][k] = new
      /\ \A q \in Peers, j \in Keys :
           q # p \/ j # k => locks'[q][j] = locks[q][j]
  BY <1>2, <1>5 DEF TypeOK
<1>7. ASSUME NEW t \in Sessions, NEW j \in Keys, NEW x \in Nat,
             Backed(t, j, x)
      PROVE  Backed(t, j, x)'
  <2>1. CASE PeerOf[t] # p \/ j # k
    BY <1>5, <1>6, <1>7, <2>1 DEF Backed
  <2>2. CASE PeerOf[t] = p /\ j = k /\ x > now
    <3>1. l # None /\ l.holder = HolderOf[t] /\ l.expires >= x
      BY <1>7, <2>2 DEF Backed
    <3>2. l.expires \in Nat
      BY <1>2, <3>1 DEF TypeOK, Lock
    <3>3. Live(l, call[s].at)
      BY <1>2, <2>2, <3>1, <3>2 DEF Live
    <3>4. t = s
      BY <1>5, <2>2, <3>1, <3>3, HolderAssumption
    <3>5. l.expires <= expires
      BY <1>2, <3>1, <3>4 DEF CallsInOrder, AcquireLock
    <3>6. new.holder = HolderOf[t] /\ new.expires >= x
      BY <1>3, <3>1, <3>2, <3>4, <3>5
    <3>7. QED
      BY <1>4, <1>6, <2>2, <3>6 DEF Backed
  <2>3. CASE ~(x > now)
    BY <1>5, <2>3 DEF Backed
  <2>4. QED
    BY <2>1, <2>2, <2>3
<1> HIDE DEF new, expires, fence, renewal, l
<1>8. LeasesBacked'
  <2>1. SUFFICES ASSUME NEW t \in Sessions, NEW j \in Keys,
                        lease[t][j] # None, SameEpoch(t, j)
                 PROVE  Backed(t, j, lease[t][j].expires)'
    BY <1>5 DEF LeasesBacked, SameEpoch
  <2>2. lease[t][j].expires \in Nat
    BY <2>1 DEF TypeOK, Lease
  <2>3. Backed(t, j, lease[t][j].expires)
    BY <2>1 DEF LeasesBacked
  <2>4. QED
    BY <1>5, <1>7, <2>2, <2>3
<1>9. LeasesDated'
  BY <1>5 DEF LeasesDated
<1>10. AnswersBacked'
  <2>1. SUFFICES ASSUME NEW t \in Sessions, Answered(t)', call'[t].ok
                 PROVE  Backed(t, call[t].key, call[t].expires)'
    BY DEF AnswersBacked
  <2>2. CASE t = s
    <3>1. call'[t].key = k /\ call'[t].expires = expires
      BY <1>5, <2>2 DEF TypeOK
    <3>2. locks'[PeerOf[t]][k].holder = HolderOf[t]
      BY <1>6, <2>2 DEF new
    <3>3. locks'[PeerOf[t]][k].expires >= expires
      BY <1>3, <1>6, <2>2 DEF new
    <3>4. QED
      BY <1>4, <1>6, <2>2, <3>1, <3>2, <3>3 DEF Backed
  <2>3. CASE t # s
    <3>1. call'[t] = call[t]
      BY <1>5, <2>3 DEF TypeOK
    <3>2. Answered(t) /\ call[t].ok
      BY <2>1, <3>1 DEF Answered
    <3>3. call[t].key \in Keys /\ call[t].expires \in Nat
      BY <3>2 DEF Answered, TypeOK, Call
    <3>4. Backed(t, call[t].key, call[t].expires)
      BY <3>2 DEF AnswersBacked
    <3>5. QED
      BY <1>7, <3>1, <3>3, <3>4
  <2>4. QED
    BY <2>2, <2>3
<1>11. CallsInOrder'
  <2>1. SUFFICES ASSUME NEW t \in Sessions, Asked(t)'
                 PROVE  /\ call'[t].at <= now'
                        /\ \A j \in Keys :
                             LET m == locks'[PeerOf[t]][j]
                             IN m # None /\ m.holder = HolderOf[t]
                                  => m.expires <= call'[t].at + Ttl[t]
    BY DEF CallsInOrder
  <2>2. t # s /\ call'[t] = call[t]
    BY <1>5, <2>1 DEF Asked, TypeOK
  <2>3. Asked(t)
    BY <2>1, <2>2 DEF Asked
  <2>4. PeerOf[t] = p => HolderOf[t] # new.holder
    BY <2>2, HolderAssumption DEF new
  <2>5. QED
    BY <1>5, <1>6, <2>2, <2>3, <2>4 DEF CallsInOrder
<1>12. LocksInTime'
  <2>1. SUFFICES ASSUME NEW t \in Sessions, NEW j \in Keys,
                        locks'[PeerOf[t]][j] # None,
                        locks'[PeerOf[t]][j].holder = HolderOf[t]
                 PROVE  locks'[PeerOf[t]][j].expires <= now' + Ttl[t]
    BY DEF LocksInTime
  <2>2. CASE PeerOf[t] # p \/ j # k
    BY <1>5, <1>6, <2>1, <2>2 DEF LocksInTime
  <2>3. CASE PeerOf[t] = p /\ j = k
    <3>1. t = s
      BY <1>6, <2>1, <2>3, HolderAssumption DEF new
    <3>2. new.expires <= now + Ttl[s]
      BY <1>2 DEF new, expires
    <3>3. QED
      BY <1>5, <1>6, <2>3, <3>1, <3>2
  <2>4. QED
    BY <2>2, <2>3
<1>13. TokensIssued'
  <2> DEFINE g == [peer |-> p, epoch |-> epoch[p], key |-> k,
                   holder |-> HolderOf[s], fence |-> fence]
  <2>1. granted' = granted \cup {g}
    BY DEF AcquireLock, fence, renewal, l
  <2>2. nextFence[p] \in Nat /\ nextFence' = IF renewal THEN nextFence
                         ELSE [nextFence EXCEPT ![p] = @ + 1]
    BY <1>2 DEF AcquireLock, renewal, l, TypeOK
  <2>3. \A q \in Peers : nextFence'[q] >= nextFence[q]
    BY <1>2, <2>2 DEF TypeOK
  <2>4. fence < nextFence'[p]
    <3>1. CASE renewal
      <4>1. l # None /\ l.holder = HolderOf[s]
        BY <3>1 DEF renewal, Renews, Live
      <4>2. [peer |-> p, epoch |-> epoch[p], key |-> k,
             holder |-> l.holder, fence |-> l.fence] \in granted
        BY <1>2, <4>1 DEF TokensIssued, l
      <4>3. l.fence < nextFence[p]
        BY <1>2, <4>2 DEF TokensIssued
      <4>4. QED
        BY <2>2, <3>1, <4>3 DEF fence
    <3>2. CASE ~renewal
      BY <1>2, <2>2, <3>2 DEF fence, TypeOK
    <3>3. QED
      BY <3>1, <3>2
  <2>5. \A o \in granted : /\ o.epoch <= epoch[o.peer]
                           /\ o.epoch = epoch[o.peer]
                                => o.fence < nextFence[o.peer]
    BY DEF TokensIssued
  <2>6. \A o \in granted : /\ o.peer \in Peers /\ o.fence \in Nat
                           /\ nextFence[o.peer] \in Nat
                           /\ nextFence'[o.peer] \in Nat
    BY <1>1 DEF TypeOK, Grant
  <2>7. \A o \in granted : /\ o.epoch <= epoch[o.peer]
                           /\ o.epoch = epoch[o.peer]
                                => o.fence < nextFence'[o.peer]
    BY <2>3, <2>5, <2>6
  <2>8. g.epoch <= epoch[g.peer] /\ g.fence < nextFence'[g.peer]
    BY <1>2, <2>4 DEF TypeOK
  <2>9. \A o \in granted' : /\ o.epoch <= epoch'[o.peer]
                            /\ o.epoch = epoch'[o.peer]
                                 => o.fence < nextFence'[o.peer]
    BY <1>5, <2>1, <2>7, <2>8
  <2>10. ASSUME NEW q \in Peers, NEW j \in Keys, locks'[q][j] # None
         PROVE  [peer |-> q, epoch |-> epoch'[q], key |-> j,
                 holder |-> locks'[q][j].holder,
                 fence |-> locks'[q][j].fence] \in granted'
    <3>1. CASE q = p /\ j = k
      BY <1>5, <1>6, <2>1, <3>1 DEF new
    <3>2. CASE q # p \/ j # k
      BY <1>5, <1>6, <2>1, <2>10, <3>2 DEF TokensIssued
    <3>3. QED
      BY <3>1, <3>2
  <2>11. QED
    BY <2>9, <2>10 DEF TokensIssued
<1>14. QED
  BY <1>1, <1>8, <1>9, <1>10, <1>11, <1>12, <1>13

\* Everything else a session does, the clock and a daemon restart keep the
\* invariant: time only makes leases expire, and a restart ends the epoch of
\* every lease the lost table backed.
LEMMA IInvStep == IInv /\ [Next]_vars => IInv'
<1> SUFFICES ASSUME IInv, [Next]_vars PROVE IInv'
  OBVIOUS
<1> USE SessionAssumption, BoundsAssumption, NoneAssumption DEF IInv
<1>1. TypeOK'
  BY TypeStep
<1>2. CASE Tick
  <2>1. now \in Nat /\ now' = now + 1
    BY <1>2 DEF Tick, TypeOK, Time
  <2>2. \A t \in Sessions, j \in Keys, x \in Nat :
          Backed(t, j, x) => Backed(t, j, x)'
    BY <1>2, <2>1 DEF Tick, Backed
  <2>3. LeasesBacked' /\ LeasesDated'
    <3>1. \A t \in Sessions, j \in Keys :
            lease[t][j] # None => lease[t][j].expires \in Nat
      BY DEF TypeOK, Lease
    <3>2. UNCHANGED <<lease, epoch>>
      BY <1>2 DEF Tick
    <3>3. QED
      BY <2>2, <3>1, <3>2 DEF LeasesBacked, SameEpoch, LeasesDated
  <2>4. AnswersBacked'
    BY <1>2, <2>2 DEF Tick, AnswersBacked, Answered, TypeOK, Call
  <2>5. CallsInOrder'
    BY <1>2, <2>1 DEF Tick, CallsInOrder, Asked, TypeOK, Call
  <2>6. LocksInTime'
    BY <1>2, <2>1 DEF Tick, LocksInTime, TypeOK, Lock
  <2>7. TokensIssued'
    BY <1>2 DEF Tick, TokensIssued
  <2>8. QED
    BY <1>1, <2>3, <2>4, <2>5, <2>6, <2>7
<1>3. ASSUME NEW p \in Peers, Restart(p) PROVE IInv'
  <2>1. \A q \in Peers :
          q # p => /\ locks'[q] = locks[q]
                   /\ epoch'[q] = epoch[q]
                   /\ nextFence'[q] = nextFence[q]
    BY <1>3 DEF Restart, TypeOK
  <2>2. /\ locks'[p] = [k \in Keys |-> None]
        /\ epoch'[p] = epoch[p] + 1
        /\ now' = now /\ lease' = lease /\ granted' = granted
    BY <1>3 DEF Restart, TypeOK
  <2>3. \A t \in Sessions : IF PeerOf[t] = p THEN call'[t] = None
                                             ELSE call'[t] = call[t]
    BY <1>3 DEF Restart, TypeOK
  <2>4. LeasesBacked' /\ LeasesDated'
    <3>1. epoch[p] \in Nat
      BY DEF TypeOK
    <3>2. \A t \in Sessions, k \in Keys :
            lease[t][k] # None => lease[t][k].epoch \in Nat
      BY DEF TypeOK, Lease
    <3>3. ASSUME NEW t \in Sessions, NEW k \in Keys, lease[t][k] # None,
                 lease[t][k].epoch = epoch'[PeerOf[t]]
          PROVE  PeerOf[t] # p
      BY <2>2, <3>1, <3>2, <3>3 DEF LeasesDated
    <3>4. LeasesBacked'
      BY <2>1, <2>2, <3>3 DEF LeasesBacked, SameEpoch, Backed
    <3>5. LeasesDated'
      BY <2>1, <2>2, <3>1, <3>2 DEF LeasesDated
    <3>6. QED
      BY <3>4, <3>5
  <2>5. AnswersBacked'
    BY <2>1, <2>2, <2>3 DEF AnswersBacked, Answered, Backed
  <2>6. CallsInOrder'
    BY <2>1, <2>2, <2>3 DEF CallsInOrder, Asked
  <2>7. LocksInTime'
    BY <2>1, <2>2 DEF LocksInTime
  <2>8. TokensIssued'
    <3>1. \A q \in Peers : epoch[q] \in Nat
      BY DEF TypeOK
    <3>2. \A g \in granted : g.peer \in Peers /\ g.epoch \in Nat
      BY DEF TypeOK, Grant
    <3>3. ASSUME NEW g \in granted
          PROVE  /\ g.epoch <= epoch'[g.peer]
                 /\ g.epoch = epoch'[g.peer] => g.fence < nextFence'[g.peer]
      BY <2>1, <2>2, <3>1, <3>2 DEF TokensIssued
    <3>4. ASSUME NEW q \in Peers, NEW j \in Keys, locks'[q][j] # None
          PROVE  q # p
      BY <2>2, <3>4
    <3>5. QED
      BY <2>1, <2>2, <3>3, <3>4 DEF TokensIssued
  <2>9. QED
    BY <1>1, <2>4, <2>5, <2>6, <2>7, <2>8
<1>4. ASSUME NEW s \in Sessions, Refuse(s) PROVE IInv'
  <2>1. /\ UNCHANGED <<now, locks, nextFence, epoch, lease, granted>>
        /\ \A t \in Sessions : t # s => call'[t] = call[t]
        /\ ~Asked(s)' /\ (Answered(s)' => ~call'[s].ok)
    BY <1>4 DEF Refuse, TypeOK, Asked, Answered
  <2>2. LeasesBacked' /\ LeasesDated' /\ LocksInTime' /\ TokensIssued'
    BY <2>1
    DEF LeasesBacked, LeasesDated, SameEpoch, Backed, LocksInTime, TokensIssued
  <2>3. AnswersBacked'
    BY <2>1 DEF AnswersBacked, Answered, Backed
  <2>4. CallsInOrder'
    BY <2>1 DEF CallsInOrder, Asked
  <2>5. QED
    BY <1>1, <2>2, <2>3, <2>4
<1>5. ASSUME NEW s \in Sessions, AcquireLock(s) PROVE IInv'
  BY <1>5, AcquireKeepsIInv
<1>6. ASSUME NEW s \in Sessions, LearnOutcome(s) PROVE IInv'
  <2>1. /\ UNCHANGED <<now, locks, nextFence, epoch, granted>>
        /\ \A t \in Sessions :
             t # s => call'[t] = call[t] /\ lease'[t] = lease[t]
        /\ call'[s] = None
    BY <1>6 DEF LearnOutcome, TypeOK
  <2>2. LocksInTime' /\ TokensIssued'
    BY <2>1 DEF LocksInTime, TokensIssued
  <2>3. AnswersBacked' /\ CallsInOrder'
    BY <2>1 DEF AnswersBacked, Answered, Backed, CallsInOrder, Asked
  <2>4. LeasesBacked'
    <3>1. SUFFICES ASSUME NEW t \in Sessions, NEW j \in Keys,
                          lease'[t][j] # None, SameEpoch(t, j)'
                   PROVE  Backed(t, j, lease'[t][j].expires)
      BY <2>1 DEF LeasesBacked, Backed
    <3>2. CASE t = s /\ j = call[s].key
      <4>1. /\ Answered(s) /\ call[s].ok
            /\ lease'[s][j].expires = call[s].expires
        BY <1>6, <3>1, <3>2 DEF LearnOutcome, TypeOK
      <4>2. QED
        BY <3>2, <4>1 DEF AnswersBacked
    <3>3. CASE t # s \/ j # call[s].key
      <4>1. lease'[t][j] = lease[t][j]
        BY <1>6, <3>3 DEF LearnOutcome, TypeOK
      <4>2. QED
        BY <2>1, <3>1, <4>1 DEF LeasesBacked, SameEpoch
    <3>4. QED
      BY <3>2, <3>3
  <2>5. LeasesDated'
    <3>1. ASSUME NEW t \in Sessions, NEW j \in Keys, lease'[t][j] # None
          PROVE  \/ lease'[t][j] = lease[t][j]
                 \/ lease'[t][j].epoch = epoch[PeerOf[t]]
      BY <1>6, <3>1 DEF LearnOutcome, TypeOK
    <3>2. \A q \in Peers : epoch[q] \in Nat
      BY DEF TypeOK
    <3>3. QED
      BY <2>1, <3>1, <3>2 DEF LeasesDated
  <2>6. QED
    BY <1>1, <2>2, <2>3, <2>4, <2>5
<1>7. ASSUME NEW s \in Sessions, NEW k \in Keys, AskLock(s, k) PROVE IInv'
  <2>1. /\ UNCHANGED <<now, locks, nextFence, epoch, lease, granted>>
        /\ \A t \in Sessions : t # s => call'[t] = call[t]
        /\ call'[s] = [stage |-> "asked", key |-> k, at |-> now]
        /\ now \in Nat
    BY <1>7 DEF AskLock, TypeOK, Time
  <2>2. LeasesBacked' /\ LeasesDated' /\ LocksInTime' /\ TokensIssued'
    BY <2>1
    DEF LeasesBacked, LeasesDated, SameEpoch, Backed, LocksInTime, TokensIssued
  <2>3. AnswersBacked'
    BY <2>1 DEF AnswersBacked, Answered, Backed
  <2>4. CallsInOrder'
    BY <2>1 DEF CallsInOrder, Asked, LocksInTime
  <2>5. QED
    BY <1>1, <2>2, <2>3, <2>4
<1>8. ASSUME NEW s \in Sessions, NEW k \in Keys, ReleaseLock(s, k)
      PROVE  IInv'
  <2>1. /\ UNCHANGED <<now, nextFence, epoch, call, granted>>
        /\ call[s] = None
        /\ \A t \in Sessions, j \in Keys :
             lease'[t][j] = IF t = s /\ j = k THEN None ELSE lease[t][j]
    BY <1>8 DEF ReleaseLock, TypeOK
  <2>2. \A q \in Peers, j \in Keys :
          \/ locks'[q][j] = locks[q][j]
          \/ /\ locks'[q][j] = None
             /\ q = PeerOf[s] /\ j = k
             /\ locks[q][j] # None /\ locks[q][j].holder = HolderOf[s]
    BY <1>8 DEF ReleaseLock, Matches, TypeOK
  <2>3. LocksInTime' /\ TokensIssued' /\ CallsInOrder'
    BY <2>1, <2>2 DEF LocksInTime, TokensIssued, CallsInOrder, Asked
  <2>4. \A t \in Sessions, j \in Keys, x \in Nat :
          (t # s \/ j # k) /\ Backed(t, j, x) => Backed(t, j, x)'
    BY <2>1, <2>2, HolderAssumption DEF Backed
  <2>5. LeasesBacked' /\ LeasesDated'
    <3>1. \A t \in Sessions, j \in Keys :
            lease[t][j] # None => lease[t][j].expires \in Nat
      BY DEF TypeOK, Lease
    <3>2. \A t \in Sessions, j \in Keys :
            lease'[t][j] # None =>
              lease'[t][j] = lease[t][j] /\ (t # s \/ j # k)
      BY <2>1
    <3>3. LeasesDated'
      BY <2>1, <3>2 DEF LeasesDated
    <3>4. LeasesBacked'
      BY <2>1, <2>4, <3>1, <3>2 DEF LeasesBacked, SameEpoch
    <3>5. QED
      BY <3>3, <3>4
  <2>6. AnswersBacked'
    BY <2>1, <2>4 DEF AnswersBacked, Answered, TypeOK, Call
  <2>7. QED
    BY <1>1, <2>3, <2>5, <2>6
<1>9. CASE UNCHANGED vars
  BY <1>1, <1>9
  DEF vars, LeasesBacked, LeasesDated, SameEpoch, Backed, AnswersBacked,
      Answered, CallsInOrder, Asked, LocksInTime, TokensIssued
<1>10. QED
  BY <1>2, <1>3, <1>4, <1>5, <1>6, <1>7, <1>8, <1>9 DEF Next

\* The inductive invariant, for any daemons, clients, keys and ttls.
THEOREM LeaseInvariant == Spec => []IInv
<1>1. Init => IInv
  BY IInvInit
<1>2. IInv /\ [Next]_vars => IInv'
  BY IInvStep
<1>3. QED
  BY <1>1, <1>2, PTL DEF Spec

\* Two clients of one daemon never both believe in a lease on a key granted
\* by the process that now runs, however old the clock reading acquire_lock
\* decided with and however late its answer came.
THEOREM LocksExclude == Spec => []MutualExclusion
<1>1. IInv => MutualExclusion
  BY SessionAssumption, HolderAssumption
  DEF IInv, MutualExclusion, Believes, LeasesBacked, Backed
<1>2. QED
  BY <1>1, LeaseInvariant, PTL

\* A token given to a new holder is higher than any the same process gave
\* another holder of the key before.
THEOREM TokensGrow == Spec => FencesIncrease
<1>1. IInv /\ [Next]_vars =>
        [\A g \in granted' \ granted : \A o \in granted :
           /\ o.peer = g.peer /\ o.epoch = g.epoch
           /\ o.key = g.key /\ o.holder # g.holder
           => o.fence < g.fence]_vars
  <2>1. SUFFICES ASSUME IInv, [Next]_vars,
                        NEW g \in granted' \ granted, NEW o \in granted,
                        o.peer = g.peer, o.epoch = g.epoch
                 PROVE  o.fence < g.fence
    OBVIOUS
  <2>2. PICK s \in Sessions : AcquireLock(s)
    BY <2>1 DEF Next, Tick, Restart, Refuse, LearnOutcome, AskLock,
                ReleaseLock, vars
  <2> DEFINE p == PeerOf[s]
             k == call[s].key
             l == locks[p][k]
  <2>3. p \in Peers /\ k \in Keys
    BY <2>1, <2>2, SessionAssumption
    DEF IInv, TypeOK, AcquireLock, Asked, Call
  <2>4. CASE Renews(l, HolderOf[s], call[s].at)
    <3>1. g = [peer |-> p, epoch |-> epoch[p], key |-> k,
               holder |-> HolderOf[s], fence |-> l.fence]
      BY <2>1, <2>2, <2>4 DEF AcquireLock
    <3>2. g \in granted
      BY <2>1, <2>3, <2>4, <3>1 DEF IInv, TokensIssued, Renews, Live
    <3>3. QED
      BY <2>1, <3>2
  <2>5. CASE ~Renews(l, HolderOf[s], call[s].at)
    <3>1. g = [peer |-> p, epoch |-> epoch[p], key |-> k,
               holder |-> HolderOf[s], fence |-> nextFence[p]]
      BY <2>1, <2>2, <2>5 DEF AcquireLock
    <3>2. QED
      BY <2>1, <3>1 DEF IInv, TokensIssued
  <2>6. QED
    BY <2>4, <2>5
<1>2. QED
  BY <1>1, LeaseInvariant, PTL DEF Spec, FencesIncrease
=============================================================================
