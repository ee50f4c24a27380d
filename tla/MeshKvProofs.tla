---------------------------- MODULE MeshKvProofs ----------------------------
(***************************************************************************)
(* Proofs about MeshKv for any peers, values, clock and number of writes.  *)
(* A write's version and origin are new in the whole mesh because a peer's *)
(* own entry is at least as high as every write of its own that is under   *)
(* way anywhere (OwnWritesKept): merges never take a version back.  With   *)
(* unique stamps Newer is a total order on the entries there are, and what *)
(* a peer holds is the greatest of those it has seen (NewestSeen), however *)
(* they came.                                                              *)
(***************************************************************************)
EXTENDS MeshKv, TLAPS

\* What the fields of an entry are.
LEMMA EntryFields ==
  ASSUME NEW e \in Entry
  PROVE  /\ e.version \in Nat /\ e.at \in Nat /\ e.origin \in Nat
         /\ e.origin \in Peers /\ e.at \in Time
         /\ e.version \in 1 .. MaxVersion
<1>1. e.origin \in Peers /\ e.at \in Time /\ e.version \in 1 .. MaxVersion
  BY DEF Entry
<1>2. e.origin \in Nat
  BY <1>1, PeersAssumption
<1>3. e.at \in Nat /\ e.version \in Nat
  BY <1>1, BoundsAssumption DEF Time
<1>4. QED
  BY <1>1, <1>2, <1>3

\* is_newer is a total order up to equal stamps, and transitive.
LEMMA NewerOrders ==
  ASSUME NEW e \in Entry, NEW f \in Entry, NEW g \in Entry
  PROVE  /\ ~Newer(e, e)
         /\ Newer(e, f) => ~Newer(f, e)
         /\ Newer(e, f) /\ ~Newer(g, f) => ~Newer(g, e)
         /\ ~Newer(e, f) /\ ~Newer(f, e) =>
              e.version = f.version /\ e.at = f.at /\ e.origin = f.origin
<1>1. /\ e.version \in Nat /\ e.at \in Nat /\ e.origin \in Nat
      /\ f.version \in Nat /\ f.at \in Nat /\ f.origin \in Nat
      /\ g.version \in Nat /\ g.at \in Nat /\ g.origin \in Nat
  BY EntryFields
<1>2. ~Newer(e, e)
  BY <1>1 DEF Newer
<1>3. Newer(e, f) => ~Newer(f, e)
  BY <1>1 DEF Newer
<1>4. Newer(e, f) /\ ~Newer(g, f) => ~Newer(g, e)
  BY <1>1 DEF Newer
<1>5. ~Newer(e, f) /\ ~Newer(f, e) =>
        e.version = f.version /\ e.at = f.at /\ e.origin = f.origin
  BY <1>1 DEF Newer
<1>6. QED
  BY <1>2, <1>3, <1>4, <1>5

\* The stores of fresh daemons are empty.
LEMMA TypeInit == Init => TypeOK
  BY BoundsAssumption DEF Init, TypeOK, Time

\* What set, cas and delete write is an entry with a version above the one
\* the peer had, under the peer's own Uuid.
LEMMA NewWrites ==
  ASSUME TypeOK, NEW p \in Peers, NEW v \in Values, NEW at \in Time,
         NextVersion(p) <= MaxVersion
  PROVE  /\ NextVersion(p) \in 1 .. MaxVersion
         /\ [value |-> v, version |-> NextVersion(p), at |-> at,
             origin |-> p, deleted |-> FALSE] \in Entry
         /\ entries[p] # None =>
              /\ entries[p] \in Entry
              /\ NextVersion(p) > entries[p].version
              /\ [entries[p] EXCEPT !.version = NextVersion(p), !.at = at,
                                    !.origin = p, !.deleted = TRUE] \in Entry
<1>1. entries[p] # None => entries[p] \in Entry
  BY DEF TypeOK
<1>2. NextVersion(p) \in 1 .. MaxVersion
  BY <1>1, BoundsAssumption DEF NextVersion, Entry
<1>3. [value |-> v, version |-> NextVersion(p), at |-> at,
       origin |-> p, deleted |-> FALSE] \in Entry
  BY <1>2 DEF Entry
<1>4. ASSUME entries[p] # None
      PROVE  NextVersion(p) > entries[p].version
  <2>1. entries[p].version \in Nat
    BY <1>1, <1>4, EntryFields
  <2>2. QED
    BY <1>4, <2>1 DEF NextVersion
<1>5. ASSUME entries[p] # None
      PROVE  [entries[p] EXCEPT !.version = NextVersion(p), !.at = at,
                                !.origin = p, !.deleted = TRUE] \in Entry
  BY <1>1, <1>2, <1>5 DEF Entry
<1>6. QED
  BY <1>1, <1>2, <1>3, <1>4, <1>5

\* The peer p has written e: an entry of its own, above what it had, which
\* nobody has but p and perhaps the wire.
Wrote(p, e) ==
  /\ e \in Entry /\ e.origin = p
  /\ IF entries[p] = None THEN e.version = 1 ELSE e.version > entries[p].version
  /\ Write(p, e)
  /\ sent \subseteq sent' /\ sent' \subseteq sent \cup {e}
  /\ UNCHANGED <<now, epoch>>

\* set, cas and delete do nothing but that.
LEMMA StepsWrite ==
  ASSUME TypeOK, NEW p \in Peers, NEW v \in Values, NEW at \in Time,
         NEW x \in Values \cup {None},
         Set(p, v, at) \/ Cas(p, x, v, at) \/ Delete(p, at)
  PROVE  \E e \in Entry : Wrote(p, e)
<1> DEFINE e == [value |-> v, version |-> NextVersion(p), at |-> at,
                 origin |-> p, deleted |-> FALSE]
           d == [entries[p] EXCEPT !.version = NextVersion(p), !.at = at,
                                   !.origin = p, !.deleted = TRUE]
<1>1. NextVersion(p) <= MaxVersion
  BY DEF Set, Cas, Delete
<1>2. IF entries[p] = None THEN NextVersion(p) = 1
                           ELSE NextVersion(p) > entries[p].version
  BY <1>1, NewWrites DEF NextVersion
<1>3. CASE Set(p, v, at) \/ Cas(p, x, v, at)
  <2>1. e \in Entry
    BY <1>1, NewWrites
  <2>2. Wrote(p, e)
    BY <1>2, <1>3, <2>1 DEF Set, Cas, Wrote
  <2>3. QED
    BY <2>1, <2>2
<1>4. CASE Delete(p, at)
  <2>1. entries[p] # None
    BY <1>4 DEF Delete, Value
  <2>2. d \in Entry /\ entries[p] \in Entry
    BY <1>1, <2>1, NewWrites
  <2>3. d.origin = p /\ d.version = NextVersion(p)
    BY <2>2 DEF Entry
  <2>4. Wrote(p, d)
    BY <1>2, <1>4, <2>1, <2>2, <2>3 DEF Delete, Wrote
  <2>5. QED
    BY <2>2, <2>4
<1>5. QED
  BY <1>3, <1>4

\* Every operation keeps the stores and the messages well typed.
LEMMA TypeStep == TypeOK /\ [Next]_vars => TypeOK'
<1> SUFFICES ASSUME TypeOK, [Next]_vars PROVE TypeOK'
  OBVIOUS
<1>1. CASE Tick
  BY <1>1, BoundsAssumption DEF Tick, TypeOK, Time
<1>2. ASSUME NEW p \in Peers, NEW e \in Entry, Wrote(p, e) PROVE TypeOK'
  BY <1>2 DEF Wrote, Write, TypeOK
<1>3. ASSUME NEW p \in Peers, TakeSnapshot(p) PROVE TypeOK'
  BY <1>3 DEF TakeSnapshot, TypeOK
<1>4. ASSUME NEW p \in Peers, Restart(p) PROVE TypeOK'
  <2>1. epoch' \in [Peers -> Nat]
    BY <1>4 DEF Restart, TypeOK
  <2>2. ASSUME NEW q \in Peers PROVE epoch'[q] <= MaxRestarts[q]
    <3>1. epoch[p] \in Nat /\ MaxRestarts[p] \in Nat
      BY BoundsAssumption DEF TypeOK
    <3>2. CASE q = p
      BY <1>4, <3>1, <3>2 DEF Restart, TypeOK
    <3>3. CASE q # p
      BY <1>4, <3>3 DEF Restart, TypeOK
    <3>4. QED
      BY <3>2, <3>3
  <2>3. entries' \in [Peers -> Entry \cup {None}] /\ seen' \in [Peers -> SUBSET Entry]
    BY <1>4 DEF Restart, TypeOK
  <2>4. QED
    BY <1>4, <2>1, <2>2, <2>3 DEF Restart, TypeOK
<1>5. ASSUME NEW p \in Peers, NEW e \in sent, MergeEntry(p, e) PROVE TypeOK'
  BY <1>5 DEF MergeEntry, TypeOK
<1>6. CASE UNCHANGED vars
  BY <1>6 DEF vars, TypeOK
<1>7. ASSUME NEW p \in Peers, NEW v \in Values, NEW at \in Time,
             NEW x \in Values \cup {None},
             Set(p, v, at) \/ Cas(p, x, v, at) \/ Delete(p, at)
      PROVE  TypeOK'
  BY <1>2, <1>7, StepsWrite
<1>8. ASSUME NEW p \in Peers, NEW at \in Time, Delete(p, at) PROVE TypeOK'
  <2>1. entries[p] # None /\ entries[p] \in Entry
    BY <1>8 DEF Delete, Value, TypeOK
  <2>2. QED
    BY <1>7, <1>8, <2>1 DEF Entry
<1>9. QED
  BY <1>1, <1>3, <1>4, <1>5, <1>6, <1>7, <1>8 DEF Next

\* The stores, the updates and snapshots are always well typed.
THEOREM TypeCorrect == Spec => []TypeOK
<1>1. Init => TypeOK
  BY TypeInit
<1>2. TypeOK /\ [Next]_vars => TypeOK'
  BY TypeStep
<1>3. QED
  BY <1>1, <1>2, PTL DEF Spec

---------------------------------------------------------------------------
\* The inductive invariant holds of empty stores.
LEMMA IInvInit == Init => IInv
<1> SUFFICES ASSUME Init PROVE IInv
  OBVIOUS
<1>1. Entries = {}
  BY DEF Init, Entries
<1>2. QED
  BY <1>1, TypeInit
  DEF Init, IInv, StampsUnique, NewestSeen, OwnWritesKept

\* A local write has a stamp nobody has seen.
LEMMA WriteKeepsIInv ==
  ASSUME IInv, NEW p \in Peers, NEW e \in Entry, Wrote(p, e)
  PROVE  IInv'
<1>1. TypeOK'
  BY DEF Wrote, Write, TypeOK, IInv
<1>2. /\ entries'[p] = e /\ seen'[p] = seen[p] \cup {e}
      /\ \A q \in Peers : q # p => entries'[q] = entries[q]
                                   /\ seen'[q] = seen[q]
      /\ epoch' = epoch
  BY DEF Wrote, Write, TypeOK, IInv
<1>3. Entries' = Entries \cup {e}
  BY <1>2 DEF Entries, Wrote
<1>4. \A f \in Entries : f \in Entry
  BY DEF Entries, TypeOK, IInv
<1>5. \A f \in seen[p] : ~Newer(f, e)
  <2>1. CASE entries[p] = None
    BY <2>1 DEF IInv, NewestSeen
  <2>2. CASE entries[p] # None
    <3>1. entries[p] \in Entry /\ Newer(e, entries[p])
      BY <2>2 DEF Wrote, Newer, TypeOK, IInv
    <3>2. \A f \in seen[p] : f \in Entry /\ ~Newer(f, entries[p])
      BY <2>2 DEF IInv, TypeOK, NewestSeen
    <3>3. QED
      BY <3>1, <3>2, EntryFields DEF Newer
  <2>3. QED
    BY <2>1, <2>2
<1>6. NewestSeen'
  <2>1. e # None
    BY NoneAssumption
  <2>2. ~Newer(e, e)
    BY NewerOrders
  <2>3. QED
    BY <1>2, <1>5, <2>1, <2>2 DEF IInv, NewestSeen
<1>7. ASSUME NoRestartYet'
      PROVE  \A f \in Entries : f.origin = p => f.version < e.version
  <2>1. NoRestartYet
    BY <1>2, <1>7 DEF NoRestartYet
  <2>2. \A f \in Entries : f.origin = p =>
          entries[p] # None /\ f.version <= entries[p].version
    BY <2>1 DEF IInv, OwnWritesKept
  <2>3. entries[p] # None => entries[p] \in Entry
    BY DEF IInv, TypeOK
  <2>4. QED
    BY <1>4, <2>2, <2>3, EntryFields DEF Wrote
<1>8. StampsUnique'
  <2>1. SUFFICES ASSUME NoRestartYet', NEW f \in Entries', NEW g \in Entries',
                        f.version = g.version, f.origin = g.origin
                 PROVE  f = g
    BY DEF StampsUnique
  <2>2. NoRestartYet
    BY <1>2, <2>1 DEF NoRestartYet
  <2>3. e.origin = p
    BY DEF Wrote
  <2>4. CASE f \in Entries /\ g \in Entries
    BY <2>1, <2>2, <2>4 DEF IInv, StampsUnique
  <2>5. CASE f = e \/ g = e
    BY <1>3, <1>4, <1>7, <2>1, <2>3, <2>5, EntryFields
  <2>6. QED
    BY <1>3, <2>4, <2>5
<1>9. OwnWritesKept'
  <2>1. SUFFICES ASSUME NoRestartYet', NEW f \in Entries'
                 PROVE  /\ entries'[f.origin] # None
                        /\ f.version <= entries'[f.origin].version
    BY DEF OwnWritesKept
  <2>2. NoRestartYet
    BY <1>2, <2>1 DEF NoRestartYet
  <2>3. e # None /\ e.origin = p
    BY NoneAssumption DEF Wrote
  <2>4. f \in Entry
    BY <1>3, <1>4
  <2>5. CASE f.origin = p
    <3>1. f.version <= e.version
      BY <1>3, <1>7, <2>1, <2>4, <2>5, EntryFields
    <3>2. QED
      BY <1>2, <2>3, <2>5, <3>1
  <2>6. CASE f.origin # p
    <3>1. f \in Entries
      BY <1>3, <2>3, <2>6
    <3>2. QED
      BY <1>2, <2>2, <2>4, <2>6, <3>1, EntryFields DEF IInv, OwnWritesKept
  <2>7. QED
    BY <2>5, <2>6
<1>10. QED
  BY <1>1, <1>6, <1>8, <1>9 DEF IInv

\* A merge takes the greater of two entries and gives no peer a lower version.
LEMMA MergeKeepsIInv ==
  ASSUME IInv, NEW p \in Peers, NEW e \in sent, MergeEntry(p, e)
  PROVE  IInv'
<1>1. TypeOK'
  BY DEF MergeEntry, TypeOK, IInv
<1>2. /\ entries'[p] = IF entries[p] = None \/ Newer(e, entries[p])
                         THEN e ELSE entries[p]
      /\ seen'[p] = seen[p] \cup {e}
      /\ \A q \in Peers : q # p => entries'[q] = entries[q]
                                   /\ seen'[q] = seen[q]
      /\ epoch' = epoch /\ sent' = sent
  BY DEF MergeEntry, TypeOK, IInv
<1>3. Entries' = Entries
  BY <1>2 DEF Entries
<1>4. NoRestartYet' = NoRestartYet
  BY <1>2 DEF NoRestartYet
<1>5. StampsUnique'
  BY <1>3, <1>4 DEF IInv, StampsUnique
<1>6. e \in Entry /\ e # None
  BY NoneAssumption DEF IInv, TypeOK
<1>7. \A q \in Peers : entries[q] # None => entries[q] \in Entry
  BY DEF IInv, TypeOK
<1>8. NewestSeen'
  <2>1. CASE entries[p] = None
    BY <1>2, <1>6, <2>1, NewerOrders DEF IInv, NewestSeen
  <2>2. CASE entries[p] # None /\ Newer(e, entries[p])
    <3>1. \A f \in seen[p] : f \in Entry /\ ~Newer(f, entries[p])
      BY <2>2 DEF IInv, TypeOK, NewestSeen
    <3>2. \A f \in seen[p] : ~Newer(f, e)
      BY <1>6, <1>7, <2>2, <3>1, EntryFields DEF Newer
    <3>3. QED
      BY <1>2, <1>6, <2>2, <3>2, NewerOrders DEF IInv, NewestSeen
  <2>3. CASE entries[p] # None /\ ~Newer(e, entries[p])
    BY <1>2, <1>6, <2>3 DEF IInv, NewestSeen
  <2>4. QED
    BY <2>1, <2>2, <2>3
<1>9. OwnWritesKept'
  <2>1. \A q \in Peers : entries[q] # None =>
          entries'[q] # None /\ entries[q].version <= entries'[q].version
    BY <1>2, <1>6, <1>7, EntryFields DEF Newer
  <2>2. \A f \in Entries : f \in Entry
    BY DEF IInv, TypeOK, Entries
  <2>3. SUFFICES ASSUME NoRestartYet, NEW f \in Entries
                 PROVE  /\ entries'[f.origin] # None
                        /\ f.version <= entries'[f.origin].version
    BY <1>3, <1>4 DEF OwnWritesKept
  <2>4. f \in Entry /\ f.origin \in Peers
    BY <2>2, EntryFields
  <2>5. entries[f.origin] # None /\ f.version <= entries[f.origin].version
    BY <2>3 DEF IInv, OwnWritesKept
  <2>6. entries[f.origin] \in Entry /\ entries'[f.origin] \in Entry \cup {None}
    BY <1>1, <2>4, <2>5 DEF IInv, TypeOK
  <2>7. QED
    BY <2>1, <2>4, <2>5, <2>6, EntryFields
<1>10. QED
  BY <1>1, <1>5, <1>8, <1>9 DEF IInv

\* A snapshot sends what is held, a restart forgets, and neither makes a
\* stamp; after a restart nothing is claimed about stamps.
LEMMA IInvStep == IInv /\ [Next]_vars => IInv'
<1> SUFFICES ASSUME IInv, [Next]_vars PROVE IInv'
  OBVIOUS
<1>1. TypeOK'
  BY TypeStep DEF IInv
<1>2. CASE Tick
  BY <1>1, <1>2
  DEF Tick, IInv, StampsUnique, NewestSeen, OwnWritesKept, Entries,
      NoRestartYet
<1>3. ASSUME NEW p \in Peers, TakeSnapshot(p) PROVE IInv'
  <2>1. entries[p] \in seen[p]
    BY <1>3 DEF TakeSnapshot, IInv, NewestSeen
  <2>2. Entries' = Entries
    BY <1>3, <2>1 DEF TakeSnapshot, Entries
  <2>3. QED
    BY <1>1, <1>3, <2>2
    DEF TakeSnapshot, IInv, StampsUnique, NewestSeen, OwnWritesKept,
        NoRestartYet
<1>4. ASSUME NEW p \in Peers, Restart(p) PROVE IInv'
  <2>1. ~NoRestartYet'
    BY <1>4 DEF Restart, NoRestartYet, IInv, TypeOK
  <2>2. NewestSeen'
    BY <1>4 DEF Restart, IInv, NewestSeen, TypeOK
  <2>3. QED
    BY <1>1, <2>1, <2>2 DEF IInv, StampsUnique, OwnWritesKept
<1>5. ASSUME NEW p \in Peers, NEW e \in sent, MergeEntry(p, e) PROVE IInv'
  BY <1>5, MergeKeepsIInv
<1>6. ASSUME NEW p \in Peers, NEW v \in Values, NEW at \in Time,
             NEW x \in Values \cup {None},
             Set(p, v, at) \/ Cas(p, x, v, at) \/ Delete(p, at)
      PROVE  IInv'
  BY <1>6, StepsWrite, WriteKeepsIInv DEF IInv
<1>7. ASSUME NEW p \in Peers, NEW at \in Time, Delete(p, at) PROVE IInv'
  <2>1. entries[p] # None /\ entries[p] \in Entry
    BY <1>7 DEF Delete, Value, TypeOK, IInv
  <2>2. QED
    BY <1>6, <1>7, <2>1 DEF Entry
<1>8. CASE UNCHANGED vars
  BY <1>1, <1>8
  DEF vars, IInv, StampsUnique, NewestSeen, OwnWritesKept, Entries,
      NoRestartYet
<1>9. QED
  BY <1>2, <1>3, <1>4, <1>5, <1>6, <1>7, <1>8 DEF Next

\* The inductive invariant, for any peers and any traffic.
THEOREM KvInvariant == Spec => []IInv
<1>1. Init => IInv
  BY IInvInit
<1>2. IInv /\ [Next]_vars => IInv'
  BY IInvStep
<1>3. QED
  BY <1>1, <1>2, PTL DEF Spec

\* No two entries of the mesh have the same version and origin unless a peer
\* has lost its store.
THEOREM StampsNameEntries == Spec => []StampsUnique
<1>1. IInv => StampsUnique
  BY DEF IInv
<1>2. QED
  BY <1>1, KvInvariant, PTL

\* Peers that have seen the same writes hold the same entry, whatever the
\* order, the delays and the repetitions were.
THEOREM StrongConvergence == Spec => []SameSeenSameState
<1>1. IInv => SameSeenSameState
  <2> SUFFICES ASSUME IInv, NoRestartYet, NEW p \in Peers, NEW q \in Peers,
                      seen[p] = seen[q]
               PROVE  entries[p] = entries[q]
    BY DEF SameSeenSameState
  <2>1. CASE entries[p] = None \/ entries[q] = None
    BY <2>1 DEF IInv, NewestSeen
  <2>2. CASE entries[p] # None /\ entries[q] # None
    <3>1. /\ entries[p] \in seen[p] /\ entries[q] \in seen[p]
          /\ entries[p] \in Entry /\ entries[q] \in Entry
          /\ ~Newer(entries[p], entries[q])
          /\ ~Newer(entries[q], entries[p])
      BY <2>2 DEF IInv, NewestSeen, TypeOK
    <3>2. /\ entries[p].version = entries[q].version
          /\ entries[p].origin = entries[q].origin
      BY <3>1, NewerOrders
    <3>3. entries[p] \in Entries /\ entries[q] \in Entries
      BY <3>1 DEF Entries
    <3>4. QED
      BY <3>2, <3>3 DEF IInv, StampsUnique
  <2>3. QED
    BY <2>1, <2>2
<1>2. QED
  BY <1>1, KvInvariant, PTL

\* A running peer never goes back to an older entry.
THEOREM NothingComesBack == Spec => ReplicasAdvance
<1>1. IInv /\ [Next]_vars =>
        [\A p \in Peers :
           entries[p] # None /\ epoch'[p] = epoch[p] =>
             entries'[p] = entries[p] \/ Newer(entries'[p], entries[p])]_vars
  <2> SUFFICES ASSUME IInv, Next, NEW p \in Peers, entries[p] # None,
                      epoch'[p] = epoch[p]
               PROVE  entries'[p] = entries[p] \/ Newer(entries'[p], entries[p])
    BY DEF vars
  <2>1. ASSUME NEW q \in Peers, NEW e \in Entry, Wrote(q, e)
        PROVE  entries'[p] = entries[p] \/ Newer(entries'[p], entries[p])
    <3>1. CASE p = q
      BY <2>1, <3>1 DEF Wrote, Write, Newer, IInv, TypeOK
    <3>2. CASE p # q
      BY <2>1, <3>2 DEF Wrote, Write, IInv, TypeOK
    <3>3. QED
      BY <3>1, <3>2
  <2>2. ASSUME NEW q \in Peers, NEW e \in sent, MergeEntry(q, e)
        PROVE  entries'[p] = entries[p] \/ Newer(entries'[p], entries[p])
    BY <2>2 DEF MergeEntry, IInv, TypeOK
  <2>3. ASSUME NEW q \in Peers, Restart(q) PROVE entries'[p] = entries[p]
    BY <2>3 DEF Restart, IInv, TypeOK
  <2>4. ASSUME NEW q \in Peers, TakeSnapshot(q) PROVE entries'[p] = entries[p]
    BY <2>4 DEF TakeSnapshot
  <2>5. CASE Tick
    BY <2>5 DEF Tick
  <2>6. ASSUME NEW q \in Peers, NEW v \in Values, NEW at \in Time,
               NEW x \in Values \cup {None},
               Set(q, v, at) \/ Cas(q, x, v, at) \/ Delete(q, at)
        PROVE  entries'[p] = entries[p] \/ Newer(entries'[p], entries[p])
    BY <2>1, <2>6, StepsWrite DEF IInv
  <2>7. ASSUME NEW q \in Peers, NEW at \in Time, Delete(q, at)
        PROVE  entries'[p] = entries[p] \/ Newer(entries'[p], entries[p])
    <3>1. entries[q] # None /\ entries[q] \in Entry
      BY <2>7 DEF Delete, Value, TypeOK, IInv
    <3>2. QED
      BY <2>6, <2>7, <3>1 DEF Entry
  <2>8. QED
    BY <2>2, <2>3, <2>4, <2>5, <2>6, <2>7 DEF Next
<1>2. QED
  BY <1>1, KvInvariant, PTL DEF Spec, ReplicasAdvance
=============================================================================
