------------------------------- MODULE MeshKv -------------------------------
(***************************************************************************)
(* One key of the replicated key-value store (veloce-mesh, kv.rs).  Keys   *)
(* never meet each other in the code, so one is the whole store.  A peer   *)
(* is its Uuid, and Uuids are ordered: peers are numbers here.             *)
(*                                                                         *)
(* set and delete give their caller an update to replicate and cas does    *)
(* not; snapshot gives whatever entry the peer has.  What carries updates  *)
(* and snapshots to merge_entry is outside kv.rs: here they may arrive     *)
(* late, in any order, again, or never.                                    *)
(***************************************************************************)
EXTENDS Integers

CONSTANTS
  Peers,        \* the peers' Uuids
  Values,
  None,         \* Option::None
  MaxVersion,   \* bound on the versions written
  MaxTime,      \* bound on the clock
  MaxRestarts   \* bound on the restarts of each peer

ASSUME PeersAssumption  == Peers \subseteq Nat
ASSUME BoundsAssumption ==
  MaxVersion \in Nat /\ MaxTime \in Nat /\ MaxRestarts \in [Peers -> Nat]

VARIABLES
  now,      \* SystemTime::now in seconds
  entries,  \* MeshKvStore.entries of each peer, at this key
  sent,     \* the updates and snapshots produced so far
  seen,     \* the entries each peer has written or merged (history)
  epoch     \* how often each peer has restarted

vars == <<now, entries, sent, seen, epoch>>

Time  == 0 .. MaxTime
Entry == [value : Values, version : 1 .. MaxVersion, at : Time,
          origin : Peers, deleted : BOOLEAN]

ASSUME NoneAssumption == None \notin Entry /\ None \notin Values

TypeOK ==
  /\ now \in Time
  /\ entries \in [Peers -> Entry \cup {None}]
  /\ sent \in SUBSET Entry
  /\ seen \in [Peers -> SUBSET Entry]
  /\ epoch \in [Peers -> Nat] /\ \A p \in Peers : epoch[p] <= MaxRestarts[p]

Init ==
  /\ now = 0
  /\ entries = [p \in Peers |-> None]
  /\ sent = {}
  /\ seen = [p \in Peers |-> {}]
  /\ epoch = [p \in Peers |-> 0]

---------------------------------------------------------------------------
(* Helpers.                                                                *)

\* Mutant: a version is reused for the next write.
SameVersion(p) == IF entries[p] = None THEN 1 ELSE entries[p].version

\* The version of the next write, over the entry the peer has.
NextVersion(p) == IF entries[p] = None THEN 1 ELSE entries[p].version + 1

\* Mutant: the tie is not broken by origin.
NewerWithoutOrigin(e, f) ==
  \/ e.version > f.version
  \/ e.version = f.version /\ e.at > f.at

\* is_newer, e over f.
Newer(e, f) ==
  \/ e.version > f.version
  \/ e.version = f.version /\ e.at > f.at
  \/ e.version = f.version /\ e.at = f.at /\ e.origin > f.origin

\* What a reader sees: a tombstone is no value.
Value(p) ==
  IF entries[p] = None THEN None
  ELSE IF entries[p].deleted THEN None ELSE entries[p].value

Write(p, e) ==
  /\ entries' = [entries EXCEPT ![p] = e]
  /\ seen' = [seen EXCEPT ![p] = @ \cup {e}]

---------------------------------------------------------------------------
(* The operations.  Each reads the clock before it takes the entries' lock, *)
(* so the time it writes may be any that has been.                         *)

Set(p, v, at) ==
  /\ at <= now
  /\ NextVersion(p) <= MaxVersion
  /\ LET e == [value |-> v, version |-> NextVersion(p), at |-> at,
               origin |-> p, deleted |-> FALSE]
     IN Write(p, e) /\ sent' = sent \cup {e}
  /\ UNCHANGED <<now, epoch>>

\* A cas that fails changes nothing; one that succeeds produces no update.
Cas(p, expected, v, at) ==
  /\ at <= now
  /\ Value(p) = expected
  /\ NextVersion(p) <= MaxVersion
  /\ Write(p, [value |-> v, version |-> NextVersion(p), at |-> at,
               origin |-> p, deleted |-> FALSE])
  /\ UNCHANGED <<now, sent, epoch>>

\* Nothing to delete, or deleted already: None.
Delete(p, at) ==
  /\ at <= now
  /\ Value(p) # None
  /\ NextVersion(p) <= MaxVersion
  /\ LET e == [entries[p] EXCEPT !.version = NextVersion(p), !.at = at,
                                 !.origin = p, !.deleted = TRUE]
     IN Write(p, e) /\ sent' = sent \cup {e}
  /\ UNCHANGED <<now, epoch>>

TakeSnapshot(p) ==
  /\ entries[p] # None
  /\ sent' = sent \cup {entries[p]}
  /\ UNCHANGED <<now, entries, seen, epoch>>

\* Mutant: whatever comes is taken.
MergeAny(p, e) ==
  /\ Write(p, e)
  /\ UNCHANGED <<now, sent, epoch>>

\* merge_entry of an update, or of a snapshot's entry, that has arrived.
MergeEntry(p, e) ==
  /\ IF entries[p] = None \/ Newer(e, entries[p])
       THEN entries' = [entries EXCEPT ![p] = e]
       ELSE UNCHANGED entries
  /\ seen' = [seen EXCEPT ![p] = @ \cup {e}]
  /\ UNCHANGED <<now, sent, epoch>>

Tick ==
  /\ now < MaxTime
  /\ now' = now + 1
  /\ UNCHANGED <<entries, sent, seen, epoch>>

\* The store is in memory only and comes back empty, under the same Uuid.
Restart(p) ==
  /\ epoch[p] < MaxRestarts[p]
  /\ epoch' = [epoch EXCEPT ![p] = @ + 1]
  /\ entries' = [entries EXCEPT ![p] = None]
  /\ seen' = [seen EXCEPT ![p] = {}]
  /\ UNCHANGED <<now, sent>>

---------------------------------------------------------------------------
Next ==
  \/ Tick
  \/ \E p \in Peers :
       \/ TakeSnapshot(p)
       \/ Restart(p)
       \/ \E e \in sent : MergeEntry(p, e)
       \/ \E at \in Time :
            \/ Delete(p, at)
            \/ \E v \in Values :
                 \/ Set(p, v, at)
                 \/ \E x \in Values \cup {None} : Cas(p, x, v, at)

Spec == Init /\ [][Next]_vars

\* Peers that stay connected exchange snapshots now and then and merge what
\* arrives: entries are finitely many, so that each comes to its turn.
\* Nobody is obliged to write.
Fairness ==
  \A p \in Peers :
    /\ WF_vars(TakeSnapshot(p))
    /\ WF_vars(\E e \in sent \ seen[p] : MergeEntry(p, e))

FairSpec == Spec /\ Fairness

---------------------------------------------------------------------------
(* Properties.                                                             *)

\* No peer has lost its store.
NoRestartYet == \A p \in Peers : epoch[p] = 0

\* Every entry that is somewhere.
Entries == sent \cup UNION {seen[p] : p \in Peers}

\* While no peer has restarted, a version number and its origin name one
\* entry in the whole mesh, although merges and local writes of one peer
\* interleave at will: the tie-break of merge_entry never meets two different
\* entries that it cannot order.
StampsUnique ==
  NoRestartYet =>
    \A e, f \in Entries : e.version = f.version /\ e.origin = f.origin => e = f

\* Two peers that have seen the same writes agree, in whatever order, and
\* however often, those came to each of them.
SameSeenSameState ==
  NoRestartYet =>
    \A p, q \in Peers : seen[p] = seen[q] => entries[p] = entries[q]

\* A peer never goes back to an older entry while it runs, so nothing that
\* was overwritten or deleted comes back with a late or repeated update; a
\* local write is newer than what it replaces whatever the clock says.
ReplicasAdvance ==
  [][\A p \in Peers :
       entries[p] # None /\ epoch'[p] = epoch[p] =>
         entries'[p] = entries[p] \/ Newer(entries'[p], entries[p])]_vars

\* consensus_test.rs: "CRDT LWW Partition Healing & Eventual Consistency
\* Convergence": once writes cease, all peers hold the same entry for good,
\* provided that none loses its store.
Convergence ==
  []NoRestartYet => <>[](\A p, q \in Peers : entries[p] = entries[q])

\* Nothing a peer has seen is newer than what it has.
NewestSeen ==
  \A p \in Peers :
    /\ entries[p] = None => seen[p] = {}
    /\ entries[p] # None => /\ entries[p] \in seen[p]
                            /\ \A e \in seen[p] : ~Newer(e, entries[p])

\* A peer's own writes are no newer than what it has, wherever they are now.
OwnWritesKept ==
  NoRestartYet =>
    \A e \in Entries : entries[e.origin] # None
                         /\ e.version <= entries[e.origin].version

\* The inductive strengthening of StampsUnique.
IInv ==
  /\ TypeOK /\ StampsUnique /\ NewestSeen /\ OwnWritesKept
=============================================================================
