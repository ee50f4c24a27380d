----------------------------- MODULE RegistryKv -----------------------------
(***************************************************************************)
(* The key-value area behind the node slots of the registry file           *)
(* (registry.rs): a list of length-prefixed entries that only grows.  A    *)
(* set marks the old entry dead and appends the new one; a scan reads from *)
(* the front and jumps over dead entries by the span in their header.  One *)
(* mutex covers a request, so only the end of the process can come between *)
(* its two writes, and the file, being mapped, keeps what was written.     *)
(***************************************************************************)
EXTENDS Integers, Sequences

CONSTANTS
  Keys,        \* the keys of the requests
  Values,      \* their values
  KeyLen,      \* the bytes of each key
  ValLen,      \* the bytes of each value
  RegionSize,  \* KV_REGION_SIZE
  KeyLimit,    \* KV_TOMBSTONE: a key must be shorter
  Dead,        \* the key of a dead entry
  Absent       \* kv_get found nothing

ASSUME KeysAssumption == Dead \notin Keys /\ Absent \notin Values
ASSUME SizesAssumption ==
  /\ KeyLen \in [Keys -> Nat] /\ ValLen \in [Values -> Nat]
  /\ RegionSize \in Nat \ {0, 1} /\ KeyLimit \in Nat

VARIABLES
  region,   \* the entries up to the end-of-list sentinel
  request,  \* the last request
  reply     \* the answer to it

kvVars == <<region, request, reply>>

HeaderLen == 6   \* key_len and val_len

KvEntry == [key : Keys \cup {Dead}, val : Values, span : Nat]

\* The offset at which the first i entries end.
Offset(i) ==
  LET upTo[j \in 0 .. i] ==
        IF j = 0 THEN 0 ELSE upTo[j - 1] + HeaderLen + region[j].span
  IN  upTo[i]

EndPos == Offset(Len(region))

\* The list and its two-byte sentinel stay within the region.
KvTypeOK ==
  /\ region \in Seq(KvEntry)
  /\ request \in {<<>>} \cup ({"get"} \X Keys)
                          \cup ({"set"} \X Keys \X Values)
  /\ reply \in Values \cup {Absent, "none", "done", "refused"}
  /\ EndPos + 2 <= RegionSize

KvInit == region = <<>> /\ request = <<>> /\ reply = "none"

---------------------------------------------------------------------------
\* kv_scan: the first live entry of the key.
Lookup(k) ==
  LET found == {i \in DOMAIN region : region[i].key = k}
  IN  IF found = {} THEN Absent
      ELSE region[CHOOSE i \in found : \A j \in found : i <= j].val

KvGet(k) ==
  /\ request' = <<"get", k>>
  /\ reply' = Lookup(k)
  /\ UNCHANGED region

\* Mutant: the old entry stays alive.
NotTombstoned(k) == region

\* Phase 2: the last live entry of the key becomes dead and keeps its span.
Tombstoned(k) ==
  [i \in DOMAIN region |->
     IF /\ region[i].key = k
        /\ \A j \in DOMAIN region : region[j].key = k => j <= i
       THEN [region[i] EXCEPT !.key = Dead] ELSE region[i]]

\* Mutant: no room is left for the sentinel.
FitsExactly(k, v) == EndPos + HeaderLen + KeyLen[k] + ValLen[v] <= RegionSize

\* Phase 3: the end of the list was found, and there is room for the entry
\* and a new sentinel.
Fits(k, v) ==
  /\ EndPos + HeaderLen <= RegionSize
  /\ EndPos + HeaderLen + KeyLen[k] + ValLen[v] + 2 <= RegionSize

\* The entry goes over the sentinel; with an empty key its header is one.
Stored(k, v) ==
  IF KeyLen[k] = 0 THEN Tombstoned(k)
  ELSE Append(Tombstoned(k),
              [key |-> k, val |-> v, span |-> KeyLen[k] + ValLen[v]])

\* The flush at the end may fail with the entry written.
KvSet(k, v) ==
  /\ request' = <<"set", k, v>>
  /\ KeyLen[k] < KeyLimit
  /\ Fits(k, v)
  /\ region' = Stored(k, v)
  /\ reply' \in {"done", "refused"}

\* The key is too long.
KvSetTooLong(k, v) ==
  /\ request' = <<"set", k, v>>
  /\ KeyLen[k] >= KeyLimit
  /\ reply' = "refused"
  /\ UNCHANGED region

\* No room: the old entry is dead already.
KvSetOverflows(k, v) ==
  /\ request' = <<"set", k, v>>
  /\ KeyLen[k] < KeyLimit
  /\ ~Fits(k, v)
  /\ region' = Tombstoned(k)
  /\ reply' = "refused"

\* The daemon ends between the writes of a set, or before its answer, and
\* the next one finds the file as it was left.
KvCrash(k, v) ==
  /\ request' = <<"set", k, v>>
  /\ KeyLen[k] < KeyLimit
  /\ \/ region' = Tombstoned(k)
     \/ Fits(k, v) /\ region' = Stored(k, v)
  /\ reply' = "none"

KvNext ==
  \E k \in Keys :
    \/ KvGet(k)
    \/ \E v \in Values : \/ KvSet(k, v) \/ KvSetTooLong(k, v)
                         \/ KvSetOverflows(k, v) \/ KvCrash(k, v)

KvSpec == KvInit /\ [][KvNext]_kvVars

---------------------------------------------------------------------------
(* Properties.                                                             *)

\* A key has one live entry at most, and none if it has no bytes.
OneLiveEntry ==
  /\ \A i, j \in DOMAIN region :
       region[i].key = region[j].key /\ region[i].key # Dead => i = j
  /\ \A i \in DOMAIN region :
       region[i].key # Dead => KeyLen[region[i].key] # 0

Register == INSTANCE KvRegister WITH
  value       <- [k \in Keys |-> Lookup(k)],
  asked       <- request,
  answer      <- reply,
  Forgettable <- {k \in Keys : KeyLen[k] = 0}

\* The list of dead and live entries behaves as a map: a get answers what
\* the last accepted set of its key stored, whatever was set, refused or cut
\* short before it, and no set disturbs another key (kv_get, kv_set).
KvKeepsPromise == Register!Spec
=============================================================================
