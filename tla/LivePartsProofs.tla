-------------------------- MODULE LivePartsProofs --------------------------
(***************************************************************************)
(* Proofs about the parts that LiveParts puts side by side: the key-value  *)
(* area of the registry as a map and as a list that fits its region,       *)
(* proxied streams, and the types of a peer link and of published ports.   *)
(***************************************************************************)
EXTENDS LiveParts, TablePartsProofs

---------------------------------------------------------------------------
(* The key-value area behaves as a map.                                    *)

\* The area between two requests: entries, of which one per key is alive.
KvInv == region \in Seq(KvEntry) /\ OneLiveEntry

\* A key with a live entry has the value of that entry (kv_scan).
LEMMA LookupFinds ==
  ASSUME KvInv, NEW i \in DOMAIN region, region[i].key \in Keys
  PROVE  Lookup(region[i].key) = region[i].val
<1> DEFINE k == region[i].key
           found == {j \in DOMAIN region : region[j].key = k}
<1>1. k # Dead
  BY KeysAssumption
<1>2. \A j \in found : j = i
  BY <1>1 DEF KvInv, OneLiveEntry
<1>3. i \in found /\ found # {}
  OBVIOUS
<1>4. i \in Nat
  BY DEF KvInv
<1>5. (CHOOSE j \in found : \A n \in found : j <= n) = i
  BY <1>2, <1>3, <1>4
<1> QED
  BY <1>3, <1>5 DEF Lookup

\* A key without one is absent.
LEMMA LookupFails ==
  ASSUME NEW k, \A i \in DOMAIN region : region[i].key # k
  PROVE  Lookup(k) = Absent
BY DEF Lookup

\* The same of the area after a step.
LEMMA LookupFindsNext ==
  ASSUME KvInv', NEW k \in Keys, NEW i \in DOMAIN region', region'[i].key = k
  PROVE  Lookup(k)' = region'[i].val
<1> DEFINE found == {j \in DOMAIN region' : region'[j].key = k}
<1>1. k # Dead
  BY KeysAssumption
<1>2. \A j \in found : j = i
  BY <1>1 DEF KvInv, OneLiveEntry
<1>3. i \in found /\ found # {}
  OBVIOUS
<1>4. i \in Nat
  BY DEF KvInv
<1>5. (CHOOSE j \in found : \A n \in found : j <= n) = i
  BY <1>2, <1>3, <1>4
<1> QED
  BY <1>3, <1>5 DEF Lookup

\* The same of a key that is absent after a step.
LEMMA LookupFailsNext ==
  ASSUME NEW k, \A i \in DOMAIN region' : region'[i].key # k
  PROVE  Lookup(k)' = Absent
BY DEF Lookup

\* Two areas with the same entries of a key answer the same for it.
LEMMA LookupKeeps ==
  ASSUME KvInv, KvInv', NEW k \in Keys,
         \A i \in DOMAIN region : region[i].key = k =>
           i \in DOMAIN region' /\ region'[i].key = k
                                /\ region'[i].val = region[i].val,
         \A i \in DOMAIN region' : region'[i].key = k =>
           i \in DOMAIN region /\ region[i].key = k
  PROVE  Lookup(k)' = Lookup(k)
<1>1. CASE \E i \in DOMAIN region : region[i].key = k
  <2>1. PICK i \in DOMAIN region : region[i].key = k
    BY <1>1
  <2>2. Lookup(k) = region[i].val
    BY <2>1, LookupFinds
  <2>3. i \in DOMAIN region' /\ region'[i].key = k
          /\ region'[i].val = region[i].val
    BY <2>1
  <2>4. Lookup(k)' = region'[i].val
    BY <2>3, LookupFindsNext
  <2> QED
    BY <2>2, <2>3, <2>4
<1>2. CASE ~\E i \in DOMAIN region : region[i].key = k
  <2>1. Lookup(k) = Absent
    BY <1>2, LookupFails
  <2>2. Lookup(k)' = Absent
    BY <1>2, LookupFailsNext
  <2> QED
    BY <2>1, <2>2
<1> QED
  BY <1>1, <1>2

\* Phase 2 of a set leaves entries and kills the one of its key.
LEMMA TombstonedShape ==
  ASSUME KvInv, NEW k \in Keys
  PROVE  /\ Tombstoned(k) \in Seq(KvEntry)
         /\ DOMAIN Tombstoned(k) = DOMAIN region
         /\ \A i \in DOMAIN region :
              /\ Tombstoned(k)[i].key =
                   IF region[i].key = k THEN Dead ELSE region[i].key
              /\ Tombstoned(k)[i].val = region[i].val
              /\ Tombstoned(k)[i] \in KvEntry
<1>1. \A i \in DOMAIN region : region[i].key = k =>
        \A j \in DOMAIN region : region[j].key = k => j <= i
  <2> SUFFICES ASSUME NEW i \in DOMAIN region, region[i].key = k,
                      NEW j \in DOMAIN region, region[j].key = k
               PROVE  j <= i
    OBVIOUS
  <2>1. j = i
    BY KeysAssumption DEF KvInv, OneLiveEntry
  <2> QED
    BY <2>1 DEF KvInv
<1>2. \A i \in DOMAIN region : region[i] \in KvEntry
  BY DEF KvInv
<1>3. \A i \in DOMAIN region :
        Tombstoned(k)[i] = IF region[i].key = k
                             THEN [region[i] EXCEPT !.key = Dead]
                             ELSE region[i]
  BY <1>1 DEF Tombstoned
<1>4. DOMAIN Tombstoned(k) = DOMAIN region
  BY DEF Tombstoned
<1>5. \A i \in DOMAIN region :
        /\ Tombstoned(k)[i].key =
             IF region[i].key = k THEN Dead ELSE region[i].key
        /\ Tombstoned(k)[i].val = region[i].val
        /\ Tombstoned(k)[i] \in KvEntry
  BY <1>2, <1>3 DEF KvEntry
<1>6. Tombstoned(k) \in Seq(KvEntry)
  <2>1. DOMAIN region = 1 .. Len(region) /\ Len(region) \in Nat
    BY DEF KvInv
  <2>2. Tombstoned(k) = [i \in 1 .. Len(region) |-> Tombstoned(k)[i]]
    BY <2>1 DEF Tombstoned
  <2> QED
    BY <1>5, <2>1, <2>2
<1> QED
  BY <1>4, <1>5, <1>6

\* Marking the entry of a key dead makes it absent, and no other key.
LEMMA KillForgets ==
  ASSUME KvInv, NEW k \in Keys, region' = Tombstoned(k)
  PROVE  /\ KvInv'
         /\ Lookup(k)' = Absent
         /\ \A j \in Keys \ {k} : Lookup(j)' = Lookup(j)
<1>1. KvInv'
  <2>1. region' \in Seq(KvEntry)
    BY TombstonedShape
  <2>2. OneLiveEntry'
    BY TombstonedShape, KeysAssumption DEF KvInv, OneLiveEntry
  <2> QED
    BY <2>1, <2>2 DEF KvInv
<1>2. \A i \in DOMAIN region' : region'[i].key # k
  BY TombstonedShape, KeysAssumption
<1>3. Lookup(k)' = Absent
  BY <1>2, LookupFailsNext
<1>4. ASSUME NEW j \in Keys \ {k}
      PROVE  Lookup(j)' = Lookup(j)
  <2>1. j \in Keys /\ j # Dead
    BY KeysAssumption
  <2>2. \A i \in DOMAIN region : region[i].key = j =>
          i \in DOMAIN region' /\ region'[i].key = j
                               /\ region'[i].val = region[i].val
    BY TombstonedShape
  <2>3. \A i \in DOMAIN region' : region'[i].key = j =>
          i \in DOMAIN region /\ region[i].key = j
    BY <2>1, TombstonedShape
  <2> QED
    BY <1>1, <2>1, <2>2, <2>3, LookupKeeps
<1> QED
  BY <1>1, <1>3, <1>4

\* A set that has room stores the value, unless the key has no bytes, and
\* disturbs no other key.
LEMMA StoreStores ==
  ASSUME KvInv, NEW k \in Keys, NEW v \in Values, region' = Stored(k, v)
  PROVE  /\ KvInv'
         /\ Lookup(k)' = IF KeyLen[k] = 0 THEN Lookup(k) ELSE v
         /\ \A j \in Keys \ {k} : Lookup(j)' = Lookup(j)
<1>1. CASE KeyLen[k] = 0
  <2>1. region' = Tombstoned(k)
    BY <1>1 DEF Stored
  <2>2. \A i \in DOMAIN region : region[i].key # k
    BY <1>1, KeysAssumption DEF KvInv, OneLiveEntry
  <2>3. Lookup(k) = Absent
    BY <2>2, LookupFails
  <2> QED
    BY <1>1, <2>1, <2>3, KillForgets
<1>2. CASE KeyLen[k] # 0
  <2> DEFINE T == Tombstoned(k)
             e == [key |-> k, val |-> v, span |-> KeyLen[k] + ValLen[v]]
             n == Len(T) + 1
  <2>1. region' = Append(T, e)
    BY <1>2 DEF Stored
  <2>2. T \in Seq(KvEntry)
    BY TombstonedShape
  <2>3. e \in KvEntry
    BY SizesAssumption DEF KvEntry
  <2> HIDE DEF T, e
  <2>4. region' \in Seq(KvEntry) /\ n \in Nat
    BY <2>1, <2>2, <2>3
  <2>5. DOMAIN region' = (DOMAIN T) \cup {n} /\ n \notin DOMAIN T
    BY <2>1, <2>2, <2>3
  <2>6. region'[n] = e /\ \A i \in DOMAIN T : region'[i] = T[i]
    BY <2>1, <2>2, <2>3
  <2>7. e.key = k /\ e.val = v
    BY DEF e
  <2>8. /\ DOMAIN T = DOMAIN region
        /\ \A i \in DOMAIN region :
             /\ T[i].key = IF region[i].key = k THEN Dead ELSE region[i].key
             /\ T[i].val = region[i].val
    BY TombstonedShape DEF T
  <2>9. k # Dead
    BY KeysAssumption
  <2> HIDE DEF n
  <2>10. \A i \in DOMAIN region' : i = n \/ (i \in DOMAIN region /\ i # n)
    BY <2>5, <2>8
  <2>11. \A i \in DOMAIN region :
           /\ i \in DOMAIN region' /\ i # n
           /\ region'[i].key =
                IF region[i].key = k THEN Dead ELSE region[i].key
           /\ region'[i].val = region[i].val
    BY <2>5, <2>6, <2>8
  <2>12. n \in DOMAIN region' /\ region'[n].key = k /\ region'[n].val = v
    BY <2>5, <2>6, <2>7
  <2>13. OneLiveEntry'
    <3>1. \A i \in DOMAIN region' :
            region'[i].key = k => i = n
      BY <2>9, <2>10, <2>11
    <3>2. ASSUME NEW i \in DOMAIN region', NEW j \in DOMAIN region',
                 region'[i].key = region'[j].key, region'[i].key # Dead
          PROVE  i = j
      <4>1. CASE region'[i].key = k
        BY <3>1, <3>2, <4>1
      <4>2. CASE region'[i].key # k
        <5>1. i \in DOMAIN region /\ j \in DOMAIN region
          BY <2>10, <2>12, <3>2, <4>2
        <5>2. region[i].key = region[j].key /\ region[i].key # Dead
          BY <2>11, <3>2, <5>1
        <5> QED
          BY <5>1, <5>2 DEF KvInv, OneLiveEntry
      <4> QED
        BY <4>1, <4>2
    <3>3. ASSUME NEW i \in DOMAIN region', region'[i].key # Dead
          PROVE  KeyLen[region'[i].key] # 0
      <4>1. CASE i = n
        BY <1>2, <2>12, <4>1
      <4>2. CASE i # n
        <5>1. i \in DOMAIN region
          BY <2>10, <4>2
        <5>2. region'[i].key = region[i].key /\ region[i].key # Dead
          BY <2>11, <3>3, <5>1
        <5> QED
          BY <5>1, <5>2 DEF KvInv, OneLiveEntry
      <4> QED
        BY <4>1, <4>2
    <3> QED
      BY <3>2, <3>3 DEF OneLiveEntry
  <2>14. KvInv'
    BY <2>4, <2>13 DEF KvInv
  <2>15. Lookup(k)' = v
    BY <2>12, <2>14, LookupFindsNext
  <2>16. ASSUME NEW j \in Keys \ {k}
         PROVE  Lookup(j)' = Lookup(j)
    <3>1. j \in Keys /\ j # Dead /\ j # k
      BY KeysAssumption
    <3>2. \A i \in DOMAIN region : region[i].key = j =>
            i \in DOMAIN region' /\ region'[i].key = j
                                 /\ region'[i].val = region[i].val
      BY <2>11, <3>1
    <3>3. \A i \in DOMAIN region' : region'[i].key = j =>
            i \in DOMAIN region /\ region[i].key = j
      BY <2>10, <2>11, <2>12, <3>1
    <3> QED
      BY <2>14, <3>1, <3>2, <3>3, LookupKeeps
  <2> QED
    BY <1>2, <2>14, <2>15, <2>16
<1> QED
  BY <1>1, <1>2

\* What a step on the area means for the map it stands for.
Map == [k \in Keys |-> Lookup(k)]

\* A delete that finds its key is a delete of the map.
LEMMA KillMaps ==
  ASSUME KvInv, NEW k \in Keys, region' = Tombstoned(k)
  PROVE  KvInv' /\ Map' = [Map EXCEPT ![k] = Absent]
<1>1. \A j \in Keys : Lookup(j)' = [Map EXCEPT ![k] = Absent][j]
  BY KillForgets DEF Map
<1> QED
  BY <1>1, KillForgets DEF Map

\* A set that fits is a set of the map, and no change with an empty key.
LEMMA StoreMaps ==
  ASSUME KvInv, NEW k \in Keys, NEW v \in Values, region' = Stored(k, v)
  PROVE  /\ KvInv'
         /\ Map' = IF KeyLen[k] = 0 THEN Map ELSE [Map EXCEPT ![k] = v]
<1>1. CASE KeyLen[k] = 0
  <2>1. \A j \in Keys : Lookup(j)' = Lookup(j)
    BY <1>1, StoreStores
  <2> QED
    BY <1>1, <2>1, StoreStores DEF Map
<1>2. CASE KeyLen[k] # 0
  <2>1. \A j \in Keys : Lookup(j)' = [Map EXCEPT ![k] = v][j]
    BY <1>2, StoreStores DEF Map
  <2> QED
    BY <1>2, <2>1, StoreStores DEF Map
<1> QED
  BY <1>1, <1>2

\* The area starts empty.
LEMMA KvInvInit == KvInit => KvInv
BY DEF KvInit, KvInv, OneLiveEntry

\* A step of the area is a step of the map, or none.
LEMMA KvStepMaps ==
  ASSUME KvInv, [KvNext]_kvVars
  PROVE  KvInv' /\ [Register!Next]_(Register!vars)
<1> DEFINE Forgettable == {k \in Keys : KeyLen[k] = 0}
<1>1. ASSUME UNCHANGED kvVars
      PROVE  KvInv' /\ [Register!Next]_(Register!vars)
  <2>1. \A k : Lookup(k)' = Lookup(k)
    BY <1>1 DEF kvVars, Lookup
  <2>2. KvInv'
    BY <1>1 DEF kvVars, KvInv, OneLiveEntry
  <2> QED
    BY <1>1, <2>1, <2>2 DEF kvVars, Register!vars
<1>2. ASSUME NEW k \in Keys, KvGet(k)
      PROVE  KvInv' /\ Register!Next
  <2>1. \A j : Lookup(j)' = Lookup(j)
    BY <1>2 DEF KvGet, Lookup
  <2>2. KvInv'
    BY <1>2 DEF KvGet, KvInv, OneLiveEntry
  <2>3. Register!Get(k)
    BY <1>2, <2>1 DEF KvGet, Register!Get
  <2> QED
    BY <2>2, <2>3 DEF Register!Next
<1>3. ASSUME NEW k \in Keys, NEW v \in Values, KvSet(k, v)
      PROVE  KvInv' /\ Register!Next
  <2>1. /\ KvInv'
        /\ Map' = IF KeyLen[k] = 0 THEN Map ELSE [Map EXCEPT ![k] = v]
    BY <1>3, StoreMaps DEF KvSet
  <2>2. Register!SetDone(k, v) \/ Register!SetRefused(k, v)
    BY <1>3, <2>1
    DEF KvSet, Map, Register!SetDone, Register!SetRefused, Register!Becomes
  <2> QED
    BY <2>1, <2>2 DEF Register!Next
<1>4. ASSUME NEW k \in Keys, NEW v \in Values, KvSetTooLong(k, v)
      PROVE  KvInv' /\ Register!Next
  <2>1. \A j : Lookup(j)' = Lookup(j)
    BY <1>4 DEF KvSetTooLong, Lookup
  <2>2. KvInv'
    BY <1>4 DEF KvSetTooLong, KvInv, OneLiveEntry
  <2>3. Register!SetRefused(k, v)
    BY <1>4, <2>1 DEF KvSetTooLong, Register!SetRefused
  <2> QED
    BY <2>2, <2>3 DEF Register!Next
<1>5. ASSUME NEW k \in Keys, NEW v \in Values, KvSetOverflows(k, v)
      PROVE  KvInv' /\ Register!Next
  <2>1. KvInv' /\ Map' = [Map EXCEPT ![k] = Absent]
    BY <1>5, KillMaps DEF KvSetOverflows
  <2>2. Register!SetRefused(k, v)
    BY <1>5, <2>1
    DEF KvSetOverflows, Map, Register!SetRefused, Register!Becomes
  <2> QED
    BY <2>1, <2>2 DEF Register!Next
<1>6. ASSUME NEW k \in Keys, NEW v \in Values, KvCrash(k, v)
      PROVE  KvInv' /\ Register!Next
  <2>1. KvInv' /\ \/ Map' = [Map EXCEPT ![k] = Absent]
                  \/ Map' = Map \/ Map' = [Map EXCEPT ![k] = v]
    BY <1>6, KillMaps, StoreMaps DEF KvCrash
  <2>2. Register!DaemonDies(k, v)
    BY <1>6, <2>1 DEF KvCrash, Map, Register!DaemonDies, Register!Becomes
  <2> QED
    BY <2>1, <2>2 DEF Register!Next
<1> QED
  BY <1>1, <1>2, <1>3, <1>4, <1>5, <1>6 DEF KvNext

\* The list of dead and live entries implements the map, for all keys, values
\* and sizes: a get answers what the last accepted set of its key stored, and
\* no set, refused or cut short, touches another key (kv_get, kv_set).
THEOREM KvImplementsRegister == KvSpec => KvKeepsPromise
<1>1. KvInit => Register!Init
  <2> SUFFICES ASSUME KvInit PROVE Register!Init
    OBVIOUS
  <2>1. \A k : Lookup(k) = Absent
    BY LookupFails DEF KvInit
  <2> QED
    BY <2>1 DEF KvInit, Register!Init
<1>2. KvInv /\ [KvNext]_kvVars => KvInv'
  BY KvStepMaps
<1>3. KvInv /\ [KvNext]_kvVars => [Register!Next]_(Register!vars)
  BY KvStepMaps
<1> QED
  BY <1>1, <1>2, <1>3, KvInvInit, PTL
  DEF KvSpec, KvKeepsPromise, Register!Spec

---------------------------------------------------------------------------
(* The space the key-value area takes.                                     *)

\* f adds up what the first entries of r take, up to i of them.
Sums(r, f, i) ==
  f = [j \in 0 .. i |->
         IF j = 0 THEN 0 ELSE f[j - 1] + HeaderLen + r[j].span]

\* There is such an f for every number of entries: one for fewer can be drawn
\* out.
LEMMA SumsExist ==
  ASSUME NEW r, NEW i \in Nat
  PROVE  \E f : Sums(r, f, i)
<1> DEFINE Bad == {n \in Nat : ~\E f : Sums(r, f, n)}
<1> SUFFICES ASSUME Bad # {} PROVE FALSE
  OBVIOUS
<1>1. PICK n \in Bad : \A m \in Bad : n <= m
  <2>1. Bad \subseteq Nat
    OBVIOUS
  <2> HIDE DEF Bad
  <2> QED
    BY <2>1, LeastOf
<1>2. n \in Nat /\ ~\E f : Sums(r, f, n)
  BY <1>1
<1>3. CASE n = 0
  <2> DEFINE f == [j \in {0} |-> 0]
  <2>1. 0 .. 0 = {0}
    OBVIOUS
  <2>2. f = [j \in 0 .. 0 |->
               IF j = 0 THEN 0 ELSE f[j - 1] + HeaderLen + r[j].span]
    BY <2>1
  <2> QED
    BY <1>2, <1>3, <2>2 DEF Sums
<1>4. CASE n > 0
  <2>1. n - 1 \in Nat /\ ~(n <= n - 1)
    BY <1>2, <1>4
  <2>2. n - 1 \notin Bad
    BY <1>1, <2>1
  <2>3. PICK f : Sums(r, f, n - 1)
    BY <2>1, <2>2
  <2>4. f = [j \in 0 .. n - 1 |->
               IF j = 0 THEN 0 ELSE f[j - 1] + HeaderLen + r[j].span]
    BY <2>3 DEF Sums
  <2> DEFINE g == [j \in 0 .. n |-> IF j = n THEN f[n - 1] + HeaderLen + r[n].span
                                    ELSE f[j]]
  <2>5. \A j \in 0 .. n :
          g[j] = IF j = 0 THEN 0 ELSE g[j - 1] + HeaderLen + r[j].span
    <3> SUFFICES ASSUME NEW j \in 0 .. n
                 PROVE  g[j] = IF j = 0 THEN 0
                               ELSE g[j - 1] + HeaderLen + r[j].span
      OBVIOUS
    <3>1. CASE j = n
      <4>1. n - 1 \in 0 .. n /\ n - 1 # n /\ n # 0
        BY <1>2, <1>4
      <4>2. g[n - 1] = f[n - 1]
        BY <4>1
      <4> QED
        BY <3>1, <4>1, <4>2
    <3>2. CASE j # n /\ j # 0
      <4>1. j \in 0 .. n - 1 /\ j - 1 \in 0 .. n /\ j - 1 # n
        BY <1>2, <3>2
      <4>2. f[j] = f[j - 1] + HeaderLen + r[j].span
        BY <2>4, <3>2, <4>1
      <4>3. g[j] = f[j] /\ g[j - 1] = f[j - 1]
        BY <3>2, <4>1
      <4> QED
        BY <3>2, <4>2, <4>3
    <3>3. CASE j = 0
      <4>1. 0 \in 0 .. n - 1 /\ 0 # n
        BY <1>2, <1>4
      <4> QED
        BY <2>4, <3>3, <4>1
    <3> QED
      BY <3>1, <3>2, <3>3
  <2>6. g = [j \in 0 .. n |-> g[j]]
    OBVIOUS
  <2> HIDE DEF g
  <2>7. g = [j \in 0 .. n |->
               IF j = 0 THEN 0 ELSE g[j - 1] + HeaderLen + r[j].span]
    BY <2>5, <2>6
  <2> QED
    BY <1>2, <2>7 DEF Sums
<1> QED
  BY <1>2, <1>3, <1>4

\* The first n entries of both lists are as long.
SameSpans(r, t, n) == \A j \in 1 .. n : r[j].span = t[j].span

\* Two lists whose first entries have the same spans add up to the same.
LEMMA SumsAgree ==
  ASSUME NEW r, NEW t, NEW f, NEW g, NEW i \in Nat, NEW k \in Nat,
         Sums(r, f, i), Sums(t, g, k), NEW n \in Nat, n <= i, n <= k,
         SameSpans(r, t, n)
  PROVE  f[n] = g[n]
<1> DEFINE Bad == {j \in 0 .. n : f[j] # g[j]}
<1> SUFFICES ASSUME Bad # {} PROVE FALSE
  OBVIOUS
<1>1. PICK j \in Bad : \A m \in Bad : j <= m
  <2>1. Bad \subseteq Nat
    OBVIOUS
  <2> HIDE DEF Bad
  <2> QED
    BY <2>1, LeastOf
<1>2. /\ \A l \in 0 .. n :
           f[l] = IF l = 0 THEN 0 ELSE f[l - 1] + HeaderLen + r[l].span
      /\ \A l \in 0 .. n :
           g[l] = IF l = 0 THEN 0 ELSE g[l - 1] + HeaderLen + t[l].span
  <2>1. \A l \in 0 .. n : l \in 0 .. i /\ l \in 0 .. k
    OBVIOUS
  <2> QED
    BY <2>1 DEF Sums
<1>3. j \in 0 .. n /\ f[j] # g[j] /\ j # 0
  BY <1>1, <1>2
<1>4. j - 1 \in 0 .. n /\ ~(j <= j - 1) /\ j \in 1 .. n
  BY <1>3
<1>5. f[j - 1] = g[j - 1]
  BY <1>1, <1>4
<1> QED
  BY <1>2, <1>3, <1>4, <1>5 DEF SameSpans

\* The sums are numbers.
LEMMA SumsAreNumbers ==
  ASSUME NEW r \in Seq(KvEntry), NEW f, NEW i \in 0 .. Len(r), Sums(r, f, i)
  PROVE  f[i] \in Nat
<1> DEFINE Bad == {j \in 0 .. i : f[j] \notin Nat}
<1> SUFFICES ASSUME Bad # {} PROVE FALSE
  OBVIOUS
<1>1. PICK j \in Bad : \A m \in Bad : j <= m
  <2>1. Bad \subseteq Nat
    OBVIOUS
  <2> HIDE DEF Bad
  <2> QED
    BY <2>1, LeastOf
<1>2. \A l \in 0 .. i :
        f[l] = IF l = 0 THEN 0 ELSE f[l - 1] + HeaderLen + r[l].span
  BY DEF Sums
<1>3. j \in 0 .. i /\ f[j] \notin Nat /\ j # 0
  BY <1>1, <1>2
<1>4. j - 1 \in 0 .. i /\ ~(j <= j - 1) /\ j \in 1 .. Len(r)
  BY <1>3
<1>5. f[j - 1] \in Nat
  BY <1>1, <1>4
<1>6. r[j].span \in Nat
  <2>1. r[j] \in KvEntry
    BY <1>4, ElementOfSeq
  <2> QED
    BY <2>1 DEF KvEntry
<1> QED
  BY <1>2, <1>3, <1>5, <1>6 DEF HeaderLen

\* What the first i entries of r take.
Total(r, i) == (CHOOSE f : Sums(r, f, i))[i]

\* It does not matter how it is added up.
LEMMA TotalIs ==
  ASSUME NEW r, NEW f, NEW i \in Nat, Sums(r, f, i)
  PROVE  f[i] = Total(r, i)
<1> DEFINE g == CHOOSE h : Sums(r, h, i)
<1>1. Sums(r, g, i)
  OBVIOUS
<1> HIDE DEF g
<1>2. f[i] = g[i]
  <2>1. i <= i /\ SameSpans(r, r, i)
    BY DEF SameSpans
  <2> QED
    BY <1>1, <2>1, SumsAgree
<1> QED
  BY <1>2 DEF g, Total

\* The end of the list is where its entries end.
LEMMA EndIsTotal == EndPos = Total(region, Len(region))
BY DEF EndPos, Offset, Total, Sums

\* The same after a step.
LEMMA EndIsTotalNext == EndPos' = Total(region', Len(region'))
BY DEF EndPos, Offset, Total, Sums

\* An empty list takes no space, and no list takes less.
LEMMA TotalIsNat ==
  ASSUME NEW r \in Seq(KvEntry)
  PROVE  Total(r, Len(r)) \in Nat /\ Total(<<>>, 0) = 0
<1>1. Len(r) \in 0 .. Len(r) /\ Len(r) \in Nat
  OBVIOUS
<1>2. PICK f : Sums(r, f, Len(r))
  BY <1>1, SumsExist
<1>3. f[Len(r)] \in Nat
  BY <1>1, <1>2, SumsAreNumbers
<1>4. PICK g : Sums(<<>>, g, 0)
  BY SumsExist
<1>5. g[0] = 0
  BY <1>4 DEF Sums
<1> QED
  BY <1>1, <1>2, <1>3, <1>4, <1>5, TotalIs

\* Lists with the same spans take the same space.
LEMMA TotalAgrees ==
  ASSUME NEW r, NEW t, NEW n \in Nat, SameSpans(r, t, n)
  PROVE  Total(r, n) = Total(t, n)
<1>1. PICK f : Sums(r, f, n)
  BY SumsExist
<1>2. PICK g : Sums(t, g, n)
  BY SumsExist
<1>3. n <= n
  OBVIOUS
<1>4. f[n] = g[n]
  BY <1>1, <1>2, <1>3, SumsAgree
<1> QED
  BY <1>1, <1>2, <1>4, TotalIs

\* An entry more takes its header and its span more.
LEMMA TotalGrows ==
  ASSUME NEW r \in Seq(KvEntry), NEW e \in KvEntry
  PROVE  Total(Append(r, e), Len(r) + 1)
           = Total(r, Len(r)) + HeaderLen + e.span
<1> DEFINE n == Len(r)
           t == Append(r, e)
<1>1. n \in Nat /\ n + 1 \in Nat /\ t[n + 1] = e /\ \A j \in 1 .. n : t[j] = r[j]
  OBVIOUS
<1> HIDE DEF n, t
<1>2. PICK f : Sums(t, f, n + 1)
  BY <1>1, SumsExist
<1>3. PICK g : Sums(r, g, n)
  BY <1>1, SumsExist
<1>4. f[n] = g[n]
  <2>1. n <= n + 1 /\ n <= n /\ SameSpans(t, r, n)
    BY <1>1 DEF SameSpans
  <2> QED
    BY <1>1, <1>2, <1>3, <2>1, SumsAgree
<1>5. f[n + 1] = f[n] + HeaderLen + e.span
  <2>1. n + 1 \in 0 .. n + 1 /\ n + 1 # 0 /\ (n + 1) - 1 = n
    BY <1>1
  <2>2. f[n + 1] = f[(n + 1) - 1] + HeaderLen + t[n + 1].span
    BY <1>2, <2>1 DEF Sums
  <2> QED
    BY <1>1, <2>1, <2>2
<1>6. f[n + 1] = Total(t, n + 1) /\ g[n] = Total(r, n)
  BY <1>1, <1>2, <1>3, TotalIs
<1> QED
  BY <1>4, <1>5, <1>6 DEF n, t

\* Marking an entry dead leaves the end of the list where it was.
LEMMA KillKeepsEnd ==
  ASSUME KvInv, NEW k \in Keys
  PROVE  /\ Len(Tombstoned(k)) = Len(region)
         /\ Total(Tombstoned(k), Len(region)) = EndPos
<1> DEFINE T == Tombstoned(k)
<1>1. T \in Seq(KvEntry) /\ DOMAIN T = DOMAIN region /\ region \in Seq(KvEntry)
  BY TombstonedShape DEF KvInv
<1>2. Len(T) = Len(region) /\ Len(region) \in Nat /\ DOMAIN region = 1 .. Len(region)
  BY <1>1
<1>3. \A i \in 1 .. Len(region) : T[i].span = region[i].span
  <2> SUFFICES ASSUME NEW i \in DOMAIN region
               PROVE  T[i].span = region[i].span
    BY <1>2
  <2>1. region[i] \in KvEntry
    BY <1>1
  <2>2. T[i] = [region[i] EXCEPT !.key = Dead] \/ T[i] = region[i]
    BY DEF Tombstoned
  <2> QED
    BY <2>1, <2>2 DEF KvEntry
<1> HIDE DEF T
<1>4. Total(T, Len(region)) = Total(region, Len(region))
  BY <1>2, <1>3, TotalAgrees DEF SameSpans
<1> QED
  BY <1>2, <1>4, EndIsTotal DEF T

\* Types, and one live entry per key.
KvShape == KvTypeOK /\ KvInv

\* There is room for the sentinel of an empty list.
LEMMA KvShapeInit == KvInit => KvShape
<1> SUFFICES ASSUME KvInit PROVE KvShape
  OBVIOUS
<1>1. region = <<>> /\ <<>> \in Seq(KvEntry)
  BY DEF KvInit
<1>2. EndPos = 0
  BY <1>1, EndIsTotal, TotalIsNat
<1> QED
  BY <1>1, <1>2, KvInvInit, SizesAssumption DEF KvInit, KvShape, KvTypeOK

\* No request moves the end of the list beyond its region.
LEMMA KvShapeStep ==
  ASSUME KvShape, [KvNext]_kvVars
  PROVE  KvShape'
<1>0. KvInv /\ KvTypeOK /\ KvInv'
  BY KvStepMaps DEF KvShape
<1>1. EndPos \in Nat /\ EndPos + 2 <= RegionSize /\ RegionSize \in Nat
  BY <1>0, EndIsTotal, TotalIsNat, SizesAssumption DEF KvTypeOK, KvInv
<1>2. region' = region => EndPos' = EndPos
  BY EndIsTotal, EndIsTotalNext
<1>3. ASSUME NEW k \in Keys, region' = Tombstoned(k)
      PROVE  EndPos' = EndPos
  BY <1>0, <1>3, KillKeepsEnd, EndIsTotalNext
<1>4. ASSUME NEW k \in Keys, NEW v \in Values, region' = Stored(k, v), Fits(k, v)
      PROVE  EndPos' + 2 <= RegionSize
  <2>1. CASE KeyLen[k] = 0
    BY <1>1, <1>3, <1>4, <2>1 DEF Stored
  <2>2. CASE KeyLen[k] # 0
    <3> DEFINE T == Tombstoned(k)
               e == [key |-> k, val |-> v, span |-> KeyLen[k] + ValLen[v]]
    <3>1. e \in KvEntry
      BY SizesAssumption DEF KvEntry
    <3>2. T \in Seq(KvEntry) /\ Len(T) = Len(region) /\ Total(T, Len(T)) = EndPos
      BY <1>0, KillKeepsEnd, TombstonedShape
    <3>3. e.span = KeyLen[k] + ValLen[v] /\ KeyLen[k] \in Nat /\ ValLen[v] \in Nat
      BY SizesAssumption
    <3>4. region' = Append(T, e)
      BY <1>4, <2>2 DEF Stored
    <3> HIDE DEF T, e
    <3>5. Len(region') = Len(T) + 1
      BY <3>1, <3>2, <3>4
    <3>6. EndPos' = EndPos + HeaderLen + e.span
      BY <3>1, <3>2, <3>4, <3>5, TotalGrows, EndIsTotalNext
    <3>7. EndPos + HeaderLen + KeyLen[k] + ValLen[v] + 2 <= RegionSize
      BY <1>4 DEF Fits
    <3> QED
      BY <1>1, <3>3, <3>6, <3>7 DEF HeaderLen
  <2> QED
    BY <2>1, <2>2
<1>5. EndPos' + 2 <= RegionSize
  BY <1>1, <1>2, <1>3, <1>4
  DEF KvNext, KvGet, KvSet, KvSetTooLong, KvSetOverflows, KvCrash, kvVars
<1>6. \A k \in Keys : Lookup(k) \in Values \cup {Absent}
  <2> SUFFICES ASSUME NEW k \in Keys PROVE Lookup(k) \in Values \cup {Absent}
    OBVIOUS
  <2>1. CASE \E i \in DOMAIN region : region[i].key = k
    <3>1. PICK i \in DOMAIN region : region[i].key = k
      BY <2>1
    <3>2. region[i] \in KvEntry
      BY <1>0 DEF KvInv
    <3>3. Lookup(k) = region[i].val
      BY <1>0, <3>1, LookupFinds
    <3> QED
      BY <3>2, <3>3 DEF KvEntry
  <2>2. CASE ~\E i \in DOMAIN region : region[i].key = k
    BY <2>2, LookupFails
  <2> QED
    BY <2>1, <2>2
<1>7. /\ request' \in {<<>>} \cup ({"get"} \X Keys) \cup ({"set"} \X Keys \X Values)
      /\ reply' \in Values \cup {Absent, "none", "done", "refused"}
  <2>1. ASSUME NEW k \in Keys, KvGet(k)
        PROVE  request' \in {"get"} \X Keys /\ reply' \in Values \cup {Absent}
    BY <1>6, <2>1 DEF KvGet
  <2>2. ASSUME NEW k \in Keys, NEW v \in Values,
               KvSet(k, v) \/ KvSetTooLong(k, v) \/ KvSetOverflows(k, v)
                 \/ KvCrash(k, v)
        PROVE  request' \in {"set"} \X Keys \X Values
                 /\ reply' \in {"none", "done", "refused"}
    BY <2>2 DEF KvSet, KvSetTooLong, KvSetOverflows, KvCrash
  <2>3. CASE UNCHANGED kvVars
    BY <1>0, <2>3 DEF kvVars, KvTypeOK
  <2> QED
    BY <2>1, <2>2, <2>3 DEF KvNext
<1>8. region' \in Seq(KvEntry)
  BY <1>0 DEF KvInv
<1> QED
  BY <1>0, <1>5, <1>7, <1>8 DEF KvShape, KvTypeOK

---------------------------------------------------------------------------
(* A stream.  In either direction the link carries an unbroken piece of    *)
(* what the local end has sent, behind the request to open the stream and  *)
(* before the one to close it.                                             *)

Open    == [kind |-> "open"]
Close   == [kind |-> "close"]
Data(i) == [kind |-> "data", chunk |-> i]
UpTo(n) == [i \in 1 .. n |-> i]

\* q carries the chunks lo + 1 .. hi; o and c are 1 if it begins with an open
\* and ends with a close, else 0.
Carries(q, lo, hi, o, c) ==
  /\ lo <= hi /\ Len(q) = o + (hi - lo) + c
  /\ o = 1 => q[1] = Open
  /\ \A i \in 1 .. hi - lo : q[o + i] = Data(lo + i)
  /\ c = 1 => q[Len(q)] = Close

\* The request is on its way.
Asks(s) == IF s = Asker /\ asking = "asked" THEN 1 ELSE 0

\* Side s sends no more.
HasClosed(s) ==
  toPeer[s] \in {"leaving", "ended"} \/ (s = Server /\ asking = "refused")

\* The direction to t is as StreamKeepsData assumes.
Sound(t) ==
  /\ asking # "refused" /\ t \notin overrun
  /\ toPeer[t] \in {"off", "reading", "holding", "oversize"}
  /\ fromPeer[t] # "broken"

\* How far the direction from s has come.
Direction(s) ==
  \E lo \in 0 .. sent[s], c \in {0, 1} :
    /\ Carries(link[s], lo, sent[s] - Held(s), Asks(s), c)
    /\ c = 1 => HasClosed(s)
    /\ Sound(Far(s)) => got[Far(s)] \o chunks[Far(s)] = UpTo(lo)

\* While the receiving side is sound, what comes finds its entry and its pump,
\* until the close has come.
Receives(t) ==
  asking # "refused" /\ toPeer[t] \in {"reading", "holding", "oversize"}
    /\ fromPeer[t] # "broken"
    => \/ t \in entries /\ fromPeer[t] = "running"
       \/ link[Far(t)] = <<>> /\ HasClosed(Far(t))

\* How far the ask is, and which pumps run.
Stages ==
  /\ toPeer[Asker] = "off" <=> asking \in {"idle", "inserted", "failed"}
  /\ toPeer[Server] = "off" <=> asking # "open"
  /\ \A s \in Ends : /\ toPeer[s] = "off" <=> fromPeer[s] = "off"
                     /\ toPeer[s] = "off" => sent[s] = 0
                     /\ toPeer[s] = "holding" => sent[s] > 0

\* Nothing takes the entry away before the stream is asked for.
EntryWaits == asking = "inserted" /\ linked => Asker \in entries

StreamShape ==
  /\ StreamTypeOK
  /\ chunks \in [Ends -> Seq(Nat)] /\ got \in [Ends -> Seq(Nat)]
  /\ sent \in [Ends -> Nat]
  /\ link \in [Ends -> Seq(Messages(Asker) \cup Messages(Server))]

StreamIInv ==
  /\ StreamShape /\ Stages /\ EntryWaits
  /\ linked => \A s \in Ends : Direction(s) /\ Receives(s)

\* The next chunk goes to the end of a queue that has no close yet.
LEMMA CarriesMore ==
  ASSUME NEW M, NEW q \in Seq(M), NEW lo \in Nat, NEW hi \in Nat,
         NEW o \in {0, 1}, Carries(q, lo, hi, o, 0), Data(hi + 1) \in M
  PROVE  Carries(Append(q, Data(hi + 1)), lo, hi + 1, o, 0)
<1> DEFINE e == Data(hi + 1)
           r == Append(q, e)
<1>1. Len(r) = o + (hi + 1 - lo) /\ r[Len(q) + 1] = e
        /\ \A i \in 1 .. Len(q) : r[i] = q[i]
  BY DEF Carries
<1>2. Len(q) = o + (hi - lo) /\ lo <= hi
  BY DEF Carries
<1>3. e = Data(hi + 1)
  OBVIOUS
<1> HIDE DEF r, e
<1>4. o = 1 => r[1] = Open
  BY <1>1, <1>2 DEF Carries
<1>5. ASSUME NEW i \in 1 .. hi + 1 - lo
      PROVE  r[o + i] = Data(lo + i)
  <2>1. CASE i = hi + 1 - lo
    BY <1>1, <1>2, <1>3, <2>1
  <2>2. CASE i \in 1 .. hi - lo
    BY <1>1, <1>2, <2>2 DEF Carries
  <2> QED
    BY <2>1, <2>2, <1>2
<1>6. lo <= hi + 1 /\ Len(r) = o + (hi + 1 - lo) + 0 /\ 0 # 1
  BY <1>1, <1>2
<1>7. Carries(r, lo, hi + 1, o, 0)
  BY <1>4, <1>5, <1>6 DEF Carries
<1> QED
  BY <1>7 DEF r, e

\* So does the close.
LEMMA CarriesClose ==
  ASSUME NEW M, NEW q \in Seq(M), NEW lo \in Nat, NEW hi \in Nat,
         NEW o \in {0, 1}, Carries(q, lo, hi, o, 0), Close \in M
  PROVE  Carries(Append(q, Close), lo, hi, o, 1)
<1> DEFINE e == Close
           r == Append(q, e)
<1>1. Len(r) = o + (hi - lo) + 1 /\ r[Len(q) + 1] = e
        /\ \A i \in 1 .. Len(q) : r[i] = q[i]
  BY DEF Carries
<1>2. Len(q) = o + (hi - lo) /\ lo <= hi
  BY DEF Carries
<1> HIDE DEF r
<1>3. o = 1 => r[1] = Open
  BY <1>1, <1>2 DEF Carries
<1>4. \A i \in 1 .. hi - lo : r[o + i] = Data(lo + i)
  BY <1>1, <1>2 DEF Carries
<1> QED
  BY <1>1, <1>2, <1>3, <1>4 DEF Carries, r

\* A queue that begins with a chunk has no open before it, and the rest of it
\* carries the chunks behind that one.
LEMMA CarriesChunk ==
  ASSUME NEW M, NEW q \in Seq(M), NEW lo \in Nat, NEW hi \in Nat,
         NEW o \in {0, 1}, NEW c \in {0, 1}, Carries(q, lo, hi, o, c),
         q # <<>>, Head(q).kind = "data"
  PROVE  /\ o = 0 /\ lo < hi /\ Head(q) = Data(lo + 1)
         /\ Carries(Tail(q), lo + 1, hi, 0, c)
<1>1. Len(q) \in Nat /\ Len(q) > 0 /\ Head(q) = q[1]
  OBVIOUS
<1>2. lo <= hi /\ Len(q) = o + (hi - lo) + c
  BY DEF Carries
<1>3. o = 0
  BY <1>1 DEF Carries, Open
<1>4. lo < hi
  <2> SUFFICES ASSUME lo = hi PROVE FALSE
    BY <1>2
  <2>1. c = 1 /\ Len(q) = 1
    BY <1>1, <1>2, <1>3
  <2>2. q[1] = Close
    BY <2>1 DEF Carries
  <2>3. Close.kind = "close"
    BY DEF Close
  <2> QED
    BY <1>1, <2>2, <2>3
<1>5. q[1] = Data(lo + 1)
  BY <1>3, <1>4 DEF Carries
<1>6. Len(Tail(q)) = Len(q) - 1 /\ \A i \in 1 .. Len(q) - 1 : Tail(q)[i] = q[i + 1]
  BY <1>1
<1> DEFINE r == Tail(q)
<1> HIDE DEF r
<1>7. \A i \in 1 .. hi - (lo + 1) : r[0 + i] = Data(lo + 1 + i)
  <2> SUFFICES ASSUME NEW i \in 1 .. hi - (lo + 1)
               PROVE  r[0 + i] = Data(lo + 1 + i)
    OBVIOUS
  <2>1. i + 1 \in 1 .. hi - lo /\ i \in 1 .. Len(q) - 1
    BY <1>2, <1>3, <1>4
  <2>2. r[i] = q[i + 1]
    BY <1>6, <2>1 DEF r
  <2>3. q[0 + (i + 1)] = Data(lo + (i + 1))
    BY <1>3, <2>1 DEF Carries
  <2>4. lo + (i + 1) = lo + 1 + i /\ 0 + (i + 1) = i + 1 /\ 0 + i = i
    BY <2>1
  <2> QED
    BY <2>2, <2>3, <2>4
<1>8. c = 1 => r[Len(r)] = Close
  <2> SUFFICES ASSUME c = 1 PROVE r[Len(r)] = Close
    OBVIOUS
  <2>1. Len(r) = Len(q) - 1 /\ Len(q) - 1 \in 1 .. Len(q) - 1
    BY <1>2, <1>3, <1>4, <1>6 DEF r
  <2>2. r[Len(q) - 1] = q[Len(q)]
    BY <1>1, <1>6, <2>1 DEF r
  <2> QED
    BY <2>1, <2>2 DEF Carries
<1>9. lo + 1 <= hi /\ Len(r) = 0 + (hi - (lo + 1)) + c
  BY <1>2, <1>3, <1>4, <1>6 DEF r
<1>10. Carries(r, lo + 1, hi, 0, c)
  BY <1>7, <1>8, <1>9 DEF Carries
<1> QED
  BY <1>1, <1>3, <1>4, <1>5, <1>10 DEF r

\* Behind the open comes the rest.
LEMMA CarriesOpen ==
  ASSUME NEW M, NEW q \in Seq(M), NEW lo \in Nat, NEW hi \in Nat,
         NEW o \in {0, 1}, NEW c \in {0, 1}, Carries(q, lo, hi, o, c),
         q # <<>>, Head(q) = Open
  PROVE  o = 1 /\ Carries(Tail(q), lo, hi, 0, c)
<1>1. Len(q) \in Nat /\ Len(q) > 0 /\ Head(q) = q[1]
  OBVIOUS
<1>2. lo <= hi /\ Len(q) = o + (hi - lo) + c
  BY DEF Carries
<1>3. o = 1
  <2> SUFFICES ASSUME o = 0 PROVE FALSE
    OBVIOUS
  <2>1. CASE lo = hi
    <3>1. c = 1 /\ Len(q) = 1
      BY <1>1, <1>2, <2>1
    <3>2. q[1] = Close
      BY <3>1 DEF Carries
    <3>3. Close.kind = "close" /\ Open.kind = "open"
      BY DEF Close, Open
    <3> QED
      BY <1>1, <3>2, <3>3
  <2>2. CASE lo < hi
    <3>1. q[0 + 1] = Data(lo + 1)
      BY <1>2, <2>2 DEF Carries
    <3> QED
      BY <1>1, <3>1 DEF Data, Open
  <2> QED
    BY <1>2, <2>1, <2>2
<1>4. Len(Tail(q)) = Len(q) - 1 /\ \A i \in 1 .. Len(q) - 1 : Tail(q)[i] = q[i + 1]
  BY <1>1
<1> DEFINE r == Tail(q)
<1> HIDE DEF r
<1>5. \A i \in 1 .. hi - lo : r[0 + i] = Data(lo + i)
  <2> SUFFICES ASSUME NEW i \in 1 .. hi - lo
               PROVE  r[0 + i] = Data(lo + i)
    OBVIOUS
  <2>1. i \in 1 .. Len(q) - 1 /\ 0 + i = i /\ 1 + i = i + 1
    BY <1>2, <1>3
  <2>2. r[i] = q[i + 1]
    BY <1>4, <2>1 DEF r
  <2>3. q[1 + i] = Data(lo + i)
    BY <1>3 DEF Carries
  <2> QED
    BY <2>1, <2>2, <2>3
<1>6. c = 1 => r[Len(r)] = Close
  <2> SUFFICES ASSUME c = 1 PROVE r[Len(r)] = Close
    OBVIOUS
  <2>1. Len(r) = Len(q) - 1 /\ Len(q) - 1 \in 1 .. Len(q) - 1
    BY <1>2, <1>3, <1>4 DEF r
  <2>2. r[Len(q) - 1] = q[Len(q)]
    BY <1>1, <1>4, <2>1 DEF r
  <2> QED
    BY <2>1, <2>2 DEF Carries
<1>7. Len(r) = 0 + (hi - lo) + c
  BY <1>2, <1>3, <1>4 DEF r
<1>8. Carries(r, lo, hi, 0, c)
  BY <1>2, <1>5, <1>6, <1>7 DEF Carries
<1> QED
  BY <1>3, <1>8 DEF r

\* Behind the close comes nothing, and everything before it has come.
LEMMA CarriesEnd ==
  ASSUME NEW M, NEW q \in Seq(M), NEW lo \in Nat, NEW hi \in Nat,
         NEW o \in {0, 1}, NEW c \in {0, 1}, Carries(q, lo, hi, o, c),
         q # <<>>, Head(q) = Close
  PROVE  /\ o = 0 /\ lo = hi /\ c = 1 /\ Tail(q) = <<>>
         /\ Carries(Tail(q), lo, hi, 0, 0)
<1>1. Len(q) \in Nat /\ Len(q) > 0 /\ Head(q) = q[1]
  OBVIOUS
<1>2. lo <= hi /\ Len(q) = o + (hi - lo) + c
  BY DEF Carries
<1>3. o = 0
  BY <1>1 DEF Carries, Open, Close
<1>4. lo = hi
  <2> SUFFICES ASSUME lo < hi PROVE FALSE
    BY <1>2
  <2>1. q[0 + 1] = Data(lo + 1)
    BY <1>2, <1>3 DEF Carries
  <2> QED
    BY <1>1, <2>1 DEF Data, Close
<1>5. c = 1 /\ Len(q) = 1
  BY <1>1, <1>2, <1>3, <1>4
<1>6. Tail(q) = <<>>
  <2>1. Tail(q) \in Seq(M) /\ Len(Tail(q)) = 0
    BY <1>5, HeadTailProperties
  <2> QED
    BY <2>1, EmptySeq
<1>7. Carries(<<>>, lo, lo, 0, 0)
  BY DEF Carries
<1> QED
  BY <1>3, <1>4, <1>5, <1>6, <1>7

\* The counting sequences.
LEMMA UpToGrows ==
  ASSUME NEW n \in Nat
  PROVE  Append(UpTo(n), n + 1) = UpTo(n + 1)
<1>1. UpTo(n) \in Seq(Nat) /\ Len(UpTo(n)) = n /\ UpTo(n + 1) \in Seq(Nat)
        /\ Len(UpTo(n + 1)) = n + 1
  BY DEF UpTo
<1>2. Append(UpTo(n), n + 1) \in Seq(Nat) /\ Len(Append(UpTo(n), n + 1)) = n + 1
  BY <1>1
<1>3. \A i \in 1 .. n + 1 : Append(UpTo(n), n + 1)[i] = UpTo(n + 1)[i]
  BY <1>1 DEF UpTo
<1> QED
  BY <1>1, <1>2, <1>3, SeqEqual

\* Two ways to put an element behind two sequences.
LEMMA AppendMoves ==
  ASSUME NEW s \in Seq(Nat), NEW t \in Seq(Nat), NEW e \in Nat
  PROVE  s \o Append(t, e) = Append(s \o t, e)
<1>1. s \o t \in Seq(Nat) /\ Append(t, e) \in Seq(Nat)
        /\ s \o Append(t, e) \in Seq(Nat) /\ Append(s \o t, e) \in Seq(Nat)
  OBVIOUS
<1>2. Len(s \o Append(t, e)) = Len(s) + Len(t) + 1
        /\ Len(Append(s \o t, e)) = Len(s) + Len(t) + 1
  OBVIOUS
<1>3. \A i \in 1 .. Len(s) + Len(t) + 1 :
        (s \o Append(t, e))[i] = Append(s \o t, e)[i]
  <2> SUFFICES ASSUME NEW i \in 1 .. Len(s) + Len(t) + 1
               PROVE  (s \o Append(t, e))[i] = Append(s \o t, e)[i]
    OBVIOUS
  <2>1. CASE i <= Len(s)
    BY <2>1
  <2>2. CASE i > Len(s) /\ i <= Len(s) + Len(t)
    BY <2>2
  <2>3. CASE i = Len(s) + Len(t) + 1
    BY <2>3
  <2> QED
    BY <2>1, <2>2, <2>3
<1> QED
  BY <1>1, <1>2, <1>3, SeqEqual

\* And to move one from the head of the second to the end of the first.
LEMMA HeadMoves ==
  ASSUME NEW s \in Seq(Nat), NEW t \in Seq(Nat), t # <<>>
  PROVE  Append(s, Head(t)) \o Tail(t) = s \o t
<1>1. Head(t) \in Nat /\ Tail(t) \in Seq(Nat) /\ Len(Tail(t)) = Len(t) - 1
        /\ Len(t) \in Nat \ {0} /\ Head(t) = t[1]
        /\ \A i \in 1 .. Len(t) - 1 : Tail(t)[i] = t[i + 1]
  BY HeadTailProperties, EmptySeq
<1> DEFINE h == Head(t)
           u == Tail(t)
           a == Append(s, h)
<1>2. a \in Seq(Nat) /\ Len(a) = Len(s) + 1 /\ a[Len(s) + 1] = t[1]
        /\ \A i \in 1 .. Len(s) : a[i] = s[i]
  BY <1>1
<1> HIDE DEF h, u, a
<1>3. u \in Seq(Nat) /\ Len(u) = Len(t) - 1
        /\ \A i \in 1 .. Len(t) - 1 : u[i] = t[i + 1]
  BY <1>1 DEF u
<1>4. /\ a \o u \in Seq(Nat) /\ Len(a \o u) = Len(a) + Len(u)
      /\ \A i \in 1 .. Len(a) + Len(u) :
           (a \o u)[i] = IF i <= Len(a) THEN a[i] ELSE u[i - Len(a)]
  BY <1>2, <1>3, ConcatProperties
<1>5. /\ s \o t \in Seq(Nat) /\ Len(s \o t) = Len(s) + Len(t)
      /\ \A i \in 1 .. Len(s) + Len(t) :
           (s \o t)[i] = IF i <= Len(s) THEN s[i] ELSE t[i - Len(s)]
  BY ConcatProperties
<1>6. Len(s) \in Nat /\ Len(t) \in Nat /\ Len(a) + Len(u) = Len(s) + Len(t)
  BY <1>1, <1>2, <1>3
<1>7. \A i \in 1 .. Len(s) + Len(t) : (a \o u)[i] = (s \o t)[i]
  <2> SUFFICES ASSUME NEW i \in 1 .. Len(s) + Len(t)
               PROVE  (a \o u)[i] = (s \o t)[i]
    OBVIOUS
  <2>1. CASE i <= Len(s)
    <3>1. i \in 1 .. Len(s) /\ i <= Len(a)
      BY <1>2, <1>6, <2>1
    <3> QED
      BY <1>2, <1>4, <1>5, <1>6, <2>1, <3>1
  <2>2. CASE i = Len(s) + 1
    <3>1. i <= Len(a) /\ ~(i <= Len(s)) /\ i - Len(s) = 1
      BY <1>2, <1>6, <2>2
    <3>2. (s \o t)[i] = t[1]
      BY <1>5, <3>1
    <3>3. (a \o u)[i] = a[Len(s) + 1]
      BY <1>4, <1>6, <2>2, <3>1
    <3> QED
      BY <1>2, <3>2, <3>3
  <2>3. CASE i > Len(s) + 1
    <3>1. ~(i <= Len(a)) /\ ~(i <= Len(s)) /\ i - Len(a) \in 1 .. Len(t) - 1
            /\ (i - Len(a)) + 1 = i - Len(s)
      BY <1>2, <1>6, <2>3
    <3>2. (a \o u)[i] = u[i - Len(a)] /\ (s \o t)[i] = t[i - Len(s)]
      BY <1>4, <1>5, <1>6, <3>1
    <3>3. u[i - Len(a)] = t[(i - Len(a)) + 1]
      BY <1>3, <3>1
    <3> QED
      BY <3>1, <3>2, <3>3
  <2>4. i <= Len(s) \/ i = Len(s) + 1 \/ i > Len(s) + 1
    BY <1>6
  <2> QED
    BY <2>1, <2>2, <2>3, <2>4
<1>8. a \o u = s \o t
  BY <1>4, <1>5, <1>6, <1>7, SeqEqual
<1> QED
  BY <1>8 DEF h, u, a

\* There are two sides.
LEMMA FarIsFar ==
  /\ Asker # Server
  /\ \A s \in Ends : Far(s) \in Ends /\ Far(s) # s /\ Far(Far(s)) = s
BY StreamAssumption DEF Far, Ends

\* The steps of the asker, of sockets and of the link keep types and stages.
LEMMA SurroundingsShape ==
  ASSUME StreamShape, Stages,
         \/ AskStep \/ StreamLinkFails \/ \E s \in Ends : ReaderStops(s)
         \/ \E s \in Ends : \E how \in {"shut", "closed"} : SocketEnds(s, how)
  PROVE  StreamShape' /\ Stages'
<1>1. CASE StreamBegins
  BY <1>1, FarIsFar DEF StreamBegins, StreamShape, StreamTypeOK, Stages, Ends
<1>2. CASE AskFails
  BY <1>2, FarIsFar DEF AskFails, StreamShape, StreamTypeOK, Stages, Ends
<1>3. CASE AskOpen
  <2>1. Asker \in Ends
    BY DEF Ends
  <2>2. link'[Asker] \in Seq(Messages(Asker))
          /\ link'[Server] \in Seq(Messages(Server))
          /\ link' \in [Ends -> Seq(Messages(Asker) \cup Messages(Server))]
    BY <1>3, FarIsFar
    DEF AskOpen, Sent, StreamShape, StreamTypeOK, Messages, Ends
  <2>3. StreamShape'
    BY <1>3, <2>2
    DEF AskOpen, PumpsStart, StreamShape, StreamTypeOK, Ends
  <2>4. Stages'
    BY <1>3, FarIsFar
    DEF AskOpen, PumpsStart, StreamShape, StreamTypeOK, Stages, Ends
  <2> QED
    BY <2>3, <2>4
<1>4. CASE StreamLinkFails
  <2>1. \A t \in Ends : link'[t] = <<>> /\ <<>> \in Seq(Messages(t))
    BY <1>4 DEF StreamLinkFails
  <2>2. link' \in [Ends -> Seq(Messages(Asker) \cup Messages(Server))]
    BY <1>4 DEF StreamLinkFails
  <2> QED
    BY <1>4, <2>1, <2>2 DEF StreamLinkFails, StreamShape, StreamTypeOK, Stages
<1>5. ASSUME NEW s \in Ends, NEW how \in {"shut", "closed"}, SocketEnds(s, how)
      PROVE  StreamShape' /\ Stages'
  BY <1>5 DEF SocketEnds, StreamShape, StreamTypeOK, Stages
<1>6. ASSUME NEW s \in Ends, ReaderStops(s)
      PROVE  StreamShape' /\ Stages'
  BY <1>6 DEF ReaderStops, StreamShape, StreamTypeOK, Stages
<1> QED
  BY <1>1, <1>2, <1>3, <1>4, <1>5, <1>6 DEF AskStep

\* So do the readers of the link, when an open is one that was asked for.
LEMMA ReadersShape ==
  ASSUME StreamShape, Stages, NEW s \in Ends, LinkStep(s),
         Arrives(Server, Open) => asking = "asked"
  PROVE  StreamShape' /\ Stages'
<1> DEFINE M == Messages(Asker) \cup Messages(Server)
<1> Far(s) \in Ends /\ Far(s) # s /\ Far(Far(s)) = s
  BY FarIsFar
<1>1. ASSUME link[Far(s)] # <<>>
      PROVE  /\ Tail(link[Far(s)]) \in Seq(Messages(Far(s)))
             /\ Head(link[Far(s)]) \in Messages(Far(s))
             /\ Tail(link[Far(s)]) \in Seq(M)
             /\ Taken(s) \in [Ends -> Seq(M)]
             /\ Taken(s)[Far(s)] = Tail(link[Far(s)])
             /\ \A t \in Ends \ {Far(s)} : Taken(s)[t] = link[t]
  <2>1. link[Far(s)] \in Seq(Messages(Far(s))) /\ link[Far(s)] \in Seq(M)
    BY DEF StreamShape, StreamTypeOK
  <2> HIDE DEF M
  <2>2. Tail(link[Far(s)]) \in Seq(M)
    BY <1>1, <2>1
  <2> QED
    BY <1>1, <2>1, <2>2 DEF Taken, StreamShape, M
<1>2. CASE s = Server /\ OpenAccepted
  <2>1. link' \in [Ends -> Seq(M)] /\ \A t \in Ends : link'[t] \in Seq(Messages(t))
    BY <1>1, <1>2 DEF OpenAccepted, Arrives, StreamShape, StreamTypeOK
  <2>2. asking = "asked"
    BY <1>2 DEF OpenAccepted, Open
  <2>3. StreamShape'
    BY <1>2, <2>1 DEF OpenAccepted, PumpsStart, StreamShape, StreamTypeOK
  <2>4. Stages'
    BY <1>2, <2>2, FarIsFar
    DEF OpenAccepted, PumpsStart, StreamShape, StreamTypeOK, Stages, Ends
  <2> QED
    BY <2>3, <2>4
<1>3. CASE s = Server /\ OpenRefused
  <2> DEFINE T == Taken(s)
  <2>1. T \in [Ends -> Seq(M)] /\ \A t \in Ends : T[t] \in Seq(Messages(t))
    BY <1>1, <1>3 DEF OpenRefused, Arrives, StreamShape, StreamTypeOK
  <2>2. link' = [T EXCEPT ![Server] = Append(@, [kind |-> "close"])]
    BY <1>3 DEF OpenRefused
  <2>3. [kind |-> "close"] \in M
          /\ \A t \in Ends : [kind |-> "close"] \in Messages(t)
    BY DEF Messages
  <2> HIDE DEF T, M
  <2>4. link' \in [Ends -> Seq(M)] /\ \A t \in Ends : link'[t] \in Seq(Messages(t))
    BY <1>3, <2>1, <2>2, <2>3
  <2>5. asking = "asked"
    BY <1>3 DEF OpenRefused, Open
  <2>6. StreamShape'
    BY <1>3, <2>4 DEF OpenRefused, StreamShape, StreamTypeOK, M
  <2>7. Stages'
    BY <1>3, <2>5, FarIsFar
    DEF OpenRefused, StreamShape, StreamTypeOK, Stages, Ends
  <2> QED
    BY <2>6, <2>7
<1>4. ASSUME NEW m \in Chunks(Far(s)), DataArrives(s, m)
      PROVE  StreamShape' /\ Stages'
  <2>1. link' \in [Ends -> Seq(M)] /\ \A t \in Ends : link'[t] \in Seq(Messages(t))
    BY <1>1, <1>4 DEF DataArrives, Arrives, StreamShape, StreamTypeOK
  <2>2. m.chunk \in 1 .. ChunksOf[Far(s)] /\ m.chunk \in Nat
    BY StreamAssumption DEF Chunks
  <2>3. CASE chunks' = [chunks EXCEPT ![s] = Append(@, m.chunk)]
               /\ Len(chunks[s]) < ChunkRoom
    <3>1. chunks' \in [Ends -> Seq(Nat)]
      BY <2>2, <2>3 DEF StreamShape
    <3>2. chunks'[s] = Append(chunks[s], m.chunk)
            /\ \A t \in Ends \ {s} : chunks'[t] = chunks[t]
      BY <2>3 DEF StreamShape
    <3>3. /\ Append(chunks[s], m.chunk) \in Seq(1 .. ChunksOf[Far(s)])
          /\ Len(Append(chunks[s], m.chunk)) <= ChunkRoom
      BY <2>2, <2>3, StreamAssumption DEF StreamShape, StreamTypeOK
    <3>4. \A t \in Ends : /\ chunks'[t] \in Seq(1 .. ChunksOf[Far(t)])
                          /\ Len(chunks'[t]) <= ChunkRoom
      BY <3>2, <3>3 DEF StreamShape, StreamTypeOK
    <3>5. overrun' \in SUBSET Ends
      BY <1>4 DEF DataArrives, StreamShape, StreamTypeOK
    <3> QED
      BY <1>4, <2>1, <3>1, <3>4, <3>5
      DEF DataArrives, StreamShape, StreamTypeOK, Stages
  <2>4. CASE UNCHANGED chunks
    BY <1>4, <2>1, <2>4 DEF DataArrives, StreamShape, StreamTypeOK, Stages
  <2> QED
    BY <1>4, <2>3, <2>4 DEF DataArrives
<1>5. CASE CloseArrives(s)
  <2>1. link' \in [Ends -> Seq(M)] /\ \A t \in Ends : link'[t] \in Seq(Messages(t))
    BY <1>1, <1>5 DEF CloseArrives, Arrives, StreamShape, StreamTypeOK
  <2>2. chunks' = chunks
    BY <1>5 DEF CloseArrives, LeftInQueue, StreamShape
  <2> QED
    BY <1>5, <2>1, <2>2 DEF CloseArrives, StreamShape, StreamTypeOK, Stages
<1> QED
  BY <1>2, <1>3, <1>4, <1>5 DEF LinkStep

\* And so do the pumps.
LEMMA PumpsShape ==
  ASSUME StreamShape, Stages, NEW s \in Ends, ToPeerStep(s) \/ FromPeerStep(s)
  PROVE  StreamShape' /\ Stages'
<1>1. ASSUME NEW m \in Messages(s), SendsOrFails(s, m)
      PROVE  /\ link' \in [Ends -> Seq(Messages(Asker) \cup Messages(Server))]
             /\ \A t \in Ends : link'[t] \in Seq(Messages(t))
  <2>1. m \in Messages(Asker) \cup Messages(Server)
    BY DEF Ends
  <2> DEFINE M == Messages(Asker) \cup Messages(Server)
  <2>2. link \in [Ends -> Seq(M)] /\ \A t \in Ends : link[t] \in Seq(Messages(t))
    BY DEF StreamShape, StreamTypeOK
  <2>3. CASE link' = [link EXCEPT ![s] = Append(@, m)]
    <3>1. m \in M
      BY <2>1
    <3> HIDE DEF M
    <3>2. Append(link[s], m) \in Seq(M) /\ Append(link[s], m) \in Seq(Messages(s))
      BY <1>1, <2>2, <3>1
    <3>3. link' \in [Ends -> Seq(M)] /\ \A t \in Ends : link'[t] \in Seq(Messages(t))
      BY <2>2, <2>3, <3>2
    <3> QED
      BY <3>3 DEF M
  <2>4. CASE UNCHANGED link
    BY <2>2, <2>4
  <2> QED
    BY <1>1, <2>3, <2>4 DEF SendsOrFails, Sent
<1>2. CASE PumpReads(s)
  <2>1. sent' \in [Ends -> Nat] /\ sent'[s] = sent[s] + 1
          /\ \A t \in Ends \ {s} : sent'[t] = sent[t]
    BY <1>2 DEF PumpReads, StreamShape
  <2>2. ChunksOf[s] \in Nat /\ sent[s] \in Nat /\ sent[s] < ChunksOf[s]
    BY <1>2, StreamAssumption DEF PumpReads, StreamShape
  <2>3. \A t \in Ends : sent'[t] \in 0 .. ChunksOf[t]
    <3>1. sent[s] + 1 \in 0 .. ChunksOf[s]
      BY <2>2
    <3>2. \A t \in Ends : sent[t] \in 0 .. ChunksOf[t]
      BY DEF StreamShape, StreamTypeOK
    <3> QED
      BY <2>1, <3>1, <3>2
  <2>4. StreamShape'
    BY <1>2, <2>1, <2>3 DEF PumpReads, StreamShape, StreamTypeOK
  <2>5. Stages'
    BY <1>2, <2>1, <2>2 DEF PumpReads, StreamShape, StreamTypeOK, Stages
  <2> QED
    BY <2>4, <2>5
<1>3. CASE PumpSends(s)
  <2>1. [kind |-> "data", chunk |-> sent[s]] \in Messages(s)
    <3>1. sent[s] \in Nat /\ sent[s] > 0 /\ sent[s] \in 0 .. ChunksOf[s]
            /\ ChunksOf[s] \in Nat
      BY <1>3, StreamAssumption
      DEF PumpSends, StreamShape, StreamTypeOK, Stages
    <3>2. sent[s] \in 1 .. ChunksOf[s]
      BY <3>1
    <3> QED
      BY <3>2 DEF Messages, Chunks
  <2> QED
    BY <1>1, <1>3, <2>1 DEF PumpSends, StreamShape, StreamTypeOK, Stages
<1>4. CASE PumpMeetsEnd(s)
  BY <1>4 DEF PumpMeetsEnd, StreamShape, StreamTypeOK, Stages
<1>5. CASE PumpCloses(s)
  <2>1. [kind |-> "close"] \in Messages(s)
    BY DEF Messages
  <2> QED
    BY <1>1, <1>5, <2>1 DEF PumpCloses, StreamShape, StreamTypeOK, Stages
<1>6. CASE PumpLeaves(s)
  BY <1>6 DEF PumpLeaves, EntryRemoved, StreamShape, StreamTypeOK, Stages
<1>7. CASE PumpDelivers(s)
  <2> DEFINE N == 1 .. ChunksOf[Far(s)]
  <2>1. chunks[s] \in Seq(N) /\ chunks[s] # <<>> /\ got[s] \in Seq(N)
          /\ Len(chunks[s]) <= ChunkRoom /\ ChunkRoom \in Nat
          /\ chunks[s] \in Seq(Nat) /\ got[s] \in Seq(Nat)
    BY <1>7, StreamAssumption DEF PumpDelivers, StreamShape, StreamTypeOK
  <2>2. Head(chunks[s]) \in N /\ Tail(chunks[s]) \in Seq(N)
          /\ Len(Tail(chunks[s])) = Len(chunks[s]) - 1
          /\ Tail(chunks[s]) \in Seq(Nat) /\ Head(chunks[s]) \in Nat
    BY <2>1, HeadTailProperties
  <2> HIDE DEF N
  <2>3. Append(got[s], Head(chunks[s])) \in Seq(N)
          /\ Append(got[s], Head(chunks[s])) \in Seq(Nat)
    BY <2>1, <2>2
  <2>4. Len(Tail(chunks[s])) <= ChunkRoom
    BY <2>1, <2>2
  <2>5. chunks' \in [Ends -> Seq(Nat)] /\ got' \in [Ends -> Seq(Nat)]
    BY <1>7, <2>2, <2>3 DEF PumpDelivers, StreamShape
  <2>6. \A t \in Ends : /\ chunks'[t] \in Seq(1 .. ChunksOf[Far(t)])
                        /\ got'[t] \in Seq(1 .. ChunksOf[Far(t)])
                        /\ Len(chunks'[t]) <= ChunkRoom
    BY <1>7, <2>2, <2>3, <2>4
    DEF PumpDelivers, StreamShape, StreamTypeOK, N
  <2> QED
    BY <1>7, <2>5, <2>6 DEF PumpDelivers, StreamShape, StreamTypeOK, Stages
<1>8. CASE PumpBreaks(s)
  <2>1. Len(<<>>) <= ChunkRoom /\ \A S : <<>> \in Seq(S)
    BY StreamAssumption
  <2>2. \A t \in Ends : /\ chunks'[t] \in Seq(1 .. ChunksOf[Far(t)])
                        /\ Len(chunks'[t]) <= ChunkRoom
    BY <1>8, <2>1 DEF PumpBreaks, StreamShape, StreamTypeOK
  <2>3. chunks' \in [Ends -> Seq(Nat)]
    BY <1>8, <2>1 DEF PumpBreaks, StreamShape
  <2>4. StreamShape'
    BY <1>8, <2>2, <2>3 DEF PumpBreaks, EntryRemoved, StreamShape, StreamTypeOK
  <2>5. Stages'
    BY <1>8 DEF PumpBreaks, StreamShape, StreamTypeOK, Stages
  <2> QED
    BY <2>4, <2>5
<1>9. CASE PumpEnds(s)
  BY <1>9 DEF PumpEnds, StreamShape, StreamTypeOK, Stages
<1>10. CASE PumpReadsOversize(s)
  BY <1>10 DEF PumpReadsOversize, StreamShape, StreamTypeOK, Stages
<1>11. CASE PumpSendsOversize(s)
  BY <1>11 DEF PumpSendsOversize, StreamShape, StreamTypeOK, Stages
<1> QED
  BY <1>2, <1>3, <1>4, <1>5, <1>6, <1>7, <1>8, <1>9, <1>10, <1>11
  DEF ToPeerStep, FromPeerStep

\* What the pumps of a side can be at.
ToStates   == {"off", "reading", "holding", "oversize", "closing", "leaving",
               "ended"}
FromStates == {"off", "running", "ended", "broken"}

\* Nothing is sent, and nothing is on its way.
LEMMA StreamIInvInit == StreamInit => StreamIInv
<1> SUFFICES ASSUME StreamInit PROVE StreamIInv
  OBVIOUS
<1>1. \A S : <<>> \in Seq(S)
  OBVIOUS
<1>2. StreamShape
  <2>1. \A s \in Ends : Len(chunks[s]) <= ChunkRoom /\ sent[s] \in 0 .. ChunksOf[s]
    BY StreamAssumption DEF StreamInit
  <2> QED
    BY <1>1, <2>1 DEF StreamInit, StreamShape, StreamTypeOK
<1>3. Stages /\ EntryWaits
  BY FarIsFar DEF StreamInit, Stages, EntryWaits, Ends
<1>4. ASSUME NEW s \in Ends
      PROVE  Direction(s) /\ Receives(s)
  <2>1. Far(s) \in Ends
    BY FarIsFar
  <2>2. <<>> \o <<>> = UpTo(0)
    <3>1. <<>> \in Seq(Nat)
      OBVIOUS
    <3>2. <<>> \o <<>> = <<>>
      BY <3>1, ConcatEmptySeq
    <3>3. UpTo(0) = <<>>
      BY DEF UpTo
    <3> QED
      BY <3>2, <3>3
  <2>3. Carries(<<>>, 0, 0, 0, 0)
    BY DEF Carries
  <2>4. sent[s] - Held(s) = 0 /\ Asks(s) = 0 /\ link[s] = <<>>
          /\ got[Far(s)] = <<>> /\ chunks[Far(s)] = <<>> /\ sent[s] = 0
    BY <2>1 DEF StreamInit, Held, Asks
  <2>5. Direction(s)
    BY <2>2, <2>3, <2>4 DEF Direction
  <2> QED
    BY <2>5 DEF StreamInit, Receives
<1> QED
  BY <1>2, <1>3, <1>4 DEF StreamIInv

\* What the pump holds is the last of what it has read.
LEMMA HeldIsRead ==
  ASSUME StreamShape, Stages, NEW s \in Ends
  PROVE  /\ Held(s) \in {0, 1} /\ sent[s] \in Nat /\ sent[s] - Held(s) \in Nat
         /\ Asks(s) \in {0, 1}
         /\ link[s] \in Seq(Messages(Asker) \cup Messages(Server))
         /\ toPeer[s] \in {"off", "reading", "holding", "oversize", "closing",
                           "leaving", "ended"}
         /\ got[s] \in Seq(Nat) /\ chunks[s] \in Seq(Nat)
BY DEF StreamShape, StreamTypeOK, Stages, Held, Asks

\* A direction with its witnesses.
LEMMA DirectionIs ==
  ASSUME StreamShape, Stages, NEW s \in Ends, Direction(s)
  PROVE  \E lo \in Nat, c \in {0, 1} :
           /\ Carries(link[s], lo, sent[s] - Held(s), Asks(s), c)
           /\ c = 1 => HasClosed(s)
           /\ Sound(Far(s)) => got[Far(s)] \o chunks[Far(s)] = UpTo(lo)
<1>1. PICK lo \in 0 .. sent[s], c \in {0, 1} :
        /\ Carries(link[s], lo, sent[s] - Held(s), Asks(s), c)
        /\ c = 1 => HasClosed(s)
        /\ Sound(Far(s)) => got[Far(s)] \o chunks[Far(s)] = UpTo(lo)
  BY DEF Direction
<1>2. lo \in Nat
  BY HeldIsRead
<1> QED
  BY <1>1, <1>2

\* Such witnesses make a direction after a step.
LEMMA DirectionBecomes ==
  ASSUME StreamShape', Stages', NEW s \in Ends, NEW lo \in Nat, NEW c \in {0, 1},
         Carries(link'[s], lo, sent'[s] - Held(s)', Asks(s)', c),
         c = 1 => HasClosed(s)',
         Sound(Far(s))' => got'[Far(s)] \o chunks'[Far(s)] = UpTo(lo)
  PROVE  Direction(s)'
<1>1. lo <= sent'[s] - Held(s)' /\ sent'[s] \in Nat /\ Held(s)' \in {0, 1}
  BY DEF Carries, StreamShape, Held
<1>2. lo \in 0 .. sent'[s]
  BY <1>1
<1> QED
  BY <1>2 DEF Direction

\* A step that neither sends nor takes anything on the way from s, and gives
\* the other side nothing new, leaves the direction as it was.
LEMMA DirectionKept ==
  ASSUME StreamShape, Stages, StreamShape', Stages', NEW s \in Ends, Direction(s),
         link'[s] = link[s], sent'[s] - Held(s)' = sent[s] - Held(s),
         Asks(s)' = Asks(s), HasClosed(s) => HasClosed(s)',
         Sound(Far(s))' =>
           /\ Sound(Far(s))
           /\ got'[Far(s)] \o chunks'[Far(s)] = got[Far(s)] \o chunks[Far(s)]
  PROVE  Direction(s)'
<1>1. PICK lo \in Nat, c \in {0, 1} :
        /\ Carries(link[s], lo, sent[s] - Held(s), Asks(s), c)
        /\ c = 1 => HasClosed(s)
        /\ Sound(Far(s)) => got[Far(s)] \o chunks[Far(s)] = UpTo(lo)
  BY DirectionIs
<1> QED
  BY <1>1, DirectionBecomes

\* Open, close and chunk on their way, and what they say about the direction.
LEMMA OpenWasAsked ==
  ASSUME StreamIInv, Arrives(Server, Open)
  PROVE  asking = "asked"
<1>1. Asker \in Ends /\ Far(Server) = Asker
  BY FarIsFar DEF Ends, Far
<1>2. StreamShape /\ Stages /\ Direction(Asker)
  BY <1>1 DEF StreamIInv, Arrives
<1>3. PICK lo \in Nat, c \in {0, 1} :
        Carries(link[Asker], lo, sent[Asker] - Held(Asker), Asks(Asker), c)
  BY <1>1, <1>2, DirectionIs
<1>4. Asks(Asker) = 1
  BY <1>1, <1>2, <1>3, HeldIsRead, CarriesOpen DEF Arrives
<1> QED
  BY <1>4 DEF Asks

\* The steps of the asker while the link stands.
LEMMA AskStepKeeps ==
  ASSUME StreamIInv, AskStep, linked, StreamShape', Stages', NEW s \in Ends
  PROVE  EntryWaits' /\ Direction(s)' /\ Receives(s)'
<1> USE FarIsFar
<1>0. /\ StreamShape /\ Stages /\ Direction(s) /\ Receives(s)
      /\ Far(s) \in Ends
  BY DEF StreamIInv
<1>1. CASE StreamBegins
  <2>1. Direction(s)'
    BY <1>0, <1>1, DirectionKept
    DEF StreamBegins, Held, Asks, HasClosed, Sound
  <2> QED
    BY <1>0, <1>1, <2>1 DEF StreamBegins, EntryWaits, Receives, Stages, Ends
<1>2. CASE AskFails
  BY <1>2 DEF AskFails
<1>3. CASE AskOpen
  <2>1. /\ toPeer[Asker] = "off" /\ toPeer[Server] = "off"
        /\ fromPeer[Asker] = "off" /\ fromPeer[Server] = "off"
        /\ sent[Asker] = 0
    BY <1>0, <1>3 DEF AskOpen, Stages, Ends
  <2>2. Asker \in entries
    BY <1>3 DEF StreamIInv, EntryWaits, AskOpen
  <2>3. /\ toPeer' = [toPeer EXCEPT ![Asker] = "reading"]
        /\ fromPeer' = [fromPeer EXCEPT ![Asker] = "running"]
        /\ link' = [link EXCEPT ![Asker] = Append(@, Open)]
        /\ asking = "inserted" /\ asking' = "asked"
        /\ UNCHANGED <<entries, chunks, sent, got, overrun>>
    BY <1>3 DEF AskOpen, Sent, PumpsStart, Open
  <2>4. toPeer \in [Ends -> ToStates] /\ fromPeer \in [Ends -> FromStates]
    BY <1>0 DEF StreamShape, StreamTypeOK, ToStates, FromStates
  <2>5. CASE s = Asker
    <3>1. PICK lo \in Nat, c \in {0, 1} :
            /\ Carries(link[s], lo, sent[s] - Held(s), Asks(s), c)
            /\ c = 1 => HasClosed(s)
            /\ Sound(Far(s)) => got[Far(s)] \o chunks[Far(s)] = UpTo(lo)
      BY <1>0, DirectionIs
    <3>2. c = 0 /\ Held(s) = 0 /\ Asks(s) = 0
      BY <2>1, <2>3, <2>5, <3>1 DEF HasClosed, Held, Asks
    <3>3. lo = 0 /\ link[s] = <<>>
      <4>1. lo <= 0 /\ Len(link[s]) = 0 + (0 - lo) + 0
        BY <2>1, <2>5, <3>1, <3>2 DEF Carries
      <4>2. lo = 0 /\ Len(link[s]) = 0
        BY <4>1
      <4> QED
        BY <4>2, HeldIsRead, <1>0, EmptySeq
    <3>4. link'[s] = <<Open>> /\ Held(s)' = 0 /\ Asks(s)' = 1 /\ sent'[s] = 0
      BY <1>0, <2>1, <2>3, <2>4, <2>5, <3>3 DEF StreamShape, Held, Asks
    <3>5. Carries(<<Open>>, 0, 0, 1, 0)
      BY DEF Carries
    <3>6. Sound(Far(s))' => Sound(Far(s))
      BY <1>0, <2>1, <2>3, <2>4, <2>5 DEF Sound
    <3>7. Direction(s)'
      <4>1. Sound(Far(s))' => got'[Far(s)] \o chunks'[Far(s)] = UpTo(0)
        BY <2>3, <3>1, <3>3, <3>6
      <4>2. Carries(link'[s], 0, sent'[s] - Held(s)', Asks(s)', 0)
        BY <3>4, <3>5
      <4>3. 0 \in Nat /\ 0 \in {0, 1} /\ (0 = 1 => HasClosed(s)')
        OBVIOUS
      <4> HIDE FarIsFar
      <4> QED
        BY <4>1, <4>2, <4>3, DirectionBecomes
    <3>8. Receives(s)'
      BY <2>2, <2>3, <2>4, <2>5 DEF Receives, Ends
    <3> QED
      BY <2>3, <3>7, <3>8 DEF EntryWaits
  <2>6. CASE s = Server
    <3>1. Sound(Far(s))' => Sound(Far(s))
      BY <2>1, <2>3, <2>6 DEF Sound, Far
    <3>2. link'[s] = link[s] /\ Held(s)' = Held(s) /\ Asks(s)' = Asks(s)
      BY <1>0, <2>3, <2>4, <2>6 DEF StreamShape, Held, Asks
    <3>3. Direction(s)'
      BY <1>0, <2>1, <2>3, <2>4, <2>6, <3>1, <3>2, DirectionKept DEF HasClosed
    <3>4. Receives(s)'
      BY <1>0, <2>1, <2>3, <2>4, <2>6 DEF Receives
    <3> QED
      BY <2>3, <3>3, <3>4 DEF EntryWaits
  <2> QED
    BY <2>5, <2>6 DEF Ends
<1> QED
  BY <1>1, <1>2, <1>3 DEF AskStep

\* What the reader at side r takes, and what that leaves on the way.
LEMMA TakenLeaves ==
  ASSUME StreamShape, NEW r \in Ends, link[Far(r)] # <<>>
  PROVE  /\ Taken(r)[Far(r)] = Tail(link[Far(r)])
         /\ Taken(r)[r] = link[r]
         /\ Taken(r) \in [Ends -> Seq(Messages(Asker) \cup Messages(Server))]
<1> DEFINE M == Messages(Asker) \cup Messages(Server)
<1>1. link \in [Ends -> Seq(M)] /\ Far(r) \in Ends /\ Far(r) # r
  BY FarIsFar DEF StreamShape
<1> HIDE DEF M
<1>2. Tail(link[Far(r)]) \in Seq(M)
  BY <1>1
<1>3. Taken(r) \in [Ends -> Seq(M)] /\ Taken(r)[Far(r)] = Tail(link[Far(r)])
        /\ Taken(r)[r] = link[r]
  BY <1>1, <1>2 DEF Taken
<1> QED
  BY <1>3 DEF M

\* The server's answer to an open.
LEMMA OpenKeeps ==
  ASSUME StreamIInv, OpenAccepted \/ OpenRefused, linked, StreamShape', Stages',
         NEW s \in Ends
  PROVE  EntryWaits' /\ Direction(s)' /\ Receives(s)'
<1> USE FarIsFar
<1>0. /\ StreamShape /\ Stages /\ Direction(s) /\ Receives(s)
      /\ Far(s) \in Ends /\ Asker \in Ends /\ Server \in Ends
      /\ Far(Server) = Asker /\ Far(Asker) = Server
  BY DEF StreamIInv, Far, Ends
<1>1. Arrives(Server, Open) /\ link[Asker] # <<>> /\ Head(link[Asker]) = Open
  BY <1>0 DEF OpenAccepted, OpenRefused, Arrives, Open
<1>2. asking = "asked"
  BY <1>1, OpenWasAsked
<1>3. /\ toPeer[Asker] # "off" /\ toPeer[Server] = "off"
      /\ fromPeer[Server] = "off" /\ Held(Server) = 0
  BY <1>0, <1>2 DEF Stages, Held
<1>4. /\ Taken(Server)[Asker] = Tail(link[Asker])
      /\ Taken(Server)[Server] = link[Server]
      /\ Taken(Server) \in [Ends -> Seq(Messages(Asker) \cup Messages(Server))]
  BY <1>0, <1>1, TakenLeaves
<1>5. PICK lo \in Nat, c \in {0, 1} :
        /\ Carries(link[s], lo, sent[s] - Held(s), Asks(s), c)
        /\ c = 1 => HasClosed(s)
        /\ Sound(Far(s)) => got[Far(s)] \o chunks[Far(s)] = UpTo(lo)
  BY <1>0, DirectionIs
<1>6. sent[s] - Held(s) \in Nat /\ Asks(s) \in {0, 1}
        /\ link[s] \in Seq(Messages(Asker) \cup Messages(Server))
  BY <1>0, HeldIsRead
<1>7. s = Asker => Carries(Tail(link[s]), lo, sent[s] - Held(s), 0, c)
  BY <1>1, <1>5, <1>6, CarriesOpen
<1>8. toPeer \in [Ends -> ToStates] /\ fromPeer \in [Ends -> FromStates]
  BY <1>0 DEF StreamShape, StreamTypeOK, ToStates, FromStates
<1>9. CASE OpenAccepted
  <2>1. /\ toPeer' = [toPeer EXCEPT ![Server] = "reading"]
        /\ fromPeer' = [fromPeer EXCEPT ![Server] = "running"]
        /\ link' = Taken(Server) /\ asking' = "open"
        /\ entries' = entries \cup {Server}
        /\ UNCHANGED <<chunks, sent, got, overrun>>
    BY <1>9 DEF OpenAccepted, PumpsStart
  <2>2. Held(s)' = Held(s) /\ Asks(s)' = 0
    BY <1>0, <1>3, <1>8, <2>1 DEF Held, Asks, Ends
  <2>3. HasClosed(s) => HasClosed(s)'
    BY <1>2, <1>3, <1>8, <2>1 DEF HasClosed, Ends
  <2>4. Sound(Far(s))' => Sound(Far(s))
    BY <1>0, <1>2, <1>3, <1>8, <2>1 DEF Sound, Ends
  <2>5. Carries(link'[s], lo, sent'[s] - Held(s)', Asks(s)', c)
    <3>1. CASE s = Asker
      BY <1>4, <1>7, <2>1, <2>2, <3>1
    <3>2. CASE s = Server
      BY <1>0, <1>4, <1>5, <2>1, <2>2, <3>2 DEF Asks
    <3> QED
      BY <3>1, <3>2 DEF Ends
  <2>6. Direction(s)'
    BY <1>5, <2>1, <2>3, <2>4, <2>5, DirectionBecomes
  <2>7. Receives(s)'
    <3>1. CASE s = Server
      BY <1>0, <1>8, <2>1, <3>1 DEF Receives
    <3>2. CASE s = Asker
      <4>1. ~HasClosed(Server)
        BY <1>2, <1>3 DEF HasClosed
      <4> QED
        BY <1>0, <1>2, <1>8, <2>1, <3>2, <4>1 DEF Receives
    <3> QED
      BY <3>1, <3>2 DEF Ends
  <2> QED
    BY <2>1, <2>6, <2>7 DEF EntryWaits
<1>10. CASE OpenRefused
  <2>1. /\ link' = [Taken(Server) EXCEPT ![Server] = Append(@, Close)]
        /\ asking' = "refused"
        /\ UNCHANGED <<entries, chunks, toPeer, fromPeer, sent, got, overrun>>
    BY <1>10 DEF OpenRefused, Close
  <2>2. Held(s)' = Held(s) /\ Asks(s)' = 0 /\ ~Sound(Far(s))'
    BY <1>0, <2>1 DEF Held, Asks, Sound
  <2>3. Direction(s)'
    <3>1. CASE s = Asker
      <4>1. link'[s] = Tail(link[s]) /\ (c = 1 => HasClosed(s)')
        BY <1>0, <1>4, <1>5, <2>1, <3>1 DEF HasClosed
      <4> QED
        BY <1>7, <2>1, <2>2, <3>1, <4>1, DirectionBecomes
    <3>2. CASE s = Server
      <4>1. c = 0 /\ Asks(s) = 0 /\ HasClosed(s)'
        BY <1>0, <1>2, <1>3, <1>5, <2>1, <3>2 DEF HasClosed, Asks
      <4>2. link'[s] = Append(link[s], Close)
        BY <1>0, <1>4, <2>1, <3>2
      <4>3. Close \in Messages(Asker) \cup Messages(Server)
        BY DEF Close, Messages
      <4>4. Carries(link'[s], lo, sent[s] - Held(s), 0, 1)
        BY <1>5, <1>6, <4>1, <4>2, <4>3, CarriesClose
      <4> QED
        BY <2>1, <2>2, <4>1, <4>4, DirectionBecomes
    <3> QED
      BY <3>1, <3>2 DEF Ends
  <2> QED
    BY <2>1, <2>3 DEF EntryWaits, Receives
<1> QED
  BY <1>9, <1>10

\* A chunk arrives at side r.
LEMMA DataKeeps ==
  ASSUME StreamIInv, NEW r \in Ends, NEW m \in Chunks(Far(r)), DataArrives(r, m),
         StreamShape', Stages', NEW s \in Ends
  PROVE  EntryWaits' /\ Direction(s)' /\ Receives(s)'
<1> DEFINE f == Far(r)
<1>0. /\ StreamShape /\ Stages /\ linked /\ EntryWaits
      /\ Direction(f) /\ Receives(f) /\ Direction(r) /\ Receives(r)
      /\ f \in Ends /\ f # r /\ Far(f) = r /\ (s = r \/ s = f)
  BY FarIsFar DEF StreamIInv, DataArrives, Arrives, Ends
<1>1. /\ link[f] # <<>> /\ Head(link[f]) = m /\ m.kind = "data"
      /\ link' = Taken(r)
      /\ UNCHANGED <<asking, entries, toPeer, fromPeer, sent, linked, got>>
  BY DEF DataArrives, Arrives
<1>2. link'[f] = Tail(link[f]) /\ link'[r] = link[r]
  BY <1>0, <1>1, TakenLeaves
<1>3. PICK lo \in Nat, c \in {0, 1} :
        /\ Carries(link[f], lo, sent[f] - Held(f), Asks(f), c)
        /\ c = 1 => HasClosed(f)
        /\ Sound(r) => got[r] \o chunks[r] = UpTo(lo)
  BY <1>0, DirectionIs
<1>4. sent[f] - Held(f) \in Nat /\ Asks(f) \in {0, 1} /\ sent[f] \in Nat
        /\ Held(f) \in {0, 1}
        /\ link[f] \in Seq(Messages(Asker) \cup Messages(Server))
  BY <1>0, HeldIsRead
<1>5. /\ Asks(f) = 0 /\ lo < sent[f] - Held(f) /\ m = Data(lo + 1)
      /\ Carries(link'[f], lo + 1, sent[f] - Held(f), 0, c)
  BY <1>1, <1>2, <1>3, <1>4, CarriesChunk
<1>6. /\ Held(f)' = Held(f) /\ Asks(f)' = Asks(f) /\ HasClosed(f)' = HasClosed(f)
      /\ Held(r)' = Held(r) /\ Asks(r)' = Asks(r) /\ HasClosed(r)' = HasClosed(r)
  BY <1>1 DEF Held, Asks, HasClosed
<1>7. /\ overrun \subseteq overrun'
      /\ Sound(r)' => Sound(r)
      /\ Sound(f)' => Sound(f)
  BY <1>1 DEF DataArrives, Sound
<1>8. toPeer[r] # "off" \/ asking = "refused"
  <2> SUFFICES ASSUME toPeer[r] = "off", asking # "refused" PROVE FALSE
    OBVIOUS
  <2>1. sent[f] # 0
    BY <1>4, <1>5
  <2>2. toPeer[f] # "off"
    BY <1>0, <2>1 DEF Stages
  <2>3. r = Server /\ f = Asker
    BY <1>0, <2>2, FarIsFar DEF Stages, Ends
  <2>4. asking = "asked"
    BY <1>0, <2>2, <2>3 DEF Stages, StreamShape, StreamTypeOK
  <2> QED
    BY <1>5, <2>3, <2>4 DEF Asks
<1>9. Sound(r) => r \in entries /\ fromPeer[r] = "running"
  BY <1>0, <1>1, <1>8 DEF Sound, Receives
<1>10. Sound(r)' => got'[r] \o chunks'[r] = UpTo(lo + 1)
  <2> SUFFICES ASSUME Sound(r)' PROVE got'[r] \o chunks'[r] = UpTo(lo + 1)
    OBVIOUS
  <2>1. Sound(r) /\ r \in entries /\ fromPeer[r] = "running"
    BY <1>7, <1>9
  <2>2. Len(chunks[r]) <= ChunkRoom /\ Len(chunks[r]) \in Nat /\ ChunkRoom \in Nat
          /\ chunks[r] \in Seq(Nat) /\ got[r] \in Seq(Nat)
          /\ chunks \in [Ends -> Seq(Nat)]
    <3>1. chunks \in [Ends -> Seq(Nat)] /\ got \in [Ends -> Seq(Nat)]
            /\ Len(chunks[r]) <= ChunkRoom
      BY <1>0 DEF StreamShape, StreamTypeOK
    <3>2. chunks[r] \in Seq(Nat) /\ got[r] \in Seq(Nat)
      BY <3>1
    <3> QED
      BY <3>1, <3>2, StreamAssumption
  <2>3. chunks' = [chunks EXCEPT ![r] = Append(@, m.chunk)]
    <3> SUFFICES ASSUME ~(Len(chunks[r]) < ChunkRoom) PROVE FALSE
      BY <2>1 DEF DataArrives
    <3>1. r \in overrun'
      BY <2>2 DEF DataArrives
    <3> QED
      BY <3>1 DEF Sound
  <2>4. m.chunk = lo + 1
    BY <1>5 DEF Data
  <2>5. chunks'[r] = Append(chunks[r], lo + 1) /\ got'[r] = got[r]
    BY <1>1, <2>2, <2>3, <2>4
  <2>6. got[r] \o chunks[r] = UpTo(lo)
    BY <1>3, <2>1
  <2>7. got[r] \o Append(chunks[r], lo + 1) = Append(got[r] \o chunks[r], lo + 1)
    <3>1. lo + 1 \in Nat
      OBVIOUS
    <3> QED
      BY <2>2, <3>1, AppendMoves
  <2> QED
    BY <2>5, <2>6, <2>7, UpToGrows
<1>11. Direction(f)'
  <2>1. Carries(link'[f], lo + 1, sent'[f] - Held(f)', Asks(f)', c)
    BY <1>1, <1>5, <1>6
  <2>2. lo + 1 \in Nat /\ (c = 1 => HasClosed(f)')
    BY <1>3, <1>6
  <2> QED
    BY <1>0, <1>10, <2>1, <2>2, DirectionBecomes
<1>12. Direction(r)'
  <2>1. Sound(f)' => got'[f] \o chunks'[f] = got[f] \o chunks[f]
    BY <1>0, <1>1 DEF DataArrives, StreamShape
  <2> QED
    BY <1>0, <1>1, <1>2, <1>6, <1>7, <2>1, DirectionKept
<1>13. Receives(f)'
  BY <1>0, <1>1, <1>2, <1>6 DEF Receives
<1>14. Receives(r)'
  BY <1>0, <1>1 DEF Receives
<1>15. EntryWaits'
  BY <1>0, <1>1 DEF EntryWaits
<1> QED
  BY <1>0, <1>11, <1>12, <1>13, <1>14, <1>15

\* A close arrives at side r.
LEMMA CloseKeeps ==
  ASSUME StreamIInv, NEW r \in Ends, CloseArrives(r),
         StreamShape', Stages', NEW s \in Ends
  PROVE  EntryWaits' /\ Direction(s)' /\ Receives(s)'
<1> DEFINE f == Far(r)
<1>0. /\ StreamShape /\ Stages /\ linked /\ EntryWaits
      /\ Direction(f) /\ Receives(f) /\ Direction(r) /\ Receives(r)
      /\ f \in Ends /\ f # r /\ Far(f) = r /\ (s = r \/ s = f)
  BY FarIsFar DEF StreamIInv, CloseArrives, Arrives, Ends
<1>1. /\ link[f] # <<>> /\ Head(link[f]) = Close
      /\ link' = Taken(r) /\ entries' = entries \ {r} /\ chunks' = chunks
      /\ UNCHANGED <<asking, toPeer, fromPeer, sent, linked, got, overrun>>
  BY <1>0 DEF CloseArrives, Arrives, LeftInQueue, StreamShape, Close
<1>2. link'[f] = Tail(link[f]) /\ link'[r] = link[r]
  BY <1>0, <1>1, TakenLeaves
<1>3. PICK lo \in Nat, c \in {0, 1} :
        /\ Carries(link[f], lo, sent[f] - Held(f), Asks(f), c)
        /\ c = 1 => HasClosed(f)
        /\ Sound(r) => got[r] \o chunks[r] = UpTo(lo)
  BY <1>0, DirectionIs
<1>4. sent[f] - Held(f) \in Nat /\ Asks(f) \in {0, 1}
        /\ link[f] \in Seq(Messages(Asker) \cup Messages(Server))
  BY <1>0, HeldIsRead
<1>5. /\ Asks(f) = 0 /\ c = 1 /\ link'[f] = <<>>
      /\ Carries(link'[f], lo, sent[f] - Held(f), 0, 0)
  BY <1>1, <1>2, <1>3, <1>4, CarriesEnd
<1>6. /\ Held(f)' = Held(f) /\ Asks(f)' = Asks(f) /\ HasClosed(f)' = HasClosed(f)
      /\ Held(r)' = Held(r) /\ Asks(r)' = Asks(r) /\ HasClosed(r)' = HasClosed(r)
      /\ Sound(r)' = Sound(r) /\ Sound(f)' = Sound(f)
  BY <1>1 DEF Held, Asks, HasClosed, Sound
<1>7. Direction(f)'
  <2>1. Carries(link'[f], lo, sent'[f] - Held(f)', Asks(f)', 0)
    BY <1>1, <1>5, <1>6
  <2>2. Sound(r)' => got'[r] \o chunks'[r] = UpTo(lo)
    BY <1>1, <1>3, <1>6
  <2>3. 0 \in Nat /\ 0 \in {0, 1} /\ (0 = 1 => HasClosed(f)')
    OBVIOUS
  <2> HIDE DEF f
  <2>4. Far(f) = r /\ f \in Ends
    BY <1>0
  <2> QED
    BY <2>1, <2>2, <2>3, <2>4, DirectionBecomes
<1>8. Direction(r)'
  BY <1>0, <1>1, <1>2, <1>6, DirectionKept
<1>9. Receives(f)'
  BY <1>0, <1>1, <1>2, <1>6 DEF Receives
<1>10. Receives(r)'
  BY <1>1, <1>3, <1>5, <1>6 DEF Receives
<1>11. EntryWaits'
  <2> SUFFICES ASSUME asking = "inserted" PROVE r # Asker
    BY <1>0, <1>1 DEF EntryWaits
  <2>1. toPeer[Server] = "off"
    BY <1>0 DEF Stages
  <2>2. ~HasClosed(Server)
    BY <2>1 DEF HasClosed
  <2>3. f # Server
    BY <1>3, <1>5, <2>2
  <2> QED
    BY <2>3 DEF Far
<1> QED
  BY <1>0, <1>7, <1>8, <1>9, <1>10, <1>11

\* A step of the pumps of side s that sends nothing and takes nothing from its
\* queue, after which s may be sound only if it was.
LEMMA IdlePumpKeeps ==
  ASSUME StreamIInv, NEW s \in Ends, linked, StreamShape', Stages',
         UNCHANGED <<asking, link, linked>>, entries \ {s} \subseteq entries',
         \A t \in Ends \ {s} : /\ toPeer'[t] = toPeer[t]
                               /\ fromPeer'[t] = fromPeer[t]
                               /\ t \in overrun => t \in overrun'
                               /\ sent'[t] = sent[t] /\ got'[t] = got[t]
                               /\ chunks'[t] = chunks[t],
         sent'[s] - Held(s)' = sent[s] - Held(s), HasClosed(s) => HasClosed(s)',
         Sound(s)' => /\ Sound(s)
                      /\ got'[s] \o chunks'[s] = got[s] \o chunks[s],
         Receives(s)', EntryWaits'
  PROVE  EntryWaits' /\ \A t \in Ends : Direction(t)' /\ Receives(t)'
<1> DEFINE f == Far(s)
<1>0. /\ StreamShape /\ Stages /\ Direction(f) /\ Receives(f) /\ Direction(s)
      /\ f \in Ends /\ f # s /\ Far(f) = s /\ \A t \in Ends : t = s \/ t = f
  BY FarIsFar DEF StreamIInv, Ends
<1>1. /\ Held(f)' = Held(f) /\ HasClosed(f)' = HasClosed(f) /\ sent'[f] = sent[f]
      /\ Asks(f)' = Asks(f) /\ Asks(s)' = Asks(s)
      /\ got'[f] = got[f] /\ chunks'[f] = chunks[f]
      /\ toPeer'[f] = toPeer[f] /\ fromPeer'[f] = fromPeer[f]
      /\ f \in overrun => f \in overrun'
  BY <1>0 DEF Held, HasClosed, Asks
<1>2. Sound(f)' => Sound(f)
  BY <1>1 DEF Sound
<1> HIDE DEF f
<1>3. Direction(s)'
  <2>1. Far(s) = f
    BY DEF f
  <2> QED
    BY <1>0, <1>1, <1>2, <2>1, DirectionKept
<1>4. Direction(f)'
  BY <1>0, <1>1, DirectionKept
<1>5. Receives(f)'
  BY <1>0, <1>1 DEF Receives
<1> QED
  BY <1>0, <1>3, <1>4, <1>5

\* The pumps from the sockets to the link.
LEMMA ToPeerKeeps ==
  ASSUME StreamIInv, NEW s \in Ends, ToPeerStep(s), linked, StreamShape', Stages'
  PROVE  EntryWaits' /\ \A t \in Ends : Direction(t)' /\ Receives(t)'
<1>0. /\ StreamShape /\ Stages /\ EntryWaits /\ Direction(s) /\ Receives(s)
      /\ toPeer \in [Ends -> ToStates] /\ fromPeer \in [Ends -> FromStates]
      /\ sent \in [Ends -> Nat]
      /\ link \in [Ends -> Seq(Messages(Asker) \cup Messages(Server))]
  BY DEF StreamIInv, StreamShape, StreamTypeOK, ToStates, FromStates
<1>1. CASE PumpReads(s)
  <2>1. /\ toPeer[s] = "reading" /\ toPeer'[s] = "holding"
        /\ sent'[s] = sent[s] + 1
        /\ \A t \in Ends \ {s} : toPeer'[t] = toPeer[t] /\ sent'[t] = sent[t]
        /\ UNCHANGED <<asking, entries, chunks, fromPeer, link, linked, got,
                       overrun>>
    BY <1>0, <1>1 DEF PumpReads
  <2>2. sent'[s] - Held(s)' = sent[s] - Held(s)
    BY <1>0, <2>1 DEF Held
  <2>3. HasClosed(s) => HasClosed(s)'
    BY <2>1 DEF HasClosed
  <2>4. Sound(s)' => Sound(s)
    BY <2>1 DEF Sound
  <2>5. HasClosed(Far(s))' = HasClosed(Far(s))
    BY <2>1, FarIsFar DEF HasClosed
  <2>6. Receives(s)'
    BY <1>0, <2>1, <2>5 DEF Receives
  <2>7. EntryWaits'
    BY <1>0, <2>1 DEF EntryWaits
  <2> QED
    BY <2>1, <2>2, <2>3, <2>4, <2>6, <2>7, IdlePumpKeeps
<1>2. CASE PumpMeetsEnd(s)
  <2>1. /\ toPeer[s] = "reading" /\ toPeer'[s] = "closing"
        /\ \A t \in Ends \ {s} : toPeer'[t] = toPeer[t]
        /\ UNCHANGED <<asking, entries, chunks, fromPeer, sent, link, linked,
                       got, overrun>>
    BY <1>0, <1>2 DEF PumpMeetsEnd
  <2>2. sent'[s] - Held(s)' = sent[s] - Held(s)
    BY <1>0, <2>1 DEF Held
  <2>3. HasClosed(s) => HasClosed(s)'
    BY <2>1 DEF HasClosed
  <2>4. ~Sound(s)' /\ Receives(s)'
    BY <2>1 DEF Sound, Receives
  <2>5. EntryWaits'
    BY <1>0, <2>1 DEF EntryWaits
  <2> QED
    BY <2>1, <2>2, <2>3, <2>4, <2>5, IdlePumpKeeps
<1>3. CASE PumpLeaves(s)
  <2>1. /\ toPeer[s] = "leaving" /\ toPeer'[s] = "ended"
        /\ \A t \in Ends \ {s} : toPeer'[t] = toPeer[t]
        /\ entries' = entries \ {s}
        /\ UNCHANGED <<asking, chunks, fromPeer, sent, link, linked, got,
                       overrun>>
    BY <1>0, <1>3 DEF PumpLeaves, EntryRemoved
  <2>2. sent'[s] - Held(s)' = sent[s] - Held(s)
    BY <1>0, <2>1 DEF Held
  <2>3. HasClosed(s) => HasClosed(s)'
    BY <2>1 DEF HasClosed
  <2>4. ~Sound(s)' /\ Receives(s)'
    BY <2>1 DEF Sound, Receives
  <2>5. EntryWaits'
    BY <1>0, <2>1 DEF EntryWaits, Stages
  <2> QED
    BY <2>1, <2>2, <2>3, <2>4, <2>5, IdlePumpKeeps
<1>4. CASE PumpReadsOversize(s) \/ PumpSendsOversize(s)
  <2>1. /\ toPeer[s] \in {"reading", "oversize"}
        /\ toPeer'[s] \in {"reading", "oversize"}
        /\ \A t \in Ends \ {s} : toPeer'[t] = toPeer[t]
        /\ UNCHANGED <<asking, entries, chunks, fromPeer, sent, link, linked,
                       got, overrun>>
    BY <1>0, <1>4 DEF PumpReadsOversize, PumpSendsOversize
  <2>2. sent'[s] - Held(s)' = sent[s] - Held(s)
    BY <1>0, <2>1 DEF Held
  <2>3. HasClosed(s) => HasClosed(s)'
    BY <2>1 DEF HasClosed
  <2>4. Sound(s)' => Sound(s)
    BY <2>1 DEF Sound
  <2>5. HasClosed(Far(s))' = HasClosed(Far(s))
    BY <2>1, FarIsFar DEF HasClosed
  <2>6. Receives(s)'
    BY <1>0, <2>1, <2>5 DEF Receives
  <2>7. EntryWaits'
    BY <1>0, <2>1 DEF EntryWaits
  <2> QED
    BY <2>1, <2>2, <2>3, <2>4, <2>6, <2>7, IdlePumpKeeps
<1>5. ASSUME PumpSends(s) \/ PumpCloses(s)
      PROVE  EntryWaits' /\ \A t \in Ends : Direction(t)' /\ Receives(t)'
  <2> DEFINE f == Far(s)
  <2>0. /\ f \in Ends /\ f # s /\ Far(f) = s /\ \A t \in Ends : t = s \/ t = f
        /\ Direction(f) /\ Receives(f)
    BY FarIsFar DEF StreamIInv, Ends
  <2>1. PICK lo \in Nat, c \in {0, 1} :
          /\ Carries(link[s], lo, sent[s] - Held(s), Asks(s), c)
          /\ c = 1 => HasClosed(s)
          /\ Sound(f) => got[f] \o chunks[f] = UpTo(lo)
    BY <1>0, DirectionIs
  <2>2. /\ toPeer[s] \in {"holding", "closing"}
        /\ \A t \in Ends \ {s} : toPeer'[t] = toPeer[t] /\ link'[t] = link[t]
        /\ UNCHANGED <<asking, entries, chunks, fromPeer, sent, linked, got,
                       overrun>>
    BY <1>0, <1>5 DEF PumpSends, PumpCloses, SendsOrFails, Sent
  <2>3. ~HasClosed(s)
    <3>1. s = Server => asking = "open"
      BY <1>0, <2>2 DEF Stages
    <3> QED
      BY <2>2, <3>1 DEF HasClosed
  <2>4. c = 0
    BY <2>1, <2>3
  <2>5. /\ Held(f)' = Held(f) /\ HasClosed(f)' = HasClosed(f)
        /\ Asks(f)' = Asks(f) /\ Asks(s)' = Asks(s) /\ Sound(f)' = Sound(f)
        /\ link'[f] = link[f]
    BY <2>0, <2>2 DEF Held, HasClosed, Asks, Sound
  <2>6. /\ sent[s] \in Nat /\ sent[s] - Held(s) \in Nat /\ Asks(s) \in {0, 1}
        /\ link[s] \in Seq(Messages(Asker) \cup Messages(Server))
    BY <1>0, HeldIsRead
  <2>7. Direction(s)' /\ (Sound(s)' => Sound(s)) /\ Receives(s)'
    <3>1. CASE PumpSends(s)
      <4>1. /\ toPeer[s] = "holding" /\ toPeer'[s] = "reading"
            /\ link'[s] = Append(link[s], Data(sent[s]))
        BY <1>0, <3>1 DEF PumpSends, SendsOrFails, Sent, Data
      <4>2. Held(s) = 1 /\ Held(s)' = 0 /\ sent[s] - Held(s) + 1 = sent[s]
              /\ sent'[s] - Held(s)' = sent[s]
        BY <2>2, <2>6, <4>1 DEF Held
      <4>3. Data(sent[s]) \in Messages(Asker) \cup Messages(Server)
        <5>1. link'[s] \in Seq(Messages(Asker) \cup Messages(Server))
                /\ Len(link'[s]) = Len(link[s]) + 1
                /\ link'[s][Len(link[s]) + 1] = Data(sent[s])
          BY <2>6, <4>1 DEF StreamShape
        <5>2. Len(link[s]) + 1 \in 1 .. Len(link'[s])
          BY <2>6, <5>1
        <5> QED
          BY <5>1, <5>2, ElementOfSeq
      <4>4. Carries(link'[s], lo, sent[s], Asks(s), 0)
        BY <2>1, <2>4, <2>6, <4>1, <4>2, <4>3, CarriesMore
      <4>5. Direction(s)'
        <5>1. Carries(link'[s], lo, sent'[s] - Held(s)', Asks(s)', 0)
          BY <2>5, <4>2, <4>4
        <5>2. Sound(f)' => got'[f] \o chunks'[f] = UpTo(lo)
          BY <2>1, <2>2, <2>5
        <5>3. 0 \in {0, 1} /\ (0 = 1 => HasClosed(s)')
          OBVIOUS
        <5> QED
          BY <5>1, <5>2, <5>3, DirectionBecomes
      <4>6. Sound(s)' => Sound(s)
        BY <2>2, <4>1 DEF Sound
      <4>7. Receives(s)'
        BY <1>0, <2>2, <2>5, <4>1 DEF Receives
      <4> QED
        BY <4>5, <4>6, <4>7
    <3>2. CASE PumpCloses(s)
      <4>1. /\ toPeer[s] = "closing" /\ toPeer'[s] = "leaving"
            /\ link'[s] = Append(link[s], Close)
        BY <1>0, <3>2 DEF PumpCloses, SendsOrFails, Sent, Close
      <4>2. Held(s)' = Held(s) /\ HasClosed(s)' /\ ~Sound(s)' /\ Receives(s)'
        BY <4>1 DEF Held, HasClosed, Sound, Receives
      <4>3. Close \in Messages(Asker) \cup Messages(Server)
        BY DEF Close, Messages
      <4>4. Carries(link'[s], lo, sent[s] - Held(s), Asks(s), 1)
        BY <2>1, <2>4, <2>6, <4>1, <4>3, CarriesClose
      <4>5. Direction(s)'
        <5>1. Carries(link'[s], lo, sent'[s] - Held(s)', Asks(s)', 1)
          BY <2>2, <2>5, <4>2, <4>4
        <5>2. Sound(f)' => got'[f] \o chunks'[f] = UpTo(lo)
          BY <2>1, <2>2, <2>5
        <5>3. 1 \in {0, 1}
          OBVIOUS
        <5> QED
          BY <4>2, <5>1, <5>2, <5>3, DirectionBecomes
      <4> QED
        BY <4>2, <4>5
    <3> QED
      BY <1>5, <3>1, <3>2
  <2> HIDE DEF f
  <2>8. Direction(f)'
    BY <1>0, <2>0, <2>2, <2>5, <2>7, DirectionKept
  <2>9. Receives(f)'
    <3>1. link[s] = <<>> /\ HasClosed(s) => FALSE
      BY <2>3
    <3> QED
      BY <2>0, <2>2, <3>1 DEF Receives
  <2>10. EntryWaits'
    BY <1>0, <2>2 DEF EntryWaits
  <2> QED
    BY <2>0, <2>7, <2>8, <2>9, <2>10
<1> QED
  BY <1>1, <1>2, <1>3, <1>5, <1>4 DEF ToPeerStep

\* The pumps from the link to the sockets.
LEMMA FromPeerKeeps ==
  ASSUME StreamIInv, NEW s \in Ends, FromPeerStep(s), linked,
         StreamShape', Stages'
  PROVE  EntryWaits' /\ \A t \in Ends : Direction(t)' /\ Receives(t)'
<1>0. /\ StreamShape /\ Stages /\ EntryWaits /\ Direction(s) /\ Receives(s)
      /\ toPeer \in [Ends -> ToStates] /\ fromPeer \in [Ends -> FromStates]
      /\ chunks \in [Ends -> Seq(Nat)] /\ got \in [Ends -> Seq(Nat)]
  BY DEF StreamIInv, StreamShape, StreamTypeOK, ToStates, FromStates
<1>1. CASE PumpDelivers(s)
  <2>1. /\ chunks[s] # <<>> /\ chunks'[s] = Tail(chunks[s])
        /\ got'[s] = Append(got[s], Head(chunks[s]))
        /\ \A t \in Ends \ {s} : chunks'[t] = chunks[t] /\ got'[t] = got[t]
        /\ UNCHANGED <<asking, entries, toPeer, fromPeer, sent, link, linked,
                       overrun>>
    BY <1>0, <1>1 DEF PumpDelivers
  <2>2. got'[s] \o chunks'[s] = got[s] \o chunks[s]
    BY <1>0, <2>1, HeadMoves
  <2>3. /\ Held(s)' = Held(s) /\ HasClosed(s)' = HasClosed(s)
        /\ Sound(s)' = Sound(s) /\ Receives(s)' = Receives(s)
        /\ EntryWaits' = EntryWaits
    BY <2>1 DEF Held, HasClosed, Sound, Receives, EntryWaits
  <2> QED
    BY <1>0, <2>1, <2>2, <2>3, IdlePumpKeeps
<1>2. CASE PumpBreaks(s)
  <2>1. /\ fromPeer[s] = "running" /\ fromPeer'[s] = "broken"
        /\ \A t \in Ends \ {s} : /\ chunks'[t] = chunks[t]
                                 /\ fromPeer'[t] = fromPeer[t]
        /\ entries' = entries \ {s}
        /\ UNCHANGED <<asking, toPeer, sent, link, linked, got, overrun>>
    BY <1>0, <1>2 DEF PumpBreaks, EntryRemoved
  <2>2. /\ Held(s)' = Held(s) /\ HasClosed(s)' = HasClosed(s)
        /\ ~Sound(s)' /\ Receives(s)'
    BY <2>1 DEF Held, HasClosed, Sound, Receives
  <2>3. EntryWaits'
    BY <1>0, <2>1 DEF EntryWaits, Stages
  <2> QED
    BY <2>1, <2>2, <2>3, IdlePumpKeeps
<1>3. CASE PumpEnds(s)
  <2>1. /\ s \notin entries /\ fromPeer[s] = "running" /\ fromPeer'[s] = "ended"
        /\ \A t \in Ends \ {s} : fromPeer'[t] = fromPeer[t]
        /\ UNCHANGED <<asking, entries, chunks, toPeer, sent, link, linked, got,
                       overrun>>
    BY <1>0, <1>3 DEF PumpEnds
  <2>2. /\ Held(s)' = Held(s) /\ HasClosed(s)' = HasClosed(s)
        /\ Sound(s)' => Sound(s)
        /\ HasClosed(Far(s))' = HasClosed(Far(s))
        /\ EntryWaits' = EntryWaits
    BY <2>1 DEF Held, HasClosed, Sound, EntryWaits
  <2>3. Receives(s)'
    BY <1>0, <2>1, <2>2 DEF Receives
  <2> QED
    BY <1>0, <2>1, <2>2, <2>3, IdlePumpKeeps
<1> QED
  BY <1>1, <1>2, <1>3 DEF FromPeerStep

\* Every step of a stream keeps what is on its way in order.
LEMMA StreamIInvStep ==
  ASSUME StreamIInv, [StreamNext]_streamVars
  PROVE  StreamIInv'
<1>0. StreamShape /\ Stages /\ EntryWaits
  BY DEF StreamIInv
<1>1. CASE StreamNext
  <2>1. StreamShape' /\ Stages'
    <3>1. ASSUME NEW s \in Ends, LinkStep(s)
          PROVE  StreamShape' /\ Stages'
      BY <1>0, <3>1, OpenWasAsked, ReadersShape
    <3>2. ASSUME NEW s \in Ends, ToPeerStep(s) \/ FromPeerStep(s)
          PROVE  StreamShape' /\ Stages'
      BY <1>0, <3>2, PumpsShape
    <3> QED
      BY <1>0, <1>1, <3>1, <3>2, SurroundingsShape DEF StreamNext
  <2>2. linked' => linked
    BY <1>1
    DEF StreamNext, AskStep, StreamBegins, AskOpen, AskFails, LinkStep,
        OpenAccepted, OpenRefused, DataArrives, CloseArrives, ToPeerStep,
        PumpReads, PumpSends, PumpReadsOversize, PumpSendsOversize,
        PumpMeetsEnd, PumpCloses, PumpLeaves, ReaderStops,
        FromPeerStep, PumpDelivers, PumpBreaks, PumpEnds, SocketEnds,
        StreamLinkFails
  <2>3. CASE ~linked'
    BY <2>1, <2>3 DEF StreamIInv, EntryWaits
  <2>4. CASE linked'
    <3>1. linked
      BY <2>2, <2>4
    <3> SUFFICES EntryWaits' /\ \A t \in Ends : Direction(t)' /\ Receives(t)'
      BY <2>1 DEF StreamIInv
    <3>2. CASE AskStep
      BY <2>1, <3>1, <3>2, AskStepKeeps, FarIsFar DEF Ends
    <3>3. ASSUME NEW s \in Ends, LinkStep(s)
          PROVE  EntryWaits' /\ \A t \in Ends : Direction(t)' /\ Receives(t)'
      <4>1. CASE OpenAccepted \/ OpenRefused
        BY <2>1, <3>1, <4>1, OpenKeeps DEF Ends
      <4>2. CASE \E m \in Chunks(Far(s)) : DataArrives(s, m)
        BY <2>1, <4>2, DataKeeps
      <4>3. CASE CloseArrives(s)
        BY <2>1, <4>3, CloseKeeps
      <4> QED
        BY <3>3, <4>1, <4>2, <4>3 DEF LinkStep
    <3>4. ASSUME NEW s \in Ends, ToPeerStep(s) \/ FromPeerStep(s)
          PROVE  EntryWaits' /\ \A t \in Ends : Direction(t)' /\ Receives(t)'
      BY <2>1, <3>1, <3>4, ToPeerKeeps, FromPeerKeeps
    <3>5. ASSUME NEW s \in Ends, NEW how \in {"shut", "closed"},
                 SocketEnds(s, how) \/ ReaderStops(s)
          PROVE  EntryWaits' /\ \A t \in Ends : Direction(t)' /\ Receives(t)'
      <4>1. UNCHANGED <<asking, entries, chunks, toPeer, fromPeer, sent, link,
                        linked, got, overrun>>
        BY <3>5 DEF SocketEnds, ReaderStops
      <4>2. \A t \in Ends : Direction(t)' = Direction(t)
                              /\ Receives(t)' = Receives(t)
        BY <4>1 DEF Direction, Receives, Held, Asks, HasClosed, Sound
      <4> QED
        BY <3>1, <4>1, <4>2 DEF StreamIInv, EntryWaits
    <3>6. ~StreamLinkFails
      BY <2>4 DEF StreamLinkFails
    <3> QED
      BY <1>1, <3>2, <3>3, <3>4, <3>5, <3>6 DEF StreamNext
  <2> QED
    BY <2>3, <2>4
<1>2. CASE UNCHANGED streamVars
  <2>1. UNCHANGED <<asking, entries, chunks, toPeer, fromPeer, socket, sent,
                    link, linked, got, overrun, stopped>>
    BY <1>2 DEF streamVars
  <2>2. \A t \in Ends : Direction(t)' = Direction(t) /\ Receives(t)' = Receives(t)
    BY <2>1 DEF Direction, Receives, Held, Asks, HasClosed, Sound
  <2>3. StreamShape' /\ Stages' /\ EntryWaits'
    BY <1>0, <2>1 DEF StreamShape, StreamTypeOK, Stages, EntryWaits
  <2> QED
    BY <2>1, <2>2, <2>3 DEF StreamIInv
<1> QED
  BY <1>1, <1>2

\* The chunks on their way up to place i of the link.
Before(s, i) == {j \in OnTheWay(s) : j <= i}

\* The chunks among what a queue carries, and how many come up to one.
LEMMA ChunksCarried ==
  ASSUME NEW s \in Ends, StreamShape, NEW lo \in Nat, NEW hi \in Nat,
         NEW o \in {0, 1}, NEW c \in {0, 1}, Carries(link[s], lo, hi, o, c)
  PROVE  /\ OnTheWay(s) = o + 1 .. o + (hi - lo)
         /\ Cardinality(OnTheWay(s)) = hi - lo
         /\ \A i \in OnTheWay(s) :
              /\ link[s][i].chunk = lo + (i - o)
              /\ Cardinality(Before(s, i)) = i - o
<1> DEFINE q == link[s]
<1>1. lo <= hi /\ Len(q) = o + (hi - lo) + c /\ DOMAIN q = 1 .. Len(q)
  BY DEF Carries, StreamShape
<1>2. \A i \in 1 .. hi - lo : q[o + i] = Data(lo + i)
  BY DEF Carries
<1>3. \A i \in o + 1 .. o + (hi - lo) : q[i] = Data(lo + (i - o))
  <2> SUFFICES ASSUME NEW i \in o + 1 .. o + (hi - lo)
               PROVE  q[i] = Data(lo + (i - o))
    OBVIOUS
  <2>1. i - o \in 1 .. hi - lo /\ o + (i - o) = i
    BY <1>1
  <2>2. q[o + (i - o)] = Data(lo + (i - o))
    BY <1>2, <2>1
  <2> QED
    BY <2>1, <2>2
<1>4. o = 1 => q[1].kind = "open"
  BY DEF Carries, Open
<1>5. c = 1 => q[Len(q)].kind = "close"
  BY DEF Carries, Close
<1>6. \A i \in DOMAIN q : i \notin o + 1 .. o + (hi - lo) =>
        \/ o = 1 /\ i = 1
        \/ c = 1 /\ i = Len(q)
  BY <1>1
<1>7. \A i : Data(i).kind = "data" /\ Data(i).chunk = i
  BY DEF Data
<1>8. o + 1 .. o + (hi - lo) \subseteq DOMAIN q
  BY <1>1
<1> HIDE DEF q
<1>9. {i \in DOMAIN q : q[i].kind = "data"} = o + 1 .. o + (hi - lo)
  <2>1. ASSUME NEW i \in DOMAIN q, i \notin o + 1 .. o + (hi - lo)
        PROVE  q[i].kind # "data"
    BY <1>4, <1>5, <1>6, <2>1
  <2>2. \A i \in o + 1 .. o + (hi - lo) : q[i].kind = "data"
    BY <1>3, <1>7
  <2> QED
    BY <1>8, <2>1, <2>2
<1>10. OnTheWay(s) = o + 1 .. o + (hi - lo)
  BY <1>9 DEF OnTheWay, q
<1>11. Cardinality(o + 1 .. o + (hi - lo)) = hi - lo
  <2>1. o + 1 \in Int /\ o + (hi - lo) \in Int
    OBVIOUS
  <2>2. Cardinality(o + 1 .. o + (hi - lo)) =
          IF o + 1 > o + (hi - lo) THEN 0 ELSE o + (hi - lo) - (o + 1) + 1
    BY <2>1, FS_Interval
  <2> QED
    BY <1>1, <2>2
<1>12. ASSUME NEW i \in o + 1 .. o + (hi - lo)
       PROVE  Cardinality({j \in o + 1 .. o + (hi - lo) : j <= i}) = i - o
  <2>1. {j \in o + 1 .. o + (hi - lo) : j <= i} = o + 1 .. i
    OBVIOUS
  <2>2. Cardinality(o + 1 .. i) = IF o + 1 > i THEN 0 ELSE i - (o + 1) + 1
    <3>1. o + 1 \in Int /\ i \in Int
      OBVIOUS
    <3> QED
      BY <3>1, FS_Interval
  <2>3. ~(o + 1 > i) /\ i - (o + 1) + 1 = i - o
    OBVIOUS
  <2>4. Cardinality(o + 1 .. i) = i - o
    BY <2>2, <2>3
  <2> QED
    BY <2>1, <2>4
<1> QED
  BY <1>3, <1>7, <1>10, <1>11, <1>12 DEF q, Before

\* While the invariant holds nothing is lost or out of order.
LEMMA StreamIInvKeepsData == StreamIInv => StreamKeepsData
<1> SUFFICES ASSUME StreamIInv, NEW s \in Ends, linked, Sound(Far(s))
             PROVE  LET t    == Far(s)
                        come == got[t] \o chunks[t]
                    IN  /\ come = [i \in 1 .. Len(come) |-> i]
                        /\ \A i \in OnTheWay(s) :
                             link[s][i].chunk = Len(come)
                               + Cardinality({j \in OnTheWay(s) : j <= i})
                        /\ sent[s] = Len(come) + Cardinality(OnTheWay(s))
                                       + Held(s)
  BY DEF StreamKeepsData, Sound
<1> DEFINE come == got[Far(s)] \o chunks[Far(s)]
           hi   == sent[s] - Held(s)
           o    == Asks(s)
<1>1. StreamShape /\ Stages /\ Direction(s)
  BY DEF StreamIInv
<1>2. PICK lo \in Nat, c \in {0, 1} :
        /\ Carries(link[s], lo, sent[s] - Held(s), Asks(s), c)
        /\ c = 1 => HasClosed(s)
        /\ Sound(Far(s)) => got[Far(s)] \o chunks[Far(s)] = UpTo(lo)
  BY <1>1, DirectionIs
<1>3. come = UpTo(lo) /\ Len(UpTo(lo)) = lo
  <2>1. Len(UpTo(lo)) = lo
    BY DEF UpTo
  <2> QED
    BY <1>2, <2>1
<1>4. hi \in Nat /\ o \in {0, 1} /\ sent[s] = hi + Held(s)
        /\ Held(s) \in {0, 1} /\ Carries(link[s], lo, hi, o, c)
  BY <1>1, <1>2, HeldIsRead
<1> HIDE DEF come, hi, o
<1>5. /\ OnTheWay(s) = o + 1 .. o + (hi - lo)
      /\ Cardinality(OnTheWay(s)) = hi - lo
      /\ \A i \in OnTheWay(s) :
           /\ link[s][i].chunk = lo + (i - o)
           /\ Cardinality(Before(s, i)) = i - o
  BY <1>1, <1>4, ChunksCarried
<1>6. come = [i \in 1 .. Len(come) |-> i] /\ Len(come) = lo
  BY <1>3 DEF UpTo
<1>7. \A i \in OnTheWay(s) :
        link[s][i].chunk = Len(come) + Cardinality({j \in OnTheWay(s) : j <= i})
  BY <1>5, <1>6 DEF Before
<1>8. sent[s] = Len(come) + Cardinality(OnTheWay(s)) + Held(s)
  BY <1>4, <1>5, <1>6
<1> QED
  BY <1>6, <1>7, <1>8 DEF come

\* Between two local ends no chunk that a frame can hold gets lost or changes
\* its place, for all numbers of chunks and sizes of the queues, however many
\* chunks that the writer of the link drops come between, unless the link
\* fails, the stream is refused, a queue overflows or the receiving side has
\* ended its own half (run_proxy_client, handle_incoming, pump_to_peer,
\* pump_from_peer).
THEOREM StreamsKeepTheirData == StreamSpec => []StreamKeepsData
<1>1. StreamSpec => []StreamIInv
  BY StreamIInvInit, StreamIInvStep, PTL DEF StreamSpec
<1> QED
  BY <1>1, StreamIInvKeepsData, PTL

---------------------------------------------------------------------------
(* A connection between two daemons and published ports: their types.      *)

\* There is one other side.
LEMMA OtherSide ==
  ASSUME NEW s \in Sides
  PROVE  Other(s) \in Sides /\ Other(s) # s
<1>1. \E t \in Sides : t # s
  BY SidesAssumption
<1> QED
  BY <1>1 DEF Other

\* A frame that was begun is still in the socket.
LinkShape ==
  /\ LinkTypeOK
  /\ \A s \in Sides : frame[s] = "begun" => wire[Other(s)] # <<>>

\* Nothing is queued or written.
LEMMA LinkShapeInit == LinkInit => LinkShape
<1> SUFFICES ASSUME LinkInit PROVE LinkShape
  OBVIOUS
<1>1. <<>> \in Seq(Msgs) /\ Len(<<>>) <= QueueSize /\ Len(<<>>) <= WireSize
  BY SidesAssumption
<1> QED
  BY <1>1 DEF LinkInit, LinkShape, LinkTypeOK

\* No step fills a queue or a socket beyond its size, or takes from an empty
\* one.
LEMMA LinkShapeStep ==
  ASSUME LinkShape, [LinkNext]_linkVars
  PROVE  LinkShape'
<1>0. LinkTypeOK /\ QueueSize \in Nat \ {0} /\ WireSize \in Nat \ {0}
  BY SidesAssumption DEF LinkShape
<1>1. \A s \in Sides : /\ queue[s] \in Seq(Msgs) /\ wire[s] \in Seq(Msgs)
                       /\ Len(queue[s]) \in Nat /\ Len(wire[s]) \in Nat
                       /\ Len(queue[s]) <= QueueSize /\ Len(wire[s]) <= WireSize
  <2>1. \A s \in Sides : queue[s] \in Seq(Msgs) /\ wire[s] \in Seq(Msgs)
    BY <1>0 DEF LinkTypeOK
  <2> QED
    BY <1>0, <2>1 DEF LinkTypeOK
\* A message more in a queue that has room, and one less in one that is not
\* empty.
<1>2. ASSUME NEW s \in Sides, NEW m \in Msgs, Room(s), Enqueued(s, m)
      PROVE  /\ queue' \in [Sides -> Seq(Msgs)]
             /\ \A t \in Sides : Len(queue'[t]) <= QueueSize
  <2>1. /\ Append(queue[s], m) \in Seq(Msgs)
        /\ Len(Append(queue[s], m)) <= QueueSize
    BY <1>0, <1>1, <1>2 DEF Room
  <2>2. queue \in [Sides -> Seq(Msgs)]
    BY <1>0 DEF LinkTypeOK
  <2> QED
    BY <1>1, <1>2, <2>1, <2>2 DEF Enqueued
<1>3. ASSUME NEW q \in Seq(Msgs), q # <<>>
      PROVE  /\ Tail(q) \in Seq(Msgs) /\ Head(q) \in Msgs
             /\ Len(Tail(q)) \in Nat /\ Len(Tail(q)) <= Len(q)
  BY <1>3
<1>4. ASSUME NEW s \in Sides, NEW m \in Msgs, Produce(s, m)
      PROVE  LinkShape'
  BY <1>0, <1>2, <1>4 DEF Produce, LinkShape, LinkTypeOK
<1>5. ASSUME NEW s \in Sides, WriterTakes(s)
      PROVE  LinkShape'
  <2>1. /\ Tail(queue[s]) \in Seq(Msgs) /\ Head(queue[s]) \in Msgs
        /\ Len(Tail(queue[s])) \in Nat /\ Len(Tail(queue[s])) <= Len(queue[s])
    BY <1>1, <1>3, <1>5 DEF WriterTakes
  <2>2. Len(Tail(queue[s])) <= QueueSize
    BY <1>0, <1>1, <2>1
  <2>3. /\ queue' \in [Sides -> Seq(Msgs)]
        /\ \A t \in Sides : Len(queue'[t]) <= QueueSize
    BY <1>0, <1>1, <1>5, <2>1, <2>2 DEF WriterTakes, LinkTypeOK
  <2>4. writer' \in [Sides -> Msgs \cup {NoMsg}]
    BY <1>0, <1>5, <2>1 DEF WriterTakes, LinkTypeOK
  <2> QED
    BY <1>0, <1>5, <2>3, <2>4 DEF WriterTakes, LinkShape, LinkTypeOK
<1>6. ASSUME NEW s \in Sides, WriterWrites(s)
      PROVE  LinkShape'
  <2>1. writer[s] \in Msgs
    BY <1>0, <1>6 DEF WriterWrites, LinkTypeOK
  <2>2. /\ Append(wire[s], writer[s]) \in Seq(Msgs)
        /\ Len(Append(wire[s], writer[s])) <= WireSize
        /\ Append(wire[s], writer[s]) # <<>>
    BY <1>0, <1>1, <1>6, <2>1 DEF WriterWrites
  <2>3. /\ wire \in [Sides -> Seq(Msgs)] /\ writer \in [Sides -> Msgs \cup {NoMsg}]
        /\ wire' = [wire EXCEPT ![s] = Append(@, writer[s])]
        /\ writer' = [writer EXCEPT ![s] = NoMsg]
    BY <1>0, <1>6 DEF WriterWrites, LinkTypeOK
  <2>4. /\ wire' \in [Sides -> Seq(Msgs)]
        /\ writer' \in [Sides -> Msgs \cup {NoMsg}]
        /\ \A t \in Sides : /\ Len(wire'[t]) <= WireSize
                            /\ wire[t] # <<>> => wire'[t] # <<>>
    BY <1>1, <2>2, <2>3
  <2>5. LinkTypeOK'
    BY <1>0, <1>6, <2>4 DEF WriterWrites, LinkTypeOK
  <2> QED
    BY <1>6, <2>4, <2>5, OtherSide DEF WriterWrites, LinkShape
<1>7. ASSUME NEW s \in Sides, ReaderBegins(s)
      PROVE  LinkShape'
  <2>1. LinkTypeOK'
    BY <1>0, <1>7 DEF ReaderBegins, LinkTypeOK
  <2> QED
    BY <1>7, <2>1 DEF ReaderBegins, LinkShape, LinkTypeOK
<1>8. ASSUME NEW s \in Sides, ReaderHandles(s) \/ ReaderMisreads(s)
      PROVE  LinkShape'
  <2> DEFINE o == Other(s)
  <2>1. o \in Sides /\ o # s /\ \A t \in Sides : Other(t) = o => t = s
    <3>1. o \in Sides /\ o # s
      BY OtherSide
    <3>2. \A t \in Sides : Other(t) # t
      BY OtherSide
    <3>3. \A t \in Sides : t = s \/ t = o
      BY <3>1, SidesAssumption
    <3> QED
      BY <3>1, <3>2, <3>3
  <2>2. wire[o] # <<>>
    BY <1>8 DEF ReaderHandles, ReaderMisreads, LinkShape
  <2>3. wire' = [wire EXCEPT ![o] = Tail(@)]
    BY <1>8 DEF ReaderHandles, ReaderMisreads
  <2>4. frame'[s] # "begun" /\ \A t \in Sides \ {s} : frame'[t] = frame[t]
    BY <1>0, <1>8 DEF ReaderHandles, ReaderMisreads, LinkTypeOK
  <2> HIDE DEF o
  <2>5. Tail(wire[o]) \in Seq(Msgs) /\ Len(Tail(wire[o])) <= WireSize
    <3>1. /\ Tail(wire[o]) \in Seq(Msgs) /\ Len(Tail(wire[o])) \in Nat
          /\ Len(Tail(wire[o])) <= Len(wire[o])
      BY <1>1, <1>3, <2>1, <2>2
    <3> QED
      BY <1>0, <1>1, <2>1, <3>1
  <2>6. /\ wire' \in [Sides -> Seq(Msgs)]
        /\ \A t \in Sides : /\ Len(wire'[t]) <= WireSize
                            /\ t # o => wire'[t] = wire[t]
    BY <1>0, <1>1, <2>1, <2>3, <2>5 DEF LinkTypeOK
  <2>7. LinkTypeOK'
    <3>1. CASE ReaderHandles(s)
      BY <1>0, <2>6, <3>1 DEF ReaderHandles, Answers, Msgs, LinkTypeOK
    <3>2. CASE ReaderMisreads(s)
      BY <1>0, <2>6, <3>2 DEF ReaderMisreads, LinkTypeOK
    <3> QED
      BY <1>8, <3>1, <3>2
  <2>8. ASSUME NEW t \in Sides, frame'[t] = "begun"
        PROVE  wire'[Other(t)] # <<>>
    <3>1. t # s /\ frame[t] = "begun"
      BY <2>4, <2>8
    <3>2. Other(t) # o /\ Other(t) \in Sides
      BY <2>1, <3>1, OtherSide
    <3>3. wire[Other(t)] # <<>>
      BY <3>1 DEF LinkShape
    <3> QED
      BY <2>6, <3>2, <3>3
  <2> QED
    BY <2>7, <2>8 DEF LinkShape
<1>9. ASSUME NEW s \in Sides, ReaderLeaves(s) \/ TickerFires(s)
      PROVE  LinkShape'
  <2>1. CASE ReaderLeaves(s)
    BY <1>0, <2>1 DEF ReaderLeaves, LinkShape, LinkTypeOK
  <2>2. CASE TickerFires(s)
    <3>1. LinkTypeOK'
      BY <1>0, <2>2 DEF TickerFires, LinkTypeOK
    <3>2. \A t \in Sides : frame'[t] = "begun" => frame[t] = "begun"
      BY <1>0, <2>2 DEF TickerFires, LinkTypeOK
    <3> QED
      BY <2>2, <3>1, <3>2 DEF TickerFires, LinkShape
  <2> QED
    BY <1>9, <2>1, <2>2
<1>10. ASSUME NEW s \in Sides, ReaderSends(s)
       PROVE  LinkShape'
  <2>1. owes[s] \in Msgs
    BY <1>0, <1>10 DEF ReaderSends, LinkTypeOK
  <2>2. /\ queue' \in [Sides -> Seq(Msgs)]
        /\ \A t \in Sides : Len(queue'[t]) <= QueueSize
    BY <1>0, <1>2, <1>10, <2>1 DEF ReaderSends, LinkTypeOK
  <2> QED
    BY <1>0, <1>10, <2>2 DEF ReaderSends, LinkShape, LinkTypeOK
<1>11. /\ [s \in Sides |-> <<>>] \in [Sides -> Seq(Msgs)]
       /\ Len(<<>>) <= QueueSize /\ Len(<<>>) <= WireSize
  BY <1>0
<1>12. ASSUME LinkFails
       PROVE  LinkShape'
  BY <1>0, <1>11, <1>12 DEF LinkFails, LinkShape, LinkTypeOK
<1>13. ASSUME LinkRenewed
       PROVE  LinkShape'
  BY <1>0, <1>11, <1>13 DEF LinkRenewed, LinkShape, LinkTypeOK
<1>14. CASE UNCHANGED linkVars
  BY <1>0, <1>14 DEF linkVars, LinkShape, LinkTypeOK
<1> QED
  BY <1>4, <1>5, <1>6, <1>7, <1>8, <1>9, <1>10, <1>12, <1>13, <1>14
  DEF LinkNext, WriterStep, ReadStep

\* A rule names an add, and no two listeners have one port.
LEMMA ForwardTypeInit == ForwardInit => ForwardTypeOK
<1>1. (CHOOSE x \in Rules \X Ports : TRUE) \in Rules \X Ports
  <2>1. PICK n \in Rules, p \in Ports : TRUE
    BY AddsAssumption
  <2>2. <<n, p>> \in Rules \X Ports
    OBVIOUS
  <2> QED
    BY <2>2, Zenon
<1> QED
  BY <1>1 DEF ForwardInit, ForwardTypeOK

\* Nor do steps of the adds and their listeners change that.
LEMMA ForwardTypeStep ==
  ASSUME ForwardTypeOK, [ForwardNext]_forwardVars
  PROVE  ForwardTypeOK'
<1>1. ASSUME NEW a \in Adds, NEW n \in Rules, NEW p \in Ports, AddChecks(a, n, p)
      PROVE  ForwardTypeOK'
  <2>1. met' \in [Adds -> SUBSET Adds]
    BY <1>1 DEF AddChecks, UnderWay, ForwardTypeOK
  <2> QED
    BY <1>1, <2>1 DEF AddChecks, ForwardTypeOK
<1>2. ASSUME NEW a \in Adds, AddBinds(a)
      PROVE  ForwardTypeOK'
  BY <1>2 DEF AddBinds, PortOf, ForwardTypeOK
<1>3. ASSUME NEW a \in Adds,
             AddFails(a) \/ ListenerStops(a) \/ AcceptFails(a)
      PROVE  ForwardTypeOK'
  BY <1>3 DEF AddFails, ListenerStops, AcceptFails, ForwardTypeOK
<1>4. ASSUME NEW a \in Adds, AddInserts(a)
      PROVE  ForwardTypeOK'
  BY <1>4 DEF AddInserts, NameOf, ForwardTypeOK
<1>5. ASSUME NEW n \in Rules, RemoveRule(n)
      PROVE  ForwardTypeOK'
  BY <1>5 DEF RemoveRule, ForwardTypeOK
<1>6. CASE UNCHANGED forwardVars
  BY <1>6 DEF forwardVars, ForwardTypeOK
<1> QED
  BY <1>1, <1>2, <1>3, <1>4, <1>5, <1>6 DEF ForwardNext

\* The adds under way have met one another, and the rule that an add finds
\* under its name is of one that it has met, or else no rule was there.
Rivals ==
  \A a \in Adds : call[a] # "idle" =>
    /\ UnderWay(a) \subseteq met[a]
    /\ rules[NameOf(a)] # NoAdd => rules[NameOf(a)] \in met[a]

\* An add begins with no rule of its name, and only the adds under way write
\* one.
LEMMA RivalsStep ==
  ASSUME ForwardTypeOK, Rivals, [ForwardNext]_forwardVars
  PROVE  Rivals'
<1>0. NoAdd \notin Adds
  BY AddsAssumption
<1>1. ASSUME NEW a \in Adds, NEW n \in Rules, NEW p \in Ports, AddChecks(a, n, p)
      PROVE  Rivals'
  <2>1. /\ call[a] = "idle" /\ call' = [call EXCEPT ![a] = "binding"]
        /\ asked' = [asked EXCEPT ![a] = <<n, p>>]
        /\ rules' = rules /\ rules[n] = NoAdd
    BY <1>1 DEF AddChecks
  <2>2. /\ \A b \in Adds \ {a} : met[b] \subseteq met'[b]
        /\ \A b \in UnderWay(a) : a \in met'[b]
        /\ met'[a] = UnderWay(a)
    BY <1>1 DEF AddChecks, UnderWay
  <2>3. NameOf(a)' = n /\ \A b \in Adds \ {a} : NameOf(b)' = NameOf(b)
    BY <2>1 DEF ForwardTypeOK, NameOf
  <2>4. UnderWay(a)' = UnderWay(a)
    BY <2>1 DEF ForwardTypeOK, UnderWay
  <2>5. ASSUME NEW b \in Adds \ {a}, call'[b] # "idle"
        PROVE  UnderWay(b)' \subseteq met'[b]
    <3>1. call[b] # "idle" /\ b \in UnderWay(a)
      BY <2>1, <2>5 DEF ForwardTypeOK, UnderWay
    <3>2. UnderWay(b)' \subseteq UnderWay(b) \cup {a}
      BY <2>1 DEF ForwardTypeOK, UnderWay
    <3> QED
      BY <2>2, <3>1, <3>2 DEF Rivals
  <2>6. ASSUME NEW b \in Adds, call'[b] # "idle"
        PROVE  rules'[NameOf(b)'] # NoAdd => rules'[NameOf(b)'] \in met'[b]
    BY <2>1, <2>2, <2>3, <2>6 DEF Rivals, ForwardTypeOK
  <2> QED
    BY <2>2, <2>4, <2>5, <2>6 DEF Rivals
<1>2. ASSUME NEW a \in Adds,
             AddBinds(a) \/ AddFails(a) \/ ListenerStops(a) \/ AcceptFails(a)
      PROVE  Rivals'
  <2>1. /\ UNCHANGED <<rules, asked, met>>
        /\ \A b \in Adds : call'[b] # "idle" => call[b] # "idle"
    BY <1>2
    DEF AddBinds, AddFails, ListenerStops, AcceptFails, ForwardTypeOK
  <2>2. \A b \in Adds : UnderWay(b)' \subseteq UnderWay(b)
    BY <2>1 DEF UnderWay
  <2> QED
    BY <2>1, <2>2 DEF Rivals, NameOf
<1>3. ASSUME NEW a \in Adds, AddInserts(a)
      PROVE  Rivals'
  <2>1. /\ call[a] = "bound" /\ call' = [call EXCEPT ![a] = "idle"]
        /\ rules' = [rules EXCEPT ![NameOf(a)] = a]
        /\ UNCHANGED <<asked, met>>
    BY <1>3 DEF AddInserts
  <2>2. \A b \in Adds : UnderWay(b)' \subseteq UnderWay(b)
    BY <2>1 DEF UnderWay, ForwardTypeOK
  <2>3. ASSUME NEW b \in Adds, call'[b] # "idle"
        PROVE  /\ call[b] # "idle" /\ a \in met[b]
               /\ rules'[NameOf(b)] \in {rules[NameOf(b)], a}
    <3>1. a # b /\ call[b] # "idle" /\ NameOf(b) \in Rules
      BY <2>1, <2>3 DEF ForwardTypeOK, NameOf
    <3>2. a \in UnderWay(b)
      BY <2>1, <3>1 DEF UnderWay
    <3> QED
      BY <2>1, <3>1, <3>2 DEF Rivals, ForwardTypeOK
  <2> QED
    BY <2>1, <2>2, <2>3 DEF Rivals, NameOf
<1>4. ASSUME NEW n \in Rules, RemoveRule(n)
      PROVE  Rivals'
  <2>1. UNCHANGED <<call, asked, met>> /\ rules' = [rules EXCEPT ![n] = NoAdd]
    BY <1>4 DEF RemoveRule
  <2>2. \A b \in Adds : rules'[NameOf(b)] \in {rules[NameOf(b)], NoAdd}
    BY <2>1 DEF ForwardTypeOK, NameOf
  <2> QED
    BY <2>1, <2>2 DEF Rivals, NameOf, UnderWay
<1>5. CASE UNCHANGED forwardVars
  BY <1>5 DEF forwardVars, Rivals, NameOf, UnderWay
<1> QED
  BY <1>1, <1>2, <1>3, <1>4, <1>5 DEF ForwardNext

\* An add never writes over a rule that was there before it began or that came
\* from an add that had ended, for all names, ports and numbers of calls
\* (PortForwardManager::add).
THEOREM AddsReplaceRivals == ForwardSpec => OnlyRivalsReplaced
<1>1. ForwardInit => Rivals
  BY DEF ForwardInit, Rivals
<1>2. Rivals => (\A a \in Adds :
        AddInserts(a) /\ rules[NameOf(a)] # NoAdd =>
          rules[NameOf(a)] \in met[a])
  BY DEF Rivals, AddInserts
<1> QED
  BY <1>1, <1>2, ForwardTypeInit, ForwardTypeStep, RivalsStep, PTL
  DEF ForwardSpec, OnlyRivalsReplaced

---------------------------------------------------------------------------
(* The parts together.                                                     *)

\* A behaviour of LiveParts is one of each of its parts.
THEOREM LivePartsStayApart ==
  LiveSpec => LinkSpec /\ MeshSpec /\ ForwardSpec /\ StreamSpec /\ KvSpec
<1>1. LiveInit => LinkInit /\ MeshInit /\ ForwardInit /\ StreamInit /\ KvInit
  BY DEF LiveInit
<1>2. [LiveNext]_liveVars =>
        /\ [LinkNext]_linkVars /\ [MeshNext]_meshVars
        /\ [ForwardNext]_forwardVars /\ [StreamNext]_streamVars
        /\ [KvNext]_kvVars
  BY DEF LiveNext, liveVars
<1> QED
  BY <1>1, <1>2, PTL
  DEF LiveSpec, LinkSpec, MeshSpec, ForwardSpec, StreamSpec, KvSpec

\* The queues, sockets, tables and pumps and the key-value area are always well
\* typed and within their sizes, and no two listeners have one port.
THEOREM LiveTypeCorrect == LiveSpec => []LiveTypeOK
<1>1. LinkSpec => []LinkTypeOK
  <2>1. LinkShape => LinkTypeOK
    BY DEF LinkShape
  <2> QED
    BY <2>1, LinkShapeInit, LinkShapeStep, PTL DEF LinkSpec
<1>2. ForwardSpec => []ForwardTypeOK
  BY ForwardTypeInit, ForwardTypeStep, PTL DEF ForwardSpec
<1>3. StreamSpec => []StreamTypeOK
  <2>1. StreamIInv => StreamTypeOK
    BY DEF StreamIInv, StreamShape
  <2> QED
    BY <2>1, StreamIInvInit, StreamIInvStep, PTL DEF StreamSpec
<1>4. KvSpec => []KvTypeOK
  <2>1. KvShape => KvTypeOK
    BY DEF KvShape
  <2> QED
    BY <2>1, KvShapeInit, KvShapeStep, PTL DEF KvSpec
<1>5. LiveInit => part \in Parts
  BY DEF LiveInit
<1>6. part \in Parts /\ [LiveNext]_liveVars => (part \in Parts)'
  BY DEF LiveNext, liveVars
<1>7. part \in Parts /\ LinkTypeOK /\ MeshShape /\ ForwardTypeOK
        /\ StreamTypeOK /\ KvTypeOK => LiveTypeOK
  BY DEF LiveTypeOK, MeshShape
<1> QED
  BY <1>1, <1>2, <1>3, <1>4, <1>5, <1>6, <1>7, LivePartsStayApart,
     MeshTypesHold, PTL DEF LiveSpec

\* So none of the parts, run beside the others, loses a chunk of a stream that
\* a frame can hold, except in the ways that StreamKeepsData names, ...
THEOREM LiveStreamsKeepTheirData == LiveSpec => []StreamKeepsData
BY LivePartsStayApart, StreamsKeepTheirData, PTL

\* ... nor does an add of a port replace a rule that was not a rival's, ...
THEOREM LiveAddsReplaceRivals == LiveSpec => OnlyRivalsReplaced
BY LivePartsStayApart, AddsReplaceRivals, PTL

\* ... nor does the key-value area cease to be a map.
THEOREM LiveKvImplementsRegister == LiveSpec => KvKeepsPromise
BY LivePartsStayApart, KvImplementsRegister, PTL
=============================================================================
