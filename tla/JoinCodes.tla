----------------------------- MODULE JoinCodes ------------------------------
(***************************************************************************)
(* One-time join codes at the daemon that connects with them               *)
(* (connect_to_peer in lib.rs, JoinCodeMeta in identity.rs): a code's      *)
(* nonce is recorded before the connection is tried, released if that      *)
(* fails, and evicted by age and by number.                                *)
(***************************************************************************)
EXTENDS Integers, FiniteSets

CONSTANTS
  Codes,      \* the codes, all made at time 0
  Ttl,        \* ttl_mins * 60 of each code; 0: it does not expire
  Window,     \* 86_400: the age at which a nonce is evicted
  MaxNonces,  \* 10_000
  KeptNonces, \* 5_000
  MaxClock,   \* bound on time
  MaxTries,   \* bound on the attempts under way with one code
  Unused      \* the nonce is not recorded

ASSUME CodesAssumption ==
  /\ Ttl \in [Codes -> Nat] /\ Window \in Nat /\ Unused \notin Nat
  /\ MaxNonces \in Nat /\ KeptNonces \in 0 .. MaxNonces
  /\ MaxClock \in Nat /\ MaxTries \in Nat

VARIABLES
  clock,
  nonces,    \* used_nonces: when the nonce of each code was recorded
  trying,    \* how many attempts are under way with each code
  joined,    \* how many have succeeded in this life of the daemon, 2 for more
  crowded    \* the codes whose nonce the limit has evicted (history)

codeVars == <<clock, nonces, trying, joined, crowded>>

CodeTypeOK ==
  /\ clock \in 0 .. MaxClock
  /\ nonces \in [Codes -> (0 .. MaxClock) \cup {Unused}]
  /\ trying \in [Codes -> 0 .. MaxTries]
  /\ joined \in [Codes -> 0 .. 2]
  /\ crowded \in SUBSET Codes

CodeInit ==
  /\ clock = 0
  /\ nonces = [c \in Codes |-> Unused]
  /\ trying = [c \in Codes |-> 0]
  /\ joined = [c \in Codes |-> 0]
  /\ crowded = {}

CodeClockTicks ==
  /\ clock < MaxClock
  /\ clock' = clock + 1
  /\ UNCHANGED <<nonces, trying, joined, crowded>>

Expired(c) == Ttl[c] # 0 /\ clock > Ttl[c]

Recorded(u) == {c \in Codes : u[c] # Unused}

\* The nonces that are young enough, and of too many some of the newest.
Young == {c \in Recorded(nonces) : clock - nonces[c] < Window}

Newest ==
  IF Cardinality(Young) <= MaxNonces THEN {Young}
  ELSE {s \in SUBSET Young :
          /\ Cardinality(s) = KeptNonces
          /\ \A c \in s, d \in Young \ s : nonces[c] >= nonces[d]}

Only(s) == [c \in Codes |-> IF c \in s THEN nonces[c] ELSE Unused]

\* The nonce is recorded at once and the attempt begins.
JoinBegins(c) ==
  /\ ~Expired(c) /\ trying[c] < MaxTries
  /\ \E s \in Newest :
       /\ c \notin s
       /\ nonces' = [Only(s) EXCEPT ![c] = clock]
       /\ crowded' = crowded \cup (Young \ s)
  /\ trying' = [trying EXCEPT ![c] = @ + 1]
  /\ UNCHANGED <<clock, joined>>

\* Mutant: every error releases the nonce.
Released(c, s) == Only(s \ {c})

\* The error of a replay leaves the nonce where it is.
AfterRefusal(c, s) == Only(s)

\* The nonce is there already; the eviction has been made all the same.
JoinRefused(c) ==
  /\ ~Expired(c)
  /\ \E s \in Newest :
       /\ c \in s
       /\ nonces' = AfterRefusal(c, s)
       /\ crowded' = crowded \cup (Young \ s)
  /\ UNCHANGED <<clock, trying, joined>>

\* No address answers or the handshake fails: the nonce is released.
JoinFails(c) ==
  /\ trying[c] > 0
  /\ trying' = [trying EXCEPT ![c] = @ - 1]
  /\ nonces' = [nonces EXCEPT ![c] = Unused]
  /\ UNCHANGED <<clock, joined, crowded>>

JoinSucceeds(c) ==
  /\ trying[c] > 0
  /\ trying' = [trying EXCEPT ![c] = @ - 1]
  /\ joined' = [joined EXCEPT ![c] = IF @ < 2 THEN @ + 1 ELSE 2]
  /\ UNCHANGED <<clock, nonces, crowded>>

\* Nonces are not on disk: the next process knows none.
JoinerRestarts ==
  /\ nonces' = [c \in Codes |-> Unused]
  /\ trying' = [c \in Codes |-> 0]
  /\ joined' = [c \in Codes |-> 0]
  /\ crowded' = {}
  /\ UNCHANGED clock

CodeNext ==
  \/ CodeClockTicks \/ JoinerRestarts
  \/ \E c \in Codes : JoinBegins(c) \/ JoinRefused(c) \/ JoinFails(c)
                        \/ JoinSucceeds(c)

CodeSpec == CodeInit /\ [][CodeNext]_codeVars

---------------------------------------------------------------------------
(* Properties.                                                             *)

\* A one-time code that expires before its nonce is evicted connects once in
\* the life of a daemon, however many attempts are made with it at once, fail
\* and are refused, unless the limit has evicted it (connect_to_peer).
OneTimeOnce ==
  \A c \in Codes :
    0 < Ttl[c] /\ Ttl[c] < Window /\ c \notin crowded => joined[c] <= 1
=============================================================================
