---------------------------- MODULE ServiceOrder ----------------------------
(***************************************************************************)
(* The order in which a pass of the reconciler visits the services of the  *)
(* desired state (topo_sort in reconciler.rs): Kahn's algorithm over maps  *)
(* whose iteration order is any order.  Nothing checks the desired state   *)
(* before: names may occur twice, dependencies be unknown or circular.     *)
(***************************************************************************)
EXTENDS Integers, SequencesExt

CONSTANTS
  Services,  \* service names
  States     \* the desired states: sequences of [name, deps]

ASSUME StatesAssumption ==
  /\ IsFiniteSet(Services)
  /\ States \subseteq Seq([name : Services, deps : SUBSET Services])

VARIABLES
  desired,    \* the desired state being sorted
  inDegree,   \* in_degree: what each service still waits for
  ready,      \* the services that wait for nothing
  order,      \* result
  sorting     \* "idle", "running", "sorted" or "refused"

orderVars == <<desired, inDegree, ready, order, sorting>>

Names(s) == {s[i].name : i \in DOMAIN s}

OrderTypeOK ==
  /\ desired \in Seq([name : Services, deps : SUBSET Services])
  /\ inDegree \in [Names(desired) -> Nat]
  /\ ready \in Seq(Names(desired)) /\ order \in Seq(Names(desired))
  /\ sorting \in {"idle", "running", "sorted", "refused"}

OrderInit ==
  /\ desired = <<>> /\ inDegree = <<>>
  /\ ready = <<>> /\ order = <<>>
  /\ sorting = "idle"

\* The entries that name n as a dependency, and how many of them a service has.
Waiting(s, n) == {i \in DOMAIN s : n \in s[i].deps}
Edges(s, n, m) == Cardinality({i \in Waiting(s, n) : s[i].name = m})

\* Services of one name share one counter.
Needs(s, m) ==
  {e \in (DOMAIN s) \X Services : s[e[1]].name = m /\ e[2] \in s[e[1]].deps}

Degrees(s) == [m \in Names(s) |-> Cardinality(Needs(s, m))]

SortBegins ==
  /\ sorting = "idle"
  /\ \E s \in States :
       /\ desired' = s
       /\ inDegree' = Degrees(s)
       /\ order' = <<>>
       /\ IF \A i \in DOMAIN s : s[i].deps \subseteq Names(s)
            THEN /\ sorting' = "running"
                 /\ ready' \in SetToSeqs({n \in Names(s) : Degrees(s)[n] = 0})
            ELSE sorting' = "refused" /\ ready' = <<>>

\* Mutant: a service is ready as soon as one of its dependencies is visited.
ReadyAfterOne(n) == {m \in Names(desired) : Edges(desired, n, m) > 0}

\* The services that the visit of n leaves without a dependency.
ReadyAfter(n) ==
  {m \in Names(desired) : Edges(desired, n, m) > 0
                            /\ inDegree[m] = Edges(desired, n, m)}

Visit ==
  /\ sorting = "running" /\ ready # <<>>
  /\ LET n == Head(ready) IN
       /\ order' = Append(order, n)
       /\ inDegree' = [m \in Names(desired) |->
                         inDegree[m] - Edges(desired, n, m)]
       /\ \E q \in SetToSeqs(ReadyAfter(n)) : ready' = Tail(ready) \o q
  /\ UNCHANGED <<desired, sorting>>

\* Fewer than the entries of the desired state: "circular dependency".
SortEnds ==
  /\ sorting = "running" /\ ready = <<>>
  /\ sorting' = IF Len(order) = Len(desired) THEN "sorted" ELSE "refused"
  /\ UNCHANGED <<desired, inDegree, ready, order>>

\* The pass is over; the next one starts from nothing.
PassEnds ==
  /\ sorting \in {"sorted", "refused"}
  /\ desired' = <<>> /\ inDegree' = <<>>
  /\ ready' = <<>> /\ order' = <<>>
  /\ sorting' = "idle"

OrderNext == SortBegins \/ Visit \/ SortEnds \/ PassEnds

OrderSpec == OrderInit /\ [][OrderNext]_orderVars

---------------------------------------------------------------------------
(* Properties.                                                             *)

\* p visits every entry of s once, after all it depends on.
Respects(p, s) ==
  /\ Len(p) = Len(s)
  /\ \A i \in DOMAIN s : \E j \in DOMAIN p :
       /\ p[j] = s[i].name
       /\ \A n \in s[i].deps : \E k \in 1 .. j - 1 : p[k] = n

\* A desired state is sorted exactly if services have names of their own and
\* some order puts each after its dependencies, and the result is such an
\* order, whatever the order of the maps (topo_sort).
OrderIsRight ==
  /\ sorting = "sorted" => Respects(order, desired) /\ IsInjective(order)
  /\ sorting = "refused" =>
       ~\E p \in SetToSeqs(Names(desired)) : Respects(p, desired)
=============================================================================
