------------------------- MODULE TablePartsProofs --------------------------
(***************************************************************************)
(* Proofs about the parts that TableParts puts side by side: host names    *)
(* across the mesh, one-time join codes, the templates that the clients    *)
(* save and the order of the services.                                     *)
(***************************************************************************)
EXTENDS TableParts, SequenceTheorems, FiniteSetTheorems, WellFoundedInduction,
        TLAPS

---------------------------------------------------------------------------
(* Host names across the mesh.                                             *)

\* A connection, once made, has two ends; readers and forwarders belong to
\* connections that were made.
EndsPaired ==
  \A c \in Conns :
    ends[c] = {} \/ \E p, q \in Daemons : p # q /\ ends[c] = {p, q}

ReadingMade == \A d \in Daemons, c \in Conns : <<d, c>> \in reading => d \in ends[c]

FwdMade ==
  \A d \in Daemons, h \in Hosts : fwd[d][h] # NoConn => ends[fwd[d][h]] # {}

\* What is registered for a node, and what gossip on its way carries, nodes of
\* the sender have had.
NodesOwned ==
  \A d \in Daemons, h \in Hosts : name[d][h] = "node" => h \in owned[d]

MailOwned ==
  \A d \in Daemons, c \in Conns :
    mail[<<d, c>>] # <<>> =>
      /\ ends[c] # {}
      /\ \A i \in DOMAIN mail[<<d, c>>] :
           mail[<<d, c>>][i] \subseteq owned[Peer(d, c)]

\* One cell of a table of tables changes.
LEMMA CellTyped ==
  ASSUME NEW A, NEW B, NEW V, NEW f \in [A -> [B -> V]],
         NEW i \in A, NEW j \in B, NEW v \in V
  PROVE  [f EXCEPT ![i][j] = v] \in [A -> [B -> V]]
<1>1. [f[i] EXCEPT ![j] = v] \in [B -> V]
  OBVIOUS
<1> QED
  BY <1>1

\* No names, connections or gossip at first.
LEMMA MeshTypeInit == MeshInit => MeshTypeOK
BY DEF MeshInit, MeshTypeOK, End, Pair

\* The other end of a connection sees this one at its other end.
LEMMA PeerIsOther ==
  ASSUME EndsPaired, NEW c \in Conns, NEW d \in ends[c]
  PROVE  /\ Peer(d, c) \in Daemons /\ Peer(d, c) # d
         /\ Peer(Peer(d, c), c) = d
<1>1. PICK p, q \in Daemons : p # q /\ ends[c] = {p, q}
  BY DEF EndsPaired
<1>2. CASE d = p
  <2>1. ends[c] \ {d} = {q}
    BY <1>1, <1>2
  <2>2. Peer(d, c) = q
    BY <2>1 DEF Peer
  <2>3. ends[c] \ {q} = {p}
    BY <1>1
  <2>4. Peer(q, c) = p
    BY <2>3 DEF Peer
  <2> QED
    BY <1>1, <1>2, <2>2, <2>4
<1>3. CASE d = q
  <2>1. ends[c] \ {d} = {p}
    BY <1>1, <1>3
  <2>2. Peer(d, c) = p
    BY <2>1 DEF Peer
  <2>3. ends[c] \ {p} = {q}
    BY <1>1
  <2>4. Peer(p, c) = q
    BY <2>3 DEF Peer
  <2> QED
    BY <1>1, <1>3, <2>2, <2>4
<1> QED
  BY <1>1, <1>2, <1>3

\* Handling an entry leaves messages that are parts of those before.
LEMMA HandledShrinks ==
  ASSUME NEW m \in Seq(SUBSET Hosts), m # <<>>, NEW h,
         NEW S, \A i \in DOMAIN m : m[i] \subseteq S
  PROVE  /\ Handled(m, h) \in Seq(SUBSET Hosts)
         /\ \A i \in DOMAIN Handled(m, h) : Handled(m, h)[i] \subseteq S
<1>1. Tail(m) \in Seq(SUBSET Hosts) /\ Head(m) \in SUBSET Hosts
  OBVIOUS
<1>2. \A i \in DOMAIN Tail(m) : Tail(m)[i] \subseteq S
  OBVIOUS
<1>3. Head(m) \subseteq S
  <2>1. 1 \in DOMAIN m /\ Head(m) = m[1]
    OBVIOUS
  <2> QED
    BY <2>1
<1>4. CASE Head(m) = {h}
  BY <1>1, <1>2, <1>4 DEF Handled
<1>5. CASE Head(m) # {h}
  <2> DEFINE t == Tail(m)
             f == Head(m) \ {h}
  <2>1. f \in SUBSET Hosts /\ f \subseteq S
    BY <1>1, <1>3
  <2>2. Handled(m, h) = <<f>> \o t
    BY <1>5 DEF Handled
  <2> HIDE DEF t, f
  <2>3. t \in Seq(SUBSET Hosts) /\ \A i \in DOMAIN t : t[i] \subseteq S
    BY <1>1, <1>2 DEF t
  <2>4. <<f>> \o t \in Seq(SUBSET Hosts)
    BY <2>1, <2>3
  <2>5. ASSUME NEW i \in DOMAIN (<<f>> \o t)
        PROVE  (<<f>> \o t)[i] \subseteq S
    <3>1. i = 1 \/ (i - 1 \in DOMAIN t /\ (<<f>> \o t)[i] = t[i - 1] /\ i # 1)
      BY <2>1, <2>3
    <3>2. (<<f>> \o t)[1] = f
      BY <2>1, <2>3
    <3> QED
      BY <2>1, <2>3, <3>1, <3>2
  <2> QED
    BY <2>2, <2>4, <2>5
<1> QED
  BY <1>4, <1>5

\* Types, and whose connections are read.
MeshShape == MeshTypeOK /\ EndsPaired /\ ReadingMade

\* Nor anything that reads or forwards.
LEMMA ShapeInit == MeshInit => MeshShape
BY MeshTypeInit DEF MeshInit, MeshShape, EndsPaired, ReadingMade

\* Steps that neither make a connection nor start a reader.
LEMMA ShapeKept ==
  ASSUME MeshShape, MeshTypeOK', ends' = ends, reading' \subseteq reading
  PROVE  MeshShape'
BY DEF MeshShape, EndsPaired, ReadingMade

\* Every step keeps connections, readers and tables in shape.
LEMMA ShapeStep ==
  ASSUME MeshShape, [MeshNext]_meshVars
  PROVE  MeshShape'
<1> USE DEF Pair, End
<1>1. ASSUME NEW d \in Daemons, NEW h \in Hosts,
             NameComes(d, h) \/ NameGoes(d, h)
      PROVE  MeshShape'
  <2>1. name' \in [Daemons -> [Hosts -> {"node", "mesh", "none"}]]
    <3>1. name' = [name EXCEPT ![d][h] = "node"]
            \/ name' = [name EXCEPT ![d][h] = "none"]
      BY <1>1 DEF NameComes, NameGoes
    <3>2. name \in [Daemons -> [Hosts -> {"node", "mesh", "none"}]]
      BY DEF MeshShape, MeshTypeOK
    <3>3. /\ [name EXCEPT ![d][h] = "node"]
               \in [Daemons -> [Hosts -> {"node", "mesh", "none"}]]
          /\ [name EXCEPT ![d][h] = "none"]
               \in [Daemons -> [Hosts -> {"node", "mesh", "none"}]]
      BY <3>2, CellTyped
    <3> QED
      BY <3>1, <3>3
  <2>2. owned' \in [Daemons -> SUBSET Hosts]
    <3>1. CASE NameComes(d, h)
      BY <3>1 DEF MeshShape, MeshTypeOK, NameComes
    <3>2. CASE NameGoes(d, h)
      BY <3>2 DEF MeshShape, MeshTypeOK, NameGoes
    <3> QED
      BY <1>1, <3>1, <3>2
  <2>3. MeshTypeOK'
    BY <1>1, <2>1, <2>2 DEF MeshShape, MeshTypeOK, NameComes, NameGoes
  <2> QED
    BY <1>1, <2>3, ShapeKept DEF NameComes, NameGoes
<1>2. ASSUME NEW d \in Daemons, NEW p \in Daemons, NEW c \in Conns,
             Handshake(d, p, c)
      PROVE  MeshShape'
  <2>1. MeshTypeOK'
    BY <1>2 DEF MeshShape, MeshTypeOK, Handshake
  <2>2. ends'[c] = {d, p} /\ \A b \in Conns \ {c} : ends'[b] = ends[b]
    BY <1>2 DEF MeshShape, MeshTypeOK, Handshake
  <2>3. EndsPaired'
    BY <1>2, <2>2 DEF MeshShape, EndsPaired, Handshake
  <2>4. ASSUME NEW e \in Daemons, NEW b \in Conns, <<e, b>> \in reading'
        PROVE  e \in ends'[b]
    <3>1. CASE <<e, b>> \in reading
      <4>1. e \in ends[b]
        BY <3>1 DEF MeshShape, ReadingMade
      <4>2. b # c
        BY <1>2, <4>1 DEF Handshake
      <4> QED
        BY <2>2, <4>1, <4>2
    <3>2. CASE <<e, b>> \notin reading
      <4>1. <<e, b>> = <<d, c>> \/ <<e, b>> = <<p, c>>
        BY <1>2, <2>4, <3>2 DEF Handshake
      <4> QED
        BY <2>2, <4>1
    <3> QED
      BY <3>1, <3>2
  <2> QED
    BY <2>1, <2>3, <2>4 DEF MeshShape, ReadingMade
<1>3. ASSUME NEW d \in Daemons, NEW p \in Daemons,
             PeerGone(d, p) \/ Disconnect(d, p)
      PROVE  MeshShape'
  <2>1. table' \in [Daemons -> [Daemons -> Conns \cup {NoConn}]]
    <3>1. table' = [table EXCEPT ![d][p] = NoConn]
      BY <1>3 DEF PeerGone, Disconnect
    <3>2. table \in [Daemons -> [Daemons -> Conns \cup {NoConn}]]
      BY DEF MeshShape, MeshTypeOK
    <3> QED
      BY <3>1, <3>2, CellTyped
  <2>2. leaving' \in SUBSET Pair /\ dropping' \in SUBSET Pair
    BY <1>3 DEF MeshShape, MeshTypeOK, PeerGone, Disconnect
  <2>3. MeshTypeOK'
    BY <1>3, <2>1, <2>2 DEF MeshShape, MeshTypeOK, PeerGone, Disconnect
  <2> QED
    BY <1>3, <2>3, ShapeKept DEF PeerGone, Disconnect
<1>4. ASSUME NEW d \in Daemons, NEW p \in Daemons, DropForwarders(d, p)
      PROVE  MeshShape'
  <2>1. MeshTypeOK'
    BY <1>4
    DEF MeshShape, MeshTypeOK, DropForwarders, Unregistered
  <2> QED
    BY <1>4, <2>1, ShapeKept DEF DropForwarders
<1>5. ASSUME NEW d \in Daemons, NEW c \in Conns, Tabled(d, c)
      PROVE  MeshShape'
  <2>1. table' \in [Daemons -> [Daemons -> Conns \cup {NoConn}]]
    BY <1>5 DEF MeshShape, MeshTypeOK, Tabled
  <2>2. MeshTypeOK'
    BY <1>5, <2>1 DEF MeshShape, MeshTypeOK, Tabled
  <2> QED
    BY <1>5, <2>2, ShapeKept DEF Tabled
<1>6. ASSUME NEW d \in Daemons, NEW c \in Conns, ReaderEnds(d, c)
      PROVE  MeshShape'
  <2>1. Peer(d, c) \in Daemons
    BY <1>6, PeerIsOther DEF MeshShape, ReadingMade, ReaderEnds
  <2>2. MeshTypeOK'
    BY <1>6, <2>1 DEF MeshShape, MeshTypeOK, ReaderEnds
  <2> QED
    BY <1>6, <2>2, ShapeKept DEF ReaderEnds
<1>7. ASSUME NEW d \in Daemons, NEW c \in Conns, Gossip(d, c)
      PROVE  MeshShape'
  <2>1. mail' \in [End -> Seq(SUBSET Hosts)]
    BY <1>7 DEF MeshShape, MeshTypeOK, Gossip, LocalNames
  <2>2. MeshTypeOK'
    BY <1>7, <2>1 DEF MeshShape, MeshTypeOK, Gossip
  <2> QED
    BY <1>7, <2>2, ShapeKept DEF Gossip
<1>8. ASSUME NEW d \in Daemons, NEW c \in Conns, NEW h \in Hosts,
             \/ EntryIgnored(d, c, h) \/ EntryTaken(d, c, h)
             \/ EntryUnbound(d, c, h)
      PROVE  MeshShape'
  <2> DEFINE m == mail[<<d, c>>]
  <2>1. /\ m # <<>>
        /\ mail' = [mail EXCEPT ![<<d, c>>] = Handled(m, h)]
    BY <1>8 DEF EntryIgnored, EntryTaken, EntryUnbound
  <2>2. m \in Seq(SUBSET Hosts)
    BY DEF MeshShape, MeshTypeOK
  <2>3. Handled(m, h) \in Seq(SUBSET Hosts)
    <3>1. \A i \in DOMAIN m : m[i] \subseteq Hosts
      BY <2>2
    <3> QED
      BY <2>1, <2>2, <3>1, HandledShrinks
  <2> HIDE DEF m
  <2>4. mail' \in [End -> Seq(SUBSET Hosts)]
    BY <2>1, <2>3 DEF MeshShape, MeshTypeOK
  <2>5. /\ name' \in [Daemons -> [Hosts -> {"node", "mesh", "none"}]]
        /\ fwd' \in [Daemons -> [Hosts -> Conns \cup {NoConn}]]
        /\ heard' \in SUBSET (Daemons \X Conns \X Hosts)
    <3>1. CASE EntryIgnored(d, c, h)
      BY <3>1 DEF MeshShape, MeshTypeOK, EntryIgnored
    <3>2. CASE EntryTaken(d, c, h)
      <4>1. /\ name \in [Daemons -> [Hosts -> {"node", "mesh", "none"}]]
            /\ fwd \in [Daemons -> [Hosts -> Conns \cup {NoConn}]]
        BY DEF MeshShape, MeshTypeOK
      <4>2. /\ [name EXCEPT ![d][h] = "mesh"]
                 \in [Daemons -> [Hosts -> {"node", "mesh", "none"}]]
            /\ [fwd EXCEPT ![d][h] = c]
                 \in [Daemons -> [Hosts -> Conns \cup {NoConn}]]
        BY <4>1, CellTyped
      <4>3. heard' \in SUBSET (Daemons \X Conns \X Hosts)
        BY <3>2 DEF MeshShape, MeshTypeOK, EntryTaken
      <4> QED
        BY <3>2, <4>1, <4>2, <4>3 DEF EntryTaken
    <3>3. CASE EntryUnbound(d, c, h)
      BY <3>3 DEF MeshShape, MeshTypeOK, EntryUnbound
    <3> QED
      BY <1>8, <3>1, <3>2, <3>3
  <2>6. UNCHANGED <<ends, up, reading, opening, table, leaving, dropping,
                    owned>>
    BY <1>8 DEF EntryIgnored, EntryTaken, EntryUnbound
  <2>7. MeshTypeOK'
    BY <2>4, <2>5, <2>6 DEF MeshShape, MeshTypeOK
  <2> QED
    BY <2>6, <2>7, ShapeKept
<1>9. ASSUME NEW c \in Conns, LinkBreaks(c)
      PROVE  MeshShape'
  <2>1. MeshTypeOK'
    BY <1>9 DEF MeshShape, MeshTypeOK, LinkBreaks
  <2> QED
    BY <1>9, <2>1, ShapeKept DEF LinkBreaks
<1>10. ASSUME NEW d \in Daemons, DaemonRestarts(d)
       PROVE  MeshShape'
  <2>1. MeshTypeOK'
    BY <1>10 DEF MeshShape, MeshTypeOK, DaemonRestarts
  <2> QED
    BY <1>10, <2>1, ShapeKept DEF DaemonRestarts
<1>11. ASSUME UNCHANGED meshVars
       PROVE  MeshShape'
  BY <1>11 DEF meshVars, MeshShape, MeshTypeOK, EndsPaired, ReadingMade
<1> QED
  BY <1>1, <1>2, <1>3, <1>4, <1>5, <1>6, <1>7, <1>8, <1>9, <1>10, <1>11
  DEF MeshNext

\* The state of the mesh keeps its types, and a reader reads a connection of
\* its own daemon, made between two.
THEOREM MeshTypesHold == MeshSpec => []MeshShape
BY ShapeInit, ShapeStep, PTL DEF MeshSpec

\* No step leaves a name of the mesh without a forwarder.
LEMMA ForwardedStep ==
  ASSUME MeshShape, MeshNamesForwarded, [MeshNext]_meshVars
  PROVE  MeshNamesForwarded'
<1> SUFFICES ASSUME NEW e \in Daemons, NEW g \in Hosts, name'[e][g] = "mesh"
             PROVE  fwd'[e][g] # NoConn
  BY DEF MeshNamesForwarded
<1>0. /\ name \in [Daemons -> [Hosts -> {"node", "mesh", "none"}]]
      /\ fwd \in [Daemons -> [Hosts -> Conns \cup {NoConn}]]
      /\ name[e][g] = "mesh" => fwd[e][g] # NoConn
  BY DEF MeshShape, MeshTypeOK, MeshNamesForwarded
<1>1. ASSUME NEW d \in Daemons, NEW h \in Hosts,
             NameComes(d, h) \/ NameGoes(d, h)
      PROVE  fwd'[e][g] # NoConn
  <2>1. name'[e][g] = name[e][g] \/ name'[e][g] \in {"node", "none"}
    BY <1>0, <1>1 DEF NameComes, NameGoes
  <2> QED
    BY <1>0, <1>1, <2>1 DEF NameComes, NameGoes
<1>2. ASSUME NEW d \in Daemons, NEW p \in Daemons, DropForwarders(d, p)
      PROVE  fwd'[e][g] # NoConn
  BY <1>0, <1>2 DEF DropForwarders, Unregistered
<1>3. ASSUME NEW d \in Daemons, NEW c \in Conns, NEW h \in Hosts,
             EntryTaken(d, c, h)
      PROVE  fwd'[e][g] # NoConn
  <2>1. CASE fwd[d][h] # NoConn
    BY <1>0, <1>3, <2>1 DEF EntryTaken
  <2>2. CASE fwd[d][h] = NoConn
    <3>1. /\ fwd' = [fwd EXCEPT ![d][h] = c]
          /\ name' = [name EXCEPT ![d][h] = "mesh"]
      BY <1>3, <2>2 DEF EntryTaken
    <3> QED
      BY <1>0, <3>1, MeshAssumption
  <2> QED
    BY <2>1, <2>2
<1>4. ASSUME NEW d \in Daemons, DaemonRestarts(d)
      PROVE  fwd'[e][g] # NoConn
  BY <1>0, <1>4 DEF DaemonRestarts
<1>5. ASSUME UNCHANGED <<name, fwd>>
      PROVE  fwd'[e][g] # NoConn
  BY <1>0, <1>5
<1>6. ASSUME NEW d \in Daemons, NEW p \in Daemons,
             \/ \E c \in Conns : Handshake(d, p, c)
             \/ PeerGone(d, p) \/ Disconnect(d, p)
      PROVE  UNCHANGED <<name, fwd>>
  BY <1>6 DEF Handshake, PeerGone, Disconnect
<1>7. ASSUME NEW d \in Daemons, NEW c \in Conns,
             \/ Tabled(d, c) \/ ReaderEnds(d, c) \/ Gossip(d, c)
             \/ \E h \in Hosts : EntryIgnored(d, c, h) \/ EntryUnbound(d, c, h)
      PROVE  UNCHANGED <<name, fwd>>
  BY <1>7 DEF Tabled, ReaderEnds, Gossip, EntryIgnored, EntryUnbound
<1>8. ASSUME NEW c \in Conns, LinkBreaks(c)
      PROVE  UNCHANGED <<name, fwd>>
  BY <1>8 DEF LinkBreaks
<1>9. ASSUME UNCHANGED meshVars
      PROVE  UNCHANGED <<name, fwd>>
  BY <1>9 DEF meshVars
<1> QED
  BY <1>1, <1>2, <1>3, <1>4, <1>5, <1>6, <1>7, <1>8, <1>9 DEF MeshNext

\* A name registered for the mesh has a forwarder, for any number of daemons,
\* names and connections (refresh_forwarder, remove_peer_forwarders).
THEOREM MeshNamesAreForwarded == MeshSpec => []MeshNamesForwarded
<1>1. MeshInit => MeshNamesForwarded
  BY DEF MeshInit, MeshNamesForwarded
<1> QED
  BY <1>1, MeshTypesHold, ForwardedStep, PTL DEF MeshSpec

\* Where names come from: registered names, gossip and forwarders agree with
\* what nodes have had.
Origin == /\ MeshShape /\ FwdMade /\ NodesOwned /\ MailOwned
          /\ NamesHaveOrigin

\* A made connection has a daemon at its other end, whoever looks.
LEMMA PeerThere ==
  ASSUME EndsPaired, NEW c \in Conns, ends[c] # {}, NEW d
  PROVE  Peer(d, c) \in Daemons
<1>1. PICK p, q \in Daemons : p # q /\ ends[c] = {p, q}
  BY DEF EndsPaired
<1>2. ends[c] \ {d} # {}
  BY <1>1
<1>3. Peer(d, c) \in ends[c]
  BY <1>2 DEF Peer
<1> QED
  BY <1>1, <1>3

\* Made connections keep their ends, and what nodes have had only grows.
Grows ==
  /\ \A c \in Conns : ends[c] # {} => ends'[c] = ends[c]
  /\ \A d \in Daemons : owned[d] \subseteq owned'[d]

\* Forwarders that stay keep their origin.
LEMMA ForwardersKept ==
  ASSUME Origin, Grows,
         \A d \in Daemons, h \in Hosts :
           fwd'[d][h] = fwd[d][h] \/ fwd'[d][h] = NoConn
  PROVE  FwdMade' /\ NamesHaveOrigin'
<1> SUFFICES ASSUME NEW d \in Daemons, NEW h \in Hosts, fwd'[d][h] # NoConn
             PROVE  /\ ends'[fwd'[d][h]] # {}
                    /\ h \in owned'[PeerOf(d, h)']
  BY DEF FwdMade, NamesHaveOrigin
<1> DEFINE c == fwd[d][h]
<1>1. fwd'[d][h] = c /\ c \in Conns
  BY DEF Origin, MeshShape, MeshTypeOK
<1>2. ends[c] # {} /\ ends'[c] = ends[c]
  BY <1>1 DEF Origin, FwdMade, Grows
<1>3. h \in owned[Peer(d, c)]
  BY <1>1 DEF Origin, NamesHaveOrigin, PeerOf
<1>4. PeerOf(d, h)' = Peer(d, c)
  BY <1>1, <1>2 DEF PeerOf, Peer
<1>5. Peer(d, c) \in Daemons
  BY <1>1, <1>2, PeerThere DEF Origin, MeshShape
<1> QED
  BY <1>1, <1>2, <1>3, <1>4, <1>5 DEF Grows

\* So does gossip that stays, whole or in part.
LEMMA MailKept ==
  ASSUME Origin, Grows,
         \A d \in Daemons, c \in Conns :
           mail'[<<d, c>>] # <<>> =>
             /\ mail[<<d, c>>] # <<>>
             /\ \A i \in DOMAIN mail'[<<d, c>>] :
                  mail'[<<d, c>>][i] \subseteq owned[Peer(d, c)]
  PROVE  MailOwned'
<1> SUFFICES ASSUME NEW d \in Daemons, NEW c \in Conns, mail'[<<d, c>>] # <<>>
             PROVE  /\ ends'[c] # {}
                    /\ \A i \in DOMAIN mail'[<<d, c>>] :
                         mail'[<<d, c>>][i] \subseteq owned'[Peer(d, c)']
  BY DEF MailOwned
<1>1. ends[c] # {} /\ ends'[c] = ends[c]
  BY DEF Origin, MailOwned, Grows
<1>2. Peer(d, c)' = Peer(d, c)
  BY <1>1 DEF Peer
<1>3. Peer(d, c) \in Daemons
  BY <1>1, PeerThere DEF Origin, MeshShape
<1>4. owned[Peer(d, c)] \subseteq owned'[Peer(d, c)]
  BY <1>3 DEF Grows
<1> QED
  BY <1>1, <1>2, <1>4

\* In particular where nothing is written.
LEMMA MailUntouched ==
  ASSUME Origin, Grows,
         \A d \in Daemons, c \in Conns :
           mail'[<<d, c>>] \in {mail[<<d, c>>], <<>>}
  PROVE  MailOwned'
BY MailKept DEF Origin, MailOwned

\* At first there is nothing that needs an origin.
LEMMA OriginInit == MeshInit => Origin
<1> SUFFICES ASSUME MeshInit PROVE Origin
  OBVIOUS
<1>1. MeshShape
  BY ShapeInit
<1>2. FwdMade /\ NodesOwned /\ NamesHaveOrigin
  BY DEF MeshInit, FwdMade, NodesOwned, NamesHaveOrigin
<1>3. MailOwned
  BY DEF MeshInit, MailOwned, End
<1> QED
  BY <1>1, <1>2, <1>3 DEF Origin

\* Gossip carries what nodes of the sender have had, and the peer of its
\* reader is the sender.
LEMMA GossipOwned ==
  ASSUME Origin, NEW d \in Daemons, NEW c \in Conns, Gossip(d, c)
  PROVE  MailOwned'
<1> DEFINE x == <<Peer(d, c), c>>
<1>1. d \in ends[c] /\ EndsPaired
  BY DEF Gossip, Origin, MeshShape, ReadingMade
<1>2. /\ Peer(d, c) \in Daemons /\ Peer(Peer(d, c), c) = d
  BY <1>1, PeerIsOther
<1>3. LocalNames(d) \subseteq owned[d]
  BY DEF Origin, NodesOwned, LocalNames
<1>4. mail' = [mail EXCEPT ![x] = Append(mail[x], LocalNames(d))]
  BY DEF Gossip
<1>5. ends' = ends /\ owned' = owned
  BY DEF Gossip
<1>6. mail \in [End -> Seq(SUBSET Hosts)] /\ LocalNames(d) \in SUBSET Hosts
  BY DEF Origin, MeshShape, MeshTypeOK, LocalNames
<1>0. \A e, b : Peer(e, b)' = Peer(e, b)
  BY <1>5 DEF Peer
<1> SUFFICES ASSUME NEW e \in Daemons, NEW b \in Conns, mail'[<<e, b>>] # <<>>
             PROVE  /\ ends[b] # {}
                    /\ \A i \in DOMAIN mail'[<<e, b>>] :
                         mail'[<<e, b>>][i] \subseteq owned[Peer(e, b)]
  BY <1>0, <1>5 DEF MailOwned
<1>7. CASE <<e, b>> = x
  <2>1. e = Peer(d, c) /\ b = c
    BY <1>7
  <2>2. Peer(e, b) = d
    BY <1>2, <2>1
  <2> DEFINE m == mail[x]
             l == LocalNames(d)
  <2>3. m \in Seq(SUBSET Hosts)
    BY <1>2, <1>6 DEF End
  <2>4. mail'[<<e, b>>] = Append(m, l)
    BY <1>2, <1>4, <1>6, <1>7 DEF End
  <2>5. \A i \in DOMAIN m : m[i] \subseteq owned[d]
    <3>1. CASE m = <<>>
      BY <3>1
    <3>2. CASE m # <<>>
      BY <1>2, <3>2 DEF Origin, MailOwned
    <3> QED
      BY <3>1, <3>2
  <2> HIDE DEF m, l
  <2>6. \A i \in DOMAIN Append(m, l) : Append(m, l)[i] = l \/
          (i \in DOMAIN m /\ Append(m, l)[i] = m[i])
    BY <1>6, <2>3 DEF l
  <2>7. l \subseteq owned[d]
    BY <1>3 DEF l
  <2> QED
    BY <1>1, <2>1, <2>2, <2>4, <2>5, <2>6, <2>7
<1>8. CASE <<e, b>> # x
  <2>1. mail'[<<e, b>>] = mail[<<e, b>>]
    BY <1>4, <1>6, <1>8 DEF End
  <2> QED
    BY <2>1 DEF Origin, MailOwned
<1> QED
  BY <1>7, <1>8

\* An entry that is read is a name that a node of the peer has had.
LEMMA EntryOwned ==
  ASSUME Origin, NEW d \in Daemons, NEW c \in Conns, NEW h \in Hosts,
         mail[<<d, c>>] # <<>>, h \in Head(mail[<<d, c>>]),
         mail' = [mail EXCEPT ![<<d, c>>] = Handled(mail[<<d, c>>], h)],
         ends' = ends, owned' = owned
  PROVE  /\ ends[c] # {} /\ h \in owned[Peer(d, c)]
         /\ MailOwned'
<1> DEFINE m == mail[<<d, c>>]
<1>1. m \in Seq(SUBSET Hosts) /\ mail \in [End -> Seq(SUBSET Hosts)]
  BY DEF Origin, MeshShape, MeshTypeOK, End
<1>2. ends[c] # {} /\ \A i \in DOMAIN m : m[i] \subseteq owned[Peer(d, c)]
  BY DEF Origin, MailOwned
<1>3. 1 \in DOMAIN m /\ Head(m) = m[1]
  BY <1>1
<1>4. h \in owned[Peer(d, c)]
  BY <1>2, <1>3
<1>5. \A i \in DOMAIN Handled(m, h) : Handled(m, h)[i] \subseteq owned[Peer(d, c)]
  BY <1>1, <1>2, HandledShrinks
<1>6. ASSUME NEW e \in Daemons, NEW b \in Conns, mail'[<<e, b>>] # <<>>
      PROVE  /\ mail[<<e, b>>] # <<>>
             /\ \A i \in DOMAIN mail'[<<e, b>>] :
                  mail'[<<e, b>>][i] \subseteq owned[Peer(e, b)]
  <2>1. CASE <<e, b>> = <<d, c>>
    <3>1. mail'[<<e, b>>] = Handled(m, h) /\ e = d /\ b = c
      BY <1>1, <2>1 DEF End
    <3> QED
      BY <1>5, <3>1
  <2>2. CASE <<e, b>> # <<d, c>>
    <3>1. mail'[<<e, b>>] = mail[<<e, b>>]
      BY <1>1, <2>2 DEF End
    <3> QED
      BY <1>6, <3>1 DEF Origin, MailOwned
  <2> QED
    BY <2>1, <2>2
<1>7. Grows
  BY DEF Grows
<1>8. MailOwned'
  BY <1>6, <1>7, MailKept
<1> QED
  BY <1>2, <1>4, <1>8

\* Every step keeps names, gossip and forwarders traced to a node.
LEMMA OriginStep ==
  ASSUME Origin, [MeshNext]_meshVars
  PROVE  Origin'
<1>0. /\ MeshShape' /\ NodesOwned
      /\ name \in [Daemons -> [Hosts -> {"node", "mesh", "none"}]]
      /\ fwd \in [Daemons -> [Hosts -> Conns \cup {NoConn}]]
      /\ owned \in [Daemons -> SUBSET Hosts]
      /\ mail \in [End -> Seq(SUBSET Hosts)]
      /\ ends \in [Conns -> SUBSET Daemons]
  BY ShapeStep DEF Origin, MeshShape, MeshTypeOK
<1>1. ASSUME NEW d \in Daemons, NEW h \in Hosts, NameComes(d, h)
      PROVE  Origin'
  <2>1. Grows
    BY <1>0, <1>1 DEF Grows, NameComes
  <2>2. FwdMade' /\ NamesHaveOrigin'
    BY <1>1, <2>1, ForwardersKept DEF NameComes
  <2>3. MailOwned'
    BY <1>1, <2>1, MailUntouched DEF NameComes
  <2>4. ASSUME NEW e \in Daemons, NEW g \in Hosts, name'[e][g] = "node"
        PROVE  g \in owned'[e]
    <3>1. CASE e = d /\ g = h
      BY <1>0, <1>1, <3>1 DEF NameComes
    <3>2. CASE ~(e = d /\ g = h)
      <4>1. name'[e][g] = name[e][g]
        BY <1>0, <1>1, <3>2 DEF NameComes
      <4> QED
        BY <1>0, <2>1, <2>4, <4>1 DEF NodesOwned, Grows
    <3> QED
      BY <3>1, <3>2
  <2> QED
    BY <1>0, <2>2, <2>3, <2>4 DEF Origin, NodesOwned
<1>2. ASSUME NEW d \in Daemons, NEW h \in Hosts, NameGoes(d, h)
      PROVE  Origin'
  <2>1. Grows
    BY <1>2 DEF Grows, NameGoes
  <2>2. FwdMade' /\ NamesHaveOrigin'
    BY <1>2, <2>1, ForwardersKept DEF NameGoes
  <2>3. MailOwned'
    BY <1>2, <2>1, MailUntouched DEF NameGoes
  <2>4. \A e \in Daemons, g \in Hosts :
          name'[e][g] = name[e][g] \/ name'[e][g] = "none"
    BY <1>0, <1>2 DEF NameGoes
  <2>5. owned' = owned
    BY <1>2 DEF NameGoes
  <2> QED
    BY <1>0, <2>2, <2>3, <2>4, <2>5 DEF Origin, NodesOwned
<1>3. ASSUME NEW d \in Daemons, NEW p \in Daemons, NEW c \in Conns,
             Handshake(d, p, c)
      PROVE  Origin'
  <2>1. Grows
    BY <1>0, <1>3 DEF Grows, Handshake
  <2>2. FwdMade' /\ NamesHaveOrigin'
    BY <1>3, <2>1, ForwardersKept DEF Handshake
  <2>3. MailOwned'
    BY <1>3, <2>1, MailUntouched DEF Handshake
  <2> QED
    BY <1>0, <1>3, <2>2, <2>3 DEF Origin, NodesOwned, Handshake
<1>4. ASSUME NEW d \in Daemons, NEW p \in Daemons, DropForwarders(d, p)
      PROVE  Origin'
  <2>1. Grows
    BY <1>4 DEF Grows, DropForwarders
  <2>2. \A e \in Daemons, g \in Hosts :
          fwd'[e][g] = fwd[e][g] \/ fwd'[e][g] = NoConn
    BY <1>0, <1>4 DEF DropForwarders
  <2>3. FwdMade' /\ NamesHaveOrigin'
    BY <2>1, <2>2, ForwardersKept
  <2>4. MailOwned'
    BY <1>4, <2>1, MailUntouched DEF DropForwarders
  <2>5. \A e \in Daemons, g \in Hosts :
          name'[e][g] = name[e][g] \/ name'[e][g] = "none"
    BY <1>0, <1>4 DEF DropForwarders, Unregistered
  <2>6. owned' = owned
    BY <1>4 DEF DropForwarders
  <2> QED
    BY <1>0, <2>3, <2>4, <2>5, <2>6 DEF Origin, NodesOwned
<1>5. ASSUME NEW d \in Daemons, NEW c \in Conns, ReaderEnds(d, c)
      PROVE  Origin'
  <2>1. Grows
    BY <1>5 DEF Grows, ReaderEnds
  <2>2. FwdMade' /\ NamesHaveOrigin'
    BY <1>5, <2>1, ForwardersKept DEF ReaderEnds
  <2>3. \A e \in Daemons, b \in Conns :
          mail'[<<e, b>>] \in {mail[<<e, b>>], <<>>}
    BY <1>0, <1>5 DEF ReaderEnds, End
  <2>4. MailOwned'
    BY <2>1, <2>3, MailUntouched
  <2> QED
    BY <1>0, <1>5, <2>2, <2>4 DEF Origin, NodesOwned, ReaderEnds
<1>6. ASSUME NEW d \in Daemons, NEW c \in Conns, Gossip(d, c)
      PROVE  Origin'
  <2>1. Grows
    BY <1>6 DEF Grows, Gossip
  <2>2. FwdMade' /\ NamesHaveOrigin'
    BY <1>6, <2>1, ForwardersKept DEF Gossip
  <2>3. MailOwned'
    BY <1>6, GossipOwned
  <2> QED
    BY <1>0, <1>6, <2>2, <2>3 DEF Origin, NodesOwned, Gossip
<1>7. ASSUME NEW d \in Daemons, NEW c \in Conns, NEW h \in Hosts,
             EntryIgnored(d, c, h) \/ EntryUnbound(d, c, h)
      PROVE  Origin'
  <2>1. Grows
    BY <1>7 DEF Grows, EntryIgnored, EntryUnbound
  <2>2. FwdMade' /\ NamesHaveOrigin'
    BY <1>7, <2>1, ForwardersKept DEF EntryIgnored, EntryUnbound
  <2>3. MailOwned'
    BY <1>7, EntryOwned DEF EntryIgnored, EntryUnbound
  <2> QED
    BY <1>0, <1>7, <2>2, <2>3
    DEF Origin, NodesOwned, EntryIgnored, EntryUnbound
<1>8. ASSUME NEW d \in Daemons, NEW c \in Conns, NEW h \in Hosts,
             EntryTaken(d, c, h)
      PROVE  Origin'
  <2>1. ends[c] # {} /\ h \in owned[Peer(d, c)] /\ MailOwned'
    BY <1>8, EntryOwned DEF EntryTaken
  <2>2. Grows /\ ends' = ends /\ owned' = owned
    BY <1>8 DEF Grows, EntryTaken
  <2>3. CASE fwd[d][h] # NoConn
    <3>1. name' = name /\ fwd' = fwd
      BY <1>8, <2>3 DEF EntryTaken
    <3>2. FwdMade' /\ NamesHaveOrigin'
      BY <2>2, <3>1, ForwardersKept
    <3> QED
      BY <1>0, <2>1, <2>2, <3>1, <3>2 DEF Origin, NodesOwned
  <2>4. CASE fwd[d][h] = NoConn
    <3>1. /\ fwd' = [fwd EXCEPT ![d][h] = c]
          /\ name' = [name EXCEPT ![d][h] = "mesh"]
      BY <1>8, <2>4 DEF EntryTaken
    <3>2. \A e, b : Peer(e, b)' = Peer(e, b)
      BY <2>2 DEF Peer
    <3>3. ASSUME NEW e \in Daemons, NEW g \in Hosts, fwd'[e][g] # NoConn
          PROVE  ends[fwd'[e][g]] # {} /\ g \in owned[Peer(e, fwd'[e][g])]
      <4>1. CASE e = d /\ g = h
        <5>1. fwd'[e][g] = c
          BY <1>0, <3>1, <4>1
        <5> QED
          BY <2>1, <4>1, <5>1
      <4>2. CASE ~(e = d /\ g = h)
        <5>1. fwd'[e][g] = fwd[e][g]
          BY <1>0, <3>1, <4>2
        <5> QED
          BY <3>3, <5>1 DEF Origin, FwdMade, NamesHaveOrigin, PeerOf
      <4> QED
        BY <4>1, <4>2
    <3>4. FwdMade' /\ NamesHaveOrigin'
      BY <2>2, <3>2, <3>3 DEF FwdMade, NamesHaveOrigin, PeerOf
    <3>5. \A e \in Daemons, g \in Hosts :
            name'[e][g] = name[e][g] \/ name'[e][g] = "mesh"
      BY <1>0, <3>1
    <3> QED
      BY <1>0, <2>1, <2>2, <3>4, <3>5 DEF Origin, NodesOwned
  <2> QED
    BY <2>3, <2>4
<1>9. ASSUME NEW d \in Daemons, DaemonRestarts(d)
      PROVE  Origin'
  <2>1. Grows
    BY <1>9 DEF Grows, DaemonRestarts
  <2>2. \A e \in Daemons, g \in Hosts :
          /\ fwd'[e][g] = fwd[e][g] \/ fwd'[e][g] = NoConn
          /\ name'[e][g] = name[e][g] \/ name'[e][g] = "none"
    BY <1>0, <1>9 DEF DaemonRestarts
  <2>3. FwdMade' /\ NamesHaveOrigin'
    BY <2>1, <2>2, ForwardersKept
  <2>4. \A e \in Daemons, b \in Conns :
          mail'[<<e, b>>] \in {mail[<<e, b>>], <<>>}
    BY <1>0, <1>9 DEF DaemonRestarts, End
  <2>5. MailOwned'
    BY <2>1, <2>4, MailUntouched
  <2>6. owned' = owned
    BY <1>9 DEF DaemonRestarts
  <2> QED
    BY <1>0, <2>2, <2>3, <2>5, <2>6 DEF Origin, NodesOwned
<1>10. ASSUME UNCHANGED <<name, fwd, ends, mail, owned>>
       PROVE  Origin'
  <2>1. Grows
    BY <1>10 DEF Grows
  <2>2. FwdMade' /\ NamesHaveOrigin'
    BY <1>10, <2>1, ForwardersKept
  <2>3. MailOwned'
    BY <1>10, <2>1, MailUntouched
  <2> QED
    BY <1>0, <1>10, <2>2, <2>3 DEF Origin, NodesOwned
<1>11. ASSUME NEW d \in Daemons, NEW p \in Daemons,
              \/ PeerGone(d, p) \/ Disconnect(d, p)
              \/ \E c \in Conns : Tabled(d, c) \/ LinkBreaks(c)
       PROVE  Origin'
  BY <1>10, <1>11 DEF PeerGone, Disconnect, Tabled, LinkBreaks
<1>12. ASSUME NEW c \in Conns, LinkBreaks(c)
       PROVE  Origin'
  BY <1>10, <1>12 DEF LinkBreaks
<1>13. ASSUME UNCHANGED meshVars
       PROVE  Origin'
  BY <1>10, <1>13 DEF meshVars
<1> QED
  BY <1>1, <1>2, <1>3, <1>4, <1>5, <1>6, <1>7, <1>8, <1>9, <1>11, <1>12,
     <1>13 DEF MeshNext

\* A forwarder points to a daemon at which a node has had its name, for any
\* number of daemons, names and connections (local_gossip_entries,
\* handle_incoming).
THEOREM ForwardersHaveOrigin == MeshSpec => []NamesHaveOrigin
<1>1. Origin => NamesHaveOrigin
  BY DEF Origin
<1> QED
  BY <1>1, OriginInit, OriginStep, PTL DEF MeshSpec

---------------------------------------------------------------------------
(* One-time join codes.                                                    *)

\* The codes that OneTimeOnce is about.
Guarded == {c \in Codes : 0 < Ttl[c] /\ Ttl[c] < Window /\ c \notin crowded}

\* Attempts under way and successes with such a code are one at most, and
\* none while it is valid and its nonce is not recorded.
CodeInv ==
  /\ CodeTypeOK
  /\ \A c \in Guarded :
       /\ trying[c] + joined[c] <= 1
       /\ nonces[c] = Unused /\ clock <= Ttl[c] =>
            trying[c] = 0 /\ joined[c] = 0

\* No code has been handed out at first.
LEMMA CodeInvInit == CodeInit => CodeInv
BY CodesAssumption DEF CodeInit, CodeInv, CodeTypeOK, Guarded

\* A nonce that the eviction takes from a valid code, the limit has taken.
LEMMA EvictedWhy ==
  ASSUME CodeInv, NEW s \in Newest, NEW c \in Guarded, clock <= Ttl[c],
         nonces[c] # Unused, c \notin s
  PROVE  c \in Young \ s
<1>1. c \in Codes /\ clock \in Nat /\ nonces[c] \in Nat /\ Ttl[c] \in Nat
  BY CodesAssumption DEF CodeInv, CodeTypeOK, Guarded
<1>2. clock - nonces[c] < Window
  BY <1>1, CodesAssumption DEF Guarded
<1> QED
  BY <1>1, <1>2 DEF Young, Recorded

\* Every step keeps the account of what each code has let in.
LEMMA CodeStep ==
  ASSUME CodeInv, [CodeNext]_codeVars
  PROVE  CodeInv'
<1>0. /\ Ttl \in [Codes -> Nat] /\ Unused \notin Nat /\ MaxClock \in Nat
      /\ MaxTries \in Nat /\ CodeTypeOK
  BY CodesAssumption DEF CodeInv
<1>1. ASSUME CodeClockTicks PROVE CodeInv'
  <2>1. clock \in Nat /\ clock' = clock + 1
    BY <1>0, <1>1 DEF CodeClockTicks, CodeTypeOK
  <2>2. CodeTypeOK'
    BY <1>0, <1>1 DEF CodeClockTicks, CodeTypeOK
  <2>3. Guarded' = Guarded
    BY <1>1 DEF CodeClockTicks, Guarded
  <2>4. \A c \in Guarded : clock' <= Ttl[c] => clock <= Ttl[c]
    BY <1>0, <2>1 DEF Guarded
  <2> QED
    BY <1>1, <2>2, <2>3, <2>4 DEF CodeClockTicks, CodeInv
<1>2. ASSUME JoinerRestarts PROVE CodeInv'
  BY <1>0, <1>2 DEF JoinerRestarts, CodeInv, CodeTypeOK, Guarded
<1>3. ASSUME NEW d \in Codes, JoinBegins(d) PROVE CodeInv'
  <2>1. PICK s \in Newest :
          /\ d \notin s
          /\ nonces' = [Only(s) EXCEPT ![d] = clock]
          /\ crowded' = crowded \cup (Young \ s)
    BY <1>3 DEF JoinBegins
  <2>2. /\ ~Expired(d) /\ trying[d] < MaxTries
        /\ trying' = [trying EXCEPT ![d] = @ + 1]
        /\ clock' = clock /\ joined' = joined
    BY <1>3 DEF JoinBegins
  <2>3. CodeTypeOK'
    BY <1>0, <2>1, <2>2 DEF CodeTypeOK, Only, Young, Recorded
  <2>4. Guarded' \subseteq Guarded
    BY <2>1 DEF Guarded
  <2>5. ASSUME NEW c \in Guarded'
        PROVE  /\ (trying[c] + joined[c] <= 1)'
               /\ (nonces[c] = Unused /\ clock <= Ttl[c])' =>
                    (trying[c] = 0 /\ joined[c] = 0)'
    <3>1. c \in Codes /\ c \in Guarded /\ c \notin Young \ s
      BY <2>1, <2>4 DEF Guarded
    <3>2. CASE c = d
      <4>1. clock <= Ttl[c] /\ clock \in Nat
        BY <1>0, <2>2, <3>1, <3>2 DEF Expired, Guarded, CodeTypeOK
      <4>2. nonces[c] = Unused
        BY <2>1, <3>1, <3>2, <4>1, EvictedWhy
      <4>3. trying[c] = 0 /\ joined[c] = 0
        BY <3>1, <4>1, <4>2 DEF CodeInv
      <4>4. trying'[c] = 1 /\ joined'[c] = 0
        BY <1>0, <2>2, <3>1, <3>2, <4>3 DEF CodeTypeOK
      <4>5. nonces'[c] = clock
        BY <2>1, <3>1, <3>2 DEF Only
      <4> QED
        BY <1>0, <4>1, <4>4, <4>5
    <3>3. CASE c # d
      <4>1. trying'[c] = trying[c] /\ joined'[c] = joined[c]
        BY <1>0, <2>2, <3>1, <3>3 DEF CodeTypeOK
      <4>2. nonces'[c] = IF c \in s THEN nonces[c] ELSE Unused
        BY <2>1, <3>1, <3>3 DEF Only
      <4>3. clock <= Ttl[c] /\ nonces'[c] = Unused => nonces[c] = Unused
        BY <3>1, <4>2, EvictedWhy
      <4> QED
        BY <2>2, <3>1, <4>1, <4>3 DEF CodeInv
    <3> QED
      BY <3>2, <3>3
  <2> QED
    BY <2>3, <2>5 DEF CodeInv
<1>4. ASSUME NEW d \in Codes, JoinRefused(d) PROVE CodeInv'
  <2>1. PICK s \in Newest :
          nonces' = Only(s) /\ crowded' = crowded \cup (Young \ s)
    BY <1>4 DEF JoinRefused, AfterRefusal
  <2>2. UNCHANGED <<clock, trying, joined>>
    BY <1>4 DEF JoinRefused
  <2>3. CodeTypeOK'
    BY <1>0, <2>1, <2>2 DEF CodeTypeOK, Only, Young, Recorded
  <2>4. ASSUME NEW c \in Guarded'
        PROVE  /\ c \in Guarded
               /\ nonces'[c] = Unused /\ clock <= Ttl[c] => nonces[c] = Unused
    <3>1. c \in Codes /\ c \in Guarded /\ c \notin Young \ s
      BY <2>1 DEF Guarded
    <3>2. nonces'[c] = IF c \in s THEN nonces[c] ELSE Unused
      BY <2>1, <3>1 DEF Only
    <3> QED
      BY <3>1, <3>2, EvictedWhy
  <2> QED
    BY <2>2, <2>3, <2>4 DEF CodeInv
<1>5. ASSUME NEW d \in Codes, JoinFails(d) PROVE CodeInv'
  <2>1. /\ trying[d] > 0 /\ trying' = [trying EXCEPT ![d] = @ - 1]
        /\ nonces' = [nonces EXCEPT ![d] = Unused]
        /\ UNCHANGED <<clock, joined, crowded>>
    BY <1>5 DEF JoinFails
  <2>2. CodeTypeOK'
    BY <1>0, <2>1 DEF CodeTypeOK
  <2>3. Guarded' = Guarded
    BY <2>1 DEF Guarded
  <2>4. ASSUME NEW c \in Guarded
        PROVE  /\ trying'[c] + joined[c] <= 1
               /\ nonces'[c] = Unused /\ clock <= Ttl[c] =>
                    trying'[c] = 0 /\ joined[c] = 0
    <3>1. c \in Codes /\ trying[c] \in Nat /\ joined[c] \in Nat
      BY <1>0 DEF Guarded, CodeTypeOK
    <3>2. trying[c] + joined[c] <= 1
      BY DEF CodeInv
    <3>3. CASE c = d
      <4>1. trying'[c] = trying[c] - 1
        BY <1>0, <2>1, <3>1, <3>3 DEF CodeTypeOK
      <4> QED
        BY <2>1, <3>1, <3>2, <3>3, <4>1
    <3>4. CASE c # d
      <4>1. trying'[c] = trying[c] /\ nonces'[c] = nonces[c]
        BY <1>0, <2>1, <3>1, <3>4 DEF CodeTypeOK
      <4> QED
        BY <3>2, <4>1 DEF CodeInv
    <3> QED
      BY <3>3, <3>4
  <2> QED
    BY <2>1, <2>2, <2>3, <2>4 DEF CodeInv
<1>6. ASSUME NEW d \in Codes, JoinSucceeds(d) PROVE CodeInv'
  <2>1. /\ trying[d] > 0 /\ trying' = [trying EXCEPT ![d] = @ - 1]
        /\ joined' = [joined EXCEPT ![d] = IF @ < 2 THEN @ + 1 ELSE 2]
        /\ UNCHANGED <<clock, nonces, crowded>>
    BY <1>6 DEF JoinSucceeds
  <2>2. CodeTypeOK'
    BY <1>0, <2>1 DEF CodeTypeOK
  <2>3. Guarded' = Guarded
    BY <2>1 DEF Guarded
  <2>4. ASSUME NEW c \in Guarded
        PROVE  /\ trying'[c] + joined'[c] <= 1
               /\ nonces[c] = Unused /\ clock <= Ttl[c] =>
                    trying'[c] = 0 /\ joined'[c] = 0
    <3>1. c \in Codes /\ trying[c] \in Nat /\ joined[c] \in Nat
      BY <1>0 DEF Guarded, CodeTypeOK
    <3>2. /\ trying[c] + joined[c] <= 1
          /\ nonces[c] = Unused /\ clock <= Ttl[c] => trying[c] = 0
      BY DEF CodeInv
    <3>3. CASE c = d
      <4>1. trying[c] = 1 /\ joined[c] = 0
        BY <2>1, <3>1, <3>2, <3>3
      <4>2. trying'[c] = 0 /\ joined'[c] = 1
        BY <1>0, <2>1, <3>1, <3>3, <4>1 DEF CodeTypeOK
      <4> QED
        BY <3>2, <4>1, <4>2
    <3>4. CASE c # d
      <4>1. trying'[c] = trying[c] /\ joined'[c] = joined[c]
        BY <1>0, <2>1, <3>1, <3>4 DEF CodeTypeOK
      <4> QED
        BY <4>1 DEF CodeInv
    <3> QED
      BY <3>3, <3>4
  <2> QED
    BY <2>1, <2>2, <2>3, <2>4 DEF CodeInv
<1>7. ASSUME UNCHANGED codeVars PROVE CodeInv'
  BY <1>7 DEF codeVars, CodeInv, CodeTypeOK, Guarded
<1> QED
  BY <1>1, <1>2, <1>3, <1>4, <1>5, <1>6, <1>7 DEF CodeNext

\* A one-time code that expires before its nonce is evicted connects once, for
\* any number of codes, attempts and times (connect_to_peer).
THEOREM CodesConnectOnce == CodeSpec => []OneTimeOnce
<1>1. CodeInv => OneTimeOnce
  <2> SUFFICES ASSUME CodeInv, NEW c \in Guarded PROVE joined[c] <= 1
    BY DEF OneTimeOnce, Guarded
  <2>1. trying[c] \in Nat /\ joined[c] \in Nat /\ trying[c] + joined[c] <= 1
    BY CodesAssumption DEF CodeInv, CodeTypeOK, Guarded
  <2> QED
    BY <2>1
<1> QED
  BY <1>1, CodeInvInit, CodeStep, PTL DEF CodeSpec

---------------------------------------------------------------------------
(* Saved templates are listed.                                             *)

\* Nothing has happened that SavedAreListed excepts.
Calm == ~mixed /\ ~refused

\* While no calls of two clients have met, one client at most is busy.
OneBusy == ~mixed => \A c, d \in Clients : Busy(c) /\ Busy(d) => c = d

\* What a request that is next will do to the templates is right.
Harmless(r) ==
  /\ r.kind = "write" => saved \subseteq r.names /\ r.names \subseteq stored
  /\ r.kind = "clear" => r.name \notin index

HarmlessNext(r) ==
  /\ r.kind = "write" => saved' \subseteq r.names /\ r.names \subseteq stored'
  /\ r.kind = "clear" => r.name \notin index'

\* Only the first of a session's requests can be one that follows another.
FirstsWait(c) ==
  \A i \in 2 .. Len(requests[c]) : requests[c][i].kind \in {"put", "read"}

\* A call waits for its last request, or has its answer.
CallWaits(c) ==
  /\ answer[c] # NoAnswer => calls[c] # NoCall /\ requests[c] = <<>>
  /\ calls[c] # NoCall /\ answer[c] = NoAnswer =>
       /\ requests[c] # <<>>
       /\ requests[c][Len(requests[c])] = RequestOf(calls[c])
       /\ calls[c].at > 1 => Len(requests[c]) = 1

\* How far a call has come.
CallTrue(c) ==
  LET k == calls[c] IN
    k # NoCall =>
      /\ k.op = "save" /\ k.at > 1 => k.name \in stored
      /\ k.op = "save" /\ k.at = 3 => k.name \in k.names
      /\ k.op = "delete" => k.name \notin saved
      /\ k.op = "delete" /\ k.at > 1 => k.name \notin k.names
      /\ k.op = "delete" /\ k.at = 3 => k.name \notin index

\* What an answer tells is still true.
AnswerTrue(c) ==
  LET k == calls[c] IN
    /\ answer[c].kind = "ack" =>
         /\ Step(k) # "read"
         /\ Step(k) = "value" /\ k.op = "save" => k.name \in stored
         /\ Step(k) = "write" => index = k.names
    /\ answer[c].kind = "names" => Step(k) = "read" /\ answer[c].names = index

\* The index and the values, and what each client has under way.
Listed == saved \subseteq index /\ index \subseteq stored

Right(c) ==
  /\ requests[c] # <<>> => Harmless(requests[c][1])
  /\ CallTrue(c) /\ AnswerTrue(c)

TemplatesInv ==
  /\ TemplatesTypeOK
  /\ OneBusy
  /\ \A c \in Clients : FirstsWait(c) /\ CallWaits(c)
  /\ Calm => Listed /\ \A c \in Clients : Right(c)

\* The requests of a call, in their order.
LEMMA StepsInOrder ==
  ASSUME NEW k \in Calls
  PROVE  /\ k.op = "save" => /\ k.at = 1 => Step(k) = "value"
                             /\ k.at = 2 => Step(k) = "read"
                             /\ k.at = 3 => Step(k) = "write"
         /\ k.op = "delete" => /\ k.at = 1 => Step(k) = "read"
                               /\ k.at = 2 => Step(k) = "write"
                               /\ k.at = 3 => Step(k) = "value"
         /\ k.at \in 1 .. 3 /\ k.op \in {"save", "delete"}
  BY DEF Calls, Step, Steps

\* A request is one of Requests.
LEMMA RequestsTyped ==
  ASSUME NEW k \in Calls PROVE RequestOf(k) \in Requests
  BY DEF RequestOf, Requests, Calls

\* What a step of a call changes: its client's cells, in this way.
LEMMA RequestedCells ==
  ASSUME TemplatesTypeOK, NEW c \in Clients, NEW k \in Calls, Requested(c, k)
  PROVE  /\ requests'[c] = Append(requests[c], RequestOf(k))
         /\ calls'[c] = k /\ answer'[c] = NoAnswer
         /\ \A d \in Clients \ {c} : /\ requests'[d] = requests[d]
                                     /\ calls'[d] = calls[d]
                                     /\ answer'[d] = answer[d]
         /\ requests' \in [Clients -> Seq(Requests)]
         /\ \A d \in Clients : Len(requests'[d]) <= SendRoom
         /\ answer' \in [Clients -> Replies]
         /\ calls' \in [Clients -> Calls \cup {NoCall}]
<1>1. RequestOf(k) \in Requests
  BY RequestsTyped
<1>2. NoAnswer \in Replies
  BY DEF NoAnswer, Replies
<1>3. requests[c] \in Seq(Requests)
  BY DEF TemplatesTypeOK
<1>4. /\ Append(requests[c], RequestOf(k)) \in Seq(Requests)
      /\ Len(Append(requests[c], RequestOf(k))) = Len(requests[c]) + 1
      /\ Len(requests[c]) \in Nat
  BY <1>1, <1>3
<1> QED
  BY <1>2, <1>4, ClientsAssumption DEF Requested, TemplatesTypeOK

\* What the handling of a request changes.
LEMMA AnsweredCells ==
  ASSUME TemplatesTypeOK, NEW c \in Clients, NEW m \in Replies,
         requests[c] # <<>>, Answered(c, m)
  PROVE  /\ requests'[c] = Tail(requests[c])
         /\ answer'[c] = IF calls[c] # NoCall /\ Len(requests[c]) = 1
                           THEN m ELSE answer[c]
         /\ \A d \in Clients \ {c} : /\ requests'[d] = requests[d]
                                     /\ answer'[d] = answer[d]
         /\ requests' \in [Clients -> Seq(Requests)]
         /\ \A d \in Clients : Len(requests'[d]) <= SendRoom
         /\ answer' \in [Clients -> Replies]
<1>1. requests[c] \in Seq(Requests)
  BY DEF TemplatesTypeOK
<1>2. /\ Tail(requests[c]) \in Seq(Requests)
      /\ Len(Tail(requests[c])) = Len(requests[c]) - 1
      /\ Len(requests[c]) \in Nat
  BY <1>1
<1> QED
  BY <1>2, ClientsAssumption DEF Answered, TemplatesTypeOK

\* Nothing is stored, sent or saved at first.
LEMMA TemplatesInvInit == TemplatesInit => TemplatesInv
<1> SUFFICES ASSUME TemplatesInit PROVE TemplatesInv
  OBVIOUS
<1>1. \A c \in Clients : /\ requests[c] = <<>> /\ calls[c] = NoCall
                         /\ answer[c] = NoAnswer
  BY DEF TemplatesInit
<1>2. TemplatesTypeOK
  <2>1. /\ requests \in [Clients -> Seq(Requests)]
        /\ \A c \in Clients : Len(requests[c]) <= SendRoom
    <3>1. <<>> \in Seq(Requests) /\ Len(<<>>) <= SendRoom
      BY ClientsAssumption
    <3> QED
      BY <1>1, <3>1 DEF TemplatesInit
  <2>2. NoAnswer \in Replies
    BY DEF NoAnswer, Replies
  <2> QED
    BY <2>1, <2>2 DEF TemplatesInit, TemplatesTypeOK
<1>3. OneBusy
  BY <1>1 DEF OneBusy, Busy
<1>4. \A c \in Clients : FirstsWait(c) /\ CallWaits(c)
  <2> SUFFICES ASSUME NEW c \in Clients PROVE FirstsWait(c) /\ CallWaits(c)
    OBVIOUS
  <2>1. Len(requests[c]) = 0
    BY <1>1
  <2> QED
    BY <1>1, <2>1 DEF FirstsWait, CallWaits
<1>5. \A c \in Clients : CallTrue(c) /\ AnswerTrue(c)
  <2>1. NoAnswer.kind = "none"
    BY DEF NoAnswer
  <2> QED
    BY <1>1, <2>1 DEF CallTrue, AnswerTrue
<1> QED
  BY <1>1, <1>2, <1>3, <1>4, <1>5
     DEF TemplatesInv, TemplatesInit, Listed, Right

\* A client that does nothing, and whose calls nobody waits for, breaks
\* nothing that is claimed of a client.
LEMMA IdleHolds ==
  ASSUME NEW c \in Clients, requests[c] = <<>>, calls[c] = NoCall,
         answer[c] = NoAnswer
  PROVE  Right(c)
<1>1. NoAnswer.kind = "none"
  BY DEF NoAnswer
<1> QED
  BY <1>1 DEF Right, CallTrue, AnswerTrue

\* While calls have not met, the other clients are idle when one is busy.
LEMMA OthersIdle ==
  ASSUME TemplatesInv, ~mixed, NEW c \in Clients, Busy(c)
  PROVE  \A d \in Clients \ {c} : /\ requests[d] = <<>> /\ calls[d] = NoCall
                                  /\ answer[d] = NoAnswer
  BY DEF TemplatesInv, OneBusy, Busy, CallWaits

\* An answer has the call under way, and its parts.
LEMMA AnsweredCall ==
  ASSUME TemplatesInv, NEW c \in Clients, answer[c].kind \in {"ack", "names"}
  PROVE  /\ calls[c] \in Calls /\ calls[c] # NoCall
         /\ requests[c] = <<>> /\ answer[c] # NoAnswer
         /\ Known(c) \in Calls
         /\ Known(c).op = calls[c].op /\ Known(c).name = calls[c].name
         /\ Known(c).at = calls[c].at /\ Step(Known(c)) = Step(calls[c])
<1>1. answer[c] # NoAnswer
  BY DEF NoAnswer
<1>2. calls[c] \in Calls /\ calls[c] # NoCall /\ requests[c] = <<>>
  BY <1>1 DEF TemplatesInv, TemplatesTypeOK, CallWaits
<1>3. answer[c].kind = "names" => answer[c].names \in SUBSET Templates
  BY DEF TemplatesInv, TemplatesTypeOK, Replies
<1> QED
  BY <1>1, <1>2, <1>3 DEF Known, Calls, Step

\* The call that goes on is a call, one step later.
LEMMA NextCall ==
  ASSUME TemplatesInv, NEW c \in Clients, CallGoesOn(c)
  PROVE  [op |-> Known(c).op, name |-> Known(c).name, at |-> Known(c).at + 1,
          names |-> Edited(Known(c))] \in Calls
<1>1. Known(c) \in Calls
  BY AnsweredCall DEF CallGoesOn
<1>2. Known(c).at \in 1 .. 3 /\ Known(c).at # 3
  BY <1>1 DEF CallGoesOn, Complete, Calls
<1>3. Edited(Known(c)) \in SUBSET Templates
  BY <1>1 DEF Edited, Calls
<1> QED
  BY <1>1, <1>2, <1>3 DEF Calls

\* What is sent and answered stays in its types.
LEMMA TemplatesTypeStep ==
  TemplatesInv /\ [TemplatesNext]_templateVars => TemplatesTypeOK'
<1> SUFFICES ASSUME TemplatesInv, [TemplatesNext]_templateVars
             PROVE  TemplatesTypeOK'
  OBVIOUS
<1>0. TemplatesTypeOK
  BY DEF TemplatesInv
<1>1. ASSUME NEW c \in Clients, NEW op \in {"save", "delete"},
             NEW n \in Templates, CallBegins(c, op, n)
      PROVE  TemplatesTypeOK'
  <2>1. [op |-> op, name |-> n, at |-> 1, names |-> {}] \in Calls
    BY DEF Calls
  <2>2. Requested(c, [op |-> op, name |-> n, at |-> 1, names |-> {}])
    BY <1>1 DEF CallBegins
  <2>3. /\ requests' \in [Clients -> Seq(Requests)]
        /\ \A d \in Clients : Len(requests'[d]) <= SendRoom
        /\ answer' \in [Clients -> Replies]
        /\ calls' \in [Clients -> Calls \cup {NoCall}]
    BY <1>0, <2>1, <2>2, RequestedCells
  <2> QED
    BY <1>0, <1>1, <2>3 DEF CallBegins, TemplatesTypeOK
<1>2. ASSUME NEW c \in Clients, CallGoesOn(c)
      PROVE  TemplatesTypeOK'
  <2> DEFINE k == [op |-> Known(c).op, name |-> Known(c).name,
                   at |-> Known(c).at + 1, names |-> Edited(Known(c))]
  <2>1. k \in Calls /\ Requested(c, k)
    BY <1>2, NextCall DEF CallGoesOn
  <2> HIDE DEF k
  <2>3. /\ requests' \in [Clients -> Seq(Requests)]
        /\ \A d \in Clients : Len(requests'[d]) <= SendRoom
        /\ answer' \in [Clients -> Replies]
        /\ calls' \in [Clients -> Calls \cup {NoCall}]
    BY <1>0, <2>1, RequestedCells
  <2> QED
    BY <1>0, <1>2, <2>3 DEF CallGoesOn, TemplatesTypeOK
<1>3. ASSUME NEW c \in Clients, CallOver(c), saved' \in SUBSET Templates
      PROVE  TemplatesTypeOK'
  <2>1. NoAnswer \in Replies
    BY DEF NoAnswer, Replies
  <2> QED
    BY <1>0, <1>3, <2>1 DEF CallOver, TemplatesTypeOK
<1>4. ASSUME NEW c \in Clients, CallSucceeds(c)
      PROVE  TemplatesTypeOK'
  <2>1. calls[c].name \in Templates
    BY <1>4, AnsweredCall DEF CallSucceeds, Calls
  <2> QED
    BY <1>0, <1>3, <1>4, <2>1 DEF CallSucceeds, TemplatesTypeOK
<1>5. ASSUME NEW c \in Clients, CallFails(c)
      PROVE  TemplatesTypeOK'
  BY <1>0, <1>3, <1>5 DEF CallFails, TemplatesTypeOK
<1>6. ASSUME NEW c \in Clients, requests[c] # <<>>
      PROVE  Head(requests[c]) \in Requests
  BY <1>0, <1>6 DEF TemplatesTypeOK
<1>7. ASSUME NEW c \in Clients, ReadHandled(c)
      PROVE  TemplatesTypeOK'
  <2>1. [kind |-> "names", names |-> index] \in Replies
    BY <1>0 DEF Replies, TemplatesTypeOK
  <2>2. /\ requests' \in [Clients -> Seq(Requests)]
        /\ \A d \in Clients : Len(requests'[d]) <= SendRoom
        /\ answer' \in [Clients -> Replies]
    BY <1>0, <1>7, <2>1, AnsweredCells DEF ReadHandled
  <2> QED
    BY <1>0, <1>7, <2>2 DEF ReadHandled, TemplatesTypeOK
<1>8. ASSUME NEW c \in Clients, NEW r \in Requests, r.kind # "read",
             Effect(r) \/ Loss(r) \/ UNCHANGED <<stored, index>>
      PROVE  stored' \in SUBSET Templates /\ index' \in SUBSET Templates
  BY <1>0, <1>8 DEF Effect, Loss, Requests, TemplatesTypeOK
<1>9. ASSUME NEW c \in Clients, SetHandled(c) \/ SetRefused(c)
      PROVE  TemplatesTypeOK'
  <2>1. [kind |-> "ack"] \in Replies /\ [kind |-> "error"] \in Replies
    BY DEF Replies
  <2>2. /\ requests' \in [Clients -> Seq(Requests)]
        /\ \A d \in Clients : Len(requests'[d]) <= SendRoom
        /\ answer' \in [Clients -> Replies]
    BY <1>0, <1>9, <2>1, AnsweredCells DEF SetHandled, SetRefused
  <2>3. stored' \in SUBSET Templates /\ index' \in SUBSET Templates
    BY <1>6, <1>8, <1>9 DEF SetHandled, SetRefused
  <2> QED
    BY <1>0, <1>9, <2>2, <2>3 DEF SetHandled, SetRefused, TemplatesTypeOK
<1>10. ASSUME NEW c \in Clients, SessionEnds(c)
       PROVE  TemplatesTypeOK'
  <2>1. NoAnswer \in Replies /\ <<>> \in Seq(Requests)
        /\ Len(<<>>) <= SendRoom
    BY ClientsAssumption DEF NoAnswer, Replies
  <2> QED
    BY <1>0, <1>10, <2>1 DEF SessionEnds, TemplatesTypeOK
<1>11. CASE UNCHANGED templateVars
  BY <1>0, <1>11 DEF templateVars, TemplatesTypeOK
<1> QED
  BY <1>1, <1>2, <1>4, <1>5, <1>7, <1>9, <1>10, <1>11 DEF TemplatesNext

\* The clients besides the one that takes a step keep their cells.
LEMMA OthersKept ==
  ASSUME TemplatesInv, NEW c \in Clients,
         \/ \E op \in {"save", "delete"}, n \in Templates : CallBegins(c, op, n)
         \/ CallGoesOn(c) \/ CallSucceeds(c) \/ CallFails(c)
         \/ ReadHandled(c) \/ SetHandled(c) \/ SetRefused(c) \/ SessionEnds(c)
  PROVE  \A d \in Clients \ {c} : /\ requests'[d] = requests[d]
                                  /\ calls'[d] = calls[d]
                                  /\ answer'[d] = answer[d]
  BY DEF TemplatesInv, TemplatesTypeOK, CallBegins, CallGoesOn, CallSucceeds,
     CallFails, CallOver, ReadHandled, SetHandled, SetRefused, SessionEnds,
     Requested, Answered

\* While no calls of two clients have met, one client at most is busy: only
\* the begin of a call makes a client busy, and it notices the others.
LEMMA OneBusyStep ==
  TemplatesInv /\ [TemplatesNext]_templateVars => OneBusy'
<1> SUFFICES ASSUME TemplatesInv, [TemplatesNext]_templateVars PROVE OneBusy'
  OBVIOUS
<1>1. CASE UNCHANGED templateVars
  BY <1>1 DEF templateVars, TemplatesInv, OneBusy, Busy
<1>2. ASSUME NEW c \in Clients, NEW op \in {"save", "delete"},
             NEW n \in Templates, CallBegins(c, op, n)
      PROVE  OneBusy'
  <2>1. \A d \in Clients \ {c} : Busy(d)' = Busy(d)
    BY <1>2, OthersKept DEF Busy
  <2>2. ~mixed' => \A d \in Clients \ {c} : ~Busy(d)
    BY <1>2 DEF CallBegins
  <2> QED
    BY <2>1, <2>2 DEF OneBusy
<1>3. ASSUME NEW c \in Clients,
             \/ CallGoesOn(c) \/ CallSucceeds(c) \/ CallFails(c)
             \/ ReadHandled(c) \/ SetHandled(c) \/ SetRefused(c)
             \/ SessionEnds(c)
      PROVE  OneBusy'
  <2>1. \A d \in Clients \ {c} : Busy(d)' = Busy(d)
    BY <1>3, OthersKept DEF Busy
  <2>2. Busy(c)
    BY <1>3, AnsweredCall DEF Busy, CallGoesOn, CallSucceeds, CallFails,
       ReadHandled, SetHandled, SetRefused, SessionEnds
  <2>3. mixed' = mixed
    BY <1>3 DEF CallGoesOn, CallSucceeds, CallFails, CallOver,
       ReadHandled, SetHandled, SetRefused, SessionEnds
  <2> QED
    BY <2>1, <2>2, <2>3 DEF OneBusy, TemplatesInv
<1> QED
  BY <1>1, <1>2, <1>3 DEF TemplatesNext

\* What a call sends comes last in its session's queue, and alone unless the
\* call begins.
LEMMA SentLast ==
  ASSUME TemplatesInv, NEW c \in Clients, NEW k \in Calls, Requested(c, k),
         k.at > 1 => requests[c] = <<>>,
         k.at = 1 => RequestOf(k).kind \in {"put", "read"}
  PROVE  FirstsWait(c)' /\ CallWaits(c)' /\ requests'[c] # <<>>
<1> DEFINE s == requests[c]
           r == RequestOf(k)
<1>1. s \in Seq(Requests) /\ r \in Requests
  BY RequestsTyped DEF TemplatesInv, TemplatesTypeOK
<1>2. requests'[c] = Append(s, r) /\ calls'[c] = k /\ answer'[c] = NoAnswer
  BY RequestedCells DEF TemplatesInv
<1> HIDE DEF s, r
<1>3. /\ Len(Append(s, r)) = Len(s) + 1 /\ Len(s) \in Nat
      /\ Append(s, r) # <<>> /\ Append(s, r)[Len(s) + 1] = r
      /\ \A i \in 1 .. Len(s) : Append(s, r)[i] = s[i]
      /\ s = <<>> => Len(s) = 0
  BY <1>1
<1>4. CallWaits(c)'
  BY <1>2, <1>3 DEF CallWaits, s, r
<1>5. \A i \in 2 .. Len(s) : s[i].kind \in {"put", "read"}
  BY DEF TemplatesInv, FirstsWait, s
<1>6. FirstsWait(c)'
  <2> SUFFICES ASSUME NEW i \in 2 .. Len(s) + 1
               PROVE  Append(s, r)[i].kind \in {"put", "read"}
    BY <1>2, <1>3 DEF FirstsWait
  <2>1. CASE i \in 2 .. Len(s)
    BY <1>3, <1>5, <2>1
  <2>2. CASE i = Len(s) + 1
    <3>1. s # <<>>
      BY <1>3, <2>2
    <3>2. k.at = 1
      BY <3>1, StepsInOrder DEF s
    <3> QED
      BY <1>3, <2>2, <3>2 DEF r
  <2> QED
    BY <1>3, <2>1, <2>2
<1> QED
  BY <1>2, <1>3, <1>4, <1>6

\* The first request of a call is a put or a read.
LEMMA FirstRequest ==
  ASSUME NEW k \in Calls, k.at = 1
  PROVE  RequestOf(k).kind \in {"put", "read"}
  BY StepsInOrder DEF RequestOf

\* A request handled leaves the rest waiting.
LEMMA RestWaits ==
  ASSUME TemplatesInv, NEW c \in Clients, NEW m \in Replies,
         m # NoAnswer, requests[c] # <<>>, Answered(c, m), calls' = calls
  PROVE  FirstsWait(c)' /\ CallWaits(c)'
<1> DEFINE s == requests[c]
<1>1. s \in Seq(Requests) /\ s # <<>>
  BY DEF TemplatesInv, TemplatesTypeOK
<1>2. /\ requests'[c] = Tail(s)
      /\ answer'[c] = IF calls[c] # NoCall /\ Len(s) = 1 THEN m ELSE answer[c]
  BY AnsweredCells DEF TemplatesInv
<1>3. answer[c] = NoAnswer
  BY <1>1 DEF TemplatesInv, CallWaits
<1>4. calls[c] # NoCall =>
        s[Len(s)] = RequestOf(calls[c]) /\ (calls[c].at > 1 => Len(s) = 1)
  BY <1>3 DEF TemplatesInv, CallWaits
<1>5. \A i \in 2 .. Len(s) : s[i].kind \in {"put", "read"}
  BY DEF TemplatesInv, FirstsWait
<1> HIDE DEF s
<1>6. /\ Len(Tail(s)) = Len(s) - 1 /\ Len(s) \in Nat \ {0}
      /\ \A i \in 1 .. Len(s) - 1 : Tail(s)[i] = s[i + 1]
  BY <1>1
<1>9. Len(s) = 1 <=> Tail(s) = <<>>
  <2>1. Tail(s) \in Seq(Requests) /\ Len(<<>>) = 0
    BY <1>1
  <2>2. Tail(s) = <<>> <=> Len(Tail(s)) = 0
    BY <2>1, EmptySeq
  <2> QED
    BY <1>6, <2>2
<1>7. FirstsWait(c)'
  BY <1>2, <1>5, <1>6 DEF FirstsWait
<1>8. CallWaits(c)'
  BY <1>2, <1>3, <1>4, <1>6, <1>9 DEF CallWaits
<1> QED
  BY <1>7, <1>8

\* Every call waits for its last request, or has its answer.
LEMMA WaitsStep ==
  TemplatesInv /\ [TemplatesNext]_templateVars =>
    \A c \in Clients : FirstsWait(c)' /\ CallWaits(c)'
<1> SUFFICES ASSUME TemplatesInv, [TemplatesNext]_templateVars
             PROVE  \A c \in Clients : FirstsWait(c)' /\ CallWaits(c)'
  OBVIOUS
<1>1. CASE UNCHANGED templateVars
  BY <1>1 DEF templateVars, TemplatesInv, FirstsWait, CallWaits
<1>2. ASSUME NEW c \in Clients,
             \/ \E op \in {"save", "delete"}, n \in Templates :
                  CallBegins(c, op, n)
             \/ CallGoesOn(c) \/ CallSucceeds(c) \/ CallFails(c)
             \/ ReadHandled(c) \/ SetHandled(c) \/ SetRefused(c)
             \/ SessionEnds(c)
      PROVE  \A d \in Clients : FirstsWait(d)' /\ CallWaits(d)'
  <2>1. \A d \in Clients \ {c} : FirstsWait(d)' /\ CallWaits(d)'
    BY <1>2, OthersKept DEF TemplatesInv, FirstsWait, CallWaits
  <2> SUFFICES FirstsWait(c)' /\ CallWaits(c)'
    BY <2>1
  <2>2. ASSUME NEW op \in {"save", "delete"}, NEW n \in Templates,
               CallBegins(c, op, n)
        PROVE  FirstsWait(c)' /\ CallWaits(c)'
    <3> DEFINE k == [op |-> op, name |-> n, at |-> 1, names |-> {}]
    <3>1. k \in Calls /\ Requested(c, k) /\ k.at = 1
      BY <2>2 DEF CallBegins, Calls
    <3> HIDE DEF k
    <3> QED
      BY <3>1, FirstRequest, SentLast
  <2>3. CASE CallGoesOn(c)
    <3> DEFINE k == [op |-> Known(c).op, name |-> Known(c).name,
                     at |-> Known(c).at + 1, names |-> Edited(Known(c))]
    <3>1. k \in Calls /\ Requested(c, k)
      BY <2>3, NextCall DEF CallGoesOn
    <3>2. requests[c] = <<>> /\ Known(c).at \in 1 .. 3
      BY <2>3, AnsweredCall DEF CallGoesOn, Calls
    <3>3. k.at # 1
      BY <3>2
    <3> HIDE DEF k
    <3> QED
      BY <3>1, <3>2, <3>3, SentLast
  <2>4. CASE CallSucceeds(c) \/ CallFails(c)
    BY <2>4 DEF CallSucceeds, CallFails, CallOver, TemplatesInv,
       TemplatesTypeOK, FirstsWait, CallWaits
  <2>5. CASE ReadHandled(c)
    <3>1. /\ [kind |-> "names", names |-> index] \in Replies
          /\ [kind |-> "names", names |-> index] # NoAnswer
      BY DEF Replies, NoAnswer, TemplatesInv, TemplatesTypeOK
    <3> QED
      BY <2>5, <3>1, RestWaits DEF ReadHandled
  <2>6. CASE SetHandled(c) \/ SetRefused(c)
    <3>1. /\ [kind |-> "ack"] \in Replies /\ [kind |-> "ack"] # NoAnswer
          /\ [kind |-> "error"] \in Replies /\ [kind |-> "error"] # NoAnswer
      BY DEF Replies, NoAnswer
    <3> QED
      BY <2>6, <3>1, RestWaits DEF SetHandled, SetRefused
  <2>7. CASE SessionEnds(c)
    <3>1. Len(<<>>) = 0
      OBVIOUS
    <3> QED
      BY <2>7, <3>1 DEF SessionEnds, TemplatesInv, TemplatesTypeOK,
         FirstsWait, CallWaits
  <2> QED
    BY <1>2, <2>2, <2>3, <2>4, <2>5, <2>6, <2>7
<1> QED
  BY <1>1, <1>2 DEF TemplatesNext

---------------------------------------------------------------------------
(* Each step keeps what is claimed of a calm store.                        *)

\* A call begins: a put or a read does no harm, and a delete has taken its
\* name out of saved.
LEMMA BeginsRight ==
  ASSUME TemplatesInv, Listed, NEW c \in Clients, Right(c),
         NEW op \in {"save", "delete"}, NEW n \in Templates,
         CallBegins(c, op, n)
  PROVE  Listed' /\ Right(c)'
<1> DEFINE k == [op |-> op, name |-> n, at |-> 1, names |-> {}]
           s == requests[c]
<1>1. k \in Calls /\ Requested(c, k) /\ k.at = 1
  BY DEF CallBegins, Calls
<1>2. s \in Seq(Requests) /\ RequestOf(k) \in Requests
  BY <1>1, RequestsTyped DEF TemplatesInv, TemplatesTypeOK
<1>3. requests'[c] = Append(s, RequestOf(k)) /\ calls'[c] = k
      /\ answer'[c] = NoAnswer
  <2> HIDE DEF k
  <2> QED
    BY <1>1, RequestedCells DEF TemplatesInv
<1>4. stored' = stored /\ index' = index /\ saved' \subseteq saved
      /\ (op = "delete" => n \notin saved')
  BY DEF CallBegins
<1>5. RequestOf(k).kind \in {"put", "read"}
  <2> HIDE DEF k
  <2> QED
    BY <1>1, FirstRequest
<1>6. Harmless(requests[c][1])'
  <2>1. CASE s = <<>>
    <3>1. Append(s, RequestOf(k))[1] = RequestOf(k)
      <4> HIDE DEF k
      <4> QED
        BY <1>2, <2>1
    <3> QED
      BY <1>3, <1>5, <3>1 DEF Harmless
  <2>2. CASE s # <<>>
    <3>1. Append(s, RequestOf(k))[1] = s[1]
      <4> HIDE DEF k
      <4> QED
        BY <1>2, <2>2
    <3> QED
      BY <1>3, <1>4, <2>2, <3>1 DEF Harmless, Right
  <2> QED
    BY <2>1, <2>2
<1>7. CallTrue(c)'
  BY <1>3, <1>4 DEF CallTrue
<1>8. AnswerTrue(c)'
  BY <1>3 DEF AnswerTrue, NoAnswer
<1> QED
  BY <1>4, <1>6, <1>7, <1>8 DEF Listed, Right

\* A call goes on: what it has read of the index is the index, and what it
\* has written of it.
LEMMA GoesOnRight ==
  ASSUME TemplatesInv, Listed, NEW c \in Clients, Right(c), CallGoesOn(c)
  PROVE  Listed' /\ Right(c)'
<1> DEFINE q == Known(c)
           k == [op |-> q.op, name |-> q.name, at |-> q.at + 1,
                 names |-> Edited(q)]
<1>1. k \in Calls /\ Requested(c, k)
  BY NextCall DEF CallGoesOn
<1>2. /\ q \in Calls /\ calls[c] # NoCall /\ calls[c] \in Calls
      /\ requests[c] = <<>> /\ q.op = calls[c].op
      /\ q.name = calls[c].name /\ q.at = calls[c].at
      /\ Step(q) = Step(calls[c])
  BY AnsweredCall DEF CallGoesOn
<1>3. stored' = stored /\ index' = index /\ saved' = saved
  BY DEF CallGoesOn
<1>4. Step(q) = "read" <=> answer[c].kind = "names"
  BY <1>2 DEF CallGoesOn, Right, AnswerTrue
<1>5. Step(q) = "read" => q.names = index
  BY <1>4 DEF Known, Right, AnswerTrue
<1>6. Step(q) # "read" => q = calls[c]
  BY <1>4 DEF Known
<1>7. /\ Step(q) = "write" => index = q.names
      /\ Step(q) = "value" /\ q.op = "save" => q.name \in stored
  BY <1>2, <1>4, <1>6 DEF Right, AnswerTrue, CallGoesOn
<1>8. /\ q.op = "save" /\ q.at > 1 => q.name \in stored
      /\ q.op = "delete" => q.name \notin saved
      /\ q.op = "delete" /\ Step(q) # "read" /\ q.at > 1 => q.name \notin q.names
  BY <1>2, <1>6 DEF Right, CallTrue
<1>9. q.at \in {1, 2}
  BY <1>2 DEF CallGoesOn, Complete, Calls
<1>10. /\ k.op = q.op /\ k.name = q.name /\ k.at = q.at + 1
       /\ k.names = Edited(q)
  OBVIOUS
<1>11. CallTrue(c)' /\ HarmlessNext(RequestOf(k))
  <2>1. calls'[c] = k
    <3> HIDE DEF k
    <3> QED
      BY <1>1, RequestedCells DEF TemplatesInv
  <2> HIDE DEF k, q
  <2>2. CASE q.op = "save" /\ q.at = 1
    <3>1. Step(q) = "value" /\ Step(k) = "read" /\ k.at = 2 /\ k.op = "save"
      BY <1>1, <1>2, <1>10, <2>2, StepsInOrder
    <3> QED
      BY <1>3, <1>7, <1>10, <2>1, <2>2, <3>1 DEF CallTrue, HarmlessNext, RequestOf
  <2>3. CASE q.op = "save" /\ q.at = 2
    <3>1. Step(q) = "read" /\ Step(k) = "write" /\ k.at = 3 /\ k.op = "save"
      BY <1>1, <1>2, <1>10, <2>3, StepsInOrder
    <3>2. k.names = index \cup {q.name} /\ q.name \in stored
      BY <1>5, <1>8, <1>10, <2>3, <3>1 DEF Edited
    <3> QED
      BY <1>3, <1>10, <2>1, <2>3, <3>1, <3>2
         DEF CallTrue, HarmlessNext, RequestOf, Listed
  <2>4. CASE q.op = "delete" /\ q.at = 1
    <3>1. Step(q) = "read" /\ Step(k) = "write" /\ k.at = 2 /\ k.op = "delete"
      BY <1>1, <1>2, <1>10, <2>4, StepsInOrder
    <3>2. k.names = index \ {q.name} /\ q.name \notin saved
      BY <1>5, <1>8, <1>10, <2>4, <3>1 DEF Edited
    <3> QED
      BY <1>3, <1>10, <2>1, <2>4, <3>1, <3>2
         DEF CallTrue, HarmlessNext, RequestOf, Listed
  <2>5. CASE q.op = "delete" /\ q.at = 2
    <3>1. Step(q) = "write" /\ Step(k) = "value" /\ k.at = 3 /\ k.op = "delete"
      BY <1>1, <1>2, <1>10, <2>5, StepsInOrder
    <3>2. k.names = index /\ q.name \notin index /\ q.name \notin saved
      BY <1>7, <1>8, <1>10, <2>5, <3>1 DEF Edited
    <3> QED
      BY <1>3, <1>10, <2>1, <2>5, <3>1, <3>2
         DEF CallTrue, HarmlessNext, RequestOf
  <2>6. q.op \in {"save", "delete"}
    BY <1>2, StepsInOrder
  <2> QED
    BY <1>9, <2>2, <2>3, <2>4, <2>5, <2>6
<1>12. /\ requests'[c] = Append(<<>>, RequestOf(k))
       /\ answer'[c] = NoAnswer /\ RequestOf(k) \in Requests
  <2> HIDE DEF k
  <2> QED
    BY <1>1, <1>2, RequestedCells, RequestsTyped DEF TemplatesInv
<1> HIDE DEF k
<1>13. requests'[c][1] = RequestOf(k)
  BY <1>12
<1>14. AnswerTrue(c)'
  BY <1>12 DEF AnswerTrue, NoAnswer
<1> QED
  BY <1>3, <1>11, <1>13, <1>14
     DEF Listed, Right, Harmless, HarmlessNext

\* A call ends: a save that succeeds has its name in the index it wrote, or
\* found it in the index it read.
LEMMA SucceedsRight ==
  ASSUME TemplatesInv, Listed, NEW c \in Clients, Right(c), CallSucceeds(c)
  PROVE  Listed' /\ Right(c)'
<1> DEFINE q == Known(c)
<1>1. /\ q \in Calls /\ calls[c] # NoCall /\ calls[c] \in Calls
      /\ requests[c] = <<>> /\ q.op = calls[c].op
      /\ q.name = calls[c].name /\ q.at = calls[c].at
      /\ Step(q) = Step(calls[c])
  BY AnsweredCall DEF CallSucceeds
<1>2. Step(q) = "read" <=> answer[c].kind = "names"
  BY <1>1 DEF CallSucceeds, Right, AnswerTrue
<1>3. Step(q) = "read" => q.names = index
  BY <1>2 DEF Known, Right, AnswerTrue
<1>4. q.op = "save" => q.name \in index
  <2> SUFFICES ASSUME q.op = "save" PROVE q.name \in index
    OBVIOUS
  <2>1. CASE q.at = 3
    <3>1. Step(q) = "write"
      BY <1>1, <2>1, StepsInOrder
    <3>2. index = calls[c].names
      BY <1>1, <1>2, <3>1 DEF Right, AnswerTrue, CallSucceeds
    <3>3. calls[c].name \in calls[c].names
      BY <1>1, <2>1 DEF Right, CallTrue
    <3> QED
      BY <1>1, <3>2, <3>3
  <2>2. CASE q.at # 3
    <3>1. Step(q) = "read" /\ q.name \in q.names
      BY <2>2 DEF CallSucceeds, Complete
    <3> QED
      BY <1>3, <3>1
  <2> QED
    BY <2>1, <2>2
<1>5. /\ requests'[c] = <<>> /\ calls'[c] = NoCall /\ answer'[c] = NoAnswer
      /\ stored' = stored /\ index' = index
  BY <1>1 DEF CallSucceeds, CallOver, TemplatesInv, TemplatesTypeOK
<1>6. Right(c)'
  BY <1>5 DEF Right, CallTrue, AnswerTrue, NoAnswer
<1>7. Listed'
  BY <1>1, <1>4, <1>5 DEF CallSucceeds, Listed
<1> QED
  BY <1>6, <1>7

\* A call that fails leaves its request where it is.
LEMMA FailsRight ==
  ASSUME TemplatesInv, Listed, NEW c \in Clients, Right(c),
         CallFails(c) \/ SessionEnds(c)
  PROVE  Listed' /\ Right(c)'
<1>1. /\ requests'[c] \in {requests[c], <<>>} /\ calls'[c] = NoCall
      /\ answer'[c] = NoAnswer
      /\ stored' = stored /\ index' = index /\ saved' = saved
  BY DEF CallFails, CallOver, SessionEnds, TemplatesInv, TemplatesTypeOK
<1>2. CallTrue(c)' /\ AnswerTrue(c)'
  BY <1>1 DEF CallTrue, AnswerTrue, NoAnswer
<1> QED
  BY <1>1, <1>2 DEF Right, Harmless, Listed

\* Once the first request is handled, the next is a put or a read.
LEMMA RestHarmless ==
  ASSUME TemplatesInv, NEW c \in Clients, requests[c] # <<>>,
         requests'[c] = Tail(requests[c])
  PROVE  requests'[c] # <<>> => Harmless(requests[c][1])'
<1> DEFINE s == requests[c]
<1>1. s \in Seq(Requests) /\ s # <<>>
  BY DEF TemplatesInv, TemplatesTypeOK
<1>2. \A i \in 2 .. Len(s) : s[i].kind \in {"put", "read"}
  BY DEF TemplatesInv, FirstsWait
<1> HIDE DEF s
<1>3. Tail(s) # <<>> => Len(s) > 1 /\ Tail(s)[1] = s[2] /\ Len(s) \in Nat
  <2>1. Tail(s) \in Seq(Requests) /\ Len(Tail(s)) = Len(s) - 1
        /\ Len(s) \in Nat
    BY <1>1
  <2>2. Tail(s) # <<>> => Len(Tail(s)) > 0
    BY <2>1, EmptySeq
  <2> QED
    BY <1>1, <2>1, <2>2
<1> QED
  BY <1>2, <1>3 DEF Harmless, s

\* What a client waits for: its first request alone, or one after others,
\* and then its call has just begun.
LEMMA WaitsFor ==
  ASSUME TemplatesInv, NEW c \in Clients, requests[c] # <<>>
  PROVE  /\ answer[c] = NoAnswer
         /\ calls[c] # NoCall =>
              /\ calls[c] \in Calls
              /\ Len(requests[c]) = 1 => Head(requests[c]) = RequestOf(calls[c])
              /\ Len(requests[c]) # 1 => calls[c].at = 1
<1>1. answer[c] = NoAnswer
  BY DEF TemplatesInv, CallWaits
<1>2. calls[c] # NoCall =>
        /\ calls[c] \in Calls
        /\ requests[c][Len(requests[c])] = RequestOf(calls[c])
        /\ calls[c].at > 1 => Len(requests[c]) = 1
  BY <1>1 DEF TemplatesInv, TemplatesTypeOK, CallWaits
<1>3. Head(requests[c]) = requests[c][1]
  BY DEF TemplatesInv, TemplatesTypeOK
<1> QED
  BY <1>1, <1>2, <1>3, StepsInOrder

\* A read is answered with the index.
LEMMA ReadRight ==
  ASSUME TemplatesInv, Listed, NEW c \in Clients, Right(c), ReadHandled(c)
  PROVE  Listed' /\ Right(c)'
<1> DEFINE m == [kind |-> "names", names |-> index]
<1>1. m \in Replies
  BY DEF TemplatesInv, TemplatesTypeOK, Replies
<1>2. /\ requests'[c] = Tail(requests[c])
      /\ answer'[c] = IF calls[c] # NoCall /\ Len(requests[c]) = 1
                        THEN m ELSE answer[c]
  <2> HIDE DEF m
  <2>1. requests[c] # <<>> /\ Answered(c, m)
    BY DEF ReadHandled, m
  <2> QED
    BY <1>1, <2>1, AnsweredCells DEF TemplatesInv
<1>3. /\ requests[c] # <<>> /\ Head(requests[c]).kind = "read"
      /\ stored' = stored /\ index' = index /\ saved' = saved
      /\ calls' = calls
  BY DEF ReadHandled
<1>4. requests'[c] # <<>> => Harmless(requests[c][1])'
  BY <1>2, <1>3, RestHarmless
<1>5. CallTrue(c)'
  BY <1>3 DEF CallTrue, Right
<1>6. AnswerTrue(c)'
  <2>1. CASE calls[c] # NoCall /\ Len(requests[c]) = 1
    <3>1. RequestOf(calls[c]).kind = "read" /\ calls[c] \in Calls
      BY <1>3, <2>1, WaitsFor
    <3>2. Step(calls[c]) = "read"
      BY <3>1, StepsInOrder DEF RequestOf
    <3> QED
      BY <1>2, <1>3, <2>1, <3>2 DEF AnswerTrue
  <2>2. CASE ~(calls[c] # NoCall /\ Len(requests[c]) = 1)
    BY <1>2, <1>3, <2>2, WaitsFor DEF AnswerTrue, NoAnswer
  <2> QED
    BY <2>1, <2>2
<1> QED
  BY <1>3, <1>4, <1>5, <1>6 DEF Listed, Right

\* A put, a clear or a write of the index that comes first is carried out.
LEMMA SetRight ==
  ASSUME TemplatesInv, Listed, NEW c \in Clients, Right(c), SetHandled(c)
  PROVE  Listed' /\ Right(c)'
<1> DEFINE m == [kind |-> "ack"]
           r == Head(requests[c])
<1>1. m \in Replies
  BY DEF Replies
<1>2. /\ requests'[c] = Tail(requests[c])
      /\ answer'[c] = IF calls[c] # NoCall /\ Len(requests[c]) = 1
                        THEN m ELSE answer[c]
  <2> HIDE DEF m
  <2>1. requests[c] # <<>> /\ Answered(c, m)
    BY DEF SetHandled, m
  <2> QED
    BY <1>1, <2>1, AnsweredCells DEF TemplatesInv
<1>3. /\ requests[c] # <<>> /\ r.kind # "read" /\ Effect(r)
      /\ saved' = saved /\ calls' = calls
  BY DEF SetHandled
<1>4. requests'[c] # <<>> => Harmless(requests[c][1])'
  BY <1>2, <1>3, RestHarmless
<1>5. r \in Requests /\ Harmless(r)
  BY <1>3 DEF TemplatesInv, TemplatesTypeOK, Right
<1>6. r.kind \in {"put", "clear", "write"}
  BY <1>3, <1>5 DEF Requests
<1> HIDE DEF r
<1>7. Listed'
  <2>1. CASE r.kind = "put"
    BY <1>3, <2>1 DEF Effect, Listed
  <2>2. CASE r.kind = "clear"
    BY <1>3, <1>5, <2>2 DEF Effect, Listed, Harmless
  <2>3. CASE r.kind = "write"
    BY <1>3, <1>5, <2>3 DEF Effect, Listed, Harmless
  <2> QED
    BY <1>6, <2>1, <2>2, <2>3
<1>8. CASE calls[c] # NoCall /\ Len(requests[c]) = 1
  <2> DEFINE k == calls[c]
  <2>1. r = RequestOf(k) /\ k \in Calls
    BY <1>3, <1>8, WaitsFor DEF r
  <2>2. /\ k.op = "save" /\ k.at > 1 => k.name \in stored
        /\ k.op = "save" /\ k.at = 3 => k.name \in k.names
        /\ k.op = "delete" => k.name \notin saved
        /\ k.op = "delete" /\ k.at > 1 => k.name \notin k.names
        /\ k.op = "delete" /\ k.at = 3 => k.name \notin index
    BY <1>8 DEF Right, CallTrue
  <2>3. calls'[c] = k /\ answer'[c].kind = "ack"
    BY <1>2, <1>3, <1>8
  <2>4. Step(k) = "read" => RequestOf(k).kind = "read"
    BY DEF RequestOf
  <2> HIDE DEF k
  <2>5. k.op \in {"save", "delete"} /\ k.at \in 1 .. 3
    BY <2>1, StepsInOrder
  <2>6. ASSUME k.op = "save" PROVE CallTrue(c)' /\ AnswerTrue(c)'
    <3>1. CASE Step(k) = "value"
      <4>1. k.at = 1
        BY <2>1, <2>5, <2>6, <3>1, StepsInOrder
      <4>2. k.name \in stored'
        BY <1>3, <2>1, <2>6, <3>1 DEF RequestOf, Effect
      <4> QED
        BY <1>2, <1>8, <2>3, <2>6, <3>1, <4>1, <4>2 DEF CallTrue, AnswerTrue
    <3>2. CASE Step(k) = "write"
      <4>1. k.at = 3
        BY <2>1, <2>5, <2>6, <3>2, StepsInOrder
      <4>2. stored' = stored /\ index' = k.names
        BY <1>3, <2>1, <3>2 DEF RequestOf, Effect
      <4> QED
        BY <1>2, <1>8, <2>2, <2>3, <2>6, <3>2, <4>1, <4>2
           DEF CallTrue, AnswerTrue
    <3>3. Step(k) \in {"value", "write"}
      BY <1>3, <2>1, <2>4, <2>5, <2>6, StepsInOrder
    <3> QED
      BY <3>1, <3>2, <3>3
  <2>7. ASSUME k.op = "delete" PROVE CallTrue(c)' /\ AnswerTrue(c)'
    <3>1. CASE Step(k) = "write"
      <4>1. k.at = 2
        BY <2>1, <2>5, <2>7, <3>1, StepsInOrder
      <4>2. stored' = stored /\ index' = k.names
        BY <1>3, <2>1, <3>1 DEF RequestOf, Effect
      <4> QED
        BY <1>2, <1>3, <1>8, <2>2, <2>3, <2>7, <3>1, <4>1, <4>2
           DEF CallTrue, AnswerTrue
    <3>2. CASE Step(k) = "value"
      <4>1. k.at = 3
        BY <2>1, <2>5, <2>7, <3>2, StepsInOrder
      <4>2. index' = index
        BY <1>3, <2>1, <2>7, <3>2 DEF RequestOf, Effect
      <4> QED
        BY <1>2, <1>3, <1>8, <2>2, <2>3, <2>7, <3>2, <4>1, <4>2
           DEF CallTrue, AnswerTrue
    <3>3. Step(k) \in {"value", "write"}
      BY <1>3, <2>1, <2>4, <2>5, <2>7, StepsInOrder
    <3> QED
      BY <3>1, <3>2, <3>3
  <2>8. CallTrue(c)' /\ AnswerTrue(c)'
    BY <2>5, <2>6, <2>7
  <2> QED
    BY <1>4, <1>7, <2>8 DEF Right
<1>9. CASE ~(calls[c] # NoCall /\ Len(requests[c]) = 1)
  <2>1. AnswerTrue(c)'
    BY <1>2, <1>3, <1>9, WaitsFor DEF AnswerTrue, NoAnswer
  <2>2. CallTrue(c)'
    <3>1. calls[c] # NoCall => calls[c].at = 1
      BY <1>3, <1>9, WaitsFor
    <3> QED
      BY <1>3, <3>1 DEF CallTrue, Right
  <2> QED
    BY <1>4, <1>7, <2>1, <2>2 DEF Right
<1> QED
  BY <1>8, <1>9

\* As long as calls do not meet and no set is refused, no step breaks it.
LEMMA CalmStep ==
  TemplatesInv /\ [TemplatesNext]_templateVars =>
    (Calm' => Listed' /\ \A c \in Clients : Right(c)')
<1> SUFFICES ASSUME TemplatesInv, [TemplatesNext]_templateVars, Calm'
             PROVE  Listed' /\ \A c \in Clients : Right(c)'
  OBVIOUS
<1>1. CASE UNCHANGED templateVars
  BY <1>1 DEF templateVars, TemplatesInv, Calm, Listed, Right, Harmless,
     CallTrue, AnswerTrue
<1>2. ASSUME NEW c \in Clients,
             \/ \E op \in {"save", "delete"}, n \in Templates :
                  CallBegins(c, op, n)
             \/ CallGoesOn(c) \/ CallSucceeds(c) \/ CallFails(c)
             \/ ReadHandled(c) \/ SetHandled(c) \/ SetRefused(c)
             \/ SessionEnds(c)
      PROVE  Listed' /\ \A d \in Clients : Right(d)'
  <2>1. Calm /\ ~SetRefused(c)
    <3>1. ~SetRefused(c)
      BY DEF Calm, SetRefused
    <3>2. ASSUME NEW op \in {"save", "delete"}, NEW n \in Templates,
                 CallBegins(c, op, n)
          PROVE  Calm
      BY <3>2 DEF Calm, CallBegins
    <3>3. CASE \/ CallGoesOn(c) \/ CallSucceeds(c) \/ CallFails(c)
               \/ ReadHandled(c) \/ SetHandled(c) \/ SessionEnds(c)
      <4>1. mixed' = mixed /\ refused' = refused
        BY <3>3 DEF CallGoesOn, CallSucceeds, CallFails, CallOver,
           ReadHandled, SetHandled, SessionEnds
      <4> QED
        BY <3>1, <4>1 DEF Calm
    <3> QED
      BY <1>2, <3>1, <3>2, <3>3
  <2>2. Listed /\ Right(c)
    BY <2>1 DEF TemplatesInv
  <2>3. Listed' /\ Right(c)'
    BY <1>2, <2>1, <2>2, BeginsRight, GoesOnRight, SucceedsRight, FailsRight,
       ReadRight, SetRight
  <2>4. \A d \in Clients \ {c} : ~Busy(d)
    <3>1. CASE \E op \in {"save", "delete"}, n \in Templates :
                 CallBegins(c, op, n)
      BY <3>1 DEF CallBegins, Calm
    <3>2. CASE ~\E op \in {"save", "delete"}, n \in Templates :
                 CallBegins(c, op, n)
      <4>1. Busy(c)
        BY <1>2, <2>1, <3>2, AnsweredCall DEF Busy, CallGoesOn, CallSucceeds,
           CallFails, ReadHandled, SetHandled, SessionEnds
      <4> QED
        BY <2>1, <4>1 DEF Calm, TemplatesInv, OneBusy
    <3> QED
      BY <3>1, <3>2
  <2>5. \A d \in Clients \ {c} : Right(d)'
    <3> SUFFICES ASSUME NEW d \in Clients \ {c} PROVE Right(d)'
      OBVIOUS
    <3>1. requests[d] = <<>> /\ calls[d] = NoCall /\ answer[d] = NoAnswer
      BY <2>4 DEF Busy, TemplatesInv, CallWaits
    <3>2. requests'[d] = <<>> /\ calls'[d] = NoCall /\ answer'[d] = NoAnswer
      BY <1>2, <3>1, OthersKept
    <3> QED
      BY <3>2 DEF Right, CallTrue, AnswerTrue, NoAnswer
  <2> QED
    BY <2>3, <2>5
<1> QED
  BY <1>1, <1>2 DEF TemplatesNext

\* Requests, answers and calls fit together whatever breaks off.
LEMMA TemplatesInvariant == TemplatesSpec => []TemplatesInv
<1>1. TemplatesInv /\ [TemplatesNext]_templateVars => TemplatesInv'
  BY TemplatesTypeStep, OneBusyStep, WaitsStep, CalmStep DEF TemplatesInv
<1> QED
  BY TemplatesInvInit, <1>1, PTL DEF TemplatesSpec

\* What was saved is listed, and what is listed has a value, wherever calls
\* broke off and whenever their last requests were carried out.
THEOREM SavedStayListed == TemplatesSpec => []SavedAreListed
<1>1. TemplatesInv => SavedAreListed
  BY DEF TemplatesInv, Calm, Listed, SavedAreListed
<1> QED
  BY <1>1, TemplatesInvariant, PTL

---------------------------------------------------------------------------
(* The order of the services.                                              *)

\* A set of numbers that is not empty has a least one.
LEMMA LeastOf ==
  ASSUME NEW T, T \subseteq Nat, T # {}
  PROVE  \E x \in T : \A y \in T : x <= y
<1> DEFINE R == OpToRel(<, Nat)
<1>1. IsWellFoundedOn(R, Nat)
  BY NatLessThanWellFounded
<1> HIDE DEF R
<1>2. PICK x \in T : \A y \in T : <<y, x>> \notin R
  BY <1>1, WFMin
<1>3. \A y \in T : ~(y < x)
  BY <1>2 DEF R, OpToRel
<1> QED
  BY <1>3

---------------------------------------------------------------------------
(* Finite desired states.                                                  *)

Desired == Seq([name : Services, deps : SUBSET Services])

\* The services of a desired state are no more than its entries.
LEMMA FewNames ==
  ASSUME NEW s \in Desired
  PROVE  /\ IsFiniteSet(Names(s)) /\ Cardinality(Names(s)) <= Len(s)
         /\ Cardinality(Names(s)) \in Nat /\ Len(s) \in Nat
<1> DEFINE f == [i \in 1 .. Len(s) |-> s[i].name]
<1>1. DOMAIN s = 1 .. Len(s) /\ Len(s) \in Nat
  BY DEF Desired
<1>2. f \in Surjection(1 .. Len(s), Names(s))
  BY <1>1 DEF Names, Surjection
<1>3. IsFiniteSet(1 .. Len(s)) /\ Cardinality(1 .. Len(s)) = Len(s)
  <2>1. 1 \in Int /\ Len(s) \in Int /\ (1 > Len(s) => Len(s) = 0)
    BY <1>1
  <2> QED
    BY <2>1, FS_Interval
<1>4. IsFiniteSet(Names(s)) /\ Cardinality(Names(s)) <= Len(s)
  <2> HIDE DEF f
  <2> QED
    BY <1>2, <1>3, FS_Surjection
<1> QED
  BY <1>1, <1>4, FS_CardinalityType

\* What a service needs is finite.
LEMMA FewNeeds ==
  ASSUME NEW s \in Desired, NEW m
  PROVE  IsFiniteSet(Needs(s, m))
<1>1. DOMAIN s = 1 .. Len(s) /\ Len(s) \in Nat
  BY DEF Desired
<1>2. IsFiniteSet(DOMAIN s)
  BY <1>1, FS_Interval
<1>3. IsFiniteSet((DOMAIN s) \X Services)
  BY <1>2, FS_Product, StatesAssumption
<1>4. Needs(s, m) \in SUBSET ((DOMAIN s) \X Services)
  BY DEF Needs
<1> QED
  BY <1>3, <1>4, FS_Subset

\* The orders of a finite set are the sequences with each element once.
LEMMA OrdersOf ==
  ASSUME NEW S, IsFiniteSet(S), NEW q \in SetToSeqs(S)
  PROVE  /\ q \in Seq(S) /\ Len(q) = Cardinality(S)
         /\ Cardinality(S) \in Nat
         /\ IsInjective(q)
         /\ \A x \in S : \E i \in 1 .. Len(q) : q[i] = x
<1>1. Cardinality(S) \in Nat
  BY FS_CardinalityType
<1>2. /\ q \in [1 .. Cardinality(S) -> S]
      /\ \A i, j \in 1 .. Cardinality(S) : i # j => q[i] # q[j]
  BY DEF SetToSeqs
<1>3. q \in Injection(1 .. Cardinality(S), S)
  BY <1>2 DEF Injection, IsInjective
<1>4. Cardinality(1 .. Cardinality(S)) = Cardinality(S)
  BY <1>1, FS_Interval
<1>5. q \in Surjection(1 .. Cardinality(S), S)
  BY <1>3, <1>4, FS_Injection
<1>6. q \in Seq(S) /\ Len(q) = Cardinality(S)
  BY <1>1, <1>2
<1> QED
  BY <1>1, <1>2, <1>3, <1>5, <1>6 DEF Injection, Surjection

---------------------------------------------------------------------------
(* Kahn's algorithm between two visits.                                    *)

Visited == Range(order)
Queued  == Range(ready)

\* What service m still waits for.
Left(m) == {e \in Needs(desired, m) : e[2] \notin Visited}

\* No service depends on one that is not there.
DepsKnown(s) == \A i \in DOMAIN s : s[i].deps \subseteq Names(s)

\* The counters count what is left, and a service is visited or about to be
\* exactly if nothing is left, once.
Counts ==
  /\ \A m \in Names(desired) : inDegree[m] = Cardinality(Left(m))
  /\ \A m \in Names(desired) : m \in Visited \cup Queued <=> Left(m) = {}
  /\ IsInjective(order) /\ IsInjective(ready) /\ Visited \cap Queued = {}

\* What has been visited came after all it depends on.
DepsFirst ==
  \A k \in DOMAIN order : \A i \in DOMAIN desired :
    desired[i].name = order[k] =>
      \A n \in desired[i].deps : \E l \in 1 .. k - 1 : order[l] = n

OrderInv ==
  /\ OrderTypeOK
  /\ sorting = "running" => DepsKnown(desired) /\ Counts /\ DepsFirst
  /\ OrderIsRight

LEMMA OrderInvInit == OrderInit => OrderInv
<1> SUFFICES ASSUME OrderInit PROVE OrderInv
  OBVIOUS
<1>1. Names(desired) = {}
  BY DEF OrderInit, Names
<1>2. OrderTypeOK
  BY <1>1 DEF OrderInit, OrderTypeOK
<1> QED
  BY <1>2 DEF OrderInit, OrderInv, OrderIsRight

\* An order of services knows every dependency.
LEMMA RespectsKnown ==
  ASSUME NEW s \in Desired, NEW p \in Seq(Names(s)), Respects(p, s)
  PROVE  DepsKnown(s)
<1> SUFFICES ASSUME NEW i \in DOMAIN s, NEW n \in s[i].deps
             PROVE  n \in Names(s)
  BY DEF DepsKnown
<1>1. PICK j \in DOMAIN p : \E k \in 1 .. j - 1 : p[k] = n
  BY DEF Respects
<1>2. PICK k \in 1 .. j - 1 : p[k] = n
  BY <1>1
<1>3. k \in 1 .. Len(p) /\ p[k] \in Names(s)
  BY <1>1, <1>2
<1> QED
  BY <1>2, <1>3

\* What the first look at a desired state finds.
LEMMA SortBeginsRight ==
  ASSUME OrderInv, SortBegins
  PROVE  OrderInv'
<1> DEFINE s == desired'
<1>1. PICK t \in States :
        /\ desired' = t
        /\ inDegree' = Degrees(t)
        /\ order' = <<>>
        /\ IF \A i \in DOMAIN t : t[i].deps \subseteq Names(t)
             THEN /\ sorting' = "running"
                  /\ ready' \in SetToSeqs({n \in Names(t) : Degrees(t)[n] = 0})
             ELSE sorting' = "refused" /\ ready' = <<>>
  BY DEF SortBegins
<1>2. t \in Desired
  BY StatesAssumption DEF Desired
<1>3. /\ IsFiniteSet(Names(t))
      /\ \A m \in Names(t) : IsFiniteSet(Needs(t, m))
  BY <1>2, FewNames, FewNeeds
<1>4. Degrees(t) \in [Names(t) -> Nat]
  BY <1>3, FS_CardinalityType DEF Degrees
<1> DEFINE Z == {n \in Names(t) : Degrees(t)[n] = 0}
<1>5. IsFiniteSet(Z) /\ Z \subseteq Names(t)
  BY <1>3, FS_Subset
<1>6. \A m \in Names(t) : m \in Z <=> Needs(t, m) = {}
  BY <1>3, FS_EmptySet DEF Degrees
<1> HIDE DEF Z
<1>7. CASE DepsKnown(t)
  <2>1. sorting' = "running" /\ ready' \in SetToSeqs(Z)
    BY <1>1, <1>7 DEF DepsKnown, Z
  <2>2. /\ ready' \in Seq(Z) /\ IsInjective(ready')
        /\ \A x \in Z : \E i \in 1 .. Len(ready') : ready'[i] = x
    BY <1>5, <2>1, OrdersOf
  <2>3. ready' \in Seq(Names(t)) /\ Queued' = Z
    BY <1>5, <2>2 DEF Queued, Range
  <2>4. /\ Visited' = {} /\ IsInjective(order') /\ DOMAIN order' = {}
        /\ order' \in Seq(Names(t))
    BY <1>1 DEF Visited, IsInjective, Range
  <2>5. \A m \in Names(t) : Left(m)' = Needs(t, m)
    BY <1>1, <2>4 DEF Left
  <2>6. Counts'
    BY <1>1, <1>6, <2>2, <2>3, <2>4, <2>5 DEF Counts, Degrees
  <2>7. DepsFirst'
    BY <2>4 DEF DepsFirst
  <2>8. OrderTypeOK'
    BY <1>1, <1>2, <1>4, <2>1, <2>3, <2>4 DEF OrderTypeOK, Desired
  <2>9. OrderIsRight'
    BY <2>1 DEF OrderIsRight
  <2> QED
    BY <1>1, <1>7, <2>1, <2>6, <2>7, <2>8, <2>9 DEF OrderInv
<1>8. CASE ~DepsKnown(t)
  <2>1. sorting' = "refused" /\ ready' = <<>>
    BY <1>1, <1>8 DEF DepsKnown
  <2>2. OrderTypeOK'
    BY <1>1, <1>2, <1>4, <2>1 DEF OrderTypeOK, Desired
  <2>3. ~\E p \in SetToSeqs(Names(t)) : Respects(p, t)
    BY <1>2, <1>3, <1>8, OrdersOf, RespectsKnown
  <2>4. OrderIsRight'
    BY <1>1, <2>1, <2>3 DEF OrderIsRight
  <2> QED
    BY <2>1, <2>2, <2>4 DEF OrderInv
<1> QED
  BY <1>7, <1>8

\* A visit takes from what service m waits for its dependencies on n.
LEMMA VisitCounts ==
  ASSUME NEW s \in Desired, NEW V, NEW n \in Services, n \notin V, NEW m,
         NEW before, \A e : e \in before <=> e \in Needs(s, m) /\ e[2] \notin V,
         NEW after,
         \A e : e \in after <=> e \in Needs(s, m) /\ e[2] \notin V \cup {n}
  PROVE  /\ IsFiniteSet(before) /\ IsFiniteSet(after)
         /\ Edges(s, n, m) \in Nat /\ Cardinality(before) \in Nat
         /\ Cardinality(after) = Cardinality(before) - Edges(s, n, m)
         /\ Edges(s, n, m) > 0 <=> before # after
<1> DEFINE gone   == {e \in Needs(s, m) : e[2] = n}
           edges  == {i \in Waiting(s, n) : s[i].name = m}
<1>1. /\ IsFiniteSet(before) /\ IsFiniteSet(after) /\ IsFiniteSet(gone)
  BY FewNeeds, FS_Subset
<1>2. before = after \cup gone /\ after \cap gone = {}
  BY DEF Needs
<1>3. Cardinality(before) = Cardinality(after) + Cardinality(gone)
  <2>1. Cardinality(after \cap gone) = 0
    BY <1>2, FS_EmptySet
  <2>2. Cardinality(after \cup gone)
          = Cardinality(after) + Cardinality(gone) - Cardinality(after \cap gone)
    BY <1>1, FS_Union
  <2> HIDE DEF gone
  <2>3. Cardinality(after) \in Nat /\ Cardinality(gone) \in Nat
    BY <1>1, FS_CardinalityType
  <2>4. Cardinality(after \cup gone) = Cardinality(after) + Cardinality(gone)
    BY <2>1, <2>2, <2>3
  <2> QED
    BY <1>2, <2>4, Zenon
<1>4. Cardinality(edges) = Cardinality(gone) /\ IsFiniteSet(edges)
  <2> DEFINE f == [e \in gone |-> e[1]]
  <2>1. f \in Bijection(gone, edges)
    <3>1. f \in [gone -> edges]
      BY DEF Needs, Waiting
    <3>2. \A a, b \in gone : f[a] = f[b] => a = b
      BY DEF Needs
    <3>3. \A i \in edges : <<i, n>> \in gone /\ f[<<i, n>>] = i
      BY DEF Needs, Waiting
    <3> HIDE DEF f, gone, edges
    <3>4. \A i \in edges : \E e \in gone : f[e] = i
      BY <3>3
    <3> QED
      BY <3>1, <3>2, <3>4 DEF Bijection, Injection, Surjection, IsInjective
  <2> HIDE DEF f, gone, edges
  <2> QED
    BY <1>1, <2>1, FS_Bijection DEF ExistsBijection
<1>5. Edges(s, n, m) = Cardinality(edges)
  BY DEF Edges
<1>6. Cardinality(gone) = 0 <=> gone = {}
  BY <1>1, FS_EmptySet
<1> HIDE DEF gone, edges
<1>7. Cardinality(after) \in Nat /\ Cardinality(gone) \in Nat
  BY <1>1, FS_CardinalityType
<1> QED
  BY <1>1, <1>2, <1>3, <1>4, <1>5, <1>6, <1>7

\* What a queue holds after its first element is taken and others come.
LEMMA QueueAfter ==
  ASSUME NEW S, NEW r \in Seq(S), r # <<>>, NEW q \in Seq(S),
         IsInjective(r), IsInjective(q),
         \A x \in Range(r) : x \notin Range(q),
         NEW u, u = Tail(r) \o q
  PROVE  /\ u \in Seq(S) /\ IsInjective(u)
         /\ \A x : x \in Range(u) <=>
              (x \in Range(r) /\ x # Head(r)) \/ x \in Range(q)
<1> DEFINE t == Tail(r)
<1>0. \A i \in DOMAIN r, j \in DOMAIN q : r[i] # q[j]
  BY DEF Range
<1>1. /\ t \in Seq(S) /\ Len(t) = Len(r) - 1 /\ Len(r) \in Nat \ {0}
      /\ \A i \in 1 .. Len(t) : t[i] = r[i + 1]
      /\ Head(r) = r[1] /\ DOMAIN r = 1 .. Len(r)
  BY HeadTailProperties, EmptySeq
<1> HIDE DEF t
<1>2. /\ u \in Seq(S) /\ Len(u) = Len(t) + Len(q)
      /\ DOMAIN u = 1 .. Len(t) + Len(q) /\ Len(t) \in Nat /\ Len(q) \in Nat
      /\ DOMAIN q = 1 .. Len(q) /\ DOMAIN t = 1 .. Len(t)
      /\ \A i \in 1 .. Len(t) : u[i] = t[i]
      /\ \A i \in 1 .. Len(q) : u[Len(t) + i] = q[i]
  <2>1. u = t \o q
    BY DEF t
  <2>2. /\ u \in Seq(S) /\ Len(u) = Len(t) + Len(q)
        /\ \A i \in 1 .. Len(t) + Len(q) :
             u[i] = IF i <= Len(t) THEN t[i] ELSE q[i - Len(t)]
    BY <1>1, <2>1, ConcatProperties
  <2>3. /\ DOMAIN u = 1 .. Len(t) + Len(q) /\ Len(t) \in Nat /\ Len(q) \in Nat
        /\ DOMAIN q = 1 .. Len(q) /\ DOMAIN t = 1 .. Len(t)
    BY <1>1, <2>2
  <2>4. ASSUME NEW i \in 1 .. Len(t) PROVE u[i] = t[i]
    <3>1. i \in 1 .. Len(t) + Len(q) /\ i <= Len(t)
      BY <2>3
    <3> QED
      BY <2>2, <3>1
  <2>5. ASSUME NEW i \in 1 .. Len(q) PROVE u[Len(t) + i] = q[i]
    <3>1. /\ Len(t) + i \in 1 .. Len(t) + Len(q) /\ ~(Len(t) + i <= Len(t))
          /\ (Len(t) + i) - Len(t) = i
      BY <2>3
    <3> QED
      BY <2>2, <3>1
  <2> QED
    BY <2>2, <2>3, <2>4, <2>5
<1>3. \A i \in 1 .. Len(t) : i + 1 \in DOMAIN r /\ u[i] = r[i + 1]
  BY <1>1, <1>2
<1>4. \A i \in DOMAIN u : i > Len(t) =>
        i - Len(t) \in DOMAIN q /\ u[i] = q[i - Len(t)]
  <2> SUFFICES ASSUME NEW i \in DOMAIN u, i > Len(t)
               PROVE  i - Len(t) \in DOMAIN q /\ u[i] = q[i - Len(t)]
    OBVIOUS
  <2>1. i - Len(t) \in 1 .. Len(q) /\ i = Len(t) + (i - Len(t))
    BY <1>2
  <2> QED
    BY <1>2, <2>1
<1>5. IsInjective(u)
  <2> SUFFICES ASSUME NEW i \in DOMAIN u, NEW j \in DOMAIN u, u[i] = u[j]
               PROVE  i = j
    BY DEF IsInjective
  <2>0. i \in Nat /\ j \in Nat
    BY <1>2
  <2>1. CASE i <= Len(t) /\ j <= Len(t)
    <3>1. i \in 1 .. Len(t) /\ j \in 1 .. Len(t)
      BY <1>2, <2>1
    <3>2. r[i + 1] = r[j + 1] /\ i + 1 \in DOMAIN r /\ j + 1 \in DOMAIN r
      BY <1>3, <3>1
    <3>3. i + 1 = j + 1
      BY <3>2 DEF IsInjective
    <3> QED
      BY <2>0, <3>3
  <2>2. CASE i > Len(t) /\ j > Len(t)
    <3>1. /\ q[i - Len(t)] = q[j - Len(t)]
          /\ i - Len(t) \in DOMAIN q /\ j - Len(t) \in DOMAIN q
      BY <1>4, <2>2
    <3>2. i - Len(t) = j - Len(t)
      BY <3>1 DEF IsInjective
    <3> QED
      BY <1>2, <2>0, <3>2
  <2>3. CASE i <= Len(t) /\ j > Len(t)
    <3>1. i \in 1 .. Len(t)
      BY <1>2, <2>3
    <3> QED
      BY <1>0, <1>3, <1>4, <2>3, <3>1
  <2>4. CASE i > Len(t) /\ j <= Len(t)
    <3>1. j \in 1 .. Len(t)
      BY <1>2, <2>4
    <3> QED
      BY <1>0, <1>3, <1>4, <2>4, <3>1
  <2> QED
    BY <1>2, <2>0, <2>1, <2>2, <2>3, <2>4
<1>6. Range(u) = (Range(r) \ {Head(r)}) \cup Range(q)
  <2>1. ASSUME NEW k \in DOMAIN u
        PROVE  u[k] \in (Range(r) \ {Head(r)}) \cup Range(q)
    <3>1. CASE k \in 1 .. Len(t)
      <4>1. k + 1 \in DOMAIN r /\ u[k] = r[k + 1] /\ k + 1 # 1 /\ 1 \in DOMAIN r
        BY <1>1, <1>2, <1>3, <3>1
      <4>2. r[k + 1] # r[1]
        BY <4>1 DEF IsInjective
      <4> QED
        BY <1>1, <4>1, <4>2 DEF Range
    <3>2. CASE k \notin 1 .. Len(t)
      <4>1. k > Len(t)
        BY <1>2, <3>2
      <4> QED
        BY <1>4, <4>1 DEF Range
    <3> QED
      BY <3>1, <3>2
  <2>2. ASSUME NEW k \in DOMAIN r, r[k] # Head(r)
        PROVE  r[k] \in Range(u)
    <3>1. k - 1 \in 1 .. Len(t) /\ k = (k - 1) + 1
      BY <1>1, <2>2
    <3>2. u[k - 1] = r[k] /\ k - 1 \in DOMAIN u
      BY <1>1, <1>2, <3>1
    <3> QED
      BY <3>2 DEF Range
  <2>3. ASSUME NEW k \in DOMAIN q
        PROVE  q[k] \in Range(u)
    <3>1. Len(t) + k \in DOMAIN u /\ u[Len(t) + k] = q[k]
      BY <1>2
    <3> QED
      BY <3>1 DEF Range
  <2>4. Range(u) \subseteq (Range(r) \ {Head(r)}) \cup Range(q)
    BY <2>1 DEF Range
  <2>5. Range(r) \ {Head(r)} \subseteq Range(u)
    BY <2>2 DEF Range
  <2>6. Range(q) \subseteq Range(u)
    BY <2>3 DEF Range
  <2> QED
    BY <2>4, <2>5, <2>6, Zenon
<1> QED
  BY <1>2, <1>5, <1>6

\* A visit keeps the account.
LEMMA VisitRight ==
  ASSUME OrderInv, Visit
  PROVE  OrderInv'
<1> DEFINE n == Head(ready)
           R == ReadyAfter(n)
<1>1. /\ sorting = "running" /\ ready # <<>>
      /\ order' = Append(order, n)
      /\ inDegree' = [m \in Names(desired) |->
                        inDegree[m] - Edges(desired, n, m)]
      /\ desired' = desired /\ sorting' = sorting
  BY DEF Visit
<1>2. PICK q \in SetToSeqs(R) : ready' = Tail(ready) \o q
  BY DEF Visit
<1>3. OrderTypeOK /\ DepsKnown(desired) /\ Counts /\ DepsFirst
  BY <1>1 DEF OrderInv
<1>4. /\ desired \in Desired /\ IsFiniteSet(Names(desired))
      /\ Names(desired) \subseteq Services
  <2>1. desired \in Desired
    BY <1>3 DEF OrderTypeOK, Desired
  <2>2. ASSUME NEW i \in DOMAIN desired PROVE desired[i].name \in Services
    <3>1. DOMAIN desired = 1 .. Len(desired)
      BY <2>1 DEF Desired
    <3>2. desired[i] \in [name : Services, deps : SUBSET Services]
      <4> DEFINE E == [name : Services, deps : SUBSET Services]
      <4>1. desired \in Seq(E) /\ i \in 1 .. Len(desired)
        BY <2>1, <3>1 DEF Desired
      <4> HIDE DEF E
      <4>2. desired[i] \in E
        BY <4>1, ElementOfSeq
      <4> QED
        BY <4>2 DEF E
    <3> QED
      BY <3>2
  <2>3. Names(desired) \subseteq Services
    BY <2>2 DEF Names
  <2> QED
    BY <2>1, <2>3, FewNames
<1>5. /\ ready \in Seq(Names(desired)) /\ order \in Seq(Names(desired))
      /\ n \in Names(desired) /\ n \in Queued /\ n \notin Visited
      /\ n \in Services
  BY <1>1, <1>3, <1>4 DEF OrderTypeOK, Counts, Queued, Range
<1>6. IsFiniteSet(R) /\ R \subseteq Names(desired)
  BY <1>4, FS_Subset DEF ReadyAfter
<1> HIDE DEF n, R
<1>7. /\ q \in Seq(R) /\ IsInjective(q) /\ R = Range(q)
      /\ q \in Seq(Names(desired))
  <2>1. /\ q \in Seq(R) /\ IsInjective(q)
        /\ \A x \in R : \E i \in 1 .. Len(q) : q[i] = x
    BY <1>6, OrdersOf
  <2>2. DOMAIN q = 1 .. Len(q) /\ \A i \in DOMAIN q : q[i] \in R
    BY <2>1
  <2> QED
    BY <1>6, <2>1, <2>2 DEF Range
<1>8. /\ order' \in Seq(Names(desired)) /\ Len(order') = Len(order) + 1
      /\ DOMAIN order = 1 .. Len(order) /\ Len(order) \in Nat
      /\ DOMAIN order' = 1 .. Len(order) + 1
      /\ \A i \in 1 .. Len(order) : order'[i] = order[i]
      /\ order'[Len(order) + 1] = n
  BY <1>1, <1>5, AppendProperties
<1>9. Visited' = Visited \cup {n}
  <2>1. \A k \in DOMAIN order' : order'[k] \in Visited \cup {n}
    BY <1>8 DEF Visited, Range
  <2>2. \A k \in DOMAIN order : k \in DOMAIN order' /\ order'[k] = order[k]
    BY <1>8
  <2>3. Len(order) + 1 \in DOMAIN order'
    BY <1>8
  <2> QED
    BY <1>8, <2>1, <2>2, <2>3 DEF Visited, Range
<1>10. ASSUME NEW m \in Names(desired)
       PROVE  /\ IsFiniteSet(Left(m)) /\ IsFiniteSet(Left(m)')
              /\ Edges(desired, n, m) \in Nat /\ Cardinality(Left(m)) \in Nat
              /\ Cardinality(Left(m)') = Cardinality(Left(m)) - Edges(desired, n, m)
              /\ Edges(desired, n, m) > 0 <=> Left(m) # Left(m)'
              /\ Left(m)' \subseteq Left(m)
  <2>1. /\ Left(m) = {e \in Needs(desired, m) : e[2] \notin Visited}
        /\ Left(m)' = {e \in Needs(desired, m) : e[2] \notin Visited \cup {n}}
    BY <1>1, <1>9 DEF Left
  <2>3. /\ \A e : e \in Left(m) <=> e \in Needs(desired, m) /\ e[2] \notin Visited
        /\ \A e : e \in Left(m)' <=>
             e \in Needs(desired, m) /\ e[2] \notin Visited \cup {n}
    BY <2>1
  <2>2. Left(m)' \subseteq Left(m)
    BY <2>1
  <2> QED
    BY <1>4, <1>5, <2>2, <2>3, VisitCounts
<1>11. ASSUME NEW m \in Names(desired)
       PROVE  m \in R <=> Left(m)' = {} /\ Left(m) # {}
  <2>1. inDegree[m] = Cardinality(Left(m))
    BY <1>3 DEF Counts
  <2>2. m \in R <=> Edges(desired, n, m) > 0
                    /\ inDegree[m] = Edges(desired, n, m)
    BY DEF R, ReadyAfter
  <2>3. Cardinality(Left(m)') = 0 <=> Left(m)' = {}
    BY <1>10, FS_EmptySet
  <2>4. inDegree[m] = Edges(desired, n, m) <=> Left(m)' = {}
    BY <1>10, <2>1, <2>3
  <2> QED
    BY <1>10, <2>2, <2>4
<1>12. Range(ready) \cap Range(q) = {}
  <2> SUFFICES ASSUME NEW m \in Range(q), m \in Range(ready)
               PROVE  FALSE
    OBVIOUS
  <2>1. m \in R /\ m \in Queued /\ m \in Names(desired)
    BY <1>6, <1>7 DEF Queued
  <2> QED
    BY <1>3, <1>11, <2>1 DEF Counts
<1>13. /\ ready' \in Seq(Names(desired)) /\ IsInjective(ready')
       /\ Queued' = (Queued \ {n}) \cup R
  <2>1. IsInjective(ready) /\ ready \in Seq(Names(desired)) /\ ready # <<>>
    BY <1>1, <1>3, <1>5 DEF Counts
  <2>2. \A m \in Range(ready) : m \notin Range(q)
    BY <1>12
  <2>3. /\ ready' \in Seq(Names(desired)) /\ IsInjective(ready')
        /\ \A m : m \in Range(ready') <=>
             (m \in Range(ready) /\ m # Head(ready)) \/ m \in Range(q)
    BY <1>2, <1>7, <2>1, <2>2, QueueAfter
  <2> QED
    BY <1>7, <2>3 DEF Queued, n
<1>14. Counts'
  <2>1. \A m \in Names(desired) : inDegree'[m] = Cardinality(Left(m)')
    BY <1>1, <1>3, <1>10 DEF Counts
  <2>2. \A m \in Names(desired) :
          m \in Visited' \cup Queued' <=> Left(m)' = {}
    <3> SUFFICES ASSUME NEW m \in Names(desired)
                 PROVE  m \in Visited' \cup Queued' <=> Left(m)' = {}
      OBVIOUS
    <3>1. m \in Visited' \cup Queued' <=> m \in Visited \cup Queued \/ m \in R
      BY <1>5, <1>9, <1>13
    <3>2. m \in Visited \cup Queued <=> Left(m) = {}
      BY <1>3 DEF Counts
    <3> QED
      BY <1>10, <1>11, <3>1, <3>2
  <2>3. IsInjective(order')
    <3> SUFFICES ASSUME NEW i \in DOMAIN order', NEW j \in DOMAIN order',
                        order'[i] = order'[j]
                 PROVE  i = j
      BY DEF IsInjective
    <3>1. CASE i = Len(order) + 1 /\ j # Len(order) + 1
      BY <1>5, <1>8, <3>1 DEF Visited, Range
    <3>2. CASE j = Len(order) + 1 /\ i # Len(order) + 1
      BY <1>5, <1>8, <3>2 DEF Visited, Range
    <3>3. CASE i # Len(order) + 1 /\ j # Len(order) + 1
      BY <1>3, <1>8, <3>3 DEF Counts, IsInjective
    <3> QED
      BY <3>1, <3>2, <3>3
  <2>4. Visited' \cap Queued' = {}
    <3>1. \A m \in R : m \notin Visited \cup {n}
      <4> SUFFICES ASSUME NEW m \in R PROVE m \notin Visited /\ m \notin Queued
        BY <1>5
      <4> QED
        BY <1>3, <1>6, <1>11 DEF Counts
    <3> QED
      BY <1>3, <1>9, <1>13, <3>1 DEF Counts
  <2> QED
    BY <1>1, <1>13, <2>1, <2>2, <2>3, <2>4 DEF Counts
<1>15. DepsFirst'
  <2> SUFFICES ASSUME NEW k \in DOMAIN order', NEW i \in DOMAIN desired,
                      desired[i].name = order'[k], NEW x \in desired[i].deps
               PROVE  \E l \in 1 .. k - 1 : order'[l] = x
    BY <1>1 DEF DepsFirst
  <2>1. CASE k \in 1 .. Len(order)
    <3>1. PICK l \in 1 .. k - 1 : order[l] = x
      BY <1>3, <1>8, <2>1 DEF DepsFirst
    <3>2. l \in 1 .. Len(order)
      BY <1>8, <2>1
    <3> QED
      BY <1>8, <3>1, <3>2
  <2>2. CASE k = Len(order) + 1
    <3>1. Left(n) = {} /\ desired[i].name = n
      BY <1>3, <1>5, <1>8, <2>2 DEF Counts
    <3>2. x \in Services
      BY <1>3, <1>4 DEF DepsKnown
    <3>3. <<i, x>> \in Needs(desired, n)
      BY <3>1, <3>2 DEF Needs
    <3>4. x \in Visited
      BY <3>1, <3>3 DEF Left
    <3> QED
      BY <1>8, <2>2, <3>4 DEF Visited, Range
  <2> QED
    BY <1>8, <2>1, <2>2
<1>16. OrderTypeOK'
  <2>1. inDegree' \in [Names(desired) -> Nat]
    <3>1. \A m \in Names(desired) :
            inDegree'[m] = Cardinality(Left(m)') /\ Cardinality(Left(m)') \in Nat
      BY <1>1, <1>3, <1>10, FS_CardinalityType DEF Counts
    <3> QED
      BY <1>1, <3>1
  <2> QED
    BY <1>1, <1>3, <1>8, <1>13, <2>1 DEF OrderTypeOK
<1> QED
  BY <1>1, <1>3, <1>14, <1>15, <1>16 DEF OrderInv, OrderIsRight

\* When nothing is queued, the service that an order puts first among those
\* not visited would be.
LEMMA AllVisited ==
  ASSUME OrderInv, sorting = "running", ready = <<>>,
         NEW p \in SetToSeqs(Names(desired)), Respects(p, desired)
  PROVE  Names(desired) \subseteq Visited
<1> DEFINE T == {j \in DOMAIN p : p[j] \notin Visited}
<1>1. OrderTypeOK /\ DepsKnown(desired) /\ Counts /\ Queued = {}
  BY DEF OrderInv, Queued, Range
<1>2. desired \in Desired /\ IsFiniteSet(Names(desired))
  BY <1>1, FewNames DEF OrderTypeOK, Desired
<1>3. /\ p \in Seq(Names(desired)) /\ IsInjective(p) /\ DOMAIN p = 1 .. Len(p)
      /\ \A x \in Names(desired) : \E i \in DOMAIN p : p[i] = x
  <2>1. /\ p \in Seq(Names(desired)) /\ IsInjective(p)
        /\ \A x \in Names(desired) : \E i \in 1 .. Len(p) : p[i] = x
    BY <1>2, OrdersOf
  <2> QED
    BY <2>1
<1>4. ASSUME T # {} PROVE FALSE
  <2>1. T \subseteq Nat
    BY <1>3
  <2>2. PICK j \in T : \A k \in T : j <= k
    <3> HIDE DEF T
    <3> QED
      BY <1>4, <2>1, LeastOf
  <2>3. p[j] \in Names(desired) /\ p[j] \notin Visited /\ j \in DOMAIN p
    BY <1>3, <2>2
  <2>4. Left(p[j]) # {}
    BY <1>1, <2>3 DEF Counts
  <2>5. PICK i \in DOMAIN desired, x \in Services :
          desired[i].name = p[j] /\ x \in desired[i].deps /\ x \notin Visited
    BY <2>4 DEF Left, Needs
  <2>6. PICK l \in DOMAIN p :
          /\ p[l] = desired[i].name
          /\ \A y \in desired[i].deps : \E k \in 1 .. l - 1 : p[k] = y
    BY <2>5 DEF Respects
  <2>7. l = j
    BY <1>3, <2>3, <2>5, <2>6 DEF IsInjective
  <2>8. PICK k \in 1 .. j - 1 : p[k] = x
    BY <2>5, <2>6, <2>7
  <2>9. k \in DOMAIN p /\ k < j
    BY <1>3, <2>3, <2>8
  <2>10. k \in T /\ k \in Nat /\ j \in Nat
    BY <1>3, <2>1, <2>2, <2>5, <2>8, <2>9
  <2> QED
    BY <2>2, <2>9, <2>10
<1> QED
  BY <1>3, <1>4

\* What is visited is as many services as there are places in the order.
LEMMA VisitedCounted ==
  ASSUME OrderInv, sorting = "running"
  PROVE  /\ Visited \subseteq Names(desired)
         /\ Len(order) \in Nat /\ Cardinality(Names(desired)) \in Nat
         /\ Len(order) <= Cardinality(Names(desired))
         /\ Cardinality(Names(desired)) <= Len(desired) /\ Len(desired) \in Nat
         /\ Len(order) = Cardinality(Names(desired)) <=>
              Names(desired) \subseteq Visited
<1>1. OrderTypeOK /\ Counts
  BY DEF OrderInv
<1>2. desired \in Desired
  BY <1>1 DEF OrderTypeOK, Desired
<1>3. /\ IsFiniteSet(Names(desired)) /\ Cardinality(Names(desired)) \in Nat
      /\ Cardinality(Names(desired)) <= Len(desired) /\ Len(desired) \in Nat
  BY <1>2, FewNames
<1>4. /\ order \in [1 .. Len(order) -> Names(desired)] /\ Len(order) \in Nat
      /\ DOMAIN order = 1 .. Len(order)
  BY <1>1 DEF OrderTypeOK
<1>5. order \in Injection(1 .. Len(order), Names(desired))
  BY <1>1, <1>4 DEF Counts, Injection
<1>6. Cardinality(1 .. Len(order)) = Len(order) /\ IsFiniteSet(1 .. Len(order))
  <2>1. Len(order) \in Int /\ 1 \in Int
    BY <1>4
  <2>2. /\ IsFiniteSet(1 .. Len(order))
        /\ Cardinality(1 .. Len(order))
             = IF 1 > Len(order) THEN 0 ELSE Len(order) - 1 + 1
    BY <2>1, FS_Interval
  <2> QED
    BY <1>4, <2>2
<1>7. /\ Len(order) <= Cardinality(Names(desired))
      /\ Len(order) = Cardinality(Names(desired)) <=>
           order \in Surjection(1 .. Len(order), Names(desired))
  BY <1>3, <1>5, <1>6, FS_Injection
<1>8. order \in Surjection(1 .. Len(order), Names(desired)) <=>
        Names(desired) \subseteq Visited
  BY <1>4 DEF Surjection, Visited, Range
<1> QED
  BY <1>3, <1>4, <1>7, <1>8 DEF Visited, Range

\* The end of the sort: all is visited, or no order exists.
LEMMA SortEndsRight ==
  ASSUME OrderInv, SortEnds
  PROVE  OrderInv'
<1>1. /\ sorting = "running" /\ ready = <<>>
      /\ sorting' = IF Len(order) = Len(desired) THEN "sorted" ELSE "refused"
      /\ UNCHANGED <<desired, inDegree, ready, order>>
  BY DEF SortEnds
<1>2. OrderTypeOK /\ DepsKnown(desired) /\ Counts /\ DepsFirst
  BY <1>1 DEF OrderInv
<1>3. OrderTypeOK'
  BY <1>1, <1>2 DEF OrderTypeOK, Names
<1>4. CASE Len(order) = Len(desired)
  <2>1. Names(desired) \subseteq Visited
    BY <1>1, <1>4, VisitedCounted
  <2>2. Respects(order, desired)
    <3> SUFFICES ASSUME NEW i \in DOMAIN desired
                 PROVE  \E j \in DOMAIN order :
                          /\ order[j] = desired[i].name
                          /\ \A n \in desired[i].deps :
                               \E k \in 1 .. j - 1 : order[k] = n
      BY <1>4 DEF Respects
    <3>1. PICK j \in DOMAIN order : order[j] = desired[i].name
      BY <2>1 DEF Names, Visited, Range
    <3> QED
      BY <1>2, <3>1 DEF DepsFirst
  <2>3. OrderIsRight'
    BY <1>1, <1>2, <1>4, <2>2 DEF OrderIsRight, Counts, Respects, IsInjective
  <2> QED
    BY <1>1, <1>3, <1>4, <2>3 DEF OrderInv
<1>5. CASE Len(order) # Len(desired)
  <2>1. ASSUME NEW p \in SetToSeqs(Names(desired)), Respects(p, desired)
        PROVE  FALSE
    <3>1. Names(desired) \subseteq Visited
      BY <1>1, <2>1, AllVisited
    <3>2. Len(order) = Cardinality(Names(desired))
      BY <1>1, <3>1, VisitedCounted
    <3>3. desired \in Desired /\ IsFiniteSet(Names(desired))
      BY <1>2, FewNames DEF OrderTypeOK, Desired
    <3>4. Len(p) = Cardinality(Names(desired))
      BY <3>3, OrdersOf
    <3> QED
      BY <1>5, <2>1, <3>2, <3>4 DEF Respects
  <2>2. OrderIsRight'
    <3>1. sorting' = "refused" /\ desired' = desired
      BY <1>1, <1>5
    <3>2. ~\E p \in SetToSeqs(Names(desired)) : Respects(p, desired)
      BY <2>1
    <3> QED
      BY <3>1, <3>2 DEF OrderIsRight
  <2> QED
    BY <1>1, <1>3, <1>5, <2>2 DEF OrderInv
<1> QED
  BY <1>4, <1>5

LEMMA OrderStep ==
  ASSUME OrderInv, [OrderNext]_orderVars
  PROVE  OrderInv'
<1>1. CASE PassEnds
  <2>1. Names(<<>>) = {}
    BY DEF Names
  <2> QED
    BY <1>1, <2>1 DEF PassEnds, OrderInv, OrderTypeOK, OrderIsRight
<1>2. CASE UNCHANGED orderVars
  <2>1. /\ desired' = desired /\ inDegree' = inDegree /\ ready' = ready
        /\ order' = order /\ sorting' = sorting
    BY <1>2 DEF orderVars
  <2>2. Visited' = Visited /\ Queued' = Queued
    BY <2>1 DEF Visited, Queued, Range
  <2>3. \A m : Left(m)' = Left(m)
    BY <2>1, <2>2 DEF Left
  <2>4. Counts' = Counts /\ DepsFirst' = DepsFirst
    BY <2>1, <2>2, <2>3 DEF Counts, DepsFirst
  <2>5. OrderTypeOK' = OrderTypeOK /\ OrderIsRight' = OrderIsRight
    BY <2>1 DEF OrderTypeOK, OrderIsRight
  <2> QED
    BY <2>1, <2>4, <2>5 DEF OrderInv
<1> QED
  BY <1>1, <1>2, SortBeginsRight, VisitRight, SortEndsRight DEF OrderNext

\* Whatever the order of the maps and for desired states of any length, a sort
\* succeeds exactly if there is an order, and finds one.
THEOREM SortsInOrder == OrderSpec => []OrderIsRight
<1>1. OrderInv => OrderIsRight
  BY DEF OrderInv
<1> QED
  BY OrderInvInit, OrderStep, <1>1, PTL DEF OrderSpec

---------------------------------------------------------------------------
(* The parts together: each of them as it is alone.                        *)

\* A daemon's tables keep what each of its parts promises by itself: every
\* behaviour of TableParts is one of each part.
THEOREM PartsStayApart ==
  TablesSpec => MeshSpec /\ OrderSpec /\ CodeSpec /\ TemplatesSpec
<1>1. TablesInit => MeshInit /\ OrderInit /\ CodeInit /\ TemplatesInit
  BY DEF TablesInit
<1>2. [TablesNext]_tablesVars =>
        /\ [MeshNext]_meshVars /\ [OrderNext]_orderVars
        /\ [CodeNext]_codeVars /\ [TemplatesNext]_templateVars
  BY DEF TablesNext, tablesVars
<1> QED
  BY <1>1, <1>2, PTL
  DEF TablesSpec, MeshSpec, OrderSpec, CodeSpec, TemplatesSpec

\* The types of the reconciler's sort, with what it counts.
LEMMA OrderInvariant == OrderSpec => []OrderInv
BY OrderInvInit, OrderStep, PTL DEF OrderSpec

\* Nonces, attempts and joins stay within their bounds.
LEMMA CodeInvariant == CodeSpec => []CodeInv
BY CodeInvInit, CodeStep, PTL DEF CodeSpec

\* The tables of names, codes and templates and the sort's counters are always
\* well typed, whatever connections, restarts and desired states come.
THEOREM TablesTypeCorrect == TablesSpec => []TablesTypeOK
<1>1. TablesInit => concern \in Concerns
  BY DEF TablesInit
<1>2. concern \in Concerns /\ [TablesNext]_tablesVars => (concern \in Concerns)'
  BY DEF TablesNext, tablesVars
<1>3. MeshShape /\ OrderInv /\ CodeInv /\ TemplatesInv /\ concern \in Concerns
        => TablesTypeOK
  BY DEF MeshShape, OrderInv, CodeInv, TemplatesInv, TablesTypeOK
<1> QED
  BY <1>1, <1>2, <1>3, PartsStayApart, MeshTypesHold, OrderInvariant,
     CodeInvariant, TemplatesInvariant, PTL DEF TablesSpec

\* So the promises of the parts hold of a daemon's tables together.
THEOREM TablesKeepPromises ==
  TablesSpec => []( /\ MeshNamesForwarded /\ NamesHaveOrigin
                    /\ OrderIsRight /\ OneTimeOnce /\ SavedAreListed)
BY PartsStayApart, MeshNamesAreForwarded, ForwardersHaveOrigin, SortsInOrder,
   CodesConnectOnce, SavedStayListed, PTL
=============================================================================
