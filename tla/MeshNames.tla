----------------------------- MODULE MeshNames -----------------------------
(***************************************************************************)
(* Host names across the mesh: the name registry of each daemon            *)
(* (veloce-net/registry.rs), the table of its peers (lib.rs), the gossip   *)
(* on each connection (peer.rs) and the forwarders that stand for the      *)
(* names of other daemons (forward.rs).  Each has a lock of its own, and   *)
(* tasks hold one at a time.                                               *)
(***************************************************************************)
EXTENDS Integers, Sequences, FiniteSets

CONSTANTS
  Daemons,   \* the daemons of the mesh
  Hosts,     \* the host names
  Homes,     \* which names the nodes of which daemons are given
  Conns,     \* the connections that will ever be made
  NoConn,    \* no connection
  MailSize   \* how many gossip messages are on their way at once

ASSUME MeshAssumption ==
  NoConn \notin Conns /\ MailSize \in Nat /\ Homes \subseteq Daemons \X Hosts

VARIABLES
  name,      \* NetRegistry: "node", "mesh" (owned by Uuid::nil) or "none"
  fwd,       \* FORWARDERS: the connection each forwarder sends on, or NoConn
  heard,     \* PeerConnection.remote_hosts
  ends,      \* the two daemons of each connection, {} while it is not made
  up,        \* the connections that stand
  reading,   \* the reader tasks that run
  opening,   \* connections that are not in the table yet
  table,     \* MeshState.peers: the connection to each peer, or NoConn
  leaving,   \* the tasks that the gone callbacks have spawned
  dropping,  \* the disconnects on their way to the peer's forwarders
  mail,      \* the gossip on its way to an end of a connection
  owned      \* the names a node has had at each daemon (history)

meshVars == <<name, fwd, heard, ends, up, reading, opening, table, leaving,
              dropping, mail, owned>>

\* An end of a connection, and a peer as its neighbour sees it.
End  == Daemons \X Conns
Pair == Daemons \X Daemons

MeshTypeOK ==
  /\ name \in [Daemons -> [Hosts -> {"node", "mesh", "none"}]]
  /\ fwd \in [Daemons -> [Hosts -> Conns \cup {NoConn}]]
  /\ heard \in SUBSET (Daemons \X Conns \X Hosts)
  /\ ends \in [Conns -> SUBSET Daemons]
  /\ up \in SUBSET Conns
  /\ reading \in SUBSET End /\ opening \in SUBSET End
  /\ table \in [Daemons -> [Daemons -> Conns \cup {NoConn}]]
  /\ leaving \in SUBSET Pair /\ dropping \in SUBSET Pair
  /\ mail \in [End -> Seq(SUBSET Hosts)]
  /\ owned \in [Daemons -> SUBSET Hosts]

MeshInit ==
  /\ name = [d \in Daemons |-> [h \in Hosts |-> "none"]]
  /\ fwd = [d \in Daemons |-> [h \in Hosts |-> NoConn]]
  /\ heard = {}
  /\ ends = [c \in Conns |-> {}]
  /\ up = {}
  /\ reading = {} /\ opening = {}
  /\ table = [d \in Daemons |-> [p \in Daemons |-> NoConn]]
  /\ leaving = {} /\ dropping = {}
  /\ mail = [x \in End |-> <<>>]
  /\ owned = [d \in Daemons |-> {}]

\* The peer at the other end of c.
Peer(d, c) == CHOOSE p \in ends[c] \ {d} : TRUE

PeerOf(d, h) == Peer(d, fwd[d][h])

---------------------------------------------------------------------------
(* Names.                                                                  *)

\* A session or the portal registers a name for a node, over whatever is
\* there.
NameComes(d, h) ==
  /\ <<d, h>> \in Homes
  /\ name' = [name EXCEPT ![d][h] = "node"]
  /\ owned' = [owned EXCEPT ![d] = @ \cup {h}]
  /\ UNCHANGED <<fwd, heard, ends, up, reading, opening, table, leaving,
                 dropping, mail>>

\* A client unregisters it, or its time is over and gc removes it: a name of
\* the mesh as well, whose forwarder stays.
NameGoes(d, h) ==
  /\ name[d][h] # "none"
  /\ name' = [name EXCEPT ![d][h] = "none"]
  /\ UNCHANGED <<fwd, heard, ends, up, reading, opening, table, leaving,
                 dropping, mail, owned>>

---------------------------------------------------------------------------
(* Connections.                                                            *)

\* A handshake has succeeded, and both sides have started their tasks.
Handshake(d, e, c) ==
  /\ ends[c] = {}
  /\ d # e
  /\ ends' = [ends EXCEPT ![c] = {d, e}]
  /\ up' = up \cup {c}
  /\ reading' = reading \cup {<<d, c>>, <<e, c>>}
  /\ opening' = opening \cup {<<d, c>>, <<e, c>>}
  /\ UNCHANGED <<name, fwd, heard, table, leaving, dropping, mail, owned>>

\* peers.insert, at last: over an older connection, and even if this one has
\* ended meanwhile.
Tabled(d, c) ==
  /\ <<d, c>> \in opening
  /\ opening' = opening \ {<<d, c>>}
  /\ table' = [table EXCEPT ![d][Peer(d, c)] = c]
  /\ UNCHANGED <<name, fwd, heard, ends, up, reading, leaving, dropping, mail,
                 owned>>

LinkBreaks(c) ==
  /\ c \in up
  /\ up' = up \ {c}
  /\ UNCHANGED <<name, fwd, heard, ends, reading, opening, table, leaving,
                 dropping, mail, owned>>

\* The reader meets an error, of the link or in a frame; what it has not read
\* is lost, and the gone callback spawns a task.
ReaderEnds(d, c) ==
  /\ <<d, c>> \in reading
  /\ reading' = reading \ {<<d, c>>}
  /\ mail' = [mail EXCEPT ![<<d, c>>] = <<>>]
  /\ leaving' = leaving \cup {<<d, Peer(d, c)>>}
  /\ UNCHANGED <<name, fwd, heard, ends, up, opening, table, dropping, owned>>

\* The task removes the peer, whichever connection it has by now; its
\* forwarders stay.
PeerGone(d, p) ==
  /\ <<d, p>> \in leaving
  /\ leaving' = leaving \ {<<d, p>>}
  /\ table' = [table EXCEPT ![d][p] = NoConn]
  /\ UNCHANGED <<name, fwd, heard, ends, up, reading, opening, dropping, mail,
                 owned>>

\* disconnect takes the peer out of the table; the connection goes on.
Disconnect(d, p) ==
  /\ table[d][p] # NoConn
  /\ table' = [table EXCEPT ![d][p] = NoConn]
  /\ dropping' = dropping \cup {<<d, p>>}
  /\ UNCHANGED <<name, fwd, heard, ends, up, reading, opening, leaving, mail,
                 owned>>

\* Mutant: the forwarder goes and its name stays.
KeepsNames(d, dropped) == name[d]

\* Whoever has registered the name meanwhile.
Unregistered(d, dropped) ==
  [h \in Hosts |-> IF h \in dropped THEN "none" ELSE name[d][h]]

\* remove_peer_forwarders.
DropForwarders(d, p) ==
  LET dropped == {h \in Hosts : fwd[d][h] # NoConn /\ PeerOf(d, h) = p} IN
  /\ <<d, p>> \in dropping
  /\ dropping' = dropping \ {<<d, p>>}
  /\ fwd' = [fwd EXCEPT ![d] = [h \in Hosts |->
               IF h \in dropped THEN NoConn ELSE fwd[d][h]]]
  /\ name' = [name EXCEPT ![d] = Unregistered(d, dropped)]
  /\ UNCHANGED <<heard, ends, up, reading, opening, table, leaving, mail,
                 owned>>

---------------------------------------------------------------------------
(* Gossip.                                                                 *)

\* Mutant: names of other daemons are passed on.
AllNames(d) == {h \in Hosts : name[d][h] # "none"}

\* local_gossip_entries: what Uuid::nil does not own.
LocalNames(d) == {h \in Hosts : name[d][h] = "node"}

\* The gossip ticker of the reader task, and the connecting side at the start.
Gossip(d, c) ==
  /\ <<d, c>> \in reading
  /\ c \in up
  /\ LocalNames(d) # {}
  /\ LET x == <<Peer(d, c), c>> IN
       /\ x \in reading
       /\ Len(mail[x]) < MailSize
       /\ mail' = [mail EXCEPT ![x] = Append(@, LocalNames(d))]
  /\ UNCHANGED <<name, fwd, heard, ends, up, reading, opening, table, leaving,
                 dropping, owned>>

\* The message without h, or the next one after its last name.
Handled(m, h) ==
  IF Head(m) = {h} THEN Tail(m) ELSE <<Head(m) \ {h}>> \o Tail(m)

\* Mutant: an entry that is known is never taken again.
TakesNew(d, c, h)  == <<d, c, h>> \notin heard

\* An entry is taken if it is new here, or newer; gossip of one second is not.
Takes(d, c, h) == TRUE

\* The entry is refused: by its time, by the ACL, or because it is no newer.
EntryIgnored(d, c, h) ==
  /\ mail[<<d, c>>] # <<>>
  /\ h \in Head(mail[<<d, c>>])
  /\ mail' = [mail EXCEPT ![<<d, c>>] = Handled(@, h)]
  /\ UNCHANGED <<name, fwd, heard, ends, up, reading, opening, table, leaving,
                 dropping, owned>>

\* The entry is taken.  refresh_forwarder leaves a forwarder that exists as
\* it is; else it registers the name for Uuid::nil, over whatever is there, and
\* holds the lock of the forwarders until it has added one.
EntryTaken(d, c, h) ==
  /\ mail[<<d, c>>] # <<>>
  /\ h \in Head(mail[<<d, c>>])
  /\ Takes(d, c, h)
  /\ mail' = [mail EXCEPT ![<<d, c>>] = Handled(@, h)]
  /\ heard' = heard \cup {<<d, c, h>>}
  /\ IF fwd[d][h] # NoConn THEN UNCHANGED <<name, fwd>>
     ELSE /\ fwd' = [fwd EXCEPT ![d][h] = c]
          /\ name' = [name EXCEPT ![d][h] = "mesh"]
  /\ UNCHANGED <<ends, up, reading, opening, table, leaving, dropping, owned>>

\* It is taken, but no port can be bound.
EntryUnbound(d, c, h) ==
  /\ mail[<<d, c>>] # <<>>
  /\ h \in Head(mail[<<d, c>>])
  /\ Takes(d, c, h)
  /\ fwd[d][h] = NoConn
  /\ mail' = [mail EXCEPT ![<<d, c>>] = Handled(@, h)]
  /\ heard' = heard \cup {<<d, c, h>>}
  /\ UNCHANGED <<name, fwd, ends, up, reading, opening, table, leaving,
                 dropping, owned>>

---------------------------------------------------------------------------
\* A daemon dies with its tables; its connections break.
DaemonRestarts(d) ==
  /\ name' = [name EXCEPT ![d] = [h \in Hosts |-> "none"]]
  /\ fwd' = [fwd EXCEPT ![d] = [h \in Hosts |-> NoConn]]
  /\ heard' = {x \in heard : x[1] # d}
  /\ up' = {c \in up : d \notin ends[c]}
  /\ reading' = {x \in reading : x[1] # d}
  /\ opening' = {x \in opening : x[1] # d}
  /\ table' = [table EXCEPT ![d] = [p \in Daemons |-> NoConn]]
  /\ leaving' = {x \in leaving : x[1] # d}
  /\ dropping' = {x \in dropping : x[1] # d}
  /\ mail' = [x \in End |-> IF x[1] = d THEN <<>> ELSE mail[x]]
  /\ UNCHANGED <<ends, owned>>

MeshNext ==
  \/ \E d \in Daemons, h \in Hosts : NameComes(d, h) \/ NameGoes(d, h)
  \/ \E d, p \in Daemons : \/ \E c \in Conns : Handshake(d, p, c)
                           \/ PeerGone(d, p) \/ Disconnect(d, p)
                           \/ DropForwarders(d, p)
  \/ \E d \in Daemons, c \in Conns :
       \/ Tabled(d, c) \/ ReaderEnds(d, c) \/ Gossip(d, c)
       \/ \E h \in Hosts : \/ EntryIgnored(d, c, h) \/ EntryTaken(d, c, h)
                           \/ EntryUnbound(d, c, h)
  \/ \E c \in Conns : LinkBreaks(c)
  \/ \E d \in Daemons : DaemonRestarts(d)

MeshSpec == MeshInit /\ [][MeshNext]_meshVars

\* Tickers fire, and an entry is not refused for ever: gossip is not switched
\* off (gossip_interval_secs is above 0) and fits in a frame, the readers get on
\* (no Crossed of PeerLink), clocks agree and ports can be bound.
MeshFairness ==
  \A d \in Daemons, c \in Conns :
    /\ WF_meshVars(Gossip(d, c))
    /\ \A h \in Hosts : SF_meshVars(EntryTaken(d, c, h))

FairMeshSpec == MeshSpec /\ MeshFairness

---------------------------------------------------------------------------
(* Properties.                                                             *)

\* A name registered for the mesh itself has a forwarder: registry and
\* forwarders have separate locks, and sessions, gc, gossip and disconnects
\* change the one without the other.
MeshNamesForwarded ==
  \A d \in Daemons, h \in Hosts : name[d][h] = "mesh" => fwd[d][h] # NoConn

\* A forwarder points to a daemon at which a node has had the name: names of
\* other daemons are not passed on, whatever gossip was under way when
\* forwarders, connections and daemons came and went.
NamesHaveOrigin ==
  \A d \in Daemons, h \in Hosts :
    fwd[d][h] # NoConn => h \in owned[PeerOf(d, h)]

Joined(d, e, c) ==
  c \in up /\ ends[c] = {d, e} /\ {<<d, c>>, <<e, c>>} \subseteq reading

\* A name that stays registered at one end of a connection gets a forwarder
\* at the other end, though a disconnect may have removed it there and the
\* entry been heard before.
NamesSpread ==
  \A d \in Daemons : \A e \in Daemons \ {d}, c \in Conns,
                        h \in {g \in Hosts : <<d, g>> \in Homes} :
    name[d][h] = "node" /\ Joined(d, e, c)
      ~> fwd[e][h] # NoConn \/ name[d][h] # "node" \/ ~Joined(d, e, c)
=============================================================================
