---------------------------- MODULE ProxyStreams ----------------------------
(***************************************************************************)
(* One proxied stream (forward.rs): a local client at the daemon that asks *)
(* and a service at the one that answers, each with two pumps between its  *)
(* socket and the link, and an entry in PROXY_STREAMS by which the reader  *)
(* of the link finds the queue of the stream.  The entry is removed by     *)
(* whoever ends first.  Stream ids are drawn at random and meet once.      *)
(***************************************************************************)
EXTENDS Integers, Sequences, FiniteSets

CONSTANTS
  Asker,      \* the side whose client connects to the forwarder
  Server,     \* the side that is asked
  ChunksOf,   \* bound on what each local end sends
  ChunkRoom,  \* 64: the chunks the queue of a stream holds
  LinkRoom    \* the messages on their way in one direction of the link

Ends == {Asker, Server}

ASSUME StreamAssumption ==
  /\ Asker # Server
  /\ ChunksOf \in [Ends -> Nat]
  /\ ChunkRoom \in Nat \ {0} /\ LinkRoom \in Nat \ {0}

VARIABLES
  asking,    \* how far run_proxy_client is
  entries,    \* the sides with an entry in PROXY_STREAMS
  chunks,     \* the queue of each side, from the link's reader to its socket
  toPeer,     \* pump_to_peer of each side
  fromPeer,   \* pump_from_peer of each side
  socket,     \* "open", "shut" for writing, or "closed" by the local end
  sent,       \* how many chunks the pump has read that a frame can hold
  link,       \* the messages each side has sent and the other not yet handled
  linked,     \* the link stands
  stopped,    \* the sides whose reader takes no more while the link stands
  got,        \* the chunks each local end has received
  overrun     \* the sides whose queue was full when a chunk came (history)

streamVars == <<asking, entries, chunks, toPeer, fromPeer, socket, sent, link,
                linked, got, overrun, stopped>>

Chunks(s) == [kind : {"data"}, chunk : 1 .. ChunksOf[s]]
Messages(s) == Chunks(s) \cup {[kind |-> "open"], [kind |-> "close"]}

Far(s) == IF s = Asker THEN Server ELSE Asker

StreamTypeOK ==
  /\ asking \in {"idle", "inserted", "asked", "failed", "open", "refused"}
  /\ entries \in SUBSET Ends
  /\ toPeer \in [Ends -> {"off", "reading", "holding", "oversize", "closing",
                          "leaving", "ended"}]
  /\ fromPeer \in [Ends -> {"off", "running", "ended", "broken"}]
  /\ socket \in [Ends -> {"open", "shut", "closed"}]
  /\ \A s \in Ends : /\ chunks[s] \in Seq(1 .. ChunksOf[Far(s)])
                     /\ got[s] \in Seq(1 .. ChunksOf[Far(s)])
                     /\ Len(chunks[s]) <= ChunkRoom
                     /\ sent[s] \in 0 .. ChunksOf[s]
                     /\ link[s] \in Seq(Messages(s))
  /\ linked \in BOOLEAN
  /\ overrun \in SUBSET Ends
  /\ stopped \in SUBSET Ends

StreamInit ==
  /\ asking = "idle"
  /\ entries = {}
  /\ chunks = [s \in Ends |-> <<>>]
  /\ toPeer = [s \in Ends |-> "off"]
  /\ fromPeer = [s \in Ends |-> "off"]
  /\ socket = [s \in Ends |-> "open"]
  /\ sent = [s \in Ends |-> 0]
  /\ link = [s \in Ends |-> <<>>]
  /\ linked = TRUE
  /\ got = [s \in Ends |-> <<>>]
  /\ overrun = {}
  /\ stopped = {}

---------------------------------------------------------------------------
(* Sending.  tx.send waits for room, for ever if the other side's reader    *)
(* has stopped, and fails when the link is gone.                           *)

CanSend(s) == linked /\ Len(link[s]) < LinkRoom
Sent(s, m) == link' = [link EXCEPT ![s] = Append(@, m)]

SendsOrFails(s, m) == \/ CanSend(s) /\ Sent(s, m)
                      \/ ~linked /\ UNCHANGED link

PumpsStart(s) == /\ toPeer' = [toPeer EXCEPT ![s] = "reading"]
                 /\ fromPeer' = [fromPeer EXCEPT ![s] = "running"]

\* A client has connected to the forwarder.
StreamBegins ==
  /\ asking = "idle"
  /\ asking' = "inserted"
  /\ entries' = entries \cup {Asker}
  /\ UNCHANGED <<chunks, toPeer, fromPeer, socket, sent, link, linked, got,
                 overrun, stopped>>

AskOpen ==
  /\ asking = "inserted"
  /\ CanSend(Asker)
  /\ Sent(Asker, [kind |-> "open"])
  /\ asking' = "asked"
  /\ PumpsStart(Asker)
  /\ UNCHANGED <<entries, chunks, socket, sent, linked, got,
                 overrun, stopped>>

\* The entry stays, and nothing will remove it.
AskFails ==
  /\ asking = "inserted"
  /\ ~linked
  /\ asking' = "failed"
  /\ UNCHANGED <<entries, chunks, toPeer, fromPeer, socket, sent, link, linked,
                 got, overrun, stopped>>

---------------------------------------------------------------------------
(* The reader of the link at side s.                                       *)

Arrives(s, m) ==
  linked /\ s \notin stopped /\ link[Far(s)] # <<>> /\ Head(link[Far(s)]) = m

Taken(s) == [link EXCEPT ![Far(s)] = Tail(@)]

\* The host is known and its service answers.
OpenAccepted ==
  /\ Arrives(Server, [kind |-> "open"])
  /\ link' = Taken(Server)
  /\ asking' = "open"
  /\ entries' = entries \cup {Server}
  /\ PumpsStart(Server)
  /\ UNCHANGED <<chunks, socket, sent, linked, got,
                 overrun, stopped>>

\* The reader waits until there is room for its answer.
OpenRefused ==
  /\ Arrives(Server, [kind |-> "open"])
  /\ CanSend(Server)
  /\ link' = [Taken(Server) EXCEPT ![Server] = Append(@, [kind |-> "close"])]
  /\ asking' = "refused"
  /\ UNCHANGED <<entries, chunks, toPeer, fromPeer, socket, sent, linked, got,
                 overrun, stopped>>

\* try_send: a full queue drops the chunk, as does one that nobody reads.
DataArrives(s, m) ==
  /\ Arrives(s, m) /\ m.kind = "data"
  /\ link' = Taken(s)
  /\ IF s \in entries /\ fromPeer[s] = "running" /\ Len(chunks[s]) < ChunkRoom
       THEN /\ chunks' = [chunks EXCEPT ![s] = Append(@, m.chunk)]
            /\ UNCHANGED overrun
       ELSE /\ overrun' = IF Len(chunks[s]) = ChunkRoom
                            THEN overrun \cup {s} ELSE overrun
            /\ UNCHANGED chunks
  /\ UNCHANGED <<asking, entries, toPeer, fromPeer, socket, sent, linked, got,
                 stopped>>

\* Mutant: the queue goes with its entry.
NothingLeft(s) == <<>>

\* The pump still empties a queue whose sender is gone.
LeftInQueue(s) == chunks[s]

CloseArrives(s) ==
  /\ Arrives(s, [kind |-> "close"])
  /\ link' = Taken(s)
  /\ entries' = entries \ {s}
  /\ chunks' = [chunks EXCEPT ![s] = LeftInQueue(s)]
  /\ UNCHANGED <<asking, toPeer, fromPeer, socket, sent, linked, got,
                 overrun, stopped>>

---------------------------------------------------------------------------
(* The pumps of side s.  A chunk of 16 KiB whose bytes take three digits    *)
(* each is more JSON than a frame can hold: it has no number here.          *)

PumpReads(s) ==
  /\ toPeer[s] = "reading"
  /\ socket[s] = "open"
  /\ sent[s] < ChunksOf[s]
  /\ sent' = [sent EXCEPT ![s] = @ + 1]
  /\ toPeer' = [toPeer EXCEPT ![s] = "holding"]
  /\ UNCHANGED <<asking, entries, chunks, fromPeer, socket, link, linked, got,
                 overrun, stopped>>

PumpSends(s) ==
  /\ toPeer[s] = "holding"
  /\ SendsOrFails(s, [kind |-> "data", chunk |-> sent[s]])
  /\ toPeer' = [toPeer EXCEPT ![s] = IF linked THEN "reading" ELSE "closing"]
  /\ UNCHANGED <<asking, entries, chunks, fromPeer, socket, sent, linked, got,
                 overrun, stopped>>

PumpReadsOversize(s) ==
  /\ toPeer[s] = "reading"
  /\ socket[s] = "open"
  /\ toPeer' = [toPeer EXCEPT ![s] = "oversize"]
  /\ UNCHANGED <<asking, entries, chunks, fromPeer, socket, sent, link, linked,
                 got, overrun, stopped>>

\* It is sent as the others are, and the writer of the link drops it.
PumpSendsOversize(s) ==
  /\ toPeer[s] = "oversize"
  /\ CanSend(s) \/ ~linked
  /\ toPeer' = [toPeer EXCEPT ![s] = IF linked THEN "reading" ELSE "closing"]
  /\ UNCHANGED <<asking, entries, chunks, fromPeer, socket, sent, link, linked,
                 got, overrun, stopped>>

PumpMeetsEnd(s) ==
  /\ toPeer[s] = "reading"
  /\ socket[s] # "open"
  /\ toPeer' = [toPeer EXCEPT ![s] = "closing"]
  /\ UNCHANGED <<asking, entries, chunks, fromPeer, socket, sent, link, linked,
                 got, overrun, stopped>>

PumpCloses(s) ==
  /\ toPeer[s] = "closing"
  /\ SendsOrFails(s, [kind |-> "close"])
  /\ toPeer' = [toPeer EXCEPT ![s] = "leaving"]
  /\ UNCHANGED <<asking, entries, chunks, fromPeer, socket, sent, linked, got,
                 overrun, stopped>>

\* Mutant: only a close from the other side removes the entry.
EntryKept(s) == entries

EntryRemoved(s) == entries \ {s}

PumpLeaves(s) ==
  /\ toPeer[s] = "leaving"
  /\ toPeer' = [toPeer EXCEPT ![s] = "ended"]
  /\ entries' = EntryRemoved(s)
  /\ UNCHANGED <<asking, chunks, fromPeer, socket, sent, link, linked, got,
                 overrun, stopped>>

PumpDelivers(s) ==
  /\ fromPeer[s] = "running"
  /\ chunks[s] # <<>>
  /\ socket[s] # "closed"
  /\ got' = [got EXCEPT ![s] = Append(@, Head(chunks[s]))]
  /\ chunks' = [chunks EXCEPT ![s] = Tail(@)]
  /\ UNCHANGED <<asking, entries, toPeer, fromPeer, socket, sent, link, linked,
                 overrun, stopped>>

\* The local end takes nothing more.
PumpBreaks(s) ==
  /\ fromPeer[s] = "running"
  /\ chunks[s] # <<>>
  /\ socket[s] = "closed"
  /\ fromPeer' = [fromPeer EXCEPT ![s] = "broken"]
  /\ chunks' = [chunks EXCEPT ![s] = <<>>]
  /\ entries' = EntryRemoved(s)
  /\ UNCHANGED <<asking, toPeer, socket, sent, link, linked, got,
                 overrun, stopped>>

\* The queue is empty and its sender gone with the entry.
PumpEnds(s) ==
  /\ fromPeer[s] = "running"
  /\ chunks[s] = <<>>
  /\ s \notin entries
  /\ fromPeer' = [fromPeer EXCEPT ![s] = "ended"]
  /\ UNCHANGED <<asking, entries, chunks, toPeer, socket, sent, link, linked,
                 got, overrun, stopped>>

---------------------------------------------------------------------------
(* The surroundings.                                                       *)

\* A client that has connected, or a service that was reached, shuts its side
\* for writing or closes altogether.
SocketEnds(s, how) ==
  /\ toPeer[s] # "off" \/ (s = Asker /\ asking = "inserted")
  /\ \/ socket[s] = "open" /\ how \in {"shut", "closed"}
     \/ socket[s] = "shut" /\ how = "closed"
  /\ socket' = [socket EXCEPT ![s] = how]
  /\ UNCHANGED <<asking, entries, chunks, toPeer, fromPeer, sent, link, linked,
                 got, overrun, stopped>>

\* The reader of side s has ended on a frame it cannot decrypt, while tasks
\* that still hold a sender keep the writer and the socket; or it waits for
\* ever for room in its own queue (Crossed in PeerLink).
ReaderStops(s) ==
  /\ asking # "idle" /\ linked /\ s \notin stopped
  /\ stopped' = stopped \cup {s}
  /\ UNCHANGED <<asking, entries, chunks, toPeer, fromPeer, socket, sent, link,
                 linked, got, overrun>>

StreamLinkFails ==
  /\ linked
  /\ linked' = FALSE
  /\ link' = [s \in Ends |-> <<>>]
  /\ stopped' = {}
  /\ UNCHANGED <<asking, entries, chunks, toPeer, fromPeer, socket, sent, got,
                 overrun>>

AskStep == StreamBegins \/ AskOpen \/ AskFails

LinkStep(s) ==
  \/ s = Server /\ (OpenAccepted \/ OpenRefused)
  \/ \E m \in Chunks(Far(s)) : DataArrives(s, m)
  \/ CloseArrives(s)

ToPeerStep(s) ==
  PumpReads(s) \/ PumpSends(s) \/ PumpReadsOversize(s) \/ PumpSendsOversize(s)
    \/ PumpMeetsEnd(s) \/ PumpCloses(s) \/ PumpLeaves(s)

FromPeerStep(s) == PumpDelivers(s) \/ PumpBreaks(s) \/ PumpEnds(s)

StreamNext ==
  \/ AskStep
  \/ \E s \in Ends : \/ LinkStep(s) \/ ToPeerStep(s) \/ FromPeerStep(s)
                     \/ \E how \in {"shut", "closed"} : SocketEnds(s, how)
                     \/ ReaderStops(s)
  \/ StreamLinkFails

StreamSpec == StreamInit /\ [][StreamNext]_streamVars

\* The runtime polls the tasks, and the readers of a link that stands as long
\* as they have not stopped.
StreamFairness ==
  /\ WF_streamVars(AskOpen \/ AskFails)
  /\ \A s \in Ends : /\ WF_streamVars(LinkStep(s))
                     /\ WF_streamVars(ToPeerStep(s))
                     /\ WF_streamVars(FromPeerStep(s))

---------------------------------------------------------------------------
(* Properties.                                                             *)

\* The chunks that side s has sent and the other not handled, and the one its
\* pump holds.
OnTheWay(s) == {i \in DOMAIN link[s] : link[s][i].kind = "data"}
Held(s) == IF toPeer[s] = "holding" THEN 1 ELSE 0

\* No chunk that a frame can hold gets lost or changes its place between two
\* local ends, neither by those that a frame cannot hold and that go missing
\* between them, nor by what is sent before the stream is open, nor by the end
\* of the side that sends: unless the link fails, the stream is refused, a
\* queue overflows or the receiving side ends its own half, which cuts off the
\* other one.  What has come is the beginning of what was sent, and the rest
\* is on its way.
StreamKeepsData ==
  \A s \in Ends :
    LET t    == Far(s)
        come == got[t] \o chunks[t]
    IN  linked /\ asking # "refused" /\ t \notin overrun
        /\ toPeer[t] \in {"off", "reading", "holding", "oversize"}
        /\ fromPeer[t] # "broken"
      => /\ come = [i \in 1 .. Len(come) |-> i]
         /\ \A i \in OnTheWay(s) :
              link[s][i].chunk =
                Len(come) + Cardinality({j \in OnTheWay(s) : j <= i})
         /\ sent[s] = Len(come) + Cardinality(OnTheWay(s)) + Held(s)

\* Side s has filled what the other side's reader does not empty any more.
Blocked(s) == linked /\ Far(s) \in stopped /\ Len(link[s]) = LinkRoom

\* In the end no side whose local end has ended has an entry, except for one
\* whose ask failed or whose pump waits for room behind a reader that has
\* stopped; nor has the other side, unless the link fails or the reader that
\* is to be told has stopped.
StreamsEnd ==
  <>[]\A s \in Ends :
        socket[s] # "open" =>
          /\ s \in entries => (s = Asker /\ asking = "failed") \/ Blocked(s)
          /\ Far(s) \in entries => ~linked \/ Far(s) \in stopped
=============================================================================
