------------------------------ MODULE PeerLink ------------------------------
(***************************************************************************)
(* One connection between two daemons (peer.rs): on each side a bounded    *)
(* queue, a writer task that empties it into the socket, and a reader task *)
(* that reads frames, handles them and, between frames or in the middle of *)
(* one, serves its two tickers.  The reader itself waits for room in the   *)
(* queue when it answers a ping or a ProxyOpen or when a ticker fires, and *)
(* reads nothing meanwhile.                                                *)
(***************************************************************************)
EXTENDS Integers, Sequences

CONSTANTS
  Sides,      \* the two daemons
  QueueSize,  \* the capacity of PeerConnection.tx
  WireSize,   \* the frames the socket buffers of one direction hold
  NoMsg       \* the writer has nothing to write

\* A message that may have to be answered (a ping always, a ProxyOpen when its
\* host cannot be reached), and all the others.
Msgs == {"Asking", "Plain"}

ASSUME SidesAssumption ==
  /\ \E a, b \in Sides : a # b /\ Sides = {a, b}
  /\ QueueSize \in Nat \ {0} /\ WireSize \in Nat \ {0}
  /\ NoMsg \notin Msgs

VARIABLES
  queue,    \* the mpsc channel of each side
  writer,   \* the message the writer of a side is writing
  wire,     \* the frames a side has written and the other not yet read
  owes,     \* what the reader of a side waits to send
  gone,     \* the sides whose reader has left
  frame,    \* how much of the next frame it has read, or has lost
  standing  \* the TCP connection stands

linkVars == <<queue, writer, wire, owes, gone, frame, standing>>

LinkTypeOK ==
  /\ queue \in [Sides -> Seq(Msgs)]
  /\ writer \in [Sides -> Msgs \cup {NoMsg}]
  /\ wire \in [Sides -> Seq(Msgs)]
  /\ \A s \in Sides : Len(queue[s]) <= QueueSize /\ Len(wire[s]) <= WireSize
  /\ owes \in [Sides -> Msgs \cup {NoMsg}]
  /\ gone \in SUBSET Sides
  /\ frame \in [Sides -> {"none", "begun", "cut"}]
  /\ standing \in BOOLEAN

LinkInit ==
  /\ queue = [s \in Sides |-> <<>>]
  /\ writer = [s \in Sides |-> NoMsg]
  /\ wire = [s \in Sides |-> <<>>]
  /\ owes = [s \in Sides |-> NoMsg]
  /\ gone = {}
  /\ frame = [s \in Sides |-> "none"]
  /\ standing = TRUE

Other(s) == CHOOSE t \in Sides : t # s

Room(s) == Len(queue[s]) < QueueSize

\* The reader of s is in its select.
Selecting(s) == owes[s] = NoMsg /\ s \notin gone

Enqueued(s, m) == queue' = [queue EXCEPT ![s] = Append(@, m)]

---------------------------------------------------------------------------
\* A proxied stream, a session or the handshake's caller sends; with a full
\* queue it waits in its own task.
Produce(s, m) ==
  /\ standing
  /\ Room(s)
  /\ Enqueued(s, m)
  /\ UNCHANGED <<writer, wire, owes, gone, frame, standing>>

\* A message that cannot be encoded or that no frame holds is dropped.
WriterTakes(s) ==
  /\ standing
  /\ writer[s] = NoMsg
  /\ queue[s] # <<>>
  /\ writer' \in {writer, [writer EXCEPT ![s] = Head(queue[s])]}
  /\ queue' = [queue EXCEPT ![s] = Tail(@)]
  /\ UNCHANGED <<wire, owes, gone, frame, standing>>

WriterWrites(s) ==
  /\ standing
  /\ writer[s] # NoMsg
  /\ Len(wire[s]) < WireSize
  /\ wire' = [wire EXCEPT ![s] = Append(@, writer[s])]
  /\ writer' = [writer EXCEPT ![s] = NoMsg]
  /\ UNCHANGED <<queue, owes, gone, frame, standing>>

\* Mutant: the writer keeps the transport locked until the frame is written.
LockedByWriter(s) == writer[s] = NoMsg

\* The writer locks the transport to encrypt, never across a write, so the
\* reader gets the lock whenever it has a frame to decrypt.
TransportFree(s) == TRUE

\* The select has taken the first bytes of a frame.
ReaderBegins(s) ==
  /\ Selecting(s)
  /\ frame[s] = "none"
  /\ wire[Other(s)] # <<>>
  /\ frame' = [frame EXCEPT ![s] = "begun"]
  /\ UNCHANGED <<queue, writer, wire, owes, gone, standing>>

\* What handle_incoming may still have to send when it has handled m.
Answers(m) == IF m = "Asking" THEN {"Plain", NoMsg} ELSE {NoMsg}

\* The frame is complete: it is decrypted and handled.
ReaderHandles(s) ==
  /\ Selecting(s)
  /\ frame[s] = "begun"
  /\ TransportFree(s)
  /\ wire' = [wire EXCEPT ![Other(s)] = Tail(@)]
  /\ frame' = [frame EXCEPT ![s] = "none"]
  /\ \E m \in Answers(Head(wire[Other(s)])) : owes' = [owes EXCEPT ![s] = m]
  /\ UNCHANGED <<queue, writer, gone, standing>>

\* A ticker fires, for a ping or for gossip.  The select drops the other
\* branch, with the bytes that read_exact has taken of a frame.
TickerFires(s) ==
  /\ Selecting(s)
  /\ \E m \in Msgs : owes' = [owes EXCEPT ![s] = m]
  /\ frame' = [frame EXCEPT ![s] = IF @ = "begun" THEN "cut" ELSE @]
  /\ UNCHANGED <<queue, writer, wire, gone, standing>>

\* send().await of the reader: there is room, or the writer is gone and the
\* channel closed.
ReaderSends(s) ==
  /\ owes[s] # NoMsg
  /\ \/ standing /\ Room(s) /\ Enqueued(s, owes[s])
     \/ ~standing /\ UNCHANGED queue
  /\ owes' = [owes EXCEPT ![s] = NoMsg]
  /\ UNCHANGED <<writer, wire, gone, frame, standing>>

\* After lost bytes the rest of a frame is taken for the head of another: it
\* fails to decrypt, or its length keeps the reader waiting for more.
ReaderMisreads(s) ==
  /\ Selecting(s)
  /\ frame[s] = "cut"
  /\ wire[Other(s)] # <<>>
  /\ wire' = [wire EXCEPT ![Other(s)] = Tail(@)]
  /\ gone' \in {gone, gone \cup {s}}
  /\ UNCHANGED <<queue, writer, owes, frame, standing>>

\* The connection has failed and nothing is left to read.
ReaderLeaves(s) ==
  /\ Selecting(s)
  /\ ~standing
  /\ wire[Other(s)] = <<>>
  /\ gone' = gone \cup {s}
  /\ UNCHANGED <<queue, writer, wire, owes, frame, standing>>

\* Writes fail, the writers end and drop what is queued.
LinkFails ==
  /\ standing
  /\ standing' = FALSE
  /\ queue' = [s \in Sides |-> <<>>]
  /\ writer' = [s \in Sides |-> NoMsg]
  /\ UNCHANGED <<wire, owes, gone, frame>>

\* A new connection, with tasks of its own.
LinkRenewed ==
  /\ gone = Sides
  /\ queue' = [s \in Sides |-> <<>>]
  /\ writer' = [s \in Sides |-> NoMsg]
  /\ wire' = [s \in Sides |-> <<>>]
  /\ gone' = {}
  /\ UNCHANGED owes
  /\ frame' = [s \in Sides |-> "none"]
  /\ standing' = TRUE

WriterStep(s) == WriterTakes(s) \/ WriterWrites(s)

ReadStep(s) ==
  ReaderBegins(s) \/ ReaderHandles(s) \/ ReaderMisreads(s) \/ ReaderLeaves(s)

LinkNext ==
  \/ \E s \in Sides : \/ \E m \in Msgs : Produce(s, m)
                      \/ WriterStep(s) \/ ReadStep(s) \/ ReaderSends(s)
                      \/ TickerFires(s)
  \/ LinkFails
  \/ LinkRenewed

LinkSpec == LinkInit /\ [][LinkNext]_linkVars

\* The runtime polls the tasks of each side; the select takes its branches at
\* random, and the channel admits those who wait for room in their order.
LinkFairness ==
  \A s \in Sides : /\ WF_linkVars(WriterStep(s))
                   /\ SF_linkVars(ReadStep(s))
                   /\ SF_linkVars(ReaderSends(s))

---------------------------------------------------------------------------
(* Properties.                                                             *)

\* Nothing moves any more: both readers wait for room in queues that only
\* the other reader could empty.
Crossed ==
  \A s \in Sides : /\ owes[s] # NoMsg /\ ~Room(s)
                   /\ writer[s] # NoMsg /\ Len(wire[s]) = WireSize

\* A reader that waits to send goes back to reading, unless both of them wait
\* for each other or the other one has left: nothing else in the link, the
\* shared transport included, can hold it up (peer.rs).
ReaderReturns ==
  \A s \in Sides :
    owes[s] # NoMsg ~> owes[s] = NoMsg \/ Crossed \/ Other(s) \in gone
=============================================================================
