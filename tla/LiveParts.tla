------------------------------ MODULE LiveParts -----------------------------
(***************************************************************************)
(* Parts of a daemon that share no state and whose promises are about      *)
(* whole behaviours, each alone: one connection between two daemons, host  *)
(* names over one connection, published ports, a proxied stream, and the   *)
(* key-value area of the registry as a map.  A behaviour is one of the     *)
(* part that its first state names.                                        *)
(***************************************************************************)
EXTENDS PeerLink, MeshNames, PortForwards, ProxyStreams, RegistryKv

VARIABLE part

liveVars == <<part, linkVars, meshVars, forwardVars, streamVars, kvVars>>

Parts == {"link", "names", "forwards", "streams", "kv"}

LiveTypeOK ==
  /\ part \in Parts
  /\ LinkTypeOK /\ MeshTypeOK /\ ForwardTypeOK /\ StreamTypeOK /\ KvTypeOK

LiveInit ==
  /\ part \in Parts
  /\ LinkInit /\ MeshInit /\ ForwardInit /\ StreamInit /\ KvInit

LiveNext ==
  /\ UNCHANGED part
  /\ \/ /\ part = "link" /\ LinkNext
        /\ UNCHANGED <<meshVars, forwardVars, streamVars, kvVars>>
     \/ /\ part = "names" /\ MeshNext
        /\ UNCHANGED <<linkVars, forwardVars, streamVars, kvVars>>
     \/ /\ part = "forwards" /\ ForwardNext
        /\ UNCHANGED <<linkVars, meshVars, streamVars, kvVars>>
     \/ /\ part = "streams" /\ StreamNext
        /\ UNCHANGED <<linkVars, meshVars, forwardVars, kvVars>>
     \/ /\ part = "kv" /\ KvNext
        /\ UNCHANGED <<linkVars, meshVars, forwardVars, streamVars>>

\* LinkFairness, MeshFairness and StreamFairness, each of its own part.
LiveFairness ==
  /\ \A s \in Sides :
       /\ WF_linkVars(part = "link" /\ WriterStep(s))
       /\ SF_linkVars(part = "link" /\ ReadStep(s))
       /\ SF_linkVars(part = "link" /\ ReaderSends(s))
  /\ \A d \in Daemons, c \in Conns :
       /\ WF_meshVars(part = "names" /\ Gossip(d, c))
       /\ \A h \in Hosts : SF_meshVars(part = "names" /\ EntryTaken(d, c, h))
  /\ WF_streamVars(part = "streams" /\ (AskOpen \/ AskFails))
  /\ \A s \in Ends : /\ WF_streamVars(part = "streams" /\ LinkStep(s))
                     /\ WF_streamVars(part = "streams" /\ ToPeerStep(s))
                     /\ WF_streamVars(part = "streams" /\ FromPeerStep(s))

LiveSpec == LiveInit /\ [][LiveNext]_liveVars /\ LiveFairness
=============================================================================
