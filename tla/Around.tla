------------------------------- MODULE Around -------------------------------
(***************************************************************************)
(* What surrounds a running node: its start (Startup), its hidden service   *)
(* (HiddenService), the nodes it hears of others from (Gossip), and the     *)
(* programs that use it without a node of their own (Client).               *)
(*                                                                          *)
(* The parts share no state, so a behaviour is one of a single part, which  *)
(* the initial state chooses.                                               *)
(***************************************************************************)
EXTENDS Startup, Integers, Sequences

CONSTANTS
  MaxRuns,                                                 \* of HiddenService
  Nodes, Registered, Searchers, Holders, Reliable, Distance,   \* of Gossip
  hot_count, MinExp, MaxExp, MaxSearches,
  Sids, PeerDistance, Seeders, Liars, LowExp, HighExp,     \* of Client, where they are
  peers_count, min_peers_count, max_peer_count, MaxObjects \* Distance, Holders, MinExp, MaxExp

VARIABLES
  part,                                                 \* the part that runs
  start, stopped, controller, service_id, asked, run, onions, killed, cut,   \* of HiddenService
  book, search, searches, served, failed,               \* of Gossip
  obj, peers, peers_by_rating, download, discovery, in_place, upload    \* of Client

H == INSTANCE HiddenService
G == INSTANCE Gossip
C == INSTANCE Client WITH
       Distance <- PeerDistance, Holders <- Seeders, MinExp <- LowExp, MaxExp <- HighExp

ASSUME PartsAssumption ==
  /\ H!HiddenServiceAssumption /\ G!GossipAssumption /\ C!ClientAssumption
  /\ IsFiniteSet(Sids) /\ max_peer_count \in Nat
  /\ LowExp \in Int /\ HighExp \in Int /\ LowExp <= -1 /\ -1 <= HighExp

hiddenVars == <<start, stopped, controller, service_id, asked, run, onions, killed, cut>>
gossipVars == <<book, search, searches, served, failed>>
clientVars == <<obj, peers, peers_by_rating, download, discovery, in_place, upload>>

partsInit ==
  /\ part \in {"startup", "hidden service", "gossip", "client"}
  /\ Init /\ H!Init /\ G!Init /\ C!Init

Runs(p) == part = p /\ UNCHANGED part

partsNext ==
  \/ Runs("startup") /\ Next /\ UNCHANGED <<hiddenVars, gossipVars, clientVars>>
  \/ Runs("hidden service") /\ H!Next /\ UNCHANGED <<vars, gossipVars, clientVars>>
  \/ Runs("gossip") /\ G!Next /\ UNCHANGED <<vars, hiddenVars, clientVars>>
  \/ Runs("client") /\ C!Next /\ UNCHANGED <<vars, hiddenVars, gossipVars>>

\* Nothing of a part is enabled before its own first step, so the fairness of the
\* parts asks nothing of a behaviour of another part.
partsSpec ==
  /\ partsInit /\ [][partsNext]_<<part, vars, hiddenVars, gossipVars, clientVars>>
  /\ G!Fairness /\ C!Fairness

-----------------------------------------------------------------------------
\* See HiddenService: a node stopped while it is connected to Tor leaves nothing there,
\* and the address of one that runs leads to it.
TorAgrees == H!TorAgrees

\* See Gossip: a rating that travels was earned with somebody.
RatingsEarned == G!RatingsEarned

\* See Gossip: a holder in reach of a search is found.
HolderReached == G!HolderReached

\* See Client: the nearest peer that says it has the magnet is asked for it.
NearestClaimant == C!NearestClaimant

\* See Client: an upload that returns has left enough copies.
UploadQuorum == C!UploadQuorum

\* See Client: the content of a known peer arrives.
HolderSuffices == C!HolderSuffices
=============================================================================
