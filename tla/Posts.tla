-------------------------------- MODULE Posts --------------------------------
(***************************************************************************)
(* The way of a post: an author's bundle (Bundle), its publication          *)
(* (Publish), the call and the log that tell all nodes of it (Contract),    *)
(* and the feed in which it is read (Feed).                                 *)
(*                                                                          *)
(* The parts share no state, so a behaviour is one of a single part, which  *)
(* the initial state chooses: interleaving them would only multiply states. *)
(***************************************************************************)
EXTENDS Publish

CONSTANTS
  FeedMagnets, per_page, SameSecond, Restored, MaxStores,      \* of Feed
  Nodes, TextNames, ImageNames, Texts, ForeignBundles,         \* of Bundle
  MaxDrafts, MaxStarts,
  Hashes, Replies, ServiceIds, ForeignWords, Sizes,            \* of Contract
  Word, MaxUint32, MaxLogs

VARIABLES
  part,                                                        \* the part that runs
  rows, clock, fetch, shown, cursor, ended, first,             \* of Feed
  order, created, posts, processed, starts,                    \* of Bundle
  logs, events                                                 \* of Contract

F == INSTANCE Feed WITH Magnets <- FeedMagnets, publications <- shown
B == INSTANCE Bundle
C == INSTANCE Contract WITH Magnets <- Hashes

ASSUME PartsAssumption == F!FeedAssumption /\ B!BundleAssumption /\ C!ContractAssumption

feedVars == <<rows, clock, fetch, shown, cursor, ended, first>>
bundleVars == <<order, created, posts, processed, starts>>
contractVars == <<logs, events>>

\* Only the bundles start in different ways.
partsInit ==
  /\ part \in {"publish", "feed", "bundle", "contract"}
  /\ Init /\ F!Init /\ B!Init /\ C!Init
  /\ part # "bundle" => order = CHOOSE o \in [Nodes -> B!Orders] : TRUE

Runs(p) == part = p /\ UNCHANGED part

partsNext ==
  \/ Runs("publish") /\ Next /\ UNCHANGED <<feedVars, bundleVars, contractVars>>
  \/ Runs("feed") /\ F!Next /\ UNCHANGED <<vars, bundleVars, contractVars>>
  \/ Runs("bundle") /\ B!Next /\ UNCHANGED <<vars, feedVars, contractVars>>
  \/ Runs("contract") /\ C!Next /\ UNCHANGED <<vars, feedVars, bundleVars>>

partsSpec == partsInit /\ [][partsNext]_<<part, vars, feedVars, bundleVars, contractVars>>

-----------------------------------------------------------------------------
\* See Feed: no post is shown twice.
NoDuplicates == F!NoDuplicates

\* See Feed: none is left out.
NothingSkipped == F!NothingSkipped

\* See Bundle: what create_post wrote is what every node shows.
CreatedReadable == B!CreatedReadable

\* See Bundle: a bundle with a content.json is the same for all.
JSONDecides == B!JSONDecides

\* See Contract: what a node sends to a contract is what every node reads.
ReadAsSent == C!ReadAsSent
=============================================================================
