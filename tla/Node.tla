-------------------------------- MODULE Node --------------------------------
(***************************************************************************)
(* A sarafan node: the services of Application wired over one bus, with the *)
(* contract events coming in.  EventService specifies how the events of a   *)
(* contract arrive: each once per run of the process, from block 0 again    *)
(* after every start.                                                       *)
(***************************************************************************)
EXTENDS Peering, Download

VARIABLES
  published,   \* external: magnets with a Publication event on the chain
  seen         \* those whose event was emitted since the process started

vars == <<peeringVars, downloadVars, published, seen>>
peeringOwn == <<bookVars, handler, db_peers, restored, crashes>>

Init ==
  /\ PeeringInit
  /\ DownloadInit
  /\ published = {}
  /\ seen = {}

\* Somebody posts to the content contract.
Post(m) ==
  /\ Quiet
  /\ m \notin published
  /\ published' = published \cup {m}
  /\ UNCHANGED <<peeringVars, downloadVars, seen>>

\* ContractEventService emits the Publication.
PublicationEvent(m) ==
  /\ Quiet
  /\ m \in published \ seen
  /\ seen' = seen \cup {m}
  /\ ProcessNewPublication(m)
  /\ UNCHANGED <<peeringOwn, published>>

\* A download from a reliable peer succeeds.
Refusable(w) == loader[w] # NoEvent /\ obj[loader[w].peer].sid \notin Reliable

LoaderStep(w) ==
  /\ Quiet
  /\ \/ StartDownload(w)
     \/ DownloadDone(w)
     \/ Refusable(w) /\ DownloadFails(w)
     \/ Refusable(w) /\ DownloadRaises(w)
  /\ UNCHANGED <<peeringOwn, published, seen>>

AppStep ==
  /\ Quiet
  /\ ProcessFinishedDownload
  /\ UNCHANGED <<peeringOwn, published, seen>>

Restart ==
  /\ Crash
  /\ DownloadCrash
  /\ seen' = {}
  /\ UNCHANGED published

Next ==
  \/ PeeringStep /\ UNCHANGED <<downloadVars, published, seen>>
  \/ \E m \in Magnets : Post(m) \/ PublicationEvent(m)
  \/ \E w \in Loaders : LoaderStep(w)
  \/ AppStep
  \/ Restart

Spec == Init /\ [][Next]_vars

Own(A) == A /\ UNCHANGED <<downloadVars, published, seen>>

\* Every coroutine that can run is resumed, peers answer or time out, and the
\* events of the two contracts arrive.
Fairness ==
  /\ \A w \in Workers : WF_vars(Own(HandlerStep(w)))
  /\ WF_vars(Own(HandlePeer))
  /\ WF_vars(Own(StorePeer))
  /\ WF_vars(Own(RestorePeers))
  /\ \A s \in Sids : WF_vars(Own(HandleNewPeer(s)))
  /\ \A m \in Magnets : WF_vars(PublicationEvent(m))
  /\ \A w \in Loaders : WF_vars(LoaderStep(w))
  /\ WF_vars(AppStep)

FairSpec == Spec /\ Fairness

-----------------------------------------------------------------------------
\* A post appears, and its download is announced, only when its file is in place,
\* and that survives every crash.
PostsHaveFiles == posts \cup Elements(finished_q) \subseteq stored

\* "DownloadService can re-emmit DiscoveryRequest with a list of failed peers"
\* (events.py:97): the peer a download failed from is not downloaded from again.
NoSecondTry ==
  \A w \in Loaders : loader[w] # NoEvent =>
    \A t \in refused : t[1] = loader[w].magnet => obj[t[2]].sid # obj[loader[w].peer].sid

\* The search for a publication, with its retries, comes to an end, and before the
\* bound on requests would end it.
SearchEnds ==
  <>[](/\ requests = <<>> /\ found = <<>> /\ Len(answers) < MaxAnswers
       /\ \A w \in Workers : handler[w].pc = "idle"
       /\ \A w \in Loaders : loader[w] = NoEvent)

\* A reliable peer is in the book, may be asked and was not asked in this search.
SeederAhead(r) ==
  \E s \in Reliable :
    /\ peers[s] # 0
    /\ Usable(obj, peers[s])
    /\ \A v \in r.visited : obj[v].sid # s

\* If a reliable peer is known when a search starts, the publication ends up in
\* storage and among the posts, whatever the other peers answer.
SeederSuffices ==
  \A m \in Magnets :
    (\E r \in Elements(requests) : r.magnet = m /\ SeederAhead(r)) ~> m \in stored \cap posts
=============================================================================
