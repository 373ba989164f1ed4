--------------------------- MODULE PeeringService ---------------------------
(***************************************************************************)
(* Peering with an environment that asks for magnets and takes the          *)
(* DiscoveryFinished events, and the properties of the service.             *)
(***************************************************************************)
EXTENDS Peering

CONSTANTS
  MaxRequests   \* bound: DiscoveryRequests issued

ASSUME PeeringServiceAssumption == MaxRequests \in Nat

vars == peeringVars

Init == PeeringInit

\* DownloadService asks for a new publication.
NewRequest(m) ==
  /\ Quiet
  /\ Len(answers) < MaxRequests
  /\ EmitRequest(m, {})
  /\ UNCHANGED <<bookVars, found, store_q, known_q, handler, db_peers, restored, crashes>>

\* DownloadService takes a DiscoveryFinished event ...
TakeFound ==
  /\ Quiet
  /\ found # <<>>
  /\ found' = Tail(found)
  /\ UNCHANGED <<bookVars, requests, store_q, known_q, answers, handler, db_peers,
                 restored, crashes>>

\* ... and asks again, with the state it carries, if the download failed.
Retry ==
  /\ Quiet
  /\ found # <<>>
  /\ Len(answers) < MaxRequests
  /\ found' = Tail(found)
  /\ EmitRequest(Head(found).magnet, Head(found).visited)
  /\ UNCHANGED <<bookVars, store_q, known_q, handler, db_peers, restored, crashes>>

Next ==
  \/ PeeringStep
  \/ \E m \in Magnets : NewRequest(m)
  \/ TakeFound
  \/ Retry
  \/ Crash

Spec == Init /\ [][Next]_vars

\* A handler is resumed when the peer answers or the request times out (10 s);
\* the listeners of the bus and the restore task are coroutines of one loop.
Fairness ==
  /\ \A w \in Workers : WF_vars(HandlerStep(w))
  /\ WF_vars(HandlePeer)
  /\ WF_vars(StorePeer)
  /\ WF_vars(RestorePeers)
  /\ WF_vars(TakeFound)

FairSpec == Spec /\ Fairness

-----------------------------------------------------------------------------
Objects == 1 .. Len(obj)
Visited == SUBSET Objects

\* Types of the book, the queues, the handlers and the table.
TypeOK ==
  /\ obj \in Seq(Peer)
  /\ peers \in [Sids -> 0 .. Len(obj)]
  /\ peers_by_rating \in Seq(Objects)
  /\ Elements(requests) \subseteq [id : 1 .. Len(answers), magnet : Magnets, visited : Visited]
  /\ Elements(found) \subseteq [magnet : Magnets, peer : Objects, visited : Visited]
  /\ store_q \in Seq(Objects) /\ known_q \in Seq(Objects)
  /\ \A w \in Workers :
       /\ handler[w].pc \in {"idle", "ask", "learn", "head"}
       /\ handler[w].pc # "idle" => handler[w].peer \in handler[w].request.visited
       /\ handler[w].request.visited \in Visited
       /\ handler[w].todo \in Visited
       /\ handler[w].round \in -1 .. max_depth
  /\ db_peers \in [Sids -> Exps \cup {NoRow}]

\* The dictionary and the list of peers hold the same peers, each under its own
\* service id and once, and never more than max_peer_count.
BookConsistent ==
  /\ Len(peers_by_rating) <= max_peer_count
  /\ \A i, j \in DOMAIN peers_by_rating :
       peers_by_rating[i] = peers_by_rating[j] => i = j
  /\ InBook = { peers[s] : s \in { t \in Sids : peers[t] # 0 } }
  /\ \A s \in Sids : peers[s] # 0 => obj[peers[s]].sid = s

\* "Peers with lowest rating will be removed" (line 206), whatever happened to
\* the ratings since the list was last sorted: a peer that leaves the book while
\* the process runs is not rated above one that stays.
EvictsLowest ==
  [][crashes' = crashes =>
       \A i \in InBook, j \in InBook' : i \notin InBook' => obj'[i].exp <= obj'[j].exp]_vars

Searches == { handler[w].request : w \in { x \in Workers : handler[x].pc # "idle" } }
               \cup Elements(requests)

\* A search that ends without a match has asked every usable peer of the book, those
\* included that were added while it ran: "magnet discovery failed over the whole
\* visible sarafan network" (events.py:115).  It ends earlier in two cases only: it
\* has had all its rounds, and asked somebody new in each of them, or the answer of
\* a peer could not be decoded.
ExhaustiveSearch ==
  [][\A w \in Workers :
       handler[w].pc # "idle" /\ handler'[w].pc = "idle" /\ crashes' = crashes
         /\ found' = found
       => \/ Unvisited(obj', PeersByDistance(obj'), handler[w].request.visited) = {}
          \/ Cardinality(handler[w].request.visited) > max_depth
          \/ DiscoverMalformed(w)]_vars

\* While the process lives every request is answered when its search ends, and not
\* before; whatever the peers do, it gets no answer of one kind twice, and it fails
\* if nothing was found.  The state that travels with a DiscoveryFinished excludes
\* its peer from the retry.
Answers ==
  /\ \A k \in DOMAIN answers :
       LET pending == \E r \in Searches : r.id = k
           answered == answers[k].finished + answers[k].failed
       IN /\ pending => answered = 0
          /\ ~pending /\ crashes = 0 => answered > 0
          /\ answers[k].failed <= 1 /\ answers[k].finished <= 1
  /\ \A f \in Elements(found) : f.peer \in f.visited

\* Once the queue of Peer events is empty, the table has the rating of every peer
\* that was ever stored: no rating change goes without a Peer event after it.
DbCatchesUp ==
  store_q = <<>> =>
    \A s \in Sids : peers[s] # 0 /\ db_peers[s] # NoRow => db_peers[s] = obj[peers[s]].exp

\* A peer of the table is back in the book some time after every start, or the book
\* is full.
EveryRowRestored ==
  \A s \in Sids :
    db_peers[s] # NoRow ~> peers[s] # 0 \/ Len(peers_by_rating) = max_peer_count
=============================================================================
