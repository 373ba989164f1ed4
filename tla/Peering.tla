------------------------------ MODULE Peering -------------------------------
(***************************************************************************)
(* PeeringService (sarafan/peering/service.py) with the part of             *)
(* DatabaseService (sarafan/database/service.py) that keeps its peers.      *)
(*                                                                          *)
(* A discovery handler asks the peers of the book about a magnet, nearest   *)
(* first, and adds the peers it hears of.  It suspends at its two requests  *)
(* to a peer, discover and has_magnet; between them it runs without giving  *)
(* up control, and an action stands for all it does from one suspension to  *)
(* the next.  Only the loop over the received peers is several steps, which *)
(* nothing interleaves (see Quiet).                                         *)
(***************************************************************************)
EXTENDS PeerBook, Bus

CONSTANTS
  Workers,      \* discovery handlers that may run at the same time
  max_depth,    \* the last round of a search
  Distance,     \* Distance[magnet][sid]
  NearLists,    \* what peers answer to discover: sequences of Peer records
  Reliable,     \* service ids of peers that answer every request and have every magnet
  Malformed,    \* may a peer answer something discover() cannot decode?
  MaxObjects,   \* bound: Peer objects created between two crashes
  MaxCrashes    \* bound: crashes of the process

ASSUME PeeringAssumption ==
  /\ max_depth \in Nat
  /\ Distance \in [Magnets -> [Sids -> Nat]]
  /\ \A m \in Magnets, s, t \in Sids : Distance[m][s] = Distance[m][t] => s = t
  /\ NearLists \subseteq Seq(Peer)
  /\ Reliable \subseteq Sids
  /\ Malformed \in BOOLEAN
  /\ MaxObjects \in Nat
  /\ MaxCrashes \in Nat

VARIABLES
  handler,    \* the locals of each running handle_discovery_request
  db_peers,   \* table sarafan_peers: service id -> rating, or NoRow
  restored,   \* has restore_peers run since the start?
  crashes

peeringVars == <<bookVars, busVars, handler, db_peers, restored, crashes>>

NoRow == MinExp - 1
NoRequest == [id |-> 0, magnet |-> CHOOSE m \in Magnets : TRUE, visited |-> {}]

IdleHandler ==
  [pc |-> "idle", request |-> NoRequest, todo |-> {}, round |-> -1,
   peer |-> 0, near |-> <<>>]

PeeringInit ==
  /\ BookInit
  /\ BusInit
  /\ handler = [w \in Workers |-> IdleHandler]
  /\ db_peers = [s \in Sids |-> NoRow]
  /\ restored = FALSE
  /\ crashes = 0

\* No handler is inside its loop over the peers it received.
Quiet == \A w \in Workers : handler[w].pc # "learn"

-----------------------------------------------------------------------------
(* Adding peers.                                                            *)

\* Peer(...) followed by add_peer, for a record whose service id is not known.
AddNew(record) ==
  /\ Len(obj) < MaxObjects
  /\ obj' = Append(obj, record)
  /\ AddPeer(obj', Len(obj) + 1)

\* handle_new_peers: NewPeer of the peering contract.
HandleNewPeer(sid) ==
  /\ Quiet
  /\ ~Known(sid)
  /\ AddNew([sid |-> sid, exp |-> Initial])
  /\ UNCHANGED <<busVars, handler, db_peers, restored, crashes>>

\* Mutant: the event is dropped.
HandlePeer_Drops ==
  /\ Quiet
  /\ known_q # <<>>
  /\ known_q' = Tail(known_q)
  /\ UNCHANGED <<bookVars, requests, found, store_q, answers, handler, db_peers,
                 restored, crashes>>

\* restored_peers_listener: a Peer event whose service id may not be known.
HandlePeer ==
  /\ Quiet
  /\ known_q # <<>>
  /\ known_q' = Tail(known_q)
  /\ AddPeer(obj, Head(known_q))
  /\ UNCHANGED <<obj, requests, found, store_q, answers, handler, db_peers,
                 restored, crashes>>

-----------------------------------------------------------------------------
(* handle_discovery_request.                                                *)

\* `peer in visited_peers`: the same object or one with equal fields.
Unvisited(o, ids, visited) == { i \in ids : \A v \in visited : o[v] # o[i] }

DistanceOf(o, magnet, i) == Distance[magnet][o[i].sid]

\* peers_by_distance, as the set it yields.
PeersByDistance(o) == { i \in InBook : Usable(o, i) }

\* The handler visits the nearest of `ids`, of which `todo` are the peers of
\* the round that come after it, and awaits discover().
Contact(o, r, ids, todo, round) ==
  LET nearest == CHOOSE i \in ids :
        \A j \in ids : DistanceOf(o, r.magnet, i) <= DistanceOf(o, r.magnet, j)
  IN [pc |-> "ask",
      request |-> [r EXCEPT !.visited = @ \cup {nearest}],
      todo |-> { j \in todo :
                   DistanceOf(o, r.magnet, nearest) < DistanceOf(o, r.magnet, j) },
      round |-> round, peer |-> nearest, near |-> <<>>]

\* Mutant: no `finally`.
Finish_Silent(w, r, finished) ==
  /\ handler' = [handler EXCEPT ![w] = IdleHandler]
  /\ answers' = [answers EXCEPT ![r.id].finished = @ + finished]

\* The handler ends; `finally` emits DiscoveryFailed.
Finish(w, r, finished) ==
  /\ handler' = [handler EXCEPT ![w] = IdleHandler]
  /\ answers' = [answers EXCEPT ![r.id].failed = @ + 1,
                                ![r.id].finished = @ + finished]

\* Mutant: the outer loop is missing.
MoreRounds_One(round) == round < 0

\* for _ in range(max_depth + 1)
MoreRounds(round) == round < max_depth

\* The two nested loops up to the next suspension: the rest of the round, the
\* next round, or the end.  A round without a contact changes nothing, so the
\* rounds after it are without one, too.
SearchOn(o, w, r, todo, round) ==
  LET rest == Unvisited(o, todo, r.visited)
      all == PeersByDistance(o)
      next == Unvisited(o, all, r.visited)
  IN \/ /\ rest # {}
        /\ handler' = [handler EXCEPT ![w] = Contact(o, r, rest, todo, round)]
        /\ UNCHANGED answers
     \/ /\ rest = {} /\ next # {} /\ MoreRounds(round)
        /\ handler' = [handler EXCEPT ![w] = Contact(o, r, next, all, round + 1)]
        /\ UNCHANGED answers
     \/ /\ rest = {} /\ (next = {} \/ ~MoreRounds(round))
        /\ Finish(w, r, 0)

\* Mutant: a worse rating is not told to anybody.
Rate_Silent(i, d) ==
  /\ obj' = Rated(i, d)
  /\ IF d < 0 THEN UNCHANGED <<store_q, known_q>> ELSE EmitPeer(i)

\* The rating of a peer changes, and the peer is emitted.
Rate(i, d) == obj' = Rated(i, d) /\ EmitPeer(i)

StartDiscovery(w) ==
  /\ Quiet
  /\ handler[w].pc = "idle"
  /\ requests # <<>>
  /\ requests' = Tail(requests)
  /\ SearchOn(obj, w, Head(requests), {}, -1)
  /\ UNCHANGED <<bookVars, found, store_q, known_q, db_peers, restored, crashes>>

\* The peer a handler is waiting for may let it down.
Unreliable(w) == obj[handler[w].peer].sid \notin Reliable

\* No peer has answered, over the network, before the restore task had its turn,
\* which is scheduled when the database service starts and never suspends.
PeerReplies == Quiet /\ restored

\* discover() returned: the rating is doubled, the received peers come next.
DiscoverAnswered(w) ==
  /\ PeerReplies
  /\ handler[w].pc = "ask"
  /\ Rate(handler[w].peer, 1)
  /\ \E near \in NearLists :
       handler' = [handler EXCEPT ![w].near = near,
                                  ![w].pc = IF near = <<>> THEN "head" ELSE "learn"]
  /\ UNCHANGED <<peers, peers_by_rating, requests, found, answers, db_peers,
                 restored, crashes>>

\* One turn of the loop over new_peers; after the last one has_magnet() is awaited.
Learn(w) ==
  /\ handler[w].pc = "learn"
  /\ LET p == Head(handler[w].near)
     IN IF Known(p.sid) THEN UNCHANGED bookVars ELSE AddNew(p)
  /\ handler' = [handler EXCEPT
       ![w].near = Tail(@),
       ![w].pc = IF Len(handler[w].near) = 1 THEN "head" ELSE "learn"]
  /\ UNCHANGED <<busVars, db_peers, restored, crashes>>

\* discover() or has_magnet() raised InvalidPeerResponse: discover() for want of a
\* connection, in time or at all, and for an error of HTTP; has_magnet() for an
\* answer that is neither a success nor an error.
PeerFails(w) ==
  /\ PeerReplies
  /\ handler[w].pc \in {"ask", "head"}
  /\ Unreliable(w)
  /\ Rate(handler[w].peer, -2)
  /\ SearchOn(obj', w, handler[w].request, handler[w].todo, handler[w].round)
  /\ UNCHANGED <<peers, peers_by_rating, requests, found, db_peers, restored, crashes>>

\* discover() raised what the handler does not catch: the body was no JSON, or
\* its entries were no records of a Peer.
DiscoverMalformed(w) ==
  /\ PeerReplies
  /\ Malformed
  /\ handler[w].pc = "ask"
  /\ Unreliable(w)
  /\ Finish(w, handler[w].request, 0)
  /\ UNCHANGED <<bookVars, requests, found, store_q, known_q, db_peers, restored, crashes>>

\* has_magnet() returned True.
HasMagnet(w) ==
  /\ Quiet
  /\ handler[w].pc = "head"
  /\ LET r == handler[w].request
     IN /\ found' = Append(found, [magnet |-> r.magnet, peer |-> handler[w].peer,
                                   visited |-> r.visited])
        /\ Finish(w, r, 1)
  /\ Rate(handler[w].peer, 1)
  /\ UNCHANGED <<peers, peers_by_rating, requests, db_peers, restored, crashes>>

\* has_magnet() returned False: also when the peer could not be reached.
HasNoMagnet(w) ==
  /\ Quiet
  /\ handler[w].pc = "head"
  /\ Unreliable(w)
  /\ SearchOn(obj, w, handler[w].request, handler[w].todo, handler[w].round)
  /\ UNCHANGED <<bookVars, requests, found, store_q, known_q, db_peers, restored, crashes>>

HandlerStep(w) ==
  \/ StartDiscovery(w) \/ DiscoverAnswered(w) \/ Learn(w) \/ PeerFails(w)
  \/ DiscoverMalformed(w) \/ HasMagnet(w) \/ HasNoMagnet(w)

-----------------------------------------------------------------------------
(* DatabaseService.                                                         *)

\* store_peers: the row takes the rating the object has by now.
StorePeer ==
  /\ Quiet
  /\ store_q # <<>>
  /\ store_q' = Tail(store_q)
  /\ LET p == obj[Head(store_q)] IN db_peers' = [db_peers EXCEPT ![p.sid] = p.exp]
  /\ UNCHANGED <<bookVars, requests, found, known_q, answers, handler, restored, crashes>>

Rows == { [sid |-> s, exp |-> db_peers[s]] : s \in { t \in Sids : db_peers[t] # NoRow } }

\* The table in any order.
RowLists == { l \in [1 .. Cardinality(Rows) -> Rows] : Elements(l) = Rows }

\* restore_peers: every row becomes a new Peer object and a Peer event.
RestorePeers ==
  /\ Quiet
  /\ ~restored
  /\ restored' = TRUE
  /\ \E rows \in RowLists :
       LET ids == [k \in 1 .. Len(rows) |-> Len(obj) + k]
       IN /\ obj' = obj \o rows
          /\ store_q' = store_q \o ids
          /\ known_q' = known_q \o ids
  /\ UNCHANGED <<peers, peers_by_rating, requests, found, answers, handler,
                 db_peers, crashes>>

\* The process dies and starts again: only the database is left.
Crash ==
  /\ Quiet
  /\ crashes < MaxCrashes
  /\ crashes' = crashes + 1
  /\ restored' = FALSE
  /\ obj' = <<>>
  /\ peers' = [s \in Sids |-> 0]
  /\ peers_by_rating' = <<>>
  /\ requests' = <<>> /\ found' = <<>> /\ store_q' = <<>> /\ known_q' = <<>>
  /\ handler' = [w \in Workers |-> IdleHandler]
  /\ UNCHANGED <<db_peers, answers>>

PeeringStep ==
  \/ \E s \in Sids : HandleNewPeer(s)
  \/ HandlePeer
  \/ \E w \in Workers : HandlerStep(w)
  \/ StorePeer
  \/ RestorePeers
=============================================================================
