------------------------------- MODULE Gossip -------------------------------
(***************************************************************************)
(* Several nodes that learn of each other: the answer of one node's web     *)
(* server to `discover` (web/handlers.py, WebAppInterface of app.py) is what *)
(* the search of another one (peering/service.py) adds to its book.         *)
(*                                                                          *)
(* The books have room for every service, as PeerBook models the cleanup.   *)
(* Then there is one Peer object per service, a record here, and the list   *)
(* alone tells the state of a book.  One magnet is searched for, by at most *)
(* one search of a node at a time.                                          *)
(***************************************************************************)
EXTENDS Integers, Sequences, FiniteSets

CONSTANTS
  Nodes,           \* service ids
  Registered,      \* Registered[n]: the registrations node n reads from the contract
  Searchers,       \* the nodes that look for the magnet
  Holders,         \* the nodes that have the magnet
  Reliable,        \* the nodes whose answers always arrive
  Distance,        \* Distance[s]: of service id s from the magnet
  hot_count,       \* how many peers an answer names
  MinExp, MaxExp,  \* bound: ratings 2^k that are told apart
  MaxSearches      \* bound: searches of each node

GossipAssumption ==
  /\ Registered \in [Nodes -> SUBSET Nodes] /\ Searchers \subseteq Nodes \ Holders
  /\ IsFiniteSet(Nodes) /\ Holders \subseteq Nodes /\ Reliable \subseteq Nodes
  /\ Distance \in [Nodes -> Nat]
  /\ \A s, t \in Nodes : Distance[s] = Distance[t] => s = t
  /\ hot_count \in Nat /\ MaxSearches \in Nat
  /\ MinExp \in Int /\ MaxExp \in Int /\ MinExp < -1 /\ -1 < MaxExp

VARIABLES
  book,      \* peers_by_rating of each node
  search,    \* the locals of each node's handle_discovery_request
  searches,  \* how many were started
  served,    \* history: the nodes somebody got an answer from
  failed     \* history: the nodes somebody failed to get one from

vars == <<book, search, searches, served, failed>>

Exps == MinExp .. MaxExp
Peer == [sid : Nodes, exp : Exps]
Initial == -1    \* the rating 0.5

Elements(s) == { s[i] : i \in DOMAIN s }
SidsOf(s) == { s[i].sid : i \in DOMAIN s }

NoSearch == [pc |-> "idle", peer |-> CHOOSE n \in Nodes : TRUE, visited |-> {},
             todo |-> {}, near |-> <<>>, match |-> FALSE]

Init ==
  /\ book = [n \in Nodes |-> <<>>]
  /\ search = [n \in Nodes |-> NoSearch]
  /\ searches = [n \in Nodes |-> 0]
  /\ served = {} /\ failed = {}

-----------------------------------------------------------------------------
(* The book of a node.                                                      *)

\* rating * 2^d
Scaled(k, d) ==
  IF k + d > MaxExp THEN MaxExp ELSE IF k + d < MinExp THEN MinExp ELSE k + d

\* A rating is changed in the object: the list is not sorted for it.
Rated(b, s, d) ==
  [i \in DOMAIN b |-> IF b[i].sid = s THEN [b[i] EXCEPT !.exp = Scaled(@, d)] ELSE b[i]]

\* rating > 0.1
Usable(b) == { b[i].sid : i \in { j \in DOMAIN b : b[j].exp >= -3 } }

Arrival(s, x) == CHOOSE i \in DOMAIN s : s[i] = x /\ \A j \in 1 .. i - 1 : s[j] # x

\* Ascending by rating; the order of arrival decides between equal ones.
Before(s, x, y) ==
  \/ x.exp < y.exp
  \/ x.exp = y.exp /\ Arrival(s, x) < Arrival(s, y)

Place(s, all, x) == 1 + Cardinality({ y \in all : Before(s, y, x) })

\* `p.service_id not in self.peers`
Unknown(b, near) == { r \in Elements(near) : r.sid \notin SidsOf(b) }

\* add_peer for each received record: append and sort, if there is a new one.
Learned(b, near) ==
  LET new == Unknown(b, near)
      all == Elements(b) \cup new
  IN IF new = {} THEN b
     ELSE [k \in 1 .. Cardinality(all) |->
             CHOOSE x \in all : Place(b \o near, all, x) = k]

\* handle_new_peers: node n hears of a registration, perhaps its own.
Hear(n, s) ==
  /\ s \in Registered[n]
  /\ s \notin SidsOf(book[n])
  /\ book' = [book EXCEPT ![n] = Learned(@, <<[sid |-> s, exp |-> Initial]>>)]
  /\ UNCHANGED <<search, searches, served, failed>>

-----------------------------------------------------------------------------
(* The search of node n.                                                    *)

\* Mutant: there is but one round.
Candidates_OneRound(b, visited, rest) == rest

\* The peers left in this round, or those of a new one.
Candidates(b, visited, rest) == IF rest # {} THEN rest ELSE Usable(b) \ visited

\* The nearest candidate is asked; without any, the search ends.
SearchOn(n, b, visited, todo) ==
  LET rest == todo \ visited
      next == Candidates(b, visited, rest)
      nearest == CHOOSE s \in next : \A t \in next : Distance[s] <= Distance[t]
  IN search' = [search EXCEPT ![n] =
       IF next = {} THEN [NoSearch EXCEPT !.visited = visited]
       ELSE [NoSearch EXCEPT !.pc = "ask", !.peer = nearest,
               !.visited = visited \cup {nearest}, !.todo = next \ {nearest}]]

StartSearch(n) ==
  /\ search[n].pc = "idle"
  /\ n \in Searchers
  /\ searches[n] < MaxSearches
  /\ searches' = [searches EXCEPT ![n] = @ + 1]
  /\ SearchOn(n, book[n], {}, Usable(book[n]))
  /\ UNCHANGED <<book, served, failed>>

\* hot_peers
HotPeers(p) == SubSeq(book[p], 1, IF Len(book[p]) < hot_count THEN Len(book[p]) ELSE hot_count)

\* nearest_peers, which is not overridden: the magnet plays no part.
NearestPeers(p) == HotPeers(p)

\* The web server of the peer answers; the answer is under way.
Answer(n) ==
  /\ search[n].pc = "ask"
  /\ search' = [search EXCEPT ![n].pc = "answered", ![n].near = NearestPeers(search[n].peer)]
  /\ UNCHANGED <<book, searches, served, failed>>

\* Mutant: peers heard of are rated like the one that told of them.
Adopted_Raised(b, p, near) ==
  Learned(Rated(b, p, 1), [i \in DOMAIN near |-> [near[i] EXCEPT !.exp = Scaled(@, 1)]])

\* The rating of the peer is doubled, and what it told of enters the book with the
\* ratings it told.
Adopted(b, p, near) == Learned(Rated(b, p, 1), near)

\* discover() returns.
Receive(n) ==
  /\ search[n].pc = "answered"
  /\ book' = [book EXCEPT ![n] = Adopted(@, search[n].peer, search[n].near)]
  /\ search' = [search EXCEPT ![n].pc = "head", ![n].near = <<>>]
  /\ served' = served \cup {search[n].peer}
  /\ UNCHANGED <<searches, failed>>

\* discover() raises for want of a connection or of an answer in time, or has_magnet()
\* for an answer that is neither a success nor an error.
PeerFails(n) ==
  /\ search[n].pc # "idle"
  /\ search[n].peer \notin Reliable
  /\ LET b == Rated(book[n], search[n].peer, -2)
     IN /\ book' = [book EXCEPT ![n] = b]
        /\ SearchOn(n, b, search[n].visited, search[n].todo)
  /\ failed' = failed \cup {search[n].peer}
  /\ UNCHANGED <<searches, served>>

\* has_magnet() is True.
HasMagnet(n) ==
  /\ search[n].pc = "head"
  /\ search[n].peer \in Holders
  /\ book' = [book EXCEPT ![n] = Rated(@, search[n].peer, 1)]
  /\ search' = [search EXCEPT ![n] = [NoSearch EXCEPT !.visited = search[n].visited,
                                                      !.match = TRUE]]
  /\ UNCHANGED <<searches, served, failed>>

\* has_magnet() is False: the peer has it not, or did not answer this time.
HasNoMagnet(n) ==
  /\ search[n].pc = "head"
  /\ search[n].peer \notin Holders \cap Reliable
  /\ SearchOn(n, book[n], search[n].visited, search[n].todo)
  /\ UNCHANGED <<book, searches, served, failed>>

SearchStep(n) ==
  Answer(n) \/ Receive(n) \/ PeerFails(n) \/ HasMagnet(n) \/ HasNoMagnet(n)

Next ==
  \E n \in Nodes :
    StartSearch(n) \/ SearchStep(n) \/ \E s \in Nodes : Hear(n, s)

\* Requests have a timeout, so every search goes on.
Fairness == \A n \in Nodes : WF_vars(SearchStep(n))

Spec == Init /\ [][Next]_vars /\ Fairness

-----------------------------------------------------------------------------
\* A rating travels from book to book, but it is always the outcome of requests:
\* above 0.5 only for a node that answered somebody, below only for one that let
\* somebody down.
RatingsEarned ==
  \A n \in Nodes : \A r \in Elements(book[n]) \cup Elements(search[n].near) :
    /\ r.exp > Initial => r.sid \in served
    /\ r.exp < Initial => r.sid \in failed

Asks(p) == Usable(book[p]) \cap Reliable

\* The search of n may come to reliable node s: n would ask it, or a node would that
\* n would ask, and so on.
Reaches(n, s) ==
  \A X \in SUBSET Reliable : Asks(n) \subseteq X /\ (\A p \in X : Asks(p) \subseteq X) => s \in X

\* A magnet is found by every search in whose reach a holder is when it begins, over
\* any number of nodes that only tell of each other: books and order of distance
\* differ from node to node, and change while the search is under way.
HolderReached ==
  \A n \in Nodes :
    (/\ search[n].pc = "ask" /\ search[n].visited = {search[n].peer}
     /\ \E s \in Holders : Reaches(n, s))
    ~> search[n].match
=============================================================================
