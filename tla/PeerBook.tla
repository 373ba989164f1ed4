------------------------------ MODULE PeerBook ------------------------------
(***************************************************************************)
(* The peers PeeringService holds in memory (sarafan/peering/service.py):   *)
(* a dictionary by service id and a list kept for ratings, both referring   *)
(* to Peer objects that other parts of the program hold on to as well.      *)
(*                                                                          *)
(* Two Peer objects may describe the same service: a record received again  *)
(* after its peer was evicted is a new object.  So objects have an identity, *)
(* the index at which they stand in `obj`.                                  *)
(*                                                                          *)
(* Ratings start at 0.5 and are only ever doubled or divided by 4: a rating *)
(* 2^k is represented by k.                                                 *)
(***************************************************************************)
EXTENDS Integers, Sequences, FiniteSets

CONSTANTS
  Sids,             \* service ids
  max_peer_count,   \* maximum number of in-memory peers
  MinExp, MaxExp    \* bound: the exponents of the ratings told apart

ASSUME PeerBookAssumption ==
  /\ IsFiniteSet(Sids)
  /\ max_peer_count \in Nat
  /\ MinExp \in Int /\ MaxExp \in Int
  /\ MinExp <= -1 /\ -1 <= MaxExp

VARIABLES
  obj,              \* the Peer objects created, as a heap
  peers,            \* service id -> object, or 0
  peers_by_rating   \* list of objects

bookVars == <<obj, peers, peers_by_rating>>

Exps == MinExp .. MaxExp
Peer == [sid : Sids, exp : Exps]
Initial == -1       \* 0.5, the rating of a Peer built without one

Elements(s) == { s[i] : i \in DOMAIN s }

InBook == Elements(peers_by_rating)

BookInit ==
  /\ obj = <<>>
  /\ peers = [s \in Sids |-> 0]
  /\ peers_by_rating = <<>>

\* rating * 2^d
Scaled(k, d) ==
  IF k + d > MaxExp THEN MaxExp ELSE IF k + d < MinExp THEN MinExp ELSE k + d

\* The heap after the rating of object i was multiplied by 2^d.
Rated(i, d) == [obj EXCEPT ![i].exp = Scaled(@, d)]

\* rating > 0.1
Usable(o, i) == o[i].exp >= -3

Position(s, x) == CHOOSE i \in DOMAIN s : s[i] = x

\* t is what s.sort(key=rating) leaves: the same objects, ascending by rating,
\* those of equal rating in their former order.
IsStableSort(o, s, t) ==
  /\ \A x \in Elements(s) : \E i \in DOMAIN t : t[i] = x
  /\ \A i, j \in DOMAIN t : i < j =>
       /\ t[i] # t[j]
       /\ o[t[i]].exp <= o[t[j]].exp
       /\ o[t[i]].exp = o[t[j]].exp => Position(s, t[i]) < Position(s, t[j])

\* Mutant: the list is not sorted.
StableSorts_Unsorted(o, s) == {s}

StableSorts(o, s) == { t \in [1 .. Len(s) -> Elements(s)] : IsStableSort(o, s, t) }

\* _cleanup_peers: how many peers of a list of n exceed the limit.
Excess(n) == IF n > max_peer_count THEN n - max_peer_count ELSE 0

\* `service_id in self.peers`
Known(s) == peers[s] # 0

\* Mutant: remove_peer takes the peer off the list only.
AddPeer_ListOnly(o, i) ==
  IF Known(o[i].sid)
  THEN UNCHANGED <<peers, peers_by_rating>>
  ELSE \E sorted \in StableSorts(o, Append(peers_by_rating, i)) :
         LET n == Len(peers_by_rating) + 1
         IN /\ peers' = [peers EXCEPT ![o[i].sid] = i]
            /\ peers_by_rating' = SubSeq(sorted, Excess(n) + 1, n)

\* add_peer for object i of heap o.  A service id already known is left alone;
\* otherwise the list is sorted and the peers that then come first are removed
\* from the list and from the dictionary.
AddPeer(o, i) ==
  IF Known(o[i].sid)
  THEN UNCHANGED <<peers, peers_by_rating>>
  ELSE \E sorted \in StableSorts(o, Append(peers_by_rating, i)) :
         LET n == Len(peers_by_rating) + 1
             removed == { sorted[k] : k \in 1 .. Excess(n) }
             added == [peers EXCEPT ![o[i].sid] = i]
         IN /\ peers' = [s \in Sids |-> IF added[s] \in removed THEN 0 ELSE added[s]]
            /\ peers_by_rating' = SubSeq(sorted, Excess(n) + 1, n)
=============================================================================
