---------------------------- MODULE PeeringProofs ----------------------------
(***************************************************************************)
(* What the steps of Peering keep, for any number of peers, handlers and    *)
(* requests, whoever asks: lemmas that the proofs of PeeringService and of  *)
(* Node rest on.  The book comes first.                                     *)
(***************************************************************************)
EXTENDS Peering, FiniteSetTheorems, SequenceTheorems, NaturalsInduction, WellFoundedInduction, TLAPS

Objs(o) == 1 .. Len(o)

\* One more element.
LEMMA AppendFacts ==
  ASSUME NEW S, NEW s \in Seq(S), NEW x \in S
  PROVE  /\ Append(s, x) \in Seq(S) /\ Len(Append(s, x)) = Len(s) + 1
         /\ DOMAIN s = 1 .. Len(s)
         /\ DOMAIN Append(s, x) = DOMAIN s \cup {Len(s) + 1}
         /\ Len(s) + 1 \notin DOMAIN s
         /\ \A i \in DOMAIN s : Append(s, x)[i] = s[i]
         /\ Append(s, x)[Len(s) + 1] = x
  OBVIOUS

\* One element replaced, twice at one place.
LEMMA ReplaceFacts ==
  ASSUME NEW S, NEW s \in Seq(S), NEW x \in S, NEW y \in S, NEW k \in 1 .. Len(s),
         NEW t, t = [[s EXCEPT ![k] = x] EXCEPT ![k] = y]
  PROVE  /\ t \in Seq(S) /\ Len(t) = Len(s)
         /\ \A j \in 1 .. Len(s) : t[j] = IF j = k THEN y ELSE s[j]
  OBVIOUS

\* Dictionary p and list l hold the same objects of heap o, each once and under its
\* own service id.
Book(o, p, l) ==
  /\ p \in [Sids -> 0 .. Len(o)]
  /\ l \in Seq(Objs(o))
  /\ Len(l) <= max_peer_count
  /\ \A i, j \in 1 .. Len(l) : l[i] = l[j] => i = j
  /\ \A i \in 1 .. Len(l) : p[o[l[i]].sid] = l[i]
  /\ \A s \in Sids : p[s] # 0 => o[p[s]].sid = s /\ \E i \in 1 .. Len(l) : l[i] = p[s]

LEMMA LimitFacts ==
  /\ max_peer_count \in Nat
  /\ MinExp \in Int /\ MaxExp \in Int /\ MinExp <= -1 /\ -1 <= MaxExp
  BY PeerBookAssumption

LEMMA ScaledFacts ==
  ASSUME NEW k \in Exps, NEW d \in Int
  PROVE  Scaled(k, d) \in Exps
  BY LimitFacts DEF Scaled, Exps

LEMMA ObjectFacts ==
  ASSUME NEW o \in Seq(Peer), NEW i \in Objs(o)
  PROVE  o[i] \in Peer /\ o[i].sid \in Sids /\ o[i].exp \in Exps
<1>1. o[i] \in Peer
  BY DEF Objs
<1> QED
  BY <1>1 DEF Peer

LEMMA ExcessFacts ==
  ASSUME NEW n \in Nat
  PROVE  /\ Excess(n) \in 0 .. n
         /\ n - Excess(n) <= max_peer_count
         /\ n <= max_peer_count => Excess(n) = 0
  BY LimitFacts DEF Excess

\* A book is one of every heap that goes on from its own with the same service ids.
LEMMA BookOfLaterHeap ==
  ASSUME NEW o \in Seq(Peer), NEW q \in Seq(Peer), NEW p, NEW l, Book(o, p, l),
         Len(o) <= Len(q), \A i \in Objs(o) : q[i].sid = o[i].sid
  PROVE  Book(q, p, l)
<1>1. Len(o) \in Nat /\ Len(q) \in Nat
  OBVIOUS
<1>2. Objs(o) \subseteq Objs(q) /\ 0 .. Len(o) \subseteq 0 .. Len(q)
  BY <1>1 DEF Objs
<1>3. p \in [Sids -> 0 .. Len(q)] /\ l \in Seq(Objs(q))
  BY <1>2, SeqMonotonic DEF Book
<1>4. \A i \in 1 .. Len(l) : l[i] \in Objs(o)
  BY DEF Book
<1>5. \A s \in Sids : p[s] # 0 => p[s] \in Objs(o)
  BY <1>1 DEF Book, Objs
<1> QED
  BY <1>3, <1>4, <1>5 DEF Book

\* The list that add_peer sorts, and what it sorts it into.
LEMMA SortFacts ==
  ASSUME NEW o \in Seq(Peer), NEW l \in Seq(Objs(o)), NEW i \in Objs(o),
         NEW sorted \in StableSorts(o, Append(l, i))
  PROVE  LET n == Len(l) + 1
         IN /\ n \in Nat /\ DOMAIN sorted = 1 .. n
            /\ \A k \in 1 .. n : sorted[k] \in Objs(o) /\ (sorted[k] = i \/ \E j \in 1 .. Len(l) : sorted[k] = l[j])
            /\ \A j \in 1 .. Len(l) : \E k \in 1 .. n : sorted[k] = l[j]
            /\ \E k \in 1 .. n : sorted[k] = i
            /\ \A j, k \in 1 .. n : j < k => sorted[j] # sorted[k] /\ o[sorted[j]].exp <= o[sorted[k]].exp
<1> DEFINE s == Append(l, i)
           n == Len(l) + 1
<1>1. /\ n \in Nat /\ s \in Seq(Objs(o)) /\ Len(s) = n /\ DOMAIN s = 1 .. n
      /\ s[n] = i /\ \A j \in 1 .. Len(l) : s[j] = l[j]
  OBVIOUS
<1>2. sorted \in [1 .. n -> Elements(s)] /\ IsStableSort(o, s, sorted)
  BY <1>1 DEF StableSorts
<1>3. \A x \in Elements(s) : x \in Objs(o) /\ (x = i \/ \E j \in 1 .. Len(l) : x = l[j])
  BY <1>1 DEF Elements
<1>4. \A j \in 1 .. Len(l) : l[j] \in Elements(s)
  BY <1>1 DEF Elements
<1>5. i \in Elements(s)
  BY <1>1 DEF Elements
<1>6. \A x \in Elements(s) : \E k \in 1 .. n : sorted[k] = x
  BY <1>2 DEF IsStableSort
<1>7. \A j, k \in 1 .. n : j < k => sorted[j] # sorted[k] /\ o[sorted[j]].exp <= o[sorted[k]].exp
  BY <1>2 DEF IsStableSort
<1> HIDE DEF s
<1> QED
  BY <1>1, <1>2, <1>3, <1>4, <1>5, <1>6, <1>7

\* Somebody is in the list once the book knows a service id, and not before.
LEMMA UnknownNotListed ==
  ASSUME NEW o \in Seq(Peer), Book(o, peers, peers_by_rating), NEW i \in Objs(o), ~Known(o[i].sid)
  PROVE  \A j \in 1 .. Len(peers_by_rating) :
           peers_by_rating[j] # i /\ o[peers_by_rating[j]].sid # o[i].sid
<1> SUFFICES ASSUME NEW j \in 1 .. Len(peers_by_rating)
             PROVE  o[peers_by_rating[j]].sid # o[i].sid
  OBVIOUS
<1>1. peers_by_rating[j] \in Objs(o) /\ peers[o[peers_by_rating[j]].sid] = peers_by_rating[j]
  BY DEF Book
<1>2. peers_by_rating[j] # 0
  BY <1>1 DEF Objs
<1> QED
  BY <1>1, <1>2 DEF Known

\* add_peer keeps the book in order.  It throws nobody out who is rated above one that
\* stays, and nobody at all if there is room.
LEMMA AddPeerKeeps ==
  ASSUME NEW o \in Seq(Peer), NEW i \in Objs(o), Book(o, peers, peers_by_rating), AddPeer(o, i)
  PROVE  /\ Book(o, peers', peers_by_rating')
         /\ \A x \in InBook, y \in InBook' : x \notin InBook' => o[x].exp <= o[y].exp
         /\ Len(peers_by_rating) < max_peer_count => InBook \subseteq InBook'
         /\ InBook' \subseteq InBook \cup {i}
<1>1. CASE Known(o[i].sid)
  <2>1. peers' = peers /\ peers_by_rating' = peers_by_rating
    BY <1>1 DEF AddPeer
  <2>2. InBook' = InBook
    BY <2>1 DEF InBook
  <2> QED
    BY <2>1, <2>2
<1>2. CASE ~Known(o[i].sid)
  <2> DEFINE l == peers_by_rating
             n == Len(l) + 1
             e == Excess(n)
             added == [peers EXCEPT ![o[i].sid] = i]
  <2>1. l \in Seq(Objs(o)) /\ DOMAIN l = 1 .. Len(l) /\ n \in Nat
    BY DEF Book
  <2>2. PICK sorted \in StableSorts(o, Append(l, i)) :
          LET removed == { sorted[k] : k \in 1 .. e }
          IN /\ peers' = [s \in Sids |-> IF added[s] \in removed THEN 0 ELSE added[s]]
             /\ peers_by_rating' = SubSeq(sorted, e + 1, n)
    BY <1>2 DEF AddPeer
  <2>3. /\ \A k \in 1 .. n : sorted[k] \in Objs(o) /\ (sorted[k] = i \/ \E j \in 1 .. Len(l) : sorted[k] = l[j])
        /\ \A j \in 1 .. Len(l) : \E k \in 1 .. n : sorted[k] = l[j]
        /\ \E k \in 1 .. n : sorted[k] = i
        /\ \A j, k \in 1 .. n : j < k => sorted[j] # sorted[k] /\ o[sorted[j]].exp <= o[sorted[k]].exp
    <3>1. l \in Seq(Objs(o)) /\ sorted \in StableSorts(o, Append(l, i))
      BY <2>1, <2>2
    <3> HIDE DEF l
    <3> QED
      BY <3>1, SortFacts
  <2>4. e \in 0 .. n /\ n - e <= max_peer_count /\ (Len(l) < max_peer_count => e = 0)
    BY <2>1, ExcessFacts, LimitFacts
  <2>5. /\ peers_by_rating' \in Seq(Objs(o))
        /\ Len(peers_by_rating') = n - e
        /\ DOMAIN peers_by_rating' = 1 .. (n - e)
        /\ \A k \in 1 .. n - e : peers_by_rating'[k] = sorted[e + k]
    <3>1. e + 1 \in Int /\ n \in Int /\ \A k \in (e + 1) .. n : sorted[k] \in Objs(o)
      BY <2>1, <2>3, <2>4
    <3>2. /\ SubSeq(sorted, e + 1, n) \in Seq(Objs(o))
          /\ Len(SubSeq(sorted, e + 1, n)) = IF e + 1 <= n THEN n - (e + 1) + 1 ELSE 0
          /\ \A k \in 1 .. n - (e + 1) + 1 : SubSeq(sorted, e + 1, n)[k] = sorted[e + 1 + k - 1]
      BY <3>1, SubSeqProperties
    <3>3. n - (e + 1) + 1 = n - e /\ \A k \in 1 .. n - e : e + 1 + k - 1 = e + k
      BY <2>1, <2>4
    <3>4. \A k \in 1 .. n - e : SubSeq(sorted, e + 1, n)[k] = sorted[e + k]
      BY <3>2, <3>3
    <3>5. Len(SubSeq(sorted, e + 1, n)) = n - e
      BY <2>1, <2>4, <3>2
    <3> QED
      BY <2>2, <3>2, <3>4, <3>5
  <2>6. \A x \in InBook : \E j \in 1 .. Len(l) : x = l[j]
    BY <2>1 DEF InBook, Elements
  <2>7. /\ \A y \in InBook' : \E k \in 1 .. n - e : y = sorted[e + k]
        /\ \A k \in 1 .. n - e : sorted[e + k] \in InBook'
    <3>1. InBook' = { peers_by_rating'[k] : k \in 1 .. n - e }
      BY <2>5 DEF InBook, Elements
    <3> QED
      BY <2>5, <3>1
  <2>8. \A m \in 1 .. n : m > e => sorted[m] \in InBook'
    <3> SUFFICES ASSUME NEW m \in 1 .. n, m > e PROVE sorted[m] \in InBook'
      OBVIOUS
    <3>1. m - e \in 1 .. n - e /\ e + (m - e) = m
      BY <2>1, <2>4
    <3> QED
      BY <2>7, <3>1
  <2>9. /\ added \in [Sids -> 0 .. Len(o)]
        /\ o[i].sid \in Sids
        /\ \A k \in 1 .. n : added[o[sorted[k]].sid] = sorted[k] /\ sorted[k] # 0
    <3>1. o[i].sid \in Sids /\ i \in 0 .. Len(o) /\ i # 0
      BY ObjectFacts DEF Objs
    <3>2. added \in [Sids -> 0 .. Len(o)] /\ added[o[i].sid] = i
      BY <3>1 DEF Book
    <3>3. ASSUME NEW j \in 1 .. Len(l) PROVE added[o[l[j]].sid] = l[j] /\ l[j] # 0
      <4>1. o[l[j]].sid # o[i].sid /\ l[j] \in Objs(o) /\ peers[o[l[j]].sid] = l[j]
        <5>1. o[l[j]].sid # o[i].sid
          BY <1>2, UnknownNotListed
        <5> QED
          BY <5>1 DEF Book
      <4>2. o[l[j]].sid \in Sids
        BY <4>1, ObjectFacts
      <4> QED
        BY <3>1, <4>1, <4>2 DEF Book, Objs
    <3>4. ASSUME NEW k \in 1 .. n PROVE added[o[sorted[k]].sid] = sorted[k] /\ sorted[k] # 0
      <4>1. CASE sorted[k] = i
        BY <3>1, <3>2, <4>1
      <4>2. CASE \E j \in 1 .. Len(l) : sorted[k] = l[j]
        BY <3>3, <4>2
      <4> QED
        BY <2>3, <4>1, <4>2
    <3> QED
      BY <3>1, <3>2, <3>4
  <2>10. \A s \in Sids : added[s] # 0 => o[added[s]].sid = s /\ \E k \in 1 .. n : sorted[k] = added[s]
    <3> SUFFICES ASSUME NEW s \in Sids, added[s] # 0
                 PROVE  o[added[s]].sid = s /\ \E k \in 1 .. n : sorted[k] = added[s]
      OBVIOUS
    <3>1. CASE s = o[i].sid
      BY <2>3, <2>9, <3>1 DEF Book
    <3>2. CASE s # o[i].sid
      <4>1. added[s] = peers[s]
        BY <2>9, <3>2 DEF Book
      <4>2. o[peers[s]].sid = s /\ \E j \in 1 .. Len(l) : l[j] = peers[s]
        BY <4>1 DEF Book
      <4> QED
        BY <2>3, <4>1, <4>2
    <3> QED
      BY <3>1, <3>2
  <2> HIDE DEF added, e, n, l
  <2>11. \A k \in 1 .. n : /\ k > e => peers'[o[sorted[k]].sid] = sorted[k]
                           /\ k <= e => sorted[k] \in { sorted[m] : m \in 1 .. e }
    <3> SUFFICES ASSUME NEW k \in 1 .. n, k > e PROVE peers'[o[sorted[k]].sid] = sorted[k]
      BY <2>4
    <3>1. sorted[k] \notin { sorted[m] : m \in 1 .. e }
      BY <2>1, <2>3, <2>4
    <3>2. o[sorted[k]].sid \in Sids /\ added[o[sorted[k]].sid] = sorted[k]
      BY <2>3, <2>9, ObjectFacts
    <3> QED
      BY <2>2, <3>1, <3>2
  <2>12. Book(o, peers', peers_by_rating')
    <3>1. peers' \in [Sids -> 0 .. Len(o)]
      <4>1. \A s \in Sids : added[s] \in 0 .. Len(o)
        BY <2>9
      <4>2. 0 \in 0 .. Len(o)
        OBVIOUS
      <4> QED
        BY <2>2, <4>1, <4>2
    <3>2. Len(peers_by_rating') <= max_peer_count
      BY <2>4, <2>5
    <3>3. \A j, k \in 1 .. Len(peers_by_rating') :
            peers_by_rating'[j] = peers_by_rating'[k] => j = k
      <4> SUFFICES ASSUME NEW j \in 1 .. n - e, NEW k \in 1 .. n - e, sorted[e + j] = sorted[e + k]
                   PROVE  j = k
        BY <2>5
      <4>1. e + j \in 1 .. n /\ e + k \in 1 .. n
        BY <2>1, <2>4
      <4>2. ~(e + j < e + k) /\ ~(e + k < e + j)
        BY <2>3, <4>1
      <4> QED
        BY <2>1, <2>4, <4>2
    <3>4. \A k \in 1 .. Len(peers_by_rating') :
            peers'[o[peers_by_rating'[k]].sid] = peers_by_rating'[k]
      <4> SUFFICES ASSUME NEW k \in 1 .. n - e
                   PROVE  peers'[o[sorted[e + k]].sid] = sorted[e + k]
        BY <2>5
      <4>1. PICK m \in 1 .. n : m = e + k /\ m > e
        BY <2>1, <2>4
      <4>2. peers'[o[sorted[m]].sid] = sorted[m]
        BY <2>11, <4>1
      <4> QED
        BY <4>1, <4>2
    <3>5. \A s \in Sids : peers'[s] # 0 =>
            o[peers'[s]].sid = s /\ \E k \in 1 .. Len(peers_by_rating') : peers_by_rating'[k] = peers'[s]
      <4> SUFFICES ASSUME NEW s \in Sids, peers'[s] # 0
                   PROVE  /\ o[peers'[s]].sid = s
                          /\ \E k \in 1 .. n - e : sorted[e + k] = peers'[s]
        BY <2>5
      <4>1. peers'[s] = added[s] /\ added[s] \notin { sorted[m] : m \in 1 .. e }
        BY <2>2
      <4>2. PICK m \in 1 .. n : sorted[m] = added[s]
        BY <2>10, <4>1
      <4>3. m > e
        BY <2>4, <2>11, <4>1, <4>2
      <4>4. m - e \in 1 .. n - e /\ e + (m - e) = m
        BY <2>1, <2>4, <4>3
      <4> QED
        BY <2>10, <4>1, <4>2, <4>4
    <3> QED
      BY <2>5, <3>1, <3>2, <3>3, <3>4, <3>5 DEF Book
  <2>13. \A x \in InBook, y \in InBook' : x \notin InBook' => o[x].exp <= o[y].exp
    <3> SUFFICES ASSUME NEW x \in InBook, NEW y \in InBook', x \notin InBook'
                 PROVE  o[x].exp <= o[y].exp
      OBVIOUS
    <3>1. PICK m \in 1 .. n : sorted[m] = x
      BY <2>3, <2>6
    <3>2. PICK k \in 1 .. n - e : y = sorted[e + k]
      BY <2>7
    <3>3. m <= e
      BY <2>4, <2>8, <3>1
    <3>4. e + k \in 1 .. n /\ m < e + k
      BY <2>1, <2>4, <3>3
    <3> QED
      BY <2>3, <3>1, <3>2, <3>4
  <2>14. Len(peers_by_rating) < max_peer_count => InBook \subseteq InBook'
    <3> SUFFICES ASSUME Len(l) < max_peer_count, NEW x \in InBook PROVE x \in InBook'
      BY DEF l
    <3>1. PICK m \in 1 .. n : sorted[m] = x
      BY <2>3, <2>6
    <3>2. m > e
      BY <2>4
    <3> QED
      BY <2>8, <3>1, <3>2
  <2>15. InBook' \subseteq InBook \cup {i}
    <3>1. \A j \in 1 .. Len(l) : l[j] \in InBook
      BY <2>1 DEF InBook, Elements, l
    <3>2. \A k \in 1 .. n - e : e + k \in 1 .. n
      BY <2>1, <2>4
    <3> QED
      BY <2>3, <2>7, <3>1, <3>2
  <2> QED
    BY <2>12, <2>13, <2>14, <2>15
<1> QED
  BY <1>1, <1>2

-----------------------------------------------------------------------------
(* Types.                                                                   *)

\* Requests, found peers and handlers in a process with n objects and a requests.
RequestType(n, a) == [id : 1 .. a, magnet : Magnets, visited : SUBSET (1 .. n)]

FoundType(n) ==
  { f \in [magnet : Magnets, peer : 1 .. n, visited : SUBSET (1 .. n)] : f.peer \in f.visited }

HandlerOK(h, n, a) ==
  \/ h = IdleHandler
  \/ /\ h \in [pc : {"ask", "learn", "head"}, request : RequestType(n, a), todo : SUBSET (1 .. n),
               round : -1 .. max_depth, peer : 1 .. n, near : Seq(Peer)]
     /\ h.peer \in h.request.visited
     /\ h.pc = "learn" => h.near # <<>>

Types ==
  /\ obj \in Seq(Peer)
  /\ Book(obj, peers, peers_by_rating)
  /\ requests \in Seq(RequestType(Len(obj), Len(answers)))
  /\ found \in Seq(FoundType(Len(obj)))
  /\ store_q \in Seq(Objs(obj)) /\ known_q \in Seq(Objs(obj))
  /\ answers \in Seq([finished : Nat, failed : Nat])
  /\ DOMAIN handler = Workers
  /\ \A w \in Workers : HandlerOK(handler[w], Len(obj), Len(answers))
  /\ db_peers \in [Sids -> Exps \cup {NoRow}]

\* The heap goes on: more objects, other ratings, the same service ids.
HeapGrows ==
  /\ obj' \in Seq(Peer)
  /\ Len(obj) <= Len(obj')
  /\ \A i \in Objs(obj) : obj'[i].sid = obj[i].sid

LEMMA HandlerLater ==
  ASSUME NEW n \in Nat, NEW k \in Nat, n <= k, NEW a \in Nat, NEW b \in Nat, a <= b,
         NEW h, HandlerOK(h, n, a)
  PROVE  HandlerOK(h, k, b)
<1>1. SUBSET (1 .. n) \subseteq SUBSET (1 .. k) /\ 1 .. n \subseteq 1 .. k /\ 1 .. a \subseteq 1 .. b
  OBVIOUS
<1>2. RequestType(n, a) \subseteq RequestType(k, b)
  BY <1>1 DEF RequestType
<1>3. CASE h # IdleHandler
  <2>1. h \in [pc : {"ask", "learn", "head"}, request : RequestType(k, b), todo : SUBSET (1 .. k),
               round : -1 .. max_depth, peer : 1 .. k, near : Seq(Peer)]
    BY <1>1, <1>2, <1>3 DEF HandlerOK
  <2> QED
    BY <1>3, <2>1 DEF HandlerOK
<1> QED
  BY <1>3 DEF HandlerOK

\* What there was is still well typed in a larger heap and after more requests.
LEMMA TypesLater ==
  ASSUME Types, HeapGrows, answers' \in Seq([finished : Nat, failed : Nat]), Len(answers) <= Len(answers')
  PROVE  /\ Book(obj', peers, peers_by_rating)
         /\ requests \in Seq(RequestType(Len(obj'), Len(answers')))
         /\ found \in Seq(FoundType(Len(obj')))
         /\ store_q \in Seq(Objs(obj')) /\ known_q \in Seq(Objs(obj'))
         /\ \A w \in Workers : HandlerOK(handler[w], Len(obj'), Len(answers'))
<1>1. /\ Len(obj) \in Nat /\ Len(obj') \in Nat /\ Len(answers) \in Nat /\ Len(answers') \in Nat
  BY DEF Types, HeapGrows
<1>2. /\ SUBSET (1 .. Len(obj)) \subseteq SUBSET (1 .. Len(obj'))
      /\ 1 .. Len(obj) \subseteq 1 .. Len(obj')
      /\ 1 .. Len(answers) \subseteq 1 .. Len(answers')
  BY <1>1 DEF HeapGrows
<1>3. /\ RequestType(Len(obj), Len(answers)) \subseteq RequestType(Len(obj'), Len(answers'))
      /\ FoundType(Len(obj)) \subseteq FoundType(Len(obj'))
      /\ Objs(obj) \subseteq Objs(obj')
  BY <1>2 DEF RequestType, FoundType, Objs
<1>4. /\ requests \in Seq(RequestType(Len(obj'), Len(answers')))
      /\ found \in Seq(FoundType(Len(obj')))
      /\ store_q \in Seq(Objs(obj')) /\ known_q \in Seq(Objs(obj'))
  BY <1>3, SeqMonotonic DEF Types
<1>5. Book(obj', peers, peers_by_rating)
  BY BookOfLaterHeap DEF Types, HeapGrows
<1>6. \A w \in Workers : HandlerOK(handler[w], Len(obj'), Len(answers'))
  BY <1>1, HandlerLater DEF Types, HeapGrows
<1> QED
  BY <1>4, <1>5, <1>6

LEMMA InBookFacts ==
  ASSUME NEW o \in Seq(Peer), Book(o, peers, peers_by_rating)
  PROVE  /\ InBook \subseteq Objs(o)
         /\ InBook = { peers_by_rating[i] : i \in 1 .. Len(peers_by_rating) }
         /\ InBook = { peers[s] : s \in { t \in Sids : peers[t] # 0 } }
         /\ \A x \in InBook, y \in InBook : o[x].sid = o[y].sid => x = y
<1>1. InBook = { peers_by_rating[i] : i \in 1 .. Len(peers_by_rating) }
  BY DEF Book, InBook, Elements
<1>2. InBook \subseteq Objs(o)
  BY <1>1 DEF Book
<1>3. \A x \in InBook : o[x].sid \in Sids /\ peers[o[x].sid] = x /\ x # 0
  <2>1. \A x \in InBook : peers[o[x].sid] = x
    BY <1>1 DEF Book
  <2> QED
    BY <1>2, <2>1, ObjectFacts DEF Objs
<1>4. \A s \in Sids : peers[s] # 0 => peers[s] \in InBook
  BY <1>1 DEF Book
<1>5. InBook = { peers[s] : s \in { t \in Sids : peers[t] # 0 } }
  <2>1. ASSUME NEW x \in InBook PROVE x \in { peers[s] : s \in { t \in Sids : peers[t] # 0 } }
    BY <1>3
  <2>2. { peers[s] : s \in { t \in Sids : peers[t] # 0 } } \subseteq InBook
    BY <1>4
  <2> QED
    BY <2>1, <2>2
<1>6. \A x \in InBook, y \in InBook : o[x].sid = o[y].sid => x = y
  <2> SUFFICES ASSUME NEW x \in InBook, NEW y \in InBook, o[x].sid = o[y].sid PROVE x = y
    OBVIOUS
  <2>1. peers[o[x].sid] = x /\ peers[o[y].sid] = y
    BY <1>3
  <2> QED
    BY <2>1
<1> QED
  BY <1>1, <1>2, <1>5, <1>6

LEMMA UsableInBook ==
  ASSUME NEW o
  PROVE  PeersByDistance(o) \subseteq InBook
  BY DEF PeersByDistance

\* The nearest of some peers is one of them.
LEMMA NearestFacts ==
  ASSUME NEW o \in Seq(Peer), NEW m \in Magnets, NEW ids \in SUBSET Objs(o), ids # {}
  PROVE  (CHOOSE i \in ids : \A j \in ids : DistanceOf(o, m, i) <= DistanceOf(o, m, j)) \in ids
<1> DEFINE D == { DistanceOf(o, m, i) : i \in ids }
<1>1. \A i \in ids : DistanceOf(o, m, i) \in Nat
  BY ObjectFacts, PeeringAssumption DEF DistanceOf
<1>2. D \in SUBSET Nat /\ D # {}
  BY <1>1
<1>3. PICK d \in D : \A e \in D \ {d} : <<e, d>> \notin OpToRel(<, Nat)
  BY <1>2, WFMin, NatLessThanWellFounded
<1>4. \A e \in D : d <= e
  <2> SUFFICES ASSUME NEW e \in D PROVE d <= e
    OBVIOUS
  <2>1. d \in Nat /\ e \in Nat
    BY <1>2
  <2>2. ~ (e < d)
    <3>1. e < d => <<e, d>> \in OpToRel(<, Nat)
      BY <2>1 DEF OpToRel
    <3>2. e < d => e \in D \ {d}
      BY <2>1
    <3> HIDE DEF D
    <3> QED
      BY <1>3, <3>1, <3>2
  <2> QED
    BY <2>1, <2>2
<1>5. PICK i \in ids : DistanceOf(o, m, i) = d
  BY <1>3
<1>6. \E k \in ids : \A j \in ids : DistanceOf(o, m, k) <= DistanceOf(o, m, j)
  BY <1>4, <1>5
<1> QED
  BY <1>6

-----------------------------------------------------------------------------
(* The search.                                                              *)

\* h is a handler that asks one of `candidates` for request r, whom r has not visited.
Asks(o, a, r, candidates, h) ==
  /\ HandlerOK(h, Len(o), a)
  /\ h # IdleHandler /\ h.pc = "ask"
  /\ h.request = [id |-> r.id, magnet |-> r.magnet, visited |-> r.visited \cup {h.peer}]
  /\ h.peer \in candidates /\ h.todo \subseteq candidates
  /\ \A v \in r.visited : o[v] # o[h.peer]

Nearest(o, r, ids) ==
  CHOOSE i \in ids : \A j \in ids : DistanceOf(o, r.magnet, i) <= DistanceOf(o, r.magnet, j)

LEMMA ContactShape ==
  ASSUME NEW n, NEW a, NEW r \in RequestType(n, a), NEW o, NEW ids, NEW todo, NEW round,
         NEW nearest, nearest = Nearest(o, r, ids)
  PROVE  Contact(o, r, ids, todo, round)
           = [pc |-> "ask",
              request |-> [id |-> r.id, magnet |-> r.magnet, visited |-> r.visited \cup {nearest}],
              todo |-> { j \in todo : DistanceOf(o, r.magnet, nearest) < DistanceOf(o, r.magnet, j) },
              round |-> round, peer |-> nearest, near |-> <<>>]
<1>1. r \in [id : 1 .. a, magnet : Magnets, visited : SUBSET (1 .. n)]
  BY DEF RequestType
<1>2. [r EXCEPT !.visited = @ \cup {nearest}]
        = [id |-> r.id, magnet |-> r.magnet, visited |-> r.visited \cup {nearest}]
  BY <1>1
<1> QED
  BY <1>2, Zenon DEF Contact, Nearest

LEMMA ContactAsks ==
  ASSUME NEW o \in Seq(Peer), NEW a \in Nat, NEW r \in RequestType(Len(o), a),
         NEW todo \in SUBSET Objs(o), NEW round \in -1 .. max_depth,
         NEW all \in SUBSET Objs(o), NEW ids \in SUBSET Unvisited(o, all, r.visited), ids # {}
  PROVE  Asks(o, a, r, all \cup todo, Contact(o, r, ids, todo, round))
<1>1. r.magnet \in Magnets /\ r.visited \in SUBSET (1 .. Len(o)) /\ r.id \in 1 .. a
  BY DEF RequestType
<1>2. ids \subseteq all /\ ids \in SUBSET Objs(o) /\ \A i \in ids : \A v \in r.visited : o[v] # o[i]
  BY DEF Unvisited
<1>3. PICK nearest \in ids : nearest = Nearest(o, r, ids)
  BY <1>1, <1>2, NearestFacts DEF Nearest
<1>4. PICK left \in SUBSET todo :
        left = { j \in todo : DistanceOf(o, r.magnet, nearest) < DistanceOf(o, r.magnet, j) }
  OBVIOUS
<1> DEFINE q == [id |-> r.id, magnet |-> r.magnet, visited |-> r.visited \cup {nearest}]
           h == [pc |-> "ask", request |-> q, todo |-> left, round |-> round, peer |-> nearest,
                 near |-> <<>>]
<1>6. Contact(o, r, ids, todo, round) = h
  BY <1>3, <1>4, ContactShape
<1>7. nearest \in 1 .. Len(o) /\ left \in SUBSET (1 .. Len(o))
  BY <1>2, <1>4 DEF Objs
<1>8. q \in RequestType(Len(o), a)
  BY <1>1, <1>7 DEF RequestType
<1>9. HandlerOK(h, Len(o), a)
  BY <1>7, <1>8 DEF HandlerOK
<1>10. h # IdleHandler
  BY DEF IdleHandler
<1> QED
  BY <1>2, <1>6, <1>9, <1>10 DEF Asks

\* A search that goes on asks an unvisited peer of the round or of the book, or ends.
LEMMA SearchOnFacts ==
  ASSUME NEW o \in Seq(Peer), InBook \subseteq Objs(o), NEW a \in Nat, NEW w \in Workers,
         NEW r \in RequestType(Len(o), a), NEW todo \in SUBSET Objs(o),
         NEW round \in -1 .. max_depth, SearchOn(o, w, r, todo, round)
  PROVE  \/ /\ answers' = answers
            /\ \E h : Asks(o, a, r, InBook \cup todo, h) /\ handler' = [handler EXCEPT ![w] = h]
         \/ Finish(w, r, 0)
<1> DEFINE rest == Unvisited(o, todo, r.visited)
           all == PeersByDistance(o)
           next == Unvisited(o, all, r.visited)
<1>1. all \in SUBSET Objs(o) /\ all \subseteq InBook
  BY UsableInBook
<1>2. CASE /\ rest # {}
           /\ handler' = [handler EXCEPT ![w] = Contact(o, r, rest, todo, round)]
           /\ UNCHANGED answers
  <2>1. Asks(o, a, r, todo \cup todo, Contact(o, r, rest, todo, round))
    BY <1>2, ContactAsks
  <2>2. Asks(o, a, r, InBook \cup todo, Contact(o, r, rest, todo, round))
    BY <2>1 DEF Asks
  <2> QED
    BY <1>2, <2>2
<1>3. CASE /\ next # {} /\ MoreRounds(round)
           /\ handler' = [handler EXCEPT ![w] = Contact(o, r, next, all, round + 1)]
           /\ UNCHANGED answers
  <2>1. round + 1 \in -1 .. max_depth
    BY <1>3, PeeringAssumption DEF MoreRounds
  <2>2. Asks(o, a, r, all \cup all, Contact(o, r, next, all, round + 1))
    BY <1>1, <1>3, <2>1, ContactAsks
  <2>3. Asks(o, a, r, InBook \cup todo, Contact(o, r, next, all, round + 1))
    BY <1>1, <2>2 DEF Asks
  <2> QED
    BY <1>3, <2>3
<1> QED
  BY <1>2, <1>3 DEF SearchOn

-----------------------------------------------------------------------------
(* Objects and the book.                                                    *)

LEMMA AddNewFacts ==
  ASSUME Types, NEW record \in Peer, AddNew(record)
  PROVE  /\ HeapGrows /\ Len(obj') = Len(obj) + 1
         /\ \A i \in Objs(obj) : obj'[i] = obj[i]
         /\ Book(obj', peers', peers_by_rating')
         /\ \A x \in InBook, y \in InBook' : x \notin InBook' => obj'[x].exp <= obj'[y].exp
         /\ Len(peers_by_rating) < max_peer_count => InBook \subseteq InBook'
         /\ InBook' \subseteq InBook \cup {Len(obj')}
<1>1. obj' = Append(obj, record) /\ AddPeer(obj', Len(obj) + 1)
  BY DEF AddNew
<1>2. /\ obj' \in Seq(Peer) /\ Len(obj') = Len(obj) + 1 /\ Len(obj) \in Nat
      /\ \A i \in Objs(obj) : obj'[i] = obj[i]
  BY <1>1 DEF Types, Objs
<1>3. HeapGrows
  BY <1>2 DEF HeapGrows
<1>4. Book(obj', peers, peers_by_rating)
  BY <1>3, BookOfLaterHeap DEF Types, HeapGrows
<1>5. Len(obj) + 1 \in Objs(obj')
  BY <1>2 DEF Objs
<1> QED
  BY <1>1, <1>2, <1>3, <1>4, <1>5, AddPeerKeeps

LEMMA RatedFacts ==
  ASSUME NEW o \in Seq(Peer), o = obj, NEW i \in Objs(o), NEW d \in Int
  PROVE  /\ Rated(i, d) \in Seq(Peer)
         /\ Len(Rated(i, d)) = Len(o)
         /\ \A j \in Objs(o) : Rated(i, d)[j].sid = o[j].sid
<1>1. o[i] \in [sid : Sids, exp : Exps]
  BY ObjectFacts DEF Peer
<1>2. Scaled(o[i].exp, d) \in Exps
  BY <1>1, ScaledFacts
<1> DEFINE p == [sid |-> o[i].sid, exp |-> Scaled(o[i].exp, d)]
<1>3. p \in Peer
  BY <1>1, <1>2 DEF Peer
<1>4. Rated(i, d) = [o EXCEPT ![i] = p]
  <2>1. [o[i] EXCEPT !.exp = Scaled(@, d)] = p
    BY <1>1
  <2> QED
    BY <2>1, Zenon DEF Rated
<1>5. i \in 1 .. Len(o)
  BY DEF Objs
<1>6. /\ [o EXCEPT ![i] = p] \in Seq(Peer)
      /\ Len([o EXCEPT ![i] = p]) = Len(o)
      /\ \A j \in 1 .. Len(o) : [o EXCEPT ![i] = p][j] = IF j = i THEN p ELSE o[j]
  BY <1>3, <1>5, ExceptSeq
<1> QED
  BY <1>4, <1>6 DEF Objs

LEMMA RateFacts ==
  ASSUME Types, NEW i \in Objs(obj), NEW d \in Int, Rate(i, d)
  PROVE  /\ HeapGrows /\ Len(obj') = Len(obj)
         /\ store_q' \in Seq(Objs(obj')) /\ known_q' \in Seq(Objs(obj'))
<1>1. obj' = Rated(i, d) /\ store_q' = Append(store_q, i) /\ known_q' = Append(known_q, i)
  BY DEF Rate, EmitPeer
<1>2. HeapGrows /\ Len(obj') = Len(obj)
  <2>1. Len(obj) \in Nat
    BY DEF Types
  <2> QED
    BY <1>1, <2>1, RatedFacts DEF Types, HeapGrows
<1>3. Objs(obj') = Objs(obj)
  BY <1>2 DEF Objs
<1> QED
  BY <1>1, <1>2, <1>3 DEF Types

-----------------------------------------------------------------------------
(* Handlers and answers.                                                    *)

\* What is known of a handler that works on a request.
LEMMA BusyFacts ==
  ASSUME Types, NEW w \in Workers, handler[w].pc # "idle"
  PROVE  /\ handler[w] # IdleHandler
         /\ handler[w].request \in RequestType(Len(obj), Len(answers))
         /\ handler[w].todo \in SUBSET Objs(obj)
         /\ handler[w].round \in -1 .. max_depth
         /\ handler[w].peer \in Objs(obj) /\ handler[w].peer \in handler[w].request.visited
         /\ handler[w].near \in Seq(Peer)
         /\ handler[w].pc = "learn" => handler[w].near # <<>>
         /\ Len(obj) \in Nat /\ Len(answers) \in Nat
<1>1. handler[w] # IdleHandler
  BY DEF IdleHandler
<1>2. HandlerOK(handler[w], Len(obj), Len(answers))
  BY DEF Types
<1> QED
  BY <1>1, <1>2 DEF HandlerOK, Objs, Types

LEMMA HandlerUpdate ==
  ASSUME Types, NEW w \in Workers, NEW h, handler' = [handler EXCEPT ![w] = h]
  PROVE  /\ DOMAIN handler' = Workers
         /\ handler'[w] = h
         /\ \A v \in Workers \ {w} : handler'[v] = handler[v]
  BY DEF Types

LEMMA HandlersOK ==
  ASSUME Types, HeapGrows, answers' \in Seq([finished : Nat, failed : Nat]),
         Len(answers) <= Len(answers'), NEW w \in Workers, NEW h,
         handler' = [handler EXCEPT ![w] = h], HandlerOK(h, Len(obj'), Len(answers'))
  PROVE  /\ DOMAIN handler' = Workers
         /\ \A v \in Workers : HandlerOK(handler'[v], Len(obj'), Len(answers'))
  BY HandlerUpdate, TypesLater

\* The end of a handler counts for its request, and for no other.
LEMMA FinishFacts ==
  ASSUME Types, NEW w \in Workers, NEW n, NEW r \in RequestType(n, Len(answers)),
         NEW f \in {0, 1}, Finish(w, r, f)
  PROVE  /\ handler' = [handler EXCEPT ![w] = IdleHandler]
         /\ answers' \in Seq([finished : Nat, failed : Nat])
         /\ Len(answers') = Len(answers)
         /\ \A k \in 1 .. Len(answers) :
              /\ answers'[k].failed = IF k = r.id THEN answers[k].failed + 1 ELSE answers[k].failed
              /\ answers'[k].finished = IF k = r.id THEN answers[k].finished + f ELSE answers[k].finished
<1> DEFINE Answer == [finished : Nat, failed : Nat]
<1>1. r.id \in 1 .. Len(answers) /\ answers \in Seq(Answer)
  BY DEF RequestType, Types
<1>2. PICK k \in 1 .. Len(answers) : k = r.id
  BY <1>1
<1>3. answers[k] \in [finished : Nat, failed : Nat]
  BY <1>1, ElementOfSeq
<1> DEFINE mid == [finished |-> answers[k].finished, failed |-> answers[k].failed + 1]
           end == [finished |-> answers[k].finished + f, failed |-> answers[k].failed + 1]
<1>4. mid \in Answer /\ end \in Answer
  BY <1>3
<1>5. answers' = [[answers EXCEPT ![k] = mid] EXCEPT ![k] = end]
  <2>1. [answers[k] EXCEPT !.failed = @ + 1] = mid
    BY <1>3
  <2>2. [mid EXCEPT !.finished = @ + f] = end
    OBVIOUS
  <2>3. [answers EXCEPT ![k] = mid][k] = mid
    BY <1>1
  <2>4. answers' = [[answers EXCEPT ![k].failed = @ + 1] EXCEPT ![k].finished = @ + f]
    BY <1>2, Zenon DEF Finish
  <2>5. [answers EXCEPT ![k].failed = @ + 1] = [answers EXCEPT ![k] = mid]
    BY <2>1, Zenon
  <2>6. [[answers EXCEPT ![k] = mid] EXCEPT ![k].finished = @ + f]
          = [[answers EXCEPT ![k] = mid] EXCEPT ![k] = end]
    BY <2>2, <2>3, Zenon
  <2> QED
    BY <2>4, <2>5, <2>6, Zenon
<1> HIDE DEF mid, end
<1>6. /\ answers' \in Seq(Answer) /\ Len(answers') = Len(answers)
      /\ \A j \in 1 .. Len(answers) : answers'[j] = IF j = k THEN end ELSE answers[j]
  <2>1. /\ answers \in Seq(Answer) /\ mid \in Answer /\ end \in Answer /\ k \in 1 .. Len(answers)
        /\ answers' = [[answers EXCEPT ![k] = mid] EXCEPT ![k] = end]
    BY <1>1, <1>4, <1>5
  <2> HIDE DEF Answer
  <2> QED
    BY <2>1, ReplaceFacts
<1>7. handler' = [handler EXCEPT ![w] = IdleHandler]
  BY DEF Finish
<1> QED
  BY <1>2, <1>6, <1>7 DEF end

-----------------------------------------------------------------------------
(* Every request is in one place until it is answered.                      *)

Busy(w) == handler[w].pc # "idle"

Unanswered(a, k) == a[k].failed = 0 /\ a[k].finished = 0

Open ==
  /\ \A i, j \in DOMAIN requests : requests[i].id = requests[j].id => i = j
  /\ \A v, w \in Workers :
       Busy(v) /\ Busy(w) /\ handler[v].request.id = handler[w].request.id => v = w
  /\ \A w \in Workers, i \in DOMAIN requests : Busy(w) => requests[i].id # handler[w].request.id
  /\ \A i \in DOMAIN requests : Unanswered(answers, requests[i].id)
  /\ \A w \in Workers : Busy(w) => Unanswered(answers, handler[w].request.id)
  /\ \A k \in 1 .. Len(answers) : answers[k].failed <= 1 /\ answers[k].finished <= answers[k].failed
  /\ crashes = 0 => \A k \in 1 .. Len(answers) :
       \/ answers[k].failed = 1
       \/ \E i \in DOMAIN requests : requests[i].id = k
       \/ \E w \in Workers : Busy(w) /\ handler[w].request.id = k

\* What a handler does with the peers it received changes neither its request nor its
\* round nor the peer it asks.
LEMMA OnlyNear ==
  ASSUME Types, NEW w \in Workers, Busy(w), NEW n, NEW p,
         handler' = [handler EXCEPT ![w].near = n, ![w].pc = p]
  PROVE  /\ handler'[w].pc = p /\ handler'[w].round = handler[w].round
         /\ handler'[w].request = handler[w].request /\ handler'[w].peer = handler[w].peer
         /\ \A v \in Workers \ {w} : handler'[v] = handler[v]
<1>1. PICK g \in [pc : {"ask", "learn", "head"}, request : RequestType(Len(obj), Len(answers)),
                  todo : SUBSET (1 .. Len(obj)), round : -1 .. max_depth, peer : 1 .. Len(obj),
                  near : Seq(Peer)] : g = handler[w]
  BY BusyFacts DEF Busy, HandlerOK, Types
<1> DEFINE h == [[g EXCEPT !.near = n] EXCEPT !.pc = p]
<1>2. h.pc = p /\ h.round = g.round /\ h.request = g.request /\ h.peer = g.peer
  OBVIOUS
<1>3. handler' = [handler EXCEPT ![w] = h]
  BY <1>1, Zenon DEF Types
<1> HIDE DEF h
<1> QED
  BY <1>1, <1>2, <1>3, HandlerUpdate

\* discover() answered, or one of the peers it named was looked at: the handlers stay at
\* their requests and their peers.
LEMMA NearSame ==
  ASSUME Types, NEW w \in Workers, DiscoverAnswered(w) \/ Learn(w)
  PROVE  \A v \in Workers : /\ Busy(v)' <=> Busy(v)
                            /\ handler'[v].request = handler[v].request
                            /\ handler'[v].peer = handler[v].peer
                            /\ handler'[v].round = handler[v].round
<1>1. ASSUME NEW n, NEW p, p # "idle", Busy(w),
             handler' = [handler EXCEPT ![w].near = n, ![w].pc = p]
      PROVE  \A v \in Workers : /\ Busy(v)' <=> Busy(v)
                                /\ handler'[v].request = handler[v].request
                                /\ handler'[v].peer = handler[v].peer
                                /\ handler'[v].round = handler[v].round
  <2>1. /\ handler'[w].pc = p /\ handler'[w].round = handler[w].round
        /\ handler'[w].request = handler[w].request /\ handler'[w].peer = handler[w].peer
        /\ \A v \in Workers \ {w} : handler'[v] = handler[v]
    BY <1>1, OnlyNear
  <2>2. Busy(w)'
    BY <1>1, <2>1 DEF Busy
  <2> QED
    BY <1>1, <2>1, <2>2 DEF Busy
<1>2. CASE DiscoverAnswered(w)
  <2>1. PICK near \in NearLists :
          /\ handler[w].pc = "ask"
          /\ handler' = [handler EXCEPT ![w].near = near,
                                        ![w].pc = IF near = <<>> THEN "head" ELSE "learn"]
    BY <1>2 DEF DiscoverAnswered
  <2>2. PICK p : p # "idle" /\ p = IF near = <<>> THEN "head" ELSE "learn"
    OBVIOUS
  <2>3. handler' = [handler EXCEPT ![w].near = near, ![w].pc = p]
    BY <2>1, <2>2, Zenon
  <2>4. Busy(w)
    BY <2>1 DEF Busy
  <2> QED
    BY <1>1, <2>2, <2>3, <2>4, Zenon
<1>3. CASE Learn(w)
  <2>1. /\ handler[w].pc = "learn"
        /\ handler' = [handler EXCEPT ![w].near = Tail(@),
                                      ![w].pc = IF Len(handler[w].near) = 1 THEN "head" ELSE "learn"]
    BY <1>3 DEF Learn
  <2>2. PICK p : p # "idle" /\ p = IF Len(handler[w].near) = 1 THEN "head" ELSE "learn"
    OBVIOUS
  <2>3. PICK n : n = Tail(handler[w].near)
    OBVIOUS
  <2>4. handler' = [handler EXCEPT ![w].near = n, ![w].pc = p]
    BY <2>1, <2>2, <2>3, Zenon
  <2>5. Busy(w)
    BY <2>1 DEF Busy
  <2> QED
    BY <1>1, <2>2, <2>4, <2>5, Zenon
<1> QED
  BY <1>2, <1>3

\* Nobody takes, ends or emits a request.
LEMMA OpenSame ==
  ASSUME Open, UNCHANGED <<requests, answers, crashes>>,
         \A w \in Workers : /\ Busy(w)' <=> Busy(w)
                            /\ Busy(w) => handler'[w].request.id = handler[w].request.id
  PROVE  Open'
  BY DEF Open, Unanswered, Busy

\* A handler ends.
LEMMA OpenEnds ==
  ASSUME Types, Open, NEW w \in Workers, Busy(w), NEW f \in {0, 1},
         Finish(w, handler[w].request, f), UNCHANGED <<requests, crashes>>
  PROVE  Open'
<1>1. PICK id \in 1 .. Len(answers) : id = handler[w].request.id
  BY BusyFacts DEF Busy, RequestType
<1>2. /\ handler'[w] = IdleHandler /\ \A v \in Workers \ {w} : handler'[v] = handler[v]
      /\ Len(answers') = Len(answers)
      /\ \A k \in 1 .. Len(answers) :
           /\ answers'[k].failed = IF k = id THEN answers[k].failed + 1 ELSE answers[k].failed
           /\ answers'[k].finished = IF k = id THEN answers[k].finished + f ELSE answers[k].finished
  <2>1. PICK r \in RequestType(Len(obj), Len(answers)) : r = handler[w].request
    BY BusyFacts DEF Busy
  <2>2. Finish(w, r, f)
    BY <2>1
  <2>3. /\ handler' = [handler EXCEPT ![w] = IdleHandler]
        /\ Len(answers') = Len(answers)
        /\ \A k \in 1 .. Len(answers) :
             /\ answers'[k].failed = IF k = r.id THEN answers[k].failed + 1 ELSE answers[k].failed
             /\ answers'[k].finished = IF k = r.id THEN answers[k].finished + f ELSE answers[k].finished
    BY <2>2, FinishFacts
  <2> QED
    BY <1>1, <2>1, <2>3, HandlerUpdate
<1>3. ~Busy(w)' /\ \A v \in Workers : Busy(v)' => v # w /\ Busy(v) /\ handler'[v] = handler[v]
  BY <1>2 DEF Busy, IdleHandler
<1>4. \A v \in Workers \ {w} : Busy(v) => Busy(v)'
  BY <1>2 DEF Busy
<1>5. \A i \in DOMAIN requests : requests[i].id \in 1 .. Len(answers) /\ requests[i].id # id
  <2>1. \A i \in DOMAIN requests : requests[i] \in RequestType(Len(obj), Len(answers))
    BY DEF Types
  <2> QED
    BY <1>1, <2>1 DEF RequestType, Open
<1>6. \A v \in Workers \ {w} :
        Busy(v) => handler[v].request.id \in 1 .. Len(answers) /\ handler[v].request.id # id
  BY <1>1, BusyFacts DEF Busy, RequestType, Open
<1>7. \A k \in 1 .. Len(answers) : k # id /\ Unanswered(answers, k) => Unanswered(answers', k)
  BY <1>2 DEF Unanswered
<1>8. answers[id].failed = 0 /\ answers[id].finished = 0
  BY <1>1 DEF Open, Unanswered
<1>9. \A k \in 1 .. Len(answers') : answers'[k].failed <= 1 /\ answers'[k].finished <= answers'[k].failed
  BY <1>1, <1>2, <1>8 DEF Open
<1>10. crashes' = 0 => \A k \in 1 .. Len(answers') :
         \/ answers'[k].failed = 1
         \/ \E i \in DOMAIN requests' : requests'[i].id = k
         \/ \E v \in Workers : Busy(v)' /\ handler'[v].request.id = k
  <2> SUFFICES ASSUME crashes = 0, NEW k \in 1 .. Len(answers), k # id, answers'[k].failed # 1
               PROVE  \/ \E i \in DOMAIN requests : requests[i].id = k
                      \/ \E v \in Workers : Busy(v)' /\ handler'[v].request.id = k
    BY <1>2, <1>8
  <2>1. answers[k].failed # 1
    BY <1>2
  <2>2. ASSUME NEW v \in Workers, Busy(v), handler[v].request.id = k
        PROVE  Busy(v)' /\ handler'[v].request.id = k
    BY <1>1, <1>2, <1>4, <2>2
  <2> QED
    BY <2>1, <2>2 DEF Open
<1>11. \A i \in DOMAIN requests' : Unanswered(answers', requests'[i].id)
  BY <1>5, <1>7 DEF Open
<1>12. \A v \in Workers : Busy(v)' => Unanswered(answers', handler'[v].request.id)
  BY <1>3, <1>6, <1>7 DEF Open
<1> QED
  BY <1>3, <1>9, <1>10, <1>11, <1>12 DEF Open

\* A handler takes the first request, and works on it or ends at once.
LEMMA OpenStarts ==
  ASSUME Types, Open, NEW w \in Workers, ~Busy(w), requests # <<>>, requests' = Tail(requests),
         UNCHANGED crashes,
         \/ /\ answers' = answers
            /\ \E h : /\ h.pc # "idle" /\ h.request.id = Head(requests).id
                      /\ handler' = [handler EXCEPT ![w] = h]
         \/ Finish(w, Head(requests), 0)
  PROVE  Open'
<1>1. \A i \in DOMAIN requests : requests[i] \in RequestType(Len(obj), Len(answers))
  BY DEF Types
<1>2. /\ Len(requests) \in Nat /\ DOMAIN requests = 1 .. Len(requests) /\ 1 \in DOMAIN requests
      /\ DOMAIN requests' = 1 .. (Len(requests) - 1) /\ Head(requests) = requests[1]
      /\ \A i \in DOMAIN requests' : i + 1 \in DOMAIN requests /\ requests'[i] = requests[i + 1]
  BY DEF Types
<1>3. PICK r \in RequestType(Len(obj), Len(answers)) : r = Head(requests) /\ r = requests[1]
  BY <1>1, <1>2
<1>4. PICK id \in 1 .. Len(answers) : id = r.id
  BY DEF RequestType
<1>5. \A i \in DOMAIN requests : requests[i].id \in 1 .. Len(answers) /\ (i # 1 => requests[i].id # id)
  BY <1>1, <1>2, <1>3, <1>4 DEF Open, RequestType
<1>6. \A v \in Workers : Busy(v) =>
        v # w /\ handler[v].request.id \in 1 .. Len(answers) /\ handler[v].request.id # id
  BY <1>2, <1>3, <1>4, BusyFacts DEF Busy, RequestType, Open
<1>7. \A i \in DOMAIN requests' :
        requests'[i].id \in 1 .. Len(answers) /\ requests'[i].id # id /\ Unanswered(answers, requests'[i].id)
  <2>1. \A i \in DOMAIN requests' : i + 1 # 1
    BY <1>2
  <2> QED
    BY <1>2, <1>5, <2>1 DEF Open
<1>8. \A i, j \in DOMAIN requests' : requests'[i].id = requests'[j].id => i = j
  <2> SUFFICES ASSUME NEW i \in DOMAIN requests', NEW j \in DOMAIN requests',
                      requests'[i].id = requests'[j].id
               PROVE  i = j
    OBVIOUS
  <2>1. i + 1 = j + 1
    BY <1>2 DEF Open
  <2> QED
    BY <1>2, <2>1
<1>9. \A i \in DOMAIN requests : requests[i].id # id => \E j \in DOMAIN requests' : requests'[j].id = requests[i].id
  <2> SUFFICES ASSUME NEW i \in DOMAIN requests, requests[i].id # id
               PROVE  \E j \in DOMAIN requests' : requests'[j].id = requests[i].id
    OBVIOUS
  <2>1. i # 1
    BY <1>3, <1>4
  <2>2. i - 1 \in DOMAIN requests' /\ (i - 1) + 1 = i
    BY <1>2, <2>1
  <2> QED
    BY <1>2, <2>2
<1>10. Unanswered(answers, id)
  BY <1>2, <1>3, <1>4 DEF Open
<1>11. CASE /\ answers' = answers
            /\ \E h : /\ h.pc # "idle" /\ h.request.id = Head(requests).id
                      /\ handler' = [handler EXCEPT ![w] = h]
  <2>1. PICK h : /\ h.pc # "idle" /\ h.request.id = id /\ handler' = [handler EXCEPT ![w] = h]
    BY <1>3, <1>4, <1>11
  <2>2. /\ handler'[w] = h /\ \A v \in Workers \ {w} : handler'[v] = handler[v]
    BY <2>1, HandlerUpdate
  <2>3. Busy(w)' /\ handler'[w].request.id = id
    BY <2>1, <2>2 DEF Busy
  <2>4. \A v \in Workers \ {w} : /\ Busy(v)' <=> Busy(v)
                                 /\ handler'[v].request.id = handler[v].request.id
    BY <2>2 DEF Busy
  <2>5. \A u, v \in Workers :
          Busy(u)' /\ Busy(v)' /\ handler'[u].request.id = handler'[v].request.id => u = v
    BY <1>6, <2>3, <2>4 DEF Open
  <2>6. \A v \in Workers, i \in DOMAIN requests' : Busy(v)' => requests'[i].id # handler'[v].request.id
    <3> SUFFICES ASSUME NEW v \in Workers, NEW i \in DOMAIN requests', Busy(v)'
                 PROVE  requests'[i].id # handler'[v].request.id
      OBVIOUS
    <3>1. CASE v = w
      BY <1>7, <2>3, <3>1
    <3>2. CASE v # w
      BY <1>2, <2>4, <3>2 DEF Open
    <3> QED
      BY <3>1, <3>2
  <2>7. \A v \in Workers : Busy(v)' => Unanswered(answers', handler'[v].request.id)
    BY <1>10, <1>11, <2>3, <2>4 DEF Open
  <2>8. crashes' = 0 => \A k \in 1 .. Len(answers') :
          \/ answers'[k].failed = 1
          \/ \E i \in DOMAIN requests' : requests'[i].id = k
          \/ \E v \in Workers : Busy(v)' /\ handler'[v].request.id = k
    <3> SUFFICES ASSUME crashes = 0, NEW k \in 1 .. Len(answers), answers[k].failed # 1
                 PROVE  \/ \E i \in DOMAIN requests' : requests'[i].id = k
                        \/ \E v \in Workers : Busy(v)' /\ handler'[v].request.id = k
      BY <1>11
    <3>1. CASE k = id
      BY <2>3, <3>1
    <3>2. CASE \E i \in DOMAIN requests : k # id /\ requests[i].id = k
      BY <1>9, <3>2
    <3>3. CASE \E v \in Workers : Busy(v) /\ handler[v].request.id = k
      BY <1>6, <2>4, <3>3
    <3> QED
      BY <3>1, <3>2, <3>3 DEF Open
  <2>9. \A k \in 1 .. Len(answers') : answers'[k].failed <= 1 /\ answers'[k].finished <= answers'[k].failed
    BY <1>11 DEF Open
  <2>10. \A i \in DOMAIN requests' : Unanswered(answers', requests'[i].id)
    BY <1>7, <1>11
  <2> QED
    BY <1>8, <2>5, <2>6, <2>7, <2>8, <2>9, <2>10 DEF Open
<1>12. CASE Finish(w, Head(requests), 0)
  <2>1. Finish(w, r, 0)
    BY <1>3, <1>12
  <2>2. /\ handler' = [handler EXCEPT ![w] = IdleHandler]
        /\ Len(answers') = Len(answers)
        /\ \A k \in 1 .. Len(answers) :
             /\ answers'[k].failed = IF k = r.id THEN answers[k].failed + 1 ELSE answers[k].failed
             /\ answers'[k].finished = IF k = r.id THEN answers[k].finished + 0 ELSE answers[k].finished
    BY <2>1, FinishFacts
  <2>3. /\ handler'[w] = IdleHandler /\ \A v \in Workers \ {w} : handler'[v] = handler[v]
    BY <2>2, HandlerUpdate
  <2>4. \A v \in Workers : /\ Busy(v)' <=> Busy(v)
                           /\ Busy(v) => handler'[v].request.id = handler[v].request.id
    BY <2>3 DEF Busy, IdleHandler
  <2>5. \A k \in 1 .. Len(answers) : k # id /\ Unanswered(answers, k) => Unanswered(answers', k)
    BY <1>4, <2>2 DEF Unanswered
  <2>6. \A k \in 1 .. Len(answers') : answers'[k].failed <= 1 /\ answers'[k].finished <= answers'[k].failed
    BY <1>4, <1>10, <2>2 DEF Open, Unanswered
  <2>7. \A i \in DOMAIN requests' : Unanswered(answers', requests'[i].id)
    BY <1>7, <2>5
  <2>8. \A v \in Workers : Busy(v)' => Unanswered(answers', handler'[v].request.id)
    BY <1>6, <2>4, <2>5 DEF Open
  <2>9. \A v \in Workers, i \in DOMAIN requests' : Busy(v)' => requests'[i].id # handler'[v].request.id
    BY <1>2, <2>4 DEF Open
  <2>10. \A u, v \in Workers :
           Busy(u)' /\ Busy(v)' /\ handler'[u].request.id = handler'[v].request.id => u = v
    BY <2>4 DEF Open
  <2>11. crashes' = 0 => \A k \in 1 .. Len(answers') :
           \/ answers'[k].failed = 1
           \/ \E i \in DOMAIN requests' : requests'[i].id = k
           \/ \E v \in Workers : Busy(v)' /\ handler'[v].request.id = k
    <3> SUFFICES ASSUME crashes = 0, NEW k \in 1 .. Len(answers), answers'[k].failed # 1
                 PROVE  \/ \E i \in DOMAIN requests' : requests'[i].id = k
                        \/ \E v \in Workers : Busy(v)' /\ handler'[v].request.id = k
      BY <2>2
    <3>1. k # id /\ answers[k].failed # 1
      BY <1>4, <1>10, <2>2 DEF Unanswered
    <3>2. CASE \E i \in DOMAIN requests : requests[i].id = k
      BY <1>9, <3>1, <3>2
    <3>3. CASE \E v \in Workers : Busy(v) /\ handler[v].request.id = k
      BY <2>4, <3>3
    <3> QED
      BY <3>1, <3>2, <3>3 DEF Open
  <2> QED
    BY <1>8, <2>6, <2>7, <2>8, <2>9, <2>10, <2>11 DEF Open
<1> QED
  BY <1>11, <1>12

\* Somebody asks for a magnet.
LEMMA OpenEmits ==
  ASSUME Types, Open, NEW m \in Magnets, NEW visited \in SUBSET (1 .. Len(obj)), EmitRequest(m, visited),
         UNCHANGED <<handler, crashes>>
  PROVE  /\ Open'
         /\ answers' \in Seq([finished : Nat, failed : Nat]) /\ Len(answers') = Len(answers) + 1
         /\ \E r \in RequestType(Len(obj), Len(answers')) :
              r.magnet = m /\ r.visited = visited /\ requests' = Append(requests, r)
<1> DEFINE new == Len(answers) + 1
           a == [finished |-> 0, failed |-> 0]
           r == [id |-> new, magnet |-> m, visited |-> visited]
<1>1. answers' = Append(answers, a) /\ requests' = Append(requests, r)
  BY DEF EmitRequest
<1>2. a \in [finished : Nat, failed : Nat] /\ a.failed = 0 /\ a.finished = 0
  OBVIOUS
<1>3. /\ answers' \in Seq([finished : Nat, failed : Nat]) /\ Len(answers') = new
      /\ Len(answers) \in Nat /\ new \in 1 .. new
      /\ \A k \in 1 .. Len(answers) : answers'[k] = answers[k]
      /\ answers'[new] = a
  <2> HIDE DEF a
  <2> QED
    BY <1>1, <1>2 DEF Types
<1>4. r \in RequestType(Len(obj), Len(answers')) /\ r.id = new /\ r.magnet = m /\ r.visited = visited
  BY <1>3 DEF RequestType
<1> HIDE DEF a
<1>5. /\ \A i \in DOMAIN requests : requests'[i] = requests[i] /\ requests[i].id \in 1 .. Len(answers)
      /\ DOMAIN requests' = DOMAIN requests \cup {Len(requests) + 1}
      /\ requests'[Len(requests) + 1] = r
      /\ Len(requests) + 1 \notin DOMAIN requests
  <2>1. \A i \in DOMAIN requests : requests[i].id \in 1 .. Len(answers)
    <3>1. \A i \in DOMAIN requests : requests[i] \in RequestType(Len(obj), Len(answers))
      BY DEF Types
    <3> QED
      BY <3>1 DEF RequestType
  <2> DEFINE S == RequestType(Len(obj), Len(answers'))
  <2>2. RequestType(Len(obj), Len(answers)) \subseteq S
    BY <1>3 DEF RequestType
  <2>3. requests \in Seq(S)
    BY <2>2, SeqMonotonic DEF Types
  <2>4. requests' = Append(requests, r) /\ r \in S
    BY <1>1, <1>4
  <2> HIDE DEF S
  <2> QED
    BY <2>1, <2>3, <2>4, AppendFacts
<1> HIDE DEF r
<1>6. \A v \in Workers : /\ Busy(v)' <=> Busy(v)
                         /\ Busy(v) => handler[v].request.id \in 1 .. Len(answers)
  <2> SUFFICES ASSUME NEW v \in Workers
               PROVE  /\ Busy(v)' <=> Busy(v)
                      /\ Busy(v) => handler[v].request.id \in 1 .. Len(answers)
    OBVIOUS
  <2>1. Busy(v)' <=> Busy(v)
    BY DEF Busy
  <2>2. ASSUME Busy(v) PROVE handler[v].request.id \in 1 .. Len(answers)
    <3>1. handler[v].request \in RequestType(Len(obj), Len(answers))
      BY <2>2, BusyFacts DEF Busy
    <3> QED
      BY <3>1 DEF RequestType
  <2> QED
    BY <2>1, <2>2
<1>7. \A k \in 1 .. Len(answers) : k # new /\ (Unanswered(answers, k) => Unanswered(answers', k))
  BY <1>3 DEF Unanswered
<1>8. Unanswered(answers', new)
  BY <1>2, <1>3 DEF Unanswered
<1>9. \A i, j \in DOMAIN requests' : requests'[i].id = requests'[j].id => i = j
  BY <1>4, <1>5, <1>7 DEF Open
<1>10. \A u, v \in Workers :
         Busy(u)' /\ Busy(v)' /\ handler'[u].request.id = handler'[v].request.id => u = v
  BY <1>6 DEF Open
<1>11. \A v \in Workers, i \in DOMAIN requests' : Busy(v)' => requests'[i].id # handler'[v].request.id
  BY <1>4, <1>5, <1>6, <1>7 DEF Open
<1>12. \A i \in DOMAIN requests' : Unanswered(answers', requests'[i].id)
  BY <1>4, <1>5, <1>7, <1>8 DEF Open
<1>13. \A v \in Workers : Busy(v)' => Unanswered(answers', handler'[v].request.id)
  BY <1>6, <1>7 DEF Open
<1>14. \A k \in 1 .. Len(answers') : answers'[k].failed <= 1 /\ answers'[k].finished <= answers'[k].failed
  <2>1. \A k \in 1 .. Len(answers) : answers[k].failed <= 1 /\ answers[k].finished <= answers[k].failed
    BY DEF Open
  <2> SUFFICES ASSUME NEW k \in 1 .. new
               PROVE  answers'[k].failed <= 1 /\ answers'[k].finished <= answers'[k].failed
    BY <1>3
  <2>2. CASE k = new
    BY <1>2, <1>3, <2>2
  <2>3. CASE k # new
    BY <1>2, <1>3, <2>1, <2>3
  <2> QED
    BY <2>2, <2>3
<1>15. crashes' = 0 => \A k \in 1 .. Len(answers') :
         \/ answers'[k].failed = 1
         \/ \E i \in DOMAIN requests' : requests'[i].id = k
         \/ \E v \in Workers : Busy(v)' /\ handler'[v].request.id = k
  <2> SUFFICES ASSUME crashes = 0, NEW k \in 1 .. new, answers'[k].failed # 1
               PROVE  \/ \E i \in DOMAIN requests' : requests'[i].id = k
                      \/ \E v \in Workers : Busy(v)' /\ handler'[v].request.id = k
    BY <1>3
  <2>1. CASE k = new
    BY <1>4, <1>5, <2>1
  <2>2. CASE k # new
    <3>1. k \in 1 .. Len(answers) /\ answers[k].failed # 1
      BY <1>3, <2>2
    <3> QED
      BY <1>5, <1>6, <3>1 DEF Open
  <2> QED
    BY <2>1, <2>2
<1> QED
  BY <1>1, <1>3, <1>4, <1>9, <1>10, <1>11, <1>12, <1>13, <1>14, <1>15 DEF Open

-----------------------------------------------------------------------------
(* A book with room for everybody.                                          *)

Room == Cardinality(Sids) <= max_peer_count

\* Whoever a search has visited or is about to visit is in the book.
Listed ==
  /\ \A i \in DOMAIN requests : requests[i].visited \subseteq InBook
  /\ \A i \in DOMAIN found : found[i].visited \subseteq InBook
  /\ \A w \in Workers : Busy(w) =>
       handler[w].request.visited \subseteq InBook /\ handler[w].todo \subseteq InBook

LEMMA RoomLeft ==
  ASSUME Room, NEW o \in Seq(Peer), Book(o, peers, peers_by_rating), NEW i \in Objs(o),
         ~Known(o[i].sid)
  PROVE  Len(peers_by_rating) < max_peer_count
<1> DEFINE n == Len(peers_by_rating)
           T == Sids \ {o[i].sid}
<1>1. n \in Nat /\ \A j \in 1 .. n : peers_by_rating[j] \in Objs(o)
  BY DEF Book
<1>2. IsFiniteSet(T) /\ Cardinality(T) = Cardinality(Sids) - 1
  BY ObjectFacts, FS_RemoveElement, PeerBookAssumption
<1>3. IsFiniteSet(1 .. n) /\ Cardinality(1 .. n) = n
  <2>1. 1 \in Int /\ n \in Int
    BY <1>1
  <2>2. IsFiniteSet(1 .. n) /\ Cardinality(1 .. n) = IF 1 > n THEN 0 ELSE n - 1 + 1
    BY <2>1, FS_Interval
  <2> QED
    BY <1>1, <2>2
<1>4. Cardinality(Sids) \in Nat
  BY FS_CardinalityType, PeerBookAssumption
<1>5. ASSUME n >= max_peer_count PROVE FALSE
  <2> DEFINE f == [j \in 1 .. n |-> o[peers_by_rating[j]].sid]
  <2>1. f \in [1 .. n -> T]
    BY <1>1, ObjectFacts, UnknownNotListed
  <2>2. Cardinality(T) < Cardinality(1 .. n)
    BY <1>1, <1>2, <1>3, <1>4, <1>5, LimitFacts DEF Room
  <2>3. \E x, y \in 1 .. n : x # y /\ f[x] = f[y]
    <3> HIDE DEF f, T
    <3> QED
      BY <1>2, <1>3, <2>1, <2>2, FS_PigeonHole
  <2>4. PICK x \in 1 .. n, y \in 1 .. n :
          x # y /\ o[peers_by_rating[x]].sid = o[peers_by_rating[y]].sid
    BY <2>3
  <2> QED
    BY <2>4 DEF Book
<1> QED
  BY <1>1, <1>5, LimitFacts

\* With room nobody is ever thrown out.
LEMMA AddPeerGrows ==
  ASSUME Room, NEW o \in Seq(Peer), NEW i \in Objs(o), Book(o, peers, peers_by_rating), AddPeer(o, i)
  PROVE  InBook \subseteq InBook'
<1>1. CASE Known(o[i].sid)
  BY <1>1 DEF AddPeer, InBook
<1>2. CASE ~Known(o[i].sid)
  BY <1>2, RoomLeft, AddPeerKeeps
<1> QED
  BY <1>1, <1>2

LEMMA AddNewGrows ==
  ASSUME Room, Types, NEW record \in Peer, AddNew(record)
  PROVE  InBook \subseteq InBook'
<1>1. HeapGrows /\ Len(obj') = Len(obj) + 1 /\ AddPeer(obj', Len(obj) + 1)
  BY AddNewFacts DEF AddNew
<1>2. Len(obj) + 1 \in Objs(obj')
  BY <1>1 DEF Objs, Types
<1>3. Book(obj', peers, peers_by_rating) /\ obj' \in Seq(Peer)
  BY <1>1, BookOfLaterHeap DEF Types, HeapGrows
<1> QED
  BY <1>1, <1>2, <1>3, AddPeerGrows

-----------------------------------------------------------------------------
(* The steps.                                                               *)

\* Nobody leaves the book who is rated above one that stays.
Evicts == \A x \in InBook, y \in InBook' : x \notin InBook' => obj'[x].exp <= obj'[y].exp

Steps == Types' /\ Open' /\ Evicts /\ (Room /\ Listed => Listed')

LEMMA SameHeap ==
  ASSUME Types, obj' = obj
  PROVE  HeapGrows
  BY DEF Types, HeapGrows

LEMMA SameBook ==
  ASSUME UNCHANGED <<peers, peers_by_rating>>
  PROVE  InBook' = InBook /\ Evicts
  BY DEF InBook, Evicts

LEMMA HandleNewPeerKeeps ==
  ASSUME Types, Open, NEW s \in Sids, HandleNewPeer(s)
  PROVE  Steps
<1> DEFINE record == [sid |-> s, exp |-> Initial]
<1>1. AddNew(record) /\ UNCHANGED <<busVars, handler, db_peers, crashes>>
  BY DEF HandleNewPeer
<1>2. record \in Peer
  BY LimitFacts DEF Peer, Initial, Exps
<1> HIDE DEF record
<1>3. HeapGrows /\ Book(obj', peers', peers_by_rating') /\ Evicts
  BY <1>1, <1>2, AddNewFacts DEF Evicts
<1>4. UNCHANGED <<requests, found, store_q, known_q, answers>>
  BY <1>1 DEF busVars
<1>5. Len(answers) <= Len(answers') /\ answers' \in Seq([finished : Nat, failed : Nat])
  BY <1>4 DEF Types
<1>6. Types'
  BY <1>1, <1>3, <1>4, <1>5, TypesLater DEF Types, HeapGrows
<1>7. Open'
  BY <1>1, <1>4, OpenSame DEF Busy
<1>8. Room /\ Listed => Listed'
  <2> SUFFICES ASSUME Room, Listed PROVE Listed'
    OBVIOUS
  <2>1. InBook \subseteq InBook'
    BY <1>1, <1>2, AddNewGrows
  <2> QED
    BY <1>1, <1>4, <2>1 DEF Listed, Busy
<1> QED
  BY <1>3, <1>6, <1>7, <1>8 DEF Steps

LEMMA HandlePeerKeeps ==
  ASSUME Types, Open, HandlePeer
  PROVE  Steps
<1>1. /\ known_q # <<>> /\ known_q' = Tail(known_q) /\ AddPeer(obj, Head(known_q))
      /\ UNCHANGED <<obj, requests, found, store_q, answers, handler, db_peers, crashes>>
  BY DEF HandlePeer
<1>2. PICK i \in Objs(obj) : i = Head(known_q)
  BY <1>1 DEF Types
<1>3. AddPeer(obj, i) /\ known_q' \in Seq(Objs(obj'))
  BY <1>1, <1>2 DEF Types
<1>4. HeapGrows
  BY <1>1, SameHeap
<1>5. Book(obj', peers', peers_by_rating') /\ Evicts
  BY <1>1, <1>3, AddPeerKeeps DEF Types, Evicts
<1>6. Types'
  BY <1>1, <1>3, <1>4, <1>5 DEF Types
<1>7. Open'
  BY <1>1, OpenSame DEF Busy
<1>8. Room /\ Listed => Listed'
  <2> SUFFICES ASSUME Room, Listed PROVE Listed'
    OBVIOUS
  <2>1. InBook \subseteq InBook'
    BY <1>3, AddPeerGrows DEF Types
  <2> QED
    BY <1>1, <2>1 DEF Listed, Busy
<1> QED
  BY <1>5, <1>6, <1>7, <1>8 DEF Steps

\* discover() answers: a better rating, and peers to learn of.
LEMMA DiscoverAnsweredKeeps ==
  ASSUME Types, Open, NEW w \in Workers, DiscoverAnswered(w)
  PROVE  Steps
<1>1. PICK near \in NearLists :
        handler' = [handler EXCEPT ![w].near = near,
                                   ![w].pc = IF near = <<>> THEN "head" ELSE "learn"]
  BY DEF DiscoverAnswered
<1>2. /\ handler[w].pc = "ask" /\ Rate(handler[w].peer, 1)
      /\ UNCHANGED <<peers, peers_by_rating, requests, found, answers, db_peers, crashes>>
  BY DEF DiscoverAnswered
<1>3. near \in Seq(Peer)
  BY PeeringAssumption
<1>4. /\ handler[w] # IdleHandler /\ Busy(w)
      /\ handler[w].request \in RequestType(Len(obj), Len(answers))
      /\ handler[w].todo \in SUBSET Objs(obj) /\ handler[w].round \in -1 .. max_depth
      /\ handler[w].peer \in Objs(obj) /\ handler[w].peer \in handler[w].request.visited
      /\ HandlerOK(handler[w], Len(obj), Len(answers))
  BY <1>2, BusyFacts DEF Busy, Types
<1>5. /\ HeapGrows /\ Len(obj') = Len(obj)
      /\ store_q' \in Seq(Objs(obj')) /\ known_q' \in Seq(Objs(obj'))
  BY <1>2, <1>4, RateFacts
<1> DEFINE h == [pc |-> IF near = <<>> THEN "head" ELSE "learn", request |-> handler[w].request,
                 todo |-> handler[w].todo, round |-> handler[w].round, peer |-> handler[w].peer,
                 near |-> near]
<1>6. handler' = [handler EXCEPT ![w] = h]
  <2>1. PICK g \in [pc : {"ask", "learn", "head"}, request : RequestType(Len(obj), Len(answers)),
                    todo : SUBSET (1 .. Len(obj)), round : -1 .. max_depth, peer : 1 .. Len(obj),
                    near : Seq(Peer)] : g = handler[w]
    BY <1>4 DEF HandlerOK
  <2>2. PICK p : p = IF near = <<>> THEN "head" ELSE "learn"
    OBVIOUS
  <2>3. [[g EXCEPT !.near = near] EXCEPT !.pc = p]
          = [pc |-> p, request |-> g.request, todo |-> g.todo, round |-> g.round, peer |-> g.peer,
             near |-> near]
    <3>1. [g EXCEPT !.near = near]
            = [pc |-> g.pc, request |-> g.request, todo |-> g.todo, round |-> g.round, peer |-> g.peer,
               near |-> near]
      OBVIOUS
    <3>2. [[pc |-> g.pc, request |-> g.request, todo |-> g.todo, round |-> g.round, peer |-> g.peer,
            near |-> near] EXCEPT !.pc = p]
            = [pc |-> p, request |-> g.request, todo |-> g.todo, round |-> g.round, peer |-> g.peer,
               near |-> near]
      OBVIOUS
    <3> QED
      BY <3>1, <3>2, Zenon
  <2>4. [[handler[w] EXCEPT !.near = near] EXCEPT !.pc = p] = h
    BY <2>1, <2>2, <2>3, Zenon
  <2>5. w \in DOMAIN handler
    BY DEF Types
  <2>6. handler' = [handler EXCEPT ![w].near = near, ![w].pc = p]
    BY <1>1, <2>2, Zenon
  <2> QED
    BY <2>4, <2>5, <2>6, Zenon
<1>7. HandlerOK(h, Len(obj'), Len(answers'))
  BY <1>2, <1>3, <1>4, <1>5 DEF HandlerOK, Objs
<1> HIDE DEF h
<1>8. Len(answers) <= Len(answers') /\ answers' \in Seq([finished : Nat, failed : Nat])
  BY <1>2 DEF Types
<1>9. DOMAIN handler' = Workers /\ \A v \in Workers : HandlerOK(handler'[v], Len(obj'), Len(answers'))
  BY <1>5, <1>6, <1>7, <1>8, HandlersOK
<1>10. Types'
  BY <1>2, <1>5, <1>8, <1>9, TypesLater DEF Types, HeapGrows
<1>11. \A v \in Workers : /\ Busy(v)' <=> Busy(v)
                          /\ handler'[v].request = handler[v].request /\ handler'[v].todo = handler[v].todo
  <2>1. h.pc # "idle" /\ h.request = handler[w].request /\ h.todo = handler[w].todo
    BY DEF h
  <2> QED
    BY <1>4, <1>6, <2>1, HandlerUpdate DEF Busy
<1>12. Open'
  BY <1>2, <1>11, OpenSame
<1>13. InBook' = InBook /\ Evicts
  BY <1>2, SameBook
<1>14. Room /\ Listed => Listed'
  BY <1>2, <1>11, <1>13 DEF Listed
<1> QED
  BY <1>10, <1>12, <1>13, <1>14 DEF Steps

LEMMA LearnKeeps ==
  ASSUME Types, Open, NEW w \in Workers, Learn(w)
  PROVE  Steps
<1>1. /\ handler[w].pc = "learn"
      /\ IF Known(Head(handler[w].near).sid) THEN UNCHANGED bookVars ELSE AddNew(Head(handler[w].near))
      /\ handler' = [handler EXCEPT ![w].near = Tail(@),
                                    ![w].pc = IF Len(handler[w].near) = 1 THEN "head" ELSE "learn"]
      /\ UNCHANGED <<requests, found, store_q, known_q, answers, db_peers, crashes>>
  BY DEF Learn, busVars
<1>2. /\ handler[w] # IdleHandler /\ Busy(w)
      /\ handler[w].request \in RequestType(Len(obj), Len(answers))
      /\ handler[w].todo \in SUBSET Objs(obj) /\ handler[w].round \in -1 .. max_depth
      /\ handler[w].peer \in Objs(obj) /\ handler[w].peer \in handler[w].request.visited
      /\ handler[w].near \in Seq(Peer) /\ handler[w].near # <<>>
      /\ HandlerOK(handler[w], Len(obj), Len(answers))
  BY <1>1, BusyFacts DEF Busy, Types
<1>3. Head(handler[w].near) \in Peer /\ Tail(handler[w].near) \in Seq(Peer)
  BY <1>2
<1>4. /\ HeapGrows /\ Book(obj', peers', peers_by_rating') /\ Evicts
      /\ Room => InBook \subseteq InBook'
  <2>1. CASE UNCHANGED bookVars
    BY <2>1, SameHeap, SameBook DEF bookVars, Types
  <2>2. CASE AddNew(Head(handler[w].near))
    BY <1>3, <2>2, AddNewFacts, AddNewGrows DEF Evicts
  <2> QED
    BY <1>1, <2>1, <2>2
<1>5. PICK g \in [pc : {"ask", "learn", "head"}, request : RequestType(Len(obj), Len(answers)),
                  todo : SUBSET (1 .. Len(obj)), round : -1 .. max_depth, peer : 1 .. Len(obj),
                  near : Seq(Peer)] : g = handler[w]
  BY <1>2 DEF HandlerOK
<1>6. PICK p \in {"head", "learn"}, near \in Seq(Peer) :
        /\ p = IF Len(handler[w].near) = 1 THEN "head" ELSE "learn"
        /\ near = Tail(g.near)
  BY <1>3, <1>5
<1>7. p = "learn" => near # <<>>
  <2>1. g.near \in Seq(Peer) /\ g.near # <<>> /\ near = Tail(g.near)
    BY <1>2, <1>5, <1>6
  <2>2. Len(g.near) \in Nat \ {0} /\ Len(near) = Len(g.near) - 1
    BY <2>1, EmptySeq, HeadTailProperties
  <2>3. p = "learn" => Len(g.near) # 1
    BY <1>5, <1>6
  <2>4. near = <<>> => Len(near) = 0
    OBVIOUS
  <2>5. p = "learn" => Len(near) # 0
    BY <2>2, <2>3
  <2> QED
    BY <2>4, <2>5, Zenon
<1> DEFINE h == [pc |-> p, request |-> g.request, todo |-> g.todo, round |-> g.round, peer |-> g.peer,
                 near |-> near]
<1>8. handler' = [handler EXCEPT ![w] = h]
  <2>1. [g EXCEPT !.near = near]
          = [pc |-> g.pc, request |-> g.request, todo |-> g.todo, round |-> g.round, peer |-> g.peer,
             near |-> near]
    OBVIOUS
  <2>2. [[pc |-> g.pc, request |-> g.request, todo |-> g.todo, round |-> g.round, peer |-> g.peer,
          near |-> near] EXCEPT !.pc = p] = h
    OBVIOUS
  <2>3. [[handler[w] EXCEPT !.near = near] EXCEPT !.pc = p] = h
    BY <1>5, <2>1, <2>2, Zenon
  <2>4. w \in DOMAIN handler /\ near = Tail(handler[w].near)
    BY <1>5, <1>6 DEF Types
  <2>5. handler' = [handler EXCEPT ![w].near = Tail(@), ![w].pc = p]
    BY <1>1, <1>6, Zenon
  <2> QED
    BY <2>3, <2>4, <2>5, Zenon
<1>9. HandlerOK(h, Len(obj), Len(answers))
  BY <1>2, <1>5, <1>7 DEF HandlerOK
<1>10. h.pc # "idle" /\ h.request = handler[w].request /\ h.todo = handler[w].todo
  BY <1>5
<1> HIDE DEF h
<1>11. Len(answers) <= Len(answers') /\ answers' \in Seq([finished : Nat, failed : Nat])
  BY <1>1 DEF Types
<1>12. HandlerOK(h, Len(obj'), Len(answers'))
  <2>1. Len(obj) \in Nat /\ Len(obj') \in Nat /\ Len(answers) \in Nat /\ Len(answers') \in Nat
    BY <1>4, <1>11 DEF Types, HeapGrows
  <2> QED
    BY <1>4, <1>9, <1>11, <2>1, HandlerLater DEF HeapGrows
<1>13. DOMAIN handler' = Workers /\ \A v \in Workers : HandlerOK(handler'[v], Len(obj'), Len(answers'))
  BY <1>4, <1>8, <1>11, <1>12, HandlersOK
<1>14. Types'
  BY <1>1, <1>4, <1>11, <1>13, TypesLater DEF Types, HeapGrows
<1>15. \A v \in Workers : /\ Busy(v)' <=> Busy(v)
                          /\ handler'[v].request = handler[v].request /\ handler'[v].todo = handler[v].todo
  BY <1>2, <1>8, <1>10, HandlerUpdate DEF Busy
<1>16. Open'
  BY <1>1, <1>15, OpenSame
<1>17. Room /\ Listed => Listed'
  BY <1>1, <1>4, <1>15 DEF Listed
<1> QED
  BY <1>4, <1>14, <1>16, <1>17 DEF Steps

\* A handler ends, and with it its request.
LEMMA FinishKeeps ==
  ASSUME Types, Open, NEW w \in Workers, Busy(w), NEW f \in {0, 1},
         Finish(w, handler[w].request, f), HeapGrows,
         UNCHANGED <<peers, peers_by_rating, requests, db_peers, crashes>>,
         store_q' \in Seq(Objs(obj')), known_q' \in Seq(Objs(obj')),
         found' \in Seq(FoundType(Len(obj'))),
         Listed => \A i \in DOMAIN found' : found'[i].visited \subseteq InBook
  PROVE  Steps
<1>1. PICK r \in RequestType(Len(obj), Len(answers)) : r = handler[w].request
  BY BusyFacts DEF Busy
<1>2. Finish(w, r, f)
  BY <1>1
<1>3. /\ handler' = [handler EXCEPT ![w] = IdleHandler]
      /\ answers' \in Seq([finished : Nat, failed : Nat])
      /\ Len(answers') = Len(answers)
  BY <1>2, FinishFacts
<1>4. Len(answers) <= Len(answers')
  BY <1>3 DEF Types
<1>5. HandlerOK(IdleHandler, Len(obj'), Len(answers'))
  BY DEF HandlerOK
<1>6. DOMAIN handler' = Workers /\ \A v \in Workers : HandlerOK(handler'[v], Len(obj'), Len(answers'))
  BY <1>3, <1>4, <1>5, HandlersOK
<1>7. Types'
  BY <1>3, <1>4, <1>6, TypesLater DEF Types, HeapGrows
<1>8. Open'
  BY OpenEnds
<1>9. InBook' = InBook /\ Evicts
  BY SameBook
<1>10. \A v \in Workers : Busy(v)' => Busy(v) /\ handler'[v] = handler[v]
  BY <1>3, HandlerUpdate DEF Busy, IdleHandler
<1>11. Listed => Listed'
  BY <1>9, <1>10 DEF Listed
<1> QED
  BY <1>7, <1>8, <1>9, <1>11 DEF Steps

\* A search goes on from a peer that did not have the magnet.
LEMMA SearchOnKeeps ==
  ASSUME Types, Open, NEW w \in Workers, Busy(w), HeapGrows,
         SearchOn(obj', w, handler[w].request, handler[w].todo, handler[w].round),
         UNCHANGED <<peers, peers_by_rating, requests, found, db_peers, crashes>>,
         store_q' \in Seq(Objs(obj')), known_q' \in Seq(Objs(obj'))
  PROVE  Steps
<1>1. /\ handler[w].request \in RequestType(Len(obj), Len(answers))
      /\ handler[w].todo \in SUBSET Objs(obj) /\ handler[w].round \in -1 .. max_depth
      /\ Len(answers) \in Nat /\ Len(obj) \in Nat /\ Len(obj') \in Nat
      /\ Objs(obj) \subseteq Objs(obj')
  BY BusyFacts DEF Busy, HeapGrows, Objs
<1>2. PICK r \in RequestType(Len(obj'), Len(answers)) : r = handler[w].request
  BY <1>1 DEF RequestType, Objs
<1>3. Book(obj', peers, peers_by_rating)
  BY BookOfLaterHeap DEF Types, HeapGrows
<1>4. InBook \subseteq Objs(obj')
  BY <1>3, InBookFacts DEF HeapGrows
<1>5. \/ /\ answers' = answers
         /\ \E h : /\ Asks(obj', Len(answers), r, InBook \cup handler[w].todo, h)
                   /\ handler' = [handler EXCEPT ![w] = h]
      \/ Finish(w, r, 0)
  <2>1. SearchOn(obj', w, r, handler[w].todo, handler[w].round)
    BY <1>2
  <2>2. handler[w].todo \in SUBSET Objs(obj') /\ obj' \in Seq(Peer)
    BY <1>1 DEF HeapGrows
  <2> QED
    BY <1>1, <1>4, <2>1, <2>2, SearchOnFacts
<1>6. CASE Finish(w, r, 0)
  <2>1. Finish(w, handler[w].request, 0)
    BY <1>2, <1>6
  <2>2. found' \in Seq(FoundType(Len(obj')))
    <3>1. FoundType(Len(obj)) \subseteq FoundType(Len(obj'))
      BY <1>1 DEF FoundType, Objs
    <3> QED
      BY <3>1, SeqMonotonic DEF Types
  <2>3. Listed => \A i \in DOMAIN found' : found'[i].visited \subseteq InBook
    BY DEF Listed
  <2> QED
    BY <2>1, <2>2, <2>3, FinishKeeps
<1>7. CASE /\ answers' = answers
           /\ \E h : /\ Asks(obj', Len(answers), r, InBook \cup handler[w].todo, h)
                     /\ handler' = [handler EXCEPT ![w] = h]
  <2>1. PICK h : /\ Asks(obj', Len(answers), r, InBook \cup handler[w].todo, h)
                 /\ handler' = [handler EXCEPT ![w] = h]
    BY <1>7
  <2>2. /\ HandlerOK(h, Len(obj'), Len(answers')) /\ h.pc = "ask"
        /\ h.request.id = r.id /\ h.request.visited = r.visited \cup {h.peer}
        /\ h.peer \in InBook \cup handler[w].todo /\ h.todo \subseteq InBook \cup handler[w].todo
    BY <1>7, <2>1 DEF Asks
  <2>3. Len(answers) <= Len(answers') /\ answers' \in Seq([finished : Nat, failed : Nat])
    BY <1>1, <1>7 DEF Types
  <2>4. DOMAIN handler' = Workers /\ \A v \in Workers : HandlerOK(handler'[v], Len(obj'), Len(answers'))
    BY <2>1, <2>2, <2>3, HandlersOK
  <2>5. Types'
    BY <2>3, <2>4, TypesLater DEF Types, HeapGrows
  <2>6. handler'[w] = h /\ \A v \in Workers \ {w} : handler'[v] = handler[v]
    BY <2>1, HandlerUpdate
  <2>7. \A v \in Workers : /\ Busy(v)' <=> Busy(v)
                           /\ handler'[v].request.id = handler[v].request.id
    BY <1>2, <2>2, <2>6 DEF Busy
  <2>8. Open'
    BY <1>7, <2>7, OpenSame
  <2>9. InBook' = InBook /\ Evicts
    BY SameBook
  <2>10. Listed => Listed'
    <3> SUFFICES ASSUME Listed, NEW v \in Workers, Busy(v)'
                 PROVE  handler'[v].request.visited \subseteq InBook /\ handler'[v].todo \subseteq InBook
      BY <2>9 DEF Listed
    <3>1. CASE v = w
      BY <1>2, <2>2, <2>6, <3>1 DEF Listed
    <3>2. CASE v # w
      BY <2>6, <2>7, <3>2 DEF Listed
    <3> QED
      BY <3>1, <3>2
  <2> QED
    BY <2>5, <2>8, <2>9, <2>10 DEF Steps
<1> QED
  BY <1>5, <1>6, <1>7

LEMMA PeerFailsKeeps ==
  ASSUME Types, Open, NEW w \in Workers, PeerFails(w)
  PROVE  Steps
<1>1. /\ handler[w].pc \in {"ask", "head"} /\ Rate(handler[w].peer, -2)
      /\ SearchOn(obj', w, handler[w].request, handler[w].todo, handler[w].round)
      /\ UNCHANGED <<peers, peers_by_rating, requests, found, db_peers, crashes>>
  BY DEF PeerFails
<1>2. Busy(w) /\ handler[w].peer \in Objs(obj)
  BY <1>1, BusyFacts DEF Busy
<1>3. HeapGrows /\ store_q' \in Seq(Objs(obj')) /\ known_q' \in Seq(Objs(obj'))
  BY <1>1, <1>2, RateFacts
<1> QED
  BY <1>1, <1>2, <1>3, SearchOnKeeps

LEMMA HasNoMagnetKeeps ==
  ASSUME Types, Open, NEW w \in Workers, HasNoMagnet(w)
  PROVE  Steps
<1>1. /\ handler[w].pc = "head"
      /\ SearchOn(obj, w, handler[w].request, handler[w].todo, handler[w].round)
      /\ UNCHANGED <<obj, peers, peers_by_rating, requests, found, store_q, known_q, db_peers, crashes>>
  BY DEF HasNoMagnet, bookVars
<1>2. Busy(w)
  BY <1>1 DEF Busy
<1>3. HeapGrows /\ store_q' \in Seq(Objs(obj')) /\ known_q' \in Seq(Objs(obj')) /\ obj' = obj
  BY <1>1, SameHeap DEF Types
<1>4. SearchOn(obj', w, handler[w].request, handler[w].todo, handler[w].round)
  BY <1>1
<1> QED
  BY <1>1, <1>2, <1>3, <1>4, SearchOnKeeps

LEMMA DiscoverMalformedKeeps ==
  ASSUME Types, Open, NEW w \in Workers, DiscoverMalformed(w)
  PROVE  Steps
<1>1. /\ handler[w].pc = "ask" /\ Finish(w, handler[w].request, 0)
      /\ UNCHANGED <<obj, peers, peers_by_rating, requests, found, store_q, known_q, db_peers, crashes>>
  BY DEF DiscoverMalformed, bookVars
<1>2. Busy(w)
  BY <1>1 DEF Busy
<1>3. /\ HeapGrows /\ store_q' \in Seq(Objs(obj')) /\ known_q' \in Seq(Objs(obj'))
      /\ found' \in Seq(FoundType(Len(obj')))
  BY <1>1, SameHeap DEF Types
<1>4. Listed => \A i \in DOMAIN found' : found'[i].visited \subseteq InBook
  BY <1>1 DEF Listed
<1> QED
  BY <1>1, <1>2, <1>3, <1>4, FinishKeeps

LEMMA HasMagnetKeeps ==
  ASSUME Types, Open, NEW w \in Workers, HasMagnet(w)
  PROVE  Steps
<1> DEFINE event == [magnet |-> handler[w].request.magnet, peer |-> handler[w].peer,
                     visited |-> handler[w].request.visited]
<1>1. /\ handler[w].pc = "head" /\ Finish(w, handler[w].request, 1) /\ Rate(handler[w].peer, 1)
      /\ found' = Append(found, event)
      /\ UNCHANGED <<peers, peers_by_rating, requests, db_peers, crashes>>
  BY DEF HasMagnet
<1>2. /\ Busy(w) /\ handler[w].peer \in Objs(obj) /\ handler[w].peer \in handler[w].request.visited
      /\ handler[w].request \in RequestType(Len(obj), Len(answers))
  BY <1>1, BusyFacts DEF Busy
<1>3. /\ HeapGrows /\ Len(obj') = Len(obj)
      /\ store_q' \in Seq(Objs(obj')) /\ known_q' \in Seq(Objs(obj'))
  BY <1>1, <1>2, RateFacts
<1>4. event \in FoundType(Len(obj)) /\ event.visited = handler[w].request.visited
  BY <1>2 DEF FoundType, RequestType, Objs
<1> HIDE DEF event
<1>5. found' \in Seq(FoundType(Len(obj')))
  BY <1>1, <1>3, <1>4 DEF Types
<1>6. Listed => \A i \in DOMAIN found' : found'[i].visited \subseteq InBook
  BY <1>1, <1>2, <1>4 DEF Listed, Types
<1> QED
  BY <1>1, <1>2, <1>3, <1>5, <1>6, FinishKeeps

LEMMA StartDiscoveryKeeps ==
  ASSUME Types, Open, NEW w \in Workers, StartDiscovery(w)
  PROVE  Steps
<1>1. /\ handler[w].pc = "idle" /\ requests # <<>> /\ requests' = Tail(requests)
      /\ SearchOn(obj, w, Head(requests), {}, -1)
      /\ UNCHANGED <<obj, peers, peers_by_rating, found, store_q, known_q, db_peers, crashes>>
  BY DEF StartDiscovery, bookVars
<1>2. PICK r \in RequestType(Len(obj), Len(answers)) : r = Head(requests) /\ r = requests[1]
  BY <1>1 DEF Types
<1>3. /\ requests' \in Seq(RequestType(Len(obj), Len(answers)))
      /\ 1 \in DOMAIN requests
      /\ \A i \in DOMAIN requests' : i + 1 \in DOMAIN requests /\ requests'[i] = requests[i + 1]
  BY <1>1 DEF Types
<1>4. InBook \subseteq Objs(obj) /\ Len(answers) \in Nat /\ obj \in Seq(Peer)
  BY InBookFacts DEF Types
<1>5. \/ /\ answers' = answers
         /\ \E h : /\ Asks(obj, Len(answers), r, InBook \cup {}, h)
                   /\ handler' = [handler EXCEPT ![w] = h]
      \/ Finish(w, r, 0)
  <2>1. SearchOn(obj, w, r, {}, -1) /\ {} \in SUBSET Objs(obj)
    BY <1>1, <1>2
  <2>2. -1 \in -1 .. max_depth
    BY PeeringAssumption
  <2> QED
    BY <1>4, <2>1, <2>2, SearchOnFacts
<1>6. HeapGrows /\ ~Busy(w)
  BY <1>1, SameHeap DEF Busy
<1>7. InBook' = InBook /\ Evicts
  BY <1>1, SameBook
<1>8. /\ answers' \in Seq([finished : Nat, failed : Nat]) /\ Len(answers') = Len(answers)
      /\ \E h : /\ handler' = [handler EXCEPT ![w] = h]
                /\ HandlerOK(h, Len(obj), Len(answers))
                /\ h.pc # "idle" => /\ h.request.visited = r.visited \cup {h.peer}
                                    /\ h.peer \in InBook /\ h.todo \subseteq InBook
  <2>1. CASE /\ answers' = answers
             /\ \E h : /\ Asks(obj, Len(answers), r, InBook \cup {}, h)
                       /\ handler' = [handler EXCEPT ![w] = h]
    <3>1. PICK h : /\ Asks(obj, Len(answers), r, InBook \cup {}, h)
                   /\ handler' = [handler EXCEPT ![w] = h]
      BY <2>1
    <3>2. /\ HandlerOK(h, Len(obj), Len(answers))
          /\ h.request.visited = r.visited \cup {h.peer}
          /\ h.peer \in InBook /\ h.todo \subseteq InBook
      BY <3>1 DEF Asks
    <3>3. answers' \in Seq([finished : Nat, failed : Nat]) /\ Len(answers') = Len(answers)
      BY <2>1 DEF Types
    <3> QED
      BY <3>1, <3>2, <3>3
  <2>2. CASE Finish(w, r, 0)
    <3>1. /\ handler' = [handler EXCEPT ![w] = IdleHandler]
          /\ answers' \in Seq([finished : Nat, failed : Nat])
          /\ Len(answers') = Len(answers)
      BY <2>2, FinishFacts
    <3>2. HandlerOK(IdleHandler, Len(obj), Len(answers)) /\ IdleHandler.pc = "idle"
      BY DEF HandlerOK, IdleHandler
    <3> QED
      BY <3>1, <3>2
  <2> QED
    BY <1>5, <2>1, <2>2
<1>9. PICK h : /\ handler' = [handler EXCEPT ![w] = h]
               /\ HandlerOK(h, Len(obj), Len(answers))
               /\ h.pc # "idle" => /\ h.request.visited = r.visited \cup {h.peer}
                                   /\ h.peer \in InBook /\ h.todo \subseteq InBook
  BY <1>8
<1>10. DOMAIN handler' = Workers /\ \A v \in Workers : HandlerOK(handler'[v], Len(obj'), Len(answers'))
  <2>1. HandlerOK(h, Len(obj'), Len(answers')) /\ Len(answers) <= Len(answers')
    BY <1>1, <1>4, <1>8, <1>9
  <2> QED
    BY <1>6, <1>8, <1>9, <2>1, HandlersOK
<1>11. Types'
  <2>1. requests' \in Seq(RequestType(Len(obj'), Len(answers')))
    BY <1>1, <1>3, <1>8
  <2> QED
    BY <1>1, <1>8, <1>10, <2>1 DEF Types
<1>12. Open'
  <2>1. \/ /\ answers' = answers
           /\ \E g : /\ g.pc # "idle" /\ g.request.id = Head(requests).id
                     /\ handler' = [handler EXCEPT ![w] = g]
        \/ Finish(w, Head(requests), 0)
    <3>1. CASE /\ answers' = answers
               /\ \E g : /\ Asks(obj, Len(answers), r, InBook \cup {}, g)
                         /\ handler' = [handler EXCEPT ![w] = g]
      <4>1. PICK g : /\ Asks(obj, Len(answers), r, InBook \cup {}, g)
                     /\ handler' = [handler EXCEPT ![w] = g]
        BY <3>1
      <4>2. g.pc # "idle" /\ g.request.id = r.id
        BY <4>1 DEF Asks
      <4> QED
        BY <1>2, <3>1, <4>1, <4>2
    <3>2. CASE Finish(w, r, 0)
      BY <1>2, <3>2
    <3> QED
      BY <1>5, <3>1, <3>2
  <2> QED
    BY <1>1, <1>6, <2>1, OpenStarts
<1>13. Listed => Listed'
  <2> SUFFICES ASSUME Listed PROVE Listed'
    OBVIOUS
  <2>1. handler'[w] = h /\ \A v \in Workers \ {w} : handler'[v] = handler[v]
    BY <1>9, HandlerUpdate
  <2>2. ASSUME NEW v \in Workers, Busy(v)'
        PROVE  handler'[v].request.visited \subseteq InBook /\ handler'[v].todo \subseteq InBook
    <3>1. CASE v = w
      BY <1>2, <1>3, <1>9, <2>1, <2>2, <3>1 DEF Listed, Busy
    <3>2. CASE v # w
      BY <2>1, <2>2, <3>2 DEF Listed, Busy
    <3> QED
      BY <3>1, <3>2
  <2>3. \A i \in DOMAIN requests' : requests'[i].visited \subseteq InBook
    BY <1>3 DEF Listed
  <2> QED
    BY <1>1, <1>7, <2>2, <2>3 DEF Listed
<1> QED
  BY <1>7, <1>11, <1>12, <1>13 DEF Steps

\* The database: rows take ratings, and become objects when the service starts.
LEMMA StorePeerKeeps ==
  ASSUME Types, Open, StorePeer
  PROVE  Steps
<1>1. /\ store_q # <<>> /\ store_q' = Tail(store_q)
      /\ db_peers' = [db_peers EXCEPT ![obj[Head(store_q)].sid] = obj[Head(store_q)].exp]
      /\ UNCHANGED <<obj, peers, peers_by_rating, requests, found, known_q, answers, handler, crashes>>
  BY DEF StorePeer, bookVars
<1>2. Head(store_q) \in Objs(obj) /\ store_q' \in Seq(Objs(obj))
  BY <1>1 DEF Types
<1>3. db_peers' \in [Sids -> Exps \cup {NoRow}]
  BY <1>1, <1>2, ObjectFacts DEF Types
<1>4. Types'
  BY <1>1, <1>2, <1>3 DEF Types
<1>5. Open'
  BY <1>1, OpenSame DEF Busy
<1>6. InBook' = InBook /\ Evicts
  BY <1>1, SameBook
<1>7. Listed => Listed'
  BY <1>1, <1>6 DEF Listed, Busy
<1> QED
  BY <1>4, <1>5, <1>6, <1>7 DEF Steps

LEMMA RestorePeersKeeps ==
  ASSUME Types, Open, RestorePeers
  PROVE  Steps
<1>1. PICK rows \in RowLists :
        LET ids == [k \in 1 .. Len(rows) |-> Len(obj) + k]
        IN /\ obj' = obj \o rows
           /\ store_q' = store_q \o ids
           /\ known_q' = known_q \o ids
  BY DEF RestorePeers
<1>2. UNCHANGED <<peers, peers_by_rating, requests, found, answers, handler, db_peers, crashes>>
  BY DEF RestorePeers
<1>3. rows \in Seq(Peer)
  <2>1. \A x \in Rows : x \in Peer /\ x = [sid |-> x.sid, exp |-> db_peers[x.sid]]
    <3>1. \A s \in Sids : db_peers[s] # NoRow => db_peers[s] \in Exps
      BY DEF Types
    <3> QED
      BY <3>1 DEF Rows, Peer
  <2>2. Cardinality(Rows) \in Nat
    <3> DEFINE sid == [x \in Rows |-> x.sid]
    <3>1. sid \in Injection(Rows, Sids)
      BY <2>1 DEF Injection, IsInjective, Peer
    <3>2. IsFiniteSet(Rows)
      <4> HIDE DEF sid
      <4> QED
        BY <3>1, FS_Injection, PeerBookAssumption
    <3> QED
      BY <3>2, FS_CardinalityType
  <2>3. rows \in [1 .. Cardinality(Rows) -> Rows]
    BY DEF RowLists
  <2> QED
    BY <2>1, <2>2, <2>3
<1> DEFINE ids == [k \in 1 .. Len(rows) |-> Len(obj) + k]
<1>4. /\ obj' \in Seq(Peer) /\ Len(obj') = Len(obj) + Len(rows)
      /\ Len(obj) \in Nat /\ Len(rows) \in Nat
      /\ \A i \in Objs(obj) : obj'[i] = obj[i]
  BY <1>1, <1>3, ConcatProperties DEF Types, Objs
<1>5. HeapGrows
  BY <1>4 DEF HeapGrows
<1>6. ids \in Seq(Objs(obj'))
  BY <1>4 DEF Objs
<1>7. store_q' \in Seq(Objs(obj')) /\ known_q' \in Seq(Objs(obj'))
  <2>1. store_q \in Seq(Objs(obj')) /\ known_q \in Seq(Objs(obj'))
    BY <1>2, <1>5, TypesLater DEF Types
  <2> HIDE DEF ids
  <2> QED
    BY <1>1, <1>6, <2>1, ConcatProperties DEF ids
<1>8. Types'
  <2>1. answers' \in Seq([finished : Nat, failed : Nat]) /\ Len(answers) <= Len(answers')
    BY <1>2 DEF Types
  <2> QED
    BY <1>2, <1>5, <1>7, <2>1, TypesLater DEF Types, HeapGrows
<1>9. Open'
  BY <1>2, OpenSame DEF Busy
<1>10. InBook' = InBook /\ Evicts
  BY <1>2, SameBook
<1>11. Listed => Listed'
  BY <1>2, <1>10 DEF Listed, Busy
<1> QED
  BY <1>8, <1>9, <1>10, <1>11 DEF Steps

\* The process starts again: the book is empty and nobody waits for anything.
LEMMA CrashKeeps ==
  ASSUME Types, Open, crashes \in Nat, Crash
  PROVE  /\ Types' /\ Open' /\ (Listed => Listed')
         /\ crashes' \in Nat /\ crashes' # crashes
<1>1. /\ crashes' = crashes + 1 /\ obj' = <<>>
      /\ peers' = [s \in Sids |-> 0] /\ peers_by_rating' = <<>>
      /\ requests' = <<>> /\ found' = <<>> /\ store_q' = <<>> /\ known_q' = <<>>
      /\ handler' = [w \in Workers |-> IdleHandler]
      /\ UNCHANGED <<db_peers, answers>>
  BY DEF Crash
<1>2. Book(obj', peers', peers_by_rating')
  <2>1. peers' \in [Sids -> 0 .. Len(obj')]
    BY <1>1
  <2>2. peers_by_rating' \in Seq(Objs(obj')) /\ Len(peers_by_rating') = 0
    BY <1>1
  <2>3. \A s \in Sids : peers'[s] = 0
    BY <1>1
  <2> QED
    BY <2>1, <2>2, <2>3, LimitFacts DEF Book
<1>3. DOMAIN handler' = Workers /\ \A w \in Workers : handler'[w] = IdleHandler
  BY <1>1
<1>4. /\ obj' \in Seq(Peer)
      /\ requests' \in Seq(RequestType(Len(obj'), Len(answers')))
      /\ found' \in Seq(FoundType(Len(obj')))
      /\ store_q' \in Seq(Objs(obj')) /\ known_q' \in Seq(Objs(obj'))
  BY <1>1
<1>5. Types'
  <2>1. \A w \in Workers : HandlerOK(handler'[w], Len(obj'), Len(answers'))
    BY <1>3 DEF HandlerOK
  <2> QED
    BY <1>1, <1>2, <1>3, <1>4, <2>1 DEF Types
<1>6. \A w \in Workers : ~Busy(w)'
  BY <1>3 DEF Busy, IdleHandler
<1>7. crashes' # 0 /\ crashes' # crashes /\ crashes' \in Nat
  BY <1>1
<1>8. Open'
  BY <1>1, <1>6, <1>7 DEF Open
<1>9. Listed'
  BY <1>1, <1>6 DEF Listed
<1> QED
  BY <1>5, <1>7, <1>8, <1>9

\* All of them.
LEMMA PeeringStepKeeps ==
  ASSUME Types, Open, PeeringStep
  PROVE  Steps /\ crashes' = crashes
<1>1. ASSUME NEW s \in Sids, HandleNewPeer(s)
      PROVE  Steps /\ crashes' = crashes
  <2>1. crashes' = crashes
    BY <1>1 DEF HandleNewPeer
  <2> QED
    BY <1>1, <2>1, HandleNewPeerKeeps
<1>2. ASSUME HandlePeer
      PROVE  Steps /\ crashes' = crashes
  <2>1. crashes' = crashes
    BY <1>2 DEF HandlePeer
  <2> QED
    BY <1>2, <2>1, HandlePeerKeeps
<1>3. ASSUME NEW w \in Workers, HandlerStep(w)
      PROVE  Steps /\ crashes' = crashes
  <2>1. CASE StartDiscovery(w)
    <3>1. crashes' = crashes
      BY <2>1 DEF StartDiscovery
    <3> QED
      BY <2>1, <3>1, StartDiscoveryKeeps
  <2>2. CASE DiscoverAnswered(w)
    <3>1. crashes' = crashes
      BY <2>2 DEF DiscoverAnswered
    <3> QED
      BY <2>2, <3>1, DiscoverAnsweredKeeps
  <2>3. CASE Learn(w)
    <3>1. crashes' = crashes
      BY <2>3 DEF Learn
    <3> QED
      BY <2>3, <3>1, LearnKeeps
  <2>4. CASE PeerFails(w)
    <3>1. crashes' = crashes
      BY <2>4 DEF PeerFails
    <3> QED
      BY <2>4, <3>1, PeerFailsKeeps
  <2>5. CASE DiscoverMalformed(w)
    <3>1. crashes' = crashes
      BY <2>5 DEF DiscoverMalformed
    <3> QED
      BY <2>5, <3>1, DiscoverMalformedKeeps
  <2>6. CASE HasMagnet(w)
    <3>1. crashes' = crashes
      BY <2>6 DEF HasMagnet
    <3> QED
      BY <2>6, <3>1, HasMagnetKeeps
  <2>7. CASE HasNoMagnet(w)
    <3>1. crashes' = crashes
      BY <2>7 DEF HasNoMagnet
    <3> QED
      BY <2>7, <3>1, HasNoMagnetKeeps
  <2> QED
    BY <1>3, <2>1, <2>2, <2>3, <2>4, <2>5, <2>6, <2>7 DEF HandlerStep
<1>4. ASSUME StorePeer
      PROVE  Steps /\ crashes' = crashes
  <2>1. crashes' = crashes
    BY <1>4 DEF StorePeer
  <2> QED
    BY <1>4, <2>1, StorePeerKeeps
<1>5. ASSUME RestorePeers
      PROVE  Steps /\ crashes' = crashes
  <2>1. crashes' = crashes
    BY <1>5 DEF RestorePeers
  <2> QED
    BY <1>5, <2>1, RestorePeersKeeps
<1> QED
  BY <1>1, <1>2, <1>3, <1>4, <1>5 DEF PeeringStep

\* An outsider asks, with peers that have been visited before.
LEMMA AskKeeps ==
  ASSUME Types, Open, NEW m \in Magnets, NEW visited \in SUBSET (1 .. Len(obj)),
         EmitRequest(m, visited), found' \in Seq(FoundType(Len(obj))),
         UNCHANGED <<bookVars, store_q, known_q, handler, db_peers, crashes>>
  PROVE  /\ Types' /\ Open' /\ Evicts
         /\ Listed /\ visited \subseteq InBook /\ (\A i \in DOMAIN found' : found'[i].visited \subseteq InBook)
              => Listed'
<1>1. UNCHANGED <<obj, peers, peers_by_rating, store_q, known_q, handler, db_peers, crashes>>
  BY DEF bookVars
<1>2. /\ Open'
      /\ answers' \in Seq([finished : Nat, failed : Nat]) /\ Len(answers') = Len(answers) + 1
      /\ Len(answers) \in Nat
  <2>1. Len(answers) \in Nat
    BY DEF Types
  <2> QED
    BY <1>1, <2>1, OpenEmits
<1>3. PICK r \in RequestType(Len(obj), Len(answers')) :
        r.magnet = m /\ r.visited = visited /\ requests' = Append(requests, r)
  BY <1>1, OpenEmits
<1>4. /\ HeapGrows
      /\ requests \in Seq(RequestType(Len(obj), Len(answers')))
      /\ \A w \in Workers : HandlerOK(handler[w], Len(obj), Len(answers'))
  BY <1>1, <1>2, SameHeap, TypesLater
<1>5. Types'
  BY <1>1, <1>2, <1>3, <1>4 DEF Types
<1>6. InBook' = InBook /\ Evicts
  BY <1>1, SameBook
<1>7. ASSUME Listed, visited \subseteq InBook, \A i \in DOMAIN found' : found'[i].visited \subseteq InBook
      PROVE  Listed'
  <2>1. \A i \in DOMAIN requests' : requests'[i] = r \/ \E j \in DOMAIN requests : requests'[i] = requests[j]
    BY <1>3, <1>4
  <2> QED
    BY <1>1, <1>3, <1>6, <1>7, <2>1 DEF Listed, Busy
<1> QED
  BY <1>2, <1>5, <1>6, <1>7

\* DiscoveryFinished events are taken.
LEMMA TakeKeeps ==
  ASSUME Types, Open, found' \in Seq(FoundType(Len(obj))),
         UNCHANGED <<bookVars, requests, store_q, known_q, answers, handler, db_peers, crashes>>
  PROVE  /\ Types' /\ Open' /\ Evicts
         /\ Listed /\ (\A i \in DOMAIN found' : found'[i].visited \subseteq InBook) => Listed'
<1>1. UNCHANGED <<obj, peers, peers_by_rating>>
  BY DEF bookVars
<1>2. Types'
  BY <1>1 DEF Types
<1>3. Open'
  BY OpenSame DEF Busy
<1>4. InBook' = InBook /\ Evicts
  BY <1>1, SameBook
<1> QED
  BY <1>2, <1>3, <1>4 DEF Listed, Busy

\* With room the book only grows.
LEMMA StepGrows ==
  ASSUME Room, Types, PeeringStep
  PROVE  InBook \subseteq InBook'
<1>1. ASSUME NEW record \in Peer, AddNew(record)
      PROVE  InBook \subseteq InBook'
  BY <1>1, AddNewGrows
<1>2. ASSUME NEW s \in Sids, HandleNewPeer(s)
      PROVE  InBook \subseteq InBook'
  <2>1. [sid |-> s, exp |-> Initial] \in Peer
    BY LimitFacts DEF Peer, Initial, Exps
  <2> QED
    BY <1>1, <1>2, <2>1 DEF HandleNewPeer
<1>3. CASE HandlePeer
  <2>1. known_q # <<>> /\ AddPeer(obj, Head(known_q))
    BY <1>3 DEF HandlePeer
  <2>2. Head(known_q) \in Objs(obj)
    BY <2>1 DEF Types
  <2> QED
    BY <2>1, <2>2, AddPeerGrows DEF Types
<1>4. ASSUME NEW w \in Workers, Learn(w)
      PROVE  InBook \subseteq InBook'
  <2>1. /\ handler[w].pc = "learn"
        /\ UNCHANGED bookVars \/ AddNew(Head(handler[w].near))
    BY <1>4 DEF Learn
  <2>2. handler[w].near \in Seq(Peer) /\ handler[w].near # <<>>
    BY <2>1, BusyFacts
  <2>3. Head(handler[w].near) \in Peer
    BY <2>2
  <2> QED
    BY <1>1, <2>1, <2>3, SameBook DEF bookVars
<1>5. ASSUME NEW w \in Workers, HandlerStep(w), ~Learn(w)
      PROVE  UNCHANGED <<peers, peers_by_rating>>
  BY <1>5 DEF HandlerStep, StartDiscovery, DiscoverAnswered, PeerFails, DiscoverMalformed,
              HasMagnet, HasNoMagnet, bookVars
<1>6. CASE StorePeer \/ RestorePeers
  BY <1>6, SameBook DEF StorePeer, RestorePeers, bookVars
<1> QED
  BY <1>2, <1>3, <1>4, <1>5, <1>6, SameBook DEF PeeringStep

\* The process starts for the first time.
LEMMA PeeringStarts ==
  ASSUME PeeringInit
  PROVE  Types /\ Open /\ Listed /\ crashes \in Nat
<1>1. /\ obj = <<>> /\ peers = [s \in Sids |-> 0] /\ peers_by_rating = <<>>
      /\ requests = <<>> /\ found = <<>> /\ store_q = <<>> /\ known_q = <<>> /\ answers = <<>>
      /\ handler = [w \in Workers |-> IdleHandler]
      /\ db_peers = [s \in Sids |-> NoRow]
      /\ crashes = 0
  BY DEF PeeringInit, BookInit, BusInit
<1>2. Book(obj, peers, peers_by_rating)
  <2>1. peers \in [Sids -> 0 .. Len(obj)]
    BY <1>1
  <2>2. peers_by_rating \in Seq(Objs(obj)) /\ Len(peers_by_rating) = 0
    BY <1>1
  <2> QED
    BY <1>1, <2>1, <2>2, LimitFacts DEF Book
<1>3. DOMAIN handler = Workers /\ \A w \in Workers : handler[w] = IdleHandler
  BY <1>1
<1>4. /\ obj \in Seq(Peer)
      /\ requests \in Seq(RequestType(Len(obj), Len(answers)))
      /\ found \in Seq(FoundType(Len(obj)))
      /\ store_q \in Seq(Objs(obj)) /\ known_q \in Seq(Objs(obj))
      /\ answers \in Seq([finished : Nat, failed : Nat])
  BY <1>1
<1>5. Types
  <2>1. \A w \in Workers : HandlerOK(handler[w], Len(obj), Len(answers))
    BY <1>3 DEF HandlerOK
  <2> QED
    BY <1>1, <1>2, <1>3, <1>4, <2>1 DEF Types
<1>6. \A w \in Workers : ~Busy(w)
  BY <1>3 DEF Busy, IdleHandler
<1>7. Open
  BY <1>1, <1>6 DEF Open
<1>8. Listed
  BY <1>1, <1>6 DEF Listed
<1> QED
  BY <1>1, <1>5, <1>7, <1>8

\* What the first of the DiscoveryFinished events holds, and what is left after it.
LEMMA FoundFacts ==
  ASSUME Types, found # <<>>
  PROVE  /\ Head(found).magnet \in Magnets /\ Head(found).visited \in SUBSET (1 .. Len(obj))
         /\ Tail(found) \in Seq(FoundType(Len(obj)))
         /\ Listed => /\ Head(found).visited \subseteq InBook
                      /\ \A i \in DOMAIN Tail(found) : Tail(found)[i].visited \subseteq InBook
<1>1. PICK f \in FoundType(Len(obj)) : f = Head(found) /\ f = found[1]
  BY DEF Types
<1>2. /\ Tail(found) \in Seq(FoundType(Len(obj)))
      /\ 1 \in DOMAIN found
      /\ \A i \in DOMAIN Tail(found) : i + 1 \in DOMAIN found /\ Tail(found)[i] = found[i + 1]
  BY DEF Types
<1>3. f.magnet \in Magnets /\ f.visited \in SUBSET (1 .. Len(obj))
  BY DEF FoundType
<1> QED
  BY <1>1, <1>2, <1>3 DEF Listed
=============================================================================
