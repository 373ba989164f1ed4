------------------------ MODULE PeeringServiceProofs ------------------------
(***************************************************************************)
(* Properties of the peering service, proved for any number of peers,       *)
(* handlers and requests.                                                   *)
(*                                                                          *)
(* The inductive invariant is made of two parts.  Types says of every       *)
(* variable what it holds, of the dictionary and the list that they agree   *)
(* (Book), and of every handler that its peer is one it has visited.  Open  *)
(* says where a request is: in the queue or with one handler, and in one    *)
(* place only, until it has its final answer.  Listed, which needs a book   *)
(* with room for everybody, puts whoever was visited in the book, where a   *)
(* service id stands once.                                                  *)
(*                                                                          *)
(* Two properties need more.  The rows of the table follow the ratings by   *)
(* way of events (Stored), and a search has asked as many services as it    *)
(* had rounds (Rounds), so that the last round leaves nobody out.           *)
(***************************************************************************)
EXTENDS PeeringService, PeeringProofs

IInv == Types /\ Open /\ crashes \in Nat

LEMMA StartIsIInv ==
  ASSUME Init
  PROVE  IInv /\ Listed
  BY PeeringStarts DEF Init, IInv

LEMMA StepKeepsIInv ==
  ASSUME IInv, [Next]_vars
  PROVE  /\ IInv' /\ (Room /\ Listed => Listed')
         /\ crashes' = crashes => Evicts
<1> USE DEF IInv
<1>1. CASE PeeringStep
  BY <1>1, PeeringStepKeeps DEF Steps
<1>2. ASSUME NEW m \in Magnets, NewRequest(m)
      PROVE  IInv' /\ (Listed => Listed') /\ Evicts
  <2>1. /\ EmitRequest(m, {}) /\ found' = found
        /\ UNCHANGED <<bookVars, store_q, known_q, handler, db_peers, crashes>>
    BY <1>2 DEF NewRequest
  <2>2. found' \in Seq(FoundType(Len(obj)))
    BY <2>1 DEF Types
  <2>3. Listed => \A i \in DOMAIN found' : found'[i].visited \subseteq InBook
    BY <2>1 DEF Listed
  <2> QED
    BY <2>1, <2>2, <2>3, AskKeeps
<1>3. CASE TakeFound
  <2>1. /\ found # <<>> /\ found' = Tail(found)
        /\ UNCHANGED <<bookVars, requests, store_q, known_q, answers, handler, db_peers, crashes>>
    BY <1>3 DEF TakeFound
  <2> QED
    BY <2>1, FoundFacts, TakeKeeps
<1>4. CASE Retry
  <2>1. /\ found # <<>> /\ found' = Tail(found)
        /\ EmitRequest(Head(found).magnet, Head(found).visited)
        /\ UNCHANGED <<bookVars, store_q, known_q, handler, db_peers, crashes>>
    BY <1>4 DEF Retry
  <2> QED
    BY <2>1, FoundFacts, AskKeeps
<1>5. CASE Crash
  BY <1>5, CrashKeeps
<1>6. CASE UNCHANGED vars
  <2>1. /\ UNCHANGED <<bookVars, requests, store_q, known_q, answers, handler, db_peers, crashes>>
        /\ found' = found
    BY <1>6 DEF vars, peeringVars, busVars
  <2>2. found' \in Seq(FoundType(Len(obj)))
    BY <2>1 DEF Types
  <2>3. Listed => \A i \in DOMAIN found' : found'[i].visited \subseteq InBook
    BY <2>1 DEF Listed
  <2> QED
    BY <2>1, <2>2, <2>3, TakeKeeps
<1> QED
  BY <1>1, <1>2, <1>3, <1>4, <1>5, <1>6 DEF Next

LEMMA SpecIsIInv == Spec => []IInv
<1>1. Init => IInv
  BY StartIsIInv
<1>2. IInv /\ [Next]_vars => IInv'
  BY StepKeepsIInv
<1> QED
  BY <1>1, <1>2, PTL DEF Spec

-----------------------------------------------------------------------------
(* Type correctness.                                                        *)

LEMMA TypesIsTypeOK ==
  ASSUME Types
  PROVE  TypeOK
<1>1. /\ obj \in Seq(Peer) /\ peers \in [Sids -> 0 .. Len(obj)]
      /\ peers_by_rating \in Seq(Objects)
      /\ store_q \in Seq(Objects) /\ known_q \in Seq(Objects)
      /\ db_peers \in [Sids -> Exps \cup {NoRow}]
  BY DEF Types, Book, Objs, Objects
<1>2. Elements(requests) \subseteq [id : 1 .. Len(answers), magnet : Magnets, visited : Visited]
  <2>1. \A i \in DOMAIN requests : requests[i] \in RequestType(Len(obj), Len(answers))
    BY DEF Types
  <2> QED
    BY <2>1 DEF Elements, RequestType, Visited, Objects
<1>3. Elements(found) \subseteq [magnet : Magnets, peer : Objects, visited : Visited]
  <2>1. \A i \in DOMAIN found : found[i] \in FoundType(Len(obj))
    BY DEF Types
  <2> QED
    BY <2>1 DEF Elements, FoundType, Visited, Objects
<1>4. ASSUME NEW w \in Workers
      PROVE  /\ handler[w].pc \in {"idle", "ask", "learn", "head"}
             /\ handler[w].pc # "idle" => handler[w].peer \in handler[w].request.visited
             /\ handler[w].request.visited \in Visited
             /\ handler[w].todo \in Visited
             /\ handler[w].round \in -1 .. max_depth
  <2>1. HandlerOK(handler[w], Len(obj), Len(answers))
    BY DEF Types
  <2>2. CASE handler[w] = IdleHandler
    <3>1. /\ IdleHandler.pc = "idle" /\ IdleHandler.request.visited = {}
          /\ IdleHandler.todo = {} /\ IdleHandler.round = -1
      BY DEF IdleHandler, NoRequest
    <3>2. -1 \in -1 .. max_depth
      BY PeeringAssumption
    <3> QED
      BY <2>2, <3>1, <3>2 DEF Visited
  <2>3. CASE handler[w] # IdleHandler
    BY <2>1, <2>3 DEF HandlerOK, RequestType, Visited, Objects
  <2> QED
    BY <2>2, <2>3
<1> QED
  BY <1>1, <1>2, <1>3, <1>4 DEF TypeOK

\* The book, the queues, the handlers and the table hold what they should.
THEOREM TypeCorrect == Spec => []TypeOK
<1>1. IInv => TypeOK
  BY TypesIsTypeOK DEF IInv
<1> QED
  BY <1>1, SpecIsIInv, PTL

-----------------------------------------------------------------------------
(* The book.                                                                *)

LEMMA TypesIsBookConsistent ==
  ASSUME Types
  PROVE  BookConsistent
<1>1. /\ obj \in Seq(Peer) /\ Book(obj, peers, peers_by_rating)
  BY DEF Types
<1>2. DOMAIN peers_by_rating = 1 .. Len(peers_by_rating)
  BY <1>1 DEF Book
<1>3. InBook = { peers[s] : s \in { t \in Sids : peers[t] # 0 } }
  BY <1>1, InBookFacts
<1> QED
  BY <1>1, <1>2, <1>3 DEF BookConsistent, Book

\* The dictionary and the list hold the same peers, each once, and not too many,
\* however many events, answers and evictions there were.
THEOREM BookAgrees == Spec => []BookConsistent
<1>1. IInv => BookConsistent
  BY TypesIsBookConsistent DEF IInv
<1> QED
  BY <1>1, SpecIsIInv, PTL

\* A peer thrown out of the book is not rated above one that stays, although the
\* list was sorted before the last ratings.
THEOREM ThrowsOutLowest == Spec => EvictsLowest
<1> DEFINE Keeps == crashes' = crashes =>
             \A i \in InBook, j \in InBook' : i \notin InBook' => obj'[i].exp <= obj'[j].exp
<1>1. IInv /\ [Next]_vars => [Keeps]_vars
  BY StepKeepsIInv DEF Evicts
<1> QED
  BY <1>1, SpecIsIInv, PTL DEF Spec, EvictsLowest

-----------------------------------------------------------------------------
(* The requests.                                                            *)

LEMMA OpenIsAnswers ==
  ASSUME Types, Open
  PROVE  Answers
<1>1. DOMAIN answers = 1 .. Len(answers)
  BY DEF Types
<1>2. \A k \in DOMAIN answers : answers[k].failed \in {0, 1} /\ answers[k].finished \in {0, 1}
  <2>1. \A k \in 1 .. Len(answers) : answers[k] \in [finished : Nat, failed : Nat]
    <3>1. answers \in Seq([finished : Nat, failed : Nat])
      BY DEF Types
    <3> QED
      BY <3>1, ElementOfSeq
  <2>2. \A k \in 1 .. Len(answers) : answers[k].failed \in Nat /\ answers[k].finished \in Nat
    BY <2>1
  <2>3. \A k \in 1 .. Len(answers) : answers[k].failed <= 1 /\ answers[k].finished <= answers[k].failed
    BY DEF Open
  <2> QED
    BY <1>1, <2>2, <2>3
<1>3. ASSUME NEW k \in DOMAIN answers, NEW r \in Searches, r.id = k
      PROVE  answers[k].finished + answers[k].failed = 0
  <2>1. CASE \E i \in DOMAIN requests : requests[i] = r
    BY <1>3, <2>1 DEF Open, Unanswered
  <2>2. CASE \E w \in Workers : handler[w].pc # "idle" /\ handler[w].request = r
    BY <1>3, <2>2 DEF Open, Unanswered, Busy
  <2> QED
    BY <1>3, <2>1, <2>2 DEF Searches, Elements
<1>4. ASSUME NEW k \in DOMAIN answers, ~\E r \in Searches : r.id = k, crashes = 0
      PROVE  answers[k].finished + answers[k].failed > 0
  <2>1. ~\E i \in DOMAIN requests : requests[i].id = k
    BY <1>4 DEF Searches, Elements
  <2>2. ~\E w \in Workers : Busy(w) /\ handler[w].request.id = k
    BY <1>4 DEF Searches, Busy
  <2>3. answers[k].failed = 1
    BY <1>1, <1>4, <2>1, <2>2 DEF Open
  <2> QED
    BY <1>2, <2>3
<1>5. \A f \in Elements(found) : f.peer \in f.visited
  <2>1. \A i \in DOMAIN found : found[i] \in FoundType(Len(obj))
    BY DEF Types
  <2> QED
    BY <2>1 DEF Elements, FoundType
<1> QED
  BY <1>2, <1>3, <1>4, <1>5 DEF Answers

\* A request is answered when its search ends and not before, never twice in one way,
\* and none goes unanswered while the process lives: every request is in one place, the
\* queue or a handler, until it is answered.
THEOREM EveryRequestAnswered == Spec => []Answers
<1>1. IInv => Answers
  BY OpenIsAnswers DEF IInv
<1> QED
  BY <1>1, SpecIsIInv, PTL

-----------------------------------------------------------------------------
(* The rows of the table.                                                   *)

\* The Peer events and the rows of a process that has not crashed.  Before the restore
\* task nobody is rated, so there is nothing to restore; every event is about a peer
\* of the book; and a row has the rating of its peer, or that peer's event is on its way.
Stored ==
  /\ ~restored => /\ store_q = <<>>
                  /\ \A s \in Sids : db_peers[s] = NoRow
                  /\ \A w \in Workers : handler[w].pc \in {"idle", "ask"}
  /\ \A k \in DOMAIN store_q : peers[obj[store_q[k]].sid] = store_q[k]
  /\ \A s \in Sids : db_peers[s] # NoRow =>
       /\ peers[s] # 0
       /\ db_peers[s] = obj[peers[s]].exp \/ \E k \in DOMAIN store_q : store_q[k] = peers[s]

\* Whoever is known stays known under the same object while nobody is thrown out.
LEMMA StaysKnown ==
  ASSUME Types, Types', HeapGrows, InBook \subseteq InBook'
  PROVE  \A s \in Sids : peers[s] # 0 =>
           /\ peers[s] \in Objs(obj) /\ obj[peers[s]].sid = s
           /\ peers'[s] = peers[s] /\ obj'[peers[s]].sid = s
<1> SUFFICES ASSUME NEW s \in Sids, peers[s] # 0
             PROVE  /\ peers[s] \in Objs(obj) /\ obj[peers[s]].sid = s
                    /\ peers'[s] = peers[s] /\ obj'[peers[s]].sid = s
  OBVIOUS
<1>1. peers[s] \in Objs(obj) /\ obj[peers[s]].sid = s
  <2>1. peers[s] \in 0 .. Len(obj) /\ obj[peers[s]].sid = s
    BY Zenon DEF Types, Book
  <2>2. Len(obj) \in Nat
    BY DEF Types
  <2> QED
    BY <2>1, <2>2 DEF Objs
<1>2. peers[s] \in InBook'
  <2>1. peers[s] \in InBook
    BY InBookFacts DEF Types
  <2> QED
    BY <2>1
<1>3. obj'[peers[s]].sid = s
  BY <1>1 DEF HeapGrows
<1>4. peers'[obj'[peers[s]].sid] = peers[s]
  <2>1. DOMAIN peers_by_rating' = 1 .. Len(peers_by_rating')
    BY DEF Types, Book
  <2>2. PICK i \in 1 .. Len(peers_by_rating') : peers[s] = peers_by_rating'[i]
    BY <1>2, <2>1 DEF InBook, Elements
  <2> QED
    BY <2>2 DEF Types, Book
<1> QED
  BY <1>1, <1>3, <1>4

\* No rating changes and no row: peers may become known, handlers may go on.
LEMMA StoredLater ==
  ASSUME Types, Types', HeapGrows, InBook \subseteq InBook', Stored,
         \A i \in Objs(obj) : obj'[i] = obj[i],
         UNCHANGED <<store_q, db_peers, restored>>,
         ~restored => \A w \in Workers : handler'[w].pc \in {"idle", "ask"}
  PROVE  Stored'
<1>1. \A k \in DOMAIN store_q : /\ store_q[k] \in Objs(obj)
                                /\ obj[store_q[k]].sid \in Sids /\ store_q[k] # 0
  <2>1. \A k \in DOMAIN store_q : store_q[k] \in Objs(obj) /\ store_q[k] # 0
    BY DEF Types, Objs
  <2> QED
    BY <2>1, ObjectFacts DEF Types
<1>2. \A k \in DOMAIN store_q' : peers'[obj'[store_q'[k]].sid] = store_q'[k]
  <2> SUFFICES ASSUME NEW k \in DOMAIN store_q PROVE peers'[obj'[store_q[k]].sid] = store_q[k]
    OBVIOUS
  <2>1. obj'[store_q[k]] = obj[store_q[k]] /\ peers[obj[store_q[k]].sid] = store_q[k]
    BY <1>1 DEF Stored
  <2> QED
    BY <1>1, <2>1, StaysKnown
<1>3. \A s \in Sids : db_peers'[s] # NoRow =>
        /\ peers'[s] # 0
        /\ db_peers'[s] = obj'[peers'[s]].exp \/ \E k \in DOMAIN store_q' : store_q'[k] = peers'[s]
  <2> SUFFICES ASSUME NEW s \in Sids, db_peers[s] # NoRow
               PROVE  /\ peers'[s] # 0
                      /\ \/ db_peers[s] = obj'[peers'[s]].exp
                         \/ \E k \in DOMAIN store_q : store_q[k] = peers'[s]
    OBVIOUS
  <2>1. /\ peers[s] # 0
        /\ db_peers[s] = obj[peers[s]].exp \/ \E k \in DOMAIN store_q : store_q[k] = peers[s]
    BY DEF Stored
  <2>2. peers'[s] = peers[s] /\ obj'[peers[s]] = obj[peers[s]]
    BY <2>1, StaysKnown
  <2> QED
    BY <2>1, <2>2
<1>4. ~restored' => /\ store_q' = <<>>
                    /\ \A s \in Sids : db_peers'[s] = NoRow
                    /\ \A w \in Workers : handler'[w].pc \in {"idle", "ask"}
  BY DEF Stored
<1> QED
  BY <1>2, <1>3, <1>4 DEF Stored

\* A peer of the book is rated, and its event joins the queue.
LEMMA StoredRate ==
  ASSUME Types, Stored, NEW i \in InBook, NEW d \in Int, Rate(i, d), restored, restored' = restored,
         UNCHANGED <<peers, db_peers>>
  PROVE  Stored'
<1>1. obj' = Rated(i, d) /\ store_q' = Append(store_q, i)
  BY DEF Rate, EmitPeer
<1>2. /\ i \in Objs(obj) /\ obj \in Seq(Peer) /\ store_q \in Seq(Objs(obj))
      /\ peers[obj[i].sid] = i
  <2>1. PICK k \in 1 .. Len(peers_by_rating) : i = peers_by_rating[k]
    BY InBookFacts DEF Types
  <2>2. i \in Objs(obj) /\ peers[obj[i].sid] = i
    BY <2>1 DEF Types, Book
  <2> QED
    BY <2>2 DEF Types
<1>3. /\ \A j \in Objs(obj) : obj'[j].sid = obj[j].sid
      /\ \A j \in Objs(obj) : j # i => obj'[j] = obj[j]
  <2>1. \A j \in Objs(obj) : obj'[j].sid = obj[j].sid
    BY <1>1, <1>2, RatedFacts
  <2>2. \A j \in DOMAIN obj : j # i => obj'[j] = obj[j]
    BY <1>1 DEF Rated
  <2>3. DOMAIN obj = Objs(obj)
    BY <1>2 DEF Objs
  <2> QED
    BY <2>1, <2>2, <2>3
<1>4. /\ DOMAIN store_q' = DOMAIN store_q \cup {Len(store_q) + 1}
      /\ \A k \in DOMAIN store_q : store_q'[k] = store_q[k] /\ store_q[k] \in Objs(obj)
      /\ store_q'[Len(store_q) + 1] = i
  BY <1>1, <1>2, AppendFacts
<1>5. \A k \in DOMAIN store_q' : peers'[obj'[store_q'[k]].sid] = store_q'[k]
  BY <1>2, <1>3, <1>4 DEF Stored
<1>6. \A s \in Sids : db_peers'[s] # NoRow =>
        /\ peers'[s] # 0
        /\ db_peers'[s] = obj'[peers'[s]].exp \/ \E k \in DOMAIN store_q' : store_q'[k] = peers'[s]
  <2> SUFFICES ASSUME NEW s \in Sids, db_peers[s] # NoRow
               PROVE  /\ peers[s] # 0
                      /\ \/ db_peers[s] = obj'[peers[s]].exp
                         \/ \E k \in DOMAIN store_q' : store_q'[k] = peers[s]
    OBVIOUS
  <2>1. /\ peers[s] # 0
        /\ db_peers[s] = obj[peers[s]].exp \/ \E k \in DOMAIN store_q : store_q[k] = peers[s]
    BY DEF Stored
  <2>2. peers[s] \in Objs(obj)
    BY <2>1 DEF Types, Book, Objs
  <2>3. CASE peers[s] = i
    BY <1>4, <2>1, <2>3
  <2>4. CASE peers[s] # i
    BY <1>3, <1>4, <2>1, <2>2, <2>4
  <2> QED
    BY <2>3, <2>4
<1> QED
  BY <1>5, <1>6 DEF Stored

\* A row takes the rating of the first peer of the queue.
LEMMA StoredStorePeer ==
  ASSUME Types, Stored, StorePeer
  PROVE  Stored'
<1>1. PICK i \in Objs(obj) :
        /\ store_q # <<>> /\ i = store_q[1] /\ store_q' = Tail(store_q)
        /\ db_peers' = [db_peers EXCEPT ![obj[i].sid] = obj[i].exp]
        /\ UNCHANGED <<obj, peers, handler, restored>>
  <2>1. store_q # <<>> /\ Head(store_q) = store_q[1] /\ Head(store_q) \in Objs(obj)
    BY DEF StorePeer, Types
  <2> QED
    BY <2>1 DEF StorePeer, bookVars
<1>2. /\ 1 \in DOMAIN store_q
      /\ \A k \in DOMAIN store_q' : k + 1 \in DOMAIN store_q /\ store_q'[k] = store_q[k + 1]
      /\ \A k \in DOMAIN store_q : k # 1 => k - 1 \in DOMAIN store_q' /\ store_q'[k - 1] = store_q[k]
  <2>1. store_q \in Seq(Objs(obj)) /\ store_q # <<>> /\ store_q' = Tail(store_q)
    BY <1>1 DEF Types
  <2> QED
    BY <2>1
<1>3. restored /\ peers[obj[i].sid] = i /\ i # 0 /\ obj[i].sid \in Sids
  <2>1. i # 0 /\ obj[i].sid \in Sids
    BY ObjectFacts DEF Objs, Types
  <2> QED
    BY <1>1, <1>2, <2>1 DEF Stored
<1>4. \A k \in DOMAIN store_q' : peers'[obj'[store_q'[k]].sid] = store_q'[k]
  BY <1>1, <1>2 DEF Stored
<1>5. \A s \in Sids : db_peers'[s] # NoRow =>
        /\ peers'[s] # 0
        /\ db_peers'[s] = obj'[peers'[s]].exp \/ \E k \in DOMAIN store_q' : store_q'[k] = peers'[s]
  <2> SUFFICES ASSUME NEW s \in Sids, db_peers'[s] # NoRow
               PROVE  /\ peers[s] # 0
                      /\ \/ db_peers'[s] = obj[peers[s]].exp
                         \/ \E k \in DOMAIN store_q' : store_q'[k] = peers[s]
    BY <1>1
  <2>1. CASE s = obj[i].sid
    <3>1. db_peers'[s] = obj[i].exp
      BY <1>1, <1>3, <2>1 DEF Types
    <3> QED
      BY <1>3, <2>1, <3>1
  <2>2. CASE s # obj[i].sid
    <3>1. db_peers'[s] = db_peers[s]
      BY <1>1, <2>2 DEF Types
    <3>2. /\ peers[s] # 0
          /\ db_peers[s] = obj[peers[s]].exp \/ \E k \in DOMAIN store_q : store_q[k] = peers[s]
      BY <3>1 DEF Stored
    <3>3. obj[peers[s]].sid = s
      BY <3>2 DEF Types, Book
    <3>4. \A k \in DOMAIN store_q : store_q[k] = peers[s] => k # 1
      BY <1>1, <2>2, <3>3
    <3> QED
      BY <1>2, <3>1, <3>2, <3>4
  <2> QED
    BY <2>1, <2>2
<1> QED
  BY <1>1, <1>3, <1>4, <1>5 DEF Stored

\* The restore task finds an empty table.
LEMMA StoredRestore ==
  ASSUME Types, Stored, RestorePeers
  PROVE  Stored'
<1>1. ~restored /\ restored' /\ UNCHANGED <<peers, db_peers>>
  BY DEF RestorePeers
<1>2. store_q = <<>> /\ \A s \in Sids : db_peers[s] = NoRow
  BY <1>1 DEF Stored
<1>3. Rows = {}
  BY <1>2 DEF Rows
<1>4. store_q' = <<>>
  <2>1. Cardinality(Rows) = 0
    BY <1>3, FS_EmptySet
  <2>2. PICK rows \in RowLists :
          store_q' = store_q \o [k \in 1 .. Len(rows) |-> Len(obj) + k]
    BY DEF RestorePeers
  <2>3. rows \in [1 .. 0 -> Rows]
    BY <2>1 DEF RowLists
  <2>4. rows = <<>> /\ Len(rows) = 0
    BY <2>3
  <2>5. [k \in 1 .. Len(rows) |-> Len(obj) + k] = <<>>
    BY <2>4
  <2> QED
    BY <1>2, <2>2, <2>5
<1> QED
  BY <1>1, <1>2, <1>4 DEF Stored

\* A handler that started asks somebody or is done.
LEMMA StartedAsks ==
  ASSUME Types, NEW w \in Workers, StartDiscovery(w)
  PROVE  \A v \in Workers : handler'[v].pc \in {handler[v].pc, "idle", "ask"}
<1>1. PICK r \in RequestType(Len(obj), Len(answers)) : SearchOn(obj, w, r, {}, -1)
  <2>1. requests # <<>> /\ SearchOn(obj, w, Head(requests), {}, -1)
    BY DEF StartDiscovery
  <2>2. Head(requests) \in RequestType(Len(obj), Len(answers))
    BY <2>1 DEF Types
  <2> QED
    BY <2>1, <2>2
<1>2. InBook \subseteq Objs(obj) /\ Len(answers) \in Nat /\ obj \in Seq(Peer)
  BY InBookFacts DEF Types
<1>3. -1 \in -1 .. max_depth /\ {} \in SUBSET Objs(obj)
  BY PeeringAssumption
<1>4. \/ \E h : Asks(obj, Len(answers), r, InBook \cup {}, h) /\ handler' = [handler EXCEPT ![w] = h]
      \/ Finish(w, r, 0)
  BY <1>1, <1>2, <1>3, SearchOnFacts
<1>5. CASE \E h : Asks(obj, Len(answers), r, InBook \cup {}, h) /\ handler' = [handler EXCEPT ![w] = h]
  <2>1. PICK h : Asks(obj, Len(answers), r, InBook \cup {}, h) /\ handler' = [handler EXCEPT ![w] = h]
    BY <1>5
  <2>2. h.pc = "ask"
    BY <2>1 DEF Asks
  <2> QED
    BY <2>1, <2>2, HandlerUpdate
<1>6. CASE Finish(w, r, 0)
  <2>1. IdleHandler.pc = "idle" /\ handler' = [handler EXCEPT ![w] = IdleHandler]
    BY <1>6 DEF IdleHandler, Finish
  <2> QED
    BY <2>1, HandlerUpdate
<1> QED
  BY <1>4, <1>5, <1>6

\* The peer a handler waits for is in the book.
LEMMA AskedInBook ==
  ASSUME Types, Listed, NEW w \in Workers, handler[w].pc # "idle"
  PROVE  handler[w].peer \in InBook
  BY BusyFacts DEF Listed, Busy

LEMMA StepKeepsStored ==
  ASSUME Room, IInv, IInv', Listed, Stored, [Next]_vars, ~Crash
  PROVE  Stored'
<1> USE DEF IInv
<1>1. ASSUME UNCHANGED <<obj, peers, peers_by_rating, store_q, db_peers, restored>>,
             ~restored => \A w \in Workers : handler'[w].pc \in {"idle", "ask"}
      PROVE  Stored'
  <2>1. HeapGrows /\ InBook' = InBook
    BY <1>1, SameHeap DEF InBook
  <2> QED
    BY <1>1, <2>1, StoredLater
<1>2. ASSUME NEW s \in Sids, HandleNewPeer(s)
      PROVE  Stored'
  <2> DEFINE record == [sid |-> s, exp |-> Initial]
  <2>1. AddNew(record) /\ UNCHANGED <<store_q, handler, db_peers, restored>>
    BY <1>2 DEF HandleNewPeer, busVars
  <2>2. record \in Peer
    BY LimitFacts DEF Peer, Initial, Exps
  <2> HIDE DEF record
  <2>3. HeapGrows /\ (\A i \in Objs(obj) : obj'[i] = obj[i]) /\ InBook \subseteq InBook'
    BY <2>1, <2>2, AddNewFacts, AddNewGrows
  <2> QED
    BY <2>1, <2>3, StoredLater DEF Stored
<1>3. ASSUME HandlePeer
      PROVE  Stored'
  <2>1. /\ known_q # <<>> /\ AddPeer(obj, Head(known_q))
        /\ UNCHANGED <<obj, store_q, handler, db_peers, restored>>
    BY <1>3 DEF HandlePeer
  <2>2. PICK i \in Objs(obj) : i = Head(known_q)
    BY <2>1 DEF Types
  <2>3. HeapGrows /\ InBook \subseteq InBook'
    BY <2>1, <2>2, SameHeap, AddPeerGrows DEF Types
  <2> QED
    BY <2>1, <2>3, StoredLater DEF Stored
<1>4. ASSUME NEW w \in Workers, HandlerStep(w)
      PROVE  Stored'
  <2>1. CASE StartDiscovery(w)
    <3>1. UNCHANGED <<obj, peers, peers_by_rating, store_q, db_peers, restored>>
      BY <2>1 DEF StartDiscovery, bookVars
    <3>2. ~restored => \A v \in Workers : handler'[v].pc \in {"idle", "ask"}
      BY <2>1, StartedAsks DEF Stored
    <3> QED
      BY <1>1, <3>1, <3>2
  <2>2. CASE DiscoverAnswered(w)
    <3>1. /\ handler[w].pc # "idle" /\ Rate(handler[w].peer, 1) /\ restored
          /\ UNCHANGED <<peers, db_peers, restored>>
      BY <2>2 DEF DiscoverAnswered, PeerReplies
    <3> QED
      BY <3>1, AskedInBook, StoredRate
  <2>3. CASE Learn(w)
    <3>1. /\ handler[w].pc = "learn"
          /\ IF Known(Head(handler[w].near).sid) THEN UNCHANGED bookVars ELSE AddNew(Head(handler[w].near))
          /\ UNCHANGED <<store_q, db_peers, restored>>
      BY <2>3 DEF Learn, busVars
    <3>2. Head(handler[w].near) \in Peer
      BY <3>1, BusyFacts
    <3>3. restored
      BY <3>1 DEF Stored
    <3>4. HeapGrows /\ (\A i \in Objs(obj) : obj'[i] = obj[i]) /\ InBook \subseteq InBook'
      <4>1. CASE UNCHANGED bookVars
        BY <4>1, SameHeap DEF bookVars, InBook
      <4>2. CASE AddNew(Head(handler[w].near))
        BY <3>2, <4>2, AddNewFacts, AddNewGrows
      <4> QED
        BY <3>1, <4>1, <4>2
    <3> QED
      BY <3>1, <3>3, <3>4, StoredLater
  <2>4. CASE PeerFails(w)
    <3>1. /\ handler[w].pc # "idle" /\ Rate(handler[w].peer, -2) /\ restored
          /\ UNCHANGED <<peers, db_peers, restored>>
      BY <2>4 DEF PeerFails, PeerReplies
    <3> QED
      BY <3>1, AskedInBook, StoredRate
  <2>5. CASE DiscoverMalformed(w)
    <3>1. restored /\ UNCHANGED <<obj, peers, peers_by_rating, store_q, db_peers, restored>>
      BY <2>5 DEF DiscoverMalformed, PeerReplies, bookVars
    <3> QED
      BY <1>1, <3>1
  <2>6. CASE HasMagnet(w)
    <3>1. /\ handler[w].pc = "head" /\ Rate(handler[w].peer, 1)
          /\ UNCHANGED <<peers, db_peers, restored>>
      BY <2>6 DEF HasMagnet
    <3>2. restored
      BY <3>1 DEF Stored
    <3> QED
      BY <3>1, <3>2, AskedInBook, StoredRate
  <2>7. CASE HasNoMagnet(w)
    <3>1. handler[w].pc = "head" /\ UNCHANGED <<obj, peers, peers_by_rating, store_q, db_peers, restored>>
      BY <2>7 DEF HasNoMagnet, bookVars
    <3>2. restored
      BY <3>1 DEF Stored
    <3> QED
      BY <1>1, <3>1, <3>2
  <2> QED
    BY <1>4, <2>1, <2>2, <2>3, <2>4, <2>5, <2>6, <2>7 DEF HandlerStep
<1>5. CASE StorePeer
  BY <1>5, StoredStorePeer
<1>6. CASE RestorePeers
  BY <1>6, StoredRestore
<1>7. CASE \/ \E m \in Magnets : NewRequest(m)
           \/ TakeFound \/ Retry \/ UNCHANGED vars
  <2>1. UNCHANGED <<obj, peers, peers_by_rating, store_q, handler, db_peers, restored>>
    BY <1>7 DEF NewRequest, TakeFound, Retry, vars, peeringVars, bookVars, busVars
  <2> QED
    BY <1>1, <2>1 DEF Stored
<1> QED
  BY <1>2, <1>3, <1>4, <1>5, <1>6, <1>7 DEF Next, PeeringStep

LEMMA StoredIsCaughtUp ==
  ASSUME Stored
  PROVE  DbCatchesUp
  BY DEF Stored, DbCatchesUp

\* While the process has not crashed, and with room in the book for everybody, every
\* row has the rating of its peer once the Peer events are handled: no change of a
\* rating goes without an event that is handled after it.
THEOREM RowsCatchUp == Room /\ Spec => [](crashes = 0 => DbCatchesUp)
<1> SUFFICES ASSUME Room PROVE Spec => [](crashes = 0 => DbCatchesUp)
  OBVIOUS
<1> DEFINE J == IInv /\ Listed /\ (crashes = 0 => Stored)
<1>1. Init => J
  <2> SUFFICES ASSUME Init PROVE Stored
    BY StartIsIInv
  <2>1. /\ peers = [s \in Sids |-> 0] /\ store_q = <<>>
        /\ handler = [w \in Workers |-> IdleHandler]
        /\ db_peers = [s \in Sids |-> NoRow] /\ restored = FALSE
    BY DEF Init, PeeringInit, BookInit, BusInit
  <2>2. IdleHandler.pc = "idle"
    BY DEF IdleHandler
  <2> QED
    BY <2>1, <2>2 DEF Stored
<1>2. J /\ [Next]_vars => J'
  <2> SUFFICES ASSUME J, [Next]_vars PROVE J'
    OBVIOUS
  <2>1. IInv' /\ Listed'
    BY StepKeepsIInv
  <2>2. CASE Crash
    <3>1. crashes' # 0
      BY <2>2 DEF Crash, IInv
    <3> QED
      BY <2>1, <3>1
  <2>3. CASE ~Crash
    <3>1. crashes' = crashes
      BY <2>3 DEF Next, PeeringStep, HandleNewPeer, HandlePeer, HandlerStep, StartDiscovery,
                  DiscoverAnswered, Learn, PeerFails, DiscoverMalformed, HasMagnet, HasNoMagnet,
                  StorePeer, RestorePeers, NewRequest, TakeFound, Retry, vars, peeringVars
    <3> QED
      BY <2>1, <2>3, <3>1, StepKeepsStored
  <2> QED
    BY <2>2, <2>3
<1>3. J => (crashes = 0 => DbCatchesUp)
  BY StoredIsCaughtUp
<1> QED
  BY <1>1, <1>2, <1>3, PTL DEF Spec

-----------------------------------------------------------------------------
(* The end of a search.                                                     *)

\* Every round began with somebody new.
Counted(h) == h.pc # "idle" => h.round + 1 <= Cardinality(h.request.visited)

Rounds == \A w \in Workers : Counted(handler[w])

\* A search that goes on has somebody new in every round; one that ends has nobody left
\* to ask, or no round.
LEMMA SearchOnCounts ==
  ASSUME Types, NEW o \in Seq(Peer), InBook \subseteq Objs(o), NEW a \in Nat, NEW w \in Workers,
         NEW r \in RequestType(Len(o), a), NEW todo \in SUBSET Objs(o),
         NEW round \in -1 .. max_depth, SearchOn(o, w, r, todo, round),
         round + 1 <= Cardinality(r.visited)
  PROVE  /\ \A v \in Workers \ {w} : handler'[v] = handler[v]
         /\ Counted(handler'[w])
         /\ handler'[w].pc = "idle" =>
              \/ Unvisited(o, PeersByDistance(o), r.visited) = {}
              \/ round = max_depth
<1> DEFINE rest == Unvisited(o, todo, r.visited)
           all == PeersByDistance(o)
           next == Unvisited(o, all, r.visited)
<1>1. ASSUME NEW ids, NEW left, NEW n \in {round, round + 1},
             NEW h, h = Contact(o, r, ids, left, n), handler' = [handler EXCEPT ![w] = h],
             Asks(o, a, r, InBook \cup todo, h)
      PROVE  Counted(handler'[w]) /\ handler'[w].pc # "idle"
  <2>1. handler'[w] = h
    BY <1>1, HandlerUpdate
  <2>2. h.round = n /\ h.pc = "ask"
    BY <1>1 DEF Contact
  <2>3. h.request.visited = r.visited \cup {h.peer} /\ h.peer \notin r.visited
    BY <1>1 DEF Asks
  <2>4. IsFiniteSet(r.visited)
    <3>1. IsFiniteSet(1 .. Len(o))
      BY FS_Interval
    <3>2. r.visited \in SUBSET (1 .. Len(o))
      BY DEF RequestType
    <3> QED
      BY <3>1, <3>2, FS_Subset
  <2>5. Cardinality(h.request.visited) = Cardinality(r.visited) + 1 /\ Cardinality(r.visited) \in Nat
    BY <2>3, <2>4, FS_AddElement, FS_CardinalityType
  <2>6. round \in Int /\ n <= round + 1 /\ n \in Int
    BY PeeringAssumption
  <2> QED
    BY <2>1, <2>2, <2>5, <2>6 DEF Counted
<1>2. CASE /\ rest # {}
           /\ handler' = [handler EXCEPT ![w] = Contact(o, r, rest, todo, round)]
  <2>1. Asks(o, a, r, todo \cup todo, Contact(o, r, rest, todo, round))
    BY <1>2, ContactAsks
  <2>2. Asks(o, a, r, InBook \cup todo, Contact(o, r, rest, todo, round))
    BY <2>1 DEF Asks
  <2> HIDE DEF rest
  <2> QED
    BY <1>1, <1>2, <2>2, HandlerUpdate
<1>3. CASE /\ next # {} /\ MoreRounds(round)
           /\ handler' = [handler EXCEPT ![w] = Contact(o, r, next, all, round + 1)]
  <2>1. round + 1 \in -1 .. max_depth
    BY <1>3, PeeringAssumption DEF MoreRounds
  <2>2. all \in SUBSET Objs(o) /\ all \subseteq InBook
    BY UsableInBook
  <2>3. Asks(o, a, r, all \cup all, Contact(o, r, next, all, round + 1))
    BY <1>3, <2>1, <2>2, ContactAsks
  <2>4. Asks(o, a, r, InBook \cup todo, Contact(o, r, next, all, round + 1))
    BY <2>2, <2>3 DEF Asks
  <2> HIDE DEF all, next
  <2> QED
    BY <1>1, <1>3, <2>4, HandlerUpdate
<1>4. CASE /\ next = {} \/ ~MoreRounds(round)
           /\ Finish(w, r, 0)
  <2>1. handler' = [handler EXCEPT ![w] = IdleHandler] /\ IdleHandler.pc = "idle"
    BY <1>4 DEF Finish, IdleHandler
  <2>2. ~MoreRounds(round) => round = max_depth
    BY PeeringAssumption DEF MoreRounds
  <2> QED
    BY <1>4, <2>1, <2>2, HandlerUpdate DEF Counted
<1> QED
  BY <1>2, <1>3, <1>4 DEF SearchOn

\* Whoever ends a search without a match has left out nobody, has asked somebody in
\* every round, or met an answer that could not be decoded.
Exhausts ==
  \A w \in Workers :
    handler[w].pc # "idle" /\ handler'[w].pc = "idle" /\ crashes' = crashes /\ found' = found
      => \/ Unvisited(obj', PeersByDistance(obj'), handler[w].request.visited) = {}
         \/ Cardinality(handler[w].request.visited) > max_depth
         \/ DiscoverMalformed(w)

LEMMA SearchOnExhausts ==
  ASSUME Types, Rounds, NEW w \in Workers, Busy(w), HeapGrows,
         SearchOn(obj', w, handler[w].request, handler[w].todo, handler[w].round),
         UNCHANGED <<peers, peers_by_rating>>
  PROVE  Rounds' /\ Exhausts
<1>1. /\ handler[w].request \in RequestType(Len(obj), Len(answers))
      /\ handler[w].todo \in SUBSET Objs(obj) /\ handler[w].round \in -1 .. max_depth
      /\ Len(answers) \in Nat /\ Len(obj) \in Nat /\ Len(obj') \in Nat
      /\ Objs(obj) \subseteq Objs(obj')
  BY BusyFacts DEF Busy, HeapGrows, Objs
<1>2. PICK r \in RequestType(Len(obj'), Len(answers)) : r = handler[w].request
  BY <1>1 DEF RequestType, Objs
<1>3. Book(obj', peers, peers_by_rating) /\ obj' \in Seq(Peer)
  BY BookOfLaterHeap DEF Types, HeapGrows
<1>4. InBook \subseteq Objs(obj')
  BY <1>3, InBookFacts
<1>5. /\ \A v \in Workers \ {w} : handler'[v] = handler[v]
      /\ Counted(handler'[w])
      /\ handler'[w].pc = "idle" =>
           \/ Unvisited(obj', PeersByDistance(obj'), r.visited) = {}
           \/ handler[w].round = max_depth
  <2>1. SearchOn(obj', w, r, handler[w].todo, handler[w].round)
    BY <1>2
  <2>2. handler[w].round + 1 <= Cardinality(r.visited)
    BY <1>2 DEF Rounds, Counted, Busy
  <2>3. handler[w].todo \in SUBSET Objs(obj')
    BY <1>1
  <2> QED
    BY <1>1, <1>3, <1>4, <2>1, <2>2, <2>3, SearchOnCounts
<1>6. Rounds'
  BY <1>5 DEF Rounds, Counted
<1>7. ASSUME handler[w].round = max_depth
      PROVE  Cardinality(handler[w].request.visited) > max_depth
  <2>1. handler[w].round + 1 <= Cardinality(r.visited)
    BY <1>2 DEF Rounds, Counted, Busy
  <2>2. IsFiniteSet(r.visited)
    <3>1. IsFiniteSet(1 .. Len(obj'))
      BY <1>1, FS_Interval
    <3>2. r.visited \in SUBSET (1 .. Len(obj'))
      BY DEF RequestType
    <3> QED
      BY <3>1, <3>2, FS_Subset
  <2>3. Cardinality(r.visited) \in Nat
    BY <2>2, FS_CardinalityType
  <2> QED
    BY <1>2, <1>7, <2>1, <2>3, PeeringAssumption
<1>8. Exhausts
  <2> SUFFICES ASSUME NEW v \in Workers, handler[v].pc # "idle", handler'[v].pc = "idle"
               PROVE  \/ Unvisited(obj', PeersByDistance(obj'), handler[v].request.visited) = {}
                      \/ Cardinality(handler[v].request.visited) > max_depth
    BY DEF Exhausts
  <2>1. v = w
    BY <1>5
  <2> QED
    BY <1>2, <1>5, <1>7, <2>1
<1> QED
  BY <1>6, <1>8

LEMMA StepCounts ==
  ASSUME IInv, Rounds, [Next]_vars
  PROVE  Rounds' /\ Exhausts
<1> USE DEF IInv
<1>1. ASSUME handler' = handler PROVE Rounds' /\ Exhausts
  BY <1>1 DEF Rounds, Counted, Exhausts
<1>2. ASSUME NEW w \in Workers, DiscoverAnswered(w) \/ Learn(w)
      PROVE  Rounds' /\ Exhausts
  <2>1. \A v \in Workers : /\ Busy(v)' <=> Busy(v)
                           /\ handler'[v].request = handler[v].request
                           /\ handler'[v].round = handler[v].round
    BY <1>2, NearSame
  <2> QED
    BY <2>1 DEF Rounds, Counted, Exhausts, Busy
<1>3. ASSUME NEW w \in Workers, handler' = [handler EXCEPT ![w] = IdleHandler],
             DiscoverMalformed(w) \/ found' # found
      PROVE  Rounds' /\ Exhausts
  <2>1. handler'[w] = IdleHandler /\ \A v \in Workers \ {w} : handler'[v] = handler[v]
    BY <1>3, HandlerUpdate
  <2> QED
    BY <1>3, <2>1 DEF Rounds, Counted, Exhausts, IdleHandler
<1>4. ASSUME NEW w \in Workers, HandlerStep(w)
      PROVE  Rounds' /\ Exhausts
  <2>1. CASE StartDiscovery(w)
    <3>1. /\ handler[w].pc = "idle" /\ requests # <<>> /\ SearchOn(obj, w, Head(requests), {}, -1)
          /\ UNCHANGED <<obj, peers, peers_by_rating>>
      BY <2>1 DEF StartDiscovery, bookVars
    <3>2. PICK r \in RequestType(Len(obj), Len(answers)) : r = Head(requests)
      BY <3>1 DEF Types
    <3>3. InBook \subseteq Objs(obj) /\ Len(answers) \in Nat /\ obj \in Seq(Peer)
      BY InBookFacts DEF Types
    <3>4. -1 \in -1 .. max_depth /\ {} \in SUBSET Objs(obj) /\ -1 + 1 = 0
      BY PeeringAssumption
    <3>5. 0 <= Cardinality(r.visited)
      <4>1. IsFiniteSet(1 .. Len(obj)) /\ r.visited \in SUBSET (1 .. Len(obj))
        BY FS_Interval DEF RequestType, Types
      <4>2. IsFiniteSet(r.visited)
        BY <4>1, FS_Subset
      <4> QED
        BY <4>2, FS_CardinalityType
    <3>6. /\ \A v \in Workers \ {w} : handler'[v] = handler[v]
          /\ Counted(handler'[w])
      <4>1. SearchOn(obj, w, r, {}, -1)
        BY <3>1, <3>2
      <4> QED
        BY <3>3, <3>4, <3>5, <4>1, SearchOnCounts
    <3> QED
      BY <3>1, <3>6 DEF Rounds, Counted, Exhausts
  <2>2. CASE DiscoverAnswered(w)
    BY <1>2, <2>2
  <2>3. CASE Learn(w)
    BY <1>2, <2>3
  <2>4. CASE PeerFails(w)
    <3>1. /\ Busy(w) /\ Rate(handler[w].peer, -2)
          /\ SearchOn(obj', w, handler[w].request, handler[w].todo, handler[w].round)
          /\ UNCHANGED <<peers, peers_by_rating>>
      BY <2>4 DEF PeerFails, Busy
    <3>2. HeapGrows
      BY <3>1, BusyFacts, RateFacts DEF Busy
    <3> QED
      BY <3>1, <3>2, SearchOnExhausts
  <2>5. CASE DiscoverMalformed(w)
    <3>1. handler' = [handler EXCEPT ![w] = IdleHandler]
      BY <2>5 DEF DiscoverMalformed, Finish
    <3> QED
      BY <1>3, <2>5, <3>1
  <2>6. CASE HasMagnet(w)
    <3>1. /\ handler' = [handler EXCEPT ![w] = IdleHandler]
          /\ \E f : found' = Append(found, f)
      BY <2>6 DEF HasMagnet, Finish
    <3>2. found' # found
      BY <3>1 DEF Types
    <3> QED
      BY <1>3, <3>1, <3>2
  <2>7. CASE HasNoMagnet(w)
    <3>1. /\ Busy(w)
          /\ SearchOn(obj, w, handler[w].request, handler[w].todo, handler[w].round)
          /\ UNCHANGED <<obj, peers, peers_by_rating>>
      BY <2>7 DEF HasNoMagnet, Busy, bookVars
    <3>2. SearchOn(obj', w, handler[w].request, handler[w].todo, handler[w].round) /\ HeapGrows
      BY <3>1, SameHeap
    <3> QED
      BY <3>1, <3>2, SearchOnExhausts
  <2> QED
    BY <1>4, <2>1, <2>2, <2>3, <2>4, <2>5, <2>6, <2>7 DEF HandlerStep
<1>5. CASE Crash
  <2>1. crashes' # crashes /\ handler' = [w \in Workers |-> IdleHandler]
    BY <1>5 DEF Crash
  <2> QED
    BY <2>1 DEF Rounds, Counted, Exhausts, IdleHandler
<1>6. CASE \/ \E s \in Sids : HandleNewPeer(s)
           \/ HandlePeer \/ StorePeer \/ RestorePeers
           \/ \E m \in Magnets : NewRequest(m)
           \/ TakeFound \/ Retry \/ UNCHANGED vars
  <2>1. handler' = handler
    BY <1>6 DEF HandleNewPeer, HandlePeer, StorePeer, RestorePeers, NewRequest, TakeFound, Retry, vars,
                peeringVars
  <2> QED
    BY <1>1, <2>1
<1> QED
  BY <1>4, <1>5, <1>6 DEF Next, PeeringStep

\* A search that ends without a match has asked every usable peer of the book, those it
\* heard of under way included, or as many peers as it has rounds, or its last answer
\* could not be decoded: each round asks somebody new, as long as there is anybody.
THEOREM AsksEverybody == Spec => ExhaustiveSearch
<1> DEFINE J == IInv /\ Rounds
<1>1. Init => J
  <2> SUFFICES ASSUME Init PROVE Rounds
    BY StartIsIInv
  <2>1. handler = [w \in Workers |-> IdleHandler] /\ IdleHandler.pc = "idle"
    BY DEF Init, PeeringInit, IdleHandler
  <2> QED
    BY <2>1 DEF Rounds, Counted
<1>2. J /\ [Next]_vars => J'
  BY StepKeepsIInv, StepCounts
<1>3. J /\ [Next]_vars => [Exhausts]_vars
  BY StepCounts
<1> QED
  BY <1>1, <1>2, <1>3, PTL DEF Spec, ExhaustiveSearch, Exhausts
=============================================================================
