---------------------------- MODULE AroundProofs ----------------------------
(***************************************************************************)
(* Proofs about the parts of Around, each about the specification of that   *)
(* part, for any number of processes, nodes, searches and peers.            *)
(*                                                                          *)
(* Startup: what a process that migrates has not to do any more is there,   *)
(* and it holds the lock.  HiddenService: the address of a process and what *)
(* Tor has agree at every stage of start() and stop().  Gossip: a rating    *)
(* that was heard was earned where it comes from, or farther on.  Client:   *)
(* lists go from near to far, so whoever comes before the peer that is      *)
(* tried has said no, and the copies of an upload are at the nearest peers. *)
(***************************************************************************)
EXTENDS Around, FiniteSetTheorems, SequenceTheorems, WellFoundedInduction, TLAPS

(* Orders.                                                                  *)

LEMMA Least ==
  ASSUME NEW S \in SUBSET Nat, S # {}
  PROVE  \E m \in S : \A n \in S : m <= n
<1>1. PICK m \in S : \A n \in S : ~ (<<n, m>> \in OpToRel(<, Nat))
  BY NatLessThanWellFounded, WFMin
<1>2. \A n \in S : m <= n
  <2> SUFFICES ASSUME NEW n \in S PROVE m <= n
    OBVIOUS
  <2>1. m \in Nat /\ n \in Nat
    OBVIOUS
  <2>2. ~ (n < m)
    <3>1. n < m => <<n, m>> \in OpToRel(<, Nat)
      BY <2>1 DEF OpToRel
    <3> QED
      BY <1>1, <3>1
  <2> QED
    BY <2>1, <2>2
<1> QED
  BY <1>2

\* Relation R is a strict total order of set S.
Orders(R, S) ==
  /\ \A x, y \in S : x # y => <<x, y>> \in R \/ <<y, x>> \in R
  /\ \A x \in S : <<x, x>> \notin R
  /\ \A x, y, z \in S : <<x, y>> \in R /\ <<y, z>> \in R => <<x, z>> \in R

\* How many elements of S relation R puts before x, and x.
Rank(S, R, x) == 1 + Cardinality({ y \in S : <<y, x>> \in R })

\* The elements of a finite set take the places of a strict total order R of it.
LEMMA RankFacts ==
  ASSUME NEW S, IsFiniteSet(S), NEW R, Orders(R, S)
  PROVE  /\ \A x \in S : Rank(S, R, x) \in 1 .. Cardinality(S)
         /\ \A x, y \in S : <<x, y>> \in R => Rank(S, R, x) < Rank(S, R, y)
         /\ \A x, y \in S : Rank(S, R, x) = Rank(S, R, y) => x = y
         /\ \A k \in 1 .. Cardinality(S) : \E x \in S : Rank(S, R, x) = k
<1> USE DEF Orders
<1> DEFINE place == [x \in S |-> Rank(S, R, x)]
<1> DEFINE Below(x) == { y \in S : <<y, x>> \in R }
<1>1. ASSUME NEW x \in S
      PROVE  /\ IsFiniteSet(Below(x)) /\ Cardinality(Below(x)) \in Nat
             /\ place[x] = 1 + Cardinality(Below(x))
             /\ Cardinality(Below(x)) <= Cardinality(S) - 1
  <2>1. Below(x) \in SUBSET (S \ {x})
    OBVIOUS
  <2>2. IsFiniteSet(S \ {x}) /\ Cardinality(S \ {x}) = Cardinality(S) - 1
    BY FS_RemoveElement
  <2>3. IsFiniteSet(Below(x)) /\ Cardinality(Below(x)) <= Cardinality(S \ {x})
    BY <2>1, <2>2, FS_Subset
  <2>4. place[x] = 1 + Cardinality(Below(x))
    BY DEF Rank
  <2> QED
    BY <2>2, <2>3, <2>4, FS_CardinalityType
<1>2. Cardinality(S) \in Nat
  BY FS_CardinalityType
<1>3. ASSUME NEW x \in S, NEW y \in S, <<x, y>> \in R
      PROVE  place[x] < place[y]
  <2>1. Below(x) \in SUBSET Below(y) /\ x \in Below(y) /\ x \notin Below(x)
    BY <1>3
  <2>2. Cardinality(Below(x)) <= Cardinality(Below(y)) /\ Cardinality(Below(x)) # Cardinality(Below(y))
    BY <1>1, <2>1, FS_Subset
  <2> HIDE DEF Below
  <2> QED
    BY <1>1, <2>2
<1> HIDE DEF Below
<1>4. \A x \in S : place[x] \in 1 .. Cardinality(S)
  <2> SUFFICES ASSUME NEW x \in S PROVE place[x] \in 1 .. Cardinality(S)
    OBVIOUS
  <2>1. PICK n \in Nat : place[x] = 1 + n /\ n <= Cardinality(S) - 1
    BY <1>1
  <2> QED
    BY <1>2, <2>1
<1>5. \A x, y \in S : place[x] = place[y] => x = y
  <2> SUFFICES ASSUME NEW x \in S, NEW y \in S, x # y PROVE place[x] # place[y]
    OBVIOUS
  <2>1. place[x] < place[y] \/ place[y] < place[x]
    BY <1>3
  <2> QED
    BY <1>4, <2>1
<1>6. IsFiniteSet(1 .. Cardinality(S)) /\ Cardinality(1 .. Cardinality(S)) = Cardinality(S)
  <2>1. /\ IsFiniteSet(1 .. Cardinality(S))
        /\ Cardinality(1 .. Cardinality(S)) = IF 1 > Cardinality(S) THEN 0 ELSE Cardinality(S) - 1 + 1
    BY <1>2, FS_Interval
  <2> QED
    BY <1>2, <2>1
<1>7. place \in Surjection(S, 1 .. Cardinality(S))
  <2>1. DOMAIN place = S /\ place \in [S -> 1 .. Cardinality(S)]
    BY <1>4
  <2>2. place \in Injection(S, 1 .. Cardinality(S))
    BY <1>5, <2>1 DEF Injection, IsInjective
  <2> HIDE DEF place
  <2> QED
    BY <1>6, <2>2, FS_Injection
<1> QED
  BY <1>3, <1>4, <1>5, <1>7 DEF Surjection

-----------------------------------------------------------------------------
(* The start of a node.                                                     *)

TypeInv ==
  /\ pc \in [Processes -> Contracts \cup {"off", "database", "applying", "rollback", "running"}]
  /\ since \in [Processes -> [Contracts -> Nat]]
  /\ address \in [Processes -> [Contracts -> Nat]]
  /\ todo \in [Processes -> SUBSET Migrations]
  /\ version \in [Contracts -> Nat]
  /\ marks \subseteq Migrations /\ tables \subseteq Migrations

\* Who applies migrations holds the lock, and what it has not to do is there.
Applying ==
  \A p \in Processes : pc[p] = "applying" => lock = p /\ Migrations \ todo[p] \subseteq tables

\* The contracts a process has resolved.
Resolved(p) ==
  CASE pc[p] = "peering" -> {"content"}
    [] pc[p] \in {"database", "applying", "running"} -> Contracts
    [] OTHER -> {}

Addresses ==
  \A p \in Processes : \A c \in Contracts :
    /\ since[p][c] <= version[c]
    /\ c \in Resolved(p) => since[p][c] <= address[p][c] /\ address[p][c] <= version[c]

IInv == TypeInv /\ RunsMigrated /\ MarkedIsThere /\ Applying /\ Addresses

\* There is a first one of any migrations.
LEMMA FirstOf ==
  ASSUME NEW ms \in SUBSET Migrations, ms # {}
  PROVE  First(ms) \in ms
<1>1. ms \in SUBSET Nat
  BY StartupAssumption
<1> QED
  BY <1>1, Least DEF First

LEMMA InitInv == Init => IInv
BY DEF Init, IInv, TypeInv, RunsMigrated, MarkedIsThere, Applying, Addresses, Resolved, None,
       Contracts

-----------------------------------------------------------------------------
(* The steps of a process, by what they touch.                              *)

\* A process that goes where no migration is applied and nothing is used.
LEMMA LeaveKeeps ==
  ASSUME IInv, NEW p \in Processes, NEW place \in {"off", "rollback"},
         Goto(p, place), todo' \in [Processes -> SUBSET Migrations],
         \A q \in Processes : q # p => todo'[q] = todo[q],
         pc[p] = "applying" \/ UNCHANGED lock,
         UNCHANGED <<since, address, version, marks, tables>>
  PROVE  IInv'
<1>1. /\ pc'[p] = place
      /\ \A q \in Processes : q # p => pc'[q] = pc[q]
      /\ pc' \in [Processes ->
                 Contracts \cup {"off", "database", "applying", "rollback", "running"}]
  BY DEF IInv, TypeInv, Goto
<1>2. TypeInv'
  BY <1>1 DEF IInv, TypeInv
<1>3. Applying'
  BY <1>1 DEF IInv, Applying
<1>4. Addresses'
  <2>1. Resolved(p)' = {}
    BY <1>1 DEF Resolved
  <2>2. \A q \in Processes : q # p => Resolved(q)' = Resolved(q)
    BY <1>1 DEF Resolved
  <2> QED
    BY <2>1, <2>2 DEF IInv, Addresses
<1> QED
  BY <1>1, <1>2, <1>3, <1>4 DEF IInv, RunsMigrated, MarkedIsThere

LEMMA StartKeeps ==
  ASSUME IInv, NEW p \in Processes, StartProcess(p)
  PROVE  IInv'
<1>1. /\ pc'[p] = "content" /\ since'[p] = version
      /\ \A q \in Processes : q # p =>
           pc'[q] = pc[q] /\ since'[q] = since[q] /\ address'[q] = address[q]
      /\ UNCHANGED <<todo, version, lock, marks, tables>>
  BY DEF StartProcess, Goto, IInv, TypeInv
<1>2. TypeInv'
  <2>1. None \in [Contracts -> Nat] /\ "content" \in Contracts
    BY DEF None, Contracts
  <2> QED
    BY <2>1 DEF StartProcess, Goto, IInv, TypeInv
<1>3. Addresses'
  <2>1. Resolved(p)' = {}
    BY <1>1 DEF Resolved
  <2>2. \A q \in Processes : q # p => Resolved(q)' = Resolved(q)
    BY <1>1 DEF Resolved
  <2>3. \A c \in Contracts : version[c] <= version[c]
    BY DEF IInv, TypeInv
  <2> QED
    BY <1>1, <2>1, <2>2, <2>3 DEF IInv, Addresses
<1> QED
  BY <1>1, <1>2, <1>3 DEF IInv, RunsMigrated, MarkedIsThere, Applying

LEMMA ResolveKeeps ==
  ASSUME IInv, NEW p \in Processes, NEW c \in Contracts, Resolve(p, c)
  PROVE  IInv'
<1> DEFINE next == IF c = "content" THEN "peering" ELSE "database"
<1>1. /\ pc[p] = c /\ pc'[p] = next
      /\ \A q \in Processes : q # p => pc'[q] = pc[q] /\ address'[q] = address[q]
      /\ \A d \in Contracts : address'[p][d] = IF d = c THEN version[c] ELSE address[p][d]
      /\ UNCHANGED <<since, todo, version, lock, marks, tables>>
  BY DEF Resolve, Goto, IInv, TypeInv
<1>2. TypeInv'
  <2>1. next \in {"peering", "database"} /\ "peering" \in Contracts
    BY DEF Contracts
  <2>2. version[c] \in Nat
    BY DEF IInv, TypeInv
  <2>3. address' \in [Processes -> [Contracts -> Nat]]
    BY <2>2 DEF Resolve, IInv, TypeInv
  <2> QED
    BY <1>1, <2>1, <2>3 DEF Resolve, Goto, IInv, TypeInv
<1>3. Addresses'
  <2>1. Resolved(p)' \subseteq Resolved(p) \cup {c}
    BY <1>1 DEF Resolved, Contracts
  <2>2. \A q \in Processes : q # p => Resolved(q)' = Resolved(q)
    BY <1>1 DEF Resolved
  <2>3. version[c] \in Nat
    BY DEF IInv, TypeInv
  <2> QED
    BY <1>1, <2>1, <2>2, <2>3 DEF IInv, Addresses
<1>4. pc'[p] # "running" /\ pc'[p] # "applying"
  BY <1>1
<1> QED
  BY <1>1, <1>2, <1>3, <1>4 DEF IInv, RunsMigrated, MarkedIsThere, Applying

LEMMA TakeLockKeeps ==
  ASSUME IInv, NEW p \in Processes, TakeLock(p)
  PROVE  IInv'
<1>1. /\ pc[p] = "database" /\ pc'[p] = "applying" /\ lock = 0 /\ lock' = p
      /\ todo'[p] = Migrations \ marks
      /\ \A q \in Processes : q # p => pc'[q] = pc[q] /\ todo'[q] = todo[q]
      /\ UNCHANGED <<since, address, version, marks, tables>>
  BY DEF TakeLock, LockFree, Goto, IInv, TypeInv
<1>2. TypeInv'
  BY <1>1 DEF TakeLock, Goto, IInv, TypeInv
<1>3. Applying'
  <2>1. \A q \in Processes : q # p => pc[q] # "applying"
    BY <1>1, StartupAssumption DEF IInv, Applying
  <2> QED
    BY <1>1, <2>1 DEF IInv, Applying, MarkedIsThere, TypeInv
<1>4. Addresses'
  <2>1. \A q \in Processes : Resolved(q)' = Resolved(q)
    BY <1>1 DEF Resolved
  <2> QED
    BY <1>1, <2>1 DEF IInv, Addresses
<1> QED
  BY <1>1, <1>2, <1>3, <1>4 DEF IInv, RunsMigrated, MarkedIsThere

LEMMA ApplyKeeps ==
  ASSUME IInv, NEW p \in Processes, Apply(p)
  PROVE  IInv'
<1> DEFINE m == First(todo[p])
<1>1. /\ pc[p] = "applying"
      /\ m \in Migrations
      /\ tables' = tables \cup {m} /\ marks' = marks \cup {m}
      /\ todo' = [todo EXCEPT ![p] = todo[p] \ {m}]
      /\ UNCHANGED <<pc, since, address, version, lock>>
  BY FirstOf DEF Apply, IInv, TypeInv
<1>2. /\ todo'[p] = todo[p] \ {m}
      /\ \A q \in Processes : q # p => todo'[q] = todo[q]
  BY <1>1 DEF IInv, TypeInv
<1>3. TypeInv'
  BY <1>1 DEF IInv, TypeInv
<1>4. Applying'
  BY <1>1, <1>2 DEF IInv, Applying
<1>5. RunsMigrated'
  BY <1>1 DEF IInv, RunsMigrated
<1>6. Addresses' /\ MarkedIsThere'
  BY <1>1 DEF IInv, Addresses, Resolved, MarkedIsThere
<1> QED
  BY <1>3, <1>4, <1>5, <1>6 DEF IInv

LEMMA AppliedKeeps ==
  ASSUME IInv, NEW p \in Processes, Applied(p)
  PROVE  IInv'
<1>1. /\ pc[p] = "applying" /\ todo[p] = {} /\ pc'[p] = "running"
      /\ \A q \in Processes : q # p => pc'[q] = pc[q]
      /\ UNCHANGED <<since, address, todo, version, marks, tables>>
  BY DEF Applied, Goto, IInv, TypeInv
<1>2. TypeInv'
  BY <1>1 DEF Applied, Goto, IInv, TypeInv
<1>3. Applying'
  <2>1. \A q \in Processes : q # p => pc[q] # "applying"
    BY <1>1 DEF IInv, Applying
  <2> QED
    BY <1>1, <2>1 DEF Applying
<1>4. RunsMigrated'
  <2>1. tables = Migrations
    BY <1>1 DEF IInv, Applying, TypeInv
  <2> QED
    BY <1>1, <2>1 DEF RunsMigrated
<1>5. Addresses'
  <2>1. \A q \in Processes : Resolved(q)' = Resolved(q)
    BY <1>1 DEF Resolved
  <2> QED
    BY <1>1, <2>1 DEF IInv, Addresses
<1> QED
  BY <1>1, <1>2, <1>3, <1>4, <1>5 DEF IInv, MarkedIsThere

LEMMA NextKeeps ==
  ASSUME IInv, [Next]_vars
  PROVE  IInv'
<1>1. ASSUME NEW p \in Processes, Step(p) PROVE IInv'
  <2>1. CASE StartProcess(p)
    BY <2>1, StartKeeps
  <2>2. CASE ResolveFails(p)
    BY <2>2, LeaveKeeps DEF ResolveFails, IInv, TypeInv
  <2>3. CASE \E c \in Contracts : Resolve(p, c)
    BY <2>3, ResolveKeeps
  <2>4. CASE TakeLock(p)
    BY <2>4, TakeLockKeeps
  <2>5. CASE LockTimeout(p) \/ ApplyFails(p)
    <3>1. /\ Goto(p, "rollback") /\ todo' = [todo EXCEPT ![p] = marks]
          /\ pc[p] = "applying" \/ UNCHANGED lock
          /\ UNCHANGED <<since, address, version, marks, tables>>
      BY <2>5 DEF LockTimeout, ApplyFails, Fail
    <3>2. /\ todo' \in [Processes -> SUBSET Migrations]
          /\ \A q \in Processes : q # p => todo'[q] = todo[q]
      BY <3>1 DEF IInv, TypeInv
    <3> QED
      BY <3>1, <3>2, LeaveKeeps
  <2>6. CASE Apply(p)
    BY <2>6, ApplyKeeps
  <2>7. CASE Applied(p)
    BY <2>7, AppliedKeeps
  <2>8. CASE Rollback(p)
    <3>1. /\ UNCHANGED <<pc, since, address, version, lock, tables>>
          /\ marks' \subseteq marks /\ pc[p] = "rollback"
          /\ todo' \in [Processes -> SUBSET Migrations]
          /\ \A q \in Processes : q # p => todo'[q] = todo[q]
      BY <2>8 DEF Rollback, IInv, TypeInv
    <3> QED
      BY <3>1 DEF IInv, TypeInv, RunsMigrated, MarkedIsThere, Applying, Addresses, Resolved
  <2>9. CASE RolledBack(p)
    BY <2>9, LeaveKeeps DEF RolledBack, IInv, TypeInv
  <2>10. CASE Exit(p)
    <3>1. /\ Goto(p, "off") /\ todo' = [todo EXCEPT ![p] = {}]
          /\ UNCHANGED <<since, address, version, lock, marks, tables>>
      BY <2>10 DEF Exit
    <3>2. /\ todo' \in [Processes -> SUBSET Migrations]
          /\ \A q \in Processes : q # p => todo'[q] = todo[q]
      BY <3>1 DEF IInv, TypeInv
    <3> QED
      BY <3>1, <3>2, LeaveKeeps
  <2> QED
    BY <1>1, <2>1, <2>2, <2>3, <2>4, <2>5, <2>6, <2>7, <2>8, <2>9, <2>10 DEF Step
<1>2. ASSUME NEW c \in Contracts, Replace(c) PROVE IInv'
  <2>1. /\ version' \in [Contracts -> Nat]
        /\ \A d \in Contracts : version[d] <= version'[d]
        /\ UNCHANGED <<pc, since, address, todo, lock, marks, tables>>
    BY <1>2 DEF Replace, IInv, TypeInv
  <2>2. Addresses'
    <3> SUFFICES ASSUME NEW p \in Processes, NEW d \in Contracts
                 PROVE  /\ since[p][d] <= version'[d]
                        /\ d \in Resolved(p) =>
                             since[p][d] <= address[p][d] /\ address[p][d] <= version'[d]
      BY <2>1 DEF Addresses, Resolved
    <3>1. /\ since[p][d] \in Nat /\ address[p][d] \in Nat
          /\ version[d] \in Nat /\ version'[d] \in Nat
      BY <2>1 DEF IInv, TypeInv
    <3> QED
      BY <2>1, <3>1 DEF IInv, Addresses
  <2> QED
    BY <2>1, <2>2 DEF IInv, TypeInv, RunsMigrated, MarkedIsThere, Applying
<1>3. CASE UNCHANGED vars
  BY <1>3 DEF vars, IInv, TypeInv, RunsMigrated, MarkedIsThere, Applying, Addresses, Resolved
<1> QED
  BY <1>1, <1>2, <1>3 DEF Next

LEMMA Invariant == Spec => []IInv
<1>1. IInv /\ [Next]_vars => IInv'
  BY NextKeeps
<1> QED
  BY InitInv, <1>1, PTL DEF Spec

-----------------------------------------------------------------------------
\* A process that works with the database has all tables, for any number of processes
\* that start, fail, roll back and die.
THEOREM DatabaseReady == Spec => []RunsMigrated
<1>1. IInv => RunsMigrated
  BY DEF IInv
<1> QED
  BY <1>1, Invariant, PTL

\* What is marked as applied is there, whoever rolls back or dies in between.
THEOREM MarksTrue == Spec => []MarkedIsThere
<1>1. IInv => MarkedIsThere
  BY DEF IInv
<1> QED
  BY <1>1, Invariant, PTL

\* The lock keeps processes from applying migrations at once, although the rollback
\* runs without it.
THEOREM AppliesAlone == Spec => []OneApplies
<1>1. IInv => OneApplies
  BY DEF IInv, Applying, OneApplies
<1> QED
  BY <1>1, Invariant, PTL

\* A node's contracts are those of some time since its process started.
THEOREM AddressesFresh == Spec => []FreshAddresses
<1>1. IInv => FreshAddresses
  <2> SUFFICES ASSUME IInv, NEW p \in Processes, pc[p] \in {"database", "applying", "running"},
                      NEW c \in Contracts
               PROVE  address[p][c] \in since[p][c] .. version[c]
    BY DEF FreshAddresses
  <2>1. c \in Resolved(p)
    BY DEF Resolved
  <2>2. since[p][c] \in Nat /\ address[p][c] \in Nat /\ version[c] \in Nat
    BY DEF IInv, TypeInv
  <2> QED
    BY <2>1, <2>2 DEF IInv, Addresses
<1> QED
  BY <1>1, Invariant, PTL

-----------------------------------------------------------------------------
(* The hidden service.                                                      *)

\* Tor has the services of processes that were killed or cut off only, and that of the
\* process that runs if it made one and was not stopped; the process knows its own address, or none; the
\* connection of a stopped one is of no use to a start() that wakes late.
Hidden ==
  /\ run \in Nat
  /\ onions \subseteq 1 .. run /\ killed \subseteq 1 .. run /\ cut \subseteq 1 .. run
  /\ H!StopRemoves
  /\ start = "off" => asked = "out" /\ controller = "closed"
  /\ start # "off" =>
       /\ run > 0 /\ run \notin killed
       /\ service_id = (IF start = "done" THEN run ELSE H!NoAddress)
       /\ asked = "answered" => start = "done"
       /\ start = "done" /\ ~stopped /\ controller = "open" => run \in onions
       /\ ~stopped /\ controller # "open" => controller = "lost"
       /\ controller = "lost" => run \in cut \/ run \notin onions
       /\ stopped => controller # "open"

LEMMA StepKeepsHidden ==
  ASSUME Hidden, [H!Next]_(H!vars)
  PROVE  Hidden'
<1> USE DEF Hidden, H!StopRemoves, H!NoAddress
<1>1. CASE H!Start
  <2>1. run' = run + 1 /\ 1 .. run \subseteq 1 .. run'
    BY <1>1 DEF H!Start
  <2>2. run' \notin 1 .. run /\ run' \in Nat /\ run' > 0
    BY <2>1
  <2> QED
    BY <1>1, <2>1, <2>2 DEF H!Start
<1>2. CASE H!Create
  <2>1. run \in 1 .. run
    BY <1>2 DEF H!Create
  <2> QED
    BY <1>2, <2>1 DEF H!Create
<1>3. CASE H!CreateFails
  BY <1>3 DEF H!CreateFails
<1>4. CASE H!GetServiceId
  BY <1>4 DEF H!GetServiceId
<1>5. CASE H!Stop
  BY <1>5 DEF H!Stop, H!Closed
<1>6. CASE H!Exit
  BY <1>6 DEF H!Exit
<1>7. CASE H!Kill
  <2>1. run \in 1 .. run
    BY <1>7 DEF H!Kill
  <2> QED
    BY <1>7, <2>1 DEF H!Kill
<1>8. CASE H!TorRestarts
  BY <1>8 DEF H!TorRestarts
<1>9. CASE H!CreateUnheard
  <2>1. run \in 1 .. run
    BY <1>9 DEF H!CreateUnheard
  <2> QED
    BY <1>9, <2>1 DEF H!CreateUnheard
<1>10. CASE H!ConnectionLost
  <2>1. run \in 1 .. run
    BY <1>10 DEF H!ConnectionLost
  <2> QED
    BY <1>10, <2>1 DEF H!ConnectionLost
<1>11. CASE UNCHANGED H!vars
  BY <1>11 DEF H!vars
<1> QED
  BY <1>1, <1>2, <1>3, <1>4, <1>5, <1>6, <1>7, <1>8, <1>9, <1>10, <1>11 DEF H!Next

\* What Tor has of a node and what the node says of itself agree, over any number of
\* processes that are started, interrupted in their start, killed, cut off or left by Tor.
THEOREM TorKnows == H!Spec => []TorAgrees
<1>1. H!Init => Hidden
  BY DEF H!Init, Hidden, H!StopRemoves
<1>2. Hidden /\ [H!Next]_(H!vars) => Hidden'
  BY StepKeepsHidden
<1>3. Hidden => TorAgrees
  BY DEF Hidden, TorAgrees, H!TorAgrees, H!AddressLives, H!NoAddress
<1> QED
  BY <1>1, <1>2, <1>3, PTL DEF H!Spec

-----------------------------------------------------------------------------
(* The books of the nodes that tell of each other.                          *)

LEMMA GossipFacts ==
  /\ Registered \in [Nodes -> SUBSET Nodes] /\ Distance \in [Nodes -> Nat]
  /\ MinExp \in Int /\ MaxExp \in Int /\ MinExp < -1 /\ -1 < MaxExp
  /\ hot_count \in Nat
  BY PartsAssumption DEF G!GossipAssumption

LEMMA SameCardinality == \A S : G!Cardinality(S) = Cardinality(S)
  BY Zenon DEF G!Cardinality, Cardinality

\* The first place of an element.
LEMMA ArrivalFacts ==
  ASSUME NEW S, NEW s \in Seq(S), NEW x \in G!Elements(s)
  PROVE  G!Arrival(s, x) \in DOMAIN s /\ s[G!Arrival(s, x)] = x
<1> DEFINE P == { i \in DOMAIN s : s[i] = x }
<1>1. P \in SUBSET Nat /\ P # {}
  BY DEF G!Elements
<1>2. PICK i \in P : \A j \in P : i <= j
  BY <1>1, Least
<1>3. i \in DOMAIN s /\ s[i] = x /\ \A j \in 1 .. i - 1 : s[j] # x
  BY <1>2
<1>4. \E k \in DOMAIN s : s[k] = x /\ \A j \in 1 .. k - 1 : s[j] # x
  BY <1>3
<1> QED
  BY <1>4 DEF G!Arrival

\* The elements of a sequence are finitely many.
LEMMA ElementsFinite ==
  ASSUME NEW S, NEW s \in Seq(S)
  PROVE  IsFiniteSet(G!Elements(s)) /\ G!Elements(s) \subseteq S
<1>1. s \in Surjection(1 .. Len(s), G!Elements(s))
  BY DEF Surjection, G!Elements
<1>2. IsFiniteSet(1 .. Len(s))
  BY FS_Interval
<1> QED
  BY <1>1, <1>2, FS_Surjection DEF G!Elements

LEMMA ConcatElements ==
  ASSUME NEW S, NEW s \in Seq(S), NEW t \in Seq(S)
  PROVE  s \o t \in Seq(S) /\ G!Elements(s \o t) = G!Elements(s) \cup G!Elements(t)
<1>1. /\ s \o t \in Seq(S) /\ Len(s \o t) = Len(s) + Len(t)
      /\ Len(s) \in Nat /\ Len(t) \in Nat
      /\ DOMAIN s = 1 .. Len(s) /\ DOMAIN t = 1 .. Len(t) /\ DOMAIN (s \o t) = 1 .. Len(s) + Len(t)
      /\ \A i \in 1 .. Len(s) : (s \o t)[i] = s[i]
      /\ \A i \in Len(s) + 1 .. Len(s) + Len(t) : (s \o t)[i] = t[i - Len(s)]
  OBVIOUS
<1>2. ASSUME NEW x \in G!Elements(s \o t) PROVE x \in G!Elements(s) \cup G!Elements(t)
  <2>1. PICK i \in 1 .. Len(s) + Len(t) : (s \o t)[i] = x
    BY <1>1 DEF G!Elements
  <2>2. CASE i <= Len(s)
    BY <1>1, <2>1, <2>2 DEF G!Elements
  <2>3. CASE i > Len(s)
    <3>1. i - Len(s) \in DOMAIN t /\ t[i - Len(s)] = x
      BY <1>1, <2>1, <2>3
    <3> QED
      BY <3>1 DEF G!Elements
  <2> QED
    BY <1>1, <2>2, <2>3
<1>3. ASSUME NEW x \in G!Elements(s) PROVE x \in G!Elements(s \o t)
  <2>1. PICK i \in 1 .. Len(s) : s[i] = x
    BY <1>1 DEF G!Elements
  <2>2. i \in DOMAIN (s \o t) /\ (s \o t)[i] = x
    BY <1>1, <2>1
  <2> QED
    BY <2>2 DEF G!Elements
<1>4. ASSUME NEW x \in G!Elements(t) PROVE x \in G!Elements(s \o t)
  <2>1. PICK i \in 1 .. Len(t) : t[i] = x
    BY <1>1 DEF G!Elements
  <2>2. i + Len(s) \in DOMAIN (s \o t) /\ (s \o t)[i + Len(s)] = x
    <3>1. i + Len(s) \in Len(s) + 1 .. Len(s) + Len(t) /\ i + Len(s) - Len(s) = i
      BY <1>1
    <3> QED
      BY <1>1, <2>1, <3>1
  <2> QED
    BY <2>2 DEF G!Elements
<1> QED
  BY <1>1, <1>2, <1>3, <1>4

\* Learning of peers leaves a book of the same peers and those it did not know: the
\* sort loses none and invents none.
LEMMA LearnedFacts ==
  ASSUME NEW b \in Seq(G!Peer), NEW near \in Seq(G!Peer)
  PROVE  /\ G!Learned(b, near) \in Seq(G!Peer)
         /\ G!Elements(G!Learned(b, near)) = G!Elements(b) \cup G!Unknown(b, near)
<1> DEFINE s == b \o near
           new == G!Unknown(b, near)
           all == G!Elements(b) \cup new
           R == { p \in all \X all : G!Before(s, p[1], p[2]) }
           n == Cardinality(all)
<1>1. s \in Seq(G!Peer) /\ G!Elements(s) = G!Elements(b) \cup G!Elements(near)
  BY ConcatElements
<1>2. new \subseteq G!Elements(near)
  BY DEF G!Unknown
<1>3. IsFiniteSet(all) /\ all \subseteq G!Peer
  <2>1. IsFiniteSet(G!Elements(s)) /\ G!Elements(s) \subseteq G!Peer
    <3> HIDE DEF s
    <3> QED
      BY <1>1, ElementsFinite
  <2>2. all \in SUBSET G!Elements(s)
    BY <1>1, <1>2
  <2> HIDE DEF s, all
  <2> QED
    BY <2>1, <2>2, FS_Subset
<1>4. \A x \in all : G!Arrival(s, x) \in Int /\ s[G!Arrival(s, x)] = x /\ x.exp \in Int
  <2> SUFFICES ASSUME NEW x \in all
               PROVE  G!Arrival(s, x) \in Int /\ s[G!Arrival(s, x)] = x /\ x.exp \in Int
    OBVIOUS
  <2>1. x \in G!Elements(s) /\ x \in G!Peer
    BY <1>1, <1>2, <1>3
  <2>2. x.exp \in Int
    BY <2>1, GossipFacts DEF G!Peer, G!Exps
  <2>3. DOMAIN s \subseteq Int
    BY <1>1
  <2> HIDE DEF s, all
  <2>4. G!Arrival(s, x) \in DOMAIN s /\ s[G!Arrival(s, x)] = x
    BY <1>1, <2>1, ArrivalFacts
  <2> QED
    BY <2>2, <2>3, <2>4
<1> HIDE DEF s, new, all
<1>5. \A x, y \in all : <<x, y>> \in R <=> G!Before(s, x, y)
  OBVIOUS
<1>6. Orders(R, all)
  <2> HIDE DEF R
  <2>1. ASSUME NEW x \in all, NEW y \in all, x # y PROVE <<x, y>> \in R \/ <<y, x>> \in R
    <3>1. G!Arrival(s, x) # G!Arrival(s, y)
      BY <1>4, <2>1
    <3> QED
      BY <1>4, <1>5, <3>1 DEF G!Before
  <2>2. \A x \in all : <<x, x>> \notin R
    BY <1>4, <1>5 DEF G!Before
  <2>3. ASSUME NEW x \in all, NEW y \in all, NEW z \in all, <<x, y>> \in R, <<y, z>> \in R
        PROVE  <<x, z>> \in R
    <3>1. G!Before(s, x, y) /\ G!Before(s, y, z)
      BY <1>5, <2>3
    <3>2. G!Before(s, x, z)
      BY <1>4, <3>1 DEF G!Before
    <3> QED
      BY <1>5, <3>2
  <2> QED
    BY <2>1, <2>2, <2>3 DEF Orders
<1>7. \A x \in all : Rank(all, R, x) = G!Place(s, all, x)
  <2> SUFFICES ASSUME NEW x \in all PROVE Rank(all, R, x) = G!Place(s, all, x)
    OBVIOUS
  <2>1. { y \in all : <<y, x>> \in R } = { y \in all : G!Before(s, y, x) }
    BY <1>5
  <2>2. Rank(all, R, x) = 1 + Cardinality({ y \in all : <<y, x>> \in R })
    BY Zenon DEF Rank
  <2>3. G!Place(s, all, x) = 1 + Cardinality({ y \in all : G!Before(s, y, x) })
    BY SameCardinality, Zenon DEF G!Place
  <2> QED
    BY <2>1, <2>2, <2>3, Zenon
<1> HIDE DEF R
<1>8. /\ \A x \in all : G!Place(s, all, x) \in 1 .. n
      /\ \A x, y \in all : G!Place(s, all, x) = G!Place(s, all, y) => x = y
      /\ \A k \in 1 .. n : \E x \in all : G!Place(s, all, x) = k
  <2>1. /\ \A x \in all : Rank(all, R, x) \in 1 .. n
        /\ \A x, y \in all : Rank(all, R, x) = Rank(all, R, y) => x = y
        /\ \A k \in 1 .. n : \E x \in all : Rank(all, R, x) = k
    <3>1. IsFiniteSet(all)
      BY <1>3
    <3> HIDE DEF n
    <3>2. /\ \A x \in all : Rank(all, R, x) \in 1 .. Cardinality(all)
          /\ \A x, y \in all : Rank(all, R, x) = Rank(all, R, y) => x = y
          /\ \A k \in 1 .. Cardinality(all) : \E x \in all : Rank(all, R, x) = k
      BY <1>6, <3>1, RankFacts
    <3> QED
      BY <3>2, Zenon DEF n
  <2> QED
    BY <1>7, <2>1
<1>9. CASE new = {}
  <2>1. G!Learned(b, near) = b
    BY <1>9 DEF G!Learned, new
  <2> QED
    BY <1>9, <2>1 DEF new
<1>10. CASE new # {}
  <2> DEFINE l == [k \in 1 .. n |-> CHOOSE x \in all : G!Place(s, all, x) = k]
  <2>1. G!Learned(b, near) = l
    <3>1. G!Learned(b, near) = [k \in 1 .. G!Cardinality(all) |-> CHOOSE x \in all : G!Place(s, all, x) = k]
      BY <1>10, Zenon DEF G!Learned, new, all, s
    <3> QED
      BY <3>1, SameCardinality, Zenon
  <2>2. \A k \in 1 .. n : l[k] \in all /\ G!Place(s, all, l[k]) = k
    <3> SUFFICES ASSUME NEW k \in 1 .. n PROVE l[k] \in all /\ G!Place(s, all, l[k]) = k
      OBVIOUS
    <3>1. \E x \in all : G!Place(s, all, x) = k
      BY <1>8
    <3> QED
      BY <3>1
  <2>3. n \in Nat
    BY <1>3, FS_CardinalityType
  <2>4. DOMAIN l = 1 .. n /\ l = [k \in 1 .. n |-> l[k]]
    OBVIOUS
  <2> HIDE DEF l, n
  <2>5. l \in Seq(G!Peer)
    <3>1. \A k \in 1 .. n : l[k] \in G!Peer
      BY <1>3, <2>2
    <3>2. l \in [1 .. n -> G!Peer]
      BY <2>4, <3>1, Zenon
    <3> QED
      BY <2>3, <3>2, SeqDef, Zenon
  <2>6. ASSUME NEW x \in all PROVE x \in G!Elements(l)
    <3>1. PICK k \in 1 .. n : k = G!Place(s, all, x)
      BY <1>8
    <3>2. l[k] = x
      BY <1>8, <2>2, <3>1
    <3> QED
      BY <2>4, <3>2 DEF G!Elements
  <2>7. G!Elements(l) \subseteq all
    BY <2>2, <2>4 DEF G!Elements
  <2> QED
    BY <2>1, <2>5, <2>6, <2>7 DEF all, new
<1> QED
  BY <1>9, <1>10

\* A changed rating leaves the other peers of the book as they were.
LEMMA RatedFacts ==
  ASSUME NEW b \in Seq(G!Peer), NEW s, NEW d \in Int
  PROVE  /\ G!Rated(b, s, d) \in Seq(G!Peer)
         /\ \A x \in G!Elements(G!Rated(b, s, d)) : \E y \in G!Elements(b) :
              x = y \/ (x.sid = s /\ y.sid = s /\ x.exp = G!Scaled(y.exp, d))
<1> DEFINE new(i) == IF b[i].sid = s THEN [b[i] EXCEPT !.exp = G!Scaled(@, d)] ELSE b[i]
<1>1. ASSUME NEW i \in DOMAIN b
      PROVE  /\ new(i) \in G!Peer
             /\ new(i) = b[i] \/ (new(i).sid = s /\ b[i].sid = s /\ new(i).exp = G!Scaled(b[i].exp, d))
  <2>0. b[i] \in G!Peer
    OBVIOUS
  <2>1. b[i] \in [sid : Nodes, exp : G!Exps]
    BY <2>0 DEF G!Peer
  <2>2. b[i].exp \in G!Exps
    BY <2>1
  <2>3. G!Scaled(b[i].exp, d) \in G!Exps
    BY <2>2, GossipFacts DEF G!Scaled, G!Exps
  <2> QED
    BY <2>1, <2>3 DEF G!Peer
<1>2. G!Rated(b, s, d) = [i \in DOMAIN b |-> new(i)]
  BY DEF G!Rated
<1> HIDE DEF new
<1>3. DOMAIN b = 1 .. Len(b) /\ Len(b) \in Nat
  OBVIOUS
<1>4. G!Rated(b, s, d) \in Seq(G!Peer)
  BY <1>1, <1>2, <1>3
<1>5. ASSUME NEW x \in G!Elements(G!Rated(b, s, d))
      PROVE  \E y \in G!Elements(b) : x = y \/ (x.sid = s /\ y.sid = s /\ x.exp = G!Scaled(y.exp, d))
  <2>1. PICK i \in DOMAIN b : x = new(i)
    BY <1>2 DEF G!Elements
  <2>2. b[i] \in G!Elements(b)
    BY DEF G!Elements
  <2> QED
    BY <1>1, <2>1, <2>2
<1> QED
  BY <1>4, <1>5

SearchType ==
  [pc : {"idle", "ask", "answered", "head"}, peer : Nodes, visited : SUBSET Nodes,
   todo : SUBSET Nodes, near : Seq(G!Peer), match : BOOLEAN]

LEMMA NoSearchFacts ==
  ASSUME NEW n \in Nodes
  PROVE  G!NoSearch \in SearchType
  BY DEF G!NoSearch, SearchType

LEMMA UsableFacts ==
  ASSUME NEW b \in Seq(G!Peer)
  PROVE  G!Usable(b) \in SUBSET Nodes
<1> SUFFICES ASSUME NEW i \in DOMAIN b PROVE b[i].sid \in Nodes
  BY DEF G!Usable
<1>1. b[i] \in G!Peer
  OBVIOUS
<1> QED
  BY <1>1 DEF G!Peer

\* A search, of which steps replace one or more fields.
Searching(p, m, v, l, near, match) ==
  [pc |-> p, peer |-> m, visited |-> v, todo |-> l, near |-> near, match |-> match]

LEMMA SearchingFacts ==
  ASSUME NEW h \in SearchType
  PROVE  h = Searching(h.pc, h.peer, h.visited, h.todo, h.near, h.match)
  BY DEF SearchType, Searching

Asking(h, p, m, v, l) == [h EXCEPT !.pc = p, !.peer = m, !.visited = v, !.todo = l]
Phase(h, p, l) == [h EXCEPT !.pc = p, !.near = l]
Ended(h, v, m) == [h EXCEPT !.visited = v, !.match = m]

LEMMA AskingFacts ==
  ASSUME NEW a, NEW b, NEW c, NEW d, NEW e, NEW f, NEW p, NEW m, NEW v, NEW l
  PROVE  Asking(Searching(a, b, c, d, e, f), p, m, v, l) = Searching(p, m, v, l, e, f)
<1>1. [Searching(a, b, c, d, e, f) EXCEPT !.pc = p] = Searching(p, b, c, d, e, f)
  BY DEF Searching
<1>2. [Searching(p, b, c, d, e, f) EXCEPT !.peer = m] = Searching(p, m, c, d, e, f)
  BY DEF Searching
<1>3. [Searching(p, m, c, d, e, f) EXCEPT !.visited = v] = Searching(p, m, v, d, e, f)
  BY DEF Searching
<1>4. [Searching(p, m, v, d, e, f) EXCEPT !.todo = l] = Searching(p, m, v, l, e, f)
  BY DEF Searching
<1> QED
  BY <1>1, <1>2, <1>3, <1>4, Zenon DEF Asking

LEMMA PhaseFacts ==
  ASSUME NEW a, NEW b, NEW c, NEW d, NEW e, NEW f, NEW p, NEW l
  PROVE  Phase(Searching(a, b, c, d, e, f), p, l) = Searching(p, b, c, d, l, f)
<1>1. [Searching(a, b, c, d, e, f) EXCEPT !.pc = p] = Searching(p, b, c, d, e, f)
  BY DEF Searching
<1>2. [Searching(p, b, c, d, e, f) EXCEPT !.near = l] = Searching(p, b, c, d, l, f)
  BY DEF Searching
<1> QED
  BY <1>1, <1>2, Zenon DEF Phase

LEMMA EndedFacts ==
  ASSUME NEW a, NEW b, NEW c, NEW d, NEW e, NEW f, NEW v, NEW m
  PROVE  Ended(Searching(a, b, c, d, e, f), v, m) = Searching(a, b, v, d, e, m)
<1>1. [Searching(a, b, c, d, e, f) EXCEPT !.visited = v] = Searching(a, b, v, d, e, f)
  BY DEF Searching
<1>2. [Searching(a, b, v, d, e, f) EXCEPT !.match = m] = Searching(a, b, v, d, e, m)
  BY DEF Searching
<1> QED
  BY <1>1, <1>2, Zenon DEF Ended

\* A step of a search replaces its phase and what it was told.
LEMMA PhaseChange ==
  ASSUME NEW g \in SearchType, NEW p \in {"answered", "head"}, NEW l \in Seq(G!Peer)
  PROVE  /\ Phase(g, p, l) \in SearchType
         /\ Phase(g, p, l).pc = p /\ Phase(g, p, l).near = l /\ Phase(g, p, l).peer = g.peer
<1> DEFINE h == Searching(p, g.peer, g.visited, g.todo, l, g.match)
<1>1. g = Searching(g.pc, g.peer, g.visited, g.todo, g.near, g.match)
  BY SearchingFacts
<1>2. Phase(Searching(g.pc, g.peer, g.visited, g.todo, g.near, g.match), p, l) = h
  BY PhaseFacts
<1>3. h \in SearchType /\ h.pc = p /\ h.near = l /\ h.peer = g.peer
  BY DEF Searching, SearchType
<1> HIDE DEF h
<1> QED
  BY <1>1, <1>2, <1>3

\* A search asks a node, or ends.
LEMMA GossipSearchOnFacts ==
  ASSUME DOMAIN search = Nodes, NEW n \in Nodes, NEW b \in Seq(G!Peer),
         NEW visited \in SUBSET Nodes, NEW left \in SUBSET Nodes, G!SearchOn(n, b, visited, left)
  PROVE  \E h \in SearchType : /\ search' = [search EXCEPT ![n] = h]
                               /\ h.pc \in {"idle", "ask"} /\ h.near = <<>>
<1> DEFINE next == G!Candidates(b, visited, left \ visited)
           nearest == CHOOSE s \in next : \A t \in next : Distance[s] <= Distance[t]
           ended == [G!NoSearch EXCEPT !.visited = visited]
           asks == [G!NoSearch EXCEPT !.pc = "ask", !.peer = nearest,
                      !.visited = visited \cup {nearest}, !.todo = next \ {nearest}]
<1>1. search' = [search EXCEPT ![n] = IF next = {} THEN ended ELSE asks]
  BY DEF G!SearchOn
<1>2. next \in SUBSET Nodes
  BY UsableFacts DEF G!Candidates
<1>3. ended \in SearchType /\ ended.pc = "idle" /\ ended.near = <<>>
  BY NoSearchFacts DEF SearchType, G!NoSearch
<1>4. ASSUME next # {} PROVE nearest \in next
  <2> HIDE DEF next
  <2> DEFINE D == { Distance[s] : s \in next }
  <2>1. D \in SUBSET Nat /\ D # {}
    BY <1>2, <1>4, GossipFacts
  <2>2. PICK d \in D : \A e \in D : d <= e
    <3> HIDE DEF D
    <3> QED
      BY <2>1, Least
  <2>3. \E s \in next : \A t \in next : Distance[s] <= Distance[t]
    BY <2>1, <2>2
  <2> QED
    BY <2>3
<1>5. ASSUME next # {} PROVE asks \in SearchType /\ asks.pc = "ask" /\ asks.near = <<>>
  <2>1. PICK s \in Nodes : s = nearest
    BY <1>2, <1>4, <1>5
  <2>2. asks = Searching("ask", nearest, visited \cup {nearest}, next \ {nearest}, <<>>, FALSE)
    <3>1. G!NoSearch = Searching("idle", CHOOSE k \in Nodes : TRUE, {}, {}, <<>>, FALSE)
      BY Zenon DEF G!NoSearch, Searching
    <3>2. asks = Asking(G!NoSearch, "ask", nearest, visited \cup {nearest}, next \ {nearest})
      BY Zenon DEF Asking
    <3> HIDE DEF nearest, next, asks
    <3> DEFINE m == CHOOSE k \in Nodes : TRUE
    <3>3. PICK e, f : e = <<>> /\ f = FALSE
      OBVIOUS
    <3> HIDE DEF m
    <3>4. Asking(Searching("idle", m, {}, {}, e, f), "ask", nearest,
                 visited \cup {nearest}, next \ {nearest})
            = Searching("ask", nearest, visited \cup {nearest}, next \ {nearest}, e, f)
      BY AskingFacts
    <3> QED
      BY <3>1, <3>2, <3>3, <3>4, Zenon DEF m
  <2> HIDE DEF nearest, next, asks
  <2> QED
    BY <1>2, <2>1, <2>2 DEF SearchType, Searching
<1> HIDE DEF next, nearest, ended, asks
<1>6. CASE next = {}
  BY <1>1, <1>3, <1>6
<1>7. CASE next # {}
  BY <1>1, <1>5, <1>7
<1> QED
  BY <1>6, <1>7

-----------------------------------------------------------------------------
\* The records of l are rated as the requests of somebody went.
Earned(l, s, f) ==
  \A r \in G!Elements(l) : /\ r.exp > G!Initial => r.sid \in s
                           /\ r.exp < G!Initial => r.sid \in f

\* One is asked whether it has the magnet only after it has answered.
Gossiped ==
  /\ book \in [Nodes -> Seq(G!Peer)] /\ search \in [Nodes -> SearchType]
  /\ \A n \in Nodes : /\ search[n].pc = "head" => search[n].peer \in served
                      /\ Earned(book[n], served, failed)
                      /\ Earned(search[n].near, served, failed)

LEMMA EarnedEmpty == \A s, f : Earned(<<>>, s, f)
  BY DEF Earned, G!Elements

LEMMA EarnedLater ==
  ASSUME NEW l, NEW s, NEW f, NEW t, NEW g, s \subseteq t, f \subseteq g, Earned(l, s, f)
  PROVE  Earned(l, t, g)
  BY DEF Earned

LEMMA LearnedEarned ==
  ASSUME NEW b \in Seq(G!Peer), NEW near \in Seq(G!Peer), NEW s, NEW f,
         Earned(b, s, f), Earned(near, s, f)
  PROVE  Earned(G!Learned(b, near), s, f)
<1>1. G!Elements(G!Learned(b, near)) \subseteq G!Elements(b) \cup G!Elements(near)
  BY LearnedFacts DEF G!Unknown
<1> QED
  BY <1>1 DEF Earned

\* A rating goes up for an answer and down for none.
LEMMA RatedEarned ==
  ASSUME NEW b \in Seq(G!Peer), NEW p, NEW d \in Int, NEW s, NEW f, Earned(b, s, f),
         d > 0 => p \in s, d < 0 => p \in f
  PROVE  Earned(G!Rated(b, p, d), s, f)
<1> SUFFICES ASSUME NEW x \in G!Elements(G!Rated(b, p, d))
             PROVE  /\ x.exp > G!Initial => x.sid \in s
                    /\ x.exp < G!Initial => x.sid \in f
  BY DEF Earned
<1>1. PICK y \in G!Elements(b) :
        x = y \/ (x.sid = p /\ y.sid = p /\ x.exp = G!Scaled(y.exp, d))
  BY RatedFacts
<1>2. (y.exp > G!Initial => y.sid \in s) /\ (y.exp < G!Initial => y.sid \in f)
  BY DEF Earned
<1>3. CASE x = y
  BY <1>2, <1>3
<1>4. CASE x.sid = p /\ y.sid = p /\ x.exp = G!Scaled(y.exp, d)
  <2>1. y.exp \in Int /\ MinExp <= y.exp /\ y.exp <= MaxExp
    <3>1. y \in G!Peer
      BY DEF G!Elements
    <3> QED
      BY <3>1, GossipFacts DEF G!Peer, G!Exps
  <2>2. x.exp > G!Initial => d > 0 \/ y.exp > G!Initial
    BY <1>4, <2>1, GossipFacts DEF G!Scaled, G!Initial
  <2>3. x.exp < G!Initial => d < 0 \/ y.exp < G!Initial
    BY <1>4, <2>1, GossipFacts DEF G!Scaled, G!Initial
  <2> QED
    BY <1>2, <1>4, <2>2, <2>3
<1> QED
  BY <1>1, <1>3, <1>4

LEMMA HotEarned ==
  ASSUME NEW b \in Seq(G!Peer), NEW s, NEW f, Earned(b, s, f), NEW k \in 0 .. Len(b)
  PROVE  SubSeq(b, 1, k) \in Seq(G!Peer) /\ Earned(SubSeq(b, 1, k), s, f)
<1>1. SubSeq(b, 1, k) \in Seq(G!Peer)
  OBVIOUS
<1>2. G!Elements(SubSeq(b, 1, k)) \subseteq G!Elements(b)
  <2> SUFFICES ASSUME NEW i \in DOMAIN SubSeq(b, 1, k) PROVE SubSeq(b, 1, k)[i] \in G!Elements(b)
    BY DEF G!Elements
  <2>1. i \in 1 .. k /\ SubSeq(b, 1, k)[i] = b[i] /\ i \in DOMAIN b
    OBVIOUS
  <2> QED
    BY <2>1 DEF G!Elements
<1> QED
  BY <1>1, <1>2 DEF Earned

\* What a step of node n has to do to keep the invariant.
LEMMA GossipStep ==
  ASSUME Gossiped, NEW n \in Nodes, NEW b \in Seq(G!Peer), NEW h \in SearchType,
         book' = [book EXCEPT ![n] = b], search' = [search EXCEPT ![n] = h],
         served \subseteq served', failed \subseteq failed',
         h.pc = "head" => h.peer \in served',
         Earned(b, served', failed'), Earned(h.near, served', failed')
  PROVE  Gossiped'
<1>1. book' \in [Nodes -> Seq(G!Peer)] /\ search' \in [Nodes -> SearchType]
  BY DEF Gossiped
<1>2. ASSUME NEW m \in Nodes
      PROVE  /\ search'[m].pc = "head" => search'[m].peer \in served'
             /\ Earned(book'[m], served', failed')
             /\ Earned(search'[m].near, served', failed')
  <2>1. CASE m = n
    BY <2>1 DEF Gossiped
  <2>2. CASE m # n
    <3>1. book'[m] = book[m] /\ search'[m] = search[m]
      BY <2>2 DEF Gossiped
    <3>2. Earned(book[m], served', failed') /\ Earned(search[m].near, served', failed')
      BY EarnedLater DEF Gossiped
    <3> QED
      BY <3>1, <3>2 DEF Gossiped
  <2> QED
    BY <2>1, <2>2
<1> QED
  BY <1>1, <1>2 DEF Gossiped

LEMMA HearKeeps ==
  ASSUME Gossiped, NEW n \in Nodes, NEW s \in Nodes, G!Hear(n, s)
  PROVE  Gossiped'
<1> DEFINE new == <<[sid |-> s, exp |-> G!Initial]>>
           b == G!Learned(book[n], new)
<1>1. new \in Seq(G!Peer) /\ Earned(new, served, failed)
  <2>1. [sid |-> s, exp |-> G!Initial] \in G!Peer
    BY GossipFacts DEF G!Peer, G!Exps, G!Initial
  <2>2. new \in Seq(G!Peer)
    BY <2>1
  <2>3. \A r \in G!Elements(new) : r.exp = G!Initial
    BY DEF G!Elements
  <2>4. G!Initial \in Int
    BY DEF G!Initial
  <2> HIDE DEF new
  <2> QED
    BY <2>2, <2>3, <2>4 DEF Earned
<1>2. book[n] \in Seq(G!Peer) /\ Earned(book[n], served, failed) /\ search[n] \in SearchType
      /\ Earned(search[n].near, served, failed) /\ DOMAIN search = Nodes
      /\ (search[n].pc = "head" => search[n].peer \in served)
  BY DEF Gossiped
<1>3. book' = [book EXCEPT ![n] = b] /\ UNCHANGED <<search, searches, served, failed>>
  BY DEF G!Hear
<1> HIDE DEF new
<1>4. b \in Seq(G!Peer) /\ Earned(b, served, failed)
  BY <1>1, <1>2, LearnedFacts, LearnedEarned
<1>5. search' = [search EXCEPT ![n] = search[n]]
  BY <1>3 DEF Gossiped
<1> HIDE DEF b
<1> QED
  BY <1>2, <1>3, <1>4, <1>5, GossipStep

\* A search that goes on asks or ends, and keeps nothing of what it was told.
LEMMA SearchOnKeeps ==
  ASSUME Gossiped, NEW n \in Nodes, NEW b \in Seq(G!Peer), Earned(b, served', failed'),
         book' = [book EXCEPT ![n] = b], served' = served, failed \subseteq failed',
         NEW visited \in SUBSET Nodes, NEW left \in SUBSET Nodes, G!SearchOn(n, b, visited, left)
  PROVE  Gossiped'
<1>1. DOMAIN search = Nodes
  BY DEF Gossiped
<1>2. PICK h \in SearchType : /\ search' = [search EXCEPT ![n] = h]
                              /\ h.pc \in {"idle", "ask"} /\ h.near = <<>>
  BY <1>1, GossipSearchOnFacts
<1>3. Earned(h.near, served', failed')
  BY <1>2, EarnedEmpty
<1>4. h.pc # "head"
  BY <1>2
<1> QED
  BY <1>2, <1>3, <1>4, GossipStep

LEMMA SameBook ==
  ASSUME Gossiped, NEW n \in Nodes
  PROVE  book = [book EXCEPT ![n] = book[n]]
  BY DEF Gossiped

LEMMA StartSearchKeeps ==
  ASSUME Gossiped, NEW n \in Nodes, G!StartSearch(n)
  PROVE  Gossiped'
<1>1. book[n] \in Seq(G!Peer) /\ Earned(book[n], served, failed)
  BY DEF Gossiped
<1>2. G!SearchOn(n, book[n], {}, G!Usable(book[n])) /\ UNCHANGED <<book, served, failed>>
  BY DEF G!StartSearch
<1>3. G!Usable(book[n]) \in SUBSET Nodes
  BY <1>1, UsableFacts
<1> QED
  BY <1>1, <1>2, <1>3, SameBook, SearchOnKeeps

LEMMA AnswerKeeps ==
  ASSUME Gossiped, NEW n \in Nodes, G!Answer(n)
  PROVE  Gossiped'
<1> DEFINE l == G!NearestPeers(search[n].peer)
<1>1. search[n] \in SearchType /\ search[n].peer \in Nodes
  BY DEF Gossiped, SearchType
<1>2. l \in Seq(G!Peer) /\ Earned(l, served, failed)
  <2>1. PICK c : c = book[search[n].peer]
    OBVIOUS
  <2>2. c \in Seq(G!Peer) /\ Earned(c, served, failed)
    BY <1>1, <2>1 DEF Gossiped
  <2>3. PICK k \in 0 .. Len(c) : l = SubSeq(c, 1, k)
    BY <2>1, <2>2, GossipFacts DEF G!NearestPeers, G!HotPeers
  <2> QED
    BY <2>2, <2>3, HotEarned
<1>3. /\ search' = [search EXCEPT ![n].pc = "answered", ![n].near = l]
      /\ UNCHANGED <<book, searches, served, failed>>
  BY DEF G!Answer
<1> HIDE DEF l
<1> DEFINE h == Phase(search[n], "answered", l)
<1>4. /\ search' = [search EXCEPT ![n] = h]
      /\ h \in SearchType /\ h.pc = "answered" /\ h.near = l
  <2>1. search' = [search EXCEPT ![n] = h]
    BY <1>3, Zenon DEF Phase
  <2>2. h \in SearchType /\ h.pc = "answered" /\ h.near = l
    BY <1>1, <1>2, PhaseChange
  <2> QED
    BY <2>1, <2>2
<1> HIDE DEF h
<1>5. book[n] \in Seq(G!Peer) /\ Earned(book[n], served, failed)
  BY DEF Gossiped
<1> QED
  BY <1>2, <1>3, <1>4, <1>5, SameBook, GossipStep

LEMMA ReceiveKeeps ==
  ASSUME Gossiped, NEW n \in Nodes, G!Receive(n)
  PROVE  Gossiped'
<1> DEFINE p == search[n].peer
           b == G!Adopted(book[n], p, search[n].near)
<1>1. /\ search[n] \in SearchType /\ search[n].near \in Seq(G!Peer)
      /\ Earned(search[n].near, served, failed)
      /\ book[n] \in Seq(G!Peer) /\ Earned(book[n], served, failed)
  BY DEF Gossiped, SearchType
<1>2. /\ book' = [book EXCEPT ![n] = b] /\ served' = served \cup {p} /\ failed' = failed
      /\ search' = [search EXCEPT ![n].pc = "head", ![n].near = <<>>]
  BY DEF G!Receive
<1>3. b \in Seq(G!Peer) /\ Earned(b, served', failed')
  <2>1. served \subseteq served' /\ failed \subseteq failed' /\ p \in served'
    BY <1>2
  <2>2. Earned(book[n], served', failed') /\ Earned(search[n].near, served', failed')
    BY <1>1, <2>1, EarnedLater
  <2> HIDE DEF p
  <2>3. G!Rated(book[n], p, 1) \in Seq(G!Peer)
    BY <1>1, RatedFacts
  <2>4. Earned(G!Rated(book[n], p, 1), served', failed')
    BY <1>1, <2>1, <2>2, RatedEarned
  <2> QED
    BY <1>1, <2>2, <2>3, <2>4, LearnedFacts, LearnedEarned DEF G!Adopted
<1> DEFINE h == Phase(search[n], "head", <<>>)
<1>4. /\ search' = [search EXCEPT ![n] = h]
      /\ h \in SearchType /\ h.pc = "head" /\ h.near = <<>> /\ h.peer = p
  <2>1. search' = [search EXCEPT ![n] = h]
    BY <1>2, Zenon DEF Phase
  <2>2. PICK e \in Seq(G!Peer) : e = <<>>
    <3>1. <<>> \in Seq(G!Peer)
      OBVIOUS
    <3> QED
      BY <3>1, Zenon
  <2>3. /\ Phase(search[n], "head", e) \in SearchType /\ Phase(search[n], "head", e).pc = "head"
        /\ Phase(search[n], "head", e).near = e /\ Phase(search[n], "head", e).peer = search[n].peer
    <3>1. PICK g \in SearchType : g = search[n]
      BY <1>1
    <3>2. /\ Phase(g, "head", e) \in SearchType /\ Phase(g, "head", e).pc = "head"
          /\ Phase(g, "head", e).near = e /\ Phase(g, "head", e).peer = g.peer
      BY PhaseChange
    <3> QED
      BY <3>1, <3>2
  <2> QED
    BY <2>1, <2>2, <2>3
<1> HIDE DEF h
<1>5. Earned(h.near, served', failed')
  BY <1>4, EarnedEmpty
<1> HIDE DEF b, p
<1>6. served \subseteq served' /\ failed \subseteq failed' /\ h.peer \in served'
  BY <1>2, <1>4
<1> QED
  BY <1>2, <1>3, <1>4, <1>5, <1>6, GossipStep

LEMMA PeerFailsKeeps ==
  ASSUME Gossiped, NEW n \in Nodes, G!PeerFails(n)
  PROVE  Gossiped'
<1> DEFINE p == search[n].peer
           b == G!Rated(book[n], p, -2)
<1>1. /\ search[n] \in SearchType /\ search[n].visited \in SUBSET Nodes
      /\ search[n].todo \in SUBSET Nodes
      /\ book[n] \in Seq(G!Peer) /\ Earned(book[n], served, failed)
  BY DEF Gossiped, SearchType
<1>2. /\ book' = [book EXCEPT ![n] = b] /\ served' = served /\ failed' = failed \cup {p}
      /\ G!SearchOn(n, b, search[n].visited, search[n].todo)
  BY DEF G!PeerFails
<1>3. failed \subseteq failed' /\ p \in failed'
  BY <1>2
<1> HIDE DEF p
<1>4. b \in Seq(G!Peer) /\ Earned(b, served', failed')
  <2>1. Earned(book[n], served', failed')
    BY <1>1, <1>2, <1>3, EarnedLater
  <2>2. -2 \in Int /\ ~ (-2 > 0)
    OBVIOUS
  <2> QED
    BY <1>1, <1>3, <2>1, <2>2, RatedFacts, RatedEarned
<1> HIDE DEF b
<1> QED
  BY <1>1, <1>2, <1>3, <1>4, SearchOnKeeps

LEMMA HasMagnetKeeps ==
  ASSUME Gossiped, NEW n \in Nodes, G!HasMagnet(n)
  PROVE  Gossiped'
<1> DEFINE p == search[n].peer
           b == G!Rated(book[n], p, 1)
           h == [G!NoSearch EXCEPT !.visited = search[n].visited, !.match = TRUE]
<1>1. /\ search[n] \in SearchType /\ search[n].visited \in SUBSET Nodes /\ p \in served
      /\ book[n] \in Seq(G!Peer) /\ Earned(book[n], served, failed)
  BY DEF Gossiped, SearchType, G!HasMagnet
<1>2. /\ book' = [book EXCEPT ![n] = b] /\ served' = served /\ failed' = failed
      /\ search' = [search EXCEPT ![n] = h]
  BY DEF G!HasMagnet
<1>3. h \in SearchType /\ h.pc = "idle" /\ h.near = <<>>
  <2>1. G!NoSearch \in SearchType /\ G!NoSearch.pc = "idle" /\ G!NoSearch.near = <<>>
    <3>1. G!NoSearch.pc = "idle" /\ G!NoSearch.near = <<>>
      BY DEF G!NoSearch
    <3> QED
      BY <3>1, NoSearchFacts
  <2>2. PICK m \in BOOLEAN : m = TRUE
    OBVIOUS
  <2>3. h = Ended(G!NoSearch, search[n].visited, m)
    BY <2>2 DEF Ended
  <2>4. PICK g \in SearchType : g = G!NoSearch
    BY <2>1
  <2>5. Ended(Searching(g.pc, g.peer, g.visited, g.todo, g.near, g.match), search[n].visited, m)
          = Searching(g.pc, g.peer, search[n].visited, g.todo, g.near, m)
    BY EndedFacts
  <2>6. g = Searching(g.pc, g.peer, g.visited, g.todo, g.near, g.match)
    BY SearchingFacts
  <2> HIDE DEF h
  <2>7. h = Searching(g.pc, g.peer, search[n].visited, g.todo, g.near, m)
    BY <2>3, <2>4, <2>5, <2>6
  <2> QED
    BY <1>1, <2>1, <2>4, <2>7 DEF Searching, SearchType
<1> HIDE DEF p, h
<1>4. b \in Seq(G!Peer) /\ Earned(b, served', failed')
  BY <1>1, <1>2, RatedFacts, RatedEarned
<1>5. Earned(h.near, served', failed') /\ h.pc # "head"
  BY <1>3, EarnedEmpty
<1> HIDE DEF b
<1> QED
  BY <1>2, <1>3, <1>4, <1>5, GossipStep

LEMMA HasNoMagnetKeeps ==
  ASSUME Gossiped, NEW n \in Nodes, G!HasNoMagnet(n)
  PROVE  Gossiped'
<1>1. /\ search[n] \in SearchType /\ search[n].visited \in SUBSET Nodes
      /\ search[n].todo \in SUBSET Nodes
      /\ book[n] \in Seq(G!Peer) /\ Earned(book[n], served, failed)
  BY DEF Gossiped, SearchType
<1>2. /\ G!SearchOn(n, book[n], search[n].visited, search[n].todo)
      /\ UNCHANGED <<book, searches, served, failed>>
  BY DEF G!HasNoMagnet
<1> QED
  BY <1>1, <1>2, SameBook, SearchOnKeeps

LEMMA GossipedInit == G!Init => Gossiped
<1> SUFFICES ASSUME G!Init PROVE Gossiped
  OBVIOUS
<1>1. G!NoSearch.pc = "idle" /\ G!NoSearch.near = <<>>
  BY DEF G!NoSearch
<1>2. ASSUME NEW n \in Nodes
      PROVE  /\ book[n] = <<>> /\ search[n] = G!NoSearch
             /\ G!NoSearch \in SearchType
  BY NoSearchFacts DEF G!Init
<1>3. book \in [Nodes -> Seq(G!Peer)] /\ search \in [Nodes -> SearchType]
  BY <1>2 DEF G!Init
<1>4. ASSUME NEW n \in Nodes
      PROVE  /\ search[n].pc = "head" => search[n].peer \in served
             /\ Earned(book[n], served, failed)
             /\ Earned(search[n].near, served, failed)
  BY <1>1, <1>2, EarnedEmpty
<1> QED
  BY <1>3, <1>4 DEF Gossiped

LEMMA GossipedStutters ==
  ASSUME Gossiped, UNCHANGED G!vars
  PROVE  Gossiped'
  BY DEF Gossiped, Earned, G!vars

\* RatingsEarned: a rating that travels was earned with somebody.  What a node tells is
\* what it has, and what it has was earned, so the whole network has to be looked at
\* at once.
THEOREM Reputation == G!Spec => []RatingsEarned
<1>1. Gossiped /\ [G!Next]_(G!vars) => Gossiped'
  <2> SUFFICES ASSUME Gossiped, [G!Next]_(G!vars) PROVE Gossiped'
    OBVIOUS
  <2>1. ASSUME NEW n \in Nodes, NEW s \in Nodes, G!Hear(n, s) PROVE Gossiped'
    BY <2>1, HearKeeps
  <2>2. ASSUME NEW n \in Nodes, G!StartSearch(n) PROVE Gossiped'
    BY <2>2, StartSearchKeeps
  <2>3. ASSUME NEW n \in Nodes, G!Answer(n) PROVE Gossiped'
    BY <2>3, AnswerKeeps
  <2>4. ASSUME NEW n \in Nodes, G!Receive(n) PROVE Gossiped'
    BY <2>4, ReceiveKeeps
  <2>5. ASSUME NEW n \in Nodes, G!PeerFails(n) PROVE Gossiped'
    BY <2>5, PeerFailsKeeps
  <2>6. ASSUME NEW n \in Nodes, G!HasMagnet(n) PROVE Gossiped'
    BY <2>6, HasMagnetKeeps
  <2>7. ASSUME NEW n \in Nodes, G!HasNoMagnet(n) PROVE Gossiped'
    BY <2>7, HasNoMagnetKeeps
  <2>8. CASE UNCHANGED G!vars
    BY <2>8, GossipedStutters
  <2> QED
    BY <2>1, <2>2, <2>3, <2>4, <2>5, <2>6, <2>7, <2>8 DEF G!Next, G!SearchStep
<1>2. Gossiped => RatingsEarned
  BY DEF Gossiped, Earned, RatingsEarned, G!RatingsEarned
<1> QED
  BY <1>1, <1>2, GossipedInit, PTL DEF G!Spec

-----------------------------------------------------------------------------
(* The stand-alone client.                                                  *)

LEMMA ClientFacts ==
  /\ PeerDistance \in [Sids -> Nat]
  /\ \A s, t \in Sids : PeerDistance[s] = PeerDistance[t] => s = t
  /\ peers_count \in Nat \ {0} /\ min_peers_count \in Nat /\ max_peer_count \in Nat
  /\ LowExp \in Int /\ HighExp \in Int /\ LowExp <= -1 /\ -1 <= HighExp
  /\ Seeders \cap Liars = {}
  BY PartsAssumption DEF C!ClientAssumption

\* What a step leaves of the heap: the service ids of its objects.
SameSids(o, q) ==
  /\ q \in Seq(C!Peer) /\ Len(o) <= Len(q)
  /\ \A i \in 1 .. Len(o) : q[i].sid = o[i].sid

\* List l of objects of heap o has each once, and dictionary p has them under their
\* service ids.
Collected(o, p, l) ==
  /\ o \in Seq(C!Peer) /\ p \in [Sids -> Nat]
  /\ l \in Seq(1 .. Len(o))
  /\ \A i, j \in 1 .. Len(l) : l[i] = l[j] => i = j
  /\ \A i \in 1 .. Len(l) : p[o[l[i]].sid] = l[i]

\* List l of objects of heap o goes from near to far.
NearFirst(o, l) ==
  /\ l \in Seq(1 .. Len(o))
  /\ \A i, j \in 1 .. Len(l) : i < j => PeerDistance[o[l[i]].sid] < PeerDistance[o[l[j]].sid]

LEMMA SidFacts ==
  ASSUME NEW o \in Seq(C!Peer), NEW i \in 1 .. Len(o)
  PROVE  o[i] \in C!Peer /\ o[i].sid \in Sids /\ PeerDistance[o[i].sid] \in Nat
<1>1. o[i] \in C!Peer
  OBVIOUS
<1> QED
  BY <1>1, ClientFacts DEF C!Peer

LEMMA NearFirstLater ==
  ASSUME NEW o, NEW q, SameSids(o, q), NEW l, NearFirst(o, l), Len(o) \in Nat
  PROVE  NearFirst(q, l)
<1>1. Len(q) \in Nat /\ Len(o) <= Len(q) /\ 1 .. Len(o) \subseteq 1 .. Len(q)
  BY DEF SameSids
<1>2. l \in Seq(1 .. Len(q)) /\ \A i \in 1 .. Len(l) : l[i] \in 1 .. Len(o)
  BY <1>1 DEF NearFirst
<1> QED
  BY <1>2 DEF NearFirst, SameSids

\* PeerCollection.add keeps the collection in order.
LEMMA CollectedAdd ==
  ASSUME NEW s \in Sids, Collected(obj, peers, peers_by_rating), C!Add(s)
  PROVE  Collected(obj', peers', peers_by_rating') /\ SameSids(obj, obj')
<1> DEFINE l == peers_by_rating
           i == Len(obj) + 1
           n == Len(l) + 1
           e == C!Excess(n)
           a == Append(l, i)
           added == [peers EXCEPT ![s] = i]
<1>1. obj \in Seq(C!Peer) /\ peers \in [Sids -> Nat] /\ l \in Seq(1 .. Len(obj)) /\ peers[s] = 0
  BY DEF Collected, C!Add, C!Known
<1>2. /\ obj' \in Seq(C!Peer) /\ Len(obj') = i /\ obj'[i].sid = s /\ i \in Nat /\ i # 0
      /\ \A j \in 1 .. Len(obj) : obj'[j] = obj[j]
  <2>1. obj' = Append(obj, [sid |-> s, exp |-> C!Initial])
    BY DEF C!Add
  <2>2. [sid |-> s, exp |-> C!Initial] \in C!Peer
    BY ClientFacts DEF C!Peer, C!Exps, C!Initial
  <2> QED
    BY <1>1, <2>1, <2>2
<1>3. PICK sorted \in C!StableSorts(obj', a) :
        /\ peers' = [t \in Sids |-> IF added[t] \in { sorted[k] : k \in 1 .. e } THEN 0 ELSE added[t]]
        /\ peers_by_rating' = SubSeq(sorted, e + 1, n)
  <2>1. C!AddPeer(obj', i)
    BY DEF C!Add
  <2>2. ~C!Known(obj'[i].sid) /\ obj'[i].sid = s
    BY <1>1, <1>2 DEF C!Known
  <2> QED
    BY <2>1, <2>2 DEF C!AddPeer
<1>4. /\ n \in Nat /\ Len(l) \in Nat /\ Len(a) = n /\ DOMAIN a = 1 .. n
      /\ \A k \in 1 .. n : a[k] = IF k = n THEN i ELSE l[k]
      /\ \A k \in 1 .. Len(l) : l[k] \in 1 .. Len(obj)
  BY <1>1, <1>2
<1>5. e \in 0 .. n
  BY <1>4, ClientFacts DEF C!Excess
<1>6. /\ \A k \in 1 .. n : sorted[k] = i \/ \E j \in 1 .. Len(l) : sorted[k] = l[j]
      /\ \A j, k \in 1 .. n : j # k => sorted[j] # sorted[k]
  <2>1. sorted \in [1 .. n -> C!Elements(a)] /\ C!IsStableSort(obj', a, sorted)
    BY <1>3, <1>4 DEF C!StableSorts
  <2> HIDE DEF a, l, i
  <2>2. \A j, k \in 1 .. n : j < k => sorted[j] # sorted[k]
    BY <2>1 DEF C!IsStableSort
  <2>3. \A x \in C!Elements(a) : x = i \/ \E j \in 1 .. Len(l) : x = l[j]
    BY <1>4 DEF C!Elements, n
  <2> QED
    BY <1>4, <2>1, <2>2, <2>3
<1>7. ASSUME NEW k \in 1 .. n
      PROVE  /\ sorted[k] \in 1 .. i /\ obj'[sorted[k]].sid \in Sids
             /\ added[obj'[sorted[k]].sid] = sorted[k]
  <2>1. CASE sorted[k] = i
    BY <1>1, <1>2, <2>1
  <2>2. CASE sorted[k] # i
    <3>1. PICK j \in 1 .. Len(l) : sorted[k] = l[j]
      BY <1>6, <2>2
    <3>2. /\ l[j] \in 1 .. Len(obj) /\ peers[obj[l[j]].sid] = l[j]
          /\ obj'[l[j]].sid = obj[l[j]].sid
      BY <1>2, <1>4 DEF Collected
    <3>3. obj[l[j]].sid \in Sids /\ obj[l[j]].sid # s
      BY <1>1, <3>2, SidFacts
    <3> QED
      BY <1>1, <3>1, <3>2, <3>3
  <2> QED
    BY <2>1, <2>2
<1> HIDE DEF added, a, l, e, n, i
<1>8. /\ peers_by_rating' \in Seq(1 .. i) /\ Len(peers_by_rating') = n - e
      /\ \A k \in 1 .. n - e : peers_by_rating'[k] = sorted[e + k]
  <2>1. e + 1 \in Int /\ n \in Int /\ \A k \in (e + 1) .. n : sorted[k] \in 1 .. i
    BY <1>4, <1>5, <1>7
  <2>2. /\ SubSeq(sorted, e + 1, n) \in Seq(1 .. i)
        /\ Len(SubSeq(sorted, e + 1, n)) = IF e + 1 <= n THEN n - (e + 1) + 1 ELSE 0
        /\ \A k \in 1 .. n - (e + 1) + 1 : SubSeq(sorted, e + 1, n)[k] = sorted[e + 1 + k - 1]
    BY <2>1, SubSeqProperties
  <2>3. n - (e + 1) + 1 = n - e /\ \A k \in 1 .. n - e : e + 1 + k - 1 = e + k
    BY <1>4, <1>5
  <2>4. \A k \in 1 .. n - e : SubSeq(sorted, e + 1, n)[k] = sorted[e + k]
    BY <2>2, <2>3
  <2>5. Len(SubSeq(sorted, e + 1, n)) = n - e
    BY <1>4, <1>5, <2>2
  <2> QED
    BY <1>3, <2>2, <2>4, <2>5
<1>9. ASSUME NEW k \in 1 .. n - e
      PROVE  peers'[obj'[peers_by_rating'[k]].sid] = peers_by_rating'[k]
  <2>1. PICK m \in 1 .. n : m = e + k /\ m > e
    BY <1>4, <1>5
  <2>2. sorted[m] \notin { sorted[j] : j \in 1 .. e }
    BY <1>4, <1>5, <1>6, <2>1
  <2>3. peers'[obj'[sorted[m]].sid] = sorted[m]
    BY <1>3, <1>7, <2>2
  <2> QED
    BY <1>8, <2>1, <2>3
<1>10. ASSUME NEW j \in 1 .. n - e, NEW k \in 1 .. n - e, j # k
       PROVE  peers_by_rating'[j] # peers_by_rating'[k]
  <2>1. e + j \in 1 .. n /\ e + k \in 1 .. n /\ e + j # e + k
    BY <1>4, <1>5, <1>10
  <2> QED
    BY <1>6, <1>8, <2>1
<1>11. peers' \in [Sids -> Nat]
  BY <1>1, <1>2, <1>3 DEF added
<1>12. SameSids(obj, obj')
  BY <1>1, <1>2 DEF SameSids, i
<1> QED
  BY <1>2, <1>8, <1>9, <1>10, <1>11, <1>12 DEF Collected

\* nearest() has an order to return, and returns it.
LEMMA ClientNearest ==
  ASSUME Collected(obj, peers, peers_by_rating)
  PROVE  NearFirst(obj, C!Nearest) /\ Len(C!Nearest) = Len(peers_by_rating)
<1> DEFINE S == C!InBook
           n == Len(peers_by_rating)
           R == { q \in S \X S : PeerDistance[obj[q[1]].sid] < PeerDistance[obj[q[2]].sid] }
           Sorted(l) == \A i, j \in DOMAIN l : i < j => PeerDistance[obj[l[i]].sid] < PeerDistance[obj[l[j]].sid]
<1>1. /\ obj \in Seq(C!Peer) /\ Len(obj) \in Nat /\ n \in Nat /\ DOMAIN peers_by_rating = 1 .. n
      /\ S = { peers_by_rating[k] : k \in 1 .. n } /\ S \subseteq 1 .. Len(obj)
  BY DEF Collected, C!InBook, C!Elements
<1>2. IsFiniteSet(S) /\ Cardinality(S) = n
  <2>1. peers_by_rating \in Bijection(1 .. n, S)
    <3>1. peers_by_rating \in [1 .. n -> S] /\ \A x \in S : \E k \in 1 .. n : peers_by_rating[k] = x
      BY <1>1 DEF Collected
    <3> QED
      BY <3>1 DEF Collected, Bijection, Injection, Surjection, IsInjective
  <2>2. ExistsBijection(1 .. n, S)
    BY <2>1 DEF ExistsBijection
  <2>3. IsFiniteSet(1 .. n) /\ Cardinality(1 .. n) = n
    <3>1. /\ IsFiniteSet(1 .. n)
          /\ Cardinality(1 .. n) = IF 1 > n THEN 0 ELSE n - 1 + 1
      <4> HIDE DEF n
      <4>1. n \in Int /\ 1 \in Int
        BY <1>1
      <4> QED
        BY <4>1, FS_Interval
    <3> QED
      BY <1>1, <3>1
  <2> QED
    BY <2>2, <2>3, FS_Bijection
<1>3. \A x \in S : obj[x].sid \in Sids /\ PeerDistance[obj[x].sid] \in Nat
  BY <1>1, SidFacts
<1>4. \A x, y \in S : x # y => PeerDistance[obj[x].sid] # PeerDistance[obj[y].sid]
  <2> SUFFICES ASSUME NEW x \in S, NEW y \in S, x # y PROVE obj[x].sid # obj[y].sid
    BY <1>3, ClientFacts
  <2>1. peers[obj[x].sid] = x /\ peers[obj[y].sid] = y
    BY <1>1 DEF Collected
  <2> QED
    BY <2>1
<1> HIDE DEF S, n
<1>5. \A x, y \in S : <<x, y>> \in R <=> PeerDistance[obj[x].sid] < PeerDistance[obj[y].sid]
  OBVIOUS
<1>6. Orders(R, S)
  <2> HIDE DEF R
  <2> QED
    BY <1>3, <1>4, <1>5 DEF Orders
<1> HIDE DEF R
<1>7. /\ \A x, y \in S : <<x, y>> \in R => Rank(S, R, x) < Rank(S, R, y)
      /\ \A x \in S : Rank(S, R, x) \in 1 .. Cardinality(S)
      /\ \A k \in 1 .. Cardinality(S) : \E x \in S : Rank(S, R, x) = k
  BY <1>2, <1>6, RankFacts
<1> DEFINE g == [k \in 1 .. n |-> CHOOSE x \in S : Rank(S, R, x) = k]
<1>8. \A k \in 1 .. n : g[k] \in S /\ Rank(S, R, g[k]) = k
  <2> SUFFICES ASSUME NEW k \in 1 .. n PROVE g[k] \in S /\ Rank(S, R, g[k]) = k
    OBVIOUS
  <2>1. \E x \in S : Rank(S, R, x) = k
    BY <1>2, <1>7
  <2> QED
    BY <2>1
<1>9. DOMAIN g = 1 .. n /\ g \in [1 .. n -> S]
  BY <1>8
<1> HIDE DEF g
<1>10. Sorted(g)
  <2> SUFFICES ASSUME NEW i \in 1 .. n, NEW j \in 1 .. n, i < j
               PROVE  PeerDistance[obj[g[i]].sid] < PeerDistance[obj[g[j]].sid]
    BY <1>9
  <2>1. g[i] \in S /\ g[j] \in S /\ Rank(S, R, g[i]) = i /\ Rank(S, R, g[j]) = j
    BY <1>8
  <2>2. i \in Int /\ j \in Int /\ i # j /\ ~ (j < i)
    BY <1>1
  <2>3. g[i] # g[j]
    BY <2>1, <2>2
  <2>4. <<g[j], g[i]>> \notin R
    BY <1>7, <2>1, <2>2
  <2> QED
    BY <1>6, <1>5, <2>1, <2>3, <2>4 DEF Orders
<1>11. C!Nearest \in [1 .. n -> S] /\ Sorted(C!Nearest)
  <2>1. C!Nearest = CHOOSE l \in [1 .. n -> S] : Sorted(l)
    BY <1>1, Zenon DEF C!Nearest, S
  <2>2. \E l \in [1 .. n -> S] : Sorted(l)
    BY <1>9, <1>10
  <2> HIDE DEF Sorted
  <2> QED
    BY <2>1, <2>2
<1>12. C!Nearest \in Seq(1 .. Len(obj)) /\ Len(C!Nearest) = n /\ DOMAIN C!Nearest = 1 .. n
  <2>1. PICK l : l = C!Nearest
    OBVIOUS
  <2>2. l \in [1 .. n -> 1 .. Len(obj)]
    BY <1>1, <1>11, <2>1 DEF S
  <2>3. l \in Seq(1 .. Len(obj)) /\ Len(l) = n /\ DOMAIN l = 1 .. n
    BY <1>1, <2>2
  <2> QED
    BY <2>1, <2>3
<1> QED
  BY <1>11, <1>12 DEF NearFirst, n

\* The locals of download() and of upload().
Download(a, b, c, d, e) == [pc |-> a, list |-> b, results |-> c, from |-> d, result |-> e]
Upload(a, b, c, d) == [pc |-> a, list |-> b, success_count |-> c, result |-> d]

\* Where a download goes to a peer, every peer before it in the list denied to have the
\* magnet and is asked for others.
Downloads ==
  \/ download = C!NotCalled
  \/ /\ download = Download(download.pc, download.list, download.results, download.from,
                            download.result)
     /\ download.pc \in {"asking", "discovering", "downloading", "ended"}
     /\ NearFirst(obj, download.list)
     /\ DOMAIN download.results = 1 .. Len(download.list)
     /\ download.pc = "downloading" =>
          /\ download.from \in 1 .. Len(download.list)
          /\ \A i \in 1 .. (download.from - 1) :
               download.results[i] = "False" /\ i \in DOMAIN discovery

\* An upload goes on while there are too few copies.
Uploads ==
  \/ upload = C!NotCalled
  \/ /\ upload = Upload(upload.pc, upload.list, upload.success_count, upload.result)
     /\ upload.pc \in {"uploading", "ended"}
     /\ NearFirst(obj, upload.list)
     /\ upload.success_count \in Nat
     /\ upload.pc = "uploading" => upload.success_count < peers_count
     /\ upload.pc = "ended" /\ upload.result = "returned" =>
          upload.success_count \in min_peers_count .. peers_count

Calls == Collected(obj, peers, peers_by_rating) /\ Downloads /\ Uploads

\* Both calls stand where they stood when the heap has grown.
LEMMA CallsLater ==
  ASSUME Calls, Collected(obj', peers', peers_by_rating'), SameSids(obj, obj'),
         UNCHANGED <<download, discovery, upload>>
  PROVE  Calls'
<1>1. Len(obj) \in Nat
  BY DEF Calls, Collected
<1>2. \A l : NearFirst(obj, l) => NearFirst(obj', l)
  BY <1>1, NearFirstLater
<1>3. Downloads'
  BY <1>2 DEF Calls, Downloads
<1>4. Uploads'
  BY <1>2 DEF Calls, Uploads
<1> QED
  BY <1>3, <1>4 DEF Calls

LEMMA AddKeeps ==
  ASSUME Calls, NEW s \in Sids, C!Add(s)
  PROVE  Calls'
<1>1. Collected(obj', peers', peers_by_rating') /\ SameSids(obj, obj')
  BY CollectedAdd DEF Calls
<1>2. UNCHANGED <<download, discovery, upload>>
  BY DEF C!Add
<1> QED
  BY <1>1, <1>2, CallsLater

\* What is left to show of a step of download().
LEMMA DownloadKeeps ==
  ASSUME Calls, UNCHANGED <<obj, peers, peers_by_rating, upload>>, Downloads'
  PROVE  Calls'
  BY DEF Calls, Uploads

LEMMA UploadKeeps ==
  ASSUME Calls, UNCHANGED <<obj, peers, peers_by_rating, download, discovery>>, Uploads'
  PROVE  Calls'
  BY DEF Calls, Downloads

LEMMA DownloadIs ==
  ASSUME NEW p \in {"asking", "discovering", "downloading", "ended"}, NEW l, NEW rs, NEW f, NEW r,
         download' = Download(p, l, rs, f, r), NearFirst(obj', l), DOMAIN rs = 1 .. Len(l),
         p = "downloading" =>
           /\ f \in 1 .. Len(l)
           /\ \A i \in 1 .. (f - 1) : rs[i] = "False" /\ i \in DOMAIN discovery'
  PROVE  Downloads'
<1>1. /\ download'.pc = p /\ download'.list = l /\ download'.results = rs /\ download'.from = f
      /\ download'.result = r
  BY DEF Download
<1> QED
  BY <1>1 DEF Downloads

LEMMA UploadIs ==
  ASSUME NEW p \in {"uploading", "ended"}, NEW l, NEW n \in Nat, NEW r,
         upload' = Upload(p, l, n, r), NearFirst(obj', l),
         p = "uploading" => n < peers_count,
         p = "ended" /\ r = "returned" => n \in min_peers_count .. peers_count
  PROVE  Uploads'
<1>1. /\ upload'.pc = p /\ upload'.list = l /\ upload'.success_count = n /\ upload'.result = r
  BY DEF Upload
<1> QED
  BY <1>1 DEF Uploads

\* Fields replaced.
SetPc(d, p) == [d EXCEPT !.pc = p]
SetFrom(d, p, f) == [d EXCEPT !.pc = p, !.from = f]
SetResult(d, i, r) == [d EXCEPT !.results[i] = r]
SetCount(u, n) == [u EXCEPT !.success_count = n]

LEMMA SetPcFacts ==
  ASSUME NEW a, NEW b, NEW c, NEW d, NEW e, NEW p
  PROVE  SetPc(Download(a, b, c, d, e), p) = Download(p, b, c, d, e)
<1>1. [Download(a, b, c, d, e) EXCEPT !.pc = p] = Download(p, b, c, d, e)
  BY DEF Download
<1> QED
  BY <1>1, Zenon DEF SetPc

LEMMA SetFromFacts ==
  ASSUME NEW a, NEW b, NEW c, NEW d, NEW e, NEW p, NEW f
  PROVE  SetFrom(Download(a, b, c, d, e), p, f) = Download(p, b, c, f, e)
<1>1. [Download(a, b, c, d, e) EXCEPT !.pc = p] = Download(p, b, c, d, e)
  BY DEF Download
<1>2. [Download(p, b, c, d, e) EXCEPT !.from = f] = Download(p, b, c, f, e)
  BY DEF Download
<1> QED
  BY <1>1, <1>2, Zenon DEF SetFrom

LEMMA SetResultFacts ==
  ASSUME NEW a, NEW b, NEW c, NEW d, NEW e, NEW i, NEW r
  PROVE  SetResult(Download(a, b, c, d, e), i, r) = Download(a, b, [c EXCEPT ![i] = r], d, e)
<1>1. [Download(a, b, c, d, e) EXCEPT !.results[i] = r] = Download(a, b, [c EXCEPT ![i] = r], d, e)
  BY DEF Download
<1> QED
  BY <1>1, Zenon DEF SetResult

LEMMA EndedDownload ==
  ASSUME NEW a, NEW b, NEW c, NEW d, NEW e, NEW r
  PROVE  C!Ended(Download(a, b, c, d, e), r) = Download("ended", b, c, d, r)
<1>1. [Download(a, b, c, d, e) EXCEPT !.pc = "ended"] = Download("ended", b, c, d, e)
  BY DEF Download
<1>2. [Download("ended", b, c, d, e) EXCEPT !.result = r] = Download("ended", b, c, d, r)
  BY DEF Download
<1> QED
  BY <1>1, <1>2, Zenon DEF C!Ended

LEMMA SetCountFacts ==
  ASSUME NEW a, NEW b, NEW c, NEW d, NEW n
  PROVE  SetCount(Upload(a, b, c, d), n) = Upload(a, b, n, d)
<1>1. [Upload(a, b, c, d) EXCEPT !.success_count = n] = Upload(a, b, n, d)
  BY DEF Upload
<1> QED
  BY <1>1, Zenon DEF SetCount

LEMMA EndedUpload ==
  ASSUME NEW a, NEW b, NEW c, NEW d, NEW r
  PROVE  C!Ended(Upload(a, b, c, d), r) = Upload("ended", b, c, r)
<1>1. [Upload(a, b, c, d) EXCEPT !.pc = "ended"] = Upload("ended", b, c, d)
  BY DEF Upload
<1>2. [Upload("ended", b, c, d) EXCEPT !.result = r] = Upload("ended", b, c, r)
  BY DEF Upload
<1> QED
  BY <1>1, <1>2, Zenon DEF C!Ended

\* A call that is under way.
LEMMA DownloadOn ==
  ASSUME Calls, download.pc # "idle"
  PROVE  \E b, c, d, e : /\ download = Download(download.pc, b, c, d, e)
                         /\ b = download.list /\ c = download.results /\ d = download.from
                         /\ NearFirst(obj, b) /\ DOMAIN c = 1 .. Len(b) /\ Len(b) \in Nat
<1>1. download # C!NotCalled
  BY DEF C!NotCalled
<1>2. NearFirst(obj, download.list) => Len(download.list) \in Nat
  BY DEF NearFirst
<1> QED
  BY <1>1, <1>2 DEF Calls, Downloads

LEMMA UploadOn ==
  ASSUME Calls, upload.pc # "idle"
  PROVE  \E b, c, d : /\ upload = Upload(upload.pc, b, c, d)
                      /\ b = upload.list /\ c = upload.success_count
                      /\ NearFirst(obj, b) /\ c \in Nat
                      /\ upload.pc = "uploading" => c < peers_count
<1>1. upload # C!NotCalled
  BY DEF C!NotCalled
<1> QED
  BY <1>1 DEF Calls, Uploads

LEMMA StartDownloadKeeps ==
  ASSUME Calls, C!StartDownload
  PROVE  Calls'
<1> DEFINE l == C!Nearest
           rs == [i \in DOMAIN l |-> "running"]
<1>1. UNCHANGED <<obj, peers, peers_by_rating, discovery, upload>>
  BY DEF C!StartDownload, C!bookVars
<1>2. NearFirst(obj, l)
  BY ClientNearest DEF Calls
<1>3. PICK p \in {"asking", "ended"} : \E r : download' = Download(p, l, rs, 0, r)
  <2>1. CASE l = <<>>
    BY <2>1 DEF C!StartDownload, Download
  <2>2. CASE l # <<>>
    BY <2>2 DEF C!StartDownload, Download
  <2> QED
    BY <2>1, <2>2
<1> HIDE DEF l
<1>4. DOMAIN rs = 1 .. Len(l)
  BY <1>2 DEF NearFirst
<1> HIDE DEF rs
<1>5. Downloads'
  BY <1>1, <1>2, <1>3, <1>4, DownloadIs
<1> QED
  BY <1>1, <1>5, DownloadKeeps

LEMMA HasMagnetEndsKeeps ==
  ASSUME Calls, NEW i, C!HasMagnetEnds(i)
  PROVE  Calls'
<1>1. /\ UNCHANGED <<obj, peers, peers_by_rating, discovery, upload>>
      /\ download.pc = "asking"
  BY DEF C!HasMagnetEnds, C!bookVars
<1>2. PICK r : download' = SetResult(download, i, r)
  BY DEF C!HasMagnetEnds, SetResult
<1>3. PICK b, c, d, e : /\ download = Download("asking", b, c, d, e)
                        /\ NearFirst(obj, b) /\ DOMAIN c = 1 .. Len(b)
  BY <1>1, DownloadOn
<1>4. download' = Download("asking", b, [c EXCEPT ![i] = r], d, e)
  <2>1. SetResult(Download("asking", b, c, d, e), i, r)
          = Download("asking", b, [c EXCEPT ![i] = r], d, e)
    BY SetResultFacts
  <2> QED
    BY <1>2, <1>3, <2>1
<1>5. DOMAIN [c EXCEPT ![i] = r] = 1 .. Len(b)
  BY <1>3
<1>6. Downloads'
  BY <1>1, <1>3, <1>4, <1>5, DownloadIs
<1> QED
  BY <1>1, <1>6, DownloadKeeps

LEMMA GatheredKeeps ==
  ASSUME Calls, C!Gathered
  PROVE  Calls'
<1> DEFINE claims == { i \in DOMAIN download.results : download.results[i] # "False" }
           first == C!FirstClaim(claims)
<1>1. UNCHANGED <<obj, peers, peers_by_rating, upload>> /\ download.pc = "asking"
  BY DEF C!Gathered, C!bookVars
<1>2. PICK b, c, d, e : /\ download = Download("asking", b, c, d, e) /\ c = download.results
                        /\ b = download.list
                        /\ NearFirst(obj, b) /\ DOMAIN c = 1 .. Len(b) /\ Len(b) \in Nat
  BY <1>1, DownloadOn
<1>3. CASE claims = {}
  <2>1. download' = SetPc(download, "discovering")
    BY <1>3 DEF C!Gathered, SetPc
  <2>2. download' = Download("discovering", b, c, d, e)
    <3>1. SetPc(Download("asking", b, c, d, e), "discovering") = Download("discovering", b, c, d, e)
      BY SetPcFacts
    <3> QED
      BY <1>2, <2>1, <3>1
  <2>3. Downloads'
    BY <1>1, <1>2, <2>2, DownloadIs
  <2> QED
    BY <1>1, <2>3, DownloadKeeps
<1>4. CASE claims # {}
  <2>1. /\ claims \in SUBSET Nat /\ claims \subseteq 1 .. Len(b)
        /\ claims = { i \in 1 .. Len(b) : c[i] # "False" }
    BY <1>2
  <2>2. first \in claims /\ \A j \in claims : first <= j
    <3>1. \E i \in claims : \A j \in claims : i <= j
      <4> HIDE DEF claims
      <4> QED
        BY <1>4, <2>1, Least
    <3> QED
      BY <3>1 DEF C!FirstClaim
  <2>3. /\ discovery' = [i \in 1 .. (first - 1) |-> "running"]
        /\ download' = SetFrom(download, "downloading", first - 1 + 1)
    BY <1>4 DEF C!Gathered, SetFrom
  <2> HIDE DEF claims, first
  <2>4. first \in 1 .. Len(b) /\ first - 1 + 1 = first /\ DOMAIN discovery' = 1 .. (first - 1)
    BY <1>2, <2>1, <2>2, <2>3
  <2>5. download' = Download("downloading", b, c, first, e)
    <3>1. SetFrom(Download("asking", b, c, d, e), "downloading", first)
            = Download("downloading", b, c, first, e)
      BY SetFromFacts
    <3> QED
      BY <1>2, <2>3, <2>4, <3>1
  <2>6. \A i \in 1 .. (first - 1) : c[i] = "False" /\ i \in DOMAIN discovery'
    <3> SUFFICES ASSUME NEW i \in 1 .. (first - 1) PROVE c[i] = "False"
      BY <2>4
    <3>1. i \in 1 .. Len(b) /\ ~ (first <= i)
      BY <1>2, <2>4
    <3> QED
      BY <2>1, <2>2, <3>1
  <2>7. Downloads'
    BY <1>1, <1>2, <2>4, <2>5, <2>6, DownloadIs
  <2> QED
    BY <1>1, <2>7, DownloadKeeps
<1> QED
  BY <1>3, <1>4

\* However the call ends.
LEMMA EndedKeeps ==
  ASSUME Calls, NEW r, download.pc # "idle", download' = C!Ended(download, r),
         UNCHANGED <<obj, peers, peers_by_rating, discovery, upload>>
  PROVE  Calls'
<1>1. PICK p, b, c, d, e : /\ download = Download(p, b, c, d, e)
                           /\ NearFirst(obj, b) /\ DOMAIN c = 1 .. Len(b)
  BY DownloadOn
<1>2. download' = Download("ended", b, c, d, r)
  BY <1>1, EndedDownload
<1>3. Downloads'
  BY <1>1, <1>2, DownloadIs
<1> QED
  BY <1>3, DownloadKeeps

LEMMA ContentArrivesKeeps ==
  ASSUME Calls, C!ContentArrives
  PROVE  Calls'
<1>1. /\ UNCHANGED <<obj, peers, peers_by_rating, discovery, upload>>
      /\ download.pc # "idle" /\ download' = C!Ended(download, "FileNotFoundError")
  BY DEF C!ContentArrives, C!bookVars
<1> QED
  BY <1>1, EndedKeeps

LEMMA DownloadFailsKeeps ==
  ASSUME Calls, C!DownloadFails
  PROVE  Calls'
<1>1. /\ UNCHANGED <<obj, peers, peers_by_rating, discovery, upload>>
      /\ download.pc # "idle" /\ download' = C!Ended(download, "DownloadError")
  BY DEF C!DownloadFails, C!bookVars
<1> QED
  BY <1>1, EndedKeeps

LEMMA DiscoverEndsKeeps ==
  ASSUME Calls, NEW i, C!DiscoverEnds(i)
  PROVE  Calls'
<1>1. UNCHANGED <<obj, peers, peers_by_rating, download, upload>> /\ DOMAIN discovery' = DOMAIN discovery
  BY DEF C!DiscoverEnds, C!bookVars
<1>2. Downloads'
  BY <1>1 DEF Calls, Downloads
<1> QED
  BY <1>1, <1>2, DownloadKeeps

\* Ratings go down, and the list is as it was.
LEMMA EndRoundKeeps ==
  ASSUME Calls, C!EndRound
  PROVE  Calls'
<1> DEFINE new(o) == IF \E i \in C!Invalid : download.list[i] = o
                     THEN [obj[o] EXCEPT !.exp = C!Scaled(@, -1)] ELSE obj[o]
<1>1. /\ UNCHANGED <<peers, peers_by_rating, discovery, upload>>
      /\ download.pc # "idle" /\ download' = C!Ended(download, "AttributeError")
      /\ obj' = [o \in DOMAIN obj |-> new(o)]
  BY DEF C!EndRound
<1>2. obj \in Seq(C!Peer) /\ DOMAIN obj = 1 .. Len(obj) /\ Len(obj) \in Nat
  BY DEF Calls, Collected
<1>3. ASSUME NEW o \in 1 .. Len(obj) PROVE new(o) \in C!Peer /\ new(o).sid = obj[o].sid
  <2>1. obj[o] \in [sid : Sids, exp : C!Exps]
    <3>1. obj[o] \in C!Peer
      BY <1>2
    <3> QED
      BY <3>1 DEF C!Peer
  <2>2. C!Scaled(obj[o].exp, -1) \in C!Exps
    <3>1. obj[o].exp \in C!Exps
      BY <2>1
    <3> QED
      BY <3>1, ClientFacts DEF C!Scaled, C!Exps
  <2> QED
    BY <2>1, <2>2 DEF C!Peer
<1> HIDE DEF new
<1>4. obj' \in Seq(C!Peer) /\ Len(obj') = Len(obj) /\ \A o \in 1 .. Len(obj) : obj'[o].sid = obj[o].sid
  BY <1>1, <1>2, <1>3
<1>5. SameSids(obj, obj')
  BY <1>2, <1>4 DEF SameSids
<1>6. Collected(obj', peers', peers_by_rating')
  <2>1. /\ peers \in [Sids -> Nat] /\ peers_by_rating \in Seq(1 .. Len(obj))
        /\ \A i, j \in 1 .. Len(peers_by_rating) : peers_by_rating[i] = peers_by_rating[j] => i = j
        /\ \A i \in 1 .. Len(peers_by_rating) :
             /\ peers_by_rating[i] \in 1 .. Len(obj)
             /\ peers[obj[peers_by_rating[i]].sid] = peers_by_rating[i]
    BY DEF Calls, Collected
  <2>2. \A i \in 1 .. Len(peers_by_rating) : peers[obj'[peers_by_rating[i]].sid] = peers_by_rating[i]
    BY <1>4, <2>1
  <2>3. peers' = peers /\ peers_by_rating' = peers_by_rating
    BY <1>1
  <2> HIDE DEF new
  <2> QED
    BY <1>4, <2>1, <2>2, <2>3 DEF Collected
<1>7. \A l : NearFirst(obj, l) => NearFirst(obj', l)
  BY <1>2, <1>5, NearFirstLater
<1>8. Downloads'
  <2>1. PICK p, b, c, d, e : /\ download = Download(p, b, c, d, e)
                             /\ NearFirst(obj, b) /\ DOMAIN c = 1 .. Len(b)
    BY <1>1, DownloadOn
  <2>2. download' = Download("ended", b, c, d, "AttributeError")
    <3>1. C!Ended(Download(p, b, c, d, e), "AttributeError") = Download("ended", b, c, d, "AttributeError")
      BY EndedDownload
    <3> QED
      BY <1>1, <2>1, <3>1
  <2>3. NearFirst(obj', b)
    BY <1>7, <2>1
  <2> QED
    BY <2>1, <2>2, <2>3, DownloadIs
<1>9. Uploads'
  BY <1>1, <1>7 DEF Calls, Uploads
<1> QED
  BY <1>6, <1>8, <1>9 DEF Calls

LEMMA StartUploadKeeps ==
  ASSUME Calls, C!StartUpload
  PROVE  Calls'
<1> DEFINE l == C!Nearest
<1>1. UNCHANGED <<obj, peers, peers_by_rating, download, discovery>>
  BY DEF C!StartUpload, C!bookVars
<1>2. NearFirst(obj, l)
  BY ClientNearest DEF Calls
<1>3. CASE l = <<>>
  <2>1. upload' = Upload("ended", l, 0, C!UploadResult(0))
    BY <1>3 DEF C!StartUpload, Upload
  <2>2. C!UploadResult(0) = "returned" => 0 \in min_peers_count .. peers_count
    BY ClientFacts DEF C!UploadResult
  <2> HIDE DEF l
  <2>3. Uploads'
    BY <1>1, <1>2, <2>1, <2>2, UploadIs
  <2> QED
    BY <1>1, <2>3, UploadKeeps
<1>4. CASE l # <<>>
  <2>1. upload' = Upload("uploading", l, 0, "none")
    BY <1>4 DEF C!StartUpload, Upload
  <2>2. 0 < peers_count
    BY ClientFacts
  <2> HIDE DEF l
  <2>3. Uploads'
    BY <1>1, <1>2, <2>1, <2>2, UploadIs
  <2> QED
    BY <1>1, <2>3, UploadKeeps
<1> QED
  BY <1>3, <1>4

LEMMA PeerTakesKeeps ==
  ASSUME Calls, C!PeerTakes
  PROVE  Calls'
<1> DEFINE n == upload.success_count + 1
           result == C!UploadResult(n)
           counted == SetCount(upload, n)
<1>1. UNCHANGED <<obj, peers, peers_by_rating, download, discovery>> /\ upload.pc = "uploading"
  BY DEF C!PeerTakes, C!bookVars
<1>2. upload' = IF n >= peers_count \/ n = Len(upload.list) THEN C!Ended(counted, result) ELSE counted
  BY DEF C!PeerTakes, SetCount
<1>3. PICK p, b, c, d : /\ upload = Upload(p, b, c, d) /\ p = "uploading" /\ c = upload.success_count
                        /\ NearFirst(obj, b) /\ c \in Nat /\ c < peers_count
  BY <1>1, UploadOn
<1>4. n \in Nat /\ n <= peers_count
  BY <1>3, ClientFacts
<1>5. result = "returned" => n \in min_peers_count .. peers_count
  BY <1>4, ClientFacts DEF C!UploadResult
<1> HIDE DEF n, counted, result
<1>6. counted = Upload(p, b, n, d)
  <2>1. SetCount(Upload(p, b, c, d), n) = Upload(p, b, n, d)
    BY SetCountFacts
  <2> QED
    BY <1>3, <2>1 DEF counted
<1>7. CASE n >= peers_count \/ n = Len(upload.list)
  <2>1. upload' = Upload("ended", b, n, result)
    <3>1. C!Ended(Upload(p, b, n, d), result) = Upload("ended", b, n, result)
      BY EndedUpload
    <3> QED
      BY <1>2, <1>6, <1>7, <3>1
  <2>2. Uploads'
    BY <1>1, <1>3, <1>4, <1>5, <2>1, UploadIs
  <2> QED
    BY <1>1, <2>2, UploadKeeps
<1>8. CASE ~ (n >= peers_count \/ n = Len(upload.list))
  <2>1. upload' = Upload("uploading", b, n, d) /\ n < peers_count
    BY <1>2, <1>3, <1>4, <1>6, <1>8, ClientFacts
  <2>2. Uploads'
    BY <1>1, <1>3, <1>4, <2>1, UploadIs
  <2> QED
    BY <1>1, <2>2, UploadKeeps
<1> QED
  BY <1>7, <1>8

LEMMA PeerRefusesKeeps ==
  ASSUME Calls, C!PeerRefuses
  PROVE  Calls'
<1>1. /\ UNCHANGED <<obj, peers, peers_by_rating, download, discovery>> /\ upload.pc # "idle"
      /\ upload' = C!Ended(upload, "raised")
  BY DEF C!PeerRefuses, C!bookVars
<1>2. PICK p, b, c, d : /\ upload = Upload(p, b, c, d) /\ NearFirst(obj, b) /\ c \in Nat
  BY <1>1, UploadOn
<1>3. upload' = Upload("ended", b, c, "raised")
  <2>1. C!Ended(Upload(p, b, c, d), "raised") = Upload("ended", b, c, "raised")
    BY EndedUpload
  <2> QED
    BY <1>1, <1>2, <2>1
<1>4. Uploads'
  BY <1>1, <1>2, <1>3, UploadIs
<1> QED
  BY <1>1, <1>4, UploadKeeps

LEMMA CallsInit == C!Init => Calls
  BY DEF C!Init, C!BookInit, Calls, Collected, Downloads, Uploads, C!NotCalled

LEMMA CallsNext == Calls /\ [C!Next]_(C!vars) => Calls'
<1> SUFFICES ASSUME Calls, [C!Next]_(C!vars) PROVE Calls'
  OBVIOUS
<1>1. ASSUME NEW s \in Sids, C!Add(s) PROVE Calls'
  BY <1>1, AddKeeps
<1>2. CASE C!StartDownload
  BY <1>2, StartDownloadKeeps
<1>3. CASE C!DownloadStep
  <2>1. ASSUME NEW i, C!HasMagnetEnds(i) PROVE Calls'
    BY <2>1, HasMagnetEndsKeeps
  <2>2. ASSUME NEW i, C!DiscoverEnds(i) PROVE Calls'
    BY <2>2, DiscoverEndsKeeps
  <2> QED
    BY <1>3, <2>1, <2>2, GatheredKeeps, ContentArrivesKeeps, DownloadFailsKeeps, EndRoundKeeps
    DEF C!DownloadStep
<1>4. CASE C!StartUpload
  BY <1>4, StartUploadKeeps
<1>5. CASE C!PeerTakes
  BY <1>5, PeerTakesKeeps
<1>6. CASE C!PeerRefuses
  BY <1>6, PeerRefusesKeeps
<1>7. CASE UNCHANGED C!vars
  <2>1. UNCHANGED <<obj, peers, peers_by_rating, download, discovery, upload>>
    BY <1>7 DEF C!vars, C!bookVars
  <2> QED
    BY <2>1 DEF Calls, Collected, Downloads, Uploads
<1> QED
  BY <1>1, <1>2, <1>3, <1>4, <1>5, <1>6, <1>7 DEF C!Next

\* NearestClaimant: however the answers come in, content is requested from a peer only
\* after every nearer one of the collection denied having it.
THEOREM NearestIsAsked == C!Spec => []NearestClaimant
<1>1. Calls => NearestClaimant
  <2> SUFFICES ASSUME Calls, download.pc = "downloading", NEW i \in DOMAIN download.list,
                      PeerDistance[obj[download.list[i]].sid]
                        < PeerDistance[obj[download.list[download.from]].sid]
               PROVE  download.results[i] = "False" /\ i \in DOMAIN discovery
    BY DEF NearestClaimant, C!NearestClaimant, C!SidOf
  <2>1. download # C!NotCalled
    BY DEF C!NotCalled
  <2> DEFINE l == download.list
             f == download.from
  <2>2. /\ NearFirst(obj, l) /\ f \in 1 .. Len(l)
        /\ \A k \in 1 .. (f - 1) : download.results[k] = "False" /\ k \in DOMAIN discovery
    BY <2>1 DEF Calls, Downloads
  <2>3. /\ l \in Seq(1 .. Len(obj)) /\ i \in 1 .. Len(l) /\ Len(l) \in Nat
        /\ PeerDistance[obj[l[i]].sid] < PeerDistance[obj[l[f]].sid]
    <3>1. l \in Seq(1 .. Len(obj))
      BY <2>2, Zenon DEF NearFirst
    <3> QED
      BY <3>1
  <2> HIDE DEF l, f
  <2>4. PeerDistance[obj[l[i]].sid] \in Nat /\ PeerDistance[obj[l[f]].sid] \in Nat
    <3>1. obj \in Seq(C!Peer)
      BY Zenon DEF Calls, Collected
    <3>2. l[i] \in 1 .. Len(obj) /\ l[f] \in 1 .. Len(obj)
      BY <2>2, <2>3
    <3> QED
      BY <3>1, <3>2, SidFacts
  <2>5. ~ (f < i) /\ f # i
    <3>1. f < i => PeerDistance[obj[l[f]].sid] < PeerDistance[obj[l[i]].sid]
      BY <2>2, <2>3, Zenon DEF NearFirst
    <3>2. f = i => PeerDistance[obj[l[f]].sid] = PeerDistance[obj[l[i]].sid]
      OBVIOUS
    <3> QED
      BY <2>3, <2>4, <3>1, <3>2
  <2>6. i \in 1 .. (f - 1)
    BY <2>2, <2>3, <2>5
  <2> QED
    BY <2>2, <2>6
<1> QED
  BY <1>1, CallsInit, CallsNext, PTL DEF C!Spec

\* UploadQuorum: an upload that returns has left the content with at least
\* min_peers_count services, the nearest of the list.
THEOREM UploadsSuffice == C!Spec => []UploadQuorum
<1>1. Calls => UploadQuorum
  <2> SUFFICES ASSUME Calls, upload.pc = "ended", upload.result = "returned"
               PROVE  /\ upload.success_count \in min_peers_count .. peers_count
                      /\ \A i \in 1 .. upload.success_count, j \in DOMAIN upload.list :
                           i < j => PeerDistance[obj[upload.list[i]].sid]
                                      < PeerDistance[obj[upload.list[j]].sid]
    BY DEF UploadQuorum, C!UploadQuorum, C!SidOf
  <2>1. upload # C!NotCalled
    BY DEF C!NotCalled
  <2>2. /\ NearFirst(obj, upload.list) /\ upload.success_count \in Nat
        /\ upload.success_count \in min_peers_count .. peers_count
    BY <2>1 DEF Calls, Uploads
  <2>3. DOMAIN upload.list = 1 .. Len(upload.list) /\ Len(upload.list) \in Nat
    BY <2>2 DEF NearFirst
  <2> QED
    BY <2>2, <2>3 DEF NearFirst
<1> QED
  BY <1>1, CallsInit, CallsNext, PTL DEF C!Spec

-----------------------------------------------------------------------------
(* The parts together.                                                      *)

\* A behaviour of what surrounds a node is one of each of its parts, so the theorems
\* above hold of it.
THEOREM EveryPart == partsSpec => Spec /\ H!Spec /\ G!Spec /\ C!Spec
<1>1. partsInit => Init /\ H!Init /\ G!Init /\ C!Init
  BY DEF partsInit
<1>2. [partsNext]_<<part, vars, hiddenVars, gossipVars, clientVars>> => [Next]_vars
  BY DEF partsNext, Runs
<1>3. [partsNext]_<<part, vars, hiddenVars, gossipVars, clientVars>> => [H!Next]_(H!vars)
  BY DEF partsNext, Runs, hiddenVars, H!vars
<1>4. [partsNext]_<<part, vars, hiddenVars, gossipVars, clientVars>> => [G!Next]_(G!vars)
  BY DEF partsNext, Runs, gossipVars, G!vars
<1>5. [partsNext]_<<part, vars, hiddenVars, gossipVars, clientVars>> => [C!Next]_(C!vars)
  BY DEF partsNext, Runs, clientVars, C!vars, C!bookVars
<1> QED
  BY <1>1, <1>2, <1>3, <1>4, <1>5, PTL DEF partsSpec, Spec, H!Spec, G!Spec, C!Spec
=============================================================================
