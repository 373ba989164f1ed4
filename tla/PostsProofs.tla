----------------------------- MODULE PostsProofs -----------------------------
(***************************************************************************)
(* Proofs about the parts of Posts, each about the specification of that    *)
(* part, for any number of calls, transactions, crashes, posts and logs.    *)
(*                                                                          *)
(* Publish: a content file is only in place where its directory is, and one  *)
(* call at most is between making the directory and the announcement.  The  *)
(* account needs more: the pool is an interval of nonces after the chain,   *)
(* and until the announcement's transaction was taken the address of this   *)
(* start is neither in the pool nor on the chain.                           *)
(*                                                                          *)
(* Bundle: a post is what the bundle's content.json says, or nothing yet.   *)
(* Feed: rows are numbered as they are dated, so the cursor parts what was  *)
(* shown from what is to come.  Contract: whatever may be on the chain is   *)
(* read back as it was sent.                                                *)
(***************************************************************************)
EXTENDS Posts, FiniteSetTheorems, WellFoundedInduction, TLAPS

Payloads(c) == IF c = Announcer THEN {Registration(Address)} ELSE Magnets

AtRest(c) == IF c = Announcer THEN {[pc |-> "waiting"], [pc |-> "over"]} ELSE {[pc |-> "idle"]}

Locals(c) ==
  AtRest(c)
    \cup [pc : {"price", "sent"}, payload : Payloads(c)]
    \cup [pc : IF c = Announcer THEN {} ELSE {"made", "moved"}, payload : Payloads(c)]
    \cup [pc : {"nonce"}, payload : Payloads(c), price : Prices]
    \cup [pc : {"send"}, payload : Payloads(c), price : Prices, nonce : Nonces]

Transactions == [payload : Magnets \cup Registrations, price : Prices]

CallType ==
  /\ DOMAIN call = Callers
  /\ \A c \in Callers : call[c] \in Locals(c)

ChainType ==
  /\ mined \in Seq(Magnets \cup Registrations)
  /\ accepted \subseteq Magnets \cup Registrations
  /\ pool \in [Nonces -> {NoTx} \cup Transactions]
  /\ crashes \in 0 .. MaxCrashes

FileType ==
  /\ drafts \subseteq Magnets /\ placed \subseteq directories
  /\ directories \subseteq Magnets
  /\ announced \in [Magnets -> Nat]
  /\ cut \subseteq placed /\ downloaded \subseteq placed

\* The address is that of this start, and a call of announce_peer has waited for it.
AddressKnown ==
  /\ service_id \in {NoAddress, Address}
  /\ call[Announcer].pc \in {"price", "nonce", "send", "sent"} => service_id = Address

\* Pending transactions follow the chain without a gap, up to some nonce.
NoGap == \E last \in Nat : last >= Len(mined) /\ Pending = (Len(mined) + 1) .. last

NonceIsNext ==
  \A c \in Callers :
    call[c].pc = "send" => call[c].nonce <= Len(mined) + Cardinality(Pending) + 1

SentAccepted ==
  \A c \in Callers : call[c].pc \in {"sent", "made", "moved"} => call[c].payload \in accepted

\* A payload is at one place of the account at most.
Once(x) ==
  /\ \A n \in InPool(x), o \in InPool(x) : n = o
  /\ \A i \in OnChain(x), j \in OnChain(x) : i = j
  /\ InPool(x) = {} \/ OnChain(x) = {}

Nowhere(x) == InPool(x) = {} /\ OnChain(x) = {} /\ x \notin accepted

Starts == NoAddress .. MaxCrashes + 1

Registered ==
  /\ \A a \in Starts : Once(Registration(a))
  /\ \A a \in Starts : a > Address \/ a = NoAddress => Nowhere(Registration(a))
  /\ ~(service_id = Address /\ call[Announcer].pc \in {"sent", "over"})
        => Nowhere(Registration(Address))

\* One call has the event loop to itself.
OneBusy == \A c, d \in Calls : Busy(c) /\ Busy(d) => c = d

\* Where the file is while a call moves it.
Halfway ==
  \A c \in Calls :
    /\ call[c].pc = "made" => call[c].payload \in directories \ placed
    /\ call[c].pc = "moved" => call[c].payload \in placed \ cut

FilesRight == FileType /\ AnnouncedOnce /\ PlacedAccepted /\ OneBusy /\ Halfway

IInv ==
  /\ CallType /\ ChainType /\ FilesRight
  /\ AddressKnown
  /\ NoGap /\ NonceIsNext
  /\ SentAccepted
  /\ Registered

-----------------------------------------------------------------------------
(* Helpers.                                                                 *)

LEMMA NumberFacts ==
  /\ NoAddress = 0 /\ MaxTx \in Nat /\ MaxCrashes \in Nat /\ Prices \subseteq Nat \ {0}
  BY PublishAssumption DEF NoAddress, Prices

LEMMA CallerFacts ==
  /\ Announcer \in Callers /\ Announcer \notin Calls
  /\ Callers = Calls \cup {Announcer}
  BY PayloadsDiffer DEF Callers

\* What is known of a call at each of its suspension points.
LEMMA CallFacts ==
  ASSUME CallType, NEW c \in Callers
  PROVE  /\ call[c].pc \in {"price", "nonce", "send", "sent", "made", "moved"} =>
              call[c].payload \in Payloads(c)
         /\ call[c].pc \in {"nonce", "send"} => call[c].price \in Prices
         /\ call[c].pc = "send" => call[c].nonce \in Nonces
         /\ c = Announcer => call[c].pc \in {"waiting", "over", "price", "nonce", "send", "sent"}
         /\ c # Announcer =>
              call[c].pc \in {"idle", "price", "nonce", "send", "sent", "made", "moved"}
<1>1. call[c] \in Locals(c)
  BY DEF CallType
<1> QED
  BY <1>1 DEF Locals, AtRest

\* A payload of a call is that of a draft or of the registration of this start.
LEMMA PayloadFacts ==
  ASSUME ChainType, NEW c \in Callers
  PROVE  /\ Payloads(c) \subseteq Magnets \cup Registrations
         /\ Address \in Nat /\ Address > 0
<1>1. crashes \in Nat /\ crashes <= MaxCrashes
  BY NumberFacts DEF ChainType
<1>2. Address \in NoAddress .. MaxCrashes + 1
  BY <1>1, NumberFacts DEF Address
<1> QED
  BY <1>1, <1>2, NumberFacts DEF Payloads, Registrations, Address

LEMMA RegistrationFacts ==
  /\ \A a \in Nat, b \in Nat : Registration(a) = Registration(b) => a = b
  /\ \A a \in Nat : Registration(a) # <<>>
<1>1. ASSUME NEW a \in Nat, NEW b \in Nat, Registration(a) = Registration(b) PROVE a = b
  BY <1>1 DEF Registration
<1>2. ASSUME NEW a \in Nat PROVE Registration(a) # <<>>
  BY <1>2 DEF Registration
<1> QED
  BY <1>1, <1>2

LEMMA StartFacts ==
  ASSUME ChainType
  PROVE  /\ Starts \subseteq Nat /\ Address \in Starts
         /\ Address \in Nat /\ Address > 0
<1>1. crashes \in Nat /\ crashes <= MaxCrashes
  BY NumberFacts DEF ChainType
<1> QED
  BY <1>1, NumberFacts DEF Starts, Address

\* Changing the locals of one call.
LEMMA CallUpdate ==
  ASSUME CallType, NEW c \in Callers, NEW r \in Locals(c),
         call' = [call EXCEPT ![c] = r], UNCHANGED crashes
  PROVE  /\ CallType'
         /\ call'[c] = r
         /\ \A d \in Callers \ {c} : call'[d] = call[d]
<1>1. call'[c] = r /\ \A d \in Callers \ {c} : call'[d] = call[d]
  BY DEF CallType
<1>2. \A d \in Callers : Locals(d)' = Locals(d)
  BY DEF Locals, AtRest, Payloads, Registration, Address
<1> QED
  BY <1>1, <1>2 DEF CallType

\* Card(Pending), from the interval it is.
LEMMA PendingFacts ==
  ASSUME ChainType, NEW last \in Nat, last >= Len(mined), Pending = (Len(mined) + 1) .. last
  PROVE  Len(mined) \in Nat /\ Cardinality(Pending) = last - Len(mined)
<1>1. Len(mined) \in Nat
  BY DEF ChainType
<1>2. Len(mined) + 1 \in Int /\ last \in Int
  BY <1>1
<1>3. Cardinality((Len(mined) + 1) .. last)
        = IF Len(mined) + 1 > last THEN 0 ELSE last - (Len(mined) + 1) + 1
  BY <1>2, FS_Interval
<1> QED
  BY <1>1, <1>3

\* A transaction in the pool is pending, and its place in the chain is yet to come.
LEMMA PoolFacts ==
  ASSUME ChainType, NEW n \in Nonces
  PROVE  /\ n \in Pending <=> pool[n].price # 0
         /\ n \in Pending => pool[n] \in Transactions
         /\ n \notin Pending => pool[n] = NoTx
  BY NumberFacts DEF ChainType, Pending, Transactions, NoTx

-----------------------------------------------------------------------------
(* Init.                                                                    *)

LEMMA InitInv == Init => IInv
<1> SUFFICES ASSUME Init PROVE IInv
  OBVIOUS
<1> USE NumberFacts, CallerFacts
<1>1. CallType
  BY DEF Init, Started, CallType, Locals, AtRest, Idle
<1>2. ChainType /\ FileType
  BY DEF Init, ChainType, FileType
<1>2a. OneBusy /\ Halfway
  BY DEF Init, Started, Idle, OneBusy, Halfway, Busy, Callers
<1>3. AddressKnown
  BY DEF Init, Started, AddressKnown
<1>4. Pending = {} /\ Len(mined) = 0
  BY DEF Init, Pending
<1>5. NoGap
  <2>1. Pending = (Len(mined) + 1) .. 0 /\ 0 >= Len(mined)
    BY <1>4
  <2> QED
    BY <2>1 DEF NoGap
<1>6. NonceIsNext /\ SentAccepted
  BY DEF Init, Started, Idle, NonceIsNext, SentAccepted
<1>7. AnnouncedOnce /\ PlacedAccepted
  BY <1>2 DEF Init, AnnouncedOnce, PlacedAccepted
<1>8. ASSUME NEW a \in Nat PROVE Nowhere(Registration(a))
  BY RegistrationFacts DEF Init, Nowhere, InPool, OnChain, NoTx
<1>9. Registered
  <2>1. Address \in Nat
    BY DEF Init, Address
  <2> QED
    BY <1>2, <1>8, <2>1, StartFacts DEF Registered, Nowhere, Once
<1> QED
  BY <1>1, <1>2, <1>2a, <1>3, <1>5, <1>6, <1>7, <1>9 DEF IInv, FilesRight

-----------------------------------------------------------------------------
(* The steps.                                                               *)

\* A step that leaves the files alone, and the calls that move one.
LEMMA FilesAlone ==
  ASSUME FilesRight, UNCHANGED fileVars, accepted \subseteq accepted',
         \A d \in Calls : \/ call'[d] = call[d]
                         \/ (call[d].pc # "moved" /\ call'[d].pc \notin {"made", "moved"})
  PROVE  FilesRight'
<1>1. FileType'
  BY DEF FilesRight, FileType, fileVars
<1>2. PlacedAccepted'
  BY DEF FilesRight, PlacedAccepted, fileVars
<1>3. OneBusy' /\ Halfway'
  BY DEF FilesRight, OneBusy, Halfway, Busy, fileVars
<1>4. ASSUME NEW m \in Magnets
      PROVE  (\E c \in Calls : call'[c].pc = "moved" /\ call'[c].payload = m)
               <=> \E c \in Calls : call[c].pc = "moved" /\ call[c].payload = m
  OBVIOUS
<1>5. AnnouncedOnce'
  BY <1>4 DEF FilesRight, AnnouncedOnce, fileVars
<1> QED
  BY <1>1, <1>2, <1>3, <1>5 DEF FilesRight

\* A request goes on or ends: only the locals of one call change, and not to "sent" or
\* beyond.
LEMMA LocalStep ==
  ASSUME IInv, NEW c \in Callers, NEW r \in Locals(c),
         call' = [call EXCEPT ![c] = r],
         UNCHANGED <<fileVars, chainVars, service_id, crashes>>,
         r.pc \notin {"sent", "made", "moved"}, call[c].pc # "moved",
         c = Announcer => \/ r.pc = "over"
                          \/ service_id = Address /\ call[c].pc \notin {"sent", "over"},
         r.pc = "send" => r.nonce <= Len(mined) + Cardinality(Pending) + 1
  PROVE  IInv'
<1> USE DEF IInv, fileVars, chainVars
<1>1. /\ CallType'
      /\ call'[c] = r
      /\ \A d \in Callers \ {c} : call'[d] = call[d]
  BY CallUpdate
<1>2. /\ Pending' = Pending /\ Address' = Address
      /\ \A x : InPool(x)' = InPool(x) /\ OnChain(x)' = OnChain(x) /\ Nowhere(x)' = Nowhere(x)
      /\ \A x : Once(x)' = Once(x)
  BY DEF Pending, Address, InPool, OnChain, Nowhere, Once
<1>3. ChainType' /\ NoGap'
  BY <1>2 DEF ChainType, NoGap
<1>3a. FilesRight'
  <2>1. \A d \in Calls : \/ call'[d] = call[d]
                        \/ (call[d].pc # "moved" /\ call'[d].pc \notin {"made", "moved"})
    BY <1>1, CallerFacts
  <2> QED
    BY <2>1, FilesAlone
<1>4. AddressKnown'
  BY <1>1, <1>2, CallerFacts DEF AddressKnown
<1>5. NonceIsNext'
  BY <1>1, <1>2 DEF NonceIsNext
<1>6. SentAccepted'
  BY <1>1 DEF SentAccepted
<1>7. Registered'
  <2>1. c # Announcer => call'[Announcer] = call[Announcer]
    BY <1>1, CallerFacts
  <2>2. c = Announcer => call'[Announcer] = r
    BY <1>1
  <2>3. Address \in Nat
    BY PayloadFacts
  <2>4. CASE c = Announcer /\ r.pc = "over" /\ service_id = Address
    BY <1>2, <2>2, <2>3, <2>4 DEF Registered
  <2>5. CASE c # Announcer \/ service_id # Address
    BY <1>2, <2>1, <2>2, <2>3, <2>5 DEF Registered
  <2>6. CASE c = Announcer /\ call[c].pc \notin {"sent", "over"}
    BY <1>2, <2>2, <2>3, <2>6 DEF Registered
  <2> QED
    BY <2>4, <2>5, <2>6
<1> QED
  BY <1>1, <1>3, <1>3a, <1>4, <1>5, <1>6, <1>7

LEMMA GasPriceKeeps ==
  ASSUME IInv, NEW c \in Callers, GasPrice(c)
  PROVE  IInv'
<1>1. PICK p \in Prices :
        call' = [call EXCEPT ![c] = [pc |-> "nonce", payload |-> call[c].payload, price |-> p]]
  BY DEF GasPrice
<1> DEFINE r == [pc |-> "nonce", payload |-> call[c].payload, price |-> p]
<1>2. call[c].payload \in Payloads(c)
  BY CallFacts DEF GasPrice, IInv
<1>3. r \in Locals(c)
  BY <1>2 DEF Locals
<1>4. c = Announcer => service_id = Address /\ call[c].pc \notin {"sent", "over"}
  BY DEF GasPrice, IInv, AddressKnown
<1>5. UNCHANGED <<fileVars, chainVars, service_id, crashes>> /\ call[c].pc # "moved"
  BY DEF GasPrice
<1> QED
  BY <1>1, <1>3, <1>4, <1>5, LocalStep

LEMMA TransactionCountKeeps ==
  ASSUME IInv, NEW c \in Callers, TransactionCount(c)
  PROVE  IInv'
<1> DEFINE r == [pc |-> "send", payload |-> call[c].payload, price |-> call[c].price,
                 nonce |-> NextNonce]
<1>1. /\ NextNonce \in Nonces
      /\ call' = [call EXCEPT ![c] = r]
      /\ UNCHANGED <<fileVars, chainVars, service_id, crashes>> /\ call[c].pc # "moved"
  BY DEF TransactionCount
<1>2. call[c].payload \in Payloads(c) /\ call[c].price \in Prices
  BY CallFacts DEF TransactionCount, IInv
<1>3. r \in Locals(c)
  BY <1>1, <1>2 DEF Locals
<1>4. c = Announcer => service_id = Address /\ call[c].pc \notin {"sent", "over"}
  BY DEF TransactionCount, IInv, AddressKnown
<1>5. r.nonce <= Len(mined) + Cardinality(Pending) + 1
  <2>1. NextNonce \in Nat
    BY <1>1 DEF Nonces
  <2> QED
    BY <2>1 DEF NextNonce
<1> QED
  BY <1>1, <1>3, <1>4, <1>5, LocalStep

LEMMA CallEnds ==
  ASSUME IInv, NEW c \in Callers, call' = [call EXCEPT ![c] = AfterCall(c)],
         call[c].pc # "moved", UNCHANGED <<fileVars, chainVars, service_id, crashes>>
  PROVE  IInv'
<1>1. AfterCall(c) \in Locals(c)
  BY DEF AfterCall, Locals, AtRest, Idle
<1>2. AfterCall(c).pc \in {"over", "idle"} /\ (c = Announcer => AfterCall(c).pc = "over")
  BY DEF AfterCall, Idle
<1> QED
  BY <1>1, <1>2, LocalStep

LEMMA BeginKeeps ==
  ASSUME IInv, NEW c \in Calls, NEW m \in Magnets, Begin(c, m)
  PROVE  IInv'
<1> DEFINE r == [pc |-> "price", payload |-> m]
<1>1. c \in Callers /\ c # Announcer
  BY CallerFacts
<1>2. r \in Locals(c)
  BY <1>1 DEF Locals, Payloads
<1>3. /\ call' = [call EXCEPT ![c] = r] /\ call[c].pc # "moved"
      /\ UNCHANGED <<fileVars, chainVars, service_id, crashes>>
  BY DEF Begin
<1> QED
  BY <1>1, <1>2, <1>3, LocalStep

LEMMA AnnouncePeerKeeps ==
  ASSUME IInv, AnnouncePeer
  PROVE  IInv'
<1> DEFINE r == [pc |-> "price", payload |-> Registration(service_id)]
<1>1. service_id = Address
  BY DEF AnnouncePeer, IInv, AddressKnown
<1>2. r \in Locals(Announcer)
  BY <1>1 DEF Locals, Payloads
<1>3. /\ call' = [call EXCEPT ![Announcer] = r]
      /\ UNCHANGED <<fileVars, chainVars, service_id, crashes>>
      /\ call[Announcer].pc = "waiting"
  BY DEF AnnouncePeer
<1> QED
  BY <1>1, <1>2, <1>3, CallerFacts, LocalStep

\* The node takes a transaction: a new one at the end of the pool, or in place of
\* another.  A registration is taken once: this start's was nowhere before.
LEMMA NodeTakesKeeps ==
  ASSUME IInv, NEW c \in Callers, NodeTakes(c)
  PROVE  IInv'
<1> USE DEF IInv
<1>0. PICK n, x : n = call[c].nonce /\ x = call[c].payload
  OBVIOUS
<1> DEFINE tx == [payload |-> x, price |-> call[c].price]
<1>1. /\ call[c].pc = "send" /\ n > Len(mined) /\ call[c].price > pool[n].price
      /\ pool' = [pool EXCEPT ![n] = tx]
      /\ accepted' = accepted \cup {x}
      /\ call' = [call EXCEPT ![c] = [pc |-> "sent", payload |-> x]]
      /\ UNCHANGED <<fileVars, service_id, mined, crashes>>
  BY <1>0 DEF NodeTakes
<1>2. x \in Payloads(c) /\ call[c].price \in Prices /\ n \in Nonces
  BY <1>0, <1>1, CallFacts
<1>3. tx \in Transactions
  BY <1>2, PayloadFacts DEF Transactions
<1>4. /\ CallType'
      /\ call'[c] = [pc |-> "sent", payload |-> x]
      /\ \A d \in Callers \ {c} : call'[d] = call[d]
  <2>1. [pc |-> "sent", payload |-> x] \in Locals(c)
    BY <1>2 DEF Locals
  <2> QED
    BY <1>1, <2>1, CallUpdate
<1>5. ChainType'
  BY <1>1, <1>2, <1>3, PayloadFacts DEF ChainType
<1>6. FilesRight'
  <2>1. \A d \in Calls : \/ call'[d] = call[d]
                        \/ (call[d].pc # "moved" /\ call'[d].pc \notin {"made", "moved"})
    BY <1>1, <1>4, CallerFacts
  <2> QED
    BY <1>1, <2>1, FilesAlone
<1>7. Pending' = Pending \cup {n}
  BY <1>1, <1>2, <1>3, NumberFacts DEF Pending, ChainType, Transactions, NoTx
<1>8. PICK last \in Nat : last >= Len(mined) /\ Pending = (Len(mined) + 1) .. last
  BY DEF NoGap
<1>9. Len(mined) \in Nat /\ Cardinality(Pending) = last - Len(mined) /\ n \in Nat
  BY <1>2, <1>8, PendingFacts DEF Nonces
<1>10. n <= last + 1
  BY <1>0, <1>1, <1>8, <1>9 DEF NonceIsNext
<1>11. PICK end \in Nat : /\ end >= last
                          /\ Pending' = (Len(mined)' + 1) .. end /\ end >= Len(mined)'
  <2>1. CASE n = last + 1
    <3>1. Pending' = (Len(mined) + 1) .. (last + 1)
      BY <1>7, <1>8, <1>9, <2>1
    <3> QED
      BY <1>1, <1>8, <1>9, <2>1, <3>1
  <2>2. CASE n <= last
    <3>1. Pending' = (Len(mined) + 1) .. last
      BY <1>1, <1>7, <1>8, <1>9, <2>2
    <3> QED
      BY <1>1, <1>8, <1>9, <3>1
  <2> QED
    BY <1>9, <1>10, <2>1, <2>2
<1>12. NoGap'
  BY <1>11 DEF NoGap
<1>13. Cardinality(Pending)' = end - Len(mined)
  <2>1. Cardinality((Len(mined) + 1) .. end) = end - Len(mined)
    <3>1. Len(mined) + 1 \in Int /\ end \in Int /\ end >= Len(mined)
      BY <1>1, <1>9, <1>11
    <3>2. Cardinality((Len(mined) + 1) .. end)
            = IF Len(mined) + 1 > end THEN 0 ELSE end - (Len(mined) + 1) + 1
      BY <3>1, FS_Interval
    <3> QED
      BY <3>1, <3>2, <1>9
  <2> QED
    BY <1>1, <1>11, <2>1
<1>14. NonceIsNext'
  <2> SUFFICES ASSUME NEW d \in Callers, call'[d].pc = "send"
               PROVE  call'[d].nonce <= Len(mined)' + Cardinality(Pending)' + 1
    BY DEF NonceIsNext
  <2>1. d # c /\ call'[d] = call[d]
    BY <1>4
  <2>2. call[d].nonce \in Nat /\ call[d].nonce <= Len(mined) + Cardinality(Pending) + 1
    BY <2>1, CallFacts DEF Nonces, NonceIsNext
  <2> QED
    BY <1>1, <1>9, <1>11, <1>13, <2>1, <2>2
<1>15. SentAccepted'
  BY <1>1, <1>4 DEF SentAccepted
<1>16. AddressKnown' /\ (c = Announcer => service_id = Address)
  BY <1>1, <1>4 DEF AddressKnown, Address
<1>17. \A y : /\ OnChain(y)' = OnChain(y)
              /\ y # x => InPool(y)' \subseteq InPool(y)
              /\ y = x => InPool(y)' = InPool(y) \cup {n}
  BY <1>1, <1>2 DEF OnChain, InPool, ChainType
<1>18. Registered'
  <2>1. CASE c # Announcer
    <3>1. \A a \in Starts : Registration(a) # x
      BY <1>2, <2>1, PayloadsDiffer DEF Payloads, Registrations, Starts
    <3>2. call'[Announcer] = call[Announcer]
      BY <1>4, <2>1, CallerFacts
    <3>3. \A a \in Starts : /\ Once(Registration(a)) => Once(Registration(a))'
                            /\ Nowhere(Registration(a)) => Nowhere(Registration(a))'
      BY <1>1, <1>17, <3>1 DEF Once, Nowhere
    <3>4. Address' = Address /\ Address \in Nat
      BY <1>1, PayloadFacts DEF Address
    <3> QED
      <4>1. \A a \in Starts : Once(Registration(a))'
        BY <3>3 DEF Registered
      <4>2. \A a \in Starts : a > Address' \/ a = NoAddress => Nowhere(Registration(a))'
        BY <3>3, <3>4 DEF Registered
      <4>3. ~(service_id' = Address' /\ call'[Announcer].pc \in {"sent", "over"})
              => Nowhere(Registration(Address))'
        BY <1>1, <3>2, <3>3, <3>4, StartFacts DEF Registered
      <4> QED
        BY <3>4, <4>1, <4>2, <4>3 DEF Registered
  <2>2. CASE c = Announcer
    <3>1. x = Registration(Address) /\ Address \in Nat /\ Address' = Address /\ Address # NoAddress
      BY <1>1, <1>2, <2>2, PayloadFacts, NumberFacts DEF Payloads, Address
    <3>2. Nowhere(x)
      BY <1>1, <2>2, <3>1 DEF Registered
    <3>3. Once(x)'
      BY <1>17, <3>2 DEF Nowhere, Once
    <3>4. \A a \in Starts \ {Address} : Registration(a) # x
      BY <3>1, RegistrationFacts, StartFacts
    <3>5. \A a \in Starts \ {Address} :
            /\ Once(Registration(a)) => Once(Registration(a))'
            /\ Nowhere(Registration(a)) => Nowhere(Registration(a))'
      BY <1>1, <1>17, <3>4 DEF Once, Nowhere
    <3>6. call'[Announcer].pc = "sent" /\ service_id' = Address'
      BY <1>1, <1>4, <1>16, <2>2, <3>1
    <3>7. \A a \in Starts : Once(Registration(a))'
      BY <3>1, <3>3, <3>5 DEF Registered
    <3>8. \A a \in Starts : a > Address' \/ a = NoAddress => Nowhere(Registration(a))'
      BY <3>1, <3>5 DEF Registered
    <3> QED
      BY <3>6, <3>7, <3>8 DEF Registered
  <2> QED
    BY <2>1, <2>2
<1> QED
  BY <1>4, <1>5, <1>6, <1>12, <1>14, <1>15, <1>16, <1>18

\* The first of the pool is mined; what was once in the pool is once on the chain.
LEMMA MineKeeps ==
  ASSUME IInv, Mine
  PROVE  IInv'
<1> USE DEF IInv
<1>0. PICK next, x : next = Len(mined) + 1 /\ x = pool[next].payload
  OBVIOUS
<1>1. /\ next \in Pending
      /\ mined' = Append(mined, x)
      /\ pool' = [pool EXCEPT ![next] = NoTx]
      /\ UNCHANGED <<call, fileVars, service_id, accepted, crashes>>
  BY <1>0 DEF Mine
<1>2. next \in Nonces /\ pool[next] \in Transactions /\ x \in Magnets \cup Registrations
  BY <1>0, <1>1, PoolFacts DEF Pending, Transactions
<1>3. /\ Len(mined) \in Nat /\ Len(mined') = Len(mined) + 1
      /\ \A i \in 1 .. Len(mined) : mined'[i] = mined[i]
      /\ mined'[next] = x
      /\ DOMAIN mined = 1 .. Len(mined) /\ DOMAIN mined' = 1 .. next
  BY <1>0, <1>1, <1>2 DEF ChainType
<1>4. CallType' /\ SentAccepted' /\ AddressKnown'
  BY <1>1 DEF CallType, Locals, AtRest, Payloads, Registration, Address, SentAccepted, AddressKnown
<1>4a. FilesRight'
  BY <1>1, FilesAlone
<1>5. ChainType'
  BY <1>1, <1>2 DEF ChainType
<1>6. Pending' = Pending \ {next}
  BY <1>1, <1>2, NumberFacts DEF Pending, ChainType, Transactions, NoTx
<1>7. PICK last \in Nat : last >= Len(mined) /\ Pending = (Len(mined) + 1) .. last
  BY DEF NoGap
<1>8. last >= Len(mined') /\ Pending' = (Len(mined') + 1) .. last
  BY <1>0, <1>1, <1>3, <1>6, <1>7
<1>9. NoGap'
  BY <1>8 DEF NoGap
<1>10. Cardinality(Pending) = last - Len(mined) /\ Cardinality(Pending)' = last - Len(mined')
  <2>1. Cardinality(Pending) = last - Len(mined)
    BY <1>7, PendingFacts
  <2>2. /\ Len(mined') + 1 \in Int /\ last \in Int
    BY <1>3
  <2>3. Cardinality((Len(mined') + 1) .. last)
          = IF Len(mined') + 1 > last THEN 0 ELSE last - (Len(mined') + 1) + 1
    BY <2>2, FS_Interval
  <2> QED
    BY <1>3, <1>8, <2>1, <2>3
<1>11. NonceIsNext'
  <2> SUFFICES ASSUME NEW d \in Callers, call'[d].pc = "send"
               PROVE  call'[d].nonce <= Len(mined)' + Cardinality(Pending)' + 1
    BY DEF NonceIsNext
  <2>1. call[d].nonce <= Len(mined) + Cardinality(Pending) + 1
    BY <1>1 DEF NonceIsNext
  <2> QED
    BY <1>1, <1>3, <1>10, <2>1
<1>12. \A y : y # <<>> =>
              /\ InPool(y)' \subseteq InPool(y)
              /\ next \in InPool(y) <=> y = x
              /\ y # x => OnChain(y)' = OnChain(y)
              /\ y = x => OnChain(y)' = OnChain(y) \cup {next} /\ InPool(y)' = InPool(y) \ {next}
  <2> SUFFICES ASSUME NEW y, y # <<>>
               PROVE  /\ InPool(y)' \subseteq InPool(y)
                      /\ next \in InPool(y) <=> y = x
                      /\ y # x => OnChain(y)' = OnChain(y)
                      /\ y = x => /\ OnChain(y)' = OnChain(y) \cup {next}
                                  /\ InPool(y)' = InPool(y) \ {next}
    OBVIOUS
  <2>1. next \in InPool(y) <=> y = x
    BY <1>0, <1>2 DEF InPool
  <2>2. \A n \in Nonces \ {next} : pool'[n] = pool[n]
    BY <1>1 DEF ChainType
  <2>3. pool'[next].payload = <<>>
    BY <1>1, <1>2 DEF ChainType, NoTx
  <2>4. OnChain(y)' = IF y = x THEN OnChain(y) \cup {next} ELSE OnChain(y)
    BY <1>0, <1>3 DEF OnChain
  <2>5. y = x => InPool(y)' = InPool(y) \ {next}
    BY <2>2, <2>3 DEF InPool
  <2> QED
    BY <2>1, <2>2, <2>3, <2>4, <2>5 DEF InPool
<1>13. \A a \in Starts : /\ Once(Registration(a)) => Once(Registration(a))'
                         /\ Nowhere(Registration(a)) => Nowhere(Registration(a))'
  BY <1>1, <1>12, RegistrationFacts, StartFacts DEF Once, Nowhere
<1>14. Registered'
  BY <1>1, <1>13, StartFacts DEF Registered, Address
<1> QED
  BY <1>4, <1>4a, <1>5, <1>9, <1>11, <1>14

-----------------------------------------------------------------------------
(* Files.                                                                   *)

\* A step that touches neither the account nor the address nor a call of announce_peer.
LEMMA AccountAlone ==
  ASSUME IInv, UNCHANGED <<chainVars, service_id, crashes>>,
         call'[Announcer] = call[Announcer]
  PROVE  ChainType' /\ NoGap' /\ AddressKnown' /\ Registered'
<1>1. ChainType' /\ NoGap'
  BY DEF IInv, ChainType, NoGap, Pending, chainVars
<1>2. AddressKnown'
  BY DEF IInv, AddressKnown, Address
<1>3. \A x : InPool(x)' = InPool(x) /\ OnChain(x)' = OnChain(x)
  BY DEF InPool, OnChain, chainVars
<1>4. \A a \in Starts : /\ Once(Registration(a)) => Once(Registration(a))'
                        /\ Nowhere(Registration(a)) => Nowhere(Registration(a))'
  BY <1>3 DEF Once, Nowhere, chainVars
<1>5. Registered'
  BY <1>4, StartFacts DEF IInv, Registered, Address
<1> QED
  BY <1>1, <1>2, <1>5

LEMMA CreateDraftKeeps ==
  ASSUME IInv, NEW m \in Magnets, CreateDraft(m) \/ StoreAttempt(m) \/ DownloadOwn(m)
  PROVE  IInv'
<1> USE DEF IInv, FilesRight
<1>1. UNCHANGED <<call, chainVars, service_id, crashes, placed, announced, cut>>
  BY DEF CreateDraft, StoreAttempt, DownloadOwn
<1>2. /\ drafts' \in {drafts, drafts \cup {m}} /\ directories' \in {directories, directories \cup {m}}
      /\ downloaded' \in {downloaded, downloaded \cup {m}}
      /\ drafts' # drafts => m \notin placed
      /\ downloaded' # downloaded => m \in placed
  BY DEF CreateDraft, StoreAttempt, DownloadOwn
<1>3. CallType' /\ NonceIsNext' /\ SentAccepted' /\ PlacedAccepted' /\ OneBusy'
  BY <1>1 DEF CallType, Locals, AtRest, Payloads, Registration, Address, NonceIsNext, SentAccepted,
              PlacedAccepted, OneBusy, Busy, Pending, chainVars
<1>4. FileType' /\ Halfway'
  BY <1>1, <1>2 DEF FileType, Halfway
<1>5. AnnouncedOnce'
  BY <1>1, <1>2 DEF AnnouncedOnce, PlacedAccepted, chainVars
<1> QED
  BY <1>1, <1>3, <1>4, <1>5, AccountAlone

\* The calls of a step that moves a file on.
LEMMA MovingStep ==
  ASSUME IInv, NEW c \in Calls, NEW r, NEW m, m = call[c].payload,
         r \in {[pc |-> "made", payload |-> m], [pc |-> "moved", payload |-> m], Idle},
         call[c].pc \in {"sent", "made", "moved"},
         call' = [call EXCEPT ![c] = r],
         UNCHANGED <<service_id, chainVars, crashes>>
  PROVE  /\ m \in Magnets /\ m \in accepted
         /\ call'[c] = r /\ \A d \in Callers \ {c} : call'[d] = call[d]
         /\ CallType' /\ NonceIsNext' /\ SentAccepted'
         /\ ChainType' /\ NoGap' /\ AddressKnown' /\ Registered'
<1> USE DEF IInv
<1>1. c \in Callers /\ c # Announcer
  BY CallerFacts
<1>2. m \in Magnets /\ m \in accepted
  BY <1>1, CallFacts DEF SentAccepted, Payloads
<1>3. /\ CallType'
      /\ call'[c] = r
      /\ \A d \in Callers \ {c} : call'[d] = call[d]
  <2>1. r \in Locals(c)
    BY <1>1, <1>2 DEF Idle, Locals, AtRest, Payloads
  <2> QED
    BY <1>1, <2>1, CallUpdate
<1>4. NonceIsNext' /\ SentAccepted'
  BY <1>2, <1>3 DEF NonceIsNext, SentAccepted, Idle, Pending, chainVars
<1>5. call'[Announcer] = call[Announcer]
  BY <1>1, <1>3, CallerFacts
<1> QED
  BY <1>2, <1>3, <1>4, <1>5, AccountAlone

\* The directory is new, so its file is not in place; nobody else is moving one.
LEMMA MakeDirectoryKeeps ==
  ASSUME IInv, NEW c \in Calls, Resting, MakeDirectory(c)
  PROVE  IInv'
<1> USE DEF IInv, FilesRight
<1>0. PICK m : m = call[c].payload
  OBVIOUS
<1>1. /\ call[c].pc = "sent" /\ m \in drafts /\ m \notin directories
      /\ directories' = directories \cup {m}
      /\ call' = [call EXCEPT ![c] = [pc |-> "made", payload |-> m]]
      /\ UNCHANGED <<drafts, placed, announced, cut, downloaded, service_id, chainVars, crashes>>
  BY <1>0 DEF MakeDirectory, MayFinish, MakesDirectory
<1>2. /\ m \in Magnets /\ m \in accepted
      /\ call'[c] = [pc |-> "made", payload |-> m] /\ \A d \in Callers \ {c} : call'[d] = call[d]
      /\ CallType' /\ NonceIsNext' /\ SentAccepted'
      /\ ChainType' /\ NoGap' /\ AddressKnown' /\ Registered'
  BY <1>0, <1>1, MovingStep
<1>3. \A d \in Calls : d # c => call'[d] = call[d] /\ call[d].pc \notin {"made", "moved"}
  BY <1>2, CallerFacts DEF Resting, Busy
<1>4. FileType' /\ PlacedAccepted'
  BY <1>1, <1>2 DEF FileType, PlacedAccepted, chainVars
<1>5. OneBusy' /\ Halfway'
  BY <1>1, <1>2, <1>3 DEF OneBusy, Halfway, Busy, FileType
<1>6. AnnouncedOnce'
  BY <1>1, <1>2, <1>3 DEF AnnouncedOnce, chainVars
<1> QED
  BY <1>2, <1>4, <1>5, <1>6

\* The file was not in place, and the publish() that moves it has yet to announce it.
LEMMA MoveDraftKeeps ==
  ASSUME IInv, NEW c \in Calls, MoveDraft(c)
  PROVE  IInv'
<1> USE DEF IInv, FilesRight
<1>0. PICK m : m = call[c].payload
  OBVIOUS
<1>1. /\ call[c].pc = "made" /\ drafts' = drafts \ {m} /\ placed' = placed \cup {m}
      /\ call' = [call EXCEPT ![c] = [pc |-> "moved", payload |-> m]]
      /\ UNCHANGED <<directories, announced, cut, downloaded, service_id, chainVars, crashes>>
  BY <1>0 DEF MoveDraft, Rename
<1>2. /\ m \in Magnets /\ m \in accepted
      /\ call'[c] = [pc |-> "moved", payload |-> m] /\ \A d \in Callers \ {c} : call'[d] = call[d]
      /\ CallType' /\ NonceIsNext' /\ SentAccepted'
      /\ ChainType' /\ NoGap' /\ AddressKnown' /\ Registered'
  BY <1>0, <1>1, MovingStep
<1>3. \A d \in Calls : d # c => call'[d] = call[d] /\ call[d].pc \notin {"made", "moved"}
  BY <1>1, <1>2, CallerFacts DEF OneBusy, Busy
<1>3a. m \in directories \ placed
  BY <1>0, <1>1 DEF Halfway
<1>4. FileType' /\ PlacedAccepted'
  BY <1>1, <1>2, <1>3a DEF FileType, PlacedAccepted, chainVars
<1>5. OneBusy' /\ Halfway'
  BY <1>1, <1>2, <1>3, <1>3a DEF OneBusy, Halfway, Busy, FileType
<1>6. AnnouncedOnce'
  <2> SUFFICES ASSUME NEW o \in Magnets
               PROVE  /\ announced[o] = IF \/ o \notin placed' \/ o \in cut
                                           \/ \E d \in Calls : call'[d].pc = "moved" /\ call'[d].payload = o
                                        THEN 0 ELSE 1
                      /\ ~(o \in drafts' /\ o \in placed')
                      /\ announced[o] > 0 \/ o \in downloaded => o \in placed' \cap accepted
    BY <1>1 DEF AnnouncedOnce, chainVars
  <2>1. CASE o = m
    BY <1>1, <1>2, <1>3a, <2>1 DEF AnnouncedOnce
  <2>2. CASE o # m
    <3>1. \A d \in Calls : ~(call[d].pc = "moved" /\ call[d].payload = o)
                          /\ ~(call'[d].pc = "moved" /\ call'[d].payload = o)
      BY <1>1, <1>2, <1>3, <2>2
    <3> QED
      BY <1>1, <2>2, <3>1 DEF AnnouncedOnce
  <2> QED
    BY <2>1, <2>2
<1> QED
  BY <1>2, <1>4, <1>5, <1>6

\* The announcement, which was not made before.
LEMMA EmitFinishedKeeps ==
  ASSUME IInv, NEW c \in Calls, EmitFinished(c)
  PROVE  IInv'
<1> USE DEF IInv, FilesRight
<1>0. PICK m : m = call[c].payload
  OBVIOUS
<1>1. /\ call[c].pc = "moved" /\ announced' = [announced EXCEPT ![m] = @ + 1]
      /\ call' = [call EXCEPT ![c] = Idle]
      /\ UNCHANGED <<drafts, directories, placed, cut, downloaded, service_id, chainVars, crashes>>
  BY <1>0, CallerFacts DEF EmitFinished, AfterCall
<1>2. /\ m \in Magnets /\ m \in accepted
      /\ call'[c] = Idle /\ \A d \in Callers \ {c} : call'[d] = call[d]
      /\ CallType' /\ NonceIsNext' /\ SentAccepted'
      /\ ChainType' /\ NoGap' /\ AddressKnown' /\ Registered'
  BY <1>0, <1>1, MovingStep
<1>3. \A d \in Calls : d # c => call'[d] = call[d] /\ call[d].pc \notin {"made", "moved"}
  BY <1>1, <1>2, CallerFacts DEF OneBusy, Busy
<1>3a. m \in placed \ cut /\ announced[m] = 0
  BY <1>0, <1>1, <1>2 DEF Halfway, AnnouncedOnce
<1>4. FileType' /\ PlacedAccepted'
  BY <1>1, <1>2, <1>3a DEF FileType, PlacedAccepted, chainVars
<1>5. OneBusy' /\ Halfway'
  BY <1>1, <1>2, <1>3 DEF OneBusy, Halfway, Busy, Idle
<1>6. AnnouncedOnce'
  <2> SUFFICES ASSUME NEW o \in Magnets
               PROVE  /\ announced'[o] = IF \/ o \notin placed \/ o \in cut
                                            \/ \E d \in Calls : call'[d].pc = "moved" /\ call'[d].payload = o
                                         THEN 0 ELSE 1
                      /\ ~(o \in drafts /\ o \in placed)
                      /\ announced'[o] > 0 \/ o \in downloaded => o \in placed \cap accepted
    BY <1>1 DEF AnnouncedOnce, chainVars
  <2>0. \A d \in Calls : call'[d].pc # "moved"
    BY <1>2, <1>3 DEF Idle
  <2>1. CASE o = m
    <3>1. announced'[o] = 1
      BY <1>1, <1>3a, <2>1, <1>2 DEF FileType
    <3> QED
      BY <1>2, <1>3a, <2>0, <2>1, <3>1 DEF AnnouncedOnce
  <2>2. CASE o # m
    <3>1. announced'[o] = announced[o]
      BY <1>1, <2>2 DEF FileType
    <3>2. \A d \in Calls : ~(call[d].pc = "moved" /\ call[d].payload = o)
      BY <1>0, <1>3, <2>2
    <3> QED
      BY <2>0, <3>1, <3>2 DEF AnnouncedOnce
  <2> QED
    BY <2>1, <2>2
<1> QED
  BY <1>2, <1>4, <1>5, <1>6

-----------------------------------------------------------------------------
(* Starts.                                                                  *)

LEMMA CreateHiddenServiceKeeps ==
  ASSUME IInv, CreateHiddenService
  PROVE  IInv'
<1> USE DEF IInv
<1>1. /\ service_id = NoAddress /\ service_id' = Address
      /\ UNCHANGED <<call, fileVars, chainVars, crashes>>
  BY DEF CreateHiddenService
<1>2. Address # NoAddress /\ Address' = Address
  BY <1>1, StartFacts, NumberFacts DEF Address
<1>3. call[Announcer].pc \notin {"price", "nonce", "send", "sent"}
  BY <1>1, <1>2 DEF AddressKnown
<1>4. CallType' /\ ChainType' /\ NoGap' /\ NonceIsNext' /\ SentAccepted'
  BY <1>1 DEF CallType, Locals, AtRest, Payloads, Registration, Address, ChainType, NoGap,
              NonceIsNext, SentAccepted, Pending, fileVars, chainVars
<1>5. FilesRight'
  BY <1>1, FilesAlone DEF chainVars
<1>6. AddressKnown'
  BY <1>1, <1>2 DEF AddressKnown
<1>7. \A a \in Starts : /\ Once(Registration(a)) => Once(Registration(a))'
                        /\ Nowhere(Registration(a)) => Nowhere(Registration(a))'
  BY <1>1 DEF Once, Nowhere, InPool, OnChain, chainVars
<1>8. Registered'
  BY <1>1, <1>2, <1>7, StartFacts DEF Registered
<1> QED
  BY <1>4, <1>5, <1>6, <1>8

\* The next start makes another address, which nobody has registered.
LEMMA CrashKeeps ==
  ASSUME IInv, Crash
  PROVE  IInv'
<1> USE DEF IInv
<1>1. /\ crashes < MaxCrashes /\ crashes' = crashes + 1 /\ call' = Started
      /\ service_id' = NoAddress
      /\ cut' = cut \cup { m \in placed :
                          \E c \in Calls : call[c].pc = "moved" /\ call[c].payload = m }
      /\ UNCHANGED <<drafts, directories, placed, announced, downloaded, chainVars>>
  BY DEF Crash
<1>2. Address' = Address + 1 /\ Address' \in Starts /\ Address' # NoAddress
  <2>1. crashes \in Nat
    BY NumberFacts DEF ChainType
  <2> QED
    BY <1>1, <2>1, NumberFacts DEF Address, Starts
<1>3. CallType'
  BY <1>1 DEF Started, CallType, Locals, AtRest, Idle
<1>4. ChainType' /\ NoGap'
  BY <1>1, NumberFacts DEF ChainType, NoGap, Pending, fileVars, chainVars
<1>5. NonceIsNext' /\ SentAccepted'
  BY <1>1 DEF Started, Idle, NonceIsNext, SentAccepted
<1>6. FilesRight'
  <2>1. \A c \in Calls : call'[c].pc \notin {"made", "moved"}
    BY <1>1, CallerFacts DEF Started, Idle
  <2>2. FileType' /\ PlacedAccepted'
    BY <1>1 DEF FilesRight, FileType, PlacedAccepted, chainVars
  <2>3. OneBusy' /\ Halfway'
    BY <2>1 DEF OneBusy, Halfway, Busy
  <2>4. AnnouncedOnce'
    BY <1>1, <2>1 DEF FilesRight, AnnouncedOnce, chainVars
  <2> QED
    BY <2>2, <2>3, <2>4 DEF FilesRight
<1>7. AddressKnown'
  BY <1>1, CallerFacts DEF Started, AddressKnown
<1>8. \A a \in Starts : /\ Once(Registration(a)) => Once(Registration(a))'
                        /\ Nowhere(Registration(a)) => Nowhere(Registration(a))'
  BY <1>1 DEF Once, Nowhere, InPool, OnChain, chainVars
<1>9. Registered'
  BY <1>1, <1>2, <1>8, StartFacts DEF Registered
<1> QED
  BY <1>3, <1>4, <1>5, <1>6, <1>7, <1>9

LEMMA NextKeeps ==
  ASSUME IInv, [Next]_vars
  PROVE  IInv'
<1>1. ASSUME NEW c \in Callers,
             GasPrice(c) \/ TransactionCount(c) \/ NodeTakes(c) \/ NodeFails(c)
      PROVE  IInv'
  <2>1. CASE NodeFails(c)
    <3>1. call[c].pc # "moved"
      BY <2>1 DEF NodeFails
    <3> QED
      BY <2>1, <3>1, CallEnds DEF NodeFails
  <2> QED
    BY <1>1, <2>1, GasPriceKeeps, TransactionCountKeeps, NodeTakesKeeps
<1>2. ASSUME NEW c \in Calls, NEW m \in Magnets, Begin(c, m) PROVE IInv'
  BY <1>2, BeginKeeps
<1>3. CASE FinishAnnounce
  <2>1. call[Announcer].pc # "moved"
    BY <1>3 DEF FinishAnnounce
  <2> QED
    BY <1>3, <2>1, CallEnds, CallerFacts DEF FinishAnnounce
<1>4. CASE UNCHANGED vars
  <2>1. \A x : InPool(x)' = InPool(x) /\ OnChain(x)' = OnChain(x)
    BY <1>4 DEF InPool, OnChain, vars, chainVars
  <2>2. /\ UNCHANGED <<chainVars, service_id, crashes, call>>
        /\ CallType' /\ NonceIsNext' /\ SentAccepted'
    BY <1>4 DEF IInv, CallType, Locals, AtRest, Payloads, Registration, Address,
                NonceIsNext, SentAccepted, Pending, vars, chainVars
  <2>3. FilesRight'
    BY <1>4, FilesAlone DEF IInv, vars, chainVars
  <2> QED
    BY <2>2, <2>3, AccountAlone DEF IInv
<1>5. ASSUME NEW m \in Magnets, CreateDraft(m) \/ StoreAttempt(m) \/ DownloadOwn(m)
      PROVE  IInv'
  BY <1>5, CreateDraftKeeps
<1>6. ASSUME NEW c \in Calls, Resting, MakeDirectory(c) PROVE IInv'
  BY <1>6, MakeDirectoryKeeps
<1>7. ASSUME NEW c \in Calls, MoveDraft(c) \/ EmitFinished(c) PROVE IInv'
  BY <1>7, MoveDraftKeeps, EmitFinishedKeeps
<1>8. ASSUME NEW c \in Calls, DirectoryRaises(c) \/ MoveRaises(c) PROVE IInv'
  <2>1. c \in Callers /\ call[c].pc # "moved"
    BY <1>8, CallerFacts DEF DirectoryRaises, MoveRaises
  <2> QED
    BY <1>8, <2>1, CallEnds DEF DirectoryRaises, MoveRaises
<1> QED
  BY <1>1, <1>2, <1>3, <1>4, <1>5, <1>6, <1>7, <1>8, CreateHiddenServiceKeeps, AnnouncePeerKeeps,
     MineKeeps, CrashKeeps
  DEF Next, Coroutines

LEMMA Invariant == Spec => []IInv
<1>1. IInv /\ [Next]_vars => IInv'
  BY NextKeeps
<1> QED
  BY InitInv, <1>1, PTL DEF Spec

-----------------------------------------------------------------------------
(* The theorems.                                                            *)

\* Types, and the account's nonces: the pool follows the chain without a gap, and a
\* call signs with the next nonce or one that was next.
THEOREM TypeCorrect == Spec => []TypeOK
<1>1. ASSUME IInv PROVE TypeOK
  <2>1. ASSUME NEW c \in Callers
        PROVE  /\ call[c].pc \in {"price", "nonce", "send", "sent"}
                    \cup IF c = Announcer THEN {"waiting", "over"} ELSE {"idle", "made", "moved"}
               /\ call[c].pc = "send" => call[c].nonce <= Len(mined) + Cardinality(Pending) + 1
    BY <1>1, CallFacts DEF IInv, NonceIsNext
  <2>2. Pending = (Len(mined) + 1) .. (Len(mined) + Cardinality(Pending))
    <3>1. PICK last \in Nat : last >= Len(mined) /\ Pending = (Len(mined) + 1) .. last
      BY <1>1 DEF IInv, NoGap
    <3>2. Len(mined) \in Nat /\ Cardinality(Pending) = last - Len(mined)
      BY <1>1, <3>1, PendingFacts DEF IInv
    <3>3. Len(mined) + Cardinality(Pending) = last
      BY <3>2
    <3> QED
      BY <3>1, <3>3
  <2> QED
    BY <1>1, <2>1, <2>2 DEF IInv, TypeOK, FilesRight, FileType, ChainType, AddressKnown
<1> QED
  BY <1>1, Invariant, PTL

\* A published file is in place once, and publish() announced it once unless it died
\* between the two, however many calls publish it and whatever step of theirs fails.
THEOREM OnceAnnounced == Spec => []AnnouncedOnce
<1>1. IInv => AnnouncedOnce
  BY DEF IInv, FilesRight
<1> QED
  BY <1>1, Invariant, PTL

\* No file gets in place before the node accepted a transaction that pays for it.
THEOREM PaidBefore == Spec => []PlacedAccepted
<1>1. IInv => PlacedAccepted
  BY DEF IInv, FilesRight
<1> QED
  BY <1>1, Invariant, PTL

\* At most one of two elements.
LEMMA AtMostOne ==
  ASSUME NEW S, \A x \in S, y \in S : x = y
  PROVE  IsFiniteSet(S) /\ Cardinality(S) = IF S = {} THEN 0 ELSE 1
<1>1. CASE S = {}
  BY <1>1, FS_EmptySet
<1>2. CASE S # {}
  <2>1. PICK x : S = {x}
    BY <1>2
  <2> QED
    BY <1>2, <2>1, FS_Singleton
<1> QED
  BY <1>1, <1>2

\* Every start of the node pays for one registration at most, of an address it has
\* got, for any number of transactions, replacements and restarts.
THEOREM OneRegistration == Spec => []RegistersOnce
<1>1. ASSUME IInv PROVE RegistersOnce
  <2> SUFFICES ASSUME NEW a \in NoAddress .. Address
               PROVE  LET x == Registration(a) IN
                      /\ Cardinality(InPool(x)) + Cardinality(OnChain(x)) <= 1
                      /\ x \in accepted => a # NoAddress /\ (a = Address => service_id = a)
    BY DEF RegistersOnce
  <2> DEFINE x == Registration(a)
  <2>1. a \in Starts /\ Address \in Nat /\ Address > 0
    BY <1>1, StartFacts, NumberFacts DEF IInv, Starts
  <2>2. Once(x)
    BY <1>1, <2>1 DEF IInv, Registered
  <2>3. /\ Cardinality(InPool(x)) = IF InPool(x) = {} THEN 0 ELSE 1
        /\ Cardinality(OnChain(x)) = IF OnChain(x) = {} THEN 0 ELSE 1
    BY <2>2, AtMostOne DEF Once
  <2>4. Cardinality(InPool(x)) + Cardinality(OnChain(x)) <= 1
    BY <2>2, <2>3 DEF Once
  <2>5. x \in accepted => a # NoAddress /\ (a = Address => service_id = a)
    BY <1>1, <2>1 DEF IInv, Registered, Nowhere
  <2> QED
    BY <2>4, <2>5
<1> QED
  BY <1>1, Invariant, PTL

-----------------------------------------------------------------------------
(* Bundles.                                                                 *)

LEMMA BundleFacts == B!None \notin Texts
  BY PartsAssumption DEF B!BundleAssumption

LEMMA KindsDiffer ==
  /\ B!Raised # B!Nothing
  /\ B!Raised.type = "raised" /\ B!Nothing.type = "none"
  BY DEF B!Raised, B!Nothing, B!None

\* Text t in the bundle created at place i.
Draft(t, i) == [names |-> {"content.json"}, json |-> B!ContentJSON(B!None, t, i)]

Drafts == { Draft(t, i) : t \in Texts, i \in Nat }

\* A node shows what a bundle renders to, where this is decided by its content.json, or
\* nothing.  What was processed is shown if it can be.
Rendered(b) == B!RenderContentJSON(b)

Shows ==
  /\ DOMAIN posts = Nodes
  /\ \A n \in Nodes : DOMAIN posts[n] = B!Bundles
  /\ \A n \in Nodes, b \in B!Bundles :
       /\ posts[n][b].type \in {"str", "bytes", "none"}
       /\ "content.json" \in b.names => posts[n][b] \in {B!Nothing, Rendered(b)}

Kept ==
  /\ processed \subseteq Nodes \X { b \in B!Bundles : "content.json" \in b.names }
  /\ \A n \in Nodes, b \in B!Bundles :
       <<n, b>> \in processed /\ Rendered(b) # B!Raised => posts[n][b] = Rendered(b)

Bundled == created \in Seq(Drafts) /\ Shows /\ Kept

LEMMA RenderedTypes ==
  ASSUME NEW b
  PROVE  /\ Rendered(b).type \in {"str", "raised"}
         /\ Rendered(b) # B!Nothing
         /\ Rendered(b) # B!Raised => Rendered(b).type = "str"
  BY DEF Rendered, B!RenderContentJSON, B!Raised, B!Nothing, B!None

\* A created bundle renders to its text.
LEMMA DraftFacts ==
  ASSUME NEW b \in Drafts
  PROVE  /\ b.names = {"content.json"}
         /\ Rendered(b) = IF b.json.text # "" THEN [type |-> "str", of |-> b.json.text] ELSE B!Raised
<1>1. PICK t \in Texts, i \in Nat : b = Draft(t, i)
  BY DEF Drafts
<1>2. /\ b.names = {"content.json"} /\ b.json.valid = TRUE /\ b.json.index = B!None /\ b.json.text = t
  BY <1>1 DEF Draft, B!ContentJSON
<1> QED
  BY <1>2, BundleFacts DEF Rendered, B!RenderContentJSON

LEMMA BundlesFacts ==
  ASSUME Bundled
  PROVE  \A b \in B!Bundles : b \in ForeignBundles \/ b \in Drafts
<1>1. created \in Seq(Drafts)
  BY DEF Bundled
<1>2. \A i \in DOMAIN created : created[i] \in Drafts
  BY <1>1
<1> QED
  BY <1>2 DEF B!Bundles

LEMMA BundledInit == B!Init => Bundled
<1> SUFFICES ASSUME B!Init PROVE Bundled
  OBVIOUS
<1>1. created = <<>> /\ processed = {} /\ posts = [n \in Nodes |-> [b \in ForeignBundles |-> B!Nothing]]
  BY DEF B!Init
<1>2. created \in Seq(Drafts) /\ B!Bundles = ForeignBundles
  BY <1>1 DEF B!Bundles
<1>3. Shows
  BY <1>1, <1>2, KindsDiffer DEF Shows
<1> QED
  BY <1>1, <1>2, <1>3 DEF Bundled, Kept

LEMMA CreatePostKeeps ==
  ASSUME Bundled, NEW t \in Texts, B!CreatePost(t)
  PROVE  Bundled'
<1> DEFINE new == Draft(t, Len(created) + 1)
<1>1. created \in Seq(Drafts) /\ Len(created) \in Nat
  BY DEF Bundled
<1>2. B!NewBundle(t) = new
  BY DEF B!NewBundle, Draft
<1>3. /\ created' = Append(created, new) /\ UNCHANGED processed
      /\ posts' = [n \in Nodes |-> [b \in DOMAIN posts[n] \cup {new} |->
                     IF b \in DOMAIN posts[n] THEN posts[n][b] ELSE B!Nothing]]
  BY <1>2 DEF B!CreatePost
<1>4. new \in Drafts
  BY <1>1 DEF Drafts
<1> HIDE DEF new
<1>5. created' \in Seq(Drafts)
  BY <1>1, <1>3, <1>4
<1>6. B!Bundles' = B!Bundles \cup {new}
  <2>1. { created'[i] : i \in DOMAIN created' } = { created[i] : i \in DOMAIN created } \cup {new}
    <3>1. /\ DOMAIN created' = DOMAIN created \cup {Len(created) + 1}
          /\ \A i \in DOMAIN created : created'[i] = created[i]
          /\ created'[Len(created) + 1] = new
      BY <1>1, <1>3, <1>4
    <3> QED
      BY <3>1
  <2> QED
    BY <2>1 DEF B!Bundles
<1>7. ASSUME NEW n \in Nodes
      PROVE  /\ DOMAIN posts'[n] = B!Bundles \cup {new}
             /\ \A b \in B!Bundles : posts'[n][b] = posts[n][b]
             /\ posts'[n][new] = B!Nothing \/ new \in B!Bundles
  BY <1>3 DEF Bundled, Shows
<1>8. Shows'
  <2>1. DOMAIN posts' = Nodes
    BY <1>3
  <2>2. ASSUME NEW n \in Nodes, NEW b \in B!Bundles \cup {new}
        PROVE  /\ posts'[n][b].type \in {"str", "bytes", "none"}
               /\ "content.json" \in b.names => posts'[n][b] \in {B!Nothing, Rendered(b)}
    BY <1>7, KindsDiffer DEF Bundled, Shows
  <2> QED
    BY <1>6, <1>7, <2>1, <2>2 DEF Shows
<1>9. Kept'
  BY <1>3, <1>6, <1>7 DEF Bundled, Kept
<1> QED
  BY <1>5, <1>8, <1>9 DEF Bundled

LEMMA ProcessKeeps ==
  ASSUME Bundled, NEW n \in Nodes, NEW b \in B!Bundles, B!Process(n, b)
  PROVE  Bundled'
<1> DEFINE content == B!RenderMarkdown(order[n], b)
           new == B!Stored(posts[n][b], content)
<1>1. /\ posts' = [posts EXCEPT ![n][b] = new] /\ UNCHANGED created
      /\ processed' = processed \cup ({<<n, b>>} \ (Nodes \X ForeignBundles))
  BY DEF B!Process
<1>2. /\ posts[n][b].type \in {"str", "bytes", "none"}
      /\ "content.json" \in b.names => posts[n][b] \in {B!Nothing, Rendered(b)}
      /\ b \in DOMAIN posts[n] /\ n \in DOMAIN posts
  BY DEF Bundled, Shows
<1>3. "content.json" \in b.names => content = Rendered(b)
  BY DEF B!RenderMarkdown, Rendered
<1>4. content.type \in {"str", "bytes", "none"} \/ content = B!Raised
  BY RenderedTypes, KindsDiffer DEF B!RenderMarkdown, Rendered, B!RenderFile
<1> HIDE DEF content
<1>5. /\ new.type \in {"str", "bytes", "none"}
      /\ "content.json" \in b.names => new \in {B!Nothing, Rendered(b)}
      /\ "content.json" \in b.names /\ Rendered(b) # B!Raised => new = Rendered(b)
  BY <1>2, <1>3, <1>4, RenderedTypes DEF B!Stored
<1>6. B!Bundles' = B!Bundles
  BY <1>1 DEF B!Bundles
<1> HIDE DEF new
<1>7. /\ DOMAIN posts' = Nodes
      /\ \A m \in Nodes : DOMAIN posts'[m] = B!Bundles
      /\ posts'[n][b] = new
      /\ \A m \in Nodes, c \in B!Bundles : <<m, c>> # <<n, b>> => posts'[m][c] = posts[m][c]
  BY <1>1, <1>2 DEF Bundled, Shows
<1>8. Shows'
  <2>1. ASSUME NEW m \in Nodes, NEW c \in B!Bundles
        PROVE  /\ posts'[m][c].type \in {"str", "bytes", "none"}
               /\ "content.json" \in c.names => posts'[m][c] \in {B!Nothing, Rendered(c)}
    <3>1. CASE m = n /\ c = b
      BY <1>5, <1>7, <3>1
    <3>2. CASE ~ (m = n /\ c = b)
      BY <1>7, <3>2 DEF Bundled, Shows
    <3> QED
      BY <3>1, <3>2
  <2> QED
    BY <1>6, <1>7, <2>1 DEF Shows
<1>9. Kept'
  <2>1. <<n, b>> \in processed' => "content.json" \in b.names
    <3>1. CASE b \in ForeignBundles
      BY <1>1, <3>1 DEF Bundled, Kept
    <3>2. CASE b \in Drafts
      BY <3>2, DraftFacts
    <3> QED
      BY <3>1, <3>2, BundlesFacts
  <2>2. processed' \subseteq Nodes \X { c \in B!Bundles : "content.json" \in c.names }
    BY <1>1, <2>1 DEF Bundled, Kept
  <2>3. ASSUME NEW m \in Nodes, NEW c \in B!Bundles, <<m, c>> \in processed', Rendered(c) # B!Raised
        PROVE  posts'[m][c] = Rendered(c)
    <3>1. CASE m = n /\ c = b
      BY <1>5, <1>7, <2>1, <2>3, <3>1
    <3>2. CASE ~ (m = n /\ c = b)
      <4>1. <<m, c>> \in processed
        BY <1>1, <2>3, <3>2
      <4> QED
        BY <1>7, <2>3, <3>2, <4>1 DEF Bundled, Kept
    <3> QED
      BY <3>1, <3>2
  <2> QED
    BY <1>6, <2>2, <2>3 DEF Kept
<1> QED
  BY <1>1, <1>8, <1>9 DEF Bundled

LEMMA BundledNext == Bundled /\ [B!Next]_(B!vars) => Bundled'
<1> SUFFICES ASSUME Bundled, [B!Next]_(B!vars) PROVE Bundled'
  OBVIOUS
<1>1. ASSUME NEW t \in Texts, B!CreatePost(t) PROVE Bundled'
  BY <1>1, CreatePostKeeps
<1>2. ASSUME NEW n \in Nodes, NEW b \in B!Bundles, B!Process(n, b) PROVE Bundled'
  BY <1>2, ProcessKeeps
<1>3. ASSUME UNCHANGED <<created, posts, processed>> PROVE Bundled'
  <2>1. B!Bundles' = B!Bundles
    BY <1>3 DEF B!Bundles
  <2> QED
    BY <1>3, <2>1 DEF Bundled, Shows, Kept
<1>4. ASSUME NEW n \in Nodes, B!Restart(n) PROVE Bundled'
  BY <1>3, <1>4 DEF B!Restart
<1>5. CASE UNCHANGED B!vars
  BY <1>3, <1>5 DEF B!vars
<1> QED
  BY <1>1, <1>2, <1>4, <1>5 DEF B!Next

\* CreatedReadable: what create_post wrote is what every node shows that has processed
\* it, whatever the order of its sets, and however often it starts and processes again.
THEOREM DraftsAreRead == B!Spec => []CreatedReadable
<1>1. Bundled => CreatedReadable
  <2> DEFINE Right(b) == [type |-> "str", of |-> b.json.text]
  <2> SUFFICES ASSUME Bundled, NEW n \in Nodes, NEW i \in DOMAIN created
               PROVE  /\ posts[n][created[i]] \in {B!Nothing, Right(created[i])}
                      /\ <<n, created[i]>> \in processed /\ created[i].json.text # "" =>
                           posts[n][created[i]] = Right(created[i])
    BY DEF CreatedReadable, B!CreatedReadable
  <2>0. PICK b : b = created[i]
    OBVIOUS
  <2> DEFINE right == Right(b)
  <2>1. b \in Drafts /\ b \in B!Bundles
    <3>1. created \in Seq(Drafts)
      BY DEF Bundled
    <3> QED
      BY <2>0, <3>1 DEF B!Bundles
  <2>2. /\ b.names = {"content.json"}
        /\ Rendered(b) = IF b.json.text # "" THEN right ELSE B!Raised
    BY <2>1, DraftFacts
  <2>3. right # B!Raised
    BY DEF B!Raised
  <2>4. posts[n][b] \in {B!Nothing, Rendered(b)} /\ posts[n][b] # B!Raised
    BY <2>1, <2>2, KindsDiffer DEF Bundled, Shows
  <2> HIDE DEF right
  <2>5. /\ posts[n][b] \in {B!Nothing, right}
        /\ <<n, b>> \in processed /\ b.json.text # "" => posts[n][b] = right
    BY <2>1, <2>2, <2>3, <2>4 DEF Bundled, Kept
  <2> QED
    BY <2>0, <2>5 DEF right
<1> QED
  BY <1>1, BundledInit, BundledNext, PTL DEF B!Spec

\* JSONDecides: bundles with a content.json read the same for all, and a bundle that
\* cannot be read leaves no trace.
THEOREM JSONIsForAll == B!Spec => []JSONDecides
<1>1. Bundled => JSONDecides
  <2> SUFFICES ASSUME Bundled PROVE JSONDecides
    OBVIOUS
  <2>1. ASSUME NEW n \in Nodes, NEW m \in Nodes, NEW b \in B!Bundles, "content.json" \in b.names,
               B!Nothing \notin {posts[n][b], posts[m][b]}
        PROVE  posts[n][b] = posts[m][b]
    BY <2>1 DEF Bundled, Shows
  <2>2. \A n \in Nodes, b \in B!Bundles : posts[n][b].type \in {"str", "bytes", B!None}
    BY DEF Bundled, Shows, B!None
  <2> QED
    BY <2>1, <2>2 DEF JSONDecides, B!JSONDecides
<1> QED
  BY <1>1, BundledInit, BundledNext, PTL DEF B!Spec

-----------------------------------------------------------------------------
(* The feed.                                                                *)

LEMMA FeedFacts == per_page \in Nat \ {0} /\ MaxStores \in Nat
  BY PartsAssumption DEF F!FeedAssumption

LEMMA SameCardinality == \A S : F!Cardinality(S) = Cardinality(S)
  BY Zenon DEF F!Cardinality, Cardinality

\* There is a greatest one of bounded numbers.
LEMMA Greatest ==
  ASSUME NEW S \in SUBSET Nat, S # {}, NEW n \in Nat, \A x \in S : x <= n
  PROVE  \E m \in S : \A x \in S : x <= m
<1> DEFINE D == { n - x : x \in S }
<1>1. D \in SUBSET Nat /\ D # {}
  <2>1. \A x \in S : n - x \in Nat
    OBVIOUS
  <2> QED
    BY <2>1
<1>2. PICK d \in D : \A e \in D : ~ (<<e, d>> \in OpToRel(<, Nat))
  <2> HIDE DEF D
  <2> QED
    BY <1>1, NatLessThanWellFounded, WFMin
<1>3. PICK m \in S : d = n - m
  OBVIOUS
<1>4. \A x \in S : x <= m
  <2> SUFFICES ASSUME NEW x \in S PROVE x <= m
    OBVIOUS
  <2>1. x \in Nat /\ m \in Nat /\ d \in Nat /\ n - x \in D /\ n - x \in Nat
    BY <1>1, <1>3
  <2>2. ~ (n - x < d)
    <3>1. n - x < d => <<n - x, d>> \in OpToRel(<, Nat)
      BY <2>1 DEF OpToRel
    <3> QED
      BY <1>2, <2>1, <3>1
  <2> QED
    BY <1>3, <2>1, <2>2
<1> QED
  BY <1>4

RowOf == [magnet : FeedMagnets, rowid : Nat, created_at : Nat]
CursorOf == [t : Nat, r : Nat]

\* Rows are numbered in the order in which they are dated, a magnet has one, and so has
\* a number.
Ordered ==
  /\ IsFiniteSet(rows) /\ clock \in Nat
  /\ \A p \in rows : p \in RowOf /\ p.rowid # 0 /\ p.rowid <= MaxStores /\ p.created_at <= clock
  /\ \A p, q \in rows : p.magnet = q.magnet \/ p.rowid = q.rowid => p = q
  /\ \A p, q \in rows : p.rowid < q.rowid <=> p.created_at < q.created_at

\* Cursor c is a place among rows R, numbered up to l, and the magnets S are not below it.
Behind(R, l, c, S) ==
  c # F!NoCursor =>
    /\ c.r # 0 /\ c.r <= l
    /\ \A p \in R : p.rowid < c.r => p.created_at <= c.t
    /\ \A p \in R : p.magnet \in S => c.r <= p.rowid

\* What is left of rows T in R is among the magnets S or below cursor c.
Covered(R, T, c, S) ==
  \A p \in T \cap R : p.magnet \in S \/ (c # F!NoCursor /\ p.rowid < c.r)

Named(l) == { l[i].magnet : i \in DOMAIN l }
Distinct(l) == \A i, j \in DOMAIN l : l[i] = l[j] => i = j

Read ==
  /\ first \subseteq RowOf /\ \A p \in first : p.rowid <= F!LastRowid
  /\ shown \in Seq(FeedMagnets) /\ Distinct(shown)
  /\ cursor \in CursorOf /\ ended \in BOOLEAN
  /\ Behind(rows, F!LastRowid, cursor, F!Shown)
  /\ cursor # F!NoCursor \/ ended => Covered(rows, first, cursor, F!Shown)
  /\ cursor = F!NoCursor /\ ~ended => shown = <<>>
  /\ ended => cursor = F!NoCursor

\* The answer that is under way fits what is shown.
Fetched ==
  /\ fetch \in [pc : {"idle", "sent", "answered"}, cursor : CursorOf, result : Seq(RowOf),
                next : CursorOf]
  /\ fetch.pc # "idle" => fetch.cursor = cursor /\ ~ended
  /\ fetch.pc = "answered" =>
       /\ \A i, j \in DOMAIN fetch.result : fetch.result[i].magnet = fetch.result[j].magnet => i = j
       /\ Named(fetch.result) \cap F!Shown = {}
       /\ Behind(rows, F!LastRowid, fetch.next, F!Shown \cup Named(fetch.result))
       /\ Covered(rows, first, fetch.next, F!Shown \cup Named(fetch.result))

FeedInv == Ordered /\ Read /\ Fetched

LEMMA NoCursorFacts ==
  /\ F!NoCursor \in CursorOf
  /\ \A c \in CursorOf : c.r # 0 => c # F!NoCursor
  BY DEF F!NoCursor, CursorOf

Last(R) ==
  CHOOSE r \in { p.rowid : p \in R } \cup {0} : \A q \in { p.rowid : p \in R } : q <= r

LEMMA LastIs == F!LastRowid = Last(rows)
  BY Zenon DEF F!LastRowid, F!Rowids, Last

LEMMA LastFacts ==
  ASSUME NEW R, \A p \in R : p \in RowOf /\ p.rowid <= MaxStores
  PROVE  Last(R) \in Nat /\ \A p \in R : p.rowid <= Last(R)
<1> DEFINE Q == { p.rowid : p \in R }
           S == Q \cup {0}
<1>1. S \in SUBSET Nat /\ 0 \in S /\ \A x \in S : x <= MaxStores
  BY FeedFacts DEF RowOf
<1>2. \E m \in S : \A x \in S : x <= m
  <2> HIDE DEF S
  <2> QED
    BY <1>1, FeedFacts, Greatest
<1>3. Last(R) \in S /\ \A x \in Q : x <= Last(R)
  BY <1>2 DEF Last
<1> QED
  BY <1>1, <1>3

\* A page in the order of time is one in the order of numbers.  Where it is full all other
\* rows selected are below its last one, and otherwise there are none.
LEMMA PageFacts ==
  ASSUME Ordered, NEW c, NEW page \in F!Pages(F!Selected(c))
  PROVE  /\ page \in Seq(rows) /\ Len(page) <= per_page /\ Distinct(page)
         /\ \A i \in DOMAIN page : page[i] \in F!Selected(c)
         /\ \A i, j \in DOMAIN page : i < j => page[j].rowid < page[i].rowid
         /\ \A p \in F!Selected(c) :
              \/ \E i \in DOMAIN page : page[i] = p
              \/ Len(page) = per_page /\ p.rowid < page[per_page].rowid
<1> DEFINE S == F!Selected(c)
           n == IF Cardinality(S) < per_page THEN Cardinality(S) ELSE per_page
<1>1. S \subseteq rows /\ IsFiniteSet(S) /\ Cardinality(S) \in Nat
  <2>1. S \in SUBSET rows
    BY DEF F!Selected
  <2> QED
    BY <2>1, FS_Subset, FS_CardinalityType DEF Ordered
<1>2. n \in Nat /\ n <= per_page
  BY <1>1, FeedFacts
<1>3. /\ page \in [1 .. n -> S]
      /\ \A i, j \in 1 .. n : i < j => page[i] # page[j] /\ page[i].created_at >= page[j].created_at
      /\ \A i \in 1 .. n, p \in S :
           p.created_at > page[i].created_at => \E j \in 1 .. n : page[j] = p
  <2>1. F!Cardinality(S) = Cardinality(S)
    BY SameCardinality
  <2> HIDE DEF S
  <2> QED
    BY <2>1 DEF F!Pages, S
<1> HIDE DEF n, S
<1>4. page \in Seq(rows) /\ Len(page) = n /\ DOMAIN page = 1 .. n
  BY <1>1, <1>2, <1>3
<1>5. \A p \in rows : p.rowid \in Nat /\ p.created_at \in Nat
  BY DEF Ordered, RowOf
<1>6. \A i \in 1 .. n : page[i] \in S /\ page[i] \in rows
  BY <1>1, <1>3
<1>7. Distinct(page)
  <2> SUFFICES ASSUME NEW i \in 1 .. n, NEW j \in 1 .. n, i # j PROVE page[i] # page[j]
    BY <1>4 DEF Distinct
  <2>1. i < j \/ j < i
    BY <1>2
  <2> QED
    BY <1>3, <2>1
<1>8. ASSUME NEW p \in rows, NEW q \in rows, p # q, p.created_at <= q.created_at
      PROVE  p.rowid < q.rowid
  <2>1. p.rowid # q.rowid /\ ~ (q.rowid < p.rowid)
    BY <1>5, <1>8 DEF Ordered
  <2> QED
    BY <1>5, <2>1
<1>9. ASSUME NEW i \in 1 .. n, NEW j \in 1 .. n, i < j PROVE page[j].rowid < page[i].rowid
  <2>1. page[i] # page[j] /\ page[j].created_at <= page[i].created_at
    BY <1>3, <1>5, <1>6, <1>9
  <2> QED
    BY <1>6, <1>8, <2>1
<1>10. ASSUME NEW p \in S, \A i \in 1 .. n : page[i] # p
       PROVE  n = per_page /\ p.rowid < page[per_page].rowid
  <2>1. n = per_page
    <3> SUFFICES ASSUME n # per_page PROVE FALSE
      OBVIOUS
    <3>1. n = Cardinality(S)
      BY DEF n
    <3>2. page \in Injection(1 .. n, S)
      BY <1>3, <1>4, <1>7 DEF Injection, IsInjective, Distinct
    <3>3. Cardinality(1 .. n) = n
      <4>1. n \in Int /\ 1 \in Int
        BY <1>2
      <4>2. Cardinality(1 .. n) = IF 1 > n THEN 0 ELSE n - 1 + 1
        BY <4>1, FS_Interval
      <4> QED
        BY <1>2, <4>2
    <3>4. page \in Surjection(1 .. n, S)
      BY <1>1, <3>1, <3>2, <3>3, FS_Injection
    <3> QED
      BY <1>10, <3>4 DEF Surjection
  <2>2. per_page \in 1 .. n
    BY <2>1, FeedFacts
  <2>3. ~ (p.created_at > page[per_page].created_at) /\ p # page[per_page]
    BY <1>3, <1>10, <2>2
  <2>4. p \in rows /\ page[per_page] \in rows
    BY <1>1, <1>6, <2>2
  <2>5. p.created_at <= page[per_page].created_at
    BY <1>5, <2>3, <2>4
  <2> QED
    BY <1>8, <2>1, <2>3, <2>4, <2>5
<1> QED
  BY <1>2, <1>4, <1>6, <1>7, <1>9, <1>10 DEF S

\* A search of the feed, of which steps replace all fields.
Fetch(p, c, l, x) == [pc |-> p, cursor |-> c, result |-> l, next |-> x]
Sent(f, p, c) == [f EXCEPT !.pc = p, !.cursor = c]
Answered(f, p, l, x) == [f EXCEPT !.pc = p, !.result = l, !.next = x]

LEMMA SentFacts ==
  ASSUME NEW a, NEW b, NEW d, NEW e, NEW p, NEW c
  PROVE  Sent(Fetch(a, b, d, e), p, c) = Fetch(p, c, d, e)
<1>1. [Fetch(a, b, d, e) EXCEPT !.pc = p] = Fetch(p, b, d, e)
  BY DEF Fetch
<1>2. [Fetch(p, b, d, e) EXCEPT !.cursor = c] = Fetch(p, c, d, e)
  BY DEF Fetch
<1> QED
  BY <1>1, <1>2, Zenon DEF Sent

LEMMA AnsweredFacts ==
  ASSUME NEW a, NEW b, NEW d, NEW e, NEW p, NEW l, NEW x
  PROVE  Answered(Fetch(a, b, d, e), p, l, x) = Fetch(p, b, l, x)
<1>1. [Fetch(a, b, d, e) EXCEPT !.pc = p] = Fetch(p, b, d, e)
  BY DEF Fetch
<1>2. [Fetch(p, b, d, e) EXCEPT !.result = l] = Fetch(p, b, l, e)
  BY DEF Fetch
<1>3. [Fetch(p, b, l, e) EXCEPT !.next = x] = Fetch(p, b, l, x)
  BY DEF Fetch
<1> QED
  BY <1>1, <1>2, <1>3, Zenon DEF Answered

LEMMA IdleFacts ==
  /\ F!Idle = Fetch("idle", F!NoCursor, <<>>, F!NoCursor)
  /\ F!Idle.pc = "idle"
  /\ F!Idle \in [pc : {"idle", "sent", "answered"}, cursor : CursorOf, result : Seq(RowOf),
                 next : CursorOf]
  BY NoCursorFacts DEF F!Idle, Fetch

LEMMA FeedInit == F!Init => FeedInv
<1> SUFFICES ASSUME F!Init PROVE FeedInv
  OBVIOUS
<1>1. /\ rows = {} /\ clock = 1 /\ fetch = F!Idle /\ shown = <<>> /\ cursor = F!NoCursor
      /\ ended = FALSE /\ first = {}
  BY DEF F!Init
<1>2. Ordered
  BY <1>1, FS_EmptySet DEF Ordered
<1>3. Read
  <2>1. shown \in Seq(FeedMagnets) /\ Distinct(shown)
    BY <1>1 DEF Distinct
  <2>2. ended \in BOOLEAN /\ ~ended /\ cursor = F!NoCursor
    BY <1>1
  <2>3. Behind(rows, F!LastRowid, cursor, F!Shown)
    BY <1>1 DEF Behind
  <2> QED
    BY <1>1, <2>1, <2>2, <2>3, NoCursorFacts DEF Read
<1>4. Fetched
  BY <1>1, IdleFacts DEF Fetched
<1> QED
  BY <1>2, <1>3, <1>4 DEF FeedInv

\* A post is stored: for the first time, or again and then in a new row.
LEMMA StorePostKeeps ==
  ASSUME SameSecond = FALSE, FeedInv, NEW m \in FeedMagnets, F!StorePost(m)
  PROVE  FeedInv'
<1> DEFINE l == F!LastRowid
           rest == { p \in rows : p.magnet # m }
<1>1. /\ l \in Nat /\ \A p \in rows : p.rowid <= l
      /\ l < MaxStores
  BY LastFacts, LastIs DEF FeedInv, Ordered, F!StorePost
<1>2. PICK new : /\ new = [magnet |-> m, rowid |-> l + 1, created_at |-> clock + 1]
                 /\ clock' = clock + 1 /\ rows' = rest \cup {new}
  BY DEF F!StorePost
<1>3. UNCHANGED <<fetch, shown, cursor, ended, first>>
  BY DEF F!StorePost
<1>4. /\ clock \in Nat /\ IsFiniteSet(rows)
      /\ \A p \in rows : p \in RowOf /\ p.rowid # 0 /\ p.rowid <= MaxStores /\ p.created_at <= clock
      /\ \A p \in rows : p.rowid \in Nat /\ p.created_at \in Nat
  BY DEF FeedInv, Ordered, RowOf
<1> HIDE DEF l
<1>5. /\ new \in RowOf /\ new.magnet = m /\ new.rowid = l + 1 /\ new.created_at = clock + 1
      /\ l + 1 # 0 /\ l + 1 <= MaxStores /\ clock + 1 \in Nat
  BY <1>1, <1>2, <1>4, FeedFacts DEF RowOf
<1>6. Ordered'
  <2>1. IsFiniteSet(rows')
    <3>1. rest \in SUBSET rows
      OBVIOUS
    <3> HIDE DEF rest
    <3>2. IsFiniteSet(rest)
      BY <1>4, <3>1, FS_Subset
    <3> QED
      BY <1>2, <3>2, FS_AddElement
  <2>2. \A p \in rows' : p \in RowOf /\ p.rowid # 0 /\ p.rowid <= MaxStores /\ p.created_at <= clock'
    BY <1>2, <1>4, <1>5
  <2>3. ASSUME NEW p \in rest
        PROVE  /\ p.magnet # m /\ p.rowid < l + 1 /\ p.created_at < clock + 1
               /\ p.rowid \in Nat /\ p.created_at \in Nat
    BY <1>1, <1>4
  <2>4. \A p, q \in rows' : p.magnet = q.magnet \/ p.rowid = q.rowid => p = q
    <3> SUFFICES ASSUME NEW p \in rows', NEW q \in rows', p.magnet = q.magnet \/ p.rowid = q.rowid,
                        p # q
                 PROVE  FALSE
      OBVIOUS
    <3>1. CASE p \in rest /\ q \in rest
      BY <3>1 DEF FeedInv, Ordered
    <3>2. CASE p = new \/ q = new
      BY <1>1, <1>2, <1>5, <2>3, <3>2
    <3> QED
      BY <1>2, <3>1, <3>2
  <2>5. \A p, q \in rows' : p.rowid < q.rowid <=> p.created_at < q.created_at
    <3> SUFFICES ASSUME NEW p \in rows', NEW q \in rows'
                 PROVE  p.rowid < q.rowid <=> p.created_at < q.created_at
      OBVIOUS
    <3>1. CASE p \in rest /\ q \in rest
      BY <3>1 DEF FeedInv, Ordered
    <3>2. CASE p = new \/ q = new
      BY <1>1, <1>2, <1>4, <1>5, <2>3, <3>2
    <3> QED
      BY <1>2, <3>1, <3>2
  <2> QED
    BY <1>2, <1>4, <2>1, <2>2, <2>4, <2>5 DEF Ordered
<1>7. F!LastRowid' \in Nat /\ l + 1 <= F!LastRowid'
  <2>1. \A p \in rows' : p \in RowOf /\ p.rowid <= MaxStores
    BY <1>6 DEF Ordered
  <2>2. Last(rows') \in Nat /\ \A p \in rows' : p.rowid <= Last(rows')
    BY <2>1, LastFacts
  <2>3. F!LastRowid' = Last(rows')
    BY Zenon DEF F!LastRowid, F!Rowids, Last
  <2> QED
    BY <1>2, <1>5, <2>2, <2>3
<1> DEFINE k == F!LastRowid'
<1> HIDE DEF k, rest
<1>8. ASSUME NEW c \in CursorOf, NEW S, Behind(rows, l, c, S) PROVE Behind(rows', k, c, S)
  <2> SUFFICES ASSUME c # F!NoCursor
               PROVE  /\ c.r # 0 /\ c.r <= k
                      /\ \A p \in rows' : p.rowid < c.r => p.created_at <= c.t
                      /\ \A p \in rows' : p.magnet \in S => c.r <= p.rowid
    BY DEF Behind
  <2>1. c.r \in Nat /\ c.r # 0 /\ c.r <= l
    BY <1>8 DEF Behind, CursorOf
  <2>2. c.r <= k /\ c.r <= l + 1 /\ ~ (l + 1 < c.r)
    BY <1>1, <1>7, <2>1 DEF k
  <2> QED
    BY <1>2, <1>5, <1>8, <2>1, <2>2 DEF Behind, rest
<1>9. new \notin first
  <2>1. \A p \in first : p.rowid \in Nat /\ p.rowid <= l
    BY DEF FeedInv, Read, RowOf, l
  <2> QED
    BY <1>1, <1>5, <2>1
<1>10. ASSUME NEW c, NEW S, Covered(rows, first, c, S) PROVE Covered(rows', first, c, S)
  BY <1>2, <1>9, <1>10 DEF Covered, rest
<1>11. \A p \in first : p.rowid <= k
  <2>1. \A p \in first : p.rowid \in Nat /\ p.rowid <= l
    BY DEF FeedInv, Read, RowOf, l
  <2> QED
    BY <1>1, <1>7, <2>1 DEF k
<1>12. Read'
  <2>1. F!Shown' = F!Shown
    BY <1>3 DEF F!Shown
  <2>2. Behind(rows', k, cursor, F!Shown)
    BY <1>8 DEF FeedInv, Read, l
  <2>3. cursor # F!NoCursor \/ ended => Covered(rows', first, cursor, F!Shown)
    BY <1>10 DEF FeedInv, Read
  <2> QED
    BY <1>3, <1>11, <2>1, <2>2, <2>3 DEF FeedInv, Read, k
<1>13. Fetched'
  <2>1. F!Shown' = F!Shown
    BY <1>3 DEF F!Shown
  <2> DEFINE S == F!Shown \cup Named(fetch.result)
  <2>2. fetch.next \in CursorOf
    BY DEF FeedInv, Fetched
  <2>3. fetch.pc = "answered" => Behind(rows', k, fetch.next, S) /\ Covered(rows', first, fetch.next, S)
    BY <1>8, <1>10, <2>2 DEF FeedInv, Fetched, l
  <2> QED
    BY <1>3, <2>1, <2>3 DEF FeedInv, Fetched, k
<1> QED
  BY <1>6, <1>12, <1>13 DEF FeedInv

LEMMA RequestKeeps ==
  ASSUME FeedInv, F!Request
  PROVE  FeedInv'
<1>1. ~ended /\ UNCHANGED <<rows, clock, shown, cursor, ended, first>>
  BY DEF F!Request
<1>2. fetch' = Sent(F!Idle, "sent", cursor)
  BY Zenon DEF F!Request, Sent
<1>3. fetch' = Fetch("sent", cursor, <<>>, F!NoCursor)
  <2>1. Sent(Fetch("idle", F!NoCursor, <<>>, F!NoCursor), "sent", cursor)
          = Fetch("sent", cursor, <<>>, F!NoCursor)
    BY SentFacts
  <2> QED
    BY <1>2, <2>1, IdleFacts
<1>4. F!Shown' = F!Shown /\ F!LastRowid' = F!LastRowid
  BY <1>1 DEF F!Shown, F!LastRowid, F!Rowids
<1>5. Ordered' /\ Read'
  BY <1>1, <1>4 DEF FeedInv, Ordered, Read
<1>6. Fetched'
  <2>1. cursor \in CursorOf
    BY DEF FeedInv, Read
  <2>2. /\ fetch'.pc = "sent" /\ fetch'.cursor = cursor
        /\ fetch' \in [pc : {"idle", "sent", "answered"}, cursor : CursorOf, result : Seq(RowOf),
                       next : CursorOf]
    BY <1>3, <2>1, NoCursorFacts DEF Fetch
  <2> QED
    BY <1>1, <2>2 DEF Fetched
<1> QED
  BY <1>5, <1>6 DEF FeedInv

LEMMA RequestFailsKeeps ==
  ASSUME FeedInv, F!RequestFails
  PROVE  FeedInv'
<1>1. fetch' = F!Idle /\ UNCHANGED <<rows, clock, shown, cursor, ended, first>>
  BY DEF F!RequestFails
<1>2. F!Shown' = F!Shown /\ F!LastRowid' = F!LastRowid
  BY <1>1 DEF F!Shown, F!LastRowid, F!Rowids
<1>3. Ordered' /\ Read'
  BY <1>1, <1>2 DEF FeedInv, Ordered, Read
<1>4. Fetched'
  BY <1>1, IdleFacts DEF Fetched
<1> QED
  BY <1>3, <1>4 DEF FeedInv

\* The next page goes on where the cursor is, and leaves out nothing.
LEMMA AllKeeps ==
  ASSUME FeedInv, F!All
  PROVE  FeedInv'
<1> DEFINE S == F!Selected(cursor)
           After(page) == IF Len(page) = per_page
                          THEN [t |-> page[per_page].created_at, r |-> page[per_page].rowid]
                          ELSE F!NoCursor
<1>1. /\ fetch.pc = "sent" /\ fetch.cursor = cursor /\ ~ended
      /\ UNCHANGED <<rows, clock, shown, cursor, ended>>
      /\ first' = IF cursor = F!NoCursor THEN rows ELSE first
  BY DEF F!All, FeedInv, Fetched
<1>2. PICK page \in F!Pages(S) : fetch' = Answered(fetch, "answered", page, After(page))
  <2>1. PICK page \in F!Pages(F!Selected(fetch.cursor)) :
          fetch' = [fetch EXCEPT !.pc = "answered", !.result = page, !.next = After(page)]
    BY DEF F!All
  <2>2. fetch' = Answered(fetch, "answered", page, After(page))
    BY <2>1, Zenon DEF Answered
  <2> QED
    BY <1>1, <2>1, <2>2
<1> DEFINE next == After(page)
           named == Named(page)
<1>3. fetch' = Fetch("answered", cursor, page, next)
  <2>1. PICK b, d, e : fetch = Fetch("sent", b, d, e) /\ b = cursor
    <3>1. fetch = Fetch(fetch.pc, fetch.cursor, fetch.result, fetch.next)
      BY DEF FeedInv, Fetched, Fetch
    <3> QED
      BY <1>1, <3>1
  <2> HIDE DEF next
  <2>2. Answered(Fetch("sent", b, d, e), "answered", page, next) = Fetch("answered", b, page, next)
    BY AnsweredFacts
  <2> QED
    BY <1>2, <2>1, <2>2 DEF next
<1>4. /\ page \in Seq(rows) /\ Distinct(page)
      /\ \A i \in DOMAIN page : page[i] \in S
      /\ \A i, j \in DOMAIN page : i < j => page[j].rowid < page[i].rowid
      /\ \A p \in S : \/ \E i \in DOMAIN page : page[i] = p
                      \/ Len(page) = per_page /\ p.rowid < page[per_page].rowid
  <2>1. Ordered
    BY DEF FeedInv
  <2> HIDE DEF S
  <2>2. page \in F!Pages(F!Selected(cursor))
    BY <1>2 DEF S
  <2> QED
    BY <2>1, <2>2, PageFacts DEF S
<1>5. /\ \A p \in rows : p \in RowOf /\ p.rowid \in Nat /\ p.created_at \in Nat /\ p.rowid # 0
      /\ \A p \in rows : p.rowid <= F!LastRowid
      /\ rows \subseteq RowOf /\ F!LastRowid \in Nat
  BY LastFacts, LastIs DEF FeedInv, Ordered, RowOf
<1>6. /\ DOMAIN page = 1 .. Len(page) /\ Len(page) \in Nat
      /\ \A i \in DOMAIN page : page[i] \in rows
      /\ page \in Seq(RowOf)
      /\ per_page \in Nat \ {0} /\ (Len(page) = per_page => per_page \in DOMAIN page)
  BY <1>4, <1>5, FeedFacts
<1>7. next \in CursorOf
  <2>1. Len(page) = per_page => page[per_page].created_at \in Nat /\ page[per_page].rowid \in Nat
    BY <1>5, <1>6
  <2> QED
    BY <2>1, NoCursorFacts DEF CursorOf
<1>8. next # F!NoCursor => /\ per_page \in DOMAIN page /\ Len(page) = per_page
                           /\ next.r = page[per_page].rowid /\ next.t = page[per_page].created_at
  BY <1>6
<1>9. Len(page) = per_page => next # F!NoCursor
  <2>1. Len(page) = per_page => page[per_page].rowid # 0
    BY <1>5, <1>6
  <2> QED
    BY <2>1 DEF F!NoCursor
<1> HIDE DEF next
<1>10. /\ cursor # F!NoCursor => \A p \in S : p \in rows /\ p.rowid < cursor.r
       /\ cursor = F!NoCursor => F!Shown = {}
       /\ cursor # F!NoCursor => \A p \in rows : p.magnet \in F!Shown => cursor.r <= p.rowid
       /\ cursor.r \in Nat
  BY <1>1 DEF F!Selected, F!Shown, FeedInv, Read, Behind, CursorOf
<1>11. \A p \in S : p \in rows /\ p.magnet \notin F!Shown
  <2> SUFFICES ASSUME NEW p \in S PROVE p \in rows /\ p.magnet \notin F!Shown
    OBVIOUS
  <2>1. p \in rows
    BY DEF F!Selected
  <2>2. CASE cursor = F!NoCursor
    BY <1>10, <2>1, <2>2
  <2>3. CASE cursor # F!NoCursor
    <3>1. p.rowid < cursor.r /\ p.rowid \in Nat /\ cursor.r \in Nat
      BY <1>5, <1>10, <2>1, <2>3
    <3>2. ~ (cursor.r <= p.rowid)
      BY <3>1
    <3> QED
      BY <1>10, <2>1, <2>3, <3>2
  <2> QED
    BY <2>2, <2>3
<1>12. \A i, j \in DOMAIN page : page[i].magnet = page[j].magnet => i = j
  BY <1>4, <1>6 DEF FeedInv, Ordered, Distinct
<1>13. named \cap F!Shown = {}
  BY <1>4, <1>11 DEF Named
<1>14. Behind(rows, F!LastRowid, next, F!Shown \cup named)
  <2> SUFFICES ASSUME next # F!NoCursor
               PROVE  /\ next.r # 0 /\ next.r <= F!LastRowid
                      /\ \A p \in rows : p.rowid < next.r => p.created_at <= next.t
                      /\ \A p \in rows : p.magnet \in F!Shown \cup named => next.r <= p.rowid
    BY DEF Behind
  <2> DEFINE last == page[per_page]
  <2>1. last \in rows /\ next.r = last.rowid /\ next.t = last.created_at /\ last \in S
    BY <1>4, <1>6, <1>8
  <2>2. ASSUME NEW p \in rows, p.rowid < next.r PROVE p.created_at <= next.t
    <3>1. p.created_at < last.created_at
      BY <2>1, <2>2 DEF FeedInv, Ordered
    <3> QED
      BY <1>5, <2>1, <3>1
  <2>3. ASSUME NEW p \in rows, p.magnet \in named PROVE next.r <= p.rowid
    <3>1. PICK i \in DOMAIN page : p.magnet = page[i].magnet
      BY <2>3 DEF Named
    <3>2. p = page[i]
      BY <1>6, <3>1 DEF FeedInv, Ordered
    <3>3. i = per_page \/ i < per_page
      BY <1>6, <1>8
    <3>4. last.rowid < p.rowid \/ last.rowid = p.rowid
      BY <1>4, <1>8, <3>2, <3>3
    <3> QED
      BY <1>5, <2>1, <3>4
  <2>4. ASSUME NEW p \in rows, p.magnet \in F!Shown PROVE next.r <= p.rowid
    <3>1. cursor # F!NoCursor /\ cursor.r <= p.rowid
      BY <1>10, <2>4
    <3>2. last.rowid < cursor.r
      BY <1>10, <2>1, <3>1
    <3> QED
      BY <1>5, <1>10, <2>1, <3>1, <3>2
  <2> QED
    BY <1>5, <2>1, <2>2, <2>3, <2>4
<1>15. Covered(rows, first', next, F!Shown \cup named)
  <2> SUFFICES ASSUME NEW p \in first' \cap rows
               PROVE  p.magnet \in F!Shown \cup named \/ (next # F!NoCursor /\ p.rowid < next.r)
    BY DEF Covered
  <2>1. ASSUME p \in S
        PROVE  p.magnet \in named \/ (next # F!NoCursor /\ p.rowid < next.r)
    <3>1. CASE \E i \in DOMAIN page : page[i] = p
      BY <3>1 DEF Named
    <3>2. CASE Len(page) = per_page /\ p.rowid < page[per_page].rowid
      BY <1>8, <1>9, <3>2
    <3> QED
      BY <1>4, <2>1, <3>1, <3>2
  <2>2. p \in S \/ p.magnet \in F!Shown
    <3>1. CASE cursor = F!NoCursor
      BY <3>1 DEF F!Selected
    <3>2. CASE cursor # F!NoCursor
      <4>1. p \in first \cap rows /\ Covered(rows, first, cursor, F!Shown)
        BY <1>1, <3>2 DEF FeedInv, Read
      <4>2. p.rowid < cursor.r => p.created_at <= cursor.t
        BY <3>2 DEF FeedInv, Read, Behind
      <4> QED
        BY <3>2, <4>1, <4>2 DEF Covered, F!Selected
    <3> QED
      BY <3>1, <3>2
  <2> QED
    BY <2>1, <2>2
<1>16. F!Shown' = F!Shown /\ F!LastRowid' = F!LastRowid
  BY <1>1 DEF F!Shown, F!LastRowid, F!Rowids
<1>17. Ordered'
  BY <1>1 DEF FeedInv, Ordered
<1>18. Read'
  <2>1. first' \subseteq RowOf /\ \A p \in first' : p.rowid <= F!LastRowid
    BY <1>1, <1>5 DEF FeedInv, Read
  <2>2. cursor # F!NoCursor \/ ended => Covered(rows, first', cursor, F!Shown)
    BY <1>1 DEF FeedInv, Read
  <2> QED
    BY <1>1, <1>16, <2>1, <2>2 DEF FeedInv, Read
<1>19. Fetched'
  <2> HIDE DEF S, named
  <2>1. /\ fetch'.pc = "answered" /\ fetch'.cursor = cursor /\ fetch'.result = page
        /\ fetch'.next = next
    BY <1>3 DEF Fetch
  <2>2. fetch' \in [pc : {"idle", "sent", "answered"}, cursor : CursorOf, result : Seq(RowOf),
                    next : CursorOf]
    <3>1. cursor \in CursorOf
      BY DEF FeedInv, Read
    <3> QED
      BY <1>3, <1>6, <1>7, <3>1 DEF Fetch
  <2>3. Named(fetch'.result) = named
    BY <2>1 DEF named
  <2> QED
    BY <1>1, <1>12, <1>13, <1>14, <1>15, <1>16, <2>1, <2>2, <2>3 DEF Fetched
<1> QED
  BY <1>17, <1>18, <1>19 DEF FeedInv

\* What was fetched is shown, and the cursor moves on.
LEMMA ReceiveKeeps ==
  ASSUME FeedInv, F!Receive
  PROVE  FeedInv'
<1> DEFINE l == fetch.result
           new == [i \in 1 .. Len(l) |-> l[i].magnet]
<1>1. /\ fetch.pc = "answered" /\ shown' = shown \o new /\ cursor' = fetch.next
      /\ ended' = (fetch.next = F!NoCursor) /\ fetch' = F!Idle
      /\ UNCHANGED <<rows, clock, first>>
  BY DEF F!Receive
<1>2. /\ l \in Seq(RowOf) /\ fetch.next \in CursorOf /\ shown \in Seq(FeedMagnets)
      /\ Distinct(shown) /\ ~ended
      /\ \A i, j \in DOMAIN l : l[i].magnet = l[j].magnet => i = j
      /\ Named(l) \cap F!Shown = {}
      /\ Behind(rows, F!LastRowid, fetch.next, F!Shown \cup Named(l))
      /\ Covered(rows, first, fetch.next, F!Shown \cup Named(l))
  BY <1>1 DEF FeedInv, Read, Fetched
<1> HIDE DEF l
<1>3. new \in Seq(FeedMagnets) /\ Len(new) = Len(l) /\ DOMAIN l = 1 .. Len(l) /\ Len(l) \in Nat
      /\ \A i \in 1 .. Len(l) : new[i] = l[i].magnet
  <2>1. \A i \in 1 .. Len(l) : l[i].magnet \in FeedMagnets
    <3> SUFFICES ASSUME NEW i \in 1 .. Len(l) PROVE l[i].magnet \in FeedMagnets
      OBVIOUS
    <3>1. l[i] \in RowOf
      BY <1>2
    <3> QED
      BY <3>1 DEF RowOf
  <2>2. DOMAIN l = 1 .. Len(l) /\ Len(l) \in Nat
    BY <1>2
  <2> QED
    BY <2>1, <2>2
<1> HIDE DEF new
<1>4. /\ shown' \in Seq(FeedMagnets) /\ DOMAIN shown = 1 .. Len(shown) /\ Len(shown) \in Nat
      /\ DOMAIN shown' = 1 .. (Len(shown) + Len(l))
      /\ \A i \in 1 .. Len(shown) : shown'[i] = shown[i]
      /\ \A i \in 1 .. Len(l) : shown'[Len(shown) + i] = l[i].magnet
  <2> PICK s \in Seq(FeedMagnets) : s = shown
    BY <1>2
  <2> PICK u \in Seq(FeedMagnets) : u = new
    BY <1>3
  <2>1. /\ s \o u \in Seq(FeedMagnets) /\ Len(s \o u) = Len(s) + Len(u)
        /\ Len(s) \in Nat /\ Len(u) \in Nat /\ DOMAIN s = 1 .. Len(s)
        /\ DOMAIN (s \o u) = 1 .. (Len(s) + Len(u))
    OBVIOUS
  <2>2. \A i \in 1 .. Len(s) : (s \o u)[i] = s[i]
    OBVIOUS
  <2>3. \A i \in 1 .. Len(u) : (s \o u)[Len(s) + i] = u[i]
    OBVIOUS
  <2>4. shown' = s \o u /\ Len(u) = Len(l) /\ \A i \in 1 .. Len(l) : u[i] = l[i].magnet
    BY <1>1, <1>3
  <2> QED
    BY <2>1, <2>2, <2>3, <2>4
<1>5. \A i \in DOMAIN shown' :
        \/ i \in DOMAIN shown
        \/ \E k \in DOMAIN l : i = Len(shown) + k
  <2> SUFFICES ASSUME NEW i \in DOMAIN shown', i \notin DOMAIN shown
               PROVE  \E k \in DOMAIN l : i = Len(shown) + k
    OBVIOUS
  <2>1. i - Len(shown) \in 1 .. Len(l) /\ i = Len(shown) + (i - Len(shown))
    BY <1>3, <1>4
  <2> QED
    BY <1>3, <2>1
<1>6. F!Shown' = F!Shown \cup Named(l)
  <2>1. ASSUME NEW x \in F!Shown' PROVE x \in F!Shown \cup Named(l)
    <3>1. PICK i \in DOMAIN shown' : x = shown'[i]
      BY <2>1 DEF F!Shown
    <3>2. CASE i \in DOMAIN shown
      <4>1. x = shown[i]
        BY <1>4, <3>1, <3>2
      <4> QED
        BY <3>2, <4>1 DEF F!Shown
    <3>3. CASE \E k \in DOMAIN l : i = Len(shown) + k
      <4>1. PICK k \in DOMAIN l : i = Len(shown) + k
        BY <3>3
      <4>2. x = l[k].magnet
        BY <1>3, <1>4, <3>1, <4>1
      <4> QED
        BY <4>2 DEF Named
    <3> QED
      BY <1>5, <3>1, <3>2, <3>3
  <2>2. ASSUME NEW x \in F!Shown PROVE x \in F!Shown'
    <3>1. PICK i \in DOMAIN shown : x = shown[i]
      BY DEF F!Shown
    <3>2. i \in DOMAIN shown' /\ x = shown'[i]
      BY <1>3, <1>4, <3>1
    <3> QED
      BY <3>2 DEF F!Shown
  <2>3. ASSUME NEW x \in Named(l) PROVE x \in F!Shown'
    <3>1. PICK i \in DOMAIN l : x = l[i].magnet
      BY DEF Named
    <3>2. Len(shown) + i \in DOMAIN shown' /\ x = shown'[Len(shown) + i]
      BY <1>3, <1>4, <3>1
    <3> QED
      BY <3>2 DEF F!Shown
  <2> QED
    BY <2>1, <2>2, <2>3
<1>7. Distinct(shown')
  <2> SUFFICES ASSUME NEW i \in DOMAIN shown', NEW j \in DOMAIN shown', shown'[i] = shown'[j]
               PROVE  i = j
    BY DEF Distinct
  <2>1. CASE i \in DOMAIN shown /\ j \in DOMAIN shown
    BY <1>2, <1>4, <2>1 DEF Distinct
  <2>2. ASSUME NEW a \in DOMAIN shown, NEW k \in DOMAIN l, shown'[a] = shown'[Len(shown) + k]
        PROVE  FALSE
    <3>1. shown[a] = l[k].magnet
      BY <1>3, <1>4, <2>2
    <3>2. shown[a] \in F!Shown /\ l[k].magnet \in Named(l)
      BY DEF F!Shown, Named
    <3> QED
      BY <1>2, <3>1, <3>2
  <2>3. CASE i \notin DOMAIN shown /\ j \notin DOMAIN shown
    <3>1. PICK a \in DOMAIN l : i = Len(shown) + a
      BY <1>5, <2>3
    <3>2. PICK b \in DOMAIN l : j = Len(shown) + b
      BY <1>5, <2>3
    <3>3. l[a].magnet = l[b].magnet
      BY <1>3, <1>4, <3>1, <3>2
    <3> QED
      BY <1>2, <3>1, <3>2, <3>3
  <2> QED
    BY <1>5, <2>1, <2>2, <2>3
<1>8. F!LastRowid' = F!LastRowid
  BY <1>1 DEF F!LastRowid, F!Rowids
<1>9. Ordered'
  BY <1>1 DEF FeedInv, Ordered
<1>10. /\ Behind(rows', F!LastRowid', cursor', F!Shown') /\ Covered(rows', first', cursor', F!Shown')
       /\ cursor' \in CursorOf /\ ended' \in BOOLEAN
  BY <1>1, <1>2, <1>6, <1>8
<1>11. Read'
  <2>1. first' \subseteq RowOf /\ \A p \in first' : p.rowid <= F!LastRowid'
    BY <1>1, <1>8 DEF FeedInv, Read
  <2>2. ~ (cursor' = F!NoCursor /\ ~ended') /\ (ended' => cursor' = F!NoCursor)
    BY <1>1
  <2>3. shown' \in Seq(FeedMagnets)
    BY <1>4
  <2> QED
    BY <1>7, <1>10, <2>1, <2>2, <2>3, Zenon DEF Read
<1>12. Fetched'
  BY <1>1, IdleFacts DEF Fetched
<1> QED
  BY <1>9, <1>11, <1>12 DEF FeedInv

LEMMA FeedNext == SameSecond = FALSE /\ FeedInv /\ [F!Next]_(F!vars) => FeedInv'
<1> SUFFICES ASSUME SameSecond = FALSE, FeedInv, [F!Next]_(F!vars) PROVE FeedInv'
  OBVIOUS
<1>1. ASSUME NEW m \in FeedMagnets, F!StorePost(m) PROVE FeedInv'
  BY <1>1, StorePostKeeps
<1>2. CASE F!Request
  BY <1>2, RequestKeeps
<1>3. CASE F!All
  BY <1>3, AllKeeps
<1>4. CASE F!Receive
  BY <1>4, ReceiveKeeps
<1>5. CASE F!RequestFails
  BY <1>5, RequestFailsKeeps
<1>6. CASE UNCHANGED F!vars
  <2>1. UNCHANGED <<rows, clock, fetch, shown, cursor, ended, first>>
    BY <1>6 DEF F!vars
  <2>2. F!Shown' = F!Shown /\ F!LastRowid' = F!LastRowid
    BY <2>1 DEF F!Shown, F!LastRowid, F!Rowids
  <2> QED
    BY <2>1, <2>2 DEF FeedInv, Ordered, Read, Fetched
<1> QED
  BY <1>1, <1>2, <1>3, <1>4, <1>5, <1>6 DEF F!Next

\* NoDuplicates: no post is shown twice, where no two are stored within a second.
THEOREM ShownOnce == SameSecond = FALSE /\ F!Spec => []NoDuplicates
<1> SUFFICES ASSUME SameSecond = FALSE PROVE F!Spec => []NoDuplicates
  OBVIOUS
<1>1. FeedInv => NoDuplicates
  BY DEF FeedInv, Read, Distinct, NoDuplicates, F!NoDuplicates
<1>2. FeedInv /\ [F!Next]_(F!vars) => FeedInv'
  BY FeedNext
<1> QED
  BY <1>1, <1>2, FeedInit, PTL DEF F!Spec

\* NothingSkipped: what was there when the reader began is shown or still to come.
THEOREM NothingLeftOut == SameSecond = FALSE /\ F!Spec => []NothingSkipped
<1> SUFFICES ASSUME SameSecond = FALSE PROVE F!Spec => []NothingSkipped
  OBVIOUS
<1>1. FeedInv => NothingSkipped
  <2> SUFFICES ASSUME FeedInv PROVE NothingSkipped
    OBVIOUS
  <2>1. /\ cursor # F!NoCursor \/ ended =>
             \A p \in first \cap rows :
               p.magnet \in F!Shown \/ (cursor # F!NoCursor /\ p.rowid < cursor.r)
        /\ ended => cursor = F!NoCursor
    BY DEF FeedInv, Read, Covered
  <2>2. ended => \A p \in first \cap rows : p.magnet \in F!Shown
    BY <2>1
  <2>3. cursor # F!NoCursor =>
          \A p \in first \cap rows : p.magnet \in F!Shown \/ p.rowid < cursor.r
    BY <2>1
  <2> QED
    BY <2>2, <2>3 DEF NothingSkipped, F!NothingSkipped
<1>2. FeedInv /\ [F!Next]_(F!vars) => FeedInv'
  BY FeedNext
<1> QED
  BY <1>1, <1>2, FeedInit, PTL DEF F!Spec

-----------------------------------------------------------------------------
(* Contract: events.                                                        *)

LEMMA ContractCardinality == \A S : C!Cardinality(S) = Cardinality(S)
  BY Zenon DEF C!Cardinality, Cardinality

LEMMA CodingFacts ==
  /\ Word \in Nat \ {0} /\ MaxUint32 \in Nat \ {0}
  /\ Hashes \subseteq C!Words /\ ForeignWords \subseteq C!Words
  /\ \A h \in ServiceIds : h \in Seq(1 .. 8) /\ Len(h) <= Word
  BY PartsAssumption DEF C!ContractAssumption, C!Chars

\* The places of the fields that are in the topics, or in the data.
Places(cls, kind) == { i \in DOMAIN cls : cls[i].indexed = kind }

\* They are a to b; these fields.
Consecutive(cls, kind, a, b) == Places(cls, kind) = a .. b

Fields(cls, a, b) == [k \in 1 .. b - a + 1 |-> cls[a + k - 1]]

\* Where they are consecutive they are the columns.
LEMMA ColumnsFacts ==
  ASSUME NEW cls, NEW kind, NEW a \in Nat, NEW b \in Nat, a <= b + 1,
         Consecutive(cls, kind, a, b)
  PROVE  C!Columns(cls, kind) = Fields(cls, a, b)
<1> DEFINE at == Places(cls, kind)
<1> USE DEF Consecutive
<1>1. \A i \in a .. b + 1 : C!Cardinality({ j \in at : j < i }) = i - a
  <2> SUFFICES ASSUME NEW i \in a .. b + 1 PROVE C!Cardinality({ j \in at : j < i }) = i - a
    OBVIOUS
  <2> DEFINE c == i - 1
  <2>1. { j \in at : j < i } = a .. c
    OBVIOUS
  <2>2. c \in Int /\ a \in Int /\ c - a + 1 = i - a /\ (a > c => i - a = 0)
    OBVIOUS
  <2> HIDE DEF c
  <2>3. Cardinality(a .. c) = IF a > c THEN 0 ELSE c - a + 1
    BY <2>2, FS_Interval
  <2>4. C!Cardinality(a .. c) = Cardinality(a .. c)
    BY ContractCardinality
  <2> QED
    BY <2>1, <2>2, <2>3, <2>4
<1>2. C!Cardinality(at) = b - a + 1
  <2>1. at = { j \in at : j < b + 1 } /\ b + 1 \in a .. b + 1 /\ b + 1 - a = b - a + 1
    OBVIOUS
  <2>2. C!Cardinality({ j \in at : j < b + 1 }) = b + 1 - a
    BY <1>1
  <2> HIDE DEF at
  <2> QED
    BY <2>1, <2>2
<1>3. \A k \in 1 .. b - a + 1 :
        (CHOOSE i \in at : C!Cardinality({ j \in at : j < i }) = k - 1) = a + k - 1
  <2> SUFFICES ASSUME NEW k \in 1 .. b - a + 1
               PROVE  (CHOOSE i \in at : C!Cardinality({ j \in at : j < i }) = k - 1) = a + k - 1
    OBVIOUS
  <2> DEFINE P(i) == C!Cardinality({ j \in at : j < i }) = k - 1
  <2>1. /\ at = a .. b /\ a + k - 1 \in a .. b + 1 /\ a + k - 1 \in a .. b
        /\ (a + k - 1) - a = k - 1
    OBVIOUS
  <2> HIDE DEF at
  <2>2. a + k - 1 \in at /\ P(a + k - 1)
    BY <1>1, <2>1
  <2>3. \A i \in at : P(i) => i = a + k - 1
    <3> SUFFICES ASSUME NEW i \in at, P(i) PROVE i = a + k - 1
      OBVIOUS
    <3>1. i - a = k - 1
      BY <1>1, <2>1
    <3> QED
      BY <2>1, <3>1
  <2> HIDE DEF P
  <2>4. (CHOOSE i \in at : P(i)) = a + k - 1
    BY <2>2, <2>3
  <2> QED
    BY <2>4 DEF P
<1>4. C!Columns(cls, kind) =
        [k \in 1 .. C!Cardinality(at) |-> cls[CHOOSE i \in at : C!Cardinality({ j \in at : j < i }) = k - 1]]
  BY Zenon DEF C!Columns, Places
<1> HIDE DEF at
<1> QED
  BY <1>2, <1>3, <1>4 DEF Fields

\* A class of n fields, each with its own name, of which the first m are indexed.
Class(cls, m, n) ==
  /\ m \in Nat /\ n \in Nat /\ m <= n /\ DOMAIN cls = 1 .. n
  /\ \A i \in 1 .. n : (i <= m => cls[i].indexed = TRUE) /\ (m < i => cls[i].indexed = FALSE)
  /\ \A i, j \in 1 .. n : cls[i].name = cls[j].name => i = j

LEMMA ClassTopics ==
  ASSUME NEW cls, NEW m, NEW n, Class(cls, m, n)
  PROVE  C!Columns(cls, TRUE) = Fields(cls, 1, m)
<1>1. 1 \in Nat /\ m \in Nat /\ 1 <= m + 1
  BY DEF Class
<1>2. Places(cls, TRUE) = 1 .. m
  BY DEF Class, Places
<1> QED
  BY <1>1, <1>2, ColumnsFacts, Zenon DEF Consecutive

LEMMA ClassData ==
  ASSUME NEW cls, NEW m, NEW n, Class(cls, m, n), NEW a, a = m + 1
  PROVE  C!Columns(cls, FALSE) = Fields(cls, a, n)
<1>1. a \in Nat /\ n \in Nat /\ a <= n + 1
  BY DEF Class
<1>2. Places(cls, FALSE) = a .. n
  BY DEF Class, Places
<1> QED
  BY <1>1, <1>2, ColumnsFacts, Zenon DEF Consecutive

LEMMA FieldsFacts ==
  ASSUME NEW cls, NEW m, NEW n, Class(cls, m, n), NEW a \in Nat \ {0}, NEW b \in Nat, b <= n,
         NEW i \in a .. b
  PROVE  /\ DOMAIN Fields(cls, a, b) = 1 .. b - a + 1
         /\ i - a + 1 \in 1 .. b - a + 1 /\ Fields(cls, a, b)[i - a + 1] = cls[i]
         /\ C!Place(Fields(cls, a, b), cls[i].name) = i - a + 1
         /\ C!Place(cls, cls[i].name) = i
<1> DEFINE s == Fields(cls, a, b)
<1>1. /\ DOMAIN s = 1 .. b - a + 1 /\ \A k \in 1 .. b - a + 1 : s[k] = cls[a + k - 1]
      /\ \A k \in 1 .. b - a + 1 : a + k - 1 \in a .. b /\ a + k - 1 \in 1 .. n
  BY DEF Fields, Class
<1>2. i - a + 1 \in 1 .. b - a + 1 /\ a + (i - a + 1) - 1 = i /\ i \in 1 .. n
  BY DEF Class
<1>3. s[i - a + 1] = cls[i]
  BY <1>1, <1>2
<1>4. \A k \in DOMAIN s : s[k].name = cls[i].name <=> k = i - a + 1
  <2> SUFFICES ASSUME NEW k \in 1 .. b - a + 1, s[k].name = cls[i].name PROVE k = i - a + 1
    BY <1>1, <1>2, <1>3
  <2>1. a + k - 1 = i
    <3>1. a + k - 1 \in 1 .. n /\ cls[a + k - 1].name = cls[i].name
      BY <1>1
    <3> QED
      BY <1>2, <3>1, Zenon DEF Class
  <2> QED
    BY <2>1
<1> HIDE DEF s
<1>5. C!Place(s, cls[i].name) = i - a + 1
  <2> DEFINE p == i - a + 1
  <2> HIDE DEF p
  <2>1. p \in DOMAIN s /\ \A k \in DOMAIN s : s[k].name = cls[i].name <=> k = p
    BY <1>1, <1>2, <1>4 DEF p
  <2>2. C!Place(s, cls[i].name) = p
    BY <2>1 DEF C!Place
  <2> QED
    BY <2>2 DEF p
<1>6. C!Place(cls, cls[i].name) = i
  BY <1>2 DEF C!Place, Class
<1> QED
  BY <1>1, <1>2, <1>3, <1>5, <1>6 DEF s

\* Two views of an event: they differ in what is made of the values only.
Alike(cls, dls) ==
  \A i \in DOMAIN cls : cls[i].name = dls[i].name /\ cls[i].type = dls[i].type

\* What the values of v are encoded to, and the log of an event.
Encodings(fs, v) == [i \in DOMAIN fs |-> C!Encoded(fs[i].type, v[fs[i].name])]
Emitted(cls, name, v) ==
  [topics |-> <<C!SignatureHash(name, cls)>> \o Encodings(C!Columns(cls, TRUE), v),
   data |-> Encodings(C!Columns(cls, FALSE), v)]

LEMMA EventIs ==
  ASSUME NEW name, NEW v
  PROVE  C!Event(name, v) = Emitted(C!AbiEvents[name], name, v)
  BY DEF C!Event, Emitted, Encodings

\* What was encoded is decoded at its place.
LEMMA RoundTrip ==
  ASSUME NEW cls, NEW dls, NEW m, NEW n, Class(cls, m, n), Class(dls, m, n), Alike(cls, dls),
         NEW name, NEW v, NEW i \in 1 .. n
  PROVE  C!ValueOf(dls, Emitted(cls, name, v), dls[i].name) = C!Encoded(cls[i].type, v[cls[i].name])
<1> DEFINE log == Emitted(cls, name, v)
<1>1. m \in Nat /\ n \in Nat /\ m <= n /\ i \in Nat /\ 1 <= i /\ i <= n /\ DOMAIN cls = 1 .. n
      /\ DOMAIN dls = 1 .. n
  BY DEF Class
<1>2. C!Place(dls, dls[i].name) = i
  <2>1. n \in Nat /\ n <= n /\ 1 \in Nat \ {0} /\ i \in 1 .. n
    BY <1>1
  <2> QED
    BY <2>1, FieldsFacts
<1>3. CASE i <= m
  <2>1. m \in Nat /\ m <= n /\ 1 \in Nat \ {0} /\ i \in 1 .. m /\ i - 1 + 1 = i /\ m - 1 + 1 = m
    BY <1>1, <1>3
  <2> DEFINE cs == Fields(cls, 1, m)
             ds == Fields(dls, 1, m)
  <2>2. /\ DOMAIN cs = 1 .. m /\ cs[i] = cls[i] /\ C!Place(ds, dls[i].name) = i
    BY <2>1, FieldsFacts
  <2>3. C!Columns(cls, TRUE) = cs /\ C!Columns(dls, TRUE) = ds
    BY ClassTopics
  <2> HIDE DEF cs, ds
  <2>4. log.topics[1 + i] = C!Encoded(cls[i].type, v[cls[i].name])
    <3> DEFINE row == Encodings(cs, v)
    <3>1. DOMAIN row = 1 .. m /\ row[i] = C!Encoded(cls[i].type, v[cls[i].name])
      BY <2>1, <2>2 DEF Encodings
    <3>2. row \in Seq({ row[k] : k \in 1 .. m }) /\ Len(row) = m
      BY <2>1, <3>1 DEF Encodings
    <3>3. log.topics = <<C!SignatureHash(name, cls)>> \o row
      BY <2>3 DEF Emitted
    <3> HIDE DEF row, log
    <3>4. (<<C!SignatureHash(name, cls)>> \o row)[1 + i] = row[i]
      BY <1>1, <2>1, <3>2
    <3> QED
      BY <3>1, <3>3, <3>4
  <2>5. dls[i].indexed = TRUE
    BY <1>1, <1>3 DEF Class
  <2> HIDE DEF log
  <2>6. C!Place(C!Columns(dls, TRUE), dls[i].name) = i
    BY <2>2, <2>3, Zenon
  <2>7. dls[C!Place(dls, dls[i].name)].indexed
    BY <1>2, <2>5
  <2>8. C!ValueOf(dls, log, dls[i].name) = log.topics[1 + C!Place(C!Columns(dls, TRUE), dls[i].name)]
    BY <2>7, Zenon DEF C!ValueOf
  <2>9. C!ValueOf(dls, log, dls[i].name) = log.topics[1 + i]
    BY <2>6, <2>8, Zenon
  <2> QED
    BY <2>4, <2>9 DEF log
<1>4. CASE m < i
  <2> DEFINE a == m + 1
             cs == Fields(cls, a, n)
             ds == Fields(dls, a, n)
             k == i - a + 1
  <2>1. n \in Nat /\ n <= n /\ a \in Nat \ {0} /\ i \in a .. n /\ k \in 1 .. n - a + 1
    BY <1>1, <1>4
  <2> HIDE DEF a
  <2>2. /\ DOMAIN cs = 1 .. n - a + 1 /\ cs[k] = cls[i] /\ C!Place(ds, dls[i].name) = k
    <3>1. DOMAIN Fields(cls, a, n) = 1 .. n - a + 1
      BY <2>1, FieldsFacts
    <3>2. Fields(cls, a, n)[i - a + 1] = cls[i]
      BY <2>1, FieldsFacts
    <3>3. C!Place(Fields(dls, a, n), dls[i].name) = i - a + 1
      BY <2>1, FieldsFacts
    <3> QED
      BY <3>1, <3>2, <3>3
  <2>3. C!Columns(cls, FALSE) = cs /\ C!Columns(dls, FALSE) = ds
    <3>1. a = m + 1
      BY DEF a
    <3> QED
      BY <3>1, ClassData
  <2> HIDE DEF cs, ds, k
  <2>4. log.data[k] = C!Encoded(cls[i].type, v[cls[i].name])
    <3>1. log.data = Encodings(C!Columns(cls, FALSE), v)
      BY DEF log, Emitted
    <3>2. k \in DOMAIN cs
      BY <2>1, <2>2
    <3> QED
      BY <2>2, <2>3, <3>1, <3>2, Zenon DEF Encodings
  <2>5. dls[i].indexed = FALSE
    BY <1>1, <1>4 DEF Class
  <2> HIDE DEF log
  <2>6. C!Place(C!Columns(dls, FALSE), dls[i].name) = k
    BY <2>2, <2>3, Zenon
  <2>7. ~ dls[C!Place(dls, dls[i].name)].indexed
    BY <1>2, <2>5
  <2>8. C!ValueOf(dls, log, dls[i].name) = log.data[C!Place(C!Columns(dls, FALSE), dls[i].name)]
    BY <2>7, Zenon DEF C!ValueOf
  <2>9. C!ValueOf(dls, log, dls[i].name) = log.data[k]
    BY <2>6, <2>8, Zenon
  <2> QED
    BY <2>4, <2>9 DEF log
<1> QED
  BY <1>1, <1>3, <1>4

\* What is made of the value of field i.
Value(cls, dls, v, i) == C!Decoded(dls[i], C!Encoded(cls[i].type, v[cls[i].name]))

\* What is to be read as characters is characters.
Readable(cls, dls, v, n) ==
  \A i \in 1 .. n : dls[i].as = "ascii" => C!IsAscii(C!Encoded(cls[i].type, v[cls[i].name]))

\* e is the object of those values.
Holds(e, cls, dls, v, n) ==
  /\ DOMAIN e = { dls[i].name : i \in 1 .. n } /\ e = [x \in DOMAIN e |-> e[x]]
  /\ \A i \in 1 .. n : e[dls[i].name] = Value(cls, dls, v, i)

\* from_event returns one value for each field.
LEMMA FromEventFacts ==
  ASSUME NEW cls, NEW dls, NEW m, NEW n, Class(cls, m, n), Class(dls, m, n), Alike(cls, dls),
         NEW name, NEW v, Readable(cls, dls, v, n)
  PROVE  Holds(C!FromEvent(dls, Emitted(cls, name, v)), cls, dls, v, n)
<1> DEFINE log == Emitted(cls, name, v)
           names == { dls[i].name : i \in DOMAIN dls }
<1>1. DOMAIN dls = 1 .. n /\ n \in Nat /\ n <= n /\ 1 \in Nat \ {0}
  BY DEF Class
<1>2. \A i \in 1 .. n : C!ValueOf(dls, log, dls[i].name) = C!Encoded(cls[i].type, v[cls[i].name])
  BY RoundTrip
<1> HIDE DEF log
<1>3. \A i \in DOMAIN dls : dls[i].as = "ascii" => C!IsAscii(C!ValueOf(dls, log, dls[i].name))
  BY <1>1, <1>2 DEF Readable
<1>4. C!FromEvent(dls, log) =
        [x \in names |-> C!Decoded(dls[C!Place(dls, x)], C!ValueOf(dls, log, x))]
  BY <1>3, Zenon DEF C!FromEvent
<1>5. ASSUME NEW i \in 1 .. n
      PROVE  C!FromEvent(dls, log)[dls[i].name] = Value(cls, dls, v, i)
  <2>1. dls[i].name \in names
    BY <1>1
  <2>2. C!FromEvent(dls, log)[dls[i].name]
          = C!Decoded(dls[C!Place(dls, dls[i].name)], C!ValueOf(dls, log, dls[i].name))
    BY <1>4, <2>1, Zenon
  <2>3. C!Place(dls, dls[i].name) = i
    <3>1. n \in Nat /\ n <= n /\ 1 \in Nat \ {0} /\ i \in 1 .. n
      BY <1>1
    <3> QED
      BY <3>1, FieldsFacts
  <2> QED
    BY <1>2, <2>2, <2>3, Zenon DEF Value
<1> DEFINE e == C!FromEvent(dls, log)
<1>6. DOMAIN e = names /\ e = [x \in DOMAIN e |-> e[x]]
  <2>1. DOMAIN [x \in names |-> C!Decoded(dls[C!Place(dls, x)], C!ValueOf(dls, log, x))] = names
    OBVIOUS
  <2> QED
    BY <1>4, <2>1
<1> HIDE DEF e
<1>7. Holds(e, cls, dls, v, n)
  BY <1>1, <1>5, <1>6 DEF Holds, e
<1> QED
  BY <1>7 DEF log, e

ClassNames == {"Publication", "NewPeer", "Award"}

LEMMA TypesFacts ==
  /\ DOMAIN C!EventTypes = ClassNames
  /\ C!EventTypes["Publication"] = C!Publication("hex")
  /\ C!EventTypes["NewPeer"] = C!NewPeer("ascii") /\ C!EventTypes["Award"] = C!Award
  /\ C!AbiEvents["Publication"] = C!Publication("")
  /\ C!AbiEvents["NewPeer"] = C!NewPeer("") /\ C!AbiEvents["Award"] = C!Award
  BY DEF C!EventTypes, C!AbiEvents, ClassNames

LEMMA ClassFacts ==
  /\ \A as : Class(C!Publication(as), 2, 5) /\ Class(C!NewPeer(as), 0, 2)
  /\ Class(C!Award, 1, 3)
<1>1. ASSUME NEW as PROVE Class(C!Publication(as), 2, 5)
  <2> DEFINE cls == C!Publication(as)
  <2>1. DOMAIN cls = 1 .. 5
    BY DEF C!Publication
  <2>2. /\ cls[1].indexed = TRUE /\ cls[2].indexed = TRUE /\ cls[3].indexed = FALSE
        /\ cls[4].indexed = FALSE /\ cls[5].indexed = FALSE
        /\ cls[1].name = "replyTo" /\ cls[2].name = "magnet" /\ cls[3].name = "source"
        /\ cls[4].name = "size" /\ cls[5].name = "retention"
    BY DEF C!Publication, C!Field
  <2> HIDE DEF cls
  <2>3. \A i \in 1 .. 5 : i = 1 \/ i = 2 \/ i = 3 \/ i = 4 \/ i = 5
    OBVIOUS
  <2>4. \A i \in 1 .. 5 : (i <= 2 => cls[i].indexed = TRUE) /\ (2 < i => cls[i].indexed = FALSE)
    BY <2>2, <2>3
  <2>5. \A i, j \in 1 .. 5 : cls[i].name = cls[j].name => i = j
    BY <2>2, <2>3
  <2>6. 2 \in Nat /\ 5 \in Nat /\ 2 <= 5
    OBVIOUS
  <2>7. Class(cls, 2, 5)
    BY <2>1, <2>4, <2>5, <2>6, Zenon DEF Class
  <2> QED
    BY <2>7 DEF cls
<1>2. ASSUME NEW as PROVE Class(C!NewPeer(as), 0, 2)
  <2> DEFINE cls == C!NewPeer(as)
  <2>1. DOMAIN cls = 1 .. 2
    BY DEF C!NewPeer
  <2>2. /\ cls[1].indexed = FALSE /\ cls[2].indexed = FALSE
        /\ cls[1].name = "addr" /\ cls[2].name = "hostname"
    BY DEF C!NewPeer, C!Field
  <2> HIDE DEF cls
  <2>3. \A i \in 1 .. 2 : i = 1 \/ i = 2
    OBVIOUS
  <2>4. \A i \in 1 .. 2 : (i <= 0 => cls[i].indexed = TRUE) /\ (0 < i => cls[i].indexed = FALSE)
    BY <2>2, <2>3
  <2>5. \A i, j \in 1 .. 2 : cls[i].name = cls[j].name => i = j
    BY <2>2, <2>3
  <2>6. 0 \in Nat /\ 2 \in Nat /\ 0 <= 2
    OBVIOUS
  <2>7. Class(cls, 0, 2)
    BY <2>1, <2>4, <2>5, <2>6, Zenon DEF Class
  <2> QED
    BY <2>7 DEF cls
<1>3. Class(C!Award, 1, 3)
  <2> DEFINE cls == C!Award
  <2>1. DOMAIN cls = 1 .. 3
    BY DEF C!Award
  <2>2. /\ cls[1].indexed = TRUE /\ cls[2].indexed = FALSE /\ cls[3].indexed = FALSE
        /\ cls[1].name = "magnet" /\ cls[2].name = "source" /\ cls[3].name = "amount"
    BY DEF C!Award, C!Field
  <2> HIDE DEF cls
  <2>3. \A i \in 1 .. 3 : i = 1 \/ i = 2 \/ i = 3
    OBVIOUS
  <2>4. \A i \in 1 .. 3 : (i <= 1 => cls[i].indexed = TRUE) /\ (1 < i => cls[i].indexed = FALSE)
    BY <2>2, <2>3
  <2>5. \A i, j \in 1 .. 3 : cls[i].name = cls[j].name => i = j
    BY <2>2, <2>3
  <2>6. 1 \in Nat /\ 3 \in Nat /\ 1 <= 3
    OBVIOUS
  <2>7. Class(cls, 1, 3)
    BY <2>1, <2>4, <2>5, <2>6, Zenon DEF Class
  <2> QED
    BY <2>7 DEF cls
<1> QED
  BY <1>1, <1>2, <1>3, Zenon

LEMMA AlikeFacts ==
  /\ Alike(C!Publication(""), C!Publication("hex")) /\ Alike(C!NewPeer(""), C!NewPeer("ascii"))
  /\ Alike(C!Award, C!Award)
<1>1. Alike(C!Publication(""), C!Publication("hex"))
  <2> DEFINE cls == C!Publication("")
             dls == C!Publication("hex")
  <2>1. DOMAIN cls = 1 .. 5 /\ \A i \in 1 .. 5 : i = 1 \/ i = 2 \/ i = 3 \/ i = 4 \/ i = 5
    BY DEF C!Publication
  <2>2. /\ cls[1].name = dls[1].name /\ cls[2].name = dls[2].name /\ cls[3].name = dls[3].name
        /\ cls[4].name = dls[4].name /\ cls[5].name = dls[5].name
        /\ cls[1].type = dls[1].type /\ cls[2].type = dls[2].type /\ cls[3].type = dls[3].type
        /\ cls[4].type = dls[4].type /\ cls[5].type = dls[5].type
    BY DEF C!Publication, C!Field
  <2> HIDE DEF cls, dls
  <2>3. Alike(cls, dls)
    BY <2>1, <2>2 DEF Alike
  <2> QED
    BY <2>3 DEF cls, dls
<1>2. Alike(C!NewPeer(""), C!NewPeer("ascii"))
  <2> DEFINE cls == C!NewPeer("")
             dls == C!NewPeer("ascii")
  <2>1. DOMAIN cls = 1 .. 2 /\ \A i \in 1 .. 2 : i = 1 \/ i = 2
    BY DEF C!NewPeer
  <2>2. /\ cls[1].name = dls[1].name /\ cls[2].name = dls[2].name
        /\ cls[1].type = dls[1].type /\ cls[2].type = dls[2].type
    BY DEF C!NewPeer, C!Field
  <2> HIDE DEF cls, dls
  <2>3. Alike(cls, dls)
    BY <2>1, <2>2 DEF Alike
  <2> QED
    BY <2>3 DEF cls, dls
<1> QED
  BY <1>1, <1>2 DEF Alike

\* The first topic tells the class.
LEMMA ParseFacts ==
  ASSUME NEW name \in ClassNames, NEW v,
         DOMAIN C!AbiEvents[name] = DOMAIN C!EventTypes[name],
         Alike(C!AbiEvents[name], C!EventTypes[name]),
         NEW k \in Nat, DOMAIN Encodings(C!Columns(C!AbiEvents[name], TRUE), v) = 1 .. k
  PROVE  C!Parse(C!Event(name, v)) = C!FromEvent(C!EventTypes[name], Emitted(C!AbiEvents[name], name, v))
<1> DEFINE cls == C!AbiEvents[name]
           log == Emitted(cls, name, v)
           known == { x \in DOMAIN C!EventTypes :
                        C!SignatureHash(x, C!EventTypes[x]) = log.topics[1] }
           row == Encodings(C!Columns(cls, TRUE), v)
<1>1. log.topics[1] = C!SignatureHash(name, cls)
  <2>1. row \in Seq({ row[j] : j \in 1 .. k })
    <3>1. DOMAIN row = 1 .. k /\ row = [j \in DOMAIN row |-> row[j]]
      BY DEF Encodings
    <3> HIDE DEF row
    <3>2. row \in [1 .. k -> { row[j] : j \in 1 .. k }]
      BY <3>1
    <3> QED
      BY <3>2
  <2>2. log.topics = <<C!SignatureHash(name, cls)>> \o row
    BY DEF Emitted
  <2> HIDE DEF row, cls, log
  <2>3. (<<C!SignatureHash(name, cls)>> \o row)[1] = C!SignatureHash(name, cls)
    BY <2>1
  <2> QED
    BY <2>2, <2>3
<1>2. C!SignatureHash(name, C!EventTypes[name]) = C!SignatureHash(name, cls)
  BY DEF C!SignatureHash, Alike
<1>3. \A x : C!SignatureHash(x, C!EventTypes[x]) = C!SignatureHash(name, cls) => x = name
  BY DEF C!SignatureHash
<1>4. known = {name}
  BY <1>1, <1>2, <1>3, TypesFacts
<1>5. C!Event(name, v) = log
  BY EventIs
<1> HIDE DEF log
<1>6. C!Parse(log) = IF known = {} THEN C!Raised
                     ELSE C!FromEvent(C!EventTypes[CHOOSE x \in known : TRUE], log)
  BY Zenon DEF C!Parse
<1>7. (CHOOSE x \in known : TRUE) = name /\ known # {}
  BY <1>4
<1> HIDE DEF known
<1> QED
  BY <1>5, <1>6, <1>7, Zenon DEF log

\* An event is read back as the values it was emitted with.
LEMMA ReadFacts ==
  ASSUME NEW name \in ClassNames, NEW m, NEW n, NEW v,
         Class(C!AbiEvents[name], m, n), Class(C!EventTypes[name], m, n),
         Alike(C!AbiEvents[name], C!EventTypes[name]),
         Readable(C!AbiEvents[name], C!EventTypes[name], v, n)
  PROVE  Holds(C!Parse(C!Event(name, v)), C!AbiEvents[name], C!EventTypes[name], v, n)
<1> DEFINE cls == C!AbiEvents[name]
           dls == C!EventTypes[name]
<1>1. C!Parse(C!Event(name, v)) = C!FromEvent(dls, Emitted(cls, name, v))
  <2>1. DOMAIN cls = DOMAIN dls /\ m \in Nat
    BY DEF Class
  <2>2. DOMAIN Encodings(C!Columns(cls, TRUE), v) = 1 .. m
    <3>1. C!Columns(cls, TRUE) = Fields(cls, 1, m)
      BY ClassTopics
    <3> HIDE DEF cls
    <3>2. DOMAIN Fields(cls, 1, m) = 1 .. m
      BY <2>1 DEF Fields
    <3>3. DOMAIN C!Columns(cls, TRUE) = 1 .. m
      BY <3>1, <3>2, Zenon
    <3> QED
      BY <3>3, Zenon DEF Encodings
  <2> QED
    BY <2>1, <2>2, ParseFacts
<1>2. Holds(C!FromEvent(dls, Emitted(cls, name, v)), cls, dls, v, n)
  BY FromEventFacts, Zenon
<1> QED
  BY <1>1, <1>2, Zenon

\* The three classes.
LEMMA NotRaised ==
  ASSUME NEW e, "magnet" \in DOMAIN e \/ "addr" \in DOMAIN e
  PROVE  e # C!Raised
  BY DEF C!Raised

LEMMA PublicationRead ==
  ASSUME NEW v
  PROVE  LET e == C!Parse(C!Event("Publication", v))
         IN /\ e # C!Raised /\ e.size = v.size
            /\ e.magnet = [hex |-> C!Padded(v.magnet)] /\ e.replyTo = [hex |-> C!Padded(v.replyTo)]
<1> DEFINE cls == C!Publication("")
           dls == C!Publication("hex")
           e == C!Parse(C!Event("Publication", v))
<1>1. PICK name \in ClassNames : name = "Publication"
  BY DEF ClassNames
<1>2. C!AbiEvents[name] = cls /\ C!EventTypes[name] = dls
  BY <1>1, TypesFacts
<1>3. /\ Class(C!AbiEvents[name], 2, 5) /\ Class(C!EventTypes[name], 2, 5)
      /\ Alike(C!AbiEvents[name], C!EventTypes[name])
  BY <1>2, ClassFacts, AlikeFacts, Zenon
<1>4. /\ dls[1].name = "replyTo" /\ dls[2].name = "magnet" /\ dls[3].name = "source"
      /\ dls[4].name = "size" /\ dls[5].name = "retention"
      /\ cls[1].name = "replyTo" /\ cls[2].name = "magnet" /\ cls[4].name = "size"
      /\ dls[1].as = "hex" /\ dls[2].as = "hex" /\ dls[3].as = ""
      /\ dls[4].as = "" /\ dls[5].as = ""
      /\ cls[1].type = "bytes32" /\ cls[2].type = "bytes32" /\ cls[4].type = "uint256"
  BY DEF C!Publication, C!Field
<1> HIDE DEF cls, dls
<1>5. \A i \in 1 .. 5 : i = 1 \/ i = 2 \/ i = 3 \/ i = 4 \/ i = 5
  OBVIOUS
<1>6. \A i \in 1 .. 5 : dls[i].as # "ascii"
  BY <1>4, <1>5
<1>7. Holds(C!Parse(C!Event(name, v)), C!AbiEvents[name], C!EventTypes[name], v, 5)
  <2>1. Readable(C!AbiEvents[name], C!EventTypes[name], v, 5)
    BY <1>2, <1>6, Zenon DEF Readable
  <2> QED
    BY <1>3, <2>1, ReadFacts, Zenon
<1>8. Holds(e, cls, dls, v, 5)
  BY <1>1, <1>2, <1>7, Zenon
<1> HIDE DEF e
<1>9. e["replyTo"] = Value(cls, dls, v, 1) /\ e["magnet"] = Value(cls, dls, v, 2)
      /\ e["size"] = Value(cls, dls, v, 4) /\ "magnet" \in DOMAIN e
  <2>1. 1 \in 1 .. 5 /\ 2 \in 1 .. 5 /\ 4 \in 1 .. 5
    OBVIOUS
  <2>2. /\ e[dls[1].name] = Value(cls, dls, v, 1) /\ e[dls[2].name] = Value(cls, dls, v, 2)
        /\ e[dls[4].name] = Value(cls, dls, v, 4) /\ dls[2].name \in DOMAIN e
    BY <1>8, <2>1, Zenon DEF Holds
  <2> QED
    BY <1>4, <2>2, Zenon
<1>10. e # C!Raised
  BY <1>9, NotRaised
<1>11. /\ Value(cls, dls, v, 1) = [hex |-> C!Padded(v.replyTo)]
       /\ Value(cls, dls, v, 2) = [hex |-> C!Padded(v.magnet)]
       /\ Value(cls, dls, v, 4) = v.size
  BY <1>4 DEF Value, C!Decoded, C!Encoded
<1> QED
  BY <1>9, <1>10, <1>11 DEF e

LEMMA AwardRead ==
  ASSUME NEW v
  PROVE  C!Parse(C!Event("Award", v)) # C!Raised
<1>1. PICK name \in ClassNames : name = "Award"
  BY DEF ClassNames
<1>2. C!AbiEvents[name] = C!Award /\ C!EventTypes[name] = C!Award
  BY <1>1, TypesFacts
<1>3. /\ Class(C!AbiEvents[name], 1, 3) /\ Class(C!EventTypes[name], 1, 3)
      /\ Alike(C!AbiEvents[name], C!EventTypes[name])
  BY <1>2, ClassFacts, AlikeFacts, Zenon
<1>4. /\ C!Award[1].name = "magnet" /\ C!Award[1].as = "" /\ C!Award[2].as = ""
      /\ C!Award[3].as = ""
  BY DEF C!Award, C!Field
<1>5. \A i \in 1 .. 3 : i = 1 \/ i = 2 \/ i = 3
  OBVIOUS
<1>6. \A i \in 1 .. 3 : C!EventTypes[name][i].as # "ascii"
  BY <1>2, <1>4, <1>5
<1>7. Holds(C!Parse(C!Event(name, v)), C!AbiEvents[name], C!EventTypes[name], v, 3)
  <2>1. Readable(C!AbiEvents[name], C!EventTypes[name], v, 3)
    BY <1>6, Zenon DEF Readable
  <2> QED
    BY <1>3, <2>1, ReadFacts, Zenon
<1>8. "magnet" \in DOMAIN C!Parse(C!Event(name, v))
  <2>1. 1 \in 1 .. 3
    OBVIOUS
  <2>2. C!EventTypes[name][1].name \in DOMAIN C!Parse(C!Event(name, v))
    BY <1>7, <2>1, Zenon DEF Holds
  <2> QED
    BY <1>2, <1>4, <2>2, Zenon
<1>9. C!Parse(C!Event(name, v)) # C!Raised
  BY <1>8, NotRaised
<1> QED
  BY <1>1, <1>9

LEMMA NewPeerRead ==
  ASSUME NEW v, C!IsAscii(C!Padded(v.hostname))
  PROVE  C!Parse(C!Event("NewPeer", v))
           = [addr |-> v.addr, hostname |-> [ascii |-> C!Stripped(C!Padded(v.hostname))]]
<1> DEFINE cls == C!NewPeer("")
           dls == C!NewPeer("ascii")
           e == C!Parse(C!Event("NewPeer", v))
<1>1. PICK name \in ClassNames : name = "NewPeer"
  BY DEF ClassNames
<1>2. C!AbiEvents[name] = cls /\ C!EventTypes[name] = dls
  BY <1>1, TypesFacts
<1>3. /\ Class(C!AbiEvents[name], 0, 2) /\ Class(C!EventTypes[name], 0, 2)
      /\ Alike(C!AbiEvents[name], C!EventTypes[name])
  BY <1>2, ClassFacts, AlikeFacts, Zenon
<1>4. /\ dls[1].name = "addr" /\ dls[2].name = "hostname" /\ dls[1].as = "" /\ dls[2].as = "ascii"
      /\ cls[1].name = "addr" /\ cls[2].name = "hostname"
      /\ cls[1].type = "address" /\ cls[2].type = "bytes32"
  BY DEF C!NewPeer, C!Field
<1> HIDE DEF cls, dls
<1>5. \A i \in 1 .. 2 : i = 1 \/ i = 2
  OBVIOUS
<1>6. C!Encoded(cls[2].type, v[cls[2].name]) = C!Padded(v.hostname)
  BY <1>4 DEF C!Encoded
<1>7. Readable(C!AbiEvents[name], C!EventTypes[name], v, 2)
  <2> SUFFICES ASSUME NEW i \in 1 .. 2, dls[i].as = "ascii"
               PROVE  C!IsAscii(C!Encoded(cls[i].type, v[cls[i].name]))
    BY <1>2, Zenon DEF Readable
  <2>1. i = 2
    BY <1>4, <1>5
  <2> QED
    BY <1>6, <2>1
<1>8. Holds(C!Parse(C!Event(name, v)), C!AbiEvents[name], C!EventTypes[name], v, 2)
  BY <1>3, <1>7, ReadFacts, Zenon
<1>9. Holds(e, cls, dls, v, 2)
  BY <1>1, <1>2, <1>8, Zenon
<1>10. /\ Value(cls, dls, v, 1) = v.addr
       /\ Value(cls, dls, v, 2) = [ascii |-> C!Stripped(C!Padded(v.hostname))]
  BY <1>4, <1>6 DEF Value, C!Decoded, C!Encoded
<1> HIDE DEF e
<1>11. DOMAIN e = {"addr", "hostname"} /\ e = [x \in DOMAIN e |-> e[x]]
  <2>1. DOMAIN e = { dls[i].name : i \in 1 .. 2 } /\ e = [x \in DOMAIN e |-> e[x]]
    BY <1>9, Zenon DEF Holds
  <2>2. { dls[i].name : i \in 1 .. 2 } = {dls[1].name, dls[2].name}
    BY <1>5
  <2> QED
    BY <1>4, <2>1, <2>2, Zenon
<1>12. e["addr"] = v.addr /\ e["hostname"] = [ascii |-> C!Stripped(C!Padded(v.hostname))]
  <2>1. 1 \in 1 .. 2 /\ 2 \in 1 .. 2
    OBVIOUS
  <2>2. e[dls[1].name] = Value(cls, dls, v, 1) /\ e[dls[2].name] = Value(cls, dls, v, 2)
    BY <1>9, <2>1, Zenon DEF Holds
  <2> QED
    BY <1>4, <1>10, <2>2, Zenon
<1>13. e = [addr |-> v.addr, hostname |-> [ascii |-> C!Stripped(C!Padded(v.hostname))]]
  BY <1>11, <1>12
<1> QED
  BY <1>13 DEF e

\* Words.
LEMMA PaddedFacts ==
  ASSUME NEW b
  PROVE  C!Padded(C!Padded(b)) = C!Padded(b)
<1> DEFINE w == C!Padded(b)
           T == { w[i] : i \in 1 .. Word }
<1>1. w = [i \in 1 .. Word |-> w[i]] /\ Word \in Nat
  BY CodingFacts DEF C!Padded
<1> HIDE DEF w
<1>2. w \in [1 .. Word -> T]
  BY <1>1
<1>3. Len(w) = Word
  BY <1>1, <1>2
<1>4. C!Padded(w) = [i \in 1 .. Word |-> w[i]]
  BY <1>1, <1>3 DEF C!Padded
<1> QED
  BY <1>1, <1>4 DEF w

LEMMA PaddedWord ==
  ASSUME NEW b \in C!Words
  PROVE  C!Padded(b) = b
<1>1. b = [i \in 1 .. Word |-> b[i]] /\ Len(b) = Word /\ Word \in Nat
  BY CodingFacts DEF C!Words
<1>2. C!Padded(b) = [i \in 1 .. Word |-> b[i]]
  BY <1>1 DEF C!Padded
<1> QED
  BY <1>1, <1>2

LEMMA HostnameFacts ==
  ASSUME NEW h \in Seq(1 .. 8), Len(h) <= Word
  PROVE  C!IsAscii(C!Padded(h)) /\ C!Stripped(C!Padded(h)) = h
<1> DEFINE w == C!Padded(h)
           n == Len(h)
<1>1. /\ n \in Nat /\ Word \in Nat /\ DOMAIN w = 1 .. Word /\ DOMAIN h = 1 .. n
      /\ \A i \in 1 .. n : w[i] = h[i] /\ h[i] \in 1 .. 8
      /\ \A i \in n + 1 .. Word : w[i] = 0
      /\ n <= Word /\ \A i \in 1 .. n : i \in 1 .. Word
  BY CodingFacts DEF C!Padded, C!Nul
<1> HIDE DEF w
<1>2. \A i \in 1 .. Word : w[i] \in 0 .. 8
  BY <1>1
<1>3. C!IsAscii(w)
  BY <1>1, <1>2 DEF C!IsAscii, C!Other
<1> DEFINE End(k) == (k = 0 \/ w[k] # 0) /\ \A i \in k + 1 .. Word : w[i] = 0
<1>4. n \in 0 .. Word /\ End(n)
  <2>1. n = 0 \/ (n \in 1 .. n /\ w[n] = h[n] /\ h[n] \in 1 .. 8)
    BY <1>1
  <2> QED
    BY <1>1, <2>1
<1>5. ASSUME NEW k \in 0 .. Word, End(k) PROVE k = n
  <2>1. ~ (n < k)
    <3> SUFFICES ASSUME n < k PROVE FALSE
      OBVIOUS
    <3>1. k \in n + 1 .. Word /\ k # 0
      BY <1>1
    <3> QED
      BY <1>1, <1>5, <3>1
  <2>2. ~ (k < n)
    <3> SUFFICES ASSUME k < n PROVE FALSE
      OBVIOUS
    <3>1. n \in k + 1 .. Word /\ n \in 1 .. n
      BY <1>1
    <3>2. w[n] = 0 /\ w[n] = h[n] /\ h[n] \in 1 .. 8
      BY <1>1, <1>5, <3>1
    <3> QED
      BY <3>2
  <2>3. k \in Nat /\ n \in Nat
    BY <1>1
  <2> HIDE DEF n, End
  <2> QED
    BY <2>1, <2>2, <2>3
<1>6. C!Stripped(w) = SubSeq(w, 1, CHOOSE k \in 0 .. Word : End(k))
  BY DEF C!Stripped, C!Nul
<1> HIDE DEF End
<1>7. (CHOOSE k \in 0 .. Word : End(k)) = n
  BY <1>4, <1>5
<1>8. SubSeq(w, 1, n) = h
  <2>1. SubSeq(w, 1, n) = [i \in 1 .. n |-> w[i]]
    <3>1. w \in Seq(0 .. 8)
      <4>1. w = [i \in 1 .. Word |-> w[i]]
        BY <1>1 DEF w, C!Padded
      <4>2. w \in [1 .. Word -> 0 .. 8]
        BY <1>2, <4>1
      <4> QED
        BY <1>1, <4>2
    <3>2. Len(w) = Word
      BY <1>1, <3>1
    <3> HIDE DEF n
    <3> QED
      BY <1>1, <3>1, <3>2
  <2>2. h = [i \in 1 .. n |-> h[i]]
    BY <1>1
  <2>3. [i \in 1 .. n |-> w[i]] = [i \in 1 .. n |-> h[i]]
    BY <1>1
  <2> QED
    BY <2>1, <2>2, <2>3
<1> QED
  BY <1>3, <1>6, <1>7, <1>8 DEF w

-----------------------------------------------------------------------------
(* Calls.                                                                   *)

\* The names of a method's inputs, and what is sent by a call of it.
Inputs(abi) == { abi[i].name : i \in DOMAIN abi }
CallOf(method, abi, args) ==
  [method |-> method, abi |-> abi,
   arguments |-> [i \in DOMAIN abi |-> C!Encoded(abi[i].type, args[abi[i].name])]]

\* The overloads of post, and register.
Long == C!Methods["post"][1]
Short == C!Methods["post"][2]
Middle == C!Methods["post"][3]
Only == C!Methods["register"][1]

LEMMA InputNames ==
  /\ C!Methods["post"] = <<Long, Short, Middle>> /\ C!Methods["register"] = <<Only>>
  /\ Inputs(Long) = {"replyTo", "magnet", "size", "author", "retention"}
  /\ Inputs(Short) = {"magnet", "size"} /\ Inputs(Middle) = {"replyTo", "magnet", "size"}
  /\ Inputs(Only) = {"hostname"}
<1>1. C!Methods["post"] = <<Long, Short, Middle>> /\ C!Methods["register"] = <<Only>>
  BY DEF Long, Short, Middle, Only, C!Methods
<1>2. Inputs(Long) = {"replyTo", "magnet", "size", "author", "retention"}
  <2>1. DOMAIN Long = 1 .. 5 /\ \A i \in 1 .. 5 : i = 1 \/ i = 2 \/ i = 3 \/ i = 4 \/ i = 5
    BY DEF Long, C!Methods
  <2>2. /\ Long[1].name = "replyTo" /\ Long[2].name = "magnet" /\ Long[3].name = "size"
        /\ Long[4].name = "author" /\ Long[5].name = "retention"
    BY DEF Long, C!Methods, C!Input
  <2> QED
    BY <2>1, <2>2 DEF Inputs
<1>3. Inputs(Short) = {"magnet", "size"}
  <2>1. DOMAIN Short = 1 .. 2 /\ \A i \in 1 .. 2 : i = 1 \/ i = 2
    BY DEF Short, C!Methods
  <2>2. Short[1].name = "magnet" /\ Short[2].name = "size"
    BY DEF Short, C!Methods, C!Input
  <2> QED
    BY <2>1, <2>2 DEF Inputs
<1>4. Inputs(Middle) = {"replyTo", "magnet", "size"}
  <2>1. DOMAIN Middle = 1 .. 3 /\ \A i \in 1 .. 3 : i = 1 \/ i = 2 \/ i = 3
    BY DEF Middle, C!Methods
  <2>2. Middle[1].name = "replyTo" /\ Middle[2].name = "magnet" /\ Middle[3].name = "size"
    BY DEF Middle, C!Methods, C!Input
  <2> QED
    BY <2>1, <2>2 DEF Inputs
<1>5. Inputs(Only) = {"hostname"}
  <2>1. DOMAIN Only = 1 .. 1 /\ Only[1].name = "hostname"
    BY DEF Only, C!Methods, C!Input
  <2> QED
    BY <2>1 DEF Inputs
<1> QED
  BY <1>1, <1>2, <1>3, <1>4, <1>5

\* The definition is the one with the names given.
LEMMA CallDataFacts ==
  ASSUME NEW method, NEW args, NEW k \in Nat, C!Selected(C!Methods[method], args) = {k}
  PROVE  \/ C!CallData(method, args) = C!Raised
         \/ C!CallData(method, args) = CallOf(method, C!Methods[method][k], args)
<1> DEFINE fit == C!Selected(C!Methods[method], args)
<1>1. fit # {} /\ (CHOOSE x \in fit : \A j \in fit : x <= j) = k
  OBVIOUS
<1> DEFINE abi == C!Methods[method][CHOOSE x \in fit : \A j \in fit : x <= j]
           Bad == fit = {} \/ \E i \in DOMAIN abi : ~ C!Fits(abi[i].type, args[abi[i].name])
<1>2. C!CallData(method, args) = IF Bad THEN C!Raised ELSE CallOf(method, abi, args)
  BY Zenon DEF C!CallData, CallOf
<1>3. abi = C!Methods[method][k]
  BY <1>1, Zenon
<1> HIDE DEF fit, abi, Bad
<1> QED
  BY <1>2, <1>3, Zenon

\* Only these are byte strings.
WordNames == {"replyTo", "magnet", "hostname"}
Typed(abi) == \A i \in DOMAIN abi : abi[i].type = "bytes32" <=> abi[i].name \in WordNames

LEMMA InputTypes == Typed(Long) /\ Typed(Short) /\ Typed(Middle) /\ Typed(Only)
<1>1. Typed(Long)
  <2>1. DOMAIN Long = 1 .. 5 /\ \A i \in 1 .. 5 : i = 1 \/ i = 2 \/ i = 3 \/ i = 4 \/ i = 5
    BY DEF Long, C!Methods
  <2>2. /\ Long[1].name = "replyTo" /\ Long[2].name = "magnet" /\ Long[3].name = "size"
        /\ Long[4].name = "author" /\ Long[5].name = "retention"
        /\ Long[1].type = "bytes32" /\ Long[2].type = "bytes32" /\ Long[3].type = "uint256"
        /\ Long[4].type = "address" /\ Long[5].type = "uint32"
    BY DEF Long, C!Methods, C!Input
  <2> QED
    BY <2>1, <2>2 DEF Typed, WordNames
<1>2. Typed(Short)
  <2>1. DOMAIN Short = 1 .. 2 /\ \A i \in 1 .. 2 : i = 1 \/ i = 2
    BY DEF Short, C!Methods
  <2>2. /\ Short[1].name = "magnet" /\ Short[2].name = "size"
        /\ Short[1].type = "bytes32" /\ Short[2].type = "uint32"
    BY DEF Short, C!Methods, C!Input
  <2> QED
    BY <2>1, <2>2 DEF Typed, WordNames
<1>3. Typed(Middle)
  <2>1. DOMAIN Middle = 1 .. 3 /\ \A i \in 1 .. 3 : i = 1 \/ i = 2 \/ i = 3
    BY DEF Middle, C!Methods
  <2>2. /\ Middle[1].name = "replyTo" /\ Middle[2].name = "magnet" /\ Middle[3].name = "size"
        /\ Middle[1].type = "bytes32" /\ Middle[2].type = "bytes32" /\ Middle[3].type = "uint32"
    BY DEF Middle, C!Methods, C!Input
  <2> QED
    BY <2>1, <2>2 DEF Typed, WordNames
<1>4. Typed(Only)
  <2>1. DOMAIN Only = 1 .. 1 /\ Only[1].name = "hostname" /\ Only[1].type = "bytes32"
    BY DEF Only, C!Methods, C!Input
  <2> QED
    BY <2>1 DEF Typed, WordNames
<1> QED
  BY <1>1, <1>2, <1>3, <1>4

\* What the contract takes from the data of a call, and what that is of what was given.
Argument(data, n, default) ==
  IF n \in Inputs(data.abi) THEN data.arguments[C!Place(data.abi, n)] ELSE default

Passed(abi, args, n, default) ==
  IF n \in Inputs(abi) THEN IF n \in WordNames THEN C!Padded(args[n]) ELSE args[n] ELSE default

LEMMA ArgumentFacts ==
  ASSUME NEW method, NEW abi, NEW args, NEW n, NEW default, Typed(abi)
  PROVE  Argument(CallOf(method, abi, args), n, default) = Passed(abi, args, n, default)
<1> DEFINE data == CallOf(method, abi, args)
           p == C!Place(abi, n)
<1>1. data.abi = abi /\ data.arguments = [i \in DOMAIN abi |-> C!Encoded(abi[i].type, args[abi[i].name])]
  BY DEF CallOf
<1>2. n \in Inputs(abi) => p \in DOMAIN abi /\ abi[p].name = n
  BY DEF Inputs, C!Place
<1> HIDE DEF data, p
<1>3. ASSUME n \in Inputs(abi)
      PROVE  data.arguments[p] = IF n \in WordNames THEN C!Padded(args[n]) ELSE args[n]
  <2>1. data.arguments[p] = C!Encoded(abi[p].type, args[n])
    BY <1>1, <1>2, <1>3
  <2>2. abi[p].type = "bytes32" <=> n \in WordNames
    BY <1>2, <1>3 DEF Typed
  <2> QED
    BY <2>1, <2>2 DEF C!Encoded
<1>4. Argument(data, n, default) = IF n \in Inputs(abi) THEN data.arguments[p] ELSE default
  BY <1>1 DEF Argument, p
<1> QED
  BY <1>3, <1>4 DEF data, Passed

LEMMA ExecutedPost ==
  ASSUME NEW data, data.method = "post"
  PROVE  C!Executed(data) =
           C!Event("Publication",
                   [replyTo |-> Argument(data, "replyTo", <<>>), magnet |-> Argument(data, "magnet", <<>>),
                    source |-> Argument(data, "author", "sender"), size |-> Argument(data, "size", 0),
                    retention |-> Argument(data, "retention", 1)])
  BY DEF C!Executed, Argument, Inputs

LEMMA ExecutedRegister ==
  ASSUME NEW data, data.method = "register"
  PROVE  C!Executed(data) =
           C!Event("NewPeer", [addr |-> "sender", hostname |-> Argument(data, "hostname", <<>>)])
  BY DEF C!Executed, Argument, Inputs

\* The three overloads.
LEMMA PostArrives ==
  ASSUME NEW abi, NEW args, Typed(abi), "magnet" \in Inputs(abi), "size" \in Inputs(abi),
         args.magnet \in C!Words, DOMAIN args = Inputs(abi)
  PROVE  LET e == C!Parse(C!Executed(CallOf("post", abi, args)))
         IN /\ e # C!Raised /\ e.size = args.size /\ e.magnet = [hex |-> args.magnet]
            /\ e.replyTo = [hex |-> IF "replyTo" \in DOMAIN args THEN C!Padded(args.replyTo)
                                                                 ELSE C!Padded(<<>>)]
<1> DEFINE data == CallOf("post", abi, args)
           r == Argument(data, "replyTo", <<>>)
           m == Argument(data, "magnet", <<>>)
           s == Argument(data, "size", 0)
           v == [replyTo |-> r, magnet |-> m, source |-> Argument(data, "author", "sender"),
                 size |-> s, retention |-> Argument(data, "retention", 1)]
           e == C!Parse(C!Executed(data))
<1>1. data.method = "post"
  BY DEF CallOf
<1>2. C!Executed(data) = C!Event("Publication", v)
  <2> HIDE DEF data
  <2> QED
    BY <1>1, ExecutedPost
<1>3. /\ r = IF "replyTo" \in Inputs(abi) THEN C!Padded(args.replyTo) ELSE <<>>
      /\ m = C!Padded(args.magnet) /\ s = args.size
  <2>1. "replyTo" \in WordNames /\ "magnet" \in WordNames /\ "size" \notin WordNames
    BY DEF WordNames
  <2>2. \A method, n, default :
          Argument(CallOf(method, abi, args), n, default) = Passed(abi, args, n, default)
    BY ArgumentFacts
  <2>3. r = Passed(abi, args, "replyTo", <<>>)
    BY <2>2, Zenon
  <2>4. m = Passed(abi, args, "magnet", <<>>)
    BY <2>2, Zenon
  <2>5. s = Passed(abi, args, "size", 0)
    BY <2>2, Zenon
  <2> QED
    BY <2>1, <2>3, <2>4, <2>5 DEF Passed
<1> HIDE DEF r, m, s, data
<1>4. v.replyTo = r /\ v.magnet = m /\ v.size = s
  OBVIOUS
<1> HIDE DEF v
<1>5. /\ e # C!Raised /\ e.size = v.size
      /\ e.magnet = [hex |-> C!Padded(v.magnet)] /\ e.replyTo = [hex |-> C!Padded(v.replyTo)]
  BY <1>2, PublicationRead, Zenon
<1>6. C!Padded(m) = args.magnet
  BY <1>3, PaddedFacts, PaddedWord
<1>7. C!Padded(r) = IF "replyTo" \in DOMAIN args THEN C!Padded(args.replyTo) ELSE C!Padded(<<>>)
  BY <1>3, PaddedFacts
<1> HIDE DEF e
<1>8. /\ e # C!Raised /\ e.size = args.size /\ e.magnet = [hex |-> args.magnet]
      /\ e.replyTo = [hex |-> IF "replyTo" \in DOMAIN args THEN C!Padded(args.replyTo)
                                                           ELSE C!Padded(<<>>)]
  BY <1>3, <1>4, <1>5, <1>6, <1>7, Zenon
<1> QED
  BY <1>8 DEF e, data

\* The hostname, which loses its padding again.
LEMMA AddressArrives ==
  ASSUME NEW args, DOMAIN args = {"hostname"}, args.hostname \in Seq(1 .. 8), Len(args.hostname) <= Word
  PROVE  C!Parse(C!Executed(CallOf("register", Only, args)))
           = [addr |-> "sender", hostname |-> [ascii |-> args.hostname]]
<1> DEFINE data == CallOf("register", Only, args)
           h == Argument(data, "hostname", <<>>)
           v == [addr |-> "sender", hostname |-> h]
<1>1. data.method = "register"
  BY DEF CallOf
<1>2. C!Executed(data) = C!Event("NewPeer", v)
  <2> HIDE DEF data
  <2> QED
    BY <1>1, ExecutedRegister
<1>3. h = C!Padded(args.hostname)
  <2>1. "hostname" \in WordNames /\ "hostname" \in Inputs(Only) /\ Typed(Only)
    BY InputNames, InputTypes DEF WordNames
  <2>2. \A method, n, default :
          Argument(CallOf(method, Only, args), n, default) = Passed(Only, args, n, default)
    BY <2>1, ArgumentFacts
  <2>3. h = Passed(Only, args, "hostname", <<>>)
    BY <2>2, Zenon
  <2> QED
    BY <2>1, <2>3 DEF Passed
<1> HIDE DEF h, data
<1>4. v.addr = "sender" /\ v.hostname = h
  OBVIOUS
<1> HIDE DEF v
<1>5. C!Padded(h) = C!Padded(args.hostname)
  BY <1>3, PaddedFacts
<1>6. C!IsAscii(C!Padded(h)) /\ C!Stripped(C!Padded(h)) = args.hostname
  BY <1>5, HostnameFacts
<1>7. C!Parse(C!Event("NewPeer", v))
        = [addr |-> v.addr, hostname |-> [ascii |-> C!Stripped(C!Padded(v.hostname))]]
  BY <1>4, <1>6, NewPeerRead, Zenon
<1> QED
  BY <1>2, <1>4, <1>6, <1>7, Zenon DEF data

\* The names given tell the overloads apart.
LEMMA SelectedFacts ==
  ASSUME NEW args
  PROVE  /\ DOMAIN args = Inputs(Long) => C!Selected(C!Methods["post"], args) = {1}
         /\ DOMAIN args = Inputs(Short) => C!Selected(C!Methods["post"], args) = {2}
         /\ DOMAIN args = Inputs(Middle) => C!Selected(C!Methods["post"], args) = {3}
         /\ DOMAIN args = {"magnet"} => C!Selected(C!Methods["post"], args) = {}
         /\ DOMAIN args = Inputs(Only) => C!Selected(C!Methods["register"], args) = {1}
<1> DEFINE overloads == C!Methods["post"]
           registers == C!Methods["register"]
<1>1. /\ DOMAIN overloads = 1 .. 3 /\ overloads[1] = Long /\ overloads[2] = Short /\ overloads[3] = Middle
      /\ DOMAIN registers = 1 .. 1 /\ registers[1] = Only
  BY DEF Long, Short, Middle, Only, C!Methods
<1> HIDE DEF overloads, registers
<1>2. \A k \in 1 .. 3 : k = 1 \/ k = 2 \/ k = 3
  OBVIOUS
<1>3. /\ Inputs(Long) # Inputs(Short) /\ Inputs(Long) # Inputs(Middle) /\ Inputs(Short) # Inputs(Middle)
      /\ {"magnet"} \notin {Inputs(Long), Inputs(Short), Inputs(Middle)}
  <2>1. /\ "author" \in Inputs(Long) /\ "author" \notin Inputs(Short) /\ "author" \notin Inputs(Middle)
        /\ "replyTo" \in Inputs(Middle) /\ "replyTo" \notin Inputs(Short)
        /\ "size" \in Inputs(Long) /\ "size" \in Inputs(Short) /\ "size" \in Inputs(Middle)
        /\ "size" \notin {"magnet"}
    BY InputNames
  <2> QED
    BY <2>1
<1>4. C!Selected(overloads, args) = { k \in 1 .. 3 : DOMAIN args = Inputs(overloads[k]) }
  BY <1>1, Zenon DEF C!Selected, Inputs
<1>5. C!Selected(registers, args) = { k \in 1 .. 1 : DOMAIN args = Inputs(registers[k]) }
  BY <1>1, Zenon DEF C!Selected, Inputs
<1>6. /\ DOMAIN args = Inputs(Long) => C!Selected(overloads, args) = {1}
      /\ DOMAIN args = Inputs(Short) => C!Selected(overloads, args) = {2}
      /\ DOMAIN args = Inputs(Middle) => C!Selected(overloads, args) = {3}
      /\ DOMAIN args = {"magnet"} => C!Selected(overloads, args) = {}
  BY <1>1, <1>2, <1>3, <1>4
<1>7. DOMAIN args = Inputs(Only) => C!Selected(registers, args) = {1}
  BY <1>1, <1>5
<1> QED
  BY <1>6, <1>7 DEF overloads, registers

LEMMA NoneFits ==
  ASSUME NEW method, NEW args, C!Selected(C!Methods[method], args) = {}
  PROVE  C!CallData(method, args) = C!Raised
  BY DEF C!CallData

\* What arrives for a call.
Sound(c, e) ==
  /\ c.method = "post" =>
       /\ e # C!Raised /\ e.size = c.args.size /\ e.magnet = [hex |-> c.args.magnet]
       /\ e.replyTo = [hex |-> IF "replyTo" \in DOMAIN c.args THEN C!Padded(c.args.replyTo)
                                                              ELSE C!Padded(<<>>)]
  /\ c.method = "register" /\ c.own =>
       e = [addr |-> "sender", hostname |-> [ascii |-> c.args.hostname]]
  /\ e = C!Raised => c.method = "register" /\ ~ c.own

LEMMA PostSound ==
  ASSUME NEW c, c.method = "post", C!CallData("post", c.args) # C!Raised,
         c.args.magnet \in C!Words, DOMAIN c.args \in {Inputs(Long), Inputs(Short), Inputs(Middle)}
  PROVE  Sound(c, C!Parse(C!Executed(C!CallData("post", c.args))))
<1> DEFINE args == c.args
<1>1. PICK abi : /\ C!CallData("post", args) = CallOf("post", abi, args)
                 /\ DOMAIN args = Inputs(abi) /\ Typed(abi)
                 /\ "magnet" \in Inputs(abi) /\ "size" \in Inputs(abi)
  <2>1. PICK method : method = "post"
    OBVIOUS
  <2>2. ASSUME NEW k \in 1 .. 3, C!Selected(C!Methods["post"], args) = {k}
        PROVE  C!CallData("post", args) = CallOf("post", C!Methods["post"][k], args)
    <3>1. \/ C!CallData(method, args) = C!Raised
          \/ C!CallData(method, args) = CallOf(method, C!Methods[method][k], args)
      BY <2>1, <2>2, CallDataFacts
    <3> QED
      BY <2>1, <3>1
  <2>3. CASE DOMAIN args = Inputs(Long)
    <3>1. C!CallData("post", args) = CallOf("post", Long, args)
      BY <2>2, <2>3, SelectedFacts DEF Long
    <3> QED
      BY <2>3, <3>1, InputNames, InputTypes
  <2>4. CASE DOMAIN args = Inputs(Short)
    <3>1. C!CallData("post", args) = CallOf("post", Short, args)
      BY <2>2, <2>4, SelectedFacts DEF Short
    <3> QED
      BY <2>4, <3>1, InputNames, InputTypes
  <2>5. CASE DOMAIN args = Inputs(Middle)
    <3>1. C!CallData("post", args) = CallOf("post", Middle, args)
      BY <2>2, <2>5, SelectedFacts DEF Middle
    <3> QED
      BY <2>5, <3>1, InputNames, InputTypes
  <2> QED
    BY <2>3, <2>4, <2>5
<1> DEFINE e == C!Parse(C!Executed(CallOf("post", abi, args)))
<1>2. /\ e # C!Raised /\ e.size = args.size /\ e.magnet = [hex |-> args.magnet]
      /\ e.replyTo = [hex |-> IF "replyTo" \in DOMAIN args THEN C!Padded(args.replyTo)
                                                           ELSE C!Padded(<<>>)]
  BY <1>1, PostArrives, Zenon
<1>3. "post" # "register"
  OBVIOUS
<1> HIDE DEF e
<1>4. Sound(c, e)
  BY <1>2, <1>3, Zenon DEF Sound
<1> QED
  BY <1>1, <1>4, Zenon DEF e

LEMMA CallSound ==
  ASSUME NEW c \in C!Posts \cup C!Announcements \cup C!ForeignCalls,
         C!CallData(c.method, c.args) # C!Raised
  PROVE  Sound(c, C!Parse(C!Executed(C!CallData(c.method, c.args))))
<1>1. CASE c \in C!Posts
  <2>1. PICK m \in Hashes, s \in Sizes :
          c = [method |-> "post", own |-> TRUE,
               args |-> [replyTo |-> C!Zero, magnet |-> m, size |-> s, author |-> "account",
                         retention |-> 1]]
    BY <1>1 DEF C!Posts
  <2>2. c.method = "post" /\ c.args.magnet \in C!Words
    BY <2>1, CodingFacts
  <2>3. DOMAIN c.args = {"replyTo", "magnet", "size", "author", "retention"}
    BY <2>1
  <2> QED
    BY <2>2, <2>3, InputNames, PostSound
<1>2. CASE c \in C!Announcements
  <2>1. PICK h \in ServiceIds : c = [method |-> "register", own |-> TRUE, args |-> [hostname |-> h]]
    BY <1>2 DEF C!Announcements
  <2> DEFINE args == c.args
  <2>2. /\ c.method = "register" /\ DOMAIN args = {"hostname"} /\ args.hostname = h
        /\ h \in Seq(1 .. 8) /\ Len(h) <= Word
    BY <2>1, CodingFacts
  <2>3. C!CallData("register", args) = CallOf("register", Only, args)
    <3>1. PICK method : method = "register"
      OBVIOUS
    <3>2. C!Selected(C!Methods[method], args) = {1}
      BY <2>2, <3>1, InputNames, SelectedFacts
    <3>3. \/ C!CallData(method, args) = C!Raised
          \/ C!CallData(method, args) = CallOf(method, C!Methods[method][1], args)
      BY <3>2, CallDataFacts
    <3> QED
      BY <2>2, <3>1, <3>3 DEF Only
  <2> DEFINE e == C!Parse(C!Executed(CallOf("register", Only, args)))
  <2>4. e = [addr |-> "sender", hostname |-> [ascii |-> args.hostname]]
    BY <2>2, AddressArrives, Zenon
  <2> HIDE DEF e
  <2>5. e # C!Raised
    <3>1. "addr" \in DOMAIN e
      BY <2>4
    <3> QED
      BY <3>1, NotRaised
  <2>6. Sound(c, e)
    BY <2>2, <2>4, <2>5 DEF Sound
  <2> QED
    BY <2>2, <2>3, <2>6 DEF e
<1>3. CASE c \in C!ForeignCalls
  <2>1. CASE \E r \in Replies, m \in Hashes, s \in Sizes :
               c = [method |-> "post", own |-> FALSE, args |-> [replyTo |-> r, magnet |-> m, size |-> s]]
    <3>1. c.method = "post" /\ c.args.magnet \in C!Words
          /\ DOMAIN c.args = {"replyTo", "magnet", "size"}
      BY <2>1, CodingFacts
    <3> QED
      BY <3>1, InputNames, PostSound
  <2>2. CASE \E m \in Hashes, s \in Sizes :
               c = [method |-> "post", own |-> FALSE, args |-> [magnet |-> m, size |-> s]]
    <3>1. c.method = "post" /\ c.args.magnet \in C!Words /\ DOMAIN c.args = {"magnet", "size"}
      BY <2>2, CodingFacts
    <3> QED
      BY <3>1, InputNames, PostSound
  <2>3. CASE \E m \in Hashes : c = [method |-> "post", own |-> FALSE, args |-> [magnet |-> m]]
    <3>1. PICK method : method = "post"
      OBVIOUS
    <3>2. c.method = method /\ DOMAIN c.args = {"magnet"}
      BY <2>3, <3>1
    <3>3. C!Selected(C!Methods[method], c.args) = {}
      BY <3>1, <3>2, SelectedFacts
    <3> QED
      BY <3>2, <3>3, NoneFits
  <2>4. CASE \E h \in ForeignWords :
               c = [method |-> "register", own |-> FALSE, args |-> [hostname |-> h]]
    <3>1. c.method = "register" /\ c.method # "post" /\ ~ c.own
      BY <2>4
    <3> QED
      BY <3>1, Zenon DEF Sound
  <2> QED
    BY <1>3, <2>1, <2>2, <2>3, <2>4 DEF C!ForeignCalls
<1> QED
  BY <1>1, <1>2, <1>3

\* What may be on the chain.
Possible ==
  { [call |-> c, event |-> C!Executed(C!CallData(c.method, c.args))] :
      c \in { d \in C!Posts \cup C!Announcements \cup C!ForeignCalls :
                C!CallData(d.method, d.args) # C!Raised } }
    \cup { [call |-> [method |-> "award", own |-> FALSE],
            event |-> C!Event("Award", [magnet |-> m, source |-> "sender", amount |-> 1])] : m \in Hashes }

LEMMA PossibleSound ==
  ASSUME NEW l \in Possible
  PROVE  Sound(l.call, C!Parse(l.event))
<1>1. CASE \E c \in C!Posts \cup C!Announcements \cup C!ForeignCalls :
             /\ C!CallData(c.method, c.args) # C!Raised
             /\ l = [call |-> c, event |-> C!Executed(C!CallData(c.method, c.args))]
  <2>1. PICK c \in C!Posts \cup C!Announcements \cup C!ForeignCalls :
          /\ C!CallData(c.method, c.args) # C!Raised
          /\ l = [call |-> c, event |-> C!Executed(C!CallData(c.method, c.args))]
    BY <1>1
  <2>2. l.call = c /\ l.event = C!Executed(C!CallData(c.method, c.args))
    BY <2>1
  <2>3. Sound(c, C!Parse(C!Executed(C!CallData(c.method, c.args))))
    BY <2>1, CallSound
  <2> QED
    BY <2>2, <2>3, Zenon
<1>2. CASE \E m \in Hashes :
             l = [call |-> [method |-> "award", own |-> FALSE],
                  event |-> C!Event("Award", [magnet |-> m, source |-> "sender", amount |-> 1])]
  <2>1. PICK v : l.event = C!Event("Award", v) /\ l.call.method = "award"
    BY <1>2
  <2>2. C!Parse(l.event) # C!Raised
    BY <2>1, AwardRead, Zenon
  <2>3. "award" # "post" /\ "award" # "register"
    OBVIOUS
  <2> QED
    BY <2>1, <2>2, <2>3, Zenon DEF Sound
<1> QED
  BY <1>1, <1>2 DEF Possible

\* The chain holds what may be, and a node has read some of it.
Coded ==
  /\ logs \in Seq(Possible) /\ events \in Seq({ C!Parse(l.event) : l \in Possible })
  /\ Len(events) <= Len(logs)
  /\ \A k \in DOMAIN events : events[k] = C!Parse(logs[k].event)

LEMMA CodedInit == C!Init => Coded
  BY DEF C!Init, Coded

\* Another log.
LEMMA LogKeeps ==
  ASSUME Coded, NEW l \in Possible, logs' = Append(logs, l), UNCHANGED events
  PROVE  Coded'
<1>1. /\ logs' \in Seq(Possible) /\ Len(logs') = Len(logs) + 1 /\ Len(logs) \in Nat
      /\ \A k \in 1 .. Len(logs) : logs'[k] = logs[k]
  BY DEF Coded
<1>2. \A k \in DOMAIN events : k \in 1 .. Len(logs)
  BY <1>1 DEF Coded
<1>3. Len(events) <= Len(logs) /\ Len(events) \in Nat
  BY DEF Coded
<1>4. Len(events') <= Len(logs')
  BY <1>1, <1>3
<1>5. \A k \in DOMAIN events' : events'[k] = C!Parse(logs'[k].event)
  BY <1>1, <1>2 DEF Coded
<1> QED
  BY <1>1, <1>4, <1>5 DEF Coded

LEMMA CodedNext == Coded /\ [C!Next]_(C!vars) => Coded'
<1> SUFFICES ASSUME Coded, [C!Next]_(C!vars) PROVE Coded'
  OBVIOUS
<1>1. ASSUME NEW c \in C!Posts \cup C!Announcements \cup C!ForeignCalls, C!Call(c) PROVE Coded'
  <2> DEFINE l == [call |-> c, event |-> C!Executed(C!CallData(c.method, c.args))]
  <2>1. C!CallData(c.method, c.args) # C!Raised /\ logs' = Append(logs, l) /\ UNCHANGED events
    BY <1>1 DEF C!Call
  <2>2. l \in Possible
    BY <2>1, Zenon DEF Possible
  <2> HIDE DEF l
  <2> QED
    BY <2>1, <2>2, LogKeeps
<1>2. ASSUME NEW m \in Hashes, C!PayAward(m) PROVE Coded'
  <2> DEFINE l == [call |-> [method |-> "award", own |-> FALSE],
                   event |-> C!Event("Award", [magnet |-> m, source |-> "sender", amount |-> 1])]
  <2>1. logs' = Append(logs, l) /\ UNCHANGED events
    BY <1>2 DEF C!PayAward
  <2>2. l \in Possible
    BY Zenon DEF Possible
  <2> HIDE DEF l
  <2> QED
    BY <2>1, <2>2, LogKeeps
<1>3. CASE C!Read
  <2> DEFINE n == Len(events) + 1
             e == C!Parse(logs[n].event)
             All == { C!Parse(l.event) : l \in Possible }
  <2>1. Len(events) < Len(logs) /\ events' = Append(events, e) /\ UNCHANGED logs
    BY <1>3 DEF C!Read
  <2>2. n \in 1 .. Len(logs) /\ n \in Nat /\ Len(events) \in Nat /\ Len(logs) \in Nat
    BY <2>1 DEF Coded
  <2>3. e \in All
    <3>1. logs[n] \in Possible
      BY <2>2 DEF Coded
    <3> QED
      BY <3>1
  <2>4. /\ events' \in Seq(All) /\ Len(events') = n /\ events'[n] = e /\ DOMAIN events' = 1 .. n
        /\ \A k \in 1 .. n : k = n \/ (k \in DOMAIN events /\ events'[k] = events[k])
    <3>1. events \in Seq(All)
      BY DEF Coded
    <3> HIDE DEF All, e
    <3> QED
      BY <2>1, <2>2, <2>3, <3>1
  <2>5. \A k \in DOMAIN events' : events'[k] = C!Parse(logs'[k].event)
    <3> SUFFICES ASSUME NEW k \in DOMAIN events' PROVE events'[k] = C!Parse(logs'[k].event)
      OBVIOUS
    <3>1. CASE k = n
      BY <2>1, <2>4, <3>1
    <3>2. CASE k \in DOMAIN events /\ events'[k] = events[k]
      BY <2>1, <3>2 DEF Coded
    <3> QED
      BY <2>4, <3>1, <3>2
  <2>6. Len(events') <= Len(logs')
    BY <2>1, <2>2, <2>4
  <2>7. logs' \in Seq(Possible)
    BY <2>1 DEF Coded
  <2> QED
    BY <2>4, <2>5, <2>6, <2>7 DEF Coded
<1>4. CASE UNCHANGED C!vars
  BY <1>4 DEF Coded, C!vars
<1> QED
  BY <1>1, <1>2, <1>3, <1>4 DEF C!Next

\* ReadAsSent: every post arrives as it was made, whichever overload the caller used;
\* the address a node announced is what all nodes ask; and nothing a node sent ends
\* the polling of another.
THEOREM SentIsRead == C!Spec => []ReadAsSent
<1>1. Coded => ReadAsSent
  <2> SUFFICES ASSUME Coded PROVE ReadAsSent
    OBVIOUS
  <2>1. \A k \in DOMAIN events : Sound(logs[k].call, events[k])
    <3> SUFFICES ASSUME NEW k \in DOMAIN events PROVE Sound(logs[k].call, events[k])
      OBVIOUS
    <3>1. logs[k] \in Possible /\ events[k] = C!Parse(logs[k].event)
      BY DEF Coded
    <3> QED
      BY <3>1, PossibleSound
  <2>2. C!AsPosted
    BY <2>1 DEF C!AsPosted, C!Called, Sound
  <2>3. C!AsAnnounced
    BY <2>1 DEF C!AsAnnounced, C!Called, Sound
  <2>4. C!NodesReadEachOther
    BY <2>1 DEF C!NodesReadEachOther, C!Called, Sound
  <2> QED
    BY <2>2, <2>3, <2>4 DEF ReadAsSent, C!ReadAsSent
<1> QED
  BY <1>1, CodedInit, CodedNext, PTL DEF C!Spec

-----------------------------------------------------------------------------
(* The parts together.                                                      *)

\* A behaviour of what happens to a post is one of each of its parts, so the theorems
\* above hold of it.
THEOREM EveryPart == partsSpec => Spec /\ F!Spec /\ B!Spec /\ C!Spec
<1>1. partsInit => Init /\ F!Init /\ B!Init /\ C!Init
  BY DEF partsInit
<1>2. [partsNext]_<<part, vars, feedVars, bundleVars, contractVars>> => [Next]_vars
  BY DEF partsNext, Runs
<1>3. [partsNext]_<<part, vars, feedVars, bundleVars, contractVars>> => [F!Next]_(F!vars)
  BY DEF partsNext, Runs, feedVars, F!vars
<1>4. [partsNext]_<<part, vars, feedVars, bundleVars, contractVars>> => [B!Next]_(B!vars)
  BY DEF partsNext, Runs, bundleVars, B!vars
<1>5. [partsNext]_<<part, vars, feedVars, bundleVars, contractVars>> => [C!Next]_(C!vars)
  BY DEF partsNext, Runs, contractVars, C!vars
<1> QED
  BY <1>1, <1>2, <1>3, <1>4, <1>5, PTL DEF partsSpec, Spec, F!Spec, B!Spec, C!Spec
=============================================================================
