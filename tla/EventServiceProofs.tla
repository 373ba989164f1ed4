------------------------- MODULE EventServiceProofs -------------------------
(***************************************************************************)
(* Proofs about EventService: its attributes keep their types, in both      *)
(* directions; the forward service implements the safety part of EventFeed, *)
(* and the reverse service leaves out what its early end leaves out and     *)
(* nothing else.                                                            *)
(***************************************************************************)
EXTENDS EventServiceProps, SequenceTheorems, TLAPS

-----------------------------------------------------------------------------
(* The history of deliveries.                                               *)

\* Notifying the subscribers of e adds e, and nothing else, to what they received.
LEMMA AppendReceived ==
  ASSUME NEW e \in mined, delivered \in Seq(mined), delivered' = Append(delivered, e)
  PROVE  /\ delivered' \in Seq(mined)
         /\ Received' = Received \cup {e}
         /\ Len(delivered) \in Nat
         /\ DOMAIN delivered = 1 .. Len(delivered)
         /\ DOMAIN delivered' = 1 .. (Len(delivered) + 1)
         /\ \A i \in DOMAIN delivered : delivered'[i] = delivered[i]
         /\ delivered'[Len(delivered) + 1] = e
<1>1. /\ delivered' \in Seq(mined)
      /\ Len(delivered') = Len(delivered) + 1
      /\ \A i \in 1 .. Len(delivered) : delivered'[i] = delivered[i]
      /\ delivered'[Len(delivered) + 1] = e
  BY AppendProperties
<1>2. /\ Len(delivered) \in Nat
      /\ DOMAIN delivered = 1 .. Len(delivered)
      /\ DOMAIN delivered' = 1 .. (Len(delivered) + 1)
  BY <1>1
<1>3. Received' = Received \cup {e}
  BY <1>1, <1>2 DEF Received
<1> QED
  BY <1>1, <1>2, <1>3

\* What was received is on the chain.
LEMMA ReceivedMined ==
  ASSUME delivered \in Seq(mined)
  PROVE  Received \subseteq mined
BY DEF Received

-----------------------------------------------------------------------------
(* Types.                                                                   *)

\* A block's logs are events of that block.
LEMMA BlockType ==
  ASSUME NEW b \in Nat, NEW shape \in Shapes
  PROVE  Block(b, shape) \subseteq [block : {b}, tx : Nat, log : Nat]
<1>1. shape \in Seq(Nat)
  BY EventAssumption
<1>2. \A i \in DOMAIN shape : i \in Nat /\ shape[i] \in Nat
  BY <1>1
<1> QED
  BY <1>2 DEF Block

\* The current block never passes the last block of the chain.
LEMMA UpdatedBlockType ==
  ASSUME TypeOK, NEW value \in 0 .. height
  PROVE  UpdatedBlock(value) \in 0 .. height
<1>1. CASE current_block_number = None
  BY <1>1, EventAssumption DEF TypeOK, UpdatedBlock, Min2, Max2, None
<1>2. CASE current_block_number \in 0 .. height
  BY <1>2, EventAssumption DEF TypeOK, UpdatedBlock, Min2, Max2, None
<1> QED
  BY <1>1, <1>2 DEF TypeOK

\* The attributes and locals keep their types for every chain, direction, range and
\* step size; in particular the current block is a block of the chain, and the
\* set of loaded transactions is, until the task fails, that of the events the
\* subscribers received.
THEOREM TypeCorrect == Spec => []TypeOK
<1>1. Init => TypeOK
  <2> SUFFICES ASSUME Init PROVE TypeOK
    OBVIOUS
  <2>1. height \in 0 .. MaxHeight
    BY EventAssumption DEF Init
  <2>2. PICK chain \in [0 .. height -> Shapes] :
          mined = UNION { Block(b, chain[b]) : b \in 0 .. height }
    BY DEF Init
  <2>3. \A b \in 0 .. height : Block(b, chain[b]) \subseteq [block : 0 .. height, tx : Nat, log : Nat]
    <3> SUFFICES ASSUME NEW b \in 0 .. height
                 PROVE  Block(b, chain[b]) \subseteq [block : 0 .. height, tx : Nat, log : Nat]
      OBVIOUS
    <3>1. Block(b, chain[b]) \subseteq [block : {b}, tx : Nat, log : Nat]
      BY BlockType, <2>1, EventAssumption
    <3> QED
      BY <3>1
  <2>4. mined \subseteq [block : 0 .. height, tx : Nat, log : Nat]
    BY <2>2, <2>3
  <2>5. delivered = <<>> /\ delivered \in Seq(mined) /\ Received = {}
    BY DEF Init, Received
  <2>6. block_range \in [from_block : 0 .. height, to_block : {ToBlock},
                         step_size : {StepSize}, reverse : {Reverse}]
    BY <2>1, EventAssumption DEF Init, BlockRangeOf
  <2>7. last_block_number \in 0 .. height /\ interval \in [from : Int, to : Int]
    BY <2>1, EventAssumption DEF Init, Interval
  <2> QED
    BY <2>1, <2>4, <2>5, <2>6, <2>7 DEF Init, TypeOK
<1>2. TypeOK /\ [Next]_vars => TypeOK'
  <2> SUFFICES ASSUME TypeOK, [Next]_vars PROVE TypeOK'
    OBVIOUS
  <2>0. /\ height \in Nat /\ StepSize \in Nat
        /\ block_range.step_size = StepSize /\ block_range.from_block \in 0 .. height
        /\ block_range.to_block = ToBlock /\ ToBlock \in Int
        /\ block_range.reverse = Reverse /\ Reverse \in BOOLEAN
    BY EventAssumption DEF TypeOK, Open
  <2>1. CASE Mine
    <3>1. height' = height + 1 /\ height' \in 0 .. MaxHeight
      BY <2>1, EventAssumption DEF Mine, TypeOK
    <3>2. PICK shape \in Shapes : mined' = mined \cup Block(height', shape)
      BY <2>1 DEF Mine
    <3>3. Block(height', shape) \subseteq [block : 0 .. height', tx : Nat, log : Nat]
      <4>1. Block(height', shape) \subseteq [block : {height'}, tx : Nat, log : Nat]
        BY BlockType, <3>1, EventAssumption
      <4> QED
        BY <4>1, <3>1, EventAssumption
    <3>4. mined' \subseteq [block : 0 .. height', tx : Nat, log : Nat]
      BY <3>1, <3>2, <3>3, <2>0 DEF TypeOK
    <3>5. delivered' \in Seq(mined')
      BY <3>2, <2>1 DEF Mine, TypeOK
    <3>6. Received' = Received
      BY <2>1 DEF Mine, Received
    <3>7. loaded_events' \subseteq { <<e.block, e.tx>> : e \in mined' }
      BY <2>1, <3>2 DEF Mine, TypeOK
    <3>8. pc' # "failed" => loaded_events' = { <<e.block, e.tx>> : e \in Received' }
      BY <2>1, <3>6 DEF Mine, TypeOK
    <3> QED
      BY <2>0, <2>1, <3>1, <3>2, <3>4, <3>5, <3>7, <3>8 DEF Mine, TypeOK
  <2>2. CASE Fail
    BY <2>2 DEF Fail, TypeOK, chainVars, Received
  <2>9. CASE ParseFails
    <3>1. PICK e \in pending : loaded_events' = loaded_events \cup {<<e.block, e.tx>>}
      BY <2>9 DEF ParseFails
    <3>2. loaded_events' \subseteq { <<r.block, r.tx>> : r \in mined }
      BY <3>1 DEF TypeOK
    <3> QED
      BY <2>9, <3>2 DEF ParseFails, TypeOK, chainVars
  <2>3. CASE Poll
    <3>1. FirstInterval(block_range) \in [from : Int, to : Int]
      BY <2>0 DEF FirstInterval, Interval, Step
    <3>2. /\ pc = "polling" /\ pc' = "fetching" /\ last_block_number' = height
          /\ interval' = FirstInterval(block_range) /\ Received' = Received
          /\ UNCHANGED <<height, mined, block_range, current_block_number, loaded_events,
                         pending, delivered>>
      BY <2>3 DEF Poll, chainVars, Received
    <3>3. /\ loaded_events' \subseteq { <<e.block, e.tx>> : e \in mined' }
          /\ loaded_events' = { <<e.block, e.tx>> : e \in Received' }
      BY <3>2 DEF TypeOK
    <3>4. /\ height' \in 0 .. MaxHeight /\ last_block_number' \in 0 .. height'
          /\ mined' \subseteq [block : 0 .. height', tx : Nat, log : Nat]
          /\ block_range' \in [from_block : 0 .. height', to_block : {ToBlock},
                               step_size : {StepSize}, reverse : {Reverse}]
          /\ interval' \in [from : Int, to : Int]
      BY <2>0, <3>1, <3>2 DEF TypeOK
    <3> QED
      BY <3>2, <3>3, <3>4 DEF TypeOK
  <2>4. CASE Fetch
    BY <2>4 DEF Fetch, TypeOK, chainVars, Received, Logs
  <2>5. CASE Deliver
    <3>1. PICK e \in pending :
            /\ pending' = pending \ {e}
            /\ \/ UNCHANGED <<loaded_events, current_block_number, delivered>>
               \/ /\ loaded_events' = loaded_events \cup {<<e.block, e.tx>>}
                  /\ current_block_number' = UpdatedBlock(e.block)
                  /\ delivered' = Append(delivered, e)
      BY <2>5 DEF Deliver
    <3>2. e \in mined /\ e.block \in 0 .. height
      BY DEF TypeOK
    <3>3. CASE UNCHANGED <<loaded_events, current_block_number, delivered>>
      <4>1. /\ Received' = Received /\ pc = "delivering" /\ pending' \subseteq pending
            /\ UNCHANGED <<height, mined, block_range, pc, last_block_number, interval,
                           loaded_events, current_block_number, delivered>>
        BY <2>5, <3>1, <3>3 DEF Deliver, chainVars, Received
      <4> QED
        BY <4>1 DEF TypeOK
    <3>4. CASE /\ loaded_events' = loaded_events \cup {<<e.block, e.tx>>}
               /\ current_block_number' = UpdatedBlock(e.block)
               /\ delivered' = Append(delivered, e)
      <4>1. current_block_number' \in 0 .. height
        BY <3>2, <3>4, UpdatedBlockType
      <4>2. delivered' \in Seq(mined) /\ Received' = Received \cup {e}
        BY <3>2, <3>4, AppendReceived DEF TypeOK
      <4>3. /\ loaded_events' = { <<r.block, r.tx>> : r \in Received' }
            /\ loaded_events' \subseteq { <<r.block, r.tx>> : r \in mined }
        BY <2>5, <3>2, <3>4, <4>2 DEF Deliver, TypeOK
      <4> QED
        BY <2>5, <3>1, <4>1, <4>2, <4>3 DEF Deliver, TypeOK, chainVars
    <3> QED
      BY <3>1, <3>3, <3>4
  <2>6. CASE EndInterval
    <3>1. current_block_number' \in 0 .. height \cup {None}
      BY <2>6, UpdatedBlockType DEF EndInterval, TypeOK
    <3>2. interval' \in [from : Int, to : Int]
      <4>1. NextInterval(block_range, interval) \in [from : Int, to : Int]
        BY <2>0 DEF TypeOK, NextInterval, Interval, Step
      <4> QED
        BY <2>6, <4>1 DEF EndInterval, TypeOK
    <3>3. /\ block_range' \in [from_block : 0 .. height, to_block : {ToBlock},
                               step_size : {StepSize}, reverse : {Reverse}]
          /\ pc' \in {"finished", "sleeping", "fetching"}
      <4>1. CASE UNCHANGED block_range /\ pc' \in {"finished", "fetching"}
        BY <4>1 DEF TypeOK
      <4>2. CASE /\ pc' = "sleeping"
                 /\ ~block_range.reverse /\ block_range.to_block = Open
                 /\ \E from \in 0 .. height :
                      block_range' = BlockRangeOf(from, Open, block_range.step_size, FALSE)
        <5>1. ToBlock = Open /\ Reverse = FALSE /\ block_range.step_size = StepSize
          BY <2>0, <4>2
        <5>2. PICK from \in 0 .. height :
                block_range' = BlockRangeOf(from, ToBlock, StepSize, Reverse)
          BY <4>2, <5>1
        <5> QED
          BY <4>2, <5>2 DEF BlockRangeOf
      <4>3. ASSUME NEW current, current \in 0 .. height \cup {None}, EndFetch(current)
            PROVE  \/ UNCHANGED block_range /\ pc' \in {"finished", "fetching"}
                   \/ /\ pc' = "sleeping"
                      /\ ~block_range.reverse /\ block_range.to_block = Open
                      /\ \E from \in 0 .. height :
                           block_range' = BlockRangeOf(from, Open, block_range.step_size, FALSE)
        <5>1. CASE block_range.reverse \/ block_range.to_block # Open
          BY <4>3, <5>1 DEF EndFetch
        <5>2. CASE ~(block_range.reverse \/ block_range.to_block # Open)
          <6>1. (IF current = None THEN 0 ELSE current) \in 0 .. height
            BY <2>0, <4>3
          <6> QED
            BY <4>3, <5>2, <6>1 DEF EndFetch
        <5> QED
          BY <5>1, <5>2
      <4> QED
        BY <2>6, <3>1, <4>1, <4>2, <4>3 DEF EndInterval, TypeOK
    <3> QED
      BY <2>6, <3>1, <3>2, <3>3 DEF EndInterval, TypeOK, chainVars, Received
  <2>7. CASE Wake
    BY <2>7 DEF Wake, TypeOK, chainVars, Received
  <2>8. CASE UNCHANGED vars
    BY <2>8 DEF vars, TypeOK, Received
  <2> QED
    BY <2>1, <2>2, <2>3, <2>4, <2>5, <2>6, <2>7, <2>8, <2>9 DEF Next, FetchEventsTask
<1> QED
  BY <1>1, <1>2, PTL DEF Spec

-----------------------------------------------------------------------------
(* Of each transaction the first log.                                       *)

\* A block mined later holds only events of its own number.
LEMMA MinedLater ==
  ASSUME TypeOK, Mine
  PROVE  /\ height' = height + 1 /\ mined \subseteq mined'
         /\ \A u \in mined' \ mined : u.block = height + 1
         /\ \A e \in mined : e.block <= height
<1>1. PICK shape \in Shapes : mined' = mined \cup Block(height + 1, shape)
  BY DEF Mine
<1>2. height + 1 \in Nat
  BY EventAssumption DEF TypeOK
<1>3. Block(height + 1, shape) \subseteq [block : {height + 1}, tx : Nat, log : Nat]
  BY <1>2, BlockType
<1> QED
  BY <1>1, <1>3 DEF Mine, TypeOK

\* A first log is the only one of its transaction.
LEMMA FirstsDiffer ==
  ASSUME TypeOK, NEW e \in Firsts, NEW f \in Firsts, e.block = f.block, e.tx = f.tx
  PROVE  e = f
<1>1. /\ e \in mined /\ f \in mined
      /\ e.log \in Nat /\ f.log \in Nat /\ e.block \in Int /\ f.block \in Int
  BY DEF Firsts, TypeOK
<1> SUFFICES ASSUME e # f PROVE FALSE
  OBVIOUS
<1>2. IF Reverse THEN Before(f, e) /\ Before(e, f) ELSE Before(e, f) /\ Before(f, e)
  BY <1>1 DEF Firsts
<1> QED
  BY <1>1, <1>2 DEF Before

\* A step that mines nothing leaves them alone.
LEMMA FirstsSame == ASSUME mined' = mined PROVE Firsts' = Firsts
BY DEF Firsts, Before

\* What is mined later makes nothing a first log, or ceases to be one, among the
\* events there were.
LEMMA FirstsGrow ==
  ASSUME TypeOK, Mine
  PROVE  /\ Firsts \subseteq Firsts'
         /\ \A u \in Firsts' \ Firsts : u \in mined' \ mined
<1>1. /\ mined \subseteq mined'
      /\ \A u \in mined' \ mined : u.block = height + 1
      /\ \A u \in mined : u.block <= height /\ u.block \in Nat
      /\ height \in Nat
  BY MinedLater, EventAssumption DEF TypeOK
<1>2. Firsts \subseteq Firsts'
  <2> SUFFICES ASSUME NEW e \in Firsts, NEW f \in mined', f # e, f.block = e.block, f.tx = e.tx
               PROVE  IF Reverse THEN Before(f, e) ELSE Before(e, f)
    BY <1>1 DEF Firsts, Before
  <2>1. e \in mined /\ f \in mined
    BY <1>1 DEF Firsts
  <2> QED
    BY <2>1 DEF Firsts
<1>3. ASSUME NEW u \in Firsts', u \in mined PROVE u \in Firsts
  <2>1. \A f \in mined' : f # u /\ f.block = u.block /\ f.tx = u.tx =>
           IF Reverse THEN Before(f, u) ELSE Before(u, f)
    BY DEF Firsts, Before
  <2> QED
    BY <1>1, <1>3, <2>1 DEF Firsts
<1>4. Firsts' \subseteq mined'
  BY DEF Firsts
<1> QED
  BY <1>2, <1>3, <1>4

\* Subscribers get first logs only.  An answer holds whole blocks: what it does not hold
\* any more of a block it still goes through is of a transaction that counts as loaded.
Once ==
  /\ Received \subseteq Firsts
  /\ pc = "delivering" =>
       \A e \in pending, f \in mined \ pending : f.block = e.block => Loaded(f)

\* A first log is skipped only if it was received, and what is not skipped is a first log.
LEMMA LoadedReceived ==
  ASSUME TypeOK, Once, pc # "failed"
  PROVE  /\ \A e \in Firsts : Loaded(e) <=> e \in Received
         /\ \A e \in pending : pc = "delivering" /\ IsNextPending(e) /\ ~Loaded(e) => e \in Firsts
<1>1. ASSUME NEW e \in Firsts, Loaded(e) PROVE e \in Received
  <2>0. loaded_events = { <<r.block, r.tx>> : r \in Received }
    BY DEF TypeOK
  <2>1. PICK r \in Received : <<e.block, e.tx>> = <<r.block, r.tx>>
    BY <1>1, <2>0 DEF Loaded
  <2>2. r \in Firsts
    BY DEF Once
  <2> QED
    BY <2>1, <2>2, FirstsDiffer
<1>2. ASSUME NEW e \in Received PROVE Loaded(e)
  BY DEF Loaded, TypeOK
<1>3. ASSUME NEW e \in pending, pc = "delivering", IsNextPending(e), ~Loaded(e)
      PROVE  e \in Firsts
  <2> SUFFICES ASSUME NEW f \in mined, f # e, f.block = e.block, f.tx = e.tx
               PROVE  IF Reverse THEN Before(f, e) ELSE Before(e, f)
    BY DEF Firsts, TypeOK
  <2>1. ~Loaded(f)
    BY <1>3 DEF Loaded
  <2>2. f \in pending
    BY <1>3, <2>1 DEF Once
  <2>3. block_range.reverse = Reverse
    BY DEF TypeOK
  <2> QED
    BY <1>3, <2>2, <2>3 DEF IsNextPending
<1> QED
  BY <1>1, <1>2, <1>3

\* Hence no step delivers a second log of a transaction, whatever a block holds.
LEMMA OnceInvariant == Spec => []Once
<1>1. Init => Once
  BY DEF Init, Once, Received
<1>2. TypeOK /\ Once /\ [Next]_vars => Once'
  <2> SUFFICES ASSUME TypeOK, Once, [Next]_vars PROVE Once'
    OBVIOUS
  <2>1. CASE Mine
    <3>1. Received' = Received /\ UNCHANGED <<pc, pending, loaded_events>>
      BY <2>1 DEF Mine, Received
    <3>2. /\ mined \subseteq mined' /\ pending \subseteq mined
          /\ \A u \in mined' \ mined : u.block = height + 1
          /\ \A u \in mined : u.block <= height /\ u.block \in Nat
          /\ height \in Nat
      BY <2>1, MinedLater, EventAssumption DEF TypeOK
    <3>3. \A e \in pending, f \in mined' : f.block = e.block => f \in mined
      BY <3>2
    <3>4. Received' \subseteq Firsts'
      BY <2>1, <3>1, FirstsGrow DEF Once
    <3> QED
      BY <3>1, <3>3, <3>4 DEF Once, Loaded
  <2>2. CASE Fetch
    <3>1. /\ pending' = Logs(interval.from, to_block)
          /\ Received' = Received /\ UNCHANGED <<mined, loaded_events>>
          /\ Firsts' = Firsts
      BY <2>2 DEF Fetch, chainVars, Received, Firsts, Before
    <3>2. \A e \in pending', f \in mined : f.block = e.block => f \in pending'
      BY <3>1 DEF Logs
    <3> QED
      BY <3>1, <3>2 DEF Once
  <2>3. CASE Deliver
    <3>1. PICK e \in pending :
            /\ IsNextPending(e)
            /\ pending' = pending \ {e}
            /\ \/ Loaded(e) /\ UNCHANGED <<loaded_events, delivered>>
               \/ /\ ~Loaded(e)
                  /\ loaded_events' = loaded_events \cup {<<e.block, e.tx>>}
                  /\ delivered' = Append(delivered, e)
      BY <2>3 DEF Deliver
    <3>2. /\ mined' = mined /\ pc' = pc /\ pc = "delivering" /\ Firsts' = Firsts
          /\ e \in mined /\ pending \subseteq mined
      BY <2>3 DEF Deliver, chainVars, TypeOK, Firsts, Before
    <3>3. Loaded(e)' /\ \A f \in mined : Loaded(f) => Loaded(f)'
      BY <3>1 DEF Loaded
    <3>4. \A x \in pending', f \in mined' \ pending' : f.block = x.block => Loaded(f)'
      BY <3>1, <3>2, <3>3 DEF Once
    <3>5. CASE Loaded(e) /\ UNCHANGED delivered
      BY <3>2, <3>4, <3>5 DEF Once, Received
    <3>6. CASE ~Loaded(e) /\ delivered' = Append(delivered, e)
      <4>1. e \in Firsts
        BY <3>1, <3>2, <3>6, LoadedReceived
      <4>2. Received' = Received \cup {e}
        BY <3>2, <3>6, AppendReceived DEF TypeOK
      <4> QED
        BY <3>2, <3>4, <4>1, <4>2 DEF Once
    <3> QED
      BY <3>1, <3>5, <3>6
  <2>4. CASE EndInterval
    <3>1. /\ Received' = Received /\ Firsts' = Firsts
          /\ pc' \in {"finished", "sleeping", "fetching"}
      BY <2>4 DEF EndInterval, EndFetch, chainVars, Received, Firsts, Before
    <3> QED
      BY <3>1 DEF Once
  <2>5. CASE Poll \/ Wake \/ Fail \/ ParseFails
    <3>1. Received' = Received /\ Firsts' = Firsts /\ pc' # "delivering"
      BY <2>5 DEF Poll, Wake, Fail, ParseFails, chainVars, Received, Firsts, Before
    <3> QED
      BY <3>1 DEF Once
  <2>6. CASE UNCHANGED vars
    BY <2>6 DEF vars, Once, Received, Firsts, Before, Loaded
  <2> QED
    BY <2>1, <2>2, <2>3, <2>4, <2>5, <2>6 DEF Next, FetchEventsTask
<1> QED
  BY <1>1, <1>2, TypeCorrect, PTL DEF Spec

-----------------------------------------------------------------------------
(* The forward service.                                                     *)

\* What the subscribers still miss comes after all they received.  What is not
\* in the answer at hand comes after that answer too, and not below the current block.
Ahead ==
  /\ pc \notin {"delivering", "failed"} => pending = {}
  /\ \A u \in Firsts \ Received :
       /\ \A r \in Received : Before(r, u)
       /\ u \notin pending => /\ \A p \in pending : Before(p, u)
                             /\ u.block >= current_block_number

\* The task never finishes, and an interval starts at or below the last known block.
Walking ==
  /\ pc # "finished"
  /\ pc \in {"fetching", "delivering"} =>
       /\ 0 <= interval.from /\ interval.from <= interval.to
       /\ interval.from <= last_block_number

IInv == TypeOK /\ Once /\ Ahead /\ Walking /\ NothingMissed /\ InOrder

Forward == ~Reverse /\ ToBlock = Open

\* What the steps of the forward service have to go by.
LEMMA ForwardTypes ==
  ASSUME Forward, TypeOK
  PROVE  /\ height \in Nat /\ last_block_number \in Nat /\ last_block_number <= height
         /\ StepSize \in Nat /\ StepSize >= 1
         /\ block_range.step_size = StepSize /\ ~block_range.reverse
         /\ block_range.from_block \in Nat /\ block_range.from_block <= height
         /\ block_range.to_block = Open
         /\ current_block_number \in Nat \/ current_block_number = None
         /\ current_block_number <= height
         /\ interval.from \in Int /\ interval.to \in Int
         /\ \A e \in mined : e.block \in Nat /\ e.log \in Nat /\ e.block <= height
         /\ Received \subseteq mined /\ pending \subseteq mined /\ Firsts \subseteq mined
BY EventAssumption, ReceivedMined DEF Forward, TypeOK, None, Firsts

\* At the start nothing was delivered and the range starts at block 0.
LEMMA ForwardInit == ASSUME Forward, Init, TypeOK, Once PROVE IInv
<1>1. Received = {} /\ DOMAIN delivered = {}
  BY DEF Init, Received
<1>2. block_range.from_block = 0 /\ pc = "polling" /\ pending = {} /\ current_block_number = None
  BY DEF Init, BlockRangeOf
<1>3. \A e \in Firsts : e.block \in Nat
  BY ForwardTypes
<1> QED
  BY <1>1, <1>2, <1>3 DEF IInv, Ahead, Walking, NothingMissed, InOrder, None

\* A block mined at any moment holds only events that come after everything else.
LEMMA ForwardMine ==
  ASSUME Forward, IInv, Mine
  PROVE  (Ahead /\ Walking /\ NothingMissed /\ InOrder)'
<1>0. TypeOK
  BY DEF IInv
<1>1. /\ height' = height + 1 /\ mined \subseteq mined'
      /\ \A u \in mined' \ mined : u.block = height + 1
      /\ \A u \in Firsts' : u \in Firsts \/ u \in mined' \ mined
  BY <1>0, MinedLater, FirstsGrow
<1>2. /\ Received' = Received
      /\ UNCHANGED <<block_range, current_block_number, pc, last_block_number, interval,
                     pending, delivered, to_block>>
  BY DEF Mine, Received, to_block
<1>3. Ahead'
  <2>1. \A u \in mined' \ mined : /\ \A e \in mined : Before(e, u)
                                  /\ u.block >= current_block_number
    BY <1>0, <1>1, ForwardTypes DEF Before, None
  <2> QED
    BY <1>0, <1>1, <1>2, <2>1, ForwardTypes DEF IInv, Ahead, Before
<1>4. Walking'
  BY <1>2 DEF IInv, Walking
<1>5. NothingMissed'
  <2>1. to_block <= height
    BY <1>0, ForwardTypes DEF to_block, Min2
  <2>2. \A u \in mined' \ mined :
          /\ u.block >= block_range.from_block
          /\ pc = "fetching" => u.block >= interval.from
          /\ u.block > to_block
    BY <1>0, <1>1, <2>1, ForwardTypes DEF IInv, Walking, to_block, Min2
  <2>3. pc \in {"polling", "sleeping", "fetching", "delivering", "failed"}
    BY <1>0 DEF IInv, TypeOK, Walking
  <2> QED
    BY <1>1, <1>2, <2>2, <2>3 DEF IInv, NothingMissed
<1>6. InOrder'
  BY <1>2 DEF IInv, InOrder, Before
<1> QED
  BY <1>3, <1>4, <1>5, <1>6

\* The task asks for the last block and starts at the bottom of its range.
LEMMA ForwardPoll ==
  ASSUME Forward, IInv, Poll
  PROVE  (Ahead /\ Walking /\ NothingMissed /\ InOrder)'
<1>0. TypeOK
  BY DEF IInv
<1>1. /\ Received' = Received /\ mined' = mined /\ delivered' = delivered /\ pending' = pending
      /\ Firsts' = Firsts /\ current_block_number' = current_block_number
      /\ pc = "polling" /\ pc' = "fetching" /\ last_block_number' = height
  BY FirstsSame DEF Poll, chainVars, Received
<1>2. /\ interval'.from = block_range.from_block
      /\ interval'.to = block_range.from_block + StepSize - 1
  BY <1>0, ForwardTypes DEF Poll, FirstInterval, Interval, Step
<1>3. Ahead' /\ InOrder'
  BY <1>1 DEF IInv, Ahead, InOrder, Before
<1>4. Walking'
  BY <1>0, <1>1, <1>2, ForwardTypes DEF Walking
<1>5. NothingMissed'
  BY <1>1, <1>2 DEF IInv, NothingMissed
<1> QED
  BY <1>3, <1>4, <1>5

\* The answer holds every missing event up to its upper end, even if that end is
\* the latest block because toBlock was left out.
LEMMA ForwardFetch ==
  ASSUME Forward, IInv, Fetch
  PROVE  (Ahead /\ Walking /\ NothingMissed /\ InOrder)'
<1>0. TypeOK
  BY DEF IInv
<1>1. /\ Received' = Received /\ mined' = mined /\ delivered' = delivered
      /\ Firsts' = Firsts /\ pending' = Logs(interval.from, to_block)
      /\ current_block_number' = current_block_number
      /\ pc = "fetching" /\ pc' = "delivering"
      /\ UNCHANGED <<interval, last_block_number, to_block>>
  BY FirstsSame DEF Fetch, chainVars, Received, to_block
<1>2. PICK upto \in Nat :
        /\ pending' = { e \in mined : interval.from <= e.block /\ e.block <= upto }
        /\ upto >= to_block
  <2>1. to_block \in Nat
    BY <1>0, <1>1, ForwardTypes DEF IInv, Walking, to_block, Min2
  <2> QED
    BY <1>0, <1>1, <2>1, ForwardTypes DEF Logs
<1>3. \A u \in Firsts \ Received : u \notin pending' => u.block > upto
  BY <1>0, <1>1, <1>2, ForwardTypes DEF IInv, NothingMissed
<1>4. Ahead'
  <2>1. \A u \in Firsts \ Received :
          u \notin pending' => \A p \in pending' : Before(p, u)
    BY <1>0, <1>2, <1>3, ForwardTypes DEF Before
  <2>2. pending = {}
    BY <1>1 DEF IInv, Ahead
  <2> QED
    BY <1>1, <2>1, <2>2 DEF IInv, Ahead, Before
<1>5. Walking'
  BY <1>1 DEF IInv, Walking
<1>6. NothingMissed'
  <2>1. to_block \in Int
    BY <1>0, ForwardTypes DEF to_block, Min2
  <2>2. \A u \in Firsts \ Received : u \notin pending' => u.block > to_block
    BY <1>0, <1>2, <1>3, <2>1, ForwardTypes
  <2> QED
    BY <1>1, <2>2 DEF NothingMissed
<1>7. InOrder'
  BY <1>1 DEF IInv, InOrder, Before
<1> QED
  BY <1>4, <1>5, <1>6, <1>7

\* A log of the answer is skipped because its transaction is accounted for, or it is
\* the next one that the subscribers miss.
LEMMA ForwardDeliverStep ==
  ASSUME Forward, IInv, Deliver
  PROVE  \E e \in pending :
           /\ pending' = pending \ {e}
           /\ \/ /\ e \notin Firsts \ Received
                 /\ UNCHANGED <<delivered, current_block_number>>
              \/ /\ e \in Firsts \ Received
                 /\ delivered' = Append(delivered, e)
                 /\ Received' = Received \cup {e}
                 /\ current_block_number' = Max2(current_block_number, e.block)
                 /\ \A u \in Firsts \ Received : u # e => Before(e, u)
<1>0. TypeOK /\ Once /\ Ahead /\ pc # "failed" /\ pc = "delivering"
  BY DEF IInv, Deliver
<1>1. PICK e \in pending :
        /\ IsNextPending(e)
        /\ pending' = pending \ {e}
        /\ \/ Loaded(e) /\ UNCHANGED <<loaded_events, current_block_number, delivered>>
           \/ /\ ~Loaded(e)
              /\ current_block_number' = UpdatedBlock(e.block)
              /\ delivered' = Append(delivered, e)
  BY DEF Deliver
<1>2. /\ e \in mined
      /\ Loaded(e) => e \notin Firsts \ Received
      /\ ~Loaded(e) => e \in Firsts \ Received
  <2>1. \A r \in Firsts : Loaded(r) <=> r \in Received
    BY <1>0, LoadedReceived
  <2>2. ~Loaded(e) => e \in Firsts
    BY <1>0, <1>1, LoadedReceived
  <2> QED
    BY <1>0, <2>1, <2>2, ForwardTypes
<1>3. \A u \in Firsts \ Received : u # e => Before(e, u)
  BY <1>0, <1>1, ForwardTypes DEF Ahead, IsNextPending
<1>4. ~Loaded(e) => Received' = Received \cup {e}
  BY <1>0, <1>1, <1>2, AppendReceived DEF TypeOK
<1>5. UpdatedBlock(e.block) = Max2(current_block_number, e.block)
  BY <1>0, <1>2, ForwardTypes DEF UpdatedBlock, Max2, None
<1> QED
  BY <1>1, <1>2, <1>3, <1>4, <1>5

\* The subscribers get the event they miss first, so nothing is overtaken.
LEMMA ForwardDeliver ==
  ASSUME Forward, IInv, Deliver
  PROVE  (Ahead /\ Walking /\ NothingMissed /\ InOrder)'
<1>0. TypeOK /\ Ahead /\ InOrder
  BY DEF IInv
<1>1. PICK e \in pending :
        /\ pending' = pending \ {e}
        /\ \/ /\ e \notin Firsts \ Received
              /\ UNCHANGED <<delivered, current_block_number>>
           \/ /\ e \in Firsts \ Received
              /\ delivered' = Append(delivered, e)
              /\ Received' = Received \cup {e}
              /\ current_block_number' = Max2(current_block_number, e.block)
              /\ \A u \in Firsts \ Received : u # e => Before(e, u)
  BY ForwardDeliverStep
<1>2. /\ mined' = mined /\ pc = "delivering" /\ Firsts' = Firsts
      /\ UNCHANGED <<block_range, pc, interval, last_block_number, to_block>>
  BY FirstsSame DEF Deliver, chainVars, to_block
<1>3. e \in mined
  BY <1>0, <1>1, ForwardTypes
<1>4. Walking'
  BY <1>2 DEF IInv, Walking
<1>5. CASE e \notin Firsts \ Received /\ UNCHANGED <<delivered, current_block_number>>
  <2>1. Received' = Received
    BY <1>5 DEF Received
  <2>2. Ahead'
    BY <1>0, <1>1, <1>2, <1>5, <2>1 DEF Ahead, Before
  <2>3. NothingMissed'
    BY <1>1, <1>2, <1>5, <2>1 DEF IInv, NothingMissed
  <2>4. InOrder'
    BY <1>0, <1>5 DEF InOrder, Before
  <2> QED
    BY <1>4, <2>2, <2>3, <2>4
<1>6. CASE /\ e \in Firsts \ Received
           /\ delivered' = Append(delivered, e)
           /\ Received' = Received \cup {e}
           /\ current_block_number' = Max2(current_block_number, e.block)
           /\ \A u \in Firsts \ Received : u # e => Before(e, u)
  <2>1. Ahead'
    <3>1. pc' \notin {"delivering", "failed"} => pending' = {}
      BY <1>2
    <3> SUFFICES ASSUME NEW u \in Firsts \ Received'
                 PROVE  /\ \A r \in Received' : Before(r, u)
                        /\ u \notin pending' => /\ \A p \in pending' : Before(p, u)
                                               /\ u.block >= current_block_number'
      BY <1>2, <3>1 DEF Ahead, Before
    <3>2. u \in Firsts \ Received /\ u # e /\ Before(e, u)
      BY <1>6
    <3>3. \A r \in Received' : Before(r, u)
      BY <1>0, <1>6, <3>2 DEF Ahead
    <3>4. ASSUME u \notin pending'
          PROVE  (\A p \in pending' : Before(p, u)) /\ u.block >= current_block_number
      BY <1>0, <1>1, <3>2, <3>4 DEF Ahead
    <3>5. u.block >= e.block
      BY <1>0, <1>3, <3>2, ForwardTypes DEF Before
    <3> QED
      BY <1>6, <3>3, <3>4, <3>5 DEF Max2
  <2>2. NothingMissed'
    BY <1>1, <1>2, <1>6 DEF IInv, NothingMissed
  <2>3. InOrder'
    <3>1. /\ DOMAIN delivered = 1 .. Len(delivered)
          /\ DOMAIN delivered' = 1 .. (Len(delivered) + 1)
          /\ \A i \in DOMAIN delivered : delivered'[i] = delivered[i]
          /\ delivered'[Len(delivered) + 1] = e
          /\ Len(delivered) \in Nat
      BY <1>0, <1>3, <1>6, AppendReceived DEF TypeOK
    <3>2. \A i \in DOMAIN delivered : Before(delivered[i], e)
      BY <1>0, <1>3, <1>6 DEF Ahead, Received
    <3> SUFFICES ASSUME NEW i \in DOMAIN delivered', NEW j \in DOMAIN delivered', i < j
                 PROVE  Before(delivered'[i], delivered'[j])
      BY DEF InOrder, Forward, Before
    <3>3. i \in DOMAIN delivered
      BY <3>1
    <3>4. CASE j \in DOMAIN delivered
      BY <1>0, <3>1, <3>3, <3>4 DEF InOrder, Forward
    <3>5. CASE j = Len(delivered) + 1
      BY <3>1, <3>2, <3>3, <3>5
    <3> QED
      BY <3>1, <3>4, <3>5
  <2> QED
    BY <1>4, <2>1, <2>2, <2>3
<1> QED
  BY <1>1, <1>5, <1>6

\* At the last known block the range is moved up to the current block, which no
\* missing event is below; before it, the next interval follows without a gap.
LEMMA ForwardEndInterval ==
  ASSUME Forward, IInv, EndInterval
  PROVE  (Ahead /\ Walking /\ NothingMissed /\ InOrder)'
<1>0. TypeOK /\ Ahead /\ InOrder /\ Walking /\ NothingMissed
  BY DEF IInv
<1>1. /\ Received' = Received /\ mined' = mined /\ delivered' = delivered
      /\ pending = {} /\ pending' = {} /\ last_block_number' = last_block_number
      /\ pc = "delivering" /\ Firsts' = Firsts
  BY FirstsSame DEF EndInterval, chainVars, Received
<1>2. InOrder'
  BY <1>0, <1>1 DEF InOrder, Before
<1>3. \A u \in Firsts \ Received : u.block > to_block /\ u.block >= current_block_number
  BY <1>0, <1>1 DEF Ahead, NothingMissed
<1>4. CASE to_block = last_block_number
  <2>1. current_block_number' = Max2(current_block_number, last_block_number)
    BY <1>0, <1>4, ForwardTypes DEF EndInterval, UpdatedBlock, Max2, None
  <2>2. /\ current_block_number' \in Nat
        /\ \A u \in Firsts \ Received : u.block >= current_block_number'
    BY <1>0, <1>3, <1>4, <2>1, ForwardTypes DEF Max2, None
  <2>3. pc' = "sleeping" /\ block_range'.from_block = current_block_number'
    <3>1. EndFetch(current_block_number')
      BY <1>4 DEF EndInterval
    <3> QED
      BY <1>0, <2>2, <3>1, ForwardTypes DEF EndFetch, BlockRangeOf, None
  <2>4. Ahead'
    BY <1>0, <1>1, <2>2, <2>3 DEF Ahead, Before
  <2>5. Walking' /\ NothingMissed'
    BY <1>1, <2>2, <2>3 DEF Walking, NothingMissed
  <2> QED
    BY <1>2, <2>4, <2>5
<1>5. CASE to_block # last_block_number
  <2>1. to_block = interval.to /\ interval.to < last_block_number
    BY <1>0, <1>5, ForwardTypes DEF to_block, Min2
  <2>2. /\ interval'.from = interval.to + 1 /\ interval'.to = interval.to + StepSize
        /\ current_block_number' = current_block_number
    BY <1>0, <1>5, ForwardTypes DEF EndInterval, NextInterval, Interval, Step
  <2>3. 0 <= interval.from /\ interval.from <= interval.to
    BY <1>0, <1>1 DEF Walking
  <2>4. pc' = "fetching"
    <3>1. ~Exhausted(interval')
      BY <1>0, <2>2, <2>3, ForwardTypes DEF Exhausted
    <3> QED
      BY <1>5, <3>1 DEF EndInterval
  <2>5. Walking'
    BY <1>0, <1>1, <2>1, <2>2, <2>3, <2>4, ForwardTypes DEF Walking
  <2>6. Ahead'
    BY <1>0, <1>1, <2>2, <2>4 DEF Ahead, Before
  <2>7. NothingMissed'
    BY <1>0, <1>1, <1>3, <2>1, <2>2, <2>4, ForwardTypes DEF NothingMissed
  <2> QED
    BY <1>2, <2>5, <2>6, <2>7
<1> QED
  BY <1>4, <1>5

\* The other steps leave the deliveries and the interval alone.
LEMMA ForwardRest ==
  ASSUME Forward, IInv, Fail \/ ParseFails \/ Wake \/ UNCHANGED vars
  PROVE  (Ahead /\ Walking /\ NothingMissed /\ InOrder)'
<1>1. UNCHANGED <<mined, block_range, current_block_number, last_block_number, interval,
                  pending, delivered, to_block>> /\ Received' = Received /\ Firsts' = Firsts
  BY FirstsSame DEF Fail, ParseFails, Wake, vars, chainVars, Received, to_block
<1>2. Ahead'
  BY <1>1 DEF IInv, Ahead, Before, Fail, ParseFails, Wake, vars
<1>3. Walking'
  BY <1>1 DEF IInv, Walking, Fail, ParseFails, Wake, vars
<1>4. NothingMissed'
  BY <1>1 DEF IInv, NothingMissed, Fail, ParseFails, Wake, vars
<1>5. InOrder'
  BY <1>1 DEF IInv, InOrder, Before
<1> QED
  BY <1>2, <1>3, <1>4, <1>5

\* The invariant of the forward service.
THEOREM ForwardInvariant == ASSUME Forward PROVE Spec => []IInv
<1>1. Init /\ TypeOK /\ Once => IInv
  BY ForwardInit
<1>2. IInv /\ [Next]_vars /\ TypeOK' /\ Once' => IInv'
  <2> SUFFICES ASSUME IInv, [Next]_vars
               PROVE  (Ahead /\ Walking /\ NothingMissed /\ InOrder)'
    BY DEF IInv
  <2>1. CASE Mine
    BY <2>1, ForwardMine
  <2>2. CASE Poll
    BY <2>2, ForwardPoll
  <2>3. CASE Fetch
    BY <2>3, ForwardFetch
  <2>4. CASE Deliver
    BY <2>4, ForwardDeliver
  <2>5. CASE EndInterval
    BY <2>5, ForwardEndInterval
  <2>6. CASE Fail \/ ParseFails \/ Wake \/ UNCHANGED vars
    BY <2>6, ForwardRest
  <2> QED
    BY <2>1, <2>2, <2>3, <2>4, <2>5, <2>6 DEF Next, FetchEventsTask
<1> QED
  BY <1>1, <1>2, TypeCorrect, OnceInvariant, PTL DEF Spec, Forward

\* A forward service never moves past an event it has not delivered, however the
\* chain grows between its awaits, and whenever a request or a log's decoding fails.
THEOREM ForwardNothingMissed == ASSUME Forward PROVE Spec => []NothingMissed
<1>1. IInv => NothingMissed
  BY DEF IInv
<1> QED
  BY <1>1, ForwardInvariant, PTL

\* The subscribers of a forward service see every event at most once and in the
\* order of the chain.
THEOREM ForwardInOrder == ASSUME Forward PROVE Spec => []InOrder
<1>1. IInv => InOrder
  BY DEF IInv
<1> QED
  BY <1>1, ForwardInvariant, PTL

\* A forward service implements the safety part of the feed: each event it delivers
\* is the first of the chain that its subscribers miss.
THEOREM ForwardImplementsFeed == ASSUME Forward PROVE Spec => FeedSafe
<1>1. Init => Feed!Init
  BY DEF Init, Feed!Init
<1>2. IInv /\ [Next]_vars => [Feed!Next]_(Feed!vars)
  <2> SUFFICES ASSUME IInv, [Next]_vars
               PROVE  Feed!Next \/ UNCHANGED <<Firsts, delivered>>
    BY DEF Feed!vars
  <2>0. TypeOK /\ Received = Feed!Received
    BY DEF IInv, Received, Feed!Received
  <2>1. CASE Mine
    <3>1. \A e \in Firsts, f \in Firsts' \ Firsts : Feed!Before(e, f)
      <4>1. \A e \in Firsts : e \in mined
        BY <2>0, ForwardTypes
      <4>2. \A f \in Firsts' \ Firsts : f.block = height + 1
        BY <2>0, <2>1, FirstsGrow, MinedLater
      <4> QED
        BY <2>0, <4>1, <4>2, ForwardTypes DEF Feed!Before
    <3>2. Firsts \subseteq Firsts' /\ UNCHANGED delivered
      BY <2>0, <2>1, FirstsGrow DEF Mine
    <3> QED
      BY <3>1, <3>2 DEF Feed!Next, Feed!Mine
  <2>2. CASE Deliver
    <3>1. PICK e \in pending :
            \/ UNCHANGED <<delivered, current_block_number>>
            \/ /\ e \in Firsts \ Received
               /\ delivered' = Append(delivered, e)
               /\ \A u \in Firsts \ Received : u # e => Before(e, u)
      BY <2>2, ForwardDeliverStep
    <3>2. Firsts' = Firsts
      BY <2>2, FirstsSame DEF Deliver, chainVars
    <3>3. CASE UNCHANGED delivered
      BY <3>2, <3>3
    <3>4. CASE /\ e \in Firsts \ Received
               /\ delivered' = Append(delivered, e)
               /\ \A u \in Firsts \ Received : u # e => Before(e, u)
      <4>1. e \in Feed!Outstanding /\ \A f \in Feed!Outstanding \ {e} : Feed!Before(e, f)
        BY <2>0, <3>2, <3>4 DEF Feed!Outstanding, Feed!Before, Before
      <4> QED
        BY <3>2, <3>4, <4>1 DEF Feed!Next, Feed!Deliver
    <3> QED
      BY <3>1, <3>3, <3>4
  <2>3. CASE Poll \/ Fetch \/ EndInterval \/ Wake \/ Fail \/ ParseFails \/ UNCHANGED vars
    BY <2>3, FirstsSame DEF Poll, Fetch, EndInterval, Wake, Fail, ParseFails, vars, chainVars
  <2> QED
    BY <2>1, <2>2, <2>3 DEF Next, FetchEventsTask
<1> QED
  BY <1>1, <1>2, ForwardInvariant, PTL DEF Spec, FeedSafe, Feed!SafeSpec

-----------------------------------------------------------------------------
(* The reverse service.                                                     *)

\* The steps have two blocks at least and the range does not end at block 0: a request
\* that ends at block 0 would be answered up to the latest block (see Logs).
Backward == Reverse /\ ToBlock \in Nat \ {0} /\ StepSize >= 2

\* What was received lies above the interval that is asked for and after every log of
\* the answer at hand.  Only the first interval, which ends at ToBlock, may reach the
\* last block; then it is the only one.
Descending ==
  /\ block_range.from_block = 0
  /\ pc # "sleeping"
  /\ pc = "polling" => Received = {} /\ pending = {}
  /\ pc \in {"fetching", "delivering"} =>
       /\ 0 <= interval.to /\ interval.to <= ToBlock /\ interval.from <= interval.to
       /\ interval.from = interval.to - StepSize + 1 \/ interval.from = 0
       /\ interval.to = 0 => interval.from < 0
       /\ interval.to = ToBlock \/ ToBlock < last_block_number
  /\ pc = "fetching" =>
       /\ pending = {}
       /\ \A r \in Received : r.block > interval.to
       /\ interval.to = ToBlock => Received = {}
  /\ pc = "delivering" =>
       /\ 0 <= interval.from
       /\ \A p \in pending : interval.from <= p.block
       /\ \A p \in pending, r \in Received : Before(p, r)
       /\ \A r \in Received : interval.from <= r.block
  /\ pc = "finished" =>
       \/ interval.from <= 0
       \/ interval.from = ToBlock - StepSize + 1 /\ ToBlock >= last_block_number

RInv == TypeOK /\ Once /\ Descending /\ ReverseNothingMissed /\ InOrder

LEMMA BackwardTypes ==
  ASSUME Backward, TypeOK
  PROVE  /\ height \in Nat /\ last_block_number \in Nat /\ last_block_number <= height
         /\ StepSize \in Nat /\ StepSize >= 2 /\ ToBlock \in Nat /\ ToBlock > 0 /\ ToBlock # Open
         /\ block_range.step_size = StepSize /\ block_range.reverse
         /\ block_range.to_block = ToBlock
         /\ interval.from \in Int /\ interval.to \in Int
         /\ \A e \in mined : e.block \in Nat /\ e.log \in Nat /\ e.block <= height
         /\ Received \subseteq mined /\ pending \subseteq mined /\ Firsts \subseteq mined
<1>1. /\ StepSize \in Nat /\ StepSize >= 2 /\ ToBlock \in Nat /\ ToBlock > 0 /\ ToBlock # Open
      /\ MaxHeight \in Nat /\ Reverse
  BY EventAssumption DEF Backward, Open
<1>2. Received \subseteq mined
  BY ReceivedMined DEF TypeOK
<1>3. height \in Nat /\ last_block_number \in Nat /\ last_block_number <= height
  BY <1>1 DEF TypeOK
<1>4. /\ block_range.step_size = StepSize /\ block_range.reverse
      /\ block_range.to_block = ToBlock
      /\ interval.from \in Int /\ interval.to \in Int
  BY <1>1 DEF TypeOK
<1>5. (\A e \in mined : e.block \in Nat /\ e.log \in Nat /\ e.block <= height) /\ pending \subseteq mined /\ Firsts \subseteq mined
  BY <1>3 DEF TypeOK, Firsts
<1> QED
  BY <1>1, <1>2, <1>3, <1>4, <1>5

LEMMA BackwardInit == ASSUME Backward, Init, TypeOK, Once PROVE RInv
<1>1. Received = {} /\ DOMAIN delivered = {}
  BY DEF Init, Received
<1>2. block_range.from_block = 0 /\ pc = "polling" /\ pending = {}
  BY DEF Init, BlockRangeOf
<1> QED
  BY <1>1, <1>2 DEF RInv, Descending, ReverseNothingMissed, InOrder

\* Blocks mined meanwhile lie above the range.
LEMMA BackwardMine ==
  ASSUME Backward, RInv, Mine
  PROVE  (Descending /\ ReverseNothingMissed /\ InOrder)'
<1>0. TypeOK
  BY DEF RInv
<1>1. /\ height' = height + 1 /\ mined \subseteq mined'
      /\ \A u \in mined' \ mined : u.block = height + 1
      /\ \A u \in Firsts' : u \in Firsts \/ u \in mined' \ mined
  BY <1>0, MinedLater, FirstsGrow
<1>2. /\ Received' = Received
      /\ UNCHANGED <<block_range, pc, last_block_number, interval, pending, delivered>>
  BY DEF Mine, Received
<1>3. Descending'
  BY <1>0, <1>1, <1>2, BackwardTypes DEF RInv, Descending, Before
<1>4. ReverseNothingMissed'
  <2>1. \A u \in mined' \ mined : ~(u.block <= KnownTop)
    BY <1>0, <1>1, BackwardTypes DEF KnownTop, Min2
  <2>2. KnownTop' = KnownTop
    BY <1>2 DEF KnownTop, Min2
  <2> QED
    BY <1>1, <1>2, <2>1, <2>2 DEF RInv, ReverseNothingMissed
<1>5. InOrder'
  BY <1>2 DEF RInv, InOrder, Before
<1> QED
  BY <1>3, <1>4, <1>5

LEMMA BackwardPoll ==
  ASSUME Backward, RInv, Poll
  PROVE  (Descending /\ ReverseNothingMissed /\ InOrder)'
<1>0. TypeOK /\ Descending
  BY DEF RInv
<1>1. /\ Received' = Received /\ UNCHANGED <<height, mined, block_range, pending, delivered>>
      /\ pc = "polling" /\ pc' = "fetching" /\ last_block_number' = height /\ Firsts' = Firsts
  BY FirstsSame DEF Poll, chainVars, Received
<1>2. /\ interval'.to = ToBlock /\ interval'.from <= interval'.to
      /\ interval'.from = interval'.to - StepSize + 1 \/ interval'.from = 0
  BY <1>0, BackwardTypes DEF Poll, FirstInterval, Interval, Step, Descending
<1>3. Descending'
  BY <1>0, <1>1, <1>2, BackwardTypes DEF Descending
<1>4. ReverseNothingMissed'
  <2>1. height \in Nat /\ ToBlock \in Nat /\ \A e \in Firsts : e.block \in Nat
    BY <1>0, BackwardTypes
  <2>2. \A e \in Firsts : e.block <= KnownTop' => e.block <= interval'.to
    BY <1>1, <1>2, <2>1 DEF KnownTop, Min2
  <2> QED
    BY <1>1, <2>2 DEF ReverseNothingMissed
<1>5. InOrder'
  BY <1>1 DEF RInv, InOrder, Before
<1> QED
  BY <1>3, <1>4, <1>5

\* The answer holds what is missing of the interval, and nothing above it except in
\* the first interval, before anything was received.
LEMMA BackwardFetch ==
  ASSUME Backward, RInv, Fetch
  PROVE  (Descending /\ ReverseNothingMissed /\ InOrder)'
<1>0. TypeOK /\ Descending
  BY DEF RInv
<1>1. /\ Received' = Received /\ UNCHANGED <<height, mined, block_range, interval, last_block_number, delivered>>
      /\ pc = "fetching" /\ pc' = "delivering" /\ interval.from >= 0
      /\ pending' = Logs(interval.from, to_block) /\ Firsts' = Firsts
  BY FirstsSame DEF Fetch, chainVars, Received
<1>2. interval.to > 0 /\ interval.from <= interval.to /\ interval.to <= ToBlock
  BY <1>0, <1>1, BackwardTypes DEF Descending
<1>3. to_block \in Nat /\ to_block = Min2(interval.to, last_block_number)
  BY <1>0, <1>2, BackwardTypes DEF to_block, Min2
<1>4. PICK upto \in Nat :
        /\ pending' = { e \in mined : interval.from <= e.block /\ e.block <= upto }
        /\ upto >= to_block
        /\ upto = to_block \/ to_block = 0
  BY <1>0, <1>1, <1>3, BackwardTypes DEF Logs
<1>5. upto = interval.to \/ Received = {}
  <2>1. CASE interval.to = ToBlock
    BY <1>0, <1>1, <2>1 DEF Descending
  <2>2. CASE interval.to # ToBlock
    <3>1. to_block = interval.to
      BY <1>0, <1>1, <1>2, <1>3, <2>2, BackwardTypes DEF Descending, Min2
    <3> QED
      BY <1>2, <1>4, <3>1
  <2> QED
    BY <2>1, <2>2
<1>6. Descending'
  <2>1. \A r \in Received : r.block > interval.to
    BY <1>0, <1>1 DEF Descending
  <2>2. \A p \in pending', r \in Received : Before(p, r)
    BY <1>0, <1>4, <1>5, <2>1, BackwardTypes DEF Before
  <2>3. \A r \in Received : interval.from <= r.block
    BY <1>0, <1>1, <2>1, BackwardTypes DEF Descending
  <2>4. \A p \in pending' : interval.from <= p.block
    BY <1>4
  <2> QED
    BY <1>0, <1>1, <2>2, <2>3, <2>4 DEF Descending, Before
<1>7. ReverseNothingMissed'
  <2>1. \A u \in Firsts \ Received : u.block <= KnownTop => u.block <= interval.to
    BY <1>1 DEF RInv, ReverseNothingMissed
  <2>2. \A u \in Firsts \ Received :
          u.block <= KnownTop => u \in pending' \/ u.block < interval.from
    <3> SUFFICES ASSUME NEW u \in Firsts \ Received, u.block <= KnownTop, ~(u.block < interval.from)
                 PROVE  u \in pending'
      OBVIOUS
    <3>1. u \in mined /\ u.block \in Nat
      BY <1>0, BackwardTypes
    <3>2. u.block <= last_block_number /\ u.block <= interval.to
      BY <1>0, <2>1, <3>1, BackwardTypes DEF KnownTop, Min2
    <3>3. u.block <= upto
      BY <1>0, <1>3, <1>4, <3>1, <3>2, BackwardTypes DEF Min2
    <3> QED
      BY <1>0, <1>4, <3>1, <3>3, BackwardTypes
  <2>3. KnownTop' = KnownTop
    BY <1>1 DEF KnownTop, Min2
  <2> QED
    BY <1>1, <2>2, <2>3 DEF ReverseNothingMissed
<1>8. InOrder'
  BY <1>1 DEF RInv, InOrder, Before
<1> QED
  BY <1>6, <1>7, <1>8

\* The last first log of the answer is delivered, what else comes is skipped.
LEMMA BackwardDeliver ==
  ASSUME Backward, RInv, Deliver
  PROVE  (Descending /\ ReverseNothingMissed /\ InOrder)'
<1>0. TypeOK /\ Once /\ Descending /\ InOrder /\ pc = "delivering" /\ pc # "failed"
  BY DEF RInv, Deliver
<1>1. PICK e \in pending :
        /\ IsNextPending(e)
        /\ pending' = pending \ {e}
        /\ \/ Loaded(e) /\ UNCHANGED <<loaded_events, current_block_number, delivered>>
           \/ ~Loaded(e) /\ delivered' = Append(delivered, e)
  BY DEF Deliver
<1>2. /\ UNCHANGED <<height, mined, block_range, pc, interval, last_block_number>>
      /\ Firsts' = Firsts
  BY FirstsSame DEF Deliver, chainVars
<1>3. e \in mined /\ KnownTop' = KnownTop
  BY <1>0, <1>2, BackwardTypes DEF KnownTop, Min2
<1>4. CASE Loaded(e) /\ UNCHANGED delivered
  <2>1. Received' = Received
    BY <1>4 DEF Received
  <2>2. e \notin Firsts \ Received
    BY <1>0, <1>4, LoadedReceived
  <2>3. Descending'
    BY <1>0, <1>1, <1>2, <2>1 DEF Descending, Before
  <2>4. ReverseNothingMissed'
    BY <1>0, <1>1, <1>2, <1>3, <2>1, <2>2 DEF RInv, ReverseNothingMissed
  <2>5. InOrder'
    BY <1>0, <1>4 DEF InOrder, Before
  <2> QED
    BY <2>3, <2>4, <2>5
<1>5. CASE ~Loaded(e) /\ delivered' = Append(delivered, e)
  <2>1. Received' = Received \cup {e}
    BY <1>0, <1>3, <1>5, AppendReceived DEF TypeOK
  <2>2. \A p \in pending' : p \in pending /\ Before(p, e)
    BY <1>0, <1>1, BackwardTypes DEF IsNextPending
  <2>3. Descending'
    <3>1. \A p \in pending', r \in Received' : Before(p, r)
      BY <1>0, <2>1, <2>2 DEF Descending
    <3>2. \A r \in Received' : interval.from <= r.block
      BY <1>0, <2>1 DEF Descending
    <3>3. \A p \in pending' : interval.from <= p.block
      BY <1>0, <2>2 DEF Descending
    <3> QED
      BY <1>0, <1>2, <3>1, <3>2, <3>3 DEF Descending, Before
  <2>4. ReverseNothingMissed'
    BY <1>0, <1>1, <1>2, <1>3, <2>1 DEF RInv, ReverseNothingMissed
  <2>5. InOrder'
    <3>1. /\ DOMAIN delivered = 1 .. Len(delivered)
          /\ DOMAIN delivered' = 1 .. (Len(delivered) + 1)
          /\ \A i \in DOMAIN delivered : delivered'[i] = delivered[i]
          /\ delivered'[Len(delivered) + 1] = e
          /\ Len(delivered) \in Nat
      BY <1>0, <1>3, <1>5, AppendReceived DEF TypeOK
    <3>2. \A i \in DOMAIN delivered : Before(e, delivered[i])
      BY <1>0 DEF Descending, Received
    <3> SUFFICES ASSUME NEW i \in DOMAIN delivered', NEW j \in DOMAIN delivered', i < j
                 PROVE  Before(delivered'[j], delivered'[i])
      BY DEF InOrder, Backward, Before
    <3>3. i \in DOMAIN delivered
      BY <3>1
    <3>4. CASE j \in DOMAIN delivered
      BY <1>0, <3>1, <3>3, <3>4 DEF InOrder, Backward
    <3>5. CASE j = Len(delivered) + 1
      BY <3>1, <3>2, <3>3, <3>5
    <3> QED
      BY <3>1, <3>4, <3>5
  <2> QED
    BY <2>3, <2>4, <2>5
<1> QED
  BY <1>1, <1>4, <1>5

\* At the last known block the walk ends, in the first interval only.  Otherwise the next
\* interval ends where this one starts, or there is no block left.
LEMMA BackwardEndInterval ==
  ASSUME Backward, RInv, EndInterval
  PROVE  (Descending /\ ReverseNothingMissed /\ InOrder)'
<1>0. TypeOK /\ Descending /\ pc = "delivering" /\ pending = {}
  BY DEF RInv, EndInterval
<1>1. /\ Received' = Received /\ UNCHANGED <<height, mined, last_block_number, delivered, pending>>
      /\ Firsts' = Firsts
  BY FirstsSame DEF EndInterval, chainVars, Received
<1>2. KnownTop' = KnownTop
  BY <1>1 DEF KnownTop, Min2
<1>3. \A u \in Firsts \ Received : u.block <= KnownTop => u.block < interval.from
  BY <1>0 DEF RInv, ReverseNothingMissed
<1>4. InOrder'
  BY <1>1 DEF RInv, InOrder, Before
<1>5. ASSUME NEW current, EndFetch(current) PROVE pc' = "finished" /\ UNCHANGED block_range
  BY <1>0, <1>5, BackwardTypes DEF EndFetch
<1>6. CASE to_block = last_block_number
  <2>1. pc' = "finished" /\ UNCHANGED <<block_range, interval>>
    BY <1>5, <1>6, <1>0 DEF EndInterval
  <2>2. interval.to = ToBlock /\ ToBlock >= last_block_number
    BY <1>0, <1>6, BackwardTypes DEF Descending, to_block, Min2
  <2>3. Descending'
    BY <1>0, <1>1, <2>1, <2>2, BackwardTypes DEF Descending
  <2>4. ReverseNothingMissed'
    BY <1>1, <1>2, <1>3, <2>1 DEF ReverseNothingMissed
  <2> QED
    BY <1>4, <2>3, <2>4
<1>7. CASE to_block # last_block_number
  <2>1. /\ interval' = NextInterval(block_range, interval)
        /\ IF Exhausted(interval')
           THEN EndFetch(current_block_number)
           ELSE pc' = "fetching" /\ UNCHANGED block_range
    BY <1>7 DEF EndInterval
  <2>2. /\ block_range' = block_range
        /\ pc' = IF Exhausted(interval') THEN "finished" ELSE "fetching"
    BY <1>5, <2>1
  <2>3. interval'.to = interval.from - 1 /\ interval'.from = interval'.to - StepSize + 1
    BY <1>0, <2>1, BackwardTypes DEF NextInterval, Interval, Step
  <2>4. interval.to < last_block_number
    BY <1>0, <1>7, BackwardTypes DEF to_block, Min2
  <2>5. 0 <= interval.from /\ interval.from <= interval.to /\ interval.to <= ToBlock
    BY <1>0 DEF Descending
  <2>6. ToBlock < last_block_number
    BY <1>0, <2>4, BackwardTypes DEF Descending
  <2>7. Descending'
    <3>1. \A r \in Received : r.block > interval'.to
      BY <1>0, <2>3, BackwardTypes DEF Descending
    <3>2. CASE Exhausted(interval')
      BY <1>0, <1>1, <2>2, <2>3, <3>2, BackwardTypes DEF Descending, Exhausted
    <3>3. CASE ~Exhausted(interval')
      <4>1. 0 <= interval'.to /\ interval'.to < ToBlock /\ interval'.from <= interval'.to
        BY <1>0, <2>3, <2>5, <3>3, BackwardTypes DEF Exhausted
      <4>2. interval'.to = 0 => interval'.from < 0
        BY <1>0, <2>3, BackwardTypes
      <4> QED
        BY <1>0, <1>1, <2>2, <2>3, <2>6, <3>1, <3>3, <4>1, <4>2, BackwardTypes DEF Descending
    <3> QED
      BY <3>2, <3>3
  <2>8. ReverseNothingMissed'
    <3>1. CASE Exhausted(interval')
      <4>1. interval.from <= 0
        BY <1>0, <2>3, <3>1, BackwardTypes DEF Exhausted
      <4>2. \A u \in Firsts \ Received : ~(u.block <= KnownTop)
        BY <1>0, <1>3, <4>1, BackwardTypes
      <4> QED
        BY <1>1, <1>2, <4>2 DEF ReverseNothingMissed
    <3>2. CASE ~Exhausted(interval')
      <4>1. \A u \in Firsts \ Received : u.block <= KnownTop => u.block <= interval'.to
        BY <1>0, <1>3, <2>3, BackwardTypes
      <4> QED
        BY <1>1, <1>2, <2>2, <3>2, <4>1 DEF ReverseNothingMissed
    <3> QED
      BY <3>1, <3>2
  <2> QED
    BY <1>4, <2>7, <2>8
<1> QED
  BY <1>6, <1>7

LEMMA BackwardRest ==
  ASSUME Backward, RInv, Fail \/ ParseFails \/ Wake \/ UNCHANGED vars
  PROVE  (Descending /\ ReverseNothingMissed /\ InOrder)'
<1>1. /\ UNCHANGED <<height, mined, block_range, last_block_number, interval, pending, delivered>>
      /\ Received' = Received /\ Firsts' = Firsts
      /\ \/ pc' = "failed"
         \/ pc' = pc
  BY FirstsSame DEF RInv, Descending, Fail, ParseFails, Wake, vars, chainVars, Received
<1>2. Descending'
  BY <1>1 DEF RInv, Descending, Before
<1>3. ReverseNothingMissed'
  BY <1>1 DEF RInv, ReverseNothingMissed, KnownTop, Min2
<1>4. InOrder'
  BY <1>1 DEF RInv, InOrder, Before
<1> QED
  BY <1>2, <1>3, <1>4

LEMMA BackwardInvariant == ASSUME Backward PROVE Spec => []RInv
<1>1. Init /\ TypeOK /\ Once => RInv
  BY BackwardInit
<1>2. RInv /\ [Next]_vars /\ TypeOK' /\ Once' => RInv'
  <2> SUFFICES ASSUME RInv, [Next]_vars
               PROVE  (Descending /\ ReverseNothingMissed /\ InOrder)'
    BY DEF RInv
  <2>1. CASE Mine
    BY <2>1, BackwardMine
  <2>2. CASE Poll
    BY <2>2, BackwardPoll
  <2>3. CASE Fetch
    BY <2>3, BackwardFetch
  <2>4. CASE Deliver
    BY <2>4, BackwardDeliver
  <2>5. CASE EndInterval
    BY <2>5, BackwardEndInterval
  <2>6. CASE Fail \/ ParseFails \/ Wake \/ UNCHANGED vars
    BY <2>6, BackwardRest
  <2> QED
    BY <2>1, <2>2, <2>3, <2>4, <2>5, <2>6 DEF Next, FetchEventsTask
<1> QED
  BY <1>1, <1>2, TypeCorrect, OnceInvariant, PTL DEF Spec, Backward

\* A reverse service walks down without a gap, whatever is mined meanwhile.
THEOREM BackwardNothingMissed == ASSUME Backward PROVE Spec => []ReverseNothingMissed
<1>1. RInv => ReverseNothingMissed
  BY DEF RInv
<1> QED
  BY <1>1, BackwardInvariant, PTL

\* A reverse service that finishes has delivered its whole range, or, if that reached
\* the last block, its first interval.
THEOREM BackwardComplete == ASSUME Backward PROVE Spec => []ReverseComplete
<1>1. RInv => ReverseComplete
  <2> SUFFICES ASSUME RInv, pc = "finished",
                      NEW e \in Firsts \ Received, e.block <= KnownTop
               PROVE  ToBlock >= last_block_number /\ e.block <= ToBlock - StepSize
    BY DEF ReverseComplete
  <2>1. e.block < interval.from
    BY DEF RInv, ReverseNothingMissed
  <2>2. TypeOK
    BY DEF RInv
  <2>3. e.block \in Nat
    BY <2>2, BackwardTypes
  <2>4. interval.from = ToBlock - StepSize + 1 /\ ToBlock >= last_block_number
    BY <2>1, <2>2, <2>3, BackwardTypes DEF RInv, Descending
  <2> QED
    BY <2>1, <2>2, <2>3, <2>4, BackwardTypes
<1> QED
  BY <1>1, BackwardInvariant, PTL

\* Its subscribers see every event at most once, the latest first.
THEOREM BackwardInOrder == ASSUME Backward PROVE Spec => []InOrder
<1>1. RInv => InOrder
  BY DEF RInv
<1> QED
  BY <1>1, BackwardInvariant, PTL
=============================================================================
