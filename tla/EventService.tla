---------------------------- MODULE EventService ----------------------------
(***************************************************************************)
(* ContractEventService (sarafan/contract/event_service.py): one task polls *)
(* an Ethereum node for the logs of a contract, interval by interval, and   *)
(* emits every log once on the bus.  The task suspends at each of its       *)
(* awaits (block_number, get_logs, the notification of one event, sleep),   *)
(* and the chain grows meanwhile.                                           *)
(*                                                                          *)
(* An event is a log entry: its block, the transaction of that block that   *)
(* produced it, and its index in the block.  The pair <<block, tx>> stands   *)
(* for the transaction hash.                                                *)
(***************************************************************************)
EXTENDS BlockRange, Sequences

CONSTANTS
  Shapes,       \* what a block may hold: sequences of transaction numbers, one per log
  MaxHeight,    \* bound: the chain stops growing at this height
  StartHeights, \* the heights the chain may have when the service starts
  ToBlock,      \* to_block of the range given to the service, or Open
  StepSize,     \* its start_size; record_time() and retry() are not called here
  Reverse,      \* its direction
  NodeMayFail,  \* may a request to the node raise?
  Undecodable   \* may a log of the contract fail to decode?

ASSUME EventAssumption ==
  /\ Shapes \subseteq Seq(Nat)
  /\ MaxHeight \in Nat
  /\ StartHeights \subseteq 0 .. MaxHeight
  /\ ToBlock \in Nat \cup {Open}
  /\ StepSize \in Nat \ {0}
  /\ Reverse \in BOOLEAN
  /\ Reverse => ToBlock # Open
  /\ NodeMayFail \in BOOLEAN /\ Undecodable \in BOOLEAN

None == -1   \* current_block_number before the first update

VARIABLES
  height,     \* external: number of the last block of the chain
  mined,      \* external: the contract's events on the chain
  block_range, current_block_number, loaded_events,   \* attributes of the service
  pc,                  \* where fetch_events_task stands
  last_block_number,   \* locals of fetch_events: the answer of block_number(),
  interval,            \*   the interval the iterator last yielded (not clipped),
  pending,             \*   and the logs of `resp` not yet gone through
  delivered            \* history: the events the subscribers were notified of

chainVars == <<height, mined>>
vars == <<height, mined, block_range, current_block_number, loaded_events,
          pc, last_block_number, interval, pending, delivered>>

Before(e, f) == e.block < f.block \/ (e.block = f.block /\ e.log < f.log)

Received == { delivered[i] : i \in DOMAIN delivered }

Block(b, shape) == { [block |-> b, tx |-> shape[i], log |-> i] : i \in DOMAIN shape }

Max2(a, b) == IF a > b THEN a ELSE b
Min2(a, b) == IF a < b THEN a ELSE b

Init ==
  /\ height \in StartHeights
  /\ \E chain \in [0 .. height -> Shapes] :
       mined = UNION { Block(b, chain[b]) : b \in 0 .. height }
  /\ block_range = BlockRangeOf(0, ToBlock, StepSize, Reverse)
  /\ current_block_number = None
  /\ loaded_events = {}
  /\ pc = "polling"
  /\ last_block_number = 0
  /\ interval = Interval(0, 0)
  /\ pending = {}
  /\ delivered = <<>>

-----------------------------------------------------------------------------
(* The chain and the node.                                                  *)

Mine ==
  /\ height < MaxHeight
  /\ height' = height + 1
  /\ \E shape \in Shapes : mined' = mined \cup Block(height', shape)
  /\ UNCHANGED <<block_range, current_block_number, loaded_events,
                 pc, last_block_number, interval, pending, delivered>>

\* Mutant: the upper end is excluded.
Logs_Exclusive(from, to) ==
  { e \in mined : from <= e.block /\ e.block < to }

\* eth_getLogs: a negative number is no block, so that request is refused.
\* The client leaves toBlock out when it is 0, and the node then answers up to
\* the latest block.
Logs(from, to) ==
  LET upto == IF to = 0 THEN height ELSE to
  IN { e \in mined : from <= e.block /\ e.block <= upto }

-----------------------------------------------------------------------------
(* fetch_events.                                                            *)

Poll ==
  /\ pc = "polling"
  /\ last_block_number' = height
  /\ interval' = FirstInterval(block_range)
  /\ pc' = "fetching"
  /\ UNCHANGED <<chainVars, block_range, current_block_number, loaded_events,
                 pending, delivered>>

\* The upper end of the request: the interval clipped to the last block known.
to_block == Min2(interval.to, last_block_number)

Fetch ==
  /\ pc = "fetching"
  /\ interval.from >= 0
  /\ pending' = Logs(interval.from, to_block)
  /\ pc' = "delivering"
  /\ UNCHANGED <<chainVars, block_range, current_block_number, loaded_events,
                 last_block_number, interval, delivered>>

\* Nothing catches what a request raises: the task ends.
Fail ==
  /\ \/ NodeMayFail /\ pc \in {"polling", "fetching"}
     \/ pc = "fetching" /\ interval.from < 0
  /\ pc' = "failed"
  /\ UNCHANGED <<chainVars, block_range, current_block_number, loaded_events,
                 last_block_number, interval, pending, delivered>>

\* _update_current_block: the value the attribute gets.
UpdatedBlock(value) ==
  LET current == IF current_block_number = None THEN value ELSE current_block_number
  IN IF block_range.reverse THEN Min2(current, Max2(value, 0)) ELSE Max2(current, value)

\* Mutant: the answer is taken in any order.
IsNextPending_Any(e) == e \in pending

\* Mutant: events are remembered by their block.
Loaded_Block(e) == \E l \in loaded_events : l[1] = e.block

\* The next log of resp, in the direction of the range.
IsNextPending(e) ==
  /\ e \in pending
  /\ \A f \in pending \ {e} : IF block_range.reverse THEN Before(f, e) ELSE Before(e, f)

\* `event.transaction_hash in self._loaded_events`
Loaded(e) == <<e.block, e.tx>> \in loaded_events

Deliver ==
  /\ pc = "delivering"
  /\ \E e \in pending :
       /\ IsNextPending(e)
       /\ pending' = pending \ {e}
       /\ \/ /\ Loaded(e)
             /\ UNCHANGED <<loaded_events, current_block_number, delivered>>
          \/ /\ ~Loaded(e)
             /\ loaded_events' = loaded_events \cup {<<e.block, e.tx>>}
             /\ current_block_number' = UpdatedBlock(e.block)
             /\ delivered' = Append(delivered, e)
  /\ UNCHANGED <<chainVars, block_range, pc, last_block_number, interval>>

\* A log does not decode: an unknown signature, data of another length, a host
\* name that is not ASCII.  Nothing catches it either; the transaction counts as
\* loaded already.
ParseFails ==
  /\ Undecodable
  /\ pc = "delivering"
  /\ \E e \in pending :
       /\ IsNextPending(e) /\ ~Loaded(e)
       /\ loaded_events' = loaded_events \cup {<<e.block, e.tx>>}
  /\ pc' = "failed"
  /\ UNCHANGED <<chainVars, block_range, current_block_number,
                 last_block_number, interval, pending, delivered>>

\* fetch_events returns to the loop of fetch_events_task, which stops after a
\* reverse or a bounded range and otherwise resumes from the current block.
EndFetch(current) ==
  IF block_range.reverse \/ block_range.to_block # Open
  THEN pc' = "finished" /\ UNCHANGED block_range
  ELSE /\ pc' = "sleeping"
       /\ block_range' = BlockRangeOf(IF current = None THEN 0 ELSE current,
                                      Open, block_range.step_size, FALSE)

\* The logs of the interval are exhausted: stop at the last known block, or go
\* on to the next interval if the iterator has one.
EndInterval ==
  /\ pc = "delivering"
  /\ pending = {}
  /\ \/ /\ to_block = last_block_number
        /\ current_block_number' = UpdatedBlock(last_block_number)
        /\ EndFetch(current_block_number')
        /\ UNCHANGED interval
     \/ /\ to_block # last_block_number
        /\ interval' = NextInterval(block_range, interval)
        /\ UNCHANGED current_block_number
        /\ IF Exhausted(interval')
           THEN EndFetch(current_block_number)
           ELSE pc' = "fetching" /\ UNCHANGED block_range
  /\ UNCHANGED <<chainVars, loaded_events, last_block_number, pending, delivered>>

Wake ==
  /\ pc = "sleeping"
  /\ pc' = "polling"
  /\ UNCHANGED <<chainVars, block_range, current_block_number, loaded_events,
                 last_block_number, interval, pending, delivered>>

FetchEventsTask == Poll \/ Fetch \/ Deliver \/ EndInterval \/ Wake

Next == Mine \/ Fail \/ ParseFails \/ FetchEventsTask

Spec == Init /\ [][Next]_vars

\* The task is a coroutine of a running event loop: it is resumed when what it
\* awaits is there, the node answers and sleep() ends.
FairSpec == Spec /\ WF_vars(FetchEventsTask)
=============================================================================
