------------------------- MODULE EventServiceProps --------------------------
(***************************************************************************)
(* Properties of EventService.                                              *)
(***************************************************************************)
EXTENDS EventService

\* Types of the service's attributes and of its task's locals.
TypeOK ==
  /\ height \in 0 .. MaxHeight
  /\ mined \subseteq [block : 0 .. height, tx : Nat, log : Nat]
  /\ block_range \in [from_block : 0 .. height, to_block : {ToBlock},
                      step_size : {StepSize}, reverse : {Reverse}]
  /\ current_block_number \in 0 .. height \cup {None}
  /\ pc \in {"polling", "fetching", "delivering", "sleeping", "finished", "failed"}
  /\ last_block_number \in 0 .. height
  /\ interval \in [from : Int, to : Int]
  /\ pending \subseteq mined
  /\ delivered \in Seq(mined)
  /\ loaded_events \subseteq { <<e.block, e.tx>> : e \in mined }
  /\ pc # "failed" => loaded_events = { <<e.block, e.tx>> : e \in Received }

\* Events are remembered by their transaction.  Of the logs of one transaction only
\* the one that the walk comes to first can be delivered: the first in the block, or
\* for a reverse range the last.
Firsts ==
  { e \in mined : \A f \in mined :
      f # e /\ f.block = e.block /\ f.tx = e.tx => IF Reverse THEN Before(f, e) ELSE Before(e, f) }

\* Subscribers see the events in the order of the range's direction, and none of
\* them twice: the block that is polled again every time, the clipped intervals
\* and the blocks mined during a fetch never repeat an event or overtake one.
InOrder ==
  \A i, j \in DOMAIN delivered :
    i < j => IF Reverse THEN Before(delivered[j], delivered[i])
                        ELSE Before(delivered[i], delivered[j])

\* A forward service that follows the chain never moves past a transaction: a first
\* log that was not delivered is in the answer being gone through, or at or above the
\* block the task will ask for next.
NothingMissed ==
  \A e \in Firsts \ Received :
    \/ pc \in {"polling", "sleeping"} /\ e.block >= block_range.from_block
    \/ pc = "fetching" /\ e.block >= interval.from
    \/ pc = "delivering" /\ (e \in pending \/ e.block > to_block)
    \/ pc = "failed"

\* The blocks of the range there were when the task asked for the last block.
KnownTop == Min2(ToBlock, last_block_number)

\* The task logs "First block processed, finishing reverse block iteration"
\* (line 112).  It then has delivered every transaction of the range, except when the
\* range did not end below the last block: reaching that ends the walk after its
\* first interval (line 148), and what is below was not asked for.
ReverseComplete ==
  pc = "finished" =>
    \A e \in Firsts \ Received :
      e.block <= KnownTop => ToBlock >= last_block_number /\ e.block <= ToBlock - StepSize

\* A reverse service walks down without a gap: what it has not delivered in its
\* range is in the answer at hand or below the interval.
ReverseNothingMissed ==
  \A e \in Firsts \ Received :
    e.block <= KnownTop =>
      \/ pc = "polling"
      \/ pc = "fetching" /\ e.block <= interval.to
      \/ pc = "delivering" /\ (e \in pending \/ e.block < interval.from)
      \/ pc = "finished" /\ e.block < interval.from
      \/ pc = "failed"

\* The service implements the feed its subscribers count on, of one log per
\* transaction: the further logs of a transaction never reach them.
Feed == INSTANCE EventFeed WITH mined <- Firsts, delivered <- delivered
FeedSpec == Feed!Spec
FeedSafe == Feed!SafeSpec
=============================================================================
