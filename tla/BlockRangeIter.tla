--------------------------- MODULE BlockRangeIter ---------------------------
(***************************************************************************)
(* A BlockRange object and the loop that consumes it:                       *)
(*                                                                          *)
(*     for from_block, to_block in block_range:                             *)
(*         ...  block_range.retry()  or  block_range.record_time(t)         *)
(*                                                                          *)
(* The consumer works on one interval at a time.  Before it asks for the    *)
(* next one it may say that the interval failed (retry) and how long it     *)
(* took (record_time), each as often as it likes and in any order.  What is *)
(* of interest is which blocks it has worked on.                            *)
(***************************************************************************)
EXTENDS BlockRange

CONSTANTS
  Ranges,            \* the iterators that may be built, see BlockRangeOf
  MinSize, MaxSize,  \* min_size and max_size of all of them
  MaxBlock,          \* bound: the consumer asks no more once an interval ends beyond it
  MaxBack            \* bound: and retries no more once it was moved back this far

Arguments == [from_block : Nat, to_block : Nat \cup {Open},
              step_size : MinSize .. MaxSize, reverse : BOOLEAN]

\* A reverse range needs an upper end.
ASSUME RangeAssumption ==
  /\ MinSize \in Nat \ {0}
  /\ MaxSize \in Nat /\ MaxSize >= MinSize
  /\ Ranges \subseteq Arguments
  /\ \A r \in Ranges : r.reverse => r.to_block # Open
  /\ MaxBlock \in Nat /\ MaxBack \in Nat

VARIABLES
  block_range,  \* the iterator object
  interval,     \* its _from and _to
  phase,        \* "new"; "out" once an interval is yielded; "done" when the generator returned
  wanted,       \* history: the interval the consumer has in hand
  made,         \* history: the step size that interval was made with
  moved,        \* history: how far retry() has moved it back, all calls together
  slips,        \* history: how retries have missed: "short" of the failed interval, or "long"
  done_blocks   \* history: the blocks of the intervals it completed

vars == <<block_range, interval, phase, wanted, made, moved, slips, done_blocks>>

Init ==
  /\ block_range \in Ranges
  /\ interval = Interval(0, 0)
  /\ phase = "new"
  /\ wanted = Interval(0, 0)
  /\ made = block_range.step_size
  /\ moved = 0
  /\ slips = {}
  /\ done_blocks = {}

\* The interval the iterator has set up is handed to the consumer.
Yield ==
  /\ phase' = "out"
  /\ wanted' = interval'
  /\ made' = block_range.step_size
  /\ moved' = 0

\* The first next(): lines 48-63.
Begin ==
  /\ phase = "new"
  /\ interval' = FirstInterval(block_range)
  /\ Yield
  /\ UNCHANGED <<block_range, slips, done_blocks>>

\* How the retries of the interval in hand have missed its start, if there were any.
Slip == { slip \in {"short", "long"} :
          \/ slip = "short" /\ 0 < moved /\ moved < made
          \/ slip = "long" /\ moved > made }

\* Any later next(): lines 64-72.  An interval that was not retried is completed.
Advance ==
  /\ phase = "out"
  /\ interval.to <= MaxBlock
  /\ done_blocks' = IF moved > 0 THEN done_blocks
                    ELSE done_blocks \cup (wanted.from .. wanted.to)
  /\ slips' = slips \cup Slip
  /\ interval' = NextInterval(block_range, interval)
  /\ IF Exhausted(interval')
     THEN phase' = "done" /\ UNCHANGED <<wanted, made, moved>>
     ELSE Yield
  /\ UNCHANGED block_range

\* retry() of the interval in hand.  It goes by the step size of the moment, which
\* is that of the interval only before the first retry() and record_time().
Retry ==
  /\ phase = "out"
  /\ moved < MaxBack
  /\ interval' = RetryInterval(block_range, interval)
  /\ moved' = moved + block_range.step_size
  /\ block_range' = [block_range EXCEPT !.step_size = HalvedSize(block_range, MinSize)]
  /\ UNCHANGED <<phase, wanted, made, slips, done_blocks>>

RecordTime ==
  /\ phase # "done"
  /\ \E size \in TimedSizes(block_range, MinSize, MaxSize) :
       block_range' = [block_range EXCEPT !.step_size = size]
  /\ UNCHANGED <<interval, phase, wanted, made, moved, slips, done_blocks>>

Next == Begin \/ Advance \/ Retry \/ RecordTime

Spec == Init /\ [][Next]_vars

-----------------------------------------------------------------------------
\* Types; in particular the step size stays between min_size and max_size.
TypeOK ==
  /\ block_range \in Arguments
  /\ block_range.reverse => block_range.to_block # Open
  /\ interval \in [from : Int, to : Int]
  /\ wanted \in [from : Int, to : Int]
  /\ phase \in {"new", "out", "done"}
  /\ made \in MinSize .. MaxSize
  /\ moved \in Nat
  /\ slips \subseteq {"short", "long"}
  /\ done_blocks \in SUBSET Int

Endless == ~block_range.reverse /\ block_range.to_block = Open

\* A range that is open at the top leaves a block out only when retry() came after a
\* record_time() that had made the step shorter than the failed interval; and it
\* repeats a completed block, or ends at all, only when retry() went back further
\* than that interval: called twice for it, or after the step had grown.
Contiguous ==
  Endless /\ phase # "new" =>
    /\ "short" \notin slips => block_range.from_block .. (wanted.from - 1) \subseteq done_blocks
    /\ "long" \notin slips => phase # "done" /\ \A b \in done_blocks : b < wanted.from

\* A reverse range that runs to its end leaves no block of the range out, unless a
\* retry() came after a record_time() that had made the step shorter.
ReverseComplete ==
  block_range.reverse /\ phase = "done" /\ "short" \notin slips =>
    (block_range.from_block .. block_range.to_block) \subseteq done_blocks

\* A reverse range completes no block twice, unless a retry() went back further than
\* the failed interval was long: the interval in hand ends below every completed block.
ReverseDisjoint ==
  block_range.reverse /\ phase = "out" /\ "long" \notin slips =>
    \A b \in done_blocks : wanted.to < b
=============================================================================
