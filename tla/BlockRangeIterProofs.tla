------------------------ MODULE BlockRangeIterProofs ------------------------
(***************************************************************************)
(* Proofs about BlockRangeIter: the step size keeps to its limits for every *)
(* use of the iterator; and, for every sequence of retries and measured     *)
(* times, blocks are left out only by a retry() that went back less than    *)
(* the failed interval, and repeated only by one that went back further.    *)
(***************************************************************************)
EXTENDS BlockRangeIter, TLAPS

-----------------------------------------------------------------------------
(* Types.                                                                   *)

\* retry() keeps the step size between min_size and max_size.
LEMMA HalvedSizeBounds ==
  ASSUME NEW r, r.step_size \in MinSize .. MaxSize
  PROVE  HalvedSize(r, MinSize) \in MinSize .. MaxSize
<1> USE RangeAssumption
<1>1. r.step_size \div 2 \in Int /\ r.step_size \div 2 <= r.step_size
  BY SMT
<1> QED
  BY <1>1 DEF HalvedSize

\* So does record_time(), whatever time it is told.
LEMMA TimedSizesBounds ==
  ASSUME NEW r, r.step_size \in MinSize .. MaxSize
  PROVE  TimedSizes(r, MinSize, MaxSize) \subseteq MinSize .. MaxSize
BY RangeAssumption DEF TimedSizes

\* What __iter__ and retry() compute is an interval of integers.
LEMMA IntervalTypes ==
  ASSUME TypeOK
  PROVE  /\ FirstInterval(block_range) \in [from : Int, to : Int]
         /\ NextInterval(block_range, interval) \in [from : Int, to : Int]
         /\ RetryInterval(block_range, interval) \in [from : Int, to : Int]
<1> USE RangeAssumption DEF TypeOK, Arguments, Interval, Step, Open
<1>1. FirstInterval(block_range) \in [from : Int, to : Int]
  BY DEF FirstInterval
<1>2. NextInterval(block_range, interval) \in [from : Int, to : Int]
  BY DEF NextInterval
<1>3. RetryInterval(block_range, interval) \in [from : Int, to : Int]
  BY DEF RetryInterval
<1> QED
  BY <1>1, <1>2, <1>3

\* The step size never leaves the limits given to __init__, and the attributes
\* keep their types, in both directions and for every sequence of calls.
THEOREM TypeCorrect == Spec => []TypeOK
<1>1. Init => TypeOK
  BY RangeAssumption DEF Init, TypeOK, Arguments, Interval
<1>2. TypeOK /\ [Next]_vars => TypeOK'
  <2> SUFFICES ASSUME TypeOK, [Next]_vars PROVE TypeOK'
    OBVIOUS
  <2>0. /\ block_range.step_size \in MinSize .. MaxSize
        /\ block_range.step_size \in Nat
        /\ \A size : [block_range EXCEPT !.step_size = size].reverse = block_range.reverse
        /\ \A size : [block_range EXCEPT !.step_size = size].to_block = block_range.to_block
    BY RangeAssumption DEF TypeOK, Arguments
  <2>1. CASE Begin
    BY <2>0, <2>1, IntervalTypes DEF Begin, Yield, TypeOK
  <2>2. CASE Advance
    <3>1. wanted.from .. wanted.to \in SUBSET Int
      BY DEF TypeOK
    <3> QED
      BY <2>0, <2>2, <3>1, IntervalTypes DEF Advance, Yield, Slip, TypeOK
  <2>3. CASE Retry
    <3>1. HalvedSize(block_range, MinSize) \in MinSize .. MaxSize
      BY <2>0, HalvedSizeBounds
    <3>2. block_range' \in Arguments
      BY <2>3, <3>1 DEF Retry, TypeOK, Arguments
    <3>3. moved' \in Nat
      BY <2>0, <2>3 DEF Retry, TypeOK
    <3> QED
      BY <2>0, <2>3, <3>2, <3>3, IntervalTypes DEF Retry, TypeOK
  <2>4. CASE RecordTime
    <3>1. PICK size \in TimedSizes(block_range, MinSize, MaxSize) :
            block_range' = [block_range EXCEPT !.step_size = size]
      BY <2>4 DEF RecordTime
    <3>2. size \in MinSize .. MaxSize
      BY <2>0, <3>1, TimedSizesBounds
    <3>3. block_range' \in Arguments
      BY <3>1, <3>2 DEF TypeOK, Arguments
    <3> QED
      BY <2>0, <2>4, <3>1, <3>3 DEF RecordTime, TypeOK
  <2>5. CASE UNCHANGED vars
    BY <2>5 DEF vars, TypeOK
  <2> QED
    BY <2>1, <2>2, <2>3, <2>4, <2>5 DEF Next
<1> QED
  BY <1>1, <1>2, PTL DEF Spec

\* The direction and the ends of a range never change, nor does the size of a step
\* except by retry() and record_time().
LEMMA RangeFixed ==
  ASSUME TypeOK, [Next]_vars
  PROVE  /\ block_range'.from_block = block_range.from_block
         /\ block_range'.to_block = block_range.to_block
         /\ block_range'.reverse = block_range.reverse
BY DEF Next, vars, Begin, Advance, Retry, RecordTime, TypeOK, Arguments

-----------------------------------------------------------------------------
(* The forward direction.                                                   *)

\* The iterator's interval is the one the consumer has in hand, moved back by what
\* its retries went back; it was made as long as the step size of then.
Cursor ==
  Endless =>
    /\ phase = "new" => done_blocks = {} /\ slips = {}
    /\ phase = "out" => /\ interval = Interval(wanted.from - moved, wanted.to - moved)
                        /\ wanted.to = wanted.from + made - 1
    /\ phase \in {"out", "done"} /\ "long" \notin slips => wanted.from >= block_range.from_block

IInv == TypeOK /\ Cursor /\ Contiguous

\* A step of the iterator preserves the forward invariant.
LEMMA ForwardStep == IInv /\ TypeOK' /\ [Next]_vars => IInv'
<1> SUFFICES ASSUME IInv, TypeOK', [Next]_vars, Endless' PROVE (Cursor /\ Contiguous)'
  BY DEF IInv, Cursor, Contiguous
<1> DEFINE From == block_range.from_block
<1>0. /\ block_range.step_size \in Nat /\ block_range.step_size >= 1
      /\ made \in Nat /\ made >= 1 /\ moved \in Nat
      /\ block_range'.from_block = From
      /\ From \in Nat
      /\ ~block_range.reverse /\ block_range.to_block = Open
      /\ interval \in [from : Int, to : Int] /\ wanted \in [from : Int, to : Int]
  BY RangeFixed, RangeAssumption DEF IInv, TypeOK, Arguments, Endless
<1>a. Endless /\ Cursor /\ Contiguous
  BY <1>0 DEF IInv, Endless
<1>1. CASE Begin
  <2>1. interval' = Interval(From, From + block_range.step_size - 1)
    BY <1>0, <1>1 DEF Begin, FirstInterval, Step, Open, Interval
  <2>2. wanted'.from = From /\ wanted'.to = From + block_range.step_size - 1
    BY <2>1, <1>1 DEF Begin, Yield, Interval
  <2>3. /\ done_blocks' = {} /\ phase' = "out" /\ slips' = {} /\ block_range' = block_range
        /\ moved' = 0 /\ made' = block_range.step_size
        /\ interval' = Interval(wanted'.from - moved', wanted'.to - moved')
    BY <1>0, <1>1, <1>a, <2>1, <2>2 DEF Begin, Yield, Cursor, Interval
  <2>4. From .. (wanted'.from - 1) = {}
    BY <1>0, <2>2
  <2> QED
    BY <1>0, <2>2, <2>3, <2>4 DEF Cursor, Contiguous
<1>2. CASE Advance
  <2> DEFINE next == wanted.to - moved + 1
  <2>0. /\ block_range' = block_range /\ phase = "out"
        /\ slips' = slips \cup Slip
    BY <1>2 DEF Advance
  <2>1. /\ interval.to = wanted.to - moved
        /\ wanted.to = wanted.from + made - 1
    BY <1>0, <1>a, <2>0 DEF Cursor, Interval
  <2>2. /\ interval'.from = next
        /\ interval'.to = next + block_range.step_size - 1
        /\ next \in Int
    BY <1>0, <1>2, <2>1 DEF Advance, NextInterval, Interval, Step
  <2>3. ("short" \notin slips' => moved = 0 \/ moved >= made)
        /\ ("long" \notin slips' => moved <= made)
    BY <1>0, <2>0 DEF Slip
  <2>4. "short" \notin slips' => From .. (next - 1) \subseteq done_blocks'
    <3> SUFFICES ASSUME "short" \notin slips', NEW b \in From .. (next - 1)
                 PROVE  b \in done_blocks'
      OBVIOUS
    <3>1. From .. (wanted.from - 1) \subseteq done_blocks
      BY <1>a, <2>0 DEF Contiguous
    <3>2. done_blocks' = IF moved > 0 THEN done_blocks
                         ELSE done_blocks \cup (wanted.from .. wanted.to)
      BY <1>2 DEF Advance
    <3>3. CASE moved > 0
      <4>1. b \in From .. (wanted.from - 1)
        BY <3>3, <2>1, <2>3, <1>0
      <4> QED
        BY <3>1, <3>2, <3>3, <4>1
    <3>4. CASE moved = 0
      <4>1. b \in From .. (wanted.from - 1) \/ b \in wanted.from .. wanted.to
        BY <3>4, <1>0
      <4> QED
        BY <3>1, <3>2, <3>4, <4>1, <1>0
    <3> QED
      BY <3>3, <3>4, <1>0
  <2>5. "long" \notin slips' => next >= From /\ \A b \in done_blocks' : b < next
    <3> SUFFICES ASSUME "long" \notin slips'
                 PROVE  next >= From /\ \A b \in done_blocks' : b < next
      OBVIOUS
    <3>1. /\ wanted.from >= From
          /\ \A b \in done_blocks : b \in Int /\ b < wanted.from
      BY <1>a, <2>0 DEF Cursor, Contiguous, IInv, TypeOK
    <3>2. next >= wanted.from
      BY <1>0, <2>1, <2>3
    <3>3. \A b \in done_blocks' : b < next
      <4>1. CASE moved > 0
        BY <1>2, <3>1, <3>2, <4>1, <1>0 DEF Advance
      <4>2. CASE moved = 0
        <5>1. next = wanted.to + 1
          BY <4>2, <1>0
        <5>2. done_blocks' = done_blocks \cup (wanted.from .. wanted.to)
          BY <1>2, <4>2 DEF Advance
        <5> QED
          BY <3>1, <3>2, <5>1, <5>2, <1>0
      <4> QED
        BY <4>1, <4>2, <1>0
    <3> QED
      BY <3>1, <3>2, <3>3, <1>0
  <2>6. CASE Exhausted(interval')
    <3>1. phase' = "done" /\ wanted' = wanted
      BY <1>2, <2>6 DEF Advance
    <3>2. "long" \in slips'
      BY <1>0, <2>2, <2>5, <2>6 DEF Exhausted
    <3>3. "short" \notin slips' => From .. (wanted'.from - 1) \subseteq done_blocks'
      <4>1. done_blocks \subseteq done_blocks' /\ slips \subseteq slips'
        BY <1>2 DEF Advance
      <4> QED
        BY <1>a, <2>0, <3>1, <4>1 DEF Contiguous
    <3> QED
      BY <1>0, <2>0, <3>1, <3>2, <3>3 DEF Cursor, Contiguous
  <2>7. CASE ~Exhausted(interval')
    <3>1. /\ phase' = "out" /\ wanted' = interval' /\ moved' = 0
          /\ made' = block_range.step_size
      BY <1>2, <2>7 DEF Advance, Yield
    <3>2. interval' = Interval(wanted'.from - moved', wanted'.to - moved')
      <4>1. interval' \in [from : Int, to : Int]
        BY DEF TypeOK
      <4> QED
        BY <3>1, <4>1 DEF Interval
    <3>3. wanted'.from = next /\ wanted'.to = wanted'.from + made' - 1
      BY <1>0, <2>2, <3>1
    <3>4. phase' # "done" /\ phase' # "new"
      BY <3>1
    <3>5. Cursor'
      BY <1>0, <2>0, <2>5, <3>1, <3>2, <3>3, <3>4 DEF Cursor
    <3>6. Contiguous'
      BY <1>0, <2>0, <2>4, <2>5, <3>3, <3>4 DEF Contiguous
    <3> QED
      BY <3>5, <3>6
  <2> QED
    BY <2>6, <2>7
<1>3. CASE Retry
  <2>1. /\ phase = "out" /\ phase' = phase /\ wanted' = wanted /\ made' = made
        /\ slips' = slips /\ done_blocks' = done_blocks
        /\ moved' = moved + block_range.step_size
    BY <1>3 DEF Retry
  <2>2. interval' = Interval(wanted.from - moved', wanted.to - moved')
    BY <1>0, <1>3, <1>a, <2>1 DEF Retry, RetryInterval, Interval, Step, Cursor
  <2> QED
    BY <1>0, <2>1, <2>2, <1>a DEF Cursor, Contiguous
<1>4. CASE RecordTime
  BY <1>4, <1>0, <1>a DEF RecordTime, Cursor, Contiguous
<1>5. CASE UNCHANGED vars
  BY <1>5, <1>a DEF vars, Cursor, Contiguous
<1> QED
  BY <1>1, <1>2, <1>3, <1>4, <1>5 DEF Next

\* A range open at the top leaves a block out only after a retry() that fell short,
\* and repeats one, or ends, only after a retry() that went too far: for every start,
\* every step size and every sequence of retries and measured times.
THEOREM ForwardContiguous == Spec => []Contiguous
<1>1. Init => IInv
  BY RangeAssumption DEF Init, IInv, TypeOK, Arguments, Interval, Cursor, Contiguous
<1>2. IInv => Contiguous
  BY DEF IInv
<1> QED
  BY <1>1, <1>2, ForwardStep, TypeCorrect, PTL DEF Spec

-----------------------------------------------------------------------------
(* The reverse direction.                                                   *)

\* As Cursor.  The blocks of the range above the interval in hand are completed.  Only
\* the first interval may be shorter than the step it was made with, cut off at
\* from_block.
ReverseCursor ==
  block_range.reverse =>
    /\ phase = "new" => done_blocks = {}
    /\ phase = "out" =>
         /\ interval = Interval(wanted.from + moved, wanted.to + moved)
         /\ wanted.to <= wanted.from + made - 1
         /\ wanted.to = wanted.from + made - 1 \/ done_blocks = {}
         /\ "short" \notin slips =>
              \A b \in block_range.from_block .. block_range.to_block :
                b \in done_blocks \/ b <= wanted.to

RInv == TypeOK /\ ReverseCursor /\ ReverseDisjoint /\ ReverseComplete

\* A step of the iterator preserves the reverse invariant.
LEMMA ReverseStep == RInv /\ TypeOK' /\ [Next]_vars => RInv'
<1> SUFFICES ASSUME RInv, TypeOK', [Next]_vars, block_range'.reverse
             PROVE  (ReverseCursor /\ ReverseDisjoint /\ ReverseComplete)'
  BY DEF RInv, ReverseCursor, ReverseDisjoint, ReverseComplete
<1> DEFINE From == block_range.from_block
           To == block_range.to_block
<1>0. /\ block_range.step_size \in Nat /\ block_range.step_size >= 1
      /\ made \in Nat /\ made >= 1 /\ moved \in Nat
      /\ block_range'.from_block = From /\ block_range'.to_block = To
      /\ From \in Nat /\ To \in Nat
      /\ block_range.reverse
      /\ interval \in [from : Int, to : Int] /\ wanted \in [from : Int, to : Int]
      /\ done_blocks \in SUBSET Int
  <2>1. TypeOK
    BY DEF RInv
  <2>2. /\ block_range'.from_block = From /\ block_range'.to_block = To
        /\ block_range.reverse
    BY <2>1, RangeFixed
  <2>3. block_range.step_size \in MinSize .. MaxSize /\ From \in Nat /\ To \in Nat
    BY <2>1, <2>2 DEF TypeOK, Arguments
  <2> QED
    BY <2>1, <2>2, <2>3, RangeAssumption DEF TypeOK
<1>a. ReverseCursor /\ ReverseDisjoint /\ ReverseComplete
  BY DEF RInv
<1>b. interval' \in [from : Int, to : Int]
  BY DEF TypeOK
<1>1. CASE Begin
  <2>1. /\ interval'.to = To
        /\ interval'.to <= interval'.from + block_range.step_size - 1
        /\ interval'.from \in Int
    BY <1>0, <1>1 DEF Begin, FirstInterval, Step, Interval
  <2>2. /\ phase' = "out" /\ wanted' = interval' /\ block_range' = block_range
        /\ done_blocks' = {} /\ moved' = 0 /\ made' = block_range.step_size
    BY <1>0, <1>1, <1>a DEF Begin, Yield, ReverseCursor
  <2>3. \A b \in From .. To : b <= wanted'.to
    BY <1>0, <2>1, <2>2
  <2>4. interval' = Interval(wanted'.from + moved', wanted'.to + moved')
    BY <1>b, <2>2 DEF Interval
  <2> QED
    BY <1>0, <2>1, <2>2, <2>3, <2>4 DEF ReverseCursor, ReverseDisjoint, ReverseComplete
<1>2. CASE Advance
  <2> DEFINE top == wanted.from + moved - 1
  <2>0. /\ block_range' = block_range /\ phase = "out"
        /\ slips' = slips \cup Slip
        /\ top \in Int
    BY <1>0, <1>2 DEF Advance
  <2>1. /\ interval.from = wanted.from + moved
        /\ wanted.to <= wanted.from + made - 1
        /\ wanted.to = wanted.from + made - 1 \/ done_blocks = {}
    BY <1>0, <1>a, <2>0 DEF ReverseCursor, Interval
  <2>2. interval'.to = top /\ interval'.from = top - (block_range.step_size - 1)
    BY <1>0, <1>2, <2>1 DEF Advance, NextInterval, Interval, Step
  <2>3. /\ "short" \notin slips' => moved = 0 \/ moved >= made
        /\ "long" \notin slips' => moved <= made
    BY <1>0, <2>0 DEF Slip
  <2>4. /\ moved > 0 => done_blocks' = done_blocks
        /\ moved = 0 => done_blocks' = done_blocks \cup (wanted.from .. wanted.to)
    BY <1>2, <1>0 DEF Advance
  <2>5. "long" \notin slips' => \A b \in done_blocks' : top < b
    <3> SUFFICES ASSUME "long" \notin slips', NEW b \in done_blocks' PROVE top < b
      OBVIOUS
    <3>1. \A c \in done_blocks : wanted.to < c
      BY <1>0, <1>a, <2>0 DEF ReverseDisjoint
    <3>2. b \in done_blocks => top < b
      <4> SUFFICES ASSUME b \in done_blocks PROVE top < b
        OBVIOUS
      <4>1. wanted.to < b /\ b \in Int /\ wanted.to = wanted.from + made - 1
        BY <3>1, <2>1, <1>0
      <4> QED
        BY <4>1, <2>3, <1>0
    <3>3. moved = 0 /\ b \in wanted.from .. wanted.to => top < b
      BY <1>0
    <3> QED
      BY <3>2, <3>3, <2>4, <1>0
  <2>6. "short" \notin slips' => \A b \in From .. To : b \in done_blocks' \/ b <= top
    <3> SUFFICES ASSUME "short" \notin slips', NEW b \in From .. To
                 PROVE  b \in done_blocks' \/ b <= top
      OBVIOUS
    <3>1. b \in done_blocks \/ b <= wanted.to
      BY <1>0, <1>a, <2>0 DEF ReverseCursor
    <3>2. CASE moved = 0
      BY <3>1, <3>2, <2>4, <1>0
    <3>3. CASE moved > 0
      <4>1. wanted.to <= top
        BY <3>3, <2>1, <2>3, <1>0
      <4> QED
        BY <3>1, <3>3, <4>1, <2>4, <1>0
    <3> QED
      BY <3>2, <3>3, <1>0
  <2>7. CASE Exhausted(interval')
    <3>1. phase' = "done"
      BY <1>2, <2>7 DEF Advance
    <3>2. "short" \notin slips' => From .. To \subseteq done_blocks'
      BY <2>2, <2>6, <2>7, <1>0 DEF Exhausted
    <3> QED
      BY <1>0, <2>0, <3>1, <3>2 DEF ReverseCursor, ReverseDisjoint, ReverseComplete
  <2>8. CASE ~Exhausted(interval')
    <3>1. /\ phase' = "out" /\ wanted' = interval' /\ moved' = 0
          /\ made' = block_range.step_size
      BY <1>2, <2>8 DEF Advance, Yield
    <3>2. /\ wanted'.to = top
          /\ wanted'.to = wanted'.from + made' - 1
          /\ wanted'.to <= wanted'.from + made' - 1
      BY <3>1, <2>2, <1>0
    <3>3. interval' = Interval(wanted'.from + moved', wanted'.to + moved')
      BY <1>b, <3>1 DEF Interval
    <3>4. ReverseCursor'
      BY <1>0, <2>0, <2>6, <3>1, <3>2, <3>3 DEF ReverseCursor
    <3>5. ReverseDisjoint' /\ ReverseComplete'
      BY <2>5, <3>1, <3>2 DEF ReverseDisjoint, ReverseComplete
    <3> QED
      BY <3>4, <3>5
  <2> QED
    BY <2>7, <2>8
<1>3. CASE Retry
  <2>1. /\ phase = "out" /\ phase' = phase /\ wanted' = wanted /\ made' = made
        /\ slips' = slips /\ done_blocks' = done_blocks
        /\ moved' = moved + block_range.step_size
    BY <1>3 DEF Retry
  <2>2. interval' = Interval(wanted.from + moved', wanted.to + moved')
    BY <1>0, <1>3, <1>a, <2>1 DEF Retry, RetryInterval, Interval, Step, ReverseCursor
  <2> QED
    BY <1>0, <2>1, <2>2, <1>a DEF ReverseCursor, ReverseDisjoint, ReverseComplete
<1>4. CASE RecordTime
  BY <1>4, <1>0, <1>a DEF RecordTime, ReverseCursor, ReverseDisjoint, ReverseComplete
<1>5. CASE UNCHANGED vars
  BY <1>5, <1>a DEF vars, ReverseCursor, ReverseDisjoint, ReverseComplete
<1> QED
  BY <1>1, <1>2, <1>3, <1>4, <1>5 DEF Next

\* The reverse invariant holds throughout.
LEMMA ReverseInvariant == Spec => []RInv
<1>1. Init => RInv
  BY RangeAssumption
  DEF Init, RInv, TypeOK, Arguments, Interval, ReverseCursor, ReverseDisjoint, ReverseComplete
<1> QED
  BY <1>1, ReverseStep, TypeCorrect, PTL DEF Spec

\* A reverse range yields a block that was completed before only after a retry() that
\* went back too far.
THEOREM ReverseNoOverlap == Spec => []ReverseDisjoint
<1>1. RInv => ReverseDisjoint
  BY DEF RInv
<1> QED
  BY <1>1, ReverseInvariant, PTL

\* A reverse range that has come to its end has completed every block from
\* from_block to to_block, but for a retry() that fell short.
THEOREM ReverseNoGap == Spec => []ReverseComplete
<1>1. RInv => ReverseComplete
  BY DEF RInv
<1> QED
  BY <1>1, ReverseInvariant, PTL
=============================================================================
