----------------------------- MODULE BlockRange -----------------------------
(***************************************************************************)
(* The BlockRange iterator of sarafan/ethereum/block_range.py: it yields    *)
(* the block intervals that ContractEventService asks the Ethereum node     *)
(* about.  An iterator object is a record of the attributes its methods     *)
(* read; an interval is the pair of attributes _from and _to.               *)
(***************************************************************************)
EXTENDS Integers

\* to_block = None: the range is open at the top.  Block numbers are naturals.
Open == -1

BlockRangeOf(from_block, to_block, step_size, reverse) ==
  [from_block |-> from_block, to_block |-> to_block,
   step_size |-> step_size, reverse |-> reverse]

Interval(from, to) == [from |-> from, to |-> to]

\* The signed distance from one end of an interval to the other.
Step(r) == IF r.reverse THEN -(r.step_size - 1) ELSE r.step_size - 1

\* The interval __iter__ sets up before its loop.  `if self.to_block` is false
\* for None and for block 0 alike, so a range that ends at block 0 is open.
FirstInterval(r) ==
  IF r.reverse
  THEN LET from == r.to_block + Step(r)
       IN Interval(IF from < r.from_block THEN r.from_block ELSE from, r.to_block)
  ELSE LET to == r.from_block + Step(r)
       IN Interval(r.from_block,
                   IF r.to_block \notin {Open, 0} /\ to > r.to_block
                   THEN r.to_block ELSE to)

\* Mutant: an interval starts with the last block of the one before.
NextInterval_SharedBlock(r, i) ==
  IF r.reverse THEN Interval(i.from + Step(r), i.from) ELSE Interval(i.to, i.to + Step(r))

\* The interval after i.  Neither bound of the range is consulted again.
NextInterval(r, i) ==
  IF r.reverse
  THEN Interval(i.from - 1 + Step(r), i.from - 1)
  ELSE Interval(i.to + 1, i.to + 1 + Step(r))

\* The generator returns when the new interval ends below block 0.
Exhausted(i) == i.to < 0

\* Mutant: the one is added for both directions.
RetryInterval_OneSign(r, i) ==
  LET back == Step(r) + 1 IN Interval(i.from - back, i.to - back)

\* retry(): move the interval back by what the step size says it was long.
RetryInterval(r, i) ==
  LET back == IF r.reverse THEN Step(r) - 1 ELSE Step(r) + 1
  IN Interval(i.from - back, i.to - back)

\* retry(): the step size is halved, down to min_size.
HalvedSize(r, min_size) ==
  LET half == r.step_size \div 2 IN IF half < min_size THEN min_size ELSE half

\* record_time(): ceil(step_size * ratio), ratio being target_time over the
\* measured time clamped to [0.5, 2], then clamped to [min_size, max_size].
\* The measured time is arbitrary, so every value in between is possible.
TimedSizes(r, min_size, max_size) ==
  { LET low == IF s < min_size THEN min_size ELSE s
    IN IF low > max_size THEN max_size ELSE low :
      s \in ((r.step_size + 1) \div 2) .. (2 * r.step_size) }
=============================================================================
