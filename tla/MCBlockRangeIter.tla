-------------------------- MODULE MCBlockRangeIter --------------------------
(***************************************************************************)
(* An instance of BlockRangeIter with four ranges: one open at the top, one *)
(* that walks down to block 0, one that walks down past its lower end,      *)
(* which lies inside its second step, and one shorter than the first step,  *)
(* as that of a node on a young chain.                                      *)
(***************************************************************************)
EXTENDS BlockRangeIter

MCRanges ==
  { BlockRangeOf(2, Open, 4, FALSE), BlockRangeOf(0, 7, 4, TRUE), BlockRangeOf(3, 8, 4, TRUE),
    BlockRangeOf(0, 2, 4, TRUE) }
=============================================================================
