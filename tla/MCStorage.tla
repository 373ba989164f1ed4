----------------------------- MODULE MCStorage ------------------------------
(***************************************************************************)
(* Instances of Storage.  Magnets, calls, numbers and file identities are   *)
(* interchangeable.                                                         *)
(***************************************************************************)
EXTENDS Storage, TLC

CONSTANTS m1, m2, c1, c2, s1, s2, f1, f2, f3

Interchangeable ==
  Permutations({m1, m2}) \cup Permutations({c1, c2}) \cup Permutations({s1, s2})
    \cup Permutations({f1, f2, f3})
=============================================================================
