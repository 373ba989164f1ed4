---------------------------- MODULE ContentStore ----------------------------
(***************************************************************************)
(* What the rest of a node counts on from its storage: under a magnet there *)
(* is nothing or the whole content, at every moment, and once it is there   *)
(* it stays.  A call of store() either puts it there or changes nothing,    *)
(* and says "stored" only if it did.  Calls that get in each other's way    *)
(* end that for their magnet, and for no other.                             *)
(***************************************************************************)
CONSTANTS
  Magnets,
  Stores,   \* the calls of store()
  Absent,   \* nothing under a magnet
  Whole,    \* the whole content
  Any       \* nobody knows what

VARIABLES
  contents, \* what is served under each magnet
  answer    \* the outcome of each call, as far as it is known

vars == <<contents, answer>>

Init ==
  /\ contents = [m \in Magnets |-> Absent]
  /\ answer = [c \in Stores |-> "none"]

Call(c) ==
  /\ answer' = [answer EXCEPT ![c] = "none"]
  /\ UNCHANGED contents

\* A call that gets in the way of another one.
Clash(c, m) ==
  /\ answer' = [answer EXCEPT ![c] = "none"]
  /\ contents' = [contents EXCEPT ![m] = Any]

Put(c, m) ==
  /\ contents' = [contents EXCEPT ![m] = IF @ = Any THEN Any ELSE Whole]
  /\ \E a \in {"stored", "error"} : answer' = [answer EXCEPT ![c] = a]

Refuse(c) ==
  /\ \E a \in {"error", "invalid", "aborted"} : answer' = [answer EXCEPT ![c] = a]
  /\ UNCHANGED contents

Restart ==
  /\ answer' = [c \in Stores |-> "none"]
  /\ UNCHANGED contents

Next ==
  \/ \E c \in Stores : Call(c) \/ Refuse(c) \/ \E m \in Magnets : Put(c, m) \/ Clash(c, m)
  \/ Restart

Spec == Init /\ [][Next]_vars
=============================================================================
