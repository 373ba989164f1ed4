----------------------------- MODULE EventFeed ------------------------------
(***************************************************************************)
(* What a subscriber of ContractEventService counts on: the events of the   *)
(* contract, in the order of the chain, each of them once and none left     *)
(* out.  An event is identified by its block and its index in the block.    *)
(***************************************************************************)
EXTENDS Integers, Sequences

VARIABLES
  mined,      \* the events on the chain
  delivered   \* the events the subscriber has been notified of, in order

vars == <<mined, delivered>>

Before(e, f) == e.block < f.block \/ (e.block = f.block /\ e.log < f.log)

Received == { delivered[i] : i \in DOMAIN delivered }

Outstanding == mined \ Received

Init == delivered = <<>>

\* The chain only grows, and only at its end.
Mine ==
  /\ mined \subseteq mined'
  /\ \A e \in mined, f \in mined' \ mined : Before(e, f)
  /\ UNCHANGED delivered

Deliver ==
  /\ \E e \in Outstanding :
       /\ \A f \in Outstanding \ {e} : Before(e, f)
       /\ delivered' = Append(delivered, e)
  /\ UNCHANGED mined

Next == Mine \/ Deliver

SafeSpec == Init /\ [][Next]_vars

Spec == SafeSpec /\ WF_vars(Deliver)
=============================================================================
