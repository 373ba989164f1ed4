---------------------------- MODULE Distribution ----------------------------
(***************************************************************************)
(* The distribution of a published bundle: PeeringService.distribute and    *)
(* the listener distribute_task (sarafan/peering/service.py), next to       *)
(* another coroutine of the same event loop.                                *)
(*                                                                          *)
(* The listener's `while True` has no break.  Without peers it sleeps and   *)
(* looks again; with peers it looks again without suspending, so that the    *)
(* loop has no turn to give to anybody else.                                *)
(***************************************************************************)
EXTENDS Naturals, Sequences

CONSTANTS
  Magnets,
  MaxLooks   \* bound: the turns of the listener's loop that are counted

VARIABLES
  tasks,      \* DistributionTask events for the listener
  pc,         \* the listener: idle, looking (running), asleep, uploading
  looks,      \* turns of its loop in a row, up to MaxLooks
  usable,     \* is a usable peer in the book?
  uploaded,   \* magnets uploaded to a peer
  requested   \* history: magnets distribute() was called for

vars == <<tasks, pc, looks, usable, uploaded, requested>>

Init ==
  /\ tasks = <<>>
  /\ pc = "idle"
  /\ looks = 0
  /\ usable \in BOOLEAN
  /\ uploaded = {}
  /\ requested = {}

\* Somebody else runs only while the listener is suspended.
LoopFree == pc # "looking"

Distribute(m) ==
  /\ LoopFree
  /\ m \notin requested
  /\ requested' = requested \cup {m}
  /\ tasks' = Append(tasks, m)
  /\ UNCHANGED <<pc, looks, usable, uploaded>>

\* The first peer gets into the book.
PeerArrives ==
  /\ LoopFree
  /\ usable' = TRUE
  /\ UNCHANGED <<tasks, pc, looks, uploaded, requested>>

TakeTask ==
  /\ pc = "idle"
  /\ tasks # <<>>
  /\ pc' = "looking"
  /\ looks' = 0
  /\ UNCHANGED <<tasks, usable, uploaded, requested>>

\* A turn of the loop.
Look ==
  /\ pc = "looking"
  /\ IF usable
     THEN pc' = "looking" /\ looks' = (looks + 1) % MaxLooks
     ELSE pc' = "asleep" /\ looks' = 0
  /\ UNCHANGED <<tasks, usable, uploaded, requested>>

Wake ==
  /\ pc = "asleep"
  /\ pc' = "looking"
  /\ UNCHANGED <<tasks, looks, usable, uploaded, requested>>

\* What follows the loop: the bundle goes to up to ten peers.  It waits for a loop
\* that has no way out.
Upload ==
  /\ pc = "uploading"
  /\ uploaded' = uploaded \cup {Head(tasks)}
  /\ tasks' = Tail(tasks)
  /\ pc' = "idle"
  /\ UNCHANGED <<looks, usable, requested>>

Next ==
  \/ \E m \in Magnets : Distribute(m)
  \/ PeerArrives \/ TakeTask \/ Look \/ Wake \/ Upload

\* The listener is resumed whenever it can run; peers do arrive.
Spec ==
  /\ Init /\ [][Next]_vars
  /\ WF_vars(TakeTask) /\ WF_vars(Look) /\ WF_vars(Wake) /\ WF_vars(Upload)
  /\ SF_vars(PeerArrives)

-----------------------------------------------------------------------------
\* "Actually distribute bundle" (line 117): what distribute() was called for is
\* uploaded to a peer.
BundleDistributed == \A m \in Magnets : m \in requested ~> m \in uploaded
=============================================================================
