-------------------------------- MODULE Bus ---------------------------------
(***************************************************************************)
(* The events that PeeringService, DownloadService and DatabaseService      *)
(* exchange over the service bus (sarafan/events.py).  The bus belongs to   *)
(* the core_service library: emit() appends to the queue of every listener  *)
(* of the event's class, and a listener handles its queue in order.  An     *)
(* event nobody listens to (DiscoveryFailed) leaves a trace in `answers`    *)
(* only.                                                                    *)
(***************************************************************************)
EXTENDS Integers, Sequences

CONSTANTS Magnets   \* magnets of publications

VARIABLES
  requests,   \* DiscoveryRequests for PeeringService
  found,      \* DiscoveryFinished events for DownloadService
  store_q,    \* Peer events for DatabaseService
  known_q,    \* Peer events for PeeringService
  answers     \* history: how often each request was answered, by request id

busVars == <<requests, found, store_q, known_q, answers>>

BusInit ==
  /\ requests = <<>>
  /\ found = <<>>
  /\ store_q = <<>>
  /\ known_q = <<>>
  /\ answers = <<>>

\* emit(DiscoveryRequest(publication, state)); state is the set of peer objects
\* visited so far.  The id is only there to tell requests apart.
EmitRequest(magnet, visited) ==
  /\ answers' = Append(answers, [finished |-> 0, failed |-> 0])
  /\ requests' = Append(requests,
       [id |-> Len(answers) + 1, magnet |-> magnet, visited |-> visited])

\* emit(peer)
EmitPeer(i) ==
  /\ store_q' = Append(store_q, i)
  /\ known_q' = Append(known_q, i)
=============================================================================
