--------------------------- MODULE HiddenService ----------------------------
(***************************************************************************)
(* HiddenServiceController (sarafan/onion/controller.py) in the life of a   *)
(* node: cli.py starts the application and, when it is interrupted or an    *)
(* exception ends it, stops it; announce_peer waits for the address.        *)
(*                                                                          *)
(* Ctrl+C ends run_until_complete(app.start()), not the coroutine: while    *)
(* app.stop() runs, start() may wake from its sleep.  The service is        *)
(* detached, so Tor keeps it until it is removed or Tor itself ends.        *)
(* Addresses are numbered by the process that made them.                    *)
(***************************************************************************)
EXTENDS Naturals

CONSTANTS
  MaxRuns   \* bound: processes started one after the other

HiddenServiceAssumption == MaxRuns \in Nat

VARIABLES
  start,       \* where start() stands, or "off" without a process
  stopped,     \* has stop() run?
  controller,  \* the connection to Tor's control port: "open", "closed" or "lost"
  service_id,  \* the attribute and the result of the future, or NoAddress
  asked,       \* get_service_id() of announce_peer: "out", "waiting", "answered"
  run,         \* number of the last process
  onions,      \* external: the services of this node that Tor has
  killed,      \* history: the processes that died without a call of stop()
  cut          \* history: those whose connection to Tor broke while Tor went on

vars == <<start, stopped, controller, service_id, asked, run, onions, killed, cut>>

NoAddress == 0

Init ==
  /\ start = "off" /\ stopped = FALSE /\ controller = "closed"
  /\ service_id = NoAddress /\ asked = "out"
  /\ run = 0 /\ onions = {} /\ killed = {} /\ cut = {}

\* __init__ connects to Tor; start() runs up to its sleep.
Start ==
  /\ start = "off"
  /\ run < MaxRuns
  /\ run' = run + 1
  /\ start' = "asleep" /\ stopped' = FALSE /\ controller' = "open"
  /\ service_id' = NoAddress /\ asked' = "out"
  /\ UNCHANGED <<onions, killed, cut>>

\* start() wakes, and Tor makes the service.
Create ==
  /\ start = "asleep"
  /\ controller = "open"
  /\ start' = "done"
  /\ onions' = onions \cup {run}
  /\ service_id' = run
  /\ UNCHANGED <<stopped, controller, asked, run, killed, cut>>

\* Or it raises: Tor refuses, or the connection is closed or lost.
CreateFails ==
  /\ start = "asleep"
  /\ start' = "raised"
  /\ UNCHANGED <<stopped, controller, service_id, asked, run, onions, killed, cut>>

\* Or Tor makes the service, and its answer does not arrive.
CreateUnheard ==
  /\ start = "asleep"
  /\ controller = "open"
  /\ start' = "raised"
  /\ onions' = onions \cup {run}
  /\ controller' = "lost"
  /\ cut' = cut \cup {run}
  /\ UNCHANGED <<stopped, service_id, asked, run, killed>>

GetServiceId ==
  /\ start # "off"
  /\ \/ asked = "out" /\ asked' = IF service_id = NoAddress THEN "waiting" ELSE "answered"
     \/ asked = "waiting" /\ service_id # NoAddress /\ asked' = "answered"
  /\ UNCHANGED <<start, stopped, controller, service_id, run, onions, killed, cut>>

\* Mutant: the connection is closed only if there was a service to remove.
Closed_IfCreated ==
  IF service_id # NoAddress THEN "closed" ELSE controller

\* close() is not reached when remove_ephemeral_hidden_service raises.
Closed ==
  IF service_id # NoAddress /\ controller = "lost" THEN controller ELSE "closed"

\* cli() stops the application, on Ctrl+C or because its start raised.  A service is
\* removed as long as the connection stands.
Stop ==
  /\ start # "off" /\ ~stopped
  /\ stopped' = TRUE
  /\ onions' = IF controller = "lost" THEN onions ELSE onions \ {service_id}
  /\ controller' = Closed
  /\ UNCHANGED <<start, service_id, asked, run, killed, cut>>

\* exit()
Exit ==
  /\ start # "off" /\ stopped
  /\ start' = "off" /\ asked' = "out" /\ controller' = "closed"
  /\ UNCHANGED <<stopped, service_id, run, onions, killed, cut>>

Kill ==
  /\ start # "off" /\ ~stopped
  /\ start' = "off" /\ asked' = "out" /\ controller' = "closed"
  /\ killed' = killed \cup {run}
  /\ UNCHANGED <<stopped, service_id, run, onions, cut>>

\* Tor ends, and another takes its place: its detached services are gone.
TorRestarts ==
  /\ onions' = {}
  /\ controller' = IF controller = "open" THEN "lost" ELSE controller
  /\ UNCHANGED <<start, stopped, service_id, asked, run, killed, cut>>

\* The connection alone breaks.
ConnectionLost ==
  /\ controller = "open"
  /\ controller' = "lost"
  /\ cut' = cut \cup {run}
  /\ UNCHANGED <<start, stopped, service_id, asked, run, onions, killed>>

Next ==
  \/ Start \/ Create \/ CreateFails \/ CreateUnheard \/ GetServiceId
  \/ Stop \/ Exit \/ Kill \/ TorRestarts \/ ConnectionLost

Spec == Init /\ [][Next]_vars

-----------------------------------------------------------------------------
\* Tor keeps a service of this node only for the process that runs, for those that
\* were killed, and for those that lost their connection to it before they could
\* remove the service.  A node stopped in the middle of its start leaves none behind,
\* although start() may wake after stop() looked for a service to remove.
StopRemoves ==
  \A r \in onions : r \in killed \cup cut \/ (r = run /\ start = "done" /\ ~stopped)

\* The address a node gave out leads to it until it is stopped or Tor restarts, and
\* it gives out one address only.
AddressLives ==
  /\ start = "done" /\ ~stopped /\ controller = "open" => service_id = run /\ run \in onions
  /\ asked = "answered" => service_id = run

\* What Tor has of a node, and what the node says of itself, agree.
TorAgrees == StopRemoves /\ AddressLives
=============================================================================
