--------------------------- MODULE MCEventService ---------------------------
(***************************************************************************)
(* Instances of EventService.                                               *)
(***************************************************************************)
EXTENDS EventServiceProps

MCOpen == Open

\* No log, one log, three logs of two transactions.
MCShapes == { <<>>, <<1>>, <<1, 1, 2>> }
=============================================================================
