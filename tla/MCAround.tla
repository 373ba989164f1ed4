------------------------------ MODULE MCAround ------------------------------
(***************************************************************************)
(* Two processes on one database; three processes with a hidden service,    *)
(* one after the other; four nodes that tell of each other; and a client    *)
(* among three peers.                                                       *)
(***************************************************************************)
EXTENDS Around, TLC

CONSTANTS n1, n2, n3, n4, s1, s2, s3

\* Two nodes search; one, which only one of the others reads of, has the magnet; one
\* lets others down at any time.
MCRegistered == (n1 :> {n2, n3}) @@ (n2 :> {n3}) @@ (n3 :> {n1, n4}) @@ (n4 :> {})
MCDistance == (n1 :> 1) @@ (n2 :> 2) @@ (n3 :> 3) @@ (n4 :> 4)
MCMinExp == -5

\* The second nearest peer has the magnet, the farthest one pretends to.
MCPeerDistance == (s1 :> 1) @@ (s2 :> 2) @@ (s3 :> 3)
MCLowExp == -2
=============================================================================
