-------------------------- MODULE MCPeeringService --------------------------
(***************************************************************************)
(* Instances of PeeringService.                                             *)
(***************************************************************************)
EXTENDS PeeringService, TLC

CONSTANTS s1, s2, m1

MCMinExp == -5
MCDistance == [m \in {m1} |-> (s1 :> 1 @@ s2 :> 2)]

Record(s, k) == [sid |-> s, exp |-> k]

\* A peer tells of nobody, of one peer with a good rating, or of both.
MCNear == { <<>>, <<Record(s1, 1)>>, <<Record(s2, -1), Record(s1, -1)>> }
=============================================================================
