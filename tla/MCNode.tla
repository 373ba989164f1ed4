------------------------------- MODULE MCNode -------------------------------
(***************************************************************************)
(* Instances of Node.                                                       *)
(***************************************************************************)
EXTENDS Node, TLC

CONSTANTS s1, s2, s3, m1

MCMinExp == -5
MCDistance == [m \in {m1} |-> [s \in Sids |-> (s1 :> 1 @@ s2 :> 2 @@ s3 :> 3)[s]]]

\* A peer tells of nobody, or of the second one.
MCNoNear == { <<>> }
MCNear == { <<>>, <<[sid |-> s2, exp |-> -1]>> }
=============================================================================
