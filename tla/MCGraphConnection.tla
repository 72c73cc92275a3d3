------------------------- MODULE MCGraphConnection -------------------------
(***************************************************************************)
(* Instances of GraphConnection for TLC.                                   *)
(***************************************************************************)
EXTENDS GraphConnection, TLC

CONSTANTS q1, q2, a1, a2, s1, s2, s3

MCOwner == s1 :> a1 @@ s2 :> a2 @@ s3 :> a1
=============================================================================
