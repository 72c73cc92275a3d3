-------------------------- MODULE MCRetentionPurge --------------------------
(***************************************************************************)
(* Four reports of two domains, two of them of the same day, and a batch   *)
(* of two, so that a run needs several batches.                            *)
(***************************************************************************)
EXTENDS RetentionPurge, TLC

CONSTANTS r1, r2, r3, r4, a, b

MCReports == {r1, r2, r3, r4}
MCDomains == {a, b}
MCDomainOf == r1 :> a @@ r2 :> b @@ r3 :> a @@ r4 :> a
MCEnd == r1 :> 0 @@ r2 :> 0 @@ r3 :> 1 @@ r4 :> 2
MCWindows == {1, 3}
=============================================================================
