---------------------------- MODULE MCSetupGate ----------------------------
(***************************************************************************)
(* An instance of SetupGate for TLC: requests overlap in threes, and every *)
(* part but the settings can be added and removed while they do.           *)
(***************************************************************************)
EXTENDS SetupGate, TLC

CONSTANTS d1, m1, r1, r2, r3
=============================================================================
