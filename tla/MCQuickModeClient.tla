----------------------- MODULE MCQuickModeClient -----------------------
(***************************************************************************)
(* The instance of QuickModeClient for TLC: one client, so that nothing is *)
(* interchangeable and liveness can be checked.                            *)
(***************************************************************************)
EXTENDS QuickModeClient
=============================================================================
