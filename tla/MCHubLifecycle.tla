---------------------------- MODULE MCHubLifecycle ----------------------------
(***************************************************************************)
(* Small instances of HubLifecycle.tla for TLC.                            *)
(***************************************************************************)
EXTENDS HubLifecycle

===============================================================================
