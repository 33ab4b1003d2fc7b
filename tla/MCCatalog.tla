------------------------------- MODULE MCCatalog -------------------------------
(***************************************************************************)
(* Two names that two hubs offer, reload and withdraw.                     *)
(***************************************************************************)
EXTENDS Catalog, TLC

===============================================================================
