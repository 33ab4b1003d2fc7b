----------------------------- MODULE MCModuleLocks ----------------------------
(***************************************************************************)
(* A small instance of ModuleLocks.tla for TLC: every forest over three    *)
(* modules, the root routine and two more.                                 *)
(***************************************************************************)
EXTENDS ModuleLocks

===============================================================================
