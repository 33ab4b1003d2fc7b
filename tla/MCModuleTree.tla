----------------------------- MODULE MCModuleTree -----------------------------
(***************************************************************************)
(* A small instance of ModuleTree.tla for TLC: every payload over three    *)
(* modules, the chain of three and the two siblings among them.            *)
(***************************************************************************)
EXTENDS ModuleTree

===============================================================================
