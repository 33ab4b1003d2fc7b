------------------------------ MODULE MCFlowAgent ------------------------------
(***************************************************************************)
(* A message of each priority, two calls, two compactions, an interrupt.   *)
(***************************************************************************)
EXTENDS FlowAgent, TLC

===============================================================================
