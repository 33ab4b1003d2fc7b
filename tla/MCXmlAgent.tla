------------------------------ MODULE MCXmlAgent ------------------------------
(***************************************************************************)
(* Two users who speak, a mail of another agent and an interrupt.          *)
(***************************************************************************)
EXTENDS XmlAgent, TLC

===============================================================================
