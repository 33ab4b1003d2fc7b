-------------------------------- MODULE MCConns --------------------------------
(***************************************************************************)
(* The local hub and one that dials; both run parents and children.        *)
(***************************************************************************)
EXTENDS Conns, TLC

MCPlace == 1 :> {<<Root, "h">>} @@ 2 :> {<<1, Local>>, <<Top, "h">>}

===============================================================================
