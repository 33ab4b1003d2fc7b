------------------------------ MODULE ModuleCone ------------------------------
(***************************************************************************)
(* The pure part of the module authority (kernel/tree.py).                 *)
(*                                                                         *)
(* Modules form a tree.  A module is described by above[m]: the modules on *)
(* the path from m to the root, m included; above[m] = {} says that m is   *)
(* not in the tree.  The code stores parent and children pointers and      *)
(* walks them; ModuleTree.tla models the walk and shows that it computes   *)
(* the sets used here.                                                     *)
(*                                                                         *)
(* holders[m] is the set of routines that occupy m; kin is the set of      *)
(* routines an acquirer may share a module with (itself, its ancestors).   *)
(***************************************************************************)
CONSTANT Module        \* every module id the tree may ever hold

\* The modules that are in the tree.
Loaded(above) == {m \in Module : m \in above[m]}

\* The modules above one module form a chain, and no two modules are above each
\* other.  (Modules may hang loose from the root: the code does not insist.)
IsForest(above) ==
    /\ above \in [Module -> SUBSET Module]
    /\ \A m \in Module : above[m] # {} => m \in above[m]
    /\ \A m \in Module : \A c, d \in above[m] : c \in above[d] \/ d \in above[c]
    /\ \A m \in Module : \A c \in above[m] :
            above[c] \subseteq above[m] /\ (m \in above[c] => c = m)

\* Occupying m blocks the ancestors of m, m itself and its descendants.
Cone(above, m) == {c \in Module : c \in above[m] \/ m \in above[c]}

\* Wrong on purpose: the walk goes up and not down.
EvictableHoldersUpwards(above, holders, mods, kin) ==
    (UNION {holders[c] : c \in UNION {above[m] : m \in mods}}) \ kin

\* The routines outside kin that occupy a module of the cone of some member
\* of mods: whom an acquirer of mods would have to evict.
EvictableHolders(above, holders, mods, kin) ==
    (UNION {holders[c] : c \in UNION {Cone(above, m) : m \in mods}}) \ kin

\* Wrong on purpose: the other modules are lost.
OccupyOnly(holders, rid, mods) == [m \in mods |-> holders[m] \cup {rid}]

\* rid occupies mods (at most once each).
Occupy(holders, rid, mods) ==
    [m \in Module |-> IF m \in mods THEN holders[m] \cup {rid} ELSE holders[m]]

\* rid gives up its place in mods; the other holders stay.
ReleaseModules(holders, rid, mods) ==
    [m \in Module |-> IF m \in mods THEN holders[m] \ {rid} ELSE holders[m]]

===============================================================================
