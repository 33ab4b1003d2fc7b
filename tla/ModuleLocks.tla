------------------------------ MODULE ModuleLocks -----------------------------
(***************************************************************************)
(* What the module authority promises, whoever drives it.                  *)
(*                                                                         *)
(* Routines form a tree that only grows; modules form a tree that gains    *)
(* and loses leaves.  A routine occupies a set of modules only when every  *)
(* occupant of their cones is the routine itself or one of its ancestors.  *)
(* Nothing is said of when a routine asks or lets go: Kernel.tla and       *)
(* ModuleTree.tla are shown to implement this specification.               *)
(***************************************************************************)
EXTENDS ModuleCone

CONSTANTS
    Rid,            \* routine ids
    Root,           \* the routine that stands for the kernel itself
    TreeRoot        \* the root of the module tree; Root occupies it

ASSUME RootAssumption == Root \in Rid /\ TreeRoot \in Module

VARIABLES
    kin,            \* kin[r]: r and its ancestors; {} while r does not exist
    above,          \* the module tree, as ModuleCone describes it
    holders         \* holders[m]: the routines that occupy m

vars == <<kin, above, holders>>

TypeOK ==
    /\ kin \in [Rid -> SUBSET Rid]
    /\ above \in [Module -> SUBSET Module]
    /\ holders \in [Module -> SUBSET Rid]

Init ==
    /\ kin = [r \in Rid |-> IF r = Root THEN {Root} ELSE {}]
    /\ above \in {a \in [Module -> SUBSET Module] : IsForest(a) /\ TreeRoot \in Loaded(a)}
    /\ holders = [m \in Module |-> IF m = TreeRoot THEN {Root} ELSE {}]

\* A routine is created at the top (P = {}) or under the routine whose line is P.
Adopt(r, P) ==
    /\ kin[r] = {}
    /\ P = {} \/ \E p \in Rid : p \in kin[p] /\ P = kin[p]
    /\ kin' = [kin EXCEPT ![r] = P \cup {r}]
    /\ UNCHANGED <<above, holders>>

\* Check the cones, then occupy, in one step.
TryAcquire(r, mods) ==
    /\ r \in kin[r]
    /\ mods \subseteq Loaded(above)
    /\ EvictableHolders(above, holders, mods, kin[r]) = {}
    /\ holders' = Occupy(holders, r, mods)
    /\ UNCHANGED <<kin, above>>

Release(r, mods) ==
    /\ holders' = ReleaseModules(holders, r, mods)
    /\ UNCHANGED <<kin, above>>

\* Hang a new leaf c under p.
LoadModule(p, c) ==
    /\ p \in Loaded(above)
    /\ c \notin Loaded(above)
    /\ above' = [above EXCEPT ![c] = above[p] \cup {c}]
    /\ UNCHANGED <<kin, holders>>

\* Wrong on purpose: a module that is occupied may leave the tree.
UnloadModuleHeld(c) ==
    /\ c \in Loaded(above)
    /\ \A m \in Module \ {c} : c \notin above[m]
    /\ above' = [above EXCEPT ![c] = {}]
    /\ UNCHANGED <<kin, holders>>

\* Only a leaf nobody occupies leaves the tree.
UnloadModule(c) ==
    /\ c \in Loaded(above)
    /\ \A m \in Module \ {c} : c \notin above[m]
    /\ holders[c] = {}
    /\ above' = [above EXCEPT ![c] = {}]
    /\ UNCHANGED <<kin, holders>>

Next ==
    \/ \E r \in Rid, P \in SUBSET Rid : Adopt(r, P)
    \/ \E r \in Rid, mods \in SUBSET Module : TryAcquire(r, mods) \/ Release(r, mods)
    \/ \E p, c \in Module : LoadModule(p, c)
    \/ \E c \in Module : UnloadModule(c)

Spec == Init /\ [][Next]_vars

-------------------------------------------------------------------------------

Related(r, s) == r \in kin[s] \/ s \in kin[r]

\* Mutual exclusion: two routines occupy modules of which one lies in the cone
\* of the other only if one of the two is an ancestor of the other (or they
\* are the same routine).  This is Tree.try_acquire's "parent and child may
\* share, a third party is refused".
Exclusion ==
    \A m \in Module : \A c \in Cone(above, m) :
        \A r \in holders[m], s \in holders[c] : Related(r, s)

\* A module nobody can see any more has no occupant.
OnlyLoadedHeld == \A m \in Module : holders[m] # {} => m \in Loaded(above)

\* The modules are a forest.
ForestKept == IsForest(above)

\* Loading and unloading keep a forest, and forget no holder: unload_module refuses a
\* module that is occupied or has children.
TreeKept == ForestKept /\ OnlyLoadedHeld

===============================================================================
