--------------------------- MODULE ModuleLocksProofs --------------------------
(***************************************************************************)
(* ModuleLocks.tla keeps its promises for every set of modules, every      *)
(* forest over them and any number of routines.                            *)
(*                                                                         *)
(* Mutual exclusion is not inductive by itself: hanging a new leaf below a *)
(* module that is occupied extends a cone, which is safe only because      *)
(* nobody occupies a module outside the tree, and because such a module is *)
(* above no other.  The inductive invariant adds these two facts.          *)
(***************************************************************************)
EXTENDS ModuleLocks, TLAPS

IInv == TypeOK /\ ForestKept /\ OnlyLoadedHeld /\ Exclusion

\* Being in the cone of each other is symmetric.
LEMMA ConeSymmetric ==
    ASSUME NEW a, NEW m \in Module, NEW c \in Module
    PROVE  c \in Cone(a, m) <=> m \in Cone(a, c)
BY DEF Cone

\* In a forest, what is above a module is in the forest.
LEMMA AboveIsLoaded ==
    ASSUME NEW a, IsForest(a), NEW m \in Module, NEW c \in a[m]
    PROVE  c \in Loaded(a)
BY DEF IsForest, Loaded

\* Occupying modules whose cones are free of strangers creates no conflict.
LEMMA OccupyKeepsExclusion ==
    ASSUME TypeOK, Exclusion, NEW r \in Rid, NEW mods \in SUBSET Module,
           r \in kin[r],
           EvictableHolders(above, holders, mods, kin[r]) = {},
           holders' = Occupy(holders, r, mods),
           UNCHANGED <<kin, above>>
    PROVE  Exclusion'
<1> SUFFICES ASSUME NEW m \in Module, NEW c \in Cone(above, m),
                    NEW p \in holders'[m], NEW q \in holders'[c]
             PROVE  Related(p, q)
    BY DEF Exclusion, Related
<1> c \in Module /\ m \in Cone(above, c)
    BY ConeSymmetric DEF Cone
<1> USE DEF Occupy, EvictableHolders, TypeOK
<1>1. CASE p \in holders[m] /\ q \in holders[c]
    BY <1>1 DEF Exclusion
<1>2. CASE p = r /\ q = r
    BY <1>2 DEF Related
<1>3. CASE p = r /\ m \in mods /\ q \in holders[c]
    <2>1. q \in UNION {holders[x] : x \in UNION {Cone(above, y) : y \in mods}}
        BY <1>3
    <2> QED BY <1>3, <2>1 DEF Related
<1>4. CASE q = r /\ c \in mods /\ p \in holders[m]
    <2>1. p \in UNION {holders[x] : x \in UNION {Cone(above, y) : y \in mods}}
        BY <1>4
    <2> QED BY <1>4, <2>1 DEF Related
<1> QED BY <1>1, <1>2, <1>3, <1>4

\* Hanging a new leaf keeps a forest a forest.
LEMMA LoadKeepsForest ==
    ASSUME NEW a, IsForest(a), NEW p \in Loaded(a), NEW c \in Module, c \notin Loaded(a),
           NEW b, b = [a EXCEPT ![c] = a[p] \cup {c}]
    PROVE  IsForest(b)
<1> p \in Module /\ p \in a[p]
    BY DEF Loaded
<1>1. a[c] = {} /\ \A m \in Module : c \notin a[m]
    BY AboveIsLoaded DEF IsForest, Loaded
<1>2. b[c] = a[p] \cup {c} /\ \A m \in Module \ {c} : b[m] = a[m]
    BY DEF IsForest
<1>3. b \in [Module -> SUBSET Module] /\ \A m \in Module : b[m] # {} => m \in b[m]
    BY DEF IsForest
<1>4. ASSUME NEW m \in Module, NEW x \in b[m], NEW y \in b[m]
      PROVE  x \in b[y] \/ y \in b[x]
    <2>1. CASE m # c
        <3>1. x \in a[m] /\ y \in a[m] /\ x # c /\ y # c /\ x \in Module /\ y \in Module
            BY <2>1, <1>1, <1>2 DEF IsForest
        <3> QED BY <3>1, <1>2 DEF IsForest
    <2>2. CASE m = c
        <3>1. CASE x = c \/ y = c
            BY <3>1, <2>2, <1>2
        <3>2. CASE x # c /\ y # c
            <4>1. x \in a[p] /\ y \in a[p] /\ x \in Module /\ y \in Module
                BY <3>2, <2>2, <1>2 DEF IsForest
            <4> QED BY <4>1, <3>2, <1>2 DEF IsForest
        <3> QED BY <3>1, <3>2
    <2> QED BY <2>1, <2>2
<1>5. ASSUME NEW m \in Module, NEW x \in b[m]
      PROVE  b[x] \subseteq b[m] /\ (m \in b[x] => x = m)
    <2>1. CASE m # c
        <3>1. x \in a[m] /\ x # c /\ x \in Module
            BY <2>1, <1>1, <1>2 DEF IsForest
        <3> QED BY <3>1, <2>1, <1>2 DEF IsForest
    <2>2. CASE m = c /\ x # c
        <3>1. x \in a[p] /\ x \in Module /\ b[x] = a[x]
            BY <2>2, <1>2 DEF IsForest
        <3> QED BY <3>1, <2>2, <1>1, <1>2 DEF IsForest
    <2>3. CASE m = c /\ x = c
        BY <2>3
    <2> QED BY <2>1, <2>2, <2>3
<1> QED BY <1>3, <1>4, <1>5 DEF IsForest

\* So does taking away a leaf.
LEMMA UnloadKeepsForest ==
    ASSUME NEW a, IsForest(a), NEW c \in Module, \A m \in Module \ {c} : c \notin a[m],
           NEW b, b = [a EXCEPT ![c] = {}]
    PROVE  IsForest(b)
<1>1. b[c] = {} /\ \A m \in Module \ {c} : b[m] = a[m] /\ c \notin b[m]
    BY DEF IsForest
<1>2. b \in [Module -> SUBSET Module] /\ \A m \in Module : b[m] # {} => m \in b[m]
    BY <1>1 DEF IsForest
<1>3. \A m \in Module : \A x \in b[m] : x \in Module /\ x # c /\ m # c
    BY <1>1, <1>2
<1>4. \A m \in Module : \A x, y \in b[m] : x \in b[y] \/ y \in b[x]
    BY <1>1, <1>3 DEF IsForest
<1>5. \A m \in Module : \A x \in b[m] : b[x] \subseteq b[m] /\ (m \in b[x] => x = m)
    BY <1>1, <1>3 DEF IsForest
<1> QED BY <1>2, <1>4, <1>5 DEF IsForest

-------------------------------------------------------------------------------

LEMMA InitInv == Init => IInv
<1> SUFFICES ASSUME Init PROVE IInv
    OBVIOUS
<1>1. TypeOK /\ ForestKept /\ OnlyLoadedHeld
    BY RootAssumption DEF Init, TypeOK, ForestKept, OnlyLoadedHeld, IsForest
<1>2. Exclusion
    BY RootAssumption DEF Init, Exclusion, Related, Cone
<1> QED BY <1>1, <1>2 DEF IInv

LEMMA NextInv == IInv /\ [Next]_vars => IInv'
<1> SUFFICES ASSUME IInv, [Next]_vars PROVE IInv'
    OBVIOUS
<1> USE DEF IInv
<1>1. ASSUME NEW r \in Rid, NEW P \in SUBSET Rid, Adopt(r, P)
      PROVE  IInv'
    <2>1. TypeOK' /\ ForestKept' /\ OnlyLoadedHeld'
        BY <1>1 DEF Adopt, TypeOK, ForestKept, OnlyLoadedHeld, Loaded
    <2>2. ASSUME NEW s \in Rid, NEW t \in Rid, Related(s, t)
          PROVE  Related(s, t)'
        BY <1>1, <2>2 DEF Adopt, Related, TypeOK
    <2>3. Exclusion'
        <3> SUFFICES ASSUME NEW m \in Module, NEW c \in Cone(above, m),
                            NEW s \in holders[m], NEW t \in holders[c]
                     PROVE  Related(s, t)'
            BY <1>1 DEF Adopt, Exclusion
        <3> s \in Rid /\ t \in Rid /\ Related(s, t)
            BY DEF Exclusion, TypeOK, Cone
        <3> QED BY <2>2
    <2> QED BY <2>1, <2>3
<1>2. ASSUME NEW r \in Rid, NEW mods \in SUBSET Module, TryAcquire(r, mods)
      PROVE  IInv'
    <2>1. TypeOK' /\ ForestKept' /\ OnlyLoadedHeld'
        BY <1>2 DEF TryAcquire, Occupy, TypeOK, ForestKept, OnlyLoadedHeld, Loaded
    <2>2. Exclusion'
        BY <1>2, OccupyKeepsExclusion DEF TryAcquire
    <2> QED BY <2>1, <2>2
<1>3. ASSUME NEW r \in Rid, NEW mods \in SUBSET Module, Release(r, mods)
      PROVE  IInv'
    <2>1. TypeOK' /\ \A m \in Module : holders'[m] \subseteq holders[m]
        BY <1>3 DEF Release, ReleaseModules, TypeOK
    <2>2. kin' = kin /\ above' = above
        BY <1>3 DEF Release
    <2> QED BY <2>1, <2>2 DEF ForestKept, OnlyLoadedHeld, Loaded, Exclusion, Related, Cone
<1>4. ASSUME NEW p \in Module, NEW c \in Module, LoadModule(p, c)
      PROVE  IInv'
    <2>1. ForestKept'
        BY <1>4, LoadKeepsForest DEF LoadModule, ForestKept
    <2>2. TypeOK' /\ OnlyLoadedHeld'
        BY <1>4, <2>1 DEF LoadModule, TypeOK, ForestKept, IsForest, OnlyLoadedHeld, Loaded
    <2>3. holders[c] = {} /\ \A m \in Module : c \notin above[m]
        BY <1>4, AboveIsLoaded DEF LoadModule, OnlyLoadedHeld, ForestKept
    <2>4. \A m \in Module \ {c} : above'[m] = above[m]
        BY <1>4 DEF LoadModule, TypeOK
    <2>5. Exclusion'
        BY <1>4, <2>3, <2>4 DEF LoadModule, Exclusion, Related, Cone
    <2> QED BY <2>1, <2>2, <2>5
<1>5. ASSUME NEW c \in Module, UnloadModule(c)
      PROVE  IInv'
    <2>1. ForestKept'
        BY <1>5, UnloadKeepsForest DEF UnloadModule, ForestKept
    <2>2. TypeOK' /\ OnlyLoadedHeld'
        BY <1>5 DEF UnloadModule, TypeOK, OnlyLoadedHeld, Loaded
    <2>3. Exclusion'
        BY <1>5 DEF UnloadModule, TypeOK, Exclusion, Related, Cone
    <2> QED BY <2>1, <2>2, <2>3
<1>6. CASE UNCHANGED vars
    BY <1>6 DEF vars, TypeOK, ForestKept, OnlyLoadedHeld, Loaded, Exclusion, Related, Cone
<1> QED BY <1>1, <1>2, <1>3, <1>4, <1>5, <1>6 DEF Next

-------------------------------------------------------------------------------

\* Every state of the authority satisfies the inductive invariant.
THEOREM InvHolds == Spec => []IInv
BY InitInv, NextInv, PTL DEF Spec

\* The variables keep their types.
THEOREM TypeCorrect == Spec => []TypeOK
BY InvHolds, PTL DEF IInv

\* Two routines that occupy conflicting modules are ancestor and descendant,
\* however modules are loaded and unloaded meanwhile.
THEOREM ExclusionHolds == Spec => []Exclusion
BY InvHolds, PTL DEF IInv

\* The modules stay a forest, and no holder is lost with a module that leaves it.
THEOREM TreeKeptHolds == Spec => []TreeKept
BY InvHolds, PTL DEF IInv, TreeKept

===============================================================================
