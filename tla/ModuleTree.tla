------------------------------ MODULE ModuleTree ------------------------------
(***************************************************************************)
(* The module tree as kernel/tree.py stores it: a table of modules, each   *)
(* with a parent pointer, a list of children and a list of holders, and    *)
(* the walks over them.  It implements ModuleLocks.tla: the walks compute  *)
(* the cones that specification is stated with, and the lists behave as    *)
(* the sets.                                                               *)
(*                                                                         *)
(* The walks are recursive, so this module is for TLC only.                *)
(***************************************************************************)
EXTENDS Naturals, Sequences, FiniteSets, SequencesExt

CONSTANTS
    Module,         \* every module id the tree may ever hold
    NoModule,       \* parent of a module that has none
    Rid,            \* routine ids
    Root,           \* the kernel's own routine
    TreeRoot,       \* the root of the tree, occupied by Root
    MaxAsk          \* bound: modules named by one request

ASSUME NoModule \notin Module /\ Root \in Rid /\ TreeRoot \in Module /\ MaxAsk \in Nat

VARIABLES
    known,          \* the keys of Tree._modules
    parent,         \* _Module.parent
    children,       \* _Module.children
    holders,        \* _Module.holders
    kin             \* kin[r]: r and its ancestors, {} before r is created

vars == <<known, parent, children, holders, kin>>

Requests == UNION {[1..n -> Module] : n \in 1..MaxAsk}

TypeOK ==
    /\ known \subseteq Module
    /\ parent \in [Module -> known \cup {NoModule}]
    /\ children \in [Module -> Seq(known)]
    /\ holders \in [Module -> Seq(Rid)]
    /\ kin \in [Rid -> SUBSET Rid]

-------------------------------------------------------------------------------
\* The walks of Tree.cone.

RECURSIVE WalkUp(_)
WalkUp(p) == IF p = NoModule THEN {} ELSE {p} \cup WalkUp(parent[p])

\* The stack is popped from its end; the children of what is popped go on top.
RECURSIVE WalkDown(_)
WalkDown(stack) ==
    IF stack = <<>> THEN {}
    ELSE {Last(stack)} \cup WalkDown(Front(stack) \o children[Last(stack)])

ConeOf(m) ==
    IF m \in known THEN {m} \cup WalkUp(parent[m]) \cup WalkDown(children[m]) ELSE {}

-------------------------------------------------------------------------------
\* try_acquire and evictable_holders, for the list mods and holder lists hs.

\* The holders of the cone of m that are neither r nor an ancestor of r.
ThirdParties(r, m, hs) == UNION {ToSet(hs[c]) : c \in ConeOf(m)} \ ({r} \cup kin[r])

\* The first module of the list that is unknown or occupied decides.
Outcome(r, mods, hs) ==
    LET bad == {i \in DOMAIN mods : mods[i] \notin known \/ ThirdParties(r, mods[i], hs) # {}}
    IN  IF bad = {} THEN "ok"
        ELSE LET i == CHOOSE i \in bad : \A j \in bad : i <= j
             IN  IF mods[i] \notin known THEN "KeyError" ELSE "ConflictError"

\* Wrong on purpose: the module itself is looked at, its cone is not.
EvictableFirst(r, mods) ==
    UNION {ToSet(holders[m]) : m \in ToSet(mods) \cap known} \ ({r} \cup kin[r])

\* evictable_holders passes over the unknown modules.
Evictable(r, mods) ==
    UNION {ThirdParties(r, m, holders) : m \in ToSet(mods) \cap known}

-------------------------------------------------------------------------------

\* A payload: every module but the roots is a child of exactly one other.
Init ==
    /\ known \in {k \in SUBSET Module : TreeRoot \in k}
    /\ parent \in {p \in [Module -> Module \cup {NoModule}] :
            /\ \A m \in Module : p[m] # NoModule => m \in known /\ p[m] \in known
            /\ \A S \in SUBSET known : S # {} => \E m \in S : p[m] \notin S}
    /\ parent[TreeRoot] = NoModule
    /\ children = [m \in Module |-> SetToSeq({c \in known : parent[c] = m})]
    /\ holders = [m \in Module |-> IF m = TreeRoot THEN <<Root>> ELSE <<>>]
    /\ kin = [r \in Rid |-> IF r = Root THEN {Root} ELSE {}]

\* _create_node: a routine is created at the top or under another one.
Adopt(r, line) ==
    /\ kin[r] = {}
    /\ kin' = [kin EXCEPT ![r] = line \cup {r}]
    /\ UNCHANGED <<known, parent, children, holders>>

\* Wrong on purpose: a holder is listed again.
TryAcquireAgain(r, mods) ==
    /\ r \in kin[r]
    /\ Outcome(r, mods, holders) = "ok"
    /\ holders' = [m \in Module |-> IF m \in ToSet(mods) THEN Append(holders[m], r)
                                    ELSE holders[m]]
    /\ UNCHANGED <<known, parent, children, kin>>

TryAcquire(r, mods) ==
    /\ r \in kin[r]
    /\ Outcome(r, mods, holders) = "ok"
    /\ holders' = [m \in Module |->
            IF m \in ToSet(mods) /\ r \notin ToSet(holders[m]) THEN Append(holders[m], r)
            ELSE holders[m]]
    /\ UNCHANGED <<known, parent, children, kin>>

\* release: list.remove takes the first occurrence out of every list.
Release(r) ==
    /\ holders' = [m \in Module |->
            IF r \in ToSet(holders[m]) THEN RemoveFirst(holders[m], r) ELSE holders[m]]
    /\ UNCHANGED <<known, parent, children, kin>>

ReleaseModules(r, mods) ==
    /\ holders' = [m \in Module |->
            IF m \in ToSet(mods) /\ r \in ToSet(holders[m]) THEN RemoveFirst(holders[m], r)
            ELSE holders[m]]
    /\ UNCHANGED <<known, parent, children, kin>>

LoadModule(p, c) ==
    /\ c \notin known /\ p \in known
    /\ known' = known \cup {c}
    /\ parent' = [parent EXCEPT ![c] = p]
    /\ children' = [children EXCEPT ![c] = <<>>, ![p] = Append(@, c)]
    /\ holders' = [holders EXCEPT ![c] = <<>>]
    /\ UNCHANGED kin

\* Wrong on purpose: an occupied module may leave the tree.
UnloadModuleOccupied(c) ==
    /\ c \in known /\ children[c] = <<>>
    /\ known' = known \ {c}
    /\ children' = IF parent[c] = NoModule THEN children
                   ELSE [children EXCEPT ![parent[c]] = RemoveFirst(@, c)]
    /\ parent' = [parent EXCEPT ![c] = NoModule]
    /\ UNCHANGED <<holders, kin>>

UnloadModule(c) ==
    /\ c \in known /\ children[c] = <<>> /\ holders[c] = <<>>
    /\ known' = known \ {c}
    /\ children' = IF parent[c] = NoModule THEN children
                   ELSE [children EXCEPT ![parent[c]] = RemoveFirst(@, c)]
    /\ parent' = [parent EXCEPT ![c] = NoModule]
    /\ UNCHANGED <<holders, kin>>

Next ==
    \/ \E r \in Rid, p \in {{}} \cup {kin[q] : q \in Rid} : Adopt(r, p)
    \/ \E r \in Rid : \/ Release(r)
                     \/ \E mods \in Requests : TryAcquire(r, mods) \/ ReleaseModules(r, mods)
    \/ \E p, c \in Module : LoadModule(p, c)
    \/ \E c \in Module : UnloadModule(c)

Spec == Init /\ [][Next]_vars

-------------------------------------------------------------------------------

\* The abstract tree and the abstract holders.
above == [m \in Module |-> IF m \in known THEN {m} \cup WalkUp(parent[m]) ELSE {}]
held  == [m \in Module |-> ToSet(holders[m])]

\* The table implements the authority: checking and occupying is one step, and
\* no list, pointer or walk lets a conflict through.
Locks == INSTANCE ModuleLocks WITH holders <- held
LocksSpec == Locks!Spec

\* The walk that goes up by parent pointers and down by child lists finds the
\* modules that are comparable with m.
ConesAgree == \A m \in Module : ConeOf(m) = IF m \in known THEN Locks!Cone(above, m) ELSE {}

\* No routine is listed twice, so that one remove is a release.
HeldOnce == \A m \in Module : IsInjective(holders[m])

\* The pointers and the lists of tree.py describe one tree, the one that the walks of
\* cone walk, and one release takes a holder away.
ListsAgree == TypeOK /\ ConesAgree /\ HeldOnce

\* The holder lists once the routines in gone have released everything.
Spared(gone) == [m \in Module |-> SelectSeq(holders[m], LAMBDA h : h \notin gone)]

\* evictable_holders: "after the eviction try_acquire passes", for modules that
\* are all in the tree.
EvictionClears ==
    \A r \in Rid, mods \in Requests :
        r \in kin[r] /\ ToSet(mods) \subseteq known
            => Outcome(r, mods, Spared(Evictable(r, mods))) = "ok"

===============================================================================
