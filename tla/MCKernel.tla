------------------------------- MODULE MCKernel -------------------------------
(***************************************************************************)
(* Small instances of Kernel.tla for TLC.                                  *)
(***************************************************************************)
EXTENDS Kernel, TLC

\* The module tree: body above left and right.  ghost is not in it.
MCModule == {"body", "left", "right", "ghost"}
MCAbove  == "body"  :> {"body"}
         @@ "left"  :> {"left", "body"}
         @@ "right" :> {"right", "body"}
         @@ "ghost" :> {}

Ids2 == {2, 3}
Ids3 == {2, 3, 4}

\* Family: a parent and its child share a module; a rival of the two, with the
\* same priority as the child or a higher one, wants the whole tree.  The hub may
\* never answer a stop of the first two.
FamilyParents == 2 :> {Root} @@ 3 :> {2} @@ 4 :> {Root}
FamilyClaims  == 2 :> {{"left"}} @@ 3 :> {{"left"}} @@ 4 :> {{"body"}}
FamilyStarts  == 2 :> {<<10, FALSE>>} @@ 3 :> {<<15, FALSE>>}
              @@ 4 :> {<<15, FALSE>>, <<20, FALSE>>}
FamilyAsks    == 2 :> {"stop"} @@ 3 :> {"stop"} @@ 4 :> {}
FamilyFates   == 2 :> {"returns", "slow stop"} @@ 3 :> {"returns", "slow stop"} @@ 4 :> {"slow stop"}

\* Contention: two routines, the second a sibling of the first or created at the top,
\* where it is no descendant of root and may evict it; both occupy, release and evict at
\* run time and may be started again; creating and stopping may fail or be slow.
ContentionParents    == 2 :> {Root} @@ 3 :> {NoParent, Root}
ContentionClaims     == 2 :> {{"left"}} @@ 3 :> {{"body"}, {"right"}, {"left", "ghost"}}
ContentionStarts     == 2 :> {<<10, FALSE>>} @@ 3 :> {<<0, TRUE>>, <<0, FALSE>>, <<20, FALSE>>}
ContentionAsks       == 2 :> {"stop", "acquire", "release"} @@ 3 :> {"destroy", "acquire"}
ContentionFates      == 2 :> {"returns", "slow stop"}
                     @@ 3 :> {"unknown class", "slow created", "slow stop"}
ContentionAgain      == {3}
ContentionAcquirable == {{"right"}, {"left", "right"}}

===============================================================================
