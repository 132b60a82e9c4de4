---------------------------- MODULE MCDeployment ----------------------------
(***************************************************************************)
(* Small instances of Deployment: one slot of each revision.               *)
(***************************************************************************)
EXTENDS Deployment, Naturals, TLC

CONSTANTS s1, s2, i1, i2

OneOfEach == s1 :> "old" @@ s2 :> "new"

\* Every pair of changes, in one order: pushes are interchangeable.
Rank == [c \in Changes |->
    CASE c = "kept" -> 1 [] c = "added" -> 2 [] c = "removed" -> 3 [] c = "changed" -> 4]
EveryMix == {t \in [Pushes -> Changes] : Rank[t[i1]] <= Rank[t[i2]]}
=============================================================================
