----------------------------- MODULE MCPayment ------------------------------
(* Three nodes of a close group, one of them odd, and one node outside.    *)
EXTENDS Payment, TLC

CONSTANTS n1, n2, n3, n4, c1, c2, c3, p1, p2

MCNode == {n1, n2, n3, n4}
MCGroup == {n1, n2, n3}
MCBase == n1 :> 0 @@ n2 :> 1 @@ n3 :> 0 @@ n4 :> 0
MCCurve == [r \in 0 .. 3 |-> 3 + 2 * r]
MCSkew == n1 :> 0 @@ n2 :> -1 @@ n3 :> 0 @@ n4 :> 0
MCMaxAsks == c1 :> 2 @@ c2 :> 0 @@ c3 :> 0
\* Only the contract tells the midpoints apart, and it may choose any.
MCSymmetry == Permutations({p1, p2})
MCTrees == {{c1, c2}, {c2, c3}}
MCDepth == {c1, c2} :> 1 @@ {c2, c3} :> 1
MCOddTimes == {-3, 2}
MCRewards == n1 :> "a" @@ n2 :> "b" @@ n3 :> "a" @@ n4 :> "a"
=============================================================================
