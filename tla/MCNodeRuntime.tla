--------------------------- MODULE MCNodeRuntime ---------------------------
(* Two processes that share the default directory or an explicit one, or a *)
(* devnet of two nodes; two calls.                                         *)
EXTENDS NodeRuntime, TLC

CONSTANTS s1, s2, d1, d2, r1, r2

DevList == <<d1, d2>>
MCLayouts == {s1 :> d @@ s2 :> d : d \in {"default", "given"}}
=============================================================================
