---------------------------- MODULE MCLmdbStorage ----------------------------
(* LmdbStorage on small instances: two contents with distinct addresses and *)
(* two callers racing for the single slot of the capacity.                  *)
EXTENDS LmdbStorage, TLC

CONSTANTS t1, t2, c1, c2, a1, a2

MCHash == (c1 :> a1) @@ (c2 :> a2)
=============================================================================
