----------------------------- MODULE MCChunkNode -----------------------------
(* ChunkNode with two tasks, two addresses and one merkle pool that pays    *)
(* for a1 only; caches of one entry, so that evictions happen.              *)
EXTENDS ChunkNode, TLC

CONSTANTS a1, a2, p1

MCTree == p1 :> {a1}

Single(a, ok) == [kind |-> "single", addr |-> a, pool |-> p1, sound |-> ok]

Merkle(a, ok) == [kind |-> "merkle", addr |-> a, pool |-> p1, sound |-> ok]

Unpaid == [kind |-> "none", addr |-> a1, pool |-> p1, sound |-> FALSE]

Put(a, b, p) == [op |-> "put", addr |-> a, body |-> b, proof |-> p]

Ask(o, a, b) == [op |-> o, addr |-> a, body |-> b, proof |-> Unpaid]

MCRequests ==
    {Put(a1, "ok", p) : p \in {Unpaid, Single(a1, TRUE), Merkle(a1, TRUE)}}
    \cup {Put(a2, "ok", p) : p \in {Single(a2, TRUE), Single(a1, TRUE),
                                    Single(a2, FALSE), Merkle(a2, TRUE)}}
    \cup {Put(a1, "mismatch", Single(a1, TRUE)), Ask("get", a1, "ok"),
          Ask("quote", a1, "ok"), Ask("merkle_quote", a2, "too_large"),
          Ask("response", a1, "ok")}
=============================================================================
