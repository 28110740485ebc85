-------------------------------- MODULE Lru --------------------------------
(***************************************************************************)
(* The LRU caches of the node (crate lru, as payment/cache.rs and the      *)
(* payment verifier use it): sequences, most recently used first.          *)
(***************************************************************************)
EXTENDS Naturals, Sequences

Entries(s) == {s[i] : i \in 1..Len(s)}

\* LruCache::get: the entry becomes the most recently used one.
Touch(s, x) ==
    IF x \in Entries(s)
    THEN LET i == CHOOSE j \in 1..Len(s) : s[j] = x
         IN  [j \in 1..Len(s) |-> IF j = 1 THEN x
                                  ELSE IF j <= i THEN s[j - 1] ELSE s[j]]
    ELSE s

\* LruCache::put: a present entry is touched; a new one goes to the front
\* and the least recently used one is evicted when the cache is full.
Insert(s, x, cap) ==
    IF x \in Entries(s)
    THEN Touch(s, x)
    ELSE [j \in 1..(IF Len(s) < cap THEN Len(s) + 1 ELSE cap) |->
             IF j = 1 THEN x ELSE s[j - 1]]
=============================================================================
