---------------------------- MODULE ChunkBase ----------------------------
(***************************************************************************)
(* The vocabulary shared by the storage modules: addresses, contents, the  *)
(* content hash, the capacity rule.                                        *)
(***************************************************************************)
EXTENDS Naturals, FiniteSets

CONSTANTS
    Addr,          \* 32-byte chunk addresses
    Content,       \* chunk contents
    Hash,          \* BLAKE3, as a function from contents to addresses
    Caller,        \* tasks that call the storage
    MaxChunks,     \* LmdbStorageConfig::max_chunks (0 = unlimited)
    VerifyOnRead,  \* LmdbStorageConfig::verify_on_read
    None           \* "no content"

ASSUME HashAssumption == Hash \in [Content -> Addr]
ASSUME MaxChunksAssumption == MaxChunks \in Nat
ASSUME VerifyAssumption == VerifyOnRead \in BOOLEAN
ASSUME NoneAssumption == None \notin Content
ASSUME AddrFinite == IsFiniteSet(Addr)
ASSUME CallerFinite == IsFiniteSet(Caller)

Op == {"put", "get", "exists", "delete"}

\* new/dup: put stored / found a duplicate; found/absent: get and exists;
\* deleted/missing: delete; err: any Err(..).
Result == {"new", "dup", "err", "found", "absent", "deleted", "missing"}

Map == [Addr -> Content \cup {None}]

Stored(m) == {a \in Addr : m[a] # None}

\* Mutant: off by one.
AtCapacityLate(m) == MaxChunks > 0 /\ Cardinality(Stored(m)) > MaxChunks

\* Capacity enforcement of the write transaction (0 means unlimited).
AtCapacity(m) == MaxChunks > 0 /\ Cardinality(Stored(m)) >= MaxChunks

=============================================================================
