----------------------------- MODULE LmdbStorage -----------------------------
(***************************************************************************)
(* ant-node/src/storage/lmdb.rs: concurrent callers of one LMDB            *)
(* environment.  put is three steps that other callers interleave with: an *)
(* optimistic read-only duplicate check, a write transaction that repeats  *)
(* the check, enforces the capacity and commits, and the update of the     *)
(* in-memory statistics.  LMDB serialises write transactions, so each one  *)
(* is a single step.                                                       *)
(***************************************************************************)
EXTENDS ChunkBase

CONSTANT MaxCalls      \* bound on the number of calls (model checking only)

ASSUME MaxCallsAssumption == MaxCalls \in Nat

VARIABLES
    db,      \* the LMDB database: survives a crash
    pc,      \* per caller: idle, start, txn, new, dup, ret
    arg,     \* per caller: operation and arguments
    res,     \* per caller: the value being returned
    stats,   \* StorageStats, in memory
    opened,  \* number of entries when the environment was opened
    removed, \* entries deleted since then
    calls    \* calls made so far (bound)

vars == <<db, pc, arg, res, stats, opened, removed, calls>>

Counter == {"chunks_stored", "chunks_retrieved", "duplicates",
            "verification_failures"}

ZeroStats == [f \in Counter |-> 0]

Request == [op : Op, addr : Addr, content : Content]

Idle == [res |-> "err", out |-> None]

TypeOK ==
    /\ db \in Map
    /\ pc \in [Caller -> {"idle", "start", "txn", "new", "dup", "ret"}]
    /\ arg \in [Caller -> Request]
    /\ res \in [Caller -> [res : Result, out : Content \cup {None}]]
    /\ stats \in [Counter -> Nat]
    /\ opened \in Nat
    /\ removed \in Nat
    /\ calls \in Nat

Init ==
    /\ db = [a \in Addr |-> None]
    /\ pc = [t \in Caller |-> "idle"]
    /\ arg \in [Caller -> Request]
    /\ res = [t \in Caller |-> Idle]
    /\ stats = ZeroStats
    /\ opened = 0
    /\ removed = 0
    /\ calls = 0

-----------------------------------------------------------------------------
\* Steps of a call.

exists(a) == a \in Stored(db)

Goto(t, l) == pc' = [pc EXCEPT ![t] = l]

Answer(t, r, o) ==
    /\ Goto(t, "ret")
    /\ res' = [res EXCEPT ![t] = [res |-> r, out |-> o]]

Bump(f) == stats' = [stats EXCEPT ![f] = @ + 1]

Call(t) ==
    /\ pc[t] = "idle"
    /\ calls < MaxCalls
    /\ \E r \in Request : arg' = [arg EXCEPT ![t] = r]
    /\ Goto(t, "start")
    /\ calls' = calls + 1
    /\ UNCHANGED <<db, res, stats, opened, removed>>

\* Mutant: the content address is not compared with the requested one.
PutCheckAnyAddress(t) ==
    /\ pc[t] = "start" /\ arg[t].op = "put"
    /\ IF exists(arg[t].addr)
       THEN Answer(t, "dup", None) /\ Bump("duplicates")
       ELSE Goto(t, "txn") /\ UNCHANGED <<res, stats>>
    /\ UNCHANGED <<db, arg, opened, removed, calls>>

\* put, up to the write transaction: the content address, then the
\* optimistic duplicate check in a read transaction of its own.
PutCheck(t) ==
    LET a == arg[t].addr
        c == arg[t].content
    IN  /\ pc[t] = "start" /\ arg[t].op = "put"
        /\ \/ /\ Hash[c] # a
              /\ Answer(t, "err", None)
              /\ UNCHANGED stats
           \/ /\ Hash[c] = a /\ exists(a)
              /\ Answer(t, "dup", None)
              /\ Bump("duplicates")
           \/ /\ Hash[c] = a /\ ~exists(a)
              /\ Goto(t, "txn")
              /\ UNCHANGED <<res, stats>>
        /\ UNCHANGED <<db, arg, opened, removed, calls>>

\* Mutant: the transaction trusts the optimistic check.
PutTxnTrustsCheck(t) ==
    /\ pc[t] = "txn"
    /\ IF AtCapacity(db) /\ ~exists(arg[t].addr)
       THEN Answer(t, "err", None) /\ UNCHANGED db
       ELSE /\ db' = [db EXCEPT ![arg[t].addr] = arg[t].content]
            /\ Goto(t, "new")
            /\ UNCHANGED res
    /\ UNCHANGED <<arg, stats, opened, removed, calls>>

\* put, the write transaction: authoritative existence check, capacity,
\* write and commit.
PutTxn(t) ==
    LET a == arg[t].addr
        c == arg[t].content
    IN  /\ pc[t] = "txn"
        /\ \/ /\ exists(a)
              /\ Goto(t, "dup")
              /\ UNCHANGED <<db, res>>
           \/ /\ ~exists(a) /\ AtCapacity(db)
              /\ Answer(t, "err", None)
              /\ UNCHANGED db
           \/ /\ ~exists(a) /\ ~AtCapacity(db)
              /\ db' = [db EXCEPT ![a] = c]
              /\ Goto(t, "new")
              /\ UNCHANGED res
        /\ UNCHANGED <<arg, stats, opened, removed, calls>>

\* put, after the transaction: the statistics.
PutCount(t) ==
    /\ \/ pc[t] = "dup" /\ Bump("duplicates")
       \/ pc[t] = "new" /\ Bump("chunks_stored")
    /\ Answer(t, pc[t], None)
    /\ UNCHANGED <<db, arg, opened, removed, calls>>

\* get: one read transaction, then the hash of what was read.
Get(t) ==
    LET a == arg[t].addr
    IN  /\ pc[t] = "start" /\ arg[t].op = "get"
        /\ \/ /\ ~exists(a)
              /\ Answer(t, "absent", None)
              /\ UNCHANGED stats
           \/ /\ exists(a) /\ VerifyOnRead /\ Hash[db[a]] # a
              /\ Answer(t, "err", None)
              /\ Bump("verification_failures")
           \/ /\ exists(a) /\ (VerifyOnRead => Hash[db[a]] = a)
              /\ Answer(t, "found", db[a])
              /\ Bump("chunks_retrieved")
        /\ UNCHANGED <<db, arg, opened, removed, calls>>

Exists(t) ==
    /\ pc[t] = "start" /\ arg[t].op = "exists"
    /\ Answer(t, IF exists(arg[t].addr) THEN "found" ELSE "absent", None)
    /\ UNCHANGED <<db, arg, stats, opened, removed, calls>>

\* delete: one write transaction.
Delete(t) ==
    LET a == arg[t].addr
    IN  /\ pc[t] = "start" /\ arg[t].op = "delete"
        /\ \/ /\ exists(a)
              /\ db' = [db EXCEPT ![a] = None]
              /\ removed' = removed + 1
              /\ Answer(t, "deleted", None)
           \/ /\ ~exists(a)
              /\ Answer(t, "missing", None)
              /\ UNCHANGED <<db, removed>>
        /\ UNCHANGED <<arg, stats, opened, calls>>

\* Any transaction may fail (LMDB error, map full, blocking task lost).
IoError(t) ==
    /\ pc[t] \in {"start", "txn"}
    /\ Answer(t, "err", None)
    /\ UNCHANGED <<db, arg, stats, opened, removed, calls>>

Return(t) ==
    /\ pc[t] = "ret"
    /\ Goto(t, "idle")
    /\ UNCHANGED <<db, arg, res, stats, opened, removed, calls>>

\* The process dies; LmdbStorage::new opens the same environment again with
\* fresh statistics.
Restart ==
    /\ pc' = [t \in Caller |-> "idle"]
    /\ res' = [t \in Caller |-> Idle]
    /\ stats' = ZeroStats
    /\ opened' = Cardinality(Stored(db))
    /\ removed' = 0
    /\ UNCHANGED <<db, arg, calls>>

\* The disk damages a stored value.
Corrupt(a) ==
    /\ exists(a)
    /\ \E c \in Content : db' = [db EXCEPT ![a] = c]
    /\ UNCHANGED <<pc, arg, res, stats, opened, removed, calls>>

Step(t) ==
    \/ PutCheck(t) \/ PutTxn(t) \/ PutCount(t) \/ Get(t) \/ Exists(t)
    \/ Delete(t) \/ Return(t)

Next ==
    \/ \E t \in Caller : Call(t) \/ Step(t) \/ IoError(t)
    \/ Restart
    \/ \E a \in Addr : Corrupt(a)

Spec == Init /\ [][Next]_vars

-----------------------------------------------------------------------------
\* Number of puts that have committed and are not yet in the statistics.
Uncounted == {t \in Caller : pc[t] = "new"}

\* The capacity of the configuration is never exceeded, whichever callers
\* race for the last slot (lmdb.rs, put: the check and the write are one
\* transaction).
CapacityRespected == MaxChunks > 0 => Cardinality(Stored(db)) <= MaxChunks

\* No counter drift: the entries of the database are those it was opened
\* with, plus the stores counted or about to be counted, minus the deletes.
\* So two racing puts of one chunk are never both counted as stored.
NoCounterDrift ==
    Cardinality(Stored(db)) + removed
        = opened + stats["chunks_stored"] + Cardinality(Uncounted)

-----------------------------------------------------------------------------
\* The storage implements the atomic store: an operation takes effect at the
\* optimistic check (when that already answers) or in its transaction.
AbsPhase == [t \in Caller |->
    CASE pc[t] = "idle" -> "idle"
      [] pc[t] \in {"start", "txn"} -> "pending"
      [] OTHER -> "done"]

AbsRet == [t \in Caller |->
    IF pc[t] \in {"new", "dup"} THEN [res |-> pc[t], out |-> None] ELSE res[t]]

CS == INSTANCE ContentStore
        WITH map <- db, phase <- AbsPhase, req <- arg, ret <- AbsRet

\* Refinement of the atomic content store (linearizability of put, get,
\* exists and delete).
ImplementsContentStore == CS!AbsSpec
=============================================================================
