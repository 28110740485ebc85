------------------------------ MODULE ChunkNode ------------------------------
(***************************************************************************)
(* ant-node: one storage node serving chunk requests.  AntProtocol         *)
(* (storage/handler.rs) runs each request as a task of its own;            *)
(* PaymentVerifier (payment/verifier.rs) decides whether a new chunk may   *)
(* be stored, with an LRU cache of verified addresses and one of merkle    *)
(* pools, both lost in a restart; the quoting metrics                      *)
(* (payment/metrics.rs) count what was stored and are persisted now and    *)
(* then.  The storage is the atomic store LmdbStorage implements.          *)
(***************************************************************************)
EXTENDS Lru, FiniteSets

CONSTANTS
    Addr,             \* chunk addresses
    Pool,             \* merkle candidate pools (by hash)
    Tree,             \* Tree[p]: the addresses of the tree pool p pays for
    Slot,             \* request tasks
    Requests,         \* the requests clients send
    MaxChunks,        \* capacity of the store (0 = unlimited)
    CacheCap,         \* capacity of the verified-address cache
    PoolCap,          \* capacity of the merkle pool cache
    PersistInterval,  \* operations between two writes of the metrics
    MaxRequests,      \* bound on the requests (model checking only)
    NoFile            \* no readable metrics file

\* A payment proof: its kind, the address it binds, the pool it names, and
\* whether it passes the checks made on its content (number and uniqueness of
\* quotes, timestamps, peer bindings, local recipient, signatures, paid
\* nodes).  "none": missing, of a wrong size or tag, or not decodable.
Proof == [kind : {"none", "single", "merkle"}, addr : Addr, pool : Pool,
          sound : BOOLEAN]

\* body: what a PUT carries (content that hashes to the address, to another
\* one, or is too large).
Request == [op : {"put", "get", "quote", "merkle_quote", "response"},
            addr : Addr, body : {"ok", "mismatch", "too_large"}, proof : Proof]

Metrics == [stored : Nat, payments : Nat]

ASSUME TreeAssumption == Tree \in [Pool -> SUBSET Addr]
ASSUME RequestsAssumption == Requests \subseteq Request /\ Requests # {}
ASSUME CapAssumption == CacheCap \in Nat \ {0} /\ PoolCap \in Nat \ {0}
ASSUME BoundsAssumption ==
    MaxChunks \in Nat /\ PersistInterval \in Nat \ {0} /\ MaxRequests \in Nat
ASSUME FiniteAssumption == IsFiniteSet(Addr) /\ IsFiniteSet(Slot)
ASSUME NoFileAssumption == NoFile \notin Metrics

VARIABLES
    disk,      \* addresses stored in LMDB
    cache,     \* VerifiedCache: LRU of addresses
    pools,     \* pool_cache: LRU of pools
    metrics,   \* QuotingMetricsTracker: stored and payments, in memory
    ops,       \* ops_since_persist
    saved,     \* the metrics file, or NoFile
    chain,     \* the payment contracts: paid addresses and paid pools
    pc,        \* per task: idle, recv, pay, rpc, poolrpc, store, count, bill, reply
    req,       \* per task: the request
    resp,      \* per task: the response being sent
    boot,      \* entries of the store and of the metrics at start (history)
    acked,     \* addresses some client was told are stored (history)
    requests   \* requests received so far (bound)

vars == <<disk, cache, pools, metrics, ops, saved, chain, pc, req, resp,
          boot, acked, requests>>

Response == {"none", "success", "already_exists", "error", "payment_failed",
             "found", "not_found", "quoted", "quoted_stored"}

Stage == {"idle", "recv", "pay", "rpc", "poolrpc", "store", "count", "bill",
          "reply"}

\* What the payment contracts record as paid.
PaidFor == chain.addrs \cup UNION {Tree[p] : p \in chain.pools}

TypeOK ==
    /\ disk \subseteq Addr
    /\ cache \in Seq(Addr)
    /\ pools \in Seq(Pool)
    /\ metrics \in Metrics
    /\ ops \in Nat
    /\ saved \in Metrics \cup {NoFile}
    /\ chain \in [addrs : SUBSET Addr, pools : SUBSET Pool]
    /\ pc \in [Slot -> Stage]
    /\ req \in [Slot -> Request]
    /\ resp \in [Slot -> Response]
    /\ boot \in [disk : Nat, stored : Nat]
    /\ acked \subseteq Addr
    /\ requests \in Nat

Init ==
    /\ disk = {}
    /\ cache = << >>
    /\ pools = << >>
    /\ metrics = [stored |-> 0, payments |-> 0]
    /\ ops = 0
    /\ saved = NoFile
    /\ chain = [addrs |-> {}, pools |-> {}]
    /\ pc = [s \in Slot |-> "idle"]
    /\ req = [s \in Slot |-> CHOOSE r \in Requests : TRUE]
    /\ resp = [s \in Slot |-> "none"]
    /\ boot = [disk |-> 0, stored |-> 0]
    /\ acked = {}
    /\ requests = 0

-----------------------------------------------------------------------------
Goto(s, l) == pc' = [pc EXCEPT ![s] = l]

Answer(s, r) == Goto(s, "reply") /\ resp' = [resp EXCEPT ![s] = r]

node == <<disk, cache, pools, metrics, ops, saved>>

outside == <<chain, boot, acked, requests>>

\* A payment is recorded by the contracts (external): for one address, or for
\* a merkle pool.
PayAddr(a) ==
    /\ chain' = [chain EXCEPT !.addrs = @ \cup {a}]
    /\ UNCHANGED <<node, pc, req, resp, boot, acked, requests>>

PayPool(p) ==
    /\ chain' = [chain EXCEPT !.pools = @ \cup {p}]
    /\ UNCHANGED <<node, pc, req, resp, boot, acked, requests>>

\* try_handle_request: decode and dispatch.
Receive(s) ==
    /\ pc[s] = "idle"
    /\ requests < MaxRequests
    /\ \E r \in Requests : req' = [req EXCEPT ![s] = r]
    /\ Goto(s, "recv")
    /\ requests' = requests + 1
    /\ UNCHANGED <<node, chain, resp, boot, acked>>

\* Response messages are never answered.
Ignore(s) ==
    /\ pc[s] = "recv" /\ req[s].op = "response"
    /\ Goto(s, "idle")
    /\ UNCHANGED <<node, outside, req, resp>>

\* handle_put, steps 1-3: size, content address, already stored.
PutValidate(s) ==
    LET r == req[s]
    IN  /\ pc[s] = "recv" /\ r.op = "put"
        /\ \/ Answer(s, "error")
           \/ r.body = "ok" /\ r.addr \in disk /\ Answer(s, "already_exists")
           \/ r.body = "ok" /\ r.addr \notin disk /\ Goto(s, "pay") /\ UNCHANGED resp
        /\ UNCHANGED <<node, outside, req>>

\* verify_payment up to the chain query: cached, refused, or to be asked.
CheckPayment(s) ==
    LET r == req[s]
        p == r.proof
        bound == p.addr = r.addr
    IN  /\ pc[s] = "pay"
        /\ \/ /\ r.addr \in Entries(cache)
              /\ cache' = Touch(cache, r.addr)
              /\ Goto(s, "store")
              /\ UNCHANGED <<resp, pools>>
           \/ /\ r.addr \notin Entries(cache)
              /\ \/ p.kind = "none"
                 \/ ~bound
                 \/ p.kind = "single" /\ ~p.sound
              /\ Answer(s, "payment_failed")
              /\ UNCHANGED <<cache, pools>>
           \/ /\ r.addr \notin Entries(cache)
              /\ p.kind = "single" /\ bound /\ p.sound
              /\ Goto(s, "rpc")
              /\ UNCHANGED <<resp, cache, pools>>
           \/ /\ r.addr \notin Entries(cache)
              /\ p.kind = "merkle" /\ bound /\ p.pool \notin Entries(pools)
              /\ Goto(s, "poolrpc")
              /\ UNCHANGED <<resp, cache, pools>>
           \/ /\ r.addr \notin Entries(cache)
              /\ p.kind = "merkle" /\ bound /\ p.pool \in Entries(pools)
              /\ pools' = Touch(pools, p.pool)
              /\ \/ /\ p.sound /\ r.addr \in Tree[p.pool]
                    /\ cache' = Insert(cache, r.addr, CacheCap)
                    /\ Goto(s, "store")
                    /\ UNCHANGED resp
                 \/ /\ ~(p.sound /\ r.addr \in Tree[p.pool])
                    /\ Answer(s, "payment_failed")
                    /\ UNCHANGED cache
        /\ UNCHANGED <<disk, metrics, ops, saved, outside, req>>

\* Mutant: an unpaid quote is polled until it is paid.
VerifyEvmWaits(s) ==
    /\ pc[s] = "rpc" /\ req[s].addr \in chain.addrs
    /\ cache' = Insert(cache, req[s].addr, CacheCap)
    /\ Goto(s, "store")
    /\ UNCHANGED <<disk, pools, metrics, ops, saved, outside, req, resp>>

\* verify_evm_payment: the answer of the payment vault, then the cache.
VerifyEvm(s) ==
    LET a == req[s].addr
    IN  /\ pc[s] = "rpc"
        /\ \/ /\ a \in chain.addrs
              /\ cache' = Insert(cache, a, CacheCap)
              /\ Goto(s, "store")
              /\ UNCHANGED resp
           \/ \* unpaid, or the query failed
              /\ Answer(s, "payment_failed")
              /\ UNCHANGED cache
        /\ UNCHANGED <<disk, pools, metrics, ops, saved, outside, req>>

\* Mutant: a pool that was paid for pays for any address.
VerifyMerkleNoPath(s) ==
    LET a == req[s].addr
        p == req[s].proof
    IN  /\ pc[s] = "poolrpc" /\ p.pool \in chain.pools
        /\ pools' = Insert(pools, p.pool, PoolCap)
        /\ cache' = Insert(cache, a, CacheCap)
        /\ Goto(s, "store")
        /\ UNCHANGED <<disk, metrics, ops, saved, outside, req, resp>>

\* verify_merkle_payment: the pool's payment record is cached before the
\* signatures and the merkle path of this proof are checked.
VerifyMerkle(s) ==
    LET a == req[s].addr
        p == req[s].proof
    IN  /\ pc[s] = "poolrpc"
        /\ \/ /\ p.pool \in chain.pools
              /\ pools' = Insert(pools, p.pool, PoolCap)
              /\ \/ /\ p.sound /\ a \in Tree[p.pool]
                    /\ cache' = Insert(cache, a, CacheCap)
                    /\ Goto(s, "store")
                    /\ UNCHANGED resp
                 \/ /\ ~(p.sound /\ a \in Tree[p.pool])
                    /\ Answer(s, "payment_failed")
                    /\ UNCHANGED cache
           \/ /\ Answer(s, "payment_failed")
              /\ UNCHANGED <<cache, pools>>
        /\ UNCHANGED <<disk, metrics, ops, saved, outside, req>>

\* Mutant: a failed write is reported as success.
StoreIgnoresError(s) ==
    /\ pc[s] = "store"
    /\ disk' = IF MaxChunks > 0 /\ Cardinality(disk) >= MaxChunks THEN disk
               ELSE disk \cup {req[s].addr}
    /\ Goto(s, "count")
    /\ UNCHANGED <<cache, pools, metrics, ops, saved, outside, req, resp>>

\* handle_put, step 5: storage.put; new and duplicate take the same path.
Store(s) ==
    LET a == req[s].addr
    IN  /\ pc[s] = "store"
        /\ \/ /\ \/ a \in disk
                 \/ MaxChunks = 0
                 \/ Cardinality(disk) < MaxChunks
              /\ disk' = disk \cup {a}
              /\ Goto(s, "count")
              /\ UNCHANGED resp
           \/ \* the store is full, or LMDB failed
              /\ Answer(s, "error")
              /\ UNCHANGED disk
        /\ UNCHANGED <<cache, pools, metrics, ops, saved, outside, req>>

\* Mutant: the counters start at the second record.
RecordStoreLate(s) ==
    /\ pc[s] = "count"
    /\ metrics' = IF ops = 0 THEN metrics ELSE [metrics EXCEPT !.stored = @ + 1]
    /\ ops' = ops + 1
    /\ Goto(s, "bill")
    /\ UNCHANGED <<disk, cache, pools, saved, outside, req, resp>>

\* maybe_persist: the metrics m are written every PersistInterval operations.
MaybePersist(m) ==
    /\ ops' = ops + 1
    /\ saved' = IF ops % PersistInterval = 0 THEN m ELSE saved

RecordStore(s) ==
    /\ pc[s] = "count"
    /\ metrics' = [metrics EXCEPT !.stored = @ + 1]
    /\ MaybePersist(metrics')
    /\ Goto(s, "bill")
    /\ UNCHANGED <<disk, cache, pools, outside, req, resp>>

RecordPayment(s) ==
    /\ pc[s] = "bill"
    /\ metrics' = [metrics EXCEPT !.payments = @ + 1]
    /\ MaybePersist(metrics')
    /\ Answer(s, "success")
    /\ UNCHANGED <<disk, cache, pools, outside, req>>

\* handle_get.
HandleGet(s) ==
    /\ pc[s] = "recv" /\ req[s].op = "get"
    /\ \/ Answer(s, IF req[s].addr \in disk THEN "found" ELSE "not_found")
       \/ Answer(s, "error")
    /\ UNCHANGED <<node, outside, req>>

\* handle_quote: a failed existence check counts as not stored.
HandleQuote(s) ==
    /\ pc[s] = "recv" /\ req[s].op = "quote"
    /\ \/ /\ req[s].body # "too_large"
          /\ Answer(s, IF req[s].addr \in disk THEN "quoted_stored" ELSE "quoted")
       \/ /\ req[s].body # "too_large"
          /\ Answer(s, "quoted")
       \/ Answer(s, "error")
    /\ UNCHANGED <<node, outside, req>>

HandleMerkleQuote(s) ==
    /\ pc[s] = "recv" /\ req[s].op = "merkle_quote"
    /\ \/ req[s].body # "too_large" /\ Answer(s, "quoted")
       \/ Answer(s, "error")
    /\ UNCHANGED <<node, outside, req>>

\* The response reaches the client; none is sent when it cannot be encoded.
Reply(s) ==
    /\ pc[s] = "reply"
    /\ \/ UNCHANGED acked
       \/ /\ resp[s] \in {"success", "already_exists", "quoted_stored", "found"}
          /\ acked' = acked \cup {req[s].addr}
    /\ resp' = [resp EXCEPT ![s] = "none"]
    /\ Goto(s, "idle")
    /\ UNCHANGED <<node, chain, req, boot, requests>>

\* The process dies and starts again: tasks and caches are gone, LMDB is not,
\* the metrics are what the file says; a write of the file may have been cut.
Crash ==
    /\ cache' = << >>
    /\ pools' = << >>
    /\ \/ UNCHANGED saved
       \/ (\E s \in Slot : pc[s] \in {"count", "bill"}) /\ saved' = NoFile
    /\ metrics' = IF saved' = NoFile THEN [stored |-> 0, payments |-> 0] ELSE saved'
    /\ ops' = 0
    /\ pc' = [s \in Slot |-> "idle"]
    /\ resp' = [s \in Slot |-> "none"]
    /\ boot' = [disk |-> Cardinality(disk), stored |-> metrics'.stored]
    /\ UNCHANGED <<disk, chain, req, acked, requests>>

\* A clean shutdown drops the tracker, which persists the metrics.
Shutdown ==
    /\ \A s \in Slot : pc[s] = "idle"
    /\ saved' = metrics
    /\ ops' = 0
    /\ cache' = << >>
    /\ pools' = << >>
    /\ boot' = [disk |-> Cardinality(disk), stored |-> metrics.stored]
    /\ UNCHANGED <<disk, metrics, chain, acked, requests, pc, req, resp>>

Handle(s) ==
    \/ Ignore(s) \/ PutValidate(s) \/ CheckPayment(s) \/ VerifyEvm(s)
    \/ VerifyMerkle(s) \/ Store(s) \/ RecordStore(s) \/ RecordPayment(s)
    \/ HandleGet(s) \/ HandleQuote(s) \/ HandleMerkleQuote(s) \/ Reply(s)

Next ==
    \/ \E s \in Slot : Receive(s) \/ Handle(s)
    \/ \E a \in Addr : PayAddr(a)
    \/ \E p \in Pool : PayPool(p)
    \/ Crash
    \/ Shutdown

Spec == Init /\ [][Next]_vars

\* Every task of the runtime makes progress; the chain queries return, with
\* an answer or an error.
FairSpec == Spec /\ \A s \in Slot : WF_vars(Handle(s))
-----------------------------------------------------------------------------
\* No chunk is stored that nobody paid for: not through a cache entry made
\* for another proof, a pool that does not contain the address, or a task
\* that was overtaken (handler.rs, "verify payment" before "store chunk").
PaidBeforeStored == disk \subseteq PaidFor

\* What a client was told is stored stays stored, whatever crashed since:
\* Success is sent only after the LMDB commit, and nothing deletes.
AckedIsDurable == acked \subseteq disk

Counting == {s \in Slot : pc[s] = "count"}

\* The quoting metrics never fall behind what this process stored: a stored
\* chunk has been counted, or its task is about to count it (a price must
\* not be computed from too low a fill level; metrics.rs, record_store).
NeverUndercounts ==
    Cardinality(disk) + boot.stored
        <= boot.disk + metrics.stored + Cardinality(Counting)

\* Every request is handled to its end: its task never stays in a step, whatever
\* the storage, the chain queries and the encoder of the response do.
Answered == \A s \in Slot : pc[s] = "recv" ~> pc[s] = "idle"
=============================================================================
