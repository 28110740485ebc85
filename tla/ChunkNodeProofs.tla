-------------------------- MODULE ChunkNodeProofs --------------------------
(***************************************************************************)
(* A node stores nothing that was not paid for, never loses what it        *)
(* acknowledged and never counts less than it stored, for any number of    *)
(* concurrent requests, any caches, any pools and any sequence of crashes. *)
(***************************************************************************)
EXTENDS ChunkNode, FiniteSetTheorems, TLAPS

\* Touching an entry adds none.
LEMMA TouchEntries ==
    ASSUME NEW S, NEW q \in Seq(S), NEW x \in Entries(q)
    PROVE  Touch(q, x) \in Seq(S) /\ Entries(Touch(q, x)) \subseteq Entries(q)
<1>1. PICK k \in 1 .. Len(q) : q[k] = x
  BY DEF Entries
<1> DEFINE i == CHOOSE j \in 1 .. Len(q) : q[j] = x
           t == [j \in 1 .. Len(q) |-> IF j = 1 THEN x ELSE IF j <= i THEN q[j - 1] ELSE q[j]]
<1>2. i \in 1 .. Len(q) /\ q[i] = x
  BY <1>1
<1> HIDE DEF i
<1>3. \A j \in 1 .. Len(q) : t[j] \in Entries(q) /\ t[j] \in S
  BY <1>2 DEF Entries
<1>4. t \in Seq(S) /\ Len(t) = Len(q)
  BY <1>3
<1>5. Touch(q, x) = t
  BY DEF Touch, i
<1> QED
  BY <1>3, <1>4, <1>5 DEF Entries

\* Inserting x adds no entry but x.
LEMMA InsertEntries ==
    ASSUME NEW S, NEW q \in Seq(S), NEW x \in S, NEW cap \in Nat \ {0}
    PROVE  Insert(q, x, cap) \in Seq(S) /\ Entries(Insert(q, x, cap)) \subseteq Entries(q) \cup {x}
<1>1. CASE x \in Entries(q)
  BY <1>1, TouchEntries DEF Insert
<1>2. CASE x \notin Entries(q)
  <2> DEFINE n == IF Len(q) < cap THEN Len(q) + 1 ELSE cap
             t == [j \in 1 .. n |-> IF j = 1 THEN x ELSE q[j - 1]]
  <2>1. n \in Nat /\ n <= Len(q) + 1
    OBVIOUS
  <2> HIDE DEF n
  <2>2. \A j \in 1 .. n : t[j] \in Entries(q) \cup {x} /\ t[j] \in S
    BY <2>1 DEF Entries
  <2>3. t \in Seq(S) /\ Len(t) = n
    BY <2>1, <2>2
  <2>4. Insert(q, x, cap) = t
    BY <1>2 DEF Insert, n
  <2> HIDE DEF t
  <2>5. Entries(t) \subseteq Entries(q) \cup {x}
    <3> SUFFICES ASSUME NEW j \in 1 .. Len(t) PROVE t[j] \in Entries(q) \cup {x}
      BY DEF Entries
    <3> QED
      BY <2>2, <2>3
  <2> QED
    BY <2>3, <2>4, <2>5
<1> QED
  BY <1>1, <1>2

-----------------------------------------------------------------------------
\* The initial state is well typed.
LEMMA InitType == Init => TypeOK
<1> SUFFICES ASSUME Init PROVE TypeOK
  OBVIOUS
<1> DEFINE first == CHOOSE r \in Requests : TRUE
<1>1. first \in Request
  BY RequestsAssumption
<1>2. req = [s \in Slot |-> first]
  BY DEF Init
<1> HIDE DEF first
<1>3. req \in [Slot -> Request]
  BY <1>1, <1>2
<1>4. cache \in Seq(Addr) /\ pools \in Seq(Pool)
  BY DEF Init
<1>5. metrics \in Metrics /\ chain \in [addrs : SUBSET Addr, pools : SUBSET Pool]
      /\ boot \in [disk : Nat, stored : Nat]
  BY DEF Init, Metrics
<1>6. pc \in [Slot -> Stage] /\ resp \in [Slot -> Response]
  BY DEF Init, Stage, Response
<1> QED
  BY <1>3, <1>4, <1>5, <1>6 DEF Init, TypeOK

\* The parts of a request.
LEMMA RequestParts ==
    ASSUME TypeOK, NEW s \in Slot
    PROVE  /\ req[s] \in Request /\ req[s].addr \in Addr
           /\ req[s].proof.pool \in Pool
BY DEF TypeOK, Request, Proof

\* The steps that fill the caches keep the types.
LEMMA VerifyType ==
    ASSUME TypeOK, NEW s \in Slot, CheckPayment(s) \/ VerifyEvm(s) \/ VerifyMerkle(s)
    PROVE  TypeOK'
<1> DEFINE a == req[s].addr
           p == req[s].proof
<1>0. a \in Addr /\ p.pool \in Pool /\ cache \in Seq(Addr) /\ pools \in Seq(Pool)
  BY RequestParts DEF TypeOK
<1>1. UNCHANGED <<disk, metrics, ops, saved, chain, boot, acked, requests, req>>
  BY DEF CheckPayment, VerifyEvm, VerifyMerkle, outside
<1>2. pc' \in [Slot -> Stage] /\ resp' \in [Slot -> Response]
  <2>1. \/ Goto(s, "store") /\ UNCHANGED resp
        \/ Goto(s, "rpc") /\ UNCHANGED resp
        \/ Goto(s, "poolrpc") /\ UNCHANGED resp
        \/ Answer(s, "payment_failed")
    BY DEF CheckPayment, VerifyEvm, VerifyMerkle
  <2> QED
    BY <2>1 DEF TypeOK, Goto, Answer, Stage, Response
<1>3. cache' \in Seq(Addr)
  <2>1. \/ cache' = cache
        \/ cache' = Insert(cache, a, CacheCap)
        \/ cache' = Touch(cache, a) /\ a \in Entries(cache)
    BY DEF CheckPayment, VerifyEvm, VerifyMerkle
  <2> QED
    BY <2>1, <1>0, TouchEntries, InsertEntries, CapAssumption
<1>4. pools' \in Seq(Pool)
  <2>1. \/ pools' = pools
        \/ pools' = Insert(pools, p.pool, PoolCap)
        \/ pools' = Touch(pools, p.pool) /\ p.pool \in Entries(pools)
    BY DEF CheckPayment, VerifyEvm, VerifyMerkle
  <2> QED
    BY <2>1, <1>0, TouchEntries, InsertEntries, CapAssumption
<1> QED
  BY <1>1, <1>2, <1>3, <1>4 DEF TypeOK

\* Storing and counting keep the types.
LEMMA RecordType ==
    ASSUME TypeOK, NEW s \in Slot, Store(s) \/ RecordStore(s) \/ RecordPayment(s)
    PROVE  TypeOK'
<1>1. CASE Store(s)
  <2>1. pc' \in [Slot -> Stage] /\ resp' \in [Slot -> Response]
    BY <1>1 DEF Store, TypeOK, Goto, Answer, Stage, Response
  <2>2. disk' \subseteq Addr
    BY <1>1, RequestParts DEF Store, TypeOK
  <2> QED
    BY <1>1, <2>1, <2>2 DEF Store, TypeOK, outside
<1>2. CASE RecordStore(s) \/ RecordPayment(s)
  <2>1. pc' \in [Slot -> Stage] /\ resp' \in [Slot -> Response]
    BY <1>2 DEF RecordStore, RecordPayment, TypeOK, Goto, Answer, Stage, Response
  <2>2. metrics' \in Metrics
    BY <1>2 DEF RecordStore, RecordPayment, TypeOK, Metrics
  <2>3. MaybePersist(metrics')
    BY <1>2 DEF RecordStore, RecordPayment
  <2>4. ops' \in Nat /\ saved' \in Metrics \cup {NoFile}
    BY <2>2, <2>3 DEF MaybePersist, TypeOK
  <2>5. UNCHANGED <<disk, cache, pools, chain, boot, acked, requests, req>>
    BY <1>2 DEF RecordStore, RecordPayment, outside
  <2> QED
    BY <2>1, <2>2, <2>4, <2>5 DEF TypeOK
<1> QED
  BY <1>1, <1>2

\* A restart keeps the types.
LEMMA RestartType == ASSUME TypeOK, Crash \/ Shutdown PROVE TypeOK'
<1>0. Cardinality(disk) \in Nat
  BY FiniteAssumption, FS_Subset, FS_CardinalityType DEF TypeOK
<1>1. << >> \in Seq(Addr) /\ << >> \in Seq(Pool)
  OBVIOUS
<1>2. CASE Crash
  <2>1. saved' \in Metrics \cup {NoFile}
    BY <1>2 DEF Crash, TypeOK
  <2>2. metrics' \in Metrics
    BY <1>2, <2>1 DEF Crash, Metrics
  <2>3. boot' \in [disk : Nat, stored : Nat]
    BY <1>0, <1>2, <2>2 DEF Crash, Metrics
  <2>4. pc' \in [Slot -> Stage] /\ resp' \in [Slot -> Response]
    BY <1>2 DEF Crash, Stage, Response
  <2> QED
    BY <1>1, <1>2, <2>1, <2>2, <2>3, <2>4 DEF Crash, TypeOK
<1>3. CASE Shutdown
  <2>1. boot' \in [disk : Nat, stored : Nat]
    BY <1>0, <1>3 DEF Shutdown, Metrics, TypeOK
  <2> QED
    BY <1>1, <1>3, <2>1 DEF Shutdown, TypeOK
<1> QED
  BY <1>2, <1>3

\* Every step keeps the types.
LEMMA NextType == TypeOK /\ [Next]_vars => TypeOK'
<1> SUFFICES ASSUME TypeOK, [Next]_vars PROVE TypeOK'
  OBVIOUS
<1>1. CASE UNCHANGED vars
  BY <1>1 DEF vars, TypeOK
<1>2. ASSUME NEW s \in Slot, Receive(s) PROVE TypeOK'
  <2>1. req' \in [Slot -> Request] /\ pc' \in [Slot -> Stage]
    BY <1>2, RequestsAssumption DEF Receive, TypeOK, Goto, Stage
  <2> QED
    BY <1>2, <2>1 DEF Receive, TypeOK, node
<1>3. ASSUME NEW s \in Slot,
             Ignore(s) \/ PutValidate(s) \/ HandleGet(s) \/ HandleQuote(s)
                 \/ HandleMerkleQuote(s)
      PROVE  TypeOK'
  <2>1. pc' \in [Slot -> Stage] /\ resp' \in [Slot -> Response]
    BY <1>3 DEF Ignore, PutValidate, HandleGet, HandleQuote, HandleMerkleQuote, TypeOK,
                Goto, Answer, Stage, Response
  <2>2. UNCHANGED <<node, outside, req>>
    BY <1>3 DEF Ignore, PutValidate, HandleGet, HandleQuote, HandleMerkleQuote
  <2> QED
    BY <2>1, <2>2 DEF TypeOK, node, outside
<1>4. ASSUME NEW s \in Slot, Reply(s) PROVE TypeOK'
  <2>1. pc' \in [Slot -> Stage] /\ resp' \in [Slot -> Response] /\ acked' \subseteq Addr
    BY <1>4, RequestParts DEF Reply, TypeOK, Goto, Stage, Response
  <2> QED
    BY <1>4, <2>1 DEF Reply, TypeOK, node
<1>5. ASSUME NEW a \in Addr, PayAddr(a) PROVE TypeOK'
  <2>1. chain' \in [addrs : SUBSET Addr, pools : SUBSET Pool]
    BY <1>5 DEF PayAddr, TypeOK
  <2> QED
    BY <1>5, <2>1 DEF PayAddr, TypeOK, node
<1>6. ASSUME NEW p \in Pool, PayPool(p) PROVE TypeOK'
  <2>1. chain' \in [addrs : SUBSET Addr, pools : SUBSET Pool]
    BY <1>6 DEF PayPool, TypeOK
  <2> QED
    BY <1>6, <2>1 DEF PayPool, TypeOK, node
<1> QED
  BY <1>1, <1>2, <1>3, <1>4, <1>5, <1>6, VerifyType, RecordType, RestartType
     DEF Next, Handle

\* Every variable of the node keeps its type (ant-node's request path).
THEOREM TypeCorrect == Spec => []TypeOK
BY InitType, NextType, PTL DEF Spec

-----------------------------------------------------------------------------
\* Both caches hold only what the chain confirmed, a task that is about to
\* write has an address that was paid for, and so has every stored chunk.
PaidInv ==
    /\ Entries(cache) \subseteq PaidFor
    /\ Entries(pools) \subseteq chain.pools
    /\ \A s \in Slot : pc[s] = "store" => req[s].addr \in PaidFor
    /\ disk \subseteq PaidFor

\* What is acknowledged, and what is about to be, is stored.
DurableInv ==
    /\ \A s \in Slot : pc[s] \in {"count", "bill"} => req[s].addr \in disk
    /\ \A s \in Slot :
          (pc[s] = "reply" /\ resp[s] \in {"success", "already_exists", "quoted_stored", "found"})
              => req[s].addr \in disk
    /\ acked \subseteq disk

\* A payment only adds to what was paid for.
LEMMA PaymentGrows ==
    ASSUME TypeOK, PaidInv,
           chain' \in [addrs : SUBSET Addr, pools : SUBSET Pool],
           chain.addrs \subseteq chain'.addrs, chain.pools \subseteq chain'.pools,
           UNCHANGED <<node, pc, req>>
    PROVE  PaidInv'
<1>1. PaidFor \subseteq PaidFor'
  BY DEF PaidFor
<1> QED
  BY <1>1 DEF PaidInv, node

\* The verification steps: whatever enters a cache, and whoever goes on to
\* write, was confirmed by the chain.
LEMMA VerifyPaid ==
    ASSUME TypeOK, PaidInv, NEW s \in Slot,
           CheckPayment(s) \/ VerifyEvm(s) \/ VerifyMerkle(s)
    PROVE  PaidInv'
<1> DEFINE a == req[s].addr
           p == req[s].proof
<1>0. /\ a \in Addr /\ p.pool \in Pool /\ cache \in Seq(Addr) /\ pools \in Seq(Pool)
      /\ pc \in [Slot -> Stage]
  BY RequestParts DEF TypeOK
<1>1. UNCHANGED <<disk, chain, req>>
  BY DEF CheckPayment, VerifyEvm, VerifyMerkle, outside
<1>2. PaidFor' = PaidFor
  BY <1>1 DEF PaidFor
<1>3. \/ cache' = cache
      \/ cache' = Touch(cache, a) /\ a \in Entries(cache)
      \/ cache' = Insert(cache, a, CacheCap) /\ a \in PaidFor
  <2>1. CASE CheckPayment(s)
    BY <2>1 DEF CheckPayment, PaidInv, PaidFor
  <2>2. CASE VerifyEvm(s)
    BY <2>2 DEF VerifyEvm, PaidFor
  <2>3. CASE VerifyMerkle(s)
    BY <2>3 DEF VerifyMerkle, PaidFor
  <2> QED
    BY <2>1, <2>2, <2>3
<1>4. Entries(cache') \subseteq PaidFor
  BY <1>0, <1>3, TouchEntries, InsertEntries, CapAssumption DEF PaidInv
<1>5. \/ pools' = pools
      \/ pools' = Touch(pools, p.pool) /\ p.pool \in Entries(pools)
      \/ pools' = Insert(pools, p.pool, PoolCap) /\ p.pool \in chain.pools
  BY DEF CheckPayment, VerifyEvm, VerifyMerkle
<1>6. Entries(pools') \subseteq chain.pools
  <2>1. Entries(pools) \subseteq chain.pools
    BY DEF PaidInv
  <2>2. CASE pools' = Touch(pools, p.pool) /\ p.pool \in Entries(pools)
    BY <1>0, <2>1, <2>2, TouchEntries
  <2>3. CASE pools' = Insert(pools, p.pool, PoolCap) /\ p.pool \in chain.pools
    <3>1. Entries(Insert(pools, p.pool, PoolCap)) \subseteq Entries(pools) \cup {p.pool}
      BY <1>0, InsertEntries, CapAssumption
    <3> QED
      BY <2>1, <2>3, <3>1
  <2> QED
    BY <1>5, <2>1, <2>2, <2>3
<1>7. pc'[s] = "store" => a \in PaidFor
  <2>1. CASE CheckPayment(s)
    BY <1>0, <2>1 DEF CheckPayment, PaidInv, PaidFor, Goto, Answer
  <2>2. CASE VerifyEvm(s)
    BY <1>0, <2>2 DEF VerifyEvm, PaidFor, Goto, Answer
  <2>3. CASE VerifyMerkle(s)
    BY <1>0, <2>3 DEF VerifyMerkle, PaidFor, Goto, Answer
  <2> QED
    BY <2>1, <2>2, <2>3
<1>8. \A r \in Slot \ {s} : pc'[r] = pc[r]
  <2>1. \E l \in Stage : pc' = [pc EXCEPT ![s] = l]
    BY DEF CheckPayment, VerifyEvm, VerifyMerkle, Goto, Answer, Stage
  <2> QED
    BY <1>0, <2>1
<1> QED
  BY <1>1, <1>2, <1>4, <1>6, <1>7, <1>8 DEF PaidInv

\* Every step of the node keeps PaidInv.
LEMMA NextPaid == TypeOK /\ PaidInv /\ [Next]_vars => PaidInv'
<1> SUFFICES ASSUME TypeOK, PaidInv, [Next]_vars PROVE PaidInv'
  OBVIOUS
<1>0. pc \in [Slot -> Stage] /\ req \in [Slot -> Request]
  BY DEF TypeOK
<1>1. CASE UNCHANGED vars
  BY <1>1 DEF vars, PaidInv, PaidFor
<1>2. ASSUME NEW s \in Slot, Receive(s) PROVE PaidInv'
  <2>1. UNCHANGED <<disk, cache, pools, chain>> /\ pc'[s] = "recv"
        /\ \A r \in Slot \ {s} : pc'[r] = pc[r] /\ req'[r] = req[r]
    BY <1>0, <1>2 DEF Receive, Goto, node
  <2> QED
    BY <2>1 DEF PaidInv, PaidFor
<1>3. ASSUME NEW s \in Slot,
             Ignore(s) \/ PutValidate(s) \/ HandleGet(s) \/ HandleQuote(s)
                 \/ HandleMerkleQuote(s) \/ Reply(s) \/ RecordStore(s) \/ RecordPayment(s)
      PROVE  PaidInv'
  <2>1. UNCHANGED <<disk, cache, pools, chain, req>> /\ pc'[s] # "store"
        /\ \A r \in Slot \ {s} : pc'[r] = pc[r]
    BY <1>0, <1>3 DEF Ignore, PutValidate, HandleGet, HandleQuote, HandleMerkleQuote, Reply,
       RecordStore, RecordPayment, Goto, Answer, node, outside
  <2> QED
    BY <2>1 DEF PaidInv, PaidFor
<1>4. ASSUME NEW s \in Slot, Store(s) PROVE PaidInv'
  <2>1. UNCHANGED <<cache, pools, chain, req>> /\ pc[s] = "store" /\ pc'[s] # "store"
        /\ disk' \subseteq disk \cup {req[s].addr}
        /\ \A r \in Slot \ {s} : pc'[r] = pc[r]
    BY <1>0, <1>4 DEF Store, Goto, Answer, outside
  <2> QED
    BY <2>1 DEF PaidInv, PaidFor
<1>5. ASSUME NEW a \in Addr, PayAddr(a) PROVE PaidInv'
  <2>1. chain' \in [addrs : SUBSET Addr, pools : SUBSET Pool]
        /\ chain.addrs \subseteq chain'.addrs /\ chain.pools \subseteq chain'.pools
    BY <1>5 DEF PayAddr, TypeOK
  <2> QED
    BY <1>5, <2>1, PaymentGrows DEF PayAddr
<1>6. ASSUME NEW p \in Pool, PayPool(p) PROVE PaidInv'
  <2>1. chain' \in [addrs : SUBSET Addr, pools : SUBSET Pool]
        /\ chain.addrs \subseteq chain'.addrs /\ chain.pools \subseteq chain'.pools
    BY <1>6 DEF PayPool, TypeOK
  <2> QED
    BY <1>6, <2>1, PaymentGrows DEF PayPool
<1>7. CASE Crash \/ Shutdown
  <2>1. UNCHANGED <<disk, chain, req>> /\ cache' = << >> /\ pools' = << >>
        /\ \A s \in Slot : pc'[s] = "idle"
    BY <1>7 DEF Crash, Shutdown
  <2>2. Entries(<< >>) = {}
    BY DEF Entries
  <2> QED
    BY <2>1, <2>2 DEF PaidInv, PaidFor
<1> QED
  BY <1>1, <1>2, <1>3, <1>4, <1>5, <1>6, <1>7, VerifyPaid DEF Next, Handle

\* Every step of the node keeps DurableInv.
LEMMA NextDurable == TypeOK /\ DurableInv /\ [Next]_vars => DurableInv'
<1> SUFFICES ASSUME TypeOK, DurableInv, [Next]_vars PROVE DurableInv'
  OBVIOUS
<1>0. pc \in [Slot -> Stage] /\ req \in [Slot -> Request] /\ resp \in [Slot -> Response]
  BY DEF TypeOK
<1>1. CASE UNCHANGED vars
  BY <1>1 DEF vars, DurableInv
<1>2. ASSUME NEW s \in Slot, Receive(s) PROVE DurableInv'
  <2>1. UNCHANGED <<disk, acked, resp>> /\ pc'[s] = "recv"
        /\ \A r \in Slot \ {s} : pc'[r] = pc[r] /\ req'[r] = req[r]
    BY <1>0, <1>2 DEF Receive, Goto, node
  <2> QED
    BY <2>1 DEF DurableInv
<1>3. ASSUME NEW s \in Slot,
             Ignore(s) \/ PutValidate(s) \/ HandleGet(s) \/ HandleQuote(s)
                 \/ HandleMerkleQuote(s) \/ CheckPayment(s) \/ VerifyEvm(s) \/ VerifyMerkle(s)
      PROVE  DurableInv'
  <2>1. UNCHANGED <<disk, acked, req>> /\ pc'[s] \notin {"count", "bill"}
        /\ \A r \in Slot \ {s} : pc'[r] = pc[r] /\ resp'[r] = resp[r]
    BY <1>0, <1>3 DEF Ignore, PutValidate, HandleGet, HandleQuote, HandleMerkleQuote,
       CheckPayment, VerifyEvm, VerifyMerkle, Goto, Answer, node, outside
  <2>2. (pc'[s] = "reply" /\ resp'[s] \in {"success", "already_exists", "quoted_stored", "found"})
            => req[s].addr \in disk
    BY <1>0, <1>3 DEF Ignore, PutValidate, HandleGet, HandleQuote, HandleMerkleQuote,
       CheckPayment, VerifyEvm, VerifyMerkle, Goto, Answer
  <2> QED
    BY <2>1, <2>2 DEF DurableInv
<1>4. ASSUME NEW s \in Slot, Store(s) PROVE DurableInv'
  <2>1. UNCHANGED <<acked, req>> /\ disk \subseteq disk'
        /\ \A r \in Slot \ {s} : pc'[r] = pc[r] /\ resp'[r] = resp[r]
    BY <1>0, <1>4 DEF Store, Goto, Answer, outside
  <2>2. (pc'[s] = "count" /\ req[s].addr \in disk') \/ (pc'[s] = "reply" /\ resp'[s] = "error")
    BY <1>0, <1>4 DEF Store, Goto, Answer
  <2> QED
    BY <2>1, <2>2 DEF DurableInv
<1>5. ASSUME NEW s \in Slot, RecordStore(s) \/ RecordPayment(s) PROVE DurableInv'
  <2>1. UNCHANGED <<disk, acked, req>> /\ pc[s] \in {"count", "bill"}
        /\ \A r \in Slot \ {s} : pc'[r] = pc[r] /\ resp'[r] = resp[r]
    BY <1>0, <1>5 DEF RecordStore, RecordPayment, Goto, Answer, outside
  <2> QED
    BY <2>1 DEF DurableInv
<1>6. ASSUME NEW s \in Slot, Reply(s) PROVE DurableInv'
  <2>1. UNCHANGED <<disk, req>> /\ pc'[s] = "idle"
        /\ \A r \in Slot \ {s} : pc'[r] = pc[r] /\ resp'[r] = resp[r]
    BY <1>0, <1>6 DEF Reply, Goto, node
  <2>2. acked' \subseteq disk
    BY <1>6 DEF Reply, DurableInv
  <2> QED
    BY <2>1, <2>2 DEF DurableInv
<1>7. ASSUME NEW a, PayAddr(a) \/ PayPool(a) PROVE DurableInv'
  BY <1>7 DEF PayAddr, PayPool, DurableInv, node
<1>8. CASE Crash \/ Shutdown
  <2>1. UNCHANGED <<disk, acked>> /\ \A s \in Slot : pc'[s] = "idle"
    BY <1>8 DEF Crash, Shutdown
  <2> QED
    BY <2>1 DEF DurableInv
<1> QED
  BY <1>1, <1>2, <1>3, <1>4, <1>5, <1>6, <1>7, <1>8 DEF Next, Handle

\* handler.rs: no chunk is stored that nobody paid for, through either kind
\* of proof, either cache, and any interleaving of requests and crashes.
THEOREM PaidTheorem == Spec => []PaidBeforeStored
<1>1. Init => PaidInv
  BY DEF Init, PaidInv, Entries
<1>2. PaidInv => PaidBeforeStored
  BY DEF PaidInv, PaidBeforeStored
<1> QED
  BY <1>1, <1>2, InitType, NextType, NextPaid, PTL DEF Spec

\* handler.rs: what a client was told is stored is on disk, for ever.
THEOREM DurableTheorem == Spec => []AckedIsDurable
<1>1. Init => DurableInv
  BY DEF Init, DurableInv
<1>2. DurableInv => AckedIsDurable
  BY DEF DurableInv, AckedIsDurable
<1> QED
  BY <1>1, <1>2, InitType, NextType, NextDurable, PTL DEF Spec
-----------------------------------------------------------------------------
(* The quoting metrics *)

LEMMA CountsAreNumbers ==
    ASSUME TypeOK
    PROVE  /\ IsFiniteSet(disk) /\ Cardinality(disk) \in Nat
           /\ IsFiniteSet(Counting) /\ Cardinality(Counting) \in Nat
           /\ metrics.stored \in Nat /\ boot.disk \in Nat /\ boot.stored \in Nat
<1>1. disk \in SUBSET Addr /\ Counting \in SUBSET Slot
  BY DEF TypeOK, Counting
<1>2. IsFiniteSet(disk) /\ IsFiniteSet(Counting)
  BY <1>1, FS_Subset, FiniteAssumption
<1> QED
  BY <1>2, FS_CardinalityType DEF TypeOK, Metrics

LEMMA NextCount == TypeOK /\ NeverUndercounts /\ [Next]_vars => NeverUndercounts'
<1> SUFFICES ASSUME TypeOK, NeverUndercounts, [Next]_vars PROVE NeverUndercounts'
  OBVIOUS
<1>0. pc \in [Slot -> Stage]
  BY DEF TypeOK
<1>1. CASE UNCHANGED <<disk, boot>> /\ metrics'.stored = metrics.stored /\ Counting' = Counting
  BY <1>1 DEF NeverUndercounts
<1>2. CASE UNCHANGED vars
  BY <1>1, <1>2 DEF vars, Counting
<1>3. ASSUME NEW s \in Slot,
             Receive(s) \/ Ignore(s) \/ PutValidate(s) \/ HandleGet(s) \/ HandleQuote(s)
                 \/ HandleMerkleQuote(s) \/ Reply(s) \/ CheckPayment(s) \/ VerifyEvm(s) \/ VerifyMerkle(s)
      PROVE  NeverUndercounts'
  <2>1. UNCHANGED <<disk, boot, metrics>> /\ pc[s] # "count" /\ \E l \in Stage \ {"count"} : pc' = [pc EXCEPT ![s] = l]
    BY <1>3 DEF Receive, Ignore, PutValidate, HandleGet, HandleQuote, HandleMerkleQuote, Reply, CheckPayment,
       VerifyEvm, VerifyMerkle, Goto, Answer, node, outside, Stage
  <2>2. Counting' = Counting
    BY <1>0, <2>1 DEF Counting
  <2> QED
    BY <1>1, <2>1, <2>2
<1>4. ASSUME NEW s \in Slot, Store(s) PROVE NeverUndercounts'
  <2>1. pc[s] = "store" /\ UNCHANGED <<boot, metrics>>
    BY <1>4 DEF Store, outside
  <2>2. CASE disk' = disk \cup {req[s].addr} /\ pc' = [pc EXCEPT ![s] = "count"]
    <3>1. s \notin Counting /\ Counting' = Counting \cup {s}
      BY <1>0, <2>1, <2>2 DEF Counting
    <3>2. Cardinality(Counting)' = Cardinality(Counting) + 1
      BY <3>1, CountsAreNumbers, FS_AddElement
    <3>3. Cardinality(disk)' \in Nat /\ Cardinality(disk)' <= Cardinality(disk) + 1
      <4>1. /\ IsFiniteSet(disk \cup {req[s].addr})
            /\ Cardinality(disk \cup {req[s].addr}) \in {Cardinality(disk), Cardinality(disk) + 1}
        BY CountsAreNumbers, FS_AddElement
      <4> QED
        BY <2>2, <4>1, CountsAreNumbers
    <3> QED
      BY <2>1, <3>2, <3>3, CountsAreNumbers DEF NeverUndercounts
  <2>3. CASE UNCHANGED disk /\ pc' = [pc EXCEPT ![s] = "reply"]
    <3>1. Counting' = Counting
      BY <1>0, <2>1, <2>3 DEF Counting
    <3> QED
      BY <1>1, <2>1, <2>3, <3>1
  <2> QED
    BY <1>4, <2>2, <2>3 DEF Store, Goto, Answer
<1>5. ASSUME NEW s \in Slot, RecordStore(s) PROVE NeverUndercounts'
  <2>1. /\ pc[s] = "count" /\ pc' = [pc EXCEPT ![s] = "bill"] /\ UNCHANGED <<disk, boot>>
        /\ metrics'.stored = metrics.stored + 1
    BY <1>5 DEF RecordStore, Goto, outside, TypeOK, Metrics
  <2>2. s \in Counting /\ Counting' = Counting \ {s}
    BY <1>0, <2>1 DEF Counting
  <2>3. Cardinality(Counting)' = Cardinality(Counting) - 1
    BY <2>2, CountsAreNumbers, FS_RemoveElement
  <2> QED
    BY <2>1, <2>3, CountsAreNumbers DEF NeverUndercounts
<1>6. ASSUME NEW s \in Slot, RecordPayment(s) PROVE NeverUndercounts'
  <2>1. /\ pc[s] = "bill" /\ pc' = [pc EXCEPT ![s] = "reply"] /\ UNCHANGED <<disk, boot>>
        /\ metrics'.stored = metrics.stored
    BY <1>6 DEF RecordPayment, Goto, Answer, outside, TypeOK, Metrics
  <2>2. Counting' = Counting
    BY <1>0, <2>1 DEF Counting
  <2> QED
    BY <1>1, <2>1, <2>2
<1>7. ASSUME NEW a, PayAddr(a) \/ PayPool(a) PROVE NeverUndercounts'
  BY <1>1, <1>7 DEF PayAddr, PayPool, Counting, node
<1>8. CASE Crash \/ Shutdown
  <2>1. /\ UNCHANGED disk /\ boot'.disk = Cardinality(disk) /\ boot'.stored = metrics'.stored
        /\ \A s \in Slot : pc'[s] = "idle"
    BY <1>8 DEF Crash, Shutdown
  <2>2. Cardinality(Counting)' = 0
    <3>1. Counting' = {}
      BY <2>1 DEF Counting
    <3> QED
      BY <3>1, FS_EmptySet
  <2>3. metrics'.stored \in Nat
    BY NextType DEF TypeOK, Metrics
  <2> QED
    BY <2>1, <2>2, <2>3, CountsAreNumbers DEF NeverUndercounts
<1> QED
  BY <1>2, <1>3, <1>4, <1>5, <1>6, <1>7, <1>8 DEF Next, Handle

\* metrics.rs: since the process started, it has counted every chunk it stored,
\* but for the tasks that are about to count theirs; puts of the same chunk by
\* several tasks count too often, never too rarely.
THEOREM CountTheorem == Spec => []NeverUndercounts
<1>1. Init => NeverUndercounts
  <2> SUFFICES ASSUME Init PROVE NeverUndercounts
    OBVIOUS
  <2>1. disk = {} /\ Counting = {} /\ metrics.stored = 0 /\ boot.disk = 0 /\ boot.stored = 0
    BY DEF Init, Counting
  <2> QED
    BY <2>1, FS_EmptySet DEF NeverUndercounts
<1> QED
  BY <1>1, InitType, NextType, NextCount, PTL DEF Spec
=============================================================================
