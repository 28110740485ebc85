---------------------------- MODULE PaymentProofs ---------------------------
(***************************************************************************)
(* Payment, for every close group with a minority of odd nodes, every      *)
(* price curve, all clocks within the tolerance and any number of chunks,  *)
(* pools and candidates: nothing unpaid is stored, what was paid for is    *)
(* accepted, and a minority does not set the price.                        *)
(***************************************************************************)
EXTENDS Payment, FiniteSetTheorems, FunctionTheorems, SequenceTheorems, TLAPS

-----------------------------------------------------------------------------
(* Nothing is stored that was not paid for *)

\* What a chunk c needs on chain.
Paid(c) ==
    \/ \E v \in vault : v.quote.content = c /\ v.amount >= get_market_price(v.quote.quoting_metrics)
    \/ \E info \in chain : c \in info.hash.root

\* Payments stay on chain.
LEMMA ChainGrows ==
    [Next]_vars => vault \subseteq vault' /\ chain \subseteq chain'
BY DEF Next, vars, Tick, AskCandidates, pay_for_merkle_tree, AskQuotes, pay_for_storage, PayForQuotes,
       QuoteAnswer, PoolAnswer, PutSingle, PutMerkle

\* The verifier takes a single-node proof only if a quote for this chunk was
\* paid for in full.
LEMMA SinglePaid ==
    ASSUME NEW n, NEW c, NEW proof, verify_evm_payment(n, c, proof)
    PROVE  Paid(c)
<1>1. PICK q \in Quotes(proof) : AmountPaid(q) > 0
  BY DEF verify_evm_payment
<1>2. q.content = c /\ AmountPaid(q) >= get_market_price(q.quoting_metrics)
  BY <1>1 DEF verify_evm_payment, validate_quote_content, verify_quote_content, IsValid
<1>3. \E v \in vault : v.quote = q
  BY <1>1 DEF AmountPaid
<1>4. PICK v \in vault : v.quote = q /\ AmountPaid(q) = v.amount
  BY <1>3 DEF AmountPaid
<1> QED
  BY <1>2, <1>4 DEF Paid

LEMMA MerklePaid ==
    ASSUME NEW n, NEW c, NEW proof, verify_merkle_payment(n, c, proof)
    PROVE  Paid(c)
BY DEF verify_merkle_payment, verify_merkle_proof, Paid

StoredInv == held \in [Node -> SUBSET Chunk] /\ \A n \in Node : \A c \in held[n] : Paid(c)

LEMMA StoredStep == StoredInv /\ [Next]_vars => StoredInv'
<1> SUFFICES ASSUME StoredInv, [Next]_vars PROVE StoredInv'
  OBVIOUS
<1>1. \A c : Paid(c) => Paid(c)'
  BY ChainGrows DEF Paid, get_market_price, calculate_price
<1>2. CASE UNCHANGED held
  BY <1>1, <1>2 DEF StoredInv
<1>3. ASSUME NEW n \in Node, NEW c \in Chunk, NEW d \in Chunk, PutSingle(n, c, d) \/ PutMerkle(n, c, d)
      PROVE  StoredInv'
  <2>1. Paid(c)
    BY <1>3, SinglePaid, MerklePaid DEF PutSingle, PutMerkle
  <2>2. held' = [held EXCEPT ![n] = held[n] \cup {c}]
    BY <1>3 DEF PutSingle, PutMerkle
  <2> QED
    BY <1>1, <2>1, <2>2 DEF StoredInv
<1> QED
  BY <1>2, <1>3 DEF Next, vars, Tick, AskCandidates, pay_for_merkle_tree, AskQuotes, pay_for_storage,
                    QuoteAnswer, PoolAnswer

\* Whichever proof comes with a PUT, of this chunk or of another, a node stores
\* only what somebody paid for.
THEOREM StoredTheorem == Spec => []StoredWasPaid
<1>1. Init => StoredInv
  BY DEF Init, StoredInv
<1>2. StoredInv => StoredWasPaid
  BY DEF StoredInv, StoredWasPaid, Paid
<1> QED
  BY <1>1, <1>2, StoredStep, PTL DEF Spec
-----------------------------------------------------------------------------
(* What was paid for with a tree is accepted *)

\* Metrics that a node can report or claim, and the candidates with them.
Metrics == [close_records_stored : Nat, data_type : {0, 1}]
Signed == {create_merkle_candidate_quote(n, metrics, t) : n \in Node, metrics \in Metrics, t \in Int}

Tree == [phase : {"idle", "asking", "failed", "paid", "lost", "unpaid"}, leaves : SUBSET Chunk, timestamp : Int,
         waiting : [Pools -> SUBSET Node], pools : [Pools -> Seq(Signed)],
         winner : Pools \cup {"none"}]

\* A pool that is complete has enough candidates, all signed for the time of the
\* payment.
PoolsOK ==
    \A m \in Pools :
        /\ tree.phase = "idle" => tree.pools[m] = <<>>
        /\ tree.phase = "asking" /\ tree.waiting[m] = {} => Enough(tree.pools[m])
        /\ \A i \in DOMAIN tree.pools[m] : tree.pools[m][i].merkle_payment_timestamp = tree.timestamp

\* What the contract has recorded of the pool the client has kept.
Recorded(info) ==
    /\ info.hash = PoolOf(tree.winner)
    /\ info.timestamp = tree.timestamp /\ info.depth = Depth[tree.leaves]
    /\ Cardinality(info.paid) = info.depth
    /\ \A p \in info.paid :
          p[2] \in DOMAIN tree.pools[tree.winner] /\ tree.pools[tree.winner][p[2]].reward_address = p[1]

TreeInv ==
    /\ now \in Nat /\ held \in [Node -> SUBSET Chunk]
    /\ tree \in Tree /\ PoolsOK
    /\ tree.phase = "paid" => tree.winner \in Pools /\ \E info \in chain : Recorded(info)

LEMMA HeldFinite ==
    ASSUME held \in [Node -> SUBSET Chunk], NEW n \in Node
    PROVE  Cardinality(held[n]) \in Nat
<1> held[n] \in SUBSET Chunk
  OBVIOUS
<1> QED
  BY FS_Subset, FS_CardinalityType, TreeAssumption

\* Every answer of a node, odd or not, has metrics of this kind.
LEMMA MetricsType ==
    ASSUME held \in [Node -> SUBSET Chunk], NEW n \in Node
    PROVE  get_metrics(n) \in Metrics /\ Claims(n) \subseteq Metrics
<1>1. get_metrics(n) \in Metrics
  BY HeldFinite, PriceAssumption DEF get_metrics, Metrics, DataType
<1> QED
  BY <1>1, PriceAssumption DEF Claims, Metrics, DataType

LEMMA CandidateSigned ==
    ASSUME held \in [Node -> SUBSET Chunk], NEW n \in Node, NEW t \in Int,
           NEW k \in CandidateAnswers(n, t), verify_merkle_candidate_signature(k)
    PROVE  k \in Signed
<1>1. \A metrics \in Metrics, u \in Int : create_merkle_candidate_quote(n, metrics, u) \in Signed
  BY DEF Signed
<1>2. CASE \E metrics \in Claims(n) : k = create_merkle_candidate_quote(n, metrics, t)
  BY <1>1, <1>2, MetricsType
<1>3. CASE k = create_merkle_candidate_quote(n, get_metrics(n), t + 1)
  BY <1>1, <1>3, MetricsType
<1>4. CASE k = create_merkle_candidate_quote(n, [get_metrics(n) EXCEPT !.data_type = 1], t)
  <2>1. [get_metrics(n) EXCEPT !.data_type = 1] \in Metrics
    BY MetricsType DEF Metrics
  <2> QED
    BY <1>1, <1>4, <2>1
<1>5. CASE k = [create_merkle_candidate_quote(n, get_metrics(n), t) EXCEPT !.signature = sign(n, <<>>)]
  <2>1. k.signature = sign(n, <<get_metrics(n), Rewards[n], t>>)
    BY <1>5 DEF verify_merkle_candidate_signature, create_merkle_candidate_quote
  <2>2. k = create_merkle_candidate_quote(n, get_metrics(n), t)
    BY <1>5, <2>1 DEF create_merkle_candidate_quote
  <2> QED
    BY <1>1, <2>2, MetricsType
<1> QED
  BY <1>2, <1>3, <1>4, <1>5 DEF CandidateAnswers

\* A place and who is paid for it: as many pairs as places.
LEMMA PairsOfPlaces ==
    ASSUME NEW places, IsFiniteSet(places), NEW f
    PROVE  Cardinality({<<f[i].reward_address, i>> : i \in places}) = Cardinality(places)
<1> DEFINE T == {<<f[i].reward_address, i>> : i \in places}
           gg == [i \in places |-> <<f[i].reward_address, i>>]
<1>1. gg \in [places -> T] /\ (\A a, b \in places : gg[a] = gg[b] => a = b) /\ \A t \in T : \E s \in places : gg[s] = t
  OBVIOUS
<1>2. gg \in Bijection(places, T)
  BY <1>1, Fun_IsBij
<1> HIDE DEF gg, T
<1>3. ExistsBijection(places, T)
  BY <1>2, Fun_ExistsBij
<1>4. Cardinality(T) = Cardinality(places)
  BY <1>3, FS_Bijection
<1> QED
  BY <1>4 DEF T

LEMMA SignedVerifies == \A k \in Signed : verify_merkle_candidate_signature(k)
<1> SUFFICES ASSUME NEW k \in Signed PROVE verify_merkle_candidate_signature(k)
  OBVIOUS
<1>1. PICK n \in Node, metrics \in Metrics, t \in Int : k = create_merkle_candidate_quote(n, metrics, t)
  BY DEF Signed
<1> QED
  BY <1>1 DEF create_merkle_candidate_quote, verify_merkle_candidate_signature

LEMMA NoTreeType ==
    ASSUME NEW phase \in {"idle", "failed"}
    PROVE  /\ NoTree(phase) \in Tree /\ NoTree(phase).phase = phase
           /\ \A m \in Pools : NoTree(phase).pools[m] = <<>>
BY DEF NoTree, Tree

\* An answer for a pool, with what the pool becomes.
LEMMA PoolStep ==
    ASSUME TreeInv, NEW m \in Pools, NEW n \in Node, PoolAnswer(m, n)
    PROVE  TreeInv'
<1> DEFINE waiting == [tree.waiting EXCEPT ![m] = tree.waiting[m] \ {n}]
           After(pool) ==
               IF waiting[m] = {} /\ ~Enough(pool) THEN NoTree("failed")
               ELSE [tree EXCEPT !.pools[m] = pool,
                                 !.waiting = IF Enough(pool) THEN [waiting EXCEPT ![m] = {}] ELSE waiting]
<1>1. tree \in Tree /\ tree.phase = "asking" /\ UNCHANGED <<now, held, chain>>
  BY DEF PoolAnswer, TreeInv
<1>2. PICK pool : /\ tree' = After(pool)
                  /\ \/ pool = tree.pools[m]
                     \/ \E k \in CandidateAnswers(n, tree.timestamp) : Validated(k) /\ pool = Append(tree.pools[m], k)
  BY DEF PoolAnswer
<1>3. /\ pool \in Seq(Signed)
      /\ \A i \in DOMAIN pool : pool[i].merkle_payment_timestamp = tree.timestamp
  <2>1. CASE pool = tree.pools[m]
    BY <1>1, <2>1 DEF TreeInv, Tree, PoolsOK
  <2>2. ASSUME NEW k \in CandidateAnswers(n, tree.timestamp), Validated(k), pool = Append(tree.pools[m], k)
        PROVE  <1>3!1 /\ <1>3!2
    <3>1. k \in Signed /\ k.merkle_payment_timestamp = tree.timestamp
      BY <1>1, <2>2, CandidateSigned DEF TreeInv, Tree, Validated
    <3>2. tree.pools[m] \in Seq(Signed)
      BY <1>1 DEF Tree
    <3>3. \A i \in DOMAIN tree.pools[m] : tree.pools[m][i].merkle_payment_timestamp = tree.timestamp
      BY DEF TreeInv, PoolsOK
    <3> QED
      BY <2>2, <3>1, <3>2, <3>3
  <2> QED
    BY <1>2, <2>1, <2>2
<1>4. waiting \in [Pools -> SUBSET Node] /\ \A l \in Pools \ {m} : waiting[l] = tree.waiting[l]
  BY <1>1 DEF Tree
<1> HIDE DEF waiting
<1>5. CASE waiting[m] = {} /\ ~Enough(pool)
  BY <1>1, <1>2, <1>5, NoTreeType DEF TreeInv, PoolsOK
<1>6. CASE ~(waiting[m] = {} /\ ~Enough(pool))
  <2>1. tree' = [tree EXCEPT !.pools = [tree.pools EXCEPT ![m] = pool],
                             !.waiting = IF Enough(pool) THEN [waiting EXCEPT ![m] = {}] ELSE waiting]
    BY <1>1, <1>2, <1>6 DEF Tree
  <2>2. /\ tree' \in Tree /\ tree'.phase = "asking" /\ tree'.timestamp = tree.timestamp
        /\ tree'.pools = [tree.pools EXCEPT ![m] = pool]
        /\ tree'.waiting = IF Enough(pool) THEN [waiting EXCEPT ![m] = {}] ELSE waiting
    BY <1>1, <1>3, <1>4, <2>1 DEF Tree
  <2>3. tree'.pools[m] = pool /\ \A l \in Pools \ {m} : tree'.pools[l] = tree.pools[l]
    BY <1>1, <2>2 DEF Tree
  <2>4. \A l \in Pools \ {m} : tree'.waiting[l] = tree.waiting[l]
    BY <1>4, <2>2
  <2>5. tree'.waiting[m] = {} => Enough(pool)
    BY <1>4, <1>6, <2>2
  <2> QED
    BY <1>1, <1>3, <2>2, <2>3, <2>4, <2>5 DEF TreeInv, PoolsOK, Enough
<1> QED
  BY <1>5, <1>6

\* The payment records the pool the client keeps.
LEMMA PayStep == TreeInv /\ pay_for_merkle_tree => TreeInv'
<1> SUFFICES ASSUME TreeInv, pay_for_merkle_tree PROVE TreeInv'
  OBVIOUS
<1>1. tree \in Tree /\ tree.phase = "asking" /\ UNCHANGED <<now, held>> /\ \A m \in Pools : tree.waiting[m] = {}
  BY DEF pay_for_merkle_tree, TreeInv
<1>2. PICK m \in Pools :
        LET pool == tree.pools[m]
            After(phase) == [tree EXCEPT !.phase = phase, !.winner = m, !.pools = [NoTree(phase).pools EXCEPT ![m] = pool]]
        IN  \/ /\ tree' \in {After("paid"), After("lost")}
               /\ \E places \in {P \in SUBSET (1 .. Candidates) : Cardinality(P) = Depth[tree.leaves]} :
                    chain' = chain \cup
                       {[hash |-> PoolOf(m), depth |-> Depth[tree.leaves], timestamp |-> tree.timestamp,
                         paid |-> {<<pool[i].reward_address, i>> : i \in places}]}
            \/ tree' = After("unpaid") /\ UNCHANGED chain
  BY DEF pay_for_merkle_tree
<1>3. PICK phase \in {"paid", "lost", "unpaid"} :
        /\ tree' = [tree EXCEPT !.phase = phase, !.winner = m,
                                !.pools = [[l \in Pools |-> <<>>] EXCEPT ![m] = tree.pools[m]]]
        /\ phase = "paid" =>
             \E places \in SUBSET (1 .. Candidates) :
               /\ Cardinality(places) = Depth[tree.leaves]
               /\ [hash |-> PoolOf(m), depth |-> Depth[tree.leaves], timestamp |-> tree.timestamp,
                   paid |-> {<<tree.pools[m][i].reward_address, i>> : i \in places}] \in chain'
  BY <1>2 DEF NoTree
<1>4. /\ tree' \in Tree /\ tree'.phase = phase /\ tree'.timestamp = tree.timestamp /\ tree'.winner = m
      /\ tree'.pools[m] = tree.pools[m] /\ \A l \in Pools \ {m} : tree'.pools[l] = <<>>
      /\ tree'.leaves = tree.leaves
  <2>1. [[l \in Pools |-> <<>>] EXCEPT ![m] = tree.pools[m]] \in [Pools -> Seq(Signed)]
    <3>1. <<>> \in Seq(Signed) /\ tree.pools[m] \in Seq(Signed)
      BY <1>1 DEF Tree
    <3> QED
      BY <3>1
  <2> QED
    BY <1>1, <1>3, <2>1 DEF Tree
<1>5. PoolsOK'
  BY <1>4 DEF TreeInv, PoolsOK, Enough
<1>6. ASSUME phase = "paid" PROVE \E info \in chain' : Recorded(info)'
  <2>1. PICK places \in SUBSET (1 .. Candidates) :
          /\ Cardinality(places) = Depth[tree.leaves]
          /\ [hash |-> PoolOf(m), depth |-> Depth[tree.leaves], timestamp |-> tree.timestamp,
              paid |-> {<<tree.pools[m][i].reward_address, i>> : i \in places}] \in chain'
    BY <1>3, <1>6
  <2>a. PICK info \in chain' :
          info = [hash |-> PoolOf(m), depth |-> Depth[tree.leaves], timestamp |-> tree.timestamp,
                  paid |-> {<<tree.pools[m][i].reward_address, i>> : i \in places}]
    BY <2>1
  <2>2. IsFiniteSet(places)
    <3>1. IsFiniteSet(1 .. Candidates)
      BY FS_Interval, TreeAssumption
    <3> QED
      BY <3>1, FS_Subset
  <2>3. Cardinality(info.paid) = info.depth
    BY <2>1, <2>a, <2>2, PairsOfPlaces
  <2>4. places \subseteq DOMAIN tree.pools[m]
    <3>1. tree.pools[m] \in Seq(Signed) /\ Len(tree.pools[m]) >= Candidates
      BY <1>1 DEF TreeInv, PoolsOK, Tree, Enough
    <3> QED
      BY <3>1, TreeAssumption
  <2>5. \A p \in info.paid : p[2] \in DOMAIN tree.pools[m] /\ tree.pools[m][p[2]].reward_address = p[1]
    BY <2>a, <2>4
  <2>6. Recorded(info)'
    BY <1>4, <2>a, <2>3, <2>5 DEF Recorded, PoolOf
  <2> QED
    BY <2>6
<1> QED
  BY <1>1, <1>4, <1>5, <1>6 DEF TreeInv

LEMMA TreeStep == TreeInv /\ [Next]_vars => TreeInv'
<1> SUFFICES ASSUME TreeInv, [Next]_vars PROVE TreeInv'
  OBVIOUS
<1>1. CASE AskCandidates
  <2>1. PICK leaves \in Trees :
          tree' = [tree EXCEPT !.phase = "asking", !.leaves = leaves, !.timestamp = now,
                               !.waiting = [m \in Pools |-> Node]]
    BY <1>1 DEF AskCandidates
  <2>2. /\ tree' \in Tree /\ tree'.phase = "asking"
        /\ \A m \in Pools : tree'.waiting[m] # {} /\ tree'.pools[m] = tree.pools[m]
    <3>1. tree \in Tree /\ now \in Int /\ Node # {} /\ leaves \in SUBSET Chunk
      BY NodeAssumption, TreeAssumption DEF TreeInv
    <3>2. [m \in Pools |-> Node] \in [Pools -> SUBSET Node]
      OBVIOUS
    <3> QED
      BY <2>1, <3>1, <3>2 DEF Tree
  <2>3. tree.phase = "idle" /\ UNCHANGED <<now, held, chain>>
    BY <1>1 DEF AskCandidates
  <2> QED
    BY <2>2, <2>3 DEF TreeInv, PoolsOK
<1>2. CASE UNCHANGED <<tree, chain>>
  <2>1. now' \in Nat /\ held' \in [Node -> SUBSET Chunk]
    <3>1. CASE UNCHANGED <<now, held>>
      BY <3>1 DEF TreeInv
    <3>2. CASE Tick
      BY <3>2 DEF TreeInv, Tick
    <3>3. ASSUME NEW n \in Node, NEW c \in Chunk, NEW d \in Chunk, PutSingle(n, c, d) \/ PutMerkle(n, c, d)
          PROVE  now' \in Nat /\ held' \in [Node -> SUBSET Chunk]
      BY <3>3 DEF TreeInv, PutSingle, PutMerkle
    <3> QED
      BY <3>1, <3>2, <3>3 DEF Next, vars, AskCandidates, pay_for_merkle_tree, AskQuotes, pay_for_storage,
                              QuoteAnswer, PoolAnswer
  <2> QED
    BY <1>2, <2>1 DEF TreeInv, PoolsOK, Recorded, PoolOf, Enough
<1> QED
  BY <1>1, <1>2, PayStep, PoolStep
  DEF Next, vars, Tick, AskQuotes, pay_for_storage, QuoteAnswer, PutSingle, PutMerkle

\* Every node by whose clock the time of the payment is valid accepts what the
\* client sends after a tree was paid for, for each chunk of the tree, although
\* odd nodes answered with candidates that are not valid and the transaction kept
\* only one pool.
THEOREM MerkleProofTheorem == Spec => []MerkleProofHolds
<1>1. Init => TreeInv
  BY NoTreeType DEF Init, TreeInv, PoolsOK
<1>2. TreeInv => MerkleProofHolds
  <2> SUFFICES ASSUME TreeInv, tree.phase = "paid", NEW n \in Node, NEW c \in tree.leaves,
                      TimestampValid(n, tree.timestamp)
               PROVE  verify_merkle_payment(n, c, MerkleProof(c))
    BY DEF MerkleProofHolds
  <2>1. PICK info \in chain : Recorded(info)
    BY DEF TreeInv
  <2>2. tree.winner \in Pools /\ tree.pools[tree.winner] \in Seq(Signed)
    BY DEF TreeInv, Tree
  <2>3. \A i \in DOMAIN tree.pools[tree.winner] :
          LET k == tree.pools[tree.winner][i]
          IN  verify_merkle_candidate_signature(k) /\ k.merkle_payment_timestamp = info.timestamp
    <3> SUFFICES ASSUME NEW i \in DOMAIN tree.pools[tree.winner]
                 PROVE  LET k == tree.pools[tree.winner][i]
                        IN  verify_merkle_candidate_signature(k) /\ k.merkle_payment_timestamp = info.timestamp
      OBVIOUS
    <3>1. tree.pools[tree.winner][i] \in Signed
      BY <2>2
    <3>2. verify_merkle_candidate_signature(tree.pools[tree.winner][i])
      BY <3>1, SignedVerifies
    <3>3. tree.pools[tree.winner][i].merkle_payment_timestamp = info.timestamp
      BY <2>1, <2>2 DEF TreeInv, PoolsOK, Recorded
    <3> QED
      BY <3>2, <3>3
  <2>4. verify_merkle_proof(n, MerkleProof(c), info)
    BY <2>1 DEF verify_merkle_proof, MerkleProof, Branch, PoolOf, Recorded
  <2> QED
    BY <2>1, <2>3, <2>4 DEF verify_merkle_payment, MerkleProof, PoolOf, Recorded
<1> QED
  BY <1>1, <1>2, TreeStep, PTL DEF Spec
-----------------------------------------------------------------------------
(* The median of the prices *)

\* The places before the i-th in the sorted list.
Below(prices, i) == {j \in DOMAIN prices : prices[j] < prices[i] \/ (prices[j] = prices[i] /\ j < i)}

LEMMA GroupNonempty == IsFiniteSet(Group) /\ GroupSize \in Nat \ {0}
<1>1. IsFiniteSet(Group)
  BY FS_Subset, NodeAssumption
<1> QED
  BY <1>1, FS_CardinalityType, FS_EmptySet, NodeAssumption DEF GroupSize

LEMMA BelowFinite ==
    ASSUME NEW N \in Nat, NEW prices \in [1 .. N -> Int], NEW i \in 1 .. N
    PROVE  /\ IsFiniteSet(Below(prices, i)) /\ i \notin Below(prices, i)
           /\ Rank(prices, i) = Cardinality(Below(prices, i)) /\ Rank(prices, i) \in 0 .. N - 1
<1>1. IsFiniteSet(1 .. N) /\ Cardinality(1 .. N) = N
  BY FS_Interval
<1>2. IsFiniteSet((1 .. N) \ {i}) /\ Cardinality((1 .. N) \ {i}) = N - 1
  BY <1>1, FS_RemoveElement
<1>3. Below(prices, i) \in SUBSET ((1 .. N) \ {i})
  BY DEF Below
<1>4. IsFiniteSet(Below(prices, i)) /\ Cardinality(Below(prices, i)) <= N - 1
  BY <1>2, <1>3, FS_Subset
<1>5. Cardinality(Below(prices, i)) \in Nat
  BY <1>4, FS_CardinalityType
<1> QED
  BY <1>3, <1>4, <1>5 DEF Rank, Below

\* The sort is stable: two places never have the same rank.
LEMMA RankInjective ==
    ASSUME NEW N \in Nat, NEW prices \in [1 .. N -> Int], NEW i \in 1 .. N, NEW j \in 1 .. N,
           Rank(prices, i) = Rank(prices, j)
    PROVE  i = j
<1>1. \A a, b \in 1 .. N : a \in Below(prices, b) => Rank(prices, a) # Rank(prices, b)
  <2> SUFFICES ASSUME NEW a \in 1 .. N, NEW b \in 1 .. N, a \in Below(prices, b), Rank(prices, a) = Rank(prices, b)
               PROVE  FALSE
    OBVIOUS
  <2>1. Below(prices, a) \in SUBSET Below(prices, b)
    BY DEF Below
  <2>2. Below(prices, a) = Below(prices, b)
    BY <2>1, BelowFinite, FS_Subset
  <2> QED
    BY <2>2, BelowFinite
<1>2. i # j => i \in Below(prices, j) \/ j \in Below(prices, i)
  BY DEF Below
<1> QED
  BY <1>1, <1>2

\* So some place has the rank of the median.
LEMMA MedianExists ==
    ASSUME NEW prices \in [1 .. GroupSize -> Int]
    PROVE  Median(prices) \in 1 .. GroupSize /\ Rank(prices, Median(prices)) = MEDIAN_INDEX
<1> DEFINE rank == [i \in 1 .. GroupSize |-> Rank(prices, i)]
<1>1. GroupSize \in Nat \ {0}
  BY GroupNonempty
<1>2. rank \in [1 .. GroupSize -> 0 .. GroupSize - 1]
  BY <1>1, BelowFinite
<1>3. \A a, b \in 1 .. GroupSize : rank[a] = rank[b] => a = b
  BY <1>1, RankInjective
<1>4. rank \in Injection(1 .. GroupSize, 0 .. GroupSize - 1)
  BY <1>2, <1>3, Fun_IsInj
<1>5. /\ Cardinality(1 .. GroupSize) = GroupSize
      /\ IsFiniteSet(0 .. GroupSize - 1) /\ Cardinality(0 .. GroupSize - 1) = GroupSize
  BY <1>1, FS_Interval
<1>6. rank \in Surjection(1 .. GroupSize, 0 .. GroupSize - 1)
  <2> HIDE DEF rank
  <2> QED
    BY <1>4, <1>5, FS_Injection
<1>7. MEDIAN_INDEX \in 0 .. GroupSize - 1
  BY <1>1 DEF MEDIAN_INDEX
<1>8. \E i \in 1 .. GroupSize : rank[i] = MEDIAN_INDEX
  <2> HIDE DEF rank
  <2> QED
    BY <1>6, <1>7 DEF Surjection
<1>9. \E i \in DOMAIN prices : Rank(prices, i) = MEDIAN_INDEX
  BY <1>8
<1> QED
  BY <1>9 DEF Median

\* Places that are fewer than half leave a place that costs no more than the
\* median, and one that costs no less.
LEMMA MinorityLeavesBounds ==
    ASSUME NEW prices \in [1 .. GroupSize -> Int], NEW O \in SUBSET (1 .. GroupSize),
           Cardinality(O) <= (GroupSize - 1) \div 2
    PROVE  /\ \E i \in (1 .. GroupSize) \ O : prices[i] <= prices[Median(prices)]
           /\ \E i \in (1 .. GroupSize) \ O : prices[i] >= prices[Median(prices)]
<1> DEFINE m == Median(prices)
           low == Below(prices, m) \cup {m}
           high == (1 .. GroupSize) \ Below(prices, m)
<1>1. GroupSize \in Nat \ {0} /\ IsFiniteSet(1 .. GroupSize) /\ Cardinality(1 .. GroupSize) = GroupSize
  BY GroupNonempty, FS_Interval
<1>2. m \in 1 .. GroupSize /\ IsFiniteSet(Below(prices, m)) /\ Cardinality(Below(prices, m)) = MEDIAN_INDEX
  BY <1>1, MedianExists, BelowFinite
<1>3. Below(prices, m) \in SUBSET (1 .. GroupSize) /\ m \notin Below(prices, m)
  BY <1>1, <1>2 DEF Below
<1>4. IsFiniteSet(O) /\ Cardinality(O) \in Nat
  BY <1>1, FS_Subset, FS_CardinalityType
<1> HIDE DEF m
<1>5. \E i \in low : i \notin O
  <2>1. Cardinality(low) = MEDIAN_INDEX + 1
    BY <1>2, <1>3, FS_AddElement
  <2> SUFFICES ASSUME low \subseteq O PROVE FALSE
    OBVIOUS
  <2>2. Cardinality(low) <= Cardinality(O)
    BY <1>4, FS_Subset
  <2> QED
    BY <1>1, <1>4, <2>1, <2>2 DEF MEDIAN_INDEX
<1>6. \E i \in high : i \notin O
  <2>1. IsFiniteSet(high)
    BY <1>1, FS_Subset
  <2>2. Cardinality(high) + MEDIAN_INDEX = GroupSize
    <3>1. high \cup Below(prices, m) = 1 .. GroupSize /\ high \cap Below(prices, m) = {}
      BY <1>3
    <3>2. Cardinality(high \cap Below(prices, m)) = 0
      BY <3>1, FS_EmptySet
    <3>3. Cardinality(high) \in Nat
      BY <2>1, FS_CardinalityType
    <3>4. Cardinality(high \cup Below(prices, m)) =
            Cardinality(high) + Cardinality(Below(prices, m)) - Cardinality(high \cap Below(prices, m))
      BY <1>2, <2>1, FS_Union
    <3>5. Cardinality(high \cup Below(prices, m)) = GroupSize
      BY <1>1, <3>1, Zenon
    <3> HIDE DEF high
    <3> QED
      BY <1>1, <1>2, <3>2, <3>3, <3>4, <3>5 DEF MEDIAN_INDEX
  <2> SUFFICES ASSUME high \subseteq O PROVE FALSE
    OBVIOUS
  <2>3. Cardinality(high) <= Cardinality(O) /\ Cardinality(high) \in Nat
    BY <1>4, <2>1, FS_Subset, FS_CardinalityType
  <2> QED
    BY <1>1, <1>4, <2>2, <2>3 DEF MEDIAN_INDEX
<1>7. \A i \in low : i \in 1 .. GroupSize /\ prices[i] <= prices[m]
  BY <1>2, <1>3 DEF Below
<1>8. \A i \in high : i \in 1 .. GroupSize /\ prices[i] >= prices[m]
  BY <1>2 DEF Below
<1> QED
  BY <1>5, <1>6, <1>7, <1>8 DEF m
-----------------------------------------------------------------------------
(* The payment for one chunk *)

\* The quotes the client may get: of an odd node, with anything in them.
Addresses == {Rewards[k] : k \in Node}
Signatures == Node \X ((Chunk \X Int \X Metrics \X Addresses) \cup {<<>>})
AnyQuote == [content : Chunk, timestamp : Int, quoting_metrics : Metrics, pub_key : Node,
             rewards_address : Addresses, signature : Signatures]
Entries == [peer : Group, quote : AnyQuote]
Payments == [quote : AnyQuote, amount : Int]

Job == [phase : {"idle", "quoting", "quoted", "stored", "failed", "paid", "lost", "unpaid"},
        waiting : SUBSET Group, quotes : Seq(Entries), already : Nat, paid : SUBSET Payments, asks : Nat]

\* The quotes of a job are from different nodes that are not waited for any
\* more, and those of nodes that are not odd are proper and have their address.
QuotesOK(c, j) ==
    /\ \A i \in DOMAIN j.quotes :
          /\ j.quotes[i].peer \notin Odd =>
                Proper(j.quotes[i], c) /\ j.quotes[i].quote.rewards_address = Rewards[j.quotes[i].peer]
          /\ j.phase = "quoting" => j.quotes[i].peer \notin j.waiting
    /\ \A i, k \in DOMAIN j.quotes : j.quotes[i].peer = j.quotes[k].peer => i = k

\* What was paid is what the quotes ask for, and it is on chain.
PaidOK(j) ==
    /\ j.phase \in {"quoted", "paid", "lost", "unpaid"} => Len(j.quotes) >= GroupSize
    /\ IF j.phase \in {"paid", "lost"} THEN j.paid = from_prepared_chunks(j.quotes) /\ j.paid \subseteq vault
       ELSE j.paid = {}

JobInv ==
    /\ now \in Nat /\ held \in [Node -> SUBSET Chunk]
    /\ job \in [Chunk -> Job]
    /\ \A c \in Chunk : QuotesOK(c, job[c]) /\ PaidOK(job[c])
    /\ \A v \in vault : v.amount = 3 * get_market_price(v.quote.quoting_metrics)
    /\ vault \subseteq Payments

LEMMA PriceType ==
    ASSUME NEW metrics \in Metrics
    PROVE  get_market_price(metrics) \in Nat \ {0}
<1>1. metrics.close_records_stored \in Nat
  BY DEF Metrics
<1>2. CASE Capacity = 0
  BY <1>2 DEF get_market_price, calculate_price, MIN_PRICE
<1>3. CASE Capacity > 0 /\ metrics.close_records_stored + 1 >= Capacity
  BY <1>3, PriceAssumption DEF get_market_price, calculate_price, MIN_PRICE
<1>4. CASE Capacity > 0 /\ ~(metrics.close_records_stored + 1 >= Capacity)
  <2>1. metrics.close_records_stored \in 0 .. Capacity
    BY <1>1, <1>4, PriceAssumption
  <2>2. Curve[metrics.close_records_stored] \in MIN_PRICE .. PriceMax
    BY <2>1, PriceAssumption
  <2>3. get_market_price(metrics) = Curve[metrics.close_records_stored]
    BY <1>1, <1>4, PriceAssumption DEF get_market_price, calculate_price
  <2> QED
    BY <2>2, <2>3, PriceAssumption DEF MIN_PRICE
<1> QED
  BY <1>2, <1>3, <1>4, PriceAssumption

\* What the quotes of a job are made of.
LEMMA EntryType ==
    ASSUME NEW e \in Entries
    PROVE  e.peer \in Group /\ e.quote.timestamp \in Int /\ e.quote.quoting_metrics \in Metrics
BY DEF Entries, AnyQuote

\* What a node answers is such a quote, and a node that is not odd answers with a
\* proper one.
LEMMA AnswerType ==
    ASSUME held \in [Node -> SUBSET Chunk], now \in Nat, NEW n \in Node, NEW c \in Chunk,
           NEW q \in QuoteAnswers(n, c)
    PROVE  /\ q \in AnyQuote
           /\ n \notin Odd => /\ Proper([peer |-> n, quote |-> q], c)
                             /\ q.rewards_address = Rewards[n]
<1>1. \A k \in Node : Clock(k) \in Int /\ Clock(k) = now + Skew[k] /\ get_metrics(k) \in Metrics
  BY ClockAssumption, MetricsType DEF Clock
<1>2. \A k, l \in Node, d \in Chunk, t \in Int, metrics \in Metrics :
        SignedQuote(k, d, t, metrics, Rewards[l]) \in AnyQuote
  <2> SUFFICES ASSUME NEW k \in Node, NEW l \in Node, NEW d \in Chunk, NEW t \in Int, NEW metrics \in Metrics
               PROVE  SignedQuote(k, d, t, metrics, Rewards[l]) \in AnyQuote
    OBVIOUS
  <2>1. Rewards[l] \in Addresses
    BY DEF Addresses
  <2>2. sign(k, <<d, t, metrics, Rewards[l]>>) \in Signatures
    BY <2>1 DEF Signatures, sign
  <2> QED
    BY <2>1, <2>2 DEF SignedQuote, AnyQuote
<1>3. \A k \in Node, metrics \in Metrics : create_quote(k, c, metrics) \in AnyQuote
  BY <1>1, <1>2 DEF create_quote
<1>4. CASE \E metrics \in Claims(n) : q = create_quote(n, c, metrics)
  <2>1. PICK metrics \in Claims(n) : q = create_quote(n, c, metrics)
    BY <1>4
  <2>2. metrics \in Metrics
    BY MetricsType
  <2>3. Proper([peer |-> n, quote |-> q], c) /\ q.rewards_address = Rewards[n]
    BY <1>1, <2>1 DEF Proper, create_quote, SignedQuote, verify_quote_signature
  <2> QED
    BY <1>3, <2>1, <2>2, <2>3
<1>5. CASE n \in Odd /\ ~ \E metrics \in Claims(n) : q = create_quote(n, c, metrics)
  <2> DEFINE mine == get_metrics(n)
  <2>1. CASE \E d \in Chunk : q = SignedQuote(n, d, Clock(n), mine, Rewards[n])
    BY <1>1, <1>2, <1>5, <2>1
  <2>2. CASE \E t \in OddTimes : q = SignedQuote(n, c, Clock(n) + t, mine, Rewards[n])
    <3>1. PICK t \in OddTimes : q = SignedQuote(n, c, Clock(n) + t, mine, Rewards[n])
      BY <2>2
    <3>2. Clock(n) + t \in Int
      BY <1>1, ClockAssumption
    <3> QED
      BY <1>1, <1>2, <1>5, <3>1, <3>2
  <2>3. CASE \E k \in Node : q = SignedQuote(n, c, Clock(n), mine, Rewards[k])
    BY <1>1, <1>2, <1>5, <2>3
  <2>4. CASE q = [create_quote(n, c, mine) EXCEPT !.signature = sign(n, <<>>)]
    <3>1. sign(n, <<>>) \in Signatures /\ create_quote(n, c, mine) \in AnyQuote
      BY <1>1, <1>3 DEF Signatures, sign
    <3> QED
      BY <1>5, <2>4, <3>1 DEF AnyQuote
  <2>5. CASE \E k \in Node : q = create_quote(k, c, get_metrics(k))
    BY <1>1, <1>3, <1>5, <2>5
  <2> QED
    BY <1>5, <2>1, <2>2, <2>3, <2>4, <2>5 DEF QuoteAnswers
<1> QED
  BY <1>4, <1>5 DEF QuoteAnswers

LEMMA PricesType ==
    ASSUME NEW quotes \in Seq(Entries)
    PROVE  /\ Prices(quotes) \in [1 .. Len(quotes) -> Int]
           /\ \A i \in 1 .. Len(quotes) : /\ Prices(quotes)[i] = get_market_price(quotes[i].quote.quoting_metrics)
                                          /\ Prices(quotes)[i] > 0
<1>1. \A i \in 1 .. Len(quotes) : quotes[i] \in Entries
  OBVIOUS
<1>2. \A i \in 1 .. Len(quotes) : get_market_price(quotes[i].quote.quoting_metrics) \in Nat \ {0}
  BY <1>1, EntryType, PriceType
<1>3. DOMAIN quotes = 1 .. Len(quotes)
  OBVIOUS
<1> QED
  BY <1>2, <1>3 DEF Prices

\* Only the quote of the median is paid for, three times.
LEMMA PaymentsOf ==
    ASSUME NEW quotes \in Seq(Entries), NEW v \in from_prepared_chunks(quotes)
    PROVE  LET m == Median(Prices(quotes))
           IN  /\ m \in 1 .. Len(quotes) /\ v = [quote |-> quotes[m].quote, amount |-> 3 * Prices(quotes)[m]]
               /\ v \in Payments /\ v.amount = 3 * get_market_price(v.quote.quoting_metrics)
<1> DEFINE m == Median(Prices(quotes))
<1>1. PICK i \in 1 .. Len(quotes) :
        from_quotes(quotes)[i] > 0 /\ v = [quote |-> quotes[i].quote, amount |-> from_quotes(quotes)[i]]
  BY DEF from_prepared_chunks
<1>2. from_quotes(quotes)[i] = IF i = m THEN 3 * Prices(quotes)[m] ELSE 0
  BY DEF from_quotes
<1>3. i = m
  BY <1>1, <1>2
<1>4. quotes[m] \in Entries
  BY <1>3
<1>5. Prices(quotes)[m] \in Int /\ Prices(quotes)[m] = get_market_price(quotes[m].quote.quoting_metrics)
  BY <1>3, PricesType
<1> QED
  BY <1>1, <1>2, <1>3, <1>4, <1>5 DEF Payments, Entries

\* A proof with a quote of every node of the close group: exactly GroupSize
\* quotes, one from each.
LEMMA WholeGroup ==
    ASSUME NEW quotes \in Seq(Entries), Len(quotes) >= GroupSize,
           \A i, k \in DOMAIN quotes : quotes[i].peer = quotes[k].peer => i = k
    PROVE  Len(quotes) = GroupSize /\ \A n \in Group : \E i \in 1 .. GroupSize : quotes[i].peer = n
<1> DEFINE peer == [i \in 1 .. Len(quotes) |-> quotes[i].peer]
<1>1. \A i \in 1 .. Len(quotes) : quotes[i] \in Entries
  OBVIOUS
<1>2. peer \in [1 .. Len(quotes) -> Group] /\ \A a, b \in 1 .. Len(quotes) : peer[a] = peer[b] => a = b
  BY <1>1, EntryType
<1>3. \A n : (\E i \in 1 .. Len(quotes) : peer[i] = n) => \E i \in 1 .. Len(quotes) : quotes[i].peer = n
  OBVIOUS
<1> HIDE DEF peer
<1>4. peer \in Injection(1 .. Len(quotes), Group)
  BY <1>2, Fun_IsInj
<1>5. Cardinality(1 .. Len(quotes)) = Len(quotes) /\ Len(quotes) \in Nat
  <2>1. Len(quotes) \in Nat
    OBVIOUS
  <2> QED
    BY <2>1, FS_Interval
<1>6. /\ Cardinality(1 .. Len(quotes)) <= Cardinality(Group)
      /\ Cardinality(1 .. Len(quotes)) = Cardinality(Group) <=> peer \in Surjection(1 .. Len(quotes), Group)
  BY <1>4, GroupNonempty, FS_Injection
<1>7. Len(quotes) = GroupSize
  BY <1>5, <1>6, GroupNonempty DEF GroupSize
<1>8. \A n \in Group : \E i \in 1 .. Len(quotes) : peer[i] = n
  BY <1>5, <1>6, <1>7 DEF GroupSize, Surjection
<1> QED
  BY <1>3, <1>7, <1>8

LEMMA NoJobType == NoJob \in Job /\ NoJob.quotes = <<>> /\ NoJob.paid = {}
<1>1. <<>> \in Seq(Entries)
  OBVIOUS
<1> QED
  BY <1>1 DEF NoJob, Job

LEMMA WithoutQuotes ==
    ASSUME NEW c, NEW j, j.quotes = <<>>, j.paid = {}, j.phase \in {"idle", "quoting", "stored", "failed"}
    PROVE  QuotesOK(c, j) /\ PaidOK(j)
BY DEF QuotesOK, PaidOK

\* What becomes of a job with one more answer.
LEMMA CollectedType ==
    ASSUME NEW c, NEW k \in Job, QuotesOK(c, k), k.phase = "quoting", k.paid = {}
    PROVE  Collected(k) \in Job /\ QuotesOK(c, Collected(k)) /\ PaidOK(Collected(k))
<1>1. CASE Collected(k) = k
  BY <1>1 DEF PaidOK
<1>2. CASE Len(k.quotes) >= GroupSize /\ Collected(k) = [k EXCEPT !.phase = "quoted"]
  BY <1>2 DEF Job, QuotesOK, PaidOK
<1>3. ASSUME NEW phase \in {"stored", "failed"}, Collected(k) = [NoJob EXCEPT !.phase = phase, !.asks = k.asks]
      PROVE  Collected(k) \in Job /\ QuotesOK(c, Collected(k)) /\ PaidOK(Collected(k))
  <2>1. Collected(k) \in Job /\ Collected(k).quotes = <<>> /\ Collected(k).paid = {} /\ Collected(k).phase = phase
    BY <1>3, NoJobType DEF Job
  <2> QED
    BY <2>1, WithoutQuotes
<1> QED
  BY <1>1, <1>2, <1>3 DEF Collected

\* Nothing but the time and the job itself matters for its quotes.
LEMMA QuotesKept ==
    ASSUME NEW d \in Chunk, NEW x, job'[d] = x, now' = now, QuotesOK(d, x)
    PROVE  QuotesOK(d, job[d])'
<1>1. \A e : Proper(e, d) => Proper(e, d)'
  BY DEF Proper, verify_quote_signature
<1> QED
  BY <1>1 DEF QuotesOK

LEMMA QuoteStep ==
    ASSUME JobInv, NEW c \in Chunk, NEW n \in Group, QuoteAnswer(c, n)
    PROVE  JobInv'
<1> DEFINE j == [job[c] EXCEPT !.waiting = job[c].waiting \ {n}]
<1>1. /\ job[c] \in Job /\ QuotesOK(c, job[c]) /\ job[c].phase = "quoting" /\ n \in job[c].waiting
      /\ UNCHANGED <<now, held, vault>>
  BY DEF QuoteAnswer, JobInv
<1>2. job[c].paid = {}
  BY <1>1 DEF JobInv, PaidOK
<1>3. /\ j \in Job /\ j.phase = "quoting" /\ j.paid = {} /\ j.quotes = job[c].quotes
      /\ j.waiting = job[c].waiting \ {n}
  BY <1>1, <1>2 DEF Job
<1>4. QuotesOK(c, j) /\ \A i \in DOMAIN j.quotes : j.quotes[i].peer # n
  BY <1>1, <1>3 DEF QuotesOK
<1>5. PICK k : /\ job' = [job EXCEPT ![c] = Collected(k)]
               /\ \/ k = j \/ k = [j EXCEPT !.already = j.already + 1]
                  \/ \E q \in QuoteAnswers(n, c) :
                       k = [j EXCEPT !.quotes = Append(j.quotes, [peer |-> n, quote |-> q])]
  BY DEF QuoteAnswer
<1> HIDE DEF j
<1>6. k \in Job /\ QuotesOK(c, k) /\ k.phase = "quoting" /\ k.paid = {}
  <2>1. CASE k = j
    BY <1>3, <1>4, <2>1
  <2>2. CASE k = [j EXCEPT !.already = j.already + 1]
    BY <1>3, <1>4, <2>2 DEF Job, QuotesOK
  <2>3. ASSUME NEW q \in QuoteAnswers(n, c),
               k = [j EXCEPT !.quotes = Append(j.quotes, [peer |-> n, quote |-> q])]
        PROVE  k \in Job /\ QuotesOK(c, k) /\ k.phase = "quoting" /\ k.paid = {}
    <3> DEFINE e == [peer |-> n, quote |-> q]
    <3>1. n \in Node /\ now \in Nat /\ held \in [Node -> SUBSET Chunk]
      BY NodeAssumption DEF JobInv
    <3>2. /\ e \in Entries /\ e.peer = n
          /\ n \notin Odd => Proper(e, c) /\ e.quote.rewards_address = Rewards[n]
      BY <3>1, AnswerType DEF Entries
    <3> HIDE DEF e
    <3>3. j.quotes \in Seq(Entries)
      BY <1>3 DEF Job
    <3>4. /\ k \in Job /\ k.quotes = Append(j.quotes, e) /\ k.phase = "quoting" /\ k.paid = {}
          /\ k.waiting = job[c].waiting \ {n}
      <4>1. Append(j.quotes, e) \in Seq(Entries) /\ k = [j EXCEPT !.quotes = Append(j.quotes, e)]
        BY <2>3, <3>2, <3>3 DEF e
      <4> QED
        BY <1>3, <4>1 DEF Job
    <3>5. /\ k.quotes \in Seq(Entries) /\ DOMAIN k.quotes = 1 .. Len(j.quotes) + 1
          /\ k.quotes[Len(j.quotes) + 1] = e
          /\ \A i \in DOMAIN j.quotes : k.quotes[i] = j.quotes[i]
          /\ DOMAIN j.quotes = 1 .. Len(j.quotes) /\ Len(j.quotes) \in Nat
      BY <3>2, <3>3, <3>4
    <3>6. \A i \in DOMAIN k.quotes : i \in DOMAIN j.quotes \/ i = Len(j.quotes) + 1
      BY <3>5
    <3>7. \A i \in DOMAIN k.quotes :
            /\ k.quotes[i].peer \notin Odd =>
                  Proper(k.quotes[i], c) /\ k.quotes[i].quote.rewards_address = Rewards[k.quotes[i].peer]
            /\ k.quotes[i].peer \notin k.waiting
      BY <1>3, <1>4, <3>1, <3>2, <3>4, <3>5, <3>6 DEF QuotesOK
    <3>8. \A i, l \in DOMAIN k.quotes : k.quotes[i].peer = k.quotes[l].peer => i = l
      BY <1>4, <3>2, <3>5, <3>6 DEF QuotesOK
    <3> QED
      BY <3>4, <3>7, <3>8 DEF QuotesOK
  <2> QED
    BY <1>5, <2>1, <2>2, <2>3
<1>7. Collected(k) \in Job /\ QuotesOK(c, Collected(k)) /\ PaidOK(Collected(k))
  BY <1>6, CollectedType
<1>8. job' \in [Chunk -> Job] /\ job'[c] = Collected(k) /\ \A d \in Chunk \ {c} : job'[d] = job[d]
  BY <1>5, <1>7 DEF JobInv
<1>9. \A d \in Chunk : QuotesOK(d, job[d])' /\ PaidOK(job[d])'
  <2>1. \A d \in Chunk : QuotesOK(d, job'[d])
    BY <1>7, <1>8 DEF JobInv
  <2>2. \A d \in Chunk : PaidOK(job[d])'
    BY <1>1, <1>7, <1>8 DEF JobInv, PaidOK
  <2> QED
    BY <1>1, <2>1, <2>2, QuotesKept
<1> QED
  BY <1>1, <1>8, <1>9 DEF JobInv, get_market_price, calculate_price

LEMMA PaidStep ==
    ASSUME JobInv, NEW c \in Chunk, pay_for_storage(c)
    PROVE  JobInv'
<1> DEFINE payments == from_prepared_chunks(job[c].quotes)
<1>1. /\ job[c] \in Job /\ QuotesOK(c, job[c]) /\ PaidOK(job[c]) /\ job[c].phase = "quoted"
      /\ UNCHANGED <<now, held>>
  BY DEF pay_for_storage, JobInv
<1>2. job[c].quotes \in Seq(Entries) /\ Len(job[c].quotes) >= GroupSize /\ job[c].paid = {}
  BY <1>1 DEF Job, PaidOK
<1>3. payments \subseteq Payments /\ \A v \in payments : v.amount = 3 * get_market_price(v.quote.quoting_metrics)
  BY <1>2, PaymentsOf
<1>4. PICK phase \in {"paid", "lost", "unpaid"} :
        /\ job' = [job EXCEPT ![c] = [job[c] EXCEPT !.phase = phase, !.paid = IF phase = "unpaid" THEN {} ELSE payments]]
        /\ vault' = IF phase = "unpaid" THEN vault ELSE vault \cup payments
  <2>1. CASE /\ vault' = vault \cup payments
             /\ job' \in {[job EXCEPT ![c].phase = p, ![c].paid = payments] : p \in {"paid", "lost"}}
    BY <1>1, <2>1 DEF JobInv, Job
  <2>2. CASE job' = [job EXCEPT ![c].phase = "unpaid"] /\ UNCHANGED vault
    BY <1>1, <1>2, <2>2 DEF JobInv, Job
  <2> QED
    BY <2>1, <2>2 DEF pay_for_storage, PayForQuotes
<1> HIDE DEF payments
<1>5. /\ job' \in [Chunk -> Job] /\ \A d \in Chunk \ {c} : job'[d] = job[d]
      /\ job'[c].phase = phase /\ job'[c].quotes = job[c].quotes
      /\ job'[c].paid = IF phase = "unpaid" THEN {} ELSE payments
  BY <1>1, <1>3, <1>4 DEF JobInv, Job
<1>6. \A d \in Chunk : QuotesOK(d, job[d])'
  BY <1>1, <1>4, <1>5 DEF JobInv, QuotesOK, Proper, verify_quote_signature
<1>7. \A d \in Chunk : PaidOK(job[d])'
  <2>1. ASSUME NEW d \in Chunk \ {c} PROVE PaidOK(job[d])'
    <3>1. PaidOK(job[d]) /\ job'[d] = job[d] /\ vault \subseteq vault'
      BY <1>4, <1>5 DEF JobInv
    <3> QED
      BY <3>1 DEF PaidOK
  <2>2. PaidOK(job[c])'
    BY <1>2, <1>4, <1>5 DEF PaidOK, payments
  <2> QED
    BY <2>1, <2>2
<1> QED
  BY <1>1, <1>3, <1>4, <1>5, <1>6, <1>7 DEF JobInv, get_market_price, calculate_price

LEMMA JobStep == JobInv /\ [Next]_vars => JobInv'
<1> SUFFICES ASSUME JobInv, [Next]_vars PROVE JobInv'
  OBVIOUS
<1>1. ASSUME NEW c \in Chunk, AskQuotes(c) PROVE JobInv'
  <2>0. PICK a \in Nat : a = job[c].asks + 1
    BY DEF JobInv, Job
  <2> DEFINE j == [NoJob EXCEPT !.phase = "quoting", !.waiting = Group, !.asks = a]
  <2>1. job' = [job EXCEPT ![c] = j] /\ UNCHANGED <<now, held, vault>>
    BY <1>1, <2>0 DEF AskQuotes
  <2>3. j \in Job /\ j.quotes = <<>> /\ j.paid = {} /\ j.phase = "quoting"
    BY NoJobType DEF Job
  <2> HIDE DEF j
  <2>4. QuotesOK(c, j) /\ PaidOK(j)
    BY <2>3, WithoutQuotes
  <2>5. job' \in [Chunk -> Job] /\ job'[c] = j /\ \A d \in Chunk \ {c} : job'[d] = job[d]
    BY <2>1, <2>3 DEF JobInv
  <2>6. \A d \in Chunk : QuotesOK(d, job[d])' /\ PaidOK(job[d])'
    <3>1. \A d \in Chunk : QuotesOK(d, job'[d])
      BY <2>4, <2>5 DEF JobInv
    <3>2. \A d \in Chunk : PaidOK(job[d])'
      BY <2>1, <2>4, <2>5 DEF JobInv, PaidOK
    <3> QED
      BY <2>1, <3>1, <3>2, QuotesKept
  <2> QED
    BY <2>1, <2>5, <2>6 DEF JobInv, get_market_price, calculate_price
<1>2. CASE UNCHANGED <<job, vault>>
  <2>1. now' \in Nat /\ now' >= now /\ held' \in [Node -> SUBSET Chunk]
    <3>1. CASE UNCHANGED <<now, held>>
      BY <3>1 DEF JobInv
    <3>2. CASE Tick
      BY <3>2 DEF JobInv, Tick
    <3>3. ASSUME NEW n \in Node, NEW c \in Chunk, NEW d \in Chunk, PutSingle(n, c, d) \/ PutMerkle(n, c, d)
          PROVE  now' \in Nat /\ now' >= now /\ held' \in [Node -> SUBSET Chunk]
      BY <3>3 DEF JobInv, PutSingle, PutMerkle
    <3> QED
      BY <3>1, <3>2, <3>3 DEF Next, vars, AskCandidates, pay_for_merkle_tree, AskQuotes, pay_for_storage,
                              QuoteAnswer, PoolAnswer
  <2>2. ASSUME NEW c \in Chunk PROVE QuotesOK(c, job[c])'
    <3>1. job[c].quotes \in Seq(Entries) /\ QuotesOK(c, job[c]) /\ now \in Nat
      BY DEF JobInv, Job
    <3>2. \A i \in DOMAIN job[c].quotes : job[c].quotes[i] \in Entries
      BY <3>1
    <3>3. \A i \in DOMAIN job[c].quotes :
            job[c].quotes[i].quote.timestamp \in Int /\ Skew[job[c].quotes[i].peer] \in Int
      BY <3>2, EntryType, ClockAssumption, NodeAssumption
    <3>4. \A i \in DOMAIN job[c].quotes : Proper(job[c].quotes[i], c) => Proper(job[c].quotes[i], c)'
      BY <1>2, <2>1, <3>1, <3>3 DEF Proper, verify_quote_signature
    <3> QED
      BY <1>2, <3>1, <3>4 DEF QuotesOK
  <2>3. \A c \in Chunk : PaidOK(job[c])'
    BY <1>2 DEF JobInv, PaidOK
  <2> QED
    BY <1>2, <2>1, <2>2, <2>3 DEF JobInv, get_market_price, calculate_price
<1> QED
  BY <1>1, <1>2, QuoteStep, PaidStep
  DEF Next, vars, Tick, AskCandidates, pay_for_merkle_tree, PoolAnswer, PutSingle, PutMerkle

LEMMA JobInit == Init => JobInv
<1> SUFFICES ASSUME Init PROVE JobInv
  OBVIOUS
<1>1. job \in [Chunk -> Job] /\ \A c \in Chunk : job[c] = NoJob
  BY NoJobType DEF Init
<1>2. NoJob.phase = "idle"
  BY DEF NoJob
<1>3. \A c \in Chunk : QuotesOK(c, job[c]) /\ PaidOK(job[c])
  BY <1>1, <1>2, NoJobType, WithoutQuotes
<1> QED
  BY <1>1, <1>3 DEF Init, JobInv

\* A minority of odd nodes, whatever they claim and in whatever order the quotes
\* come, leaves the one payment for a chunk between three times the least and
\* three times the greatest price of the others.
THEOREM PriceTheorem == Spec => []MinorityCannotSetPrice
<1>1. JobInv => MinorityCannotSetPrice
  <2> SUFFICES ASSUME JobInv, NEW c \in Chunk
               PROVE  LET fair == {Prices(job[c].quotes)[i] :
                                     i \in {i \in DOMAIN job[c].quotes : job[c].quotes[i].peer \notin Odd}}
                      IN  /\ Cardinality(job[c].paid) <= 1
                          /\ \A v \in job[c].paid :
                                (\E p \in fair : 3 * p <= v.amount) /\ (\E p \in fair : v.amount <= 3 * p)
    BY DEF MinorityCannotSetPrice
  <2> DEFINE quotes == job[c].quotes
             fair == {Prices(quotes)[i] : i \in {i \in DOMAIN quotes : quotes[i].peer \notin Odd}}
             m == Median(Prices(quotes))
  <2>1. quotes \in Seq(Entries) /\ QuotesOK(c, job[c]) /\ PaidOK(job[c])
    BY DEF JobInv, Job
  <2>2. CASE job[c].paid = {}
    BY <2>2, FS_EmptySet
  <2>3. CASE job[c].paid # {}
    <3>1. job[c].paid = from_prepared_chunks(quotes) /\ Len(quotes) >= GroupSize
      BY <2>1, <2>3 DEF PaidOK
    <3>2. Len(quotes) = GroupSize /\ DOMAIN quotes = 1 .. GroupSize
      <4>1. \A i, k \in DOMAIN quotes : quotes[i].peer = quotes[k].peer => i = k
        BY <2>1 DEF QuotesOK
      <4>2. Len(quotes) = GroupSize
        BY <2>1, <3>1, <4>1, WholeGroup
      <4> QED
        BY <2>1, <4>2
    <3>3. \A i \in 1 .. GroupSize : quotes[i] \in Entries
      BY <2>1, <3>2
    <3>4. \A v \in job[c].paid : /\ m \in 1 .. GroupSize
                                 /\ v = [quote |-> quotes[m].quote, amount |-> 3 * Prices(quotes)[m]]
      BY <2>1, <3>1, <3>2, PaymentsOf
    <3>5. Cardinality(job[c].paid) <= 1
      <4> DEFINE only == [quote |-> quotes[m].quote, amount |-> 3 * Prices(quotes)[m]]
      <4>1. job[c].paid \in SUBSET {only}
        BY <3>4
      <4> HIDE DEF only
      <4>2. IsFiniteSet({only}) /\ Cardinality({only}) = 1
        BY FS_Singleton
      <4> QED
        BY <4>1, <4>2, FS_Subset
    <3>6. /\ Prices(quotes) \in [1 .. GroupSize -> Int]
          /\ \A i \in 1 .. GroupSize : Prices(quotes)[i] = get_market_price(quotes[i].quote.quoting_metrics)
      BY <2>1, <3>2, PricesType
    <3> DEFINE O == {i \in 1 .. GroupSize : quotes[i].peer \in Odd}
    <3>7. Cardinality(O) <= (GroupSize - 1) \div 2
      <4> DEFINE f == [i \in O |-> quotes[i].peer]
      <4>1. f \in [O -> Odd \cap Group] /\ \A a, b \in O : f[a] = f[b] => a = b
        BY <2>1, <3>2, <3>3, EntryType DEF QuotesOK
      <4> HIDE DEF f
      <4>2. f \in Injection(O, Odd \cap Group)
        BY <4>1, Fun_IsInj
      <4>3. IsFiniteSet(Odd \cap Group) /\ Cardinality(Odd \cap Group) \in Nat
        BY GroupNonempty, FS_Intersection, FS_CardinalityType
      <4>4. Cardinality(O) <= Cardinality(Odd \cap Group) /\ IsFiniteSet(O)
        BY <4>2, <4>3, FS_Injection
      <4>5. Cardinality(O) \in Nat
        BY <4>4, FS_CardinalityType
      <4> HIDE DEF O
      <4> QED
        BY <4>3, <4>4, <4>5, GroupNonempty, NodeAssumption
    <3>8. \A i \in (1 .. GroupSize) \ O : Prices(quotes)[i] \in fair
      BY <3>2
    <3>9. O \in SUBSET (1 .. GroupSize)
      OBVIOUS
    <3> HIDE DEF O, fair, quotes
    <3>10. PICK i \in (1 .. GroupSize) \ O : Prices(quotes)[i] <= Prices(quotes)[m]
      BY <3>6, <3>7, <3>9, MinorityLeavesBounds
    <3>11. PICK k \in (1 .. GroupSize) \ O : Prices(quotes)[k] >= Prices(quotes)[m]
      BY <3>6, <3>7, <3>9, MinorityLeavesBounds
    <3> HIDE DEF m
    <3>12. ASSUME NEW v \in job[c].paid
           PROVE  (\E p \in fair : 3 * p <= v.amount) /\ (\E p \in fair : v.amount <= 3 * p)
      <4>1. m \in 1 .. GroupSize /\ v.amount = 3 * Prices(quotes)[m]
        BY <3>4
      <4>2. Prices(quotes)[i] \in Int /\ Prices(quotes)[k] \in Int /\ Prices(quotes)[m] \in Int
        BY <3>6, <4>1
      <4>3. 3 * Prices(quotes)[i] <= v.amount /\ v.amount <= 3 * Prices(quotes)[k]
        BY <3>10, <3>11, <4>1, <4>2
      <4> QED
        BY <3>8, <4>3
    <3> QED
      BY <3>5, <3>12 DEF fair, quotes
  <2> QED
    BY <2>2, <2>3
<1> QED
  BY <1>1, JobInit, JobStep, PTL DEF Spec

\* What was paid for is on chain three times over, whichever payment the
\* contract finds for the quote.
LEMMA AmountOf ==
    ASSUME JobInv, NEW q, \E v \in vault : v.quote = q, q.quoting_metrics \in Metrics
    PROVE  AmountPaid(q) > 0 /\ IsValid(q)
<1>1. PICK v \in vault : v.quote = q /\ AmountPaid(q) = v.amount
  BY DEF AmountPaid
<1>2. v.amount = 3 * get_market_price(q.quoting_metrics)
  BY <1>1 DEF JobInv
<1> QED
  BY <1>1, <1>2, PriceType DEF IsValid

\* After a payment every node of the close group that is not odd accepts the
\* proof, unless an odd node's quote is improper: the quotes are one per node in
\* whatever order they came, the paid one exists and was paid in full, and clocks
\* that differ within the tolerance do not make a fresh quote too old or too new.
THEOREM PaidProofTheorem == Spec => []PaidProofHolds
<1>1. JobInv => PaidProofHolds
  <2> SUFFICES ASSUME JobInv, NEW c \in Chunk, job[c].phase = "paid",
                      \A i \in DOMAIN job[c].quotes :
                         /\ job[c].quotes[i].peer \in Odd => Proper(job[c].quotes[i], c)
                         /\ now - (job[c].quotes[i].quote.timestamp - Skew[job[c].quotes[i].peer]) + Tolerance <= MaxAge,
                      NEW n \in Group \ Odd
               PROVE  verify_evm_payment(n, c, job[c].quotes)
    BY DEF PaidProofHolds
  <2> DEFINE quotes == job[c].quotes
             m == Median(Prices(quotes))
  <2>1. quotes \in Seq(Entries) /\ QuotesOK(c, job[c]) /\ PaidOK(job[c]) /\ now \in Nat
    BY DEF JobInv, Job
  <2>2. /\ Len(quotes) >= GroupSize /\ from_prepared_chunks(quotes) \subseteq vault
        /\ \A i, k \in DOMAIN quotes : quotes[i].peer = quotes[k].peer => i = k
    BY <2>1 DEF PaidOK, QuotesOK
  <2>3. Len(quotes) = GroupSize /\ DOMAIN quotes = 1 .. GroupSize /\ \A g \in Group : \E i \in 1 .. GroupSize : quotes[i].peer = g
    BY <2>1, <2>2, WholeGroup
  <2>4. \A i \in 1 .. GroupSize : quotes[i] \in Entries /\ Proper(quotes[i], c)
    BY <2>1, <2>3 DEF QuotesOK
  <2>5. validate_quote_structure(quotes) /\ validate_peer_bindings(quotes)
    BY <2>2, <2>3, <2>4 DEF validate_quote_structure, validate_peer_bindings, Proper
  <2>6. validate_quote_content(quotes, c)
    BY <2>3, <2>4 DEF validate_quote_content, verify_quote_content, Quotes, Proper
  <2>7. validate_quote_timestamps(n, quotes)
    <3> SUFFICES ASSUME NEW i \in 1 .. GroupSize
                 PROVE  /\ Clock(n) - quotes[i].quote.timestamp <= MaxAge
                        /\ quotes[i].quote.timestamp - Clock(n) <= Tolerance
      BY <2>3 DEF validate_quote_timestamps, Quotes
    <3>1. quotes[i].peer \in Group /\ quotes[i].quote.timestamp \in Int
      BY <2>4, EntryType
    <3>2. PICK t \in Int, s \in Int : t = quotes[i].quote.timestamp /\ s = Skew[quotes[i].peer]
      BY <3>1, ClockAssumption, NodeAssumption
    <3>3. Skew[n] \in Int /\ Skew[n] - s <= Tolerance /\ s - Skew[n] <= Tolerance
      BY <3>1, <3>2, ClockAssumption, NodeAssumption
    <3>4. t <= now + s /\ now - (t - s) + Tolerance <= MaxAge
      BY <2>3, <2>4, <3>2 DEF Proper
    <3>5. Clock(n) - t <= MaxAge /\ t - Clock(n) <= Tolerance
      BY <2>1, <3>3, <3>4, ClockAssumption DEF Clock
    <3> QED
      BY <3>2, <3>5
  <2>8. validate_local_recipient(n, quotes)
    <3>1. PICK i \in 1 .. GroupSize : quotes[i].peer = n
      BY <2>3
    <3>2. quotes[i].quote.rewards_address = Rewards[n]
      BY <2>1, <2>3, <3>1 DEF QuotesOK
    <3> QED
      BY <2>3, <3>2 DEF validate_local_recipient, Quotes
  <2>9. \A q \in Quotes(quotes) : verify_quote_signature(q) /\ q.quoting_metrics \in Metrics
    BY <2>3, <2>4, EntryType DEF Quotes, Proper
  <2>10. \E q \in Quotes(quotes) : AmountPaid(q) > 0
    <3>1. /\ Prices(quotes) \in [1 .. GroupSize -> Int]
          /\ \A i \in 1 .. GroupSize : Prices(quotes)[i] > 0
      BY <2>1, <2>3, PricesType
    <3>2. m \in 1 .. GroupSize
      BY <3>1, MedianExists
    <3>3. from_quotes(quotes)[m] = 3 * Prices(quotes)[m]
      BY <2>3, <3>2 DEF from_quotes
    <3>4. from_quotes(quotes)[m] > 0
      <4> HIDE DEF m, quotes
      <4> QED
        BY <3>1, <3>2, <3>3
    <3>5. [quote |-> quotes[m].quote, amount |-> from_quotes(quotes)[m]] \in from_prepared_chunks(quotes)
      BY <2>3, <3>2, <3>4 DEF from_prepared_chunks
    <3>6. \E v \in vault : v.quote = quotes[m].quote
      BY <2>2, <3>5
    <3>7. quotes[m].quote \in Quotes(quotes)
      BY <2>3, <3>2 DEF Quotes
    <3> QED
      BY <2>9, <3>6, <3>7, AmountOf
  <2>11. ASSUME NEW q \in Quotes(quotes), AmountPaid(q) > 0 PROVE IsValid(q)
    <3>1. \E v \in vault : v.quote = q
      BY <2>11 DEF AmountPaid
    <3> QED
      BY <2>9, <3>1, AmountOf
  <2> QED
    BY <2>5, <2>6, <2>7, <2>8, <2>9, <2>10, <2>11 DEF verify_evm_payment
<1> QED
  BY <1>1, JobInit, JobStep, PTL DEF Spec
=============================================================================
