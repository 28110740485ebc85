------------------------------ MODULE Payment -------------------------------
(***************************************************************************)
(* How a chunk is paid for and how a node checks it: signed quotes         *)
(* (ant-node payment/quote.rs, pricing.rs), the choice of the quote that   *)
(* is paid (single_node.rs, client payment.rs, batch.rs), candidate pools  *)
(* and the payment of a merkle tree (client merkle.rs), and the            *)
(* verification of the two kinds of proof (verifier.rs).                   *)
(*                                                                         *)
(* Clocks differ from node to node, time passes between any two steps, and *)
(* a few odd nodes answer with quotes that are wrong in any of their       *)
(* parts: the client does not check a quote before it pays.  Replication   *)
(* is UploadClient's, the caches of the verifier are ChunkNode's.          *)
(***************************************************************************)
EXTENDS Integers, FiniteSets, Sequences

CONSTANTS
    Node,        \* the nodes
    Group,       \* the close group of every chunk
    Odd,         \* nodes that may send any quote and bad merkle candidates
    Chunk,       \* the chunks
    Trees,       \* the sets of chunks that may be paid for with a merkle tree
    Pools,       \* the midpoints of a tree
    Candidates,  \* CANDIDATES_PER_POOL
    Depth,       \* per tree: its depth, and the number of nodes it pays
    Majority,    \* CLOSE_GROUP_MAJORITY
    Base,        \* per node: the records it has at the beginning
    Capacity,    \* max_records
    Curve,       \* the price of a node that is neither empty of capacity nor full
    PriceMax,    \* u64::MAX
    Skew,        \* per node: its clock minus real time
    MaxAge,      \* QUOTE_MAX_AGE_SECS
    Tolerance,   \* QUOTE_CLOCK_SKEW_TOLERANCE_SECS
    MerkleMaxAge, MerkleTolerance,  \* the same two of evmlib, for the time of a tree
    OddTimes,    \* how far the time in an odd node's quote may be from its clock
    Rewards,     \* per node: its rewards address
    MaxTime,     \* bound: time ends here
    MaxAsks      \* bound, per chunk: how often a client asks for quotes

GroupSize == Cardinality(Group)
MEDIAN_INDEX == GroupSize \div 2
MIN_PRICE == 3
DataType == 0

ASSUME NodeAssumption ==
    /\ IsFiniteSet(Node) /\ Group \subseteq Node /\ Group # {} /\ Odd \subseteq Node
    /\ Cardinality(Odd \cap Group) <= (GroupSize - 1) \div 2
ASSUME TreeAssumption ==
    IsFiniteSet(Chunk) /\ Trees \subseteq SUBSET Chunk /\ Candidates \in Nat /\ Depth \in [Trees -> Nat]
ASSUME ClockAssumption ==
    /\ Skew \in [Node -> Int] /\ MaxAge \in Nat /\ Tolerance \in Nat /\ MaxTime \in Nat
    /\ MerkleMaxAge \in Nat /\ MerkleTolerance \in Nat /\ OddTimes \subseteq Int
    /\ \A n, m \in Node : Skew[n] - Skew[m] <= Tolerance
ASSUME PriceAssumption ==
    /\ Base \in [Node -> Nat] /\ Capacity \in Nat /\ PriceMax \in Nat
    /\ Curve \in [0 .. Capacity -> MIN_PRICE .. PriceMax]
    /\ PriceMax >= MIN_PRICE

VARIABLES
    now,     \* real time
    held,    \* per node: the chunks it stores
    job,     \* per chunk: its single-node payment
    vault,   \* the payments for quotes on chain
    tree,    \* the merkle payment
    chain    \* per pool hash: what the merkle contract has recorded

vars == <<now, held, job, vault, tree, chain>>

Clock(n) == now + Skew[n]
-----------------------------------------------------------------------------
(* Nodes: metrics, prices, quotes.  A signature is the key with what was   *)
(* signed; a hash is what was hashed.                                      *)

get_metrics(n) == [close_records_stored |-> Base[n] + Cardinality(held[n]), data_type |-> DataType]

\* The metrics an odd node may claim.
Claims(n) ==
    IF n \in Odd THEN [close_records_stored : {0, Capacity}, data_type : {DataType}] ELSE {get_metrics(n)}

calculate_price(metrics) ==
    CASE Capacity = 0 -> MIN_PRICE
      [] Capacity > 0 /\ metrics.close_records_stored + 1 >= Capacity -> PriceMax
      [] OTHER -> Curve[metrics.close_records_stored]

\* The contract: the price it computes from the metrics of a quote.
get_market_price(metrics) == calculate_price(metrics)

\* wire_ml_dsa_signer
sign(n, message) == <<n, message>>

\* A quote for content c, signed by node n.
SignedQuote(n, c, time, metrics, address) ==
    [content |-> c, timestamp |-> time, quoting_metrics |-> metrics, pub_key |-> n,
     rewards_address |-> address, signature |-> sign(n, <<c, time, metrics, address>>)]

create_quote(n, c, metrics) == SignedQuote(n, c, Clock(n), metrics, Rewards[n])

\* The quotes of node n for chunk c.  An odd node may quote for another chunk,
\* at another time or for another address, sign badly, or pass on a quote of
\* another node.
QuoteAnswers(n, c) ==
    {create_quote(n, c, metrics) : metrics \in Claims(n)}
        \cup IF n \notin Odd THEN {}
             ELSE LET mine == get_metrics(n)
                  IN  {SignedQuote(n, d, Clock(n), mine, Rewards[n]) : d \in Chunk}
                      \cup {SignedQuote(n, c, Clock(n) + t, mine, Rewards[n]) : t \in OddTimes}
                      \cup {SignedQuote(n, c, Clock(n), mine, Rewards[k]) : k \in Node}
                      \cup {[create_quote(n, c, mine) EXCEPT !.signature = sign(n, <<>>)]}
                      \cup {create_quote(k, c, get_metrics(k)) : k \in Node}

verify_quote_content(q, c) == q.content = c

verify_quote_signature(q) ==
    q.signature = sign(q.pub_key, <<q.content, q.timestamp, q.quoting_metrics, q.rewards_address>>)

create_merkle_candidate_quote(n, metrics, timestamp) ==
    [pub_key |-> n, quoting_metrics |-> metrics, reward_address |-> Rewards[n],
     merkle_payment_timestamp |-> timestamp,
     signature |-> sign(n, <<metrics, Rewards[n], timestamp>>)]

verify_merkle_candidate_signature(k) ==
    k.signature = sign(k.pub_key, <<k.quoting_metrics, k.reward_address, k.merkle_payment_timestamp>>)

\* handle_merkle_candidate_quote; an odd node may sign another time or data
\* type, or sign badly.
CandidateAnswers(n, timestamp) ==
    {create_merkle_candidate_quote(n, metrics, timestamp) : metrics \in Claims(n)}
        \cup IF n \notin Odd THEN {}
             ELSE LET k == create_merkle_candidate_quote(n, get_metrics(n), timestamp)
                  IN  {create_merkle_candidate_quote(n, get_metrics(n), timestamp + 1),
                       create_merkle_candidate_quote(n, [get_metrics(n) EXCEPT !.data_type = 1], timestamp),
                       [k EXCEPT !.signature = sign(n, <<>>)]}
-----------------------------------------------------------------------------
(* The client pays for one chunk *)

NoJob == [phase |-> "idle", waiting |-> {}, quotes |-> <<>>, already |-> 0, paid |-> {}, asks |-> 0]

\* get_store_quotes asks the close group.  An upload that cannot collect the
\* pools of a tree goes on with single payments; one that failed may be run
\* again, and so may one that was paid for.
AskQuotes(c) ==
    /\ job[c].phase \notin {"quoting", "quoted"} /\ tree.phase \in {"idle", "failed"}
    /\ job[c].asks < MaxAsks[c]
    /\ job' = [job EXCEPT ![c] = [NoJob EXCEPT !.phase = "quoting", !.waiting = Group, !.asks = job[c].asks + 1]]
    /\ UNCHANGED <<now, held, vault, tree, chain>>

\* What get_store_quotes does with the answers so far: a majority that has the
\* chunk ends it at once, the rest waits for the last answer.
Collected(j) ==
    CASE j.already >= Majority -> [NoJob EXCEPT !.phase = "stored", !.asks = j.asks]
      [] j.already < Majority /\ j.waiting # {} -> j
      [] j.already < Majority /\ j.waiting = {} /\ Len(j.quotes) >= GroupSize -> [j EXCEPT !.phase = "quoted"]
      [] OTHER -> [NoJob EXCEPT !.phase = "failed", !.asks = j.asks]

\* handle_quote at node n and its answer: a quote, that it has the chunk, an
\* error or a timeout.
QuoteAnswer(c, n) ==
    /\ job[c].phase = "quoting" /\ n \in job[c].waiting
    /\ LET j == [job[c] EXCEPT !.waiting = @ \ {n}]
       IN  job' \in
             {[job EXCEPT ![c] = Collected(k)] :
                k \in {j} \cup
                      IF c \in held[n] THEN {[j EXCEPT !.already = @ + 1]}
                      ELSE {[j EXCEPT !.quotes = Append(@, [peer |-> n, quote |-> q])] : q \in QuoteAnswers(n, c)}}
    /\ UNCHANGED <<now, held, vault, tree, chain>>

Prices(quotes) == [i \in DOMAIN quotes |-> get_market_price(quotes[i].quote.quoting_metrics)]

\* The place of the i-th quote after a stable sort by price.
Rank(prices, i) ==
    Cardinality({j \in DOMAIN prices : prices[j] < prices[i] \/ (prices[j] = prices[i] /\ j < i)})

\* Mutant: the quotes are not sorted.
MedianUnsorted(prices) == MEDIAN_INDEX + 1

Median(prices) == CHOOSE i \in DOMAIN prices : Rank(prices, i) = MEDIAN_INDEX

\* SingleNodePayment::from_quotes: the amounts, by quote.
from_quotes(quotes) ==
    LET m == Median(Prices(quotes))
    IN  [i \in DOMAIN quotes |-> IF i = m THEN 3 * Prices(quotes)[m] ELSE 0]

\* The payments of a list of quotes: the amounts that are not zero.
from_prepared_chunks(quotes) ==
    LET amounts == from_quotes(quotes)
    IN  {[quote |-> quotes[i].quote, amount |-> amounts[i]] : i \in {i \in DOMAIN quotes : amounts[i] > 0}}

\* pay_for_quotes, or a transaction of an external signer.  It may fail before
\* the payments are on chain, and after.
PayForQuotes(c, payments) ==
    \/ /\ vault' = vault \cup payments
       /\ job' \in {[job EXCEPT ![c].phase = p, ![c].paid = payments] : p \in {"paid", "lost"}}
    \/ job' = [job EXCEPT ![c].phase = "unpaid"] /\ UNCHANGED vault

\* pay_for_storage and prepare_chunk_payment from where they have the quotes.
pay_for_storage(c) ==
    /\ job[c].phase = "quoted"
    /\ PayForQuotes(c, from_prepared_chunks(job[c].quotes))
    /\ UNCHANGED <<now, held, tree, chain>>
-----------------------------------------------------------------------------
(* A node verifies a proof of single-node payment: a sequence of quotes    *)
(* with the peers they are said to be from.                                *)

Quotes(proof) == {proof[i].quote : i \in DOMAIN proof}

validate_quote_structure(proof) ==
    /\ Len(proof) = GroupSize
    /\ \A i, j \in DOMAIN proof : proof[i].peer = proof[j].peer => i = j

\* Mutant: not checked.
ContentUnchecked(proof, c) == TRUE

validate_quote_content(proof, c) == \A q \in Quotes(proof) : verify_quote_content(q, c)

\* Mutant: a quote from the future is refused however small the difference.
TimestampsStrict(n, proof) ==
    \A q \in Quotes(proof) : Clock(n) - q.timestamp \in 0 .. MaxAge

validate_quote_timestamps(n, proof) ==
    \A q \in Quotes(proof) : Clock(n) - q.timestamp <= MaxAge /\ q.timestamp - Clock(n) <= Tolerance

validate_peer_bindings(proof) == \A i \in DOMAIN proof : proof[i].quote.pub_key = proof[i].peer

validate_local_recipient(n, proof) == \E q \in Quotes(proof) : q.rewards_address = Rewards[n]

\* The contract: what was paid for a quote, and whether that was enough.
AmountPaid(q) == IF \E v \in vault : v.quote = q THEN (CHOOSE v \in vault : v.quote = q).amount ELSE 0
IsValid(q) == AmountPaid(q) >= get_market_price(q.quoting_metrics)

verify_evm_payment(n, c, proof) ==
    /\ validate_quote_structure(proof)
    /\ validate_quote_content(proof, c)
    /\ validate_quote_timestamps(n, proof)
    /\ validate_peer_bindings(proof)
    /\ validate_local_recipient(n, proof)
    /\ \A q \in Quotes(proof) : verify_quote_signature(q)
    /\ \E q \in Quotes(proof) : AmountPaid(q) > 0
    /\ \A q \in Quotes(proof) : AmountPaid(q) > 0 => IsValid(q)

\* A PUT of chunk c with the quotes of chunk d, paid for or not.
PutSingle(n, c, d) ==
    /\ job[d].phase \in {"paid", "lost", "unpaid"}
    /\ c \notin held[n]
    /\ verify_evm_payment(n, c, job[d].quotes)
    /\ held' = [held EXCEPT ![n] = @ \cup {c}]
    /\ UNCHANGED <<now, job, vault, tree, chain>>
-----------------------------------------------------------------------------
(* The client pays for a set of chunks with one merkle tree *)

\* pay_for_merkle_single_batch: the time of the payment, then
\* get_merkle_candidate_pool for every midpoint, all at once.
AskCandidates ==
    /\ tree.phase = "idle" /\ \A c \in Chunk : job[c].phase = "idle"
    /\ \E leaves \in Trees :
         tree' = [tree EXCEPT !.phase = "asking", !.leaves = leaves, !.timestamp = now,
                              !.waiting = [m \in Pools |-> Node]]
    /\ UNCHANGED <<now, held, job, vault, chain>>

\* Mutant: the time a candidate has signed is not looked at.
ValidatedAnyTime(k) == verify_merkle_candidate_signature(k) /\ k.quoting_metrics.data_type = DataType

\* What collect_validated_candidates checks.
Validated(k) ==
    /\ verify_merkle_candidate_signature(k)
    /\ k.merkle_payment_timestamp = tree.timestamp
    /\ k.quoting_metrics.data_type = DataType

Enough(pool) == Len(pool) >= Candidates

NoTree(phase) ==
    [phase |-> phase, leaves |-> {}, timestamp |-> 0, waiting |-> [m \in Pools |-> {}],
     pools |-> [m \in Pools |-> <<>>], winner |-> "none"]

\* The first valid answers make the pool and the others are dropped; too few
\* are an error, which ends the payment.
PoolAnswer(m, n) ==
    /\ tree.phase = "asking" /\ n \in tree.waiting[m]
    /\ LET waiting == [tree.waiting EXCEPT ![m] = @ \ {n}]
           After(pool) ==
               IF waiting[m] = {} /\ ~Enough(pool) THEN NoTree("failed")
               ELSE [tree EXCEPT !.pools[m] = pool,
                                 !.waiting = IF Enough(pool) THEN [waiting EXCEPT ![m] = {}] ELSE waiting]
       IN  \/ \E k \in CandidateAnswers(n, tree.timestamp) :
                tree' = After(IF Validated(k) THEN Append(tree.pools[m], k) ELSE tree.pools[m])
           \/ tree' = After(tree.pools[m])
    /\ UNCHANGED <<now, held, job, vault, chain>>

\* A pool as it is hashed: its midpoint proof, which has the root of the tree,
\* and its candidates.
PoolOf(m) == [midpoint |-> m, root |-> tree.leaves, candidates |-> tree.pools[m]]

\* The contract chooses the winner and pays as many of its candidates as the
\* tree is deep; the other pools are dropped.  The transaction may fail before
\* or after that.
pay_for_merkle_tree ==
    /\ tree.phase = "asking" /\ \A m \in Pools : tree.waiting[m] = {}
    /\ \E m \in Pools :
         LET pool == tree.pools[m]
             After(phase) == [tree EXCEPT !.phase = phase, !.winner = m, !.pools = [NoTree(phase).pools EXCEPT ![m] = pool]]
         IN  \/ /\ tree' \in {After("paid"), After("lost")}
                /\ \E places \in {P \in SUBSET (1 .. Candidates) : Cardinality(P) = Depth[tree.leaves]} :
                     chain' = chain \cup
                        {[hash |-> PoolOf(m), depth |-> Depth[tree.leaves], timestamp |-> tree.timestamp,
                          paid |-> {<<pool[i].reward_address, i>> : i \in places}]}
             \/ tree' = After("unpaid") /\ UNCHANGED chain
    /\ UNCHANGED <<now, held, job, vault>>

\* The proof that chunk c is a leaf of a tree.
Branch(c, leaves) == [leaf |-> c, root |-> leaves, depth |-> Depth[leaves]]

MerkleProof(c) == [address |-> c, data_proof |-> Branch(c, tree.leaves), winner |-> PoolOf(tree.winner)]

\* The time of a tree is neither too old nor in the future by the clock of n.
TimestampValid(n, timestamp) ==
    Clock(n) - timestamp <= MerkleMaxAge /\ timestamp - Clock(n) <= MerkleTolerance

\* evmlib: the address is a leaf of the tree the midpoint is of, the depth is the
\* one on chain and the time is valid.
verify_merkle_proof(n, proof, info) ==
    /\ proof.data_proof.leaf = proof.address /\ proof.address \in proof.data_proof.root
    /\ proof.data_proof.root = proof.winner.root
    /\ proof.data_proof.depth = info.depth
    /\ TimestampValid(n, info.timestamp)

\* verify_merkle_payment without its cache: the information on chain, the
\* candidates, the tree, the nodes paid.
verify_merkle_payment(n, c, proof) ==
    /\ proof.address = c
    /\ \E info \in chain :
          /\ info.hash = proof.winner
          /\ \A i \in DOMAIN proof.winner.candidates :
                LET k == proof.winner.candidates[i]
                IN  verify_merkle_candidate_signature(k) /\ k.merkle_payment_timestamp = info.timestamp
          /\ verify_merkle_proof(n, proof, info)
          /\ Cardinality(info.paid) = info.depth
          /\ \A p \in info.paid :
                /\ p[2] \in DOMAIN proof.winner.candidates
                /\ proof.winner.candidates[p[2]].reward_address = p[1]

\* The proofs of chunk d a client may send with chunk c: the proof itself, the
\* proof with the address of c, or with a branch of another tree, whose root may
\* be put into the pool too.
Presented(c, d) ==
    LET proof == MerkleProof(d)
        relabelled == [proof EXCEPT !.address = c]
        other == {[relabelled EXCEPT !.data_proof = Branch(c, leaves)] : leaves \in Trees}
    IN  {proof, relabelled} \cup other \cup {[p EXCEPT !.winner.root = p.data_proof.root] : p \in other}

\* A PUT of chunk c with a merkle proof made from that of chunk d.
PutMerkle(n, c, d) ==
    /\ tree.phase \in {"paid", "lost", "unpaid"} /\ d \in tree.leaves
    /\ c \notin held[n]
    /\ \E proof \in Presented(c, d) : verify_merkle_payment(n, c, proof)
    /\ held' = [held EXCEPT ![n] = @ \cup {c}]
    /\ UNCHANGED <<now, job, vault, tree, chain>>
-----------------------------------------------------------------------------
Tick ==
    /\ now < MaxTime
    /\ now' = now + 1
    /\ UNCHANGED <<held, job, vault, tree, chain>>

Init ==
    /\ now = 0
    /\ held = [n \in Node |-> {}]
    /\ job = [c \in Chunk |-> NoJob]
    /\ vault = {} /\ chain = {}
    /\ tree = NoTree("idle")

Next ==
    \/ Tick \/ AskCandidates \/ pay_for_merkle_tree
    \/ \E c \in Chunk : AskQuotes(c) \/ pay_for_storage(c)
    \/ \E c \in Chunk, n \in Group : QuoteAnswer(c, n)
    \/ \E m \in Pools, n \in Node : PoolAnswer(m, n)
    \/ \E n \in Node, c, d \in Chunk : PutSingle(n, c, d) \/ PutMerkle(n, c, d)

Spec == Init /\ [][Next]_vars
-----------------------------------------------------------------------------
(* Properties *)

\* Pools and lists of quotes stay within the sizes of the arrays they become.
TypeOK ==
    /\ now \in 0 .. MaxTime
    /\ held \in [Node -> SUBSET Chunk]
    /\ \A c \in Chunk :
          /\ job[c].phase \in {"idle", "quoting", "quoted", "stored", "failed", "paid", "lost", "unpaid"}
          /\ job[c].waiting \subseteq Group
          /\ Len(job[c].quotes) <= GroupSize /\ job[c].already <= Majority
    /\ tree.phase \in {"idle", "asking", "failed", "paid", "lost", "unpaid"}
    /\ \A m \in Pools : tree.waiting[m] \subseteq Node /\ Len(tree.pools[m]) <= Candidates

\* A node stores a chunk only if somebody paid on chain for this chunk at least
\* what its quote says, or for a tree the chunk is a leaf of, whichever proof
\* came with the PUT (verify_evm_payment, verify_merkle_payment).
StoredWasPaid ==
    \A n \in Node : \A c \in held[n] :
        \/ \E v \in vault : v.quote.content = c /\ v.amount >= get_market_price(v.quote.quoting_metrics)
        \/ \E info \in chain : c \in info.hash.root

\* Nodes that answer with any quote cannot, as long as they are a minority of
\* the close group, move the price out of the range of the others' prices: the
\* one payment of an upload for a chunk is between three times the least and
\* three times the greatest price of the others (SingleNodePayment::from_quotes).
MinorityCannotSetPrice ==
    \A c \in Chunk :
        LET fair == {Prices(job[c].quotes)[i] : i \in {i \in DOMAIN job[c].quotes : job[c].quotes[i].peer \notin Odd}}
        IN  /\ Cardinality(job[c].paid) <= 1
            /\ \A v \in job[c].paid : (\E p \in fair : 3 * p <= v.amount) /\ (\E p \in fair : v.amount <= 3 * p)

\* A quote every node can accept: for the chunk, with the key and the signature
\* of the peer it came from and not from the future of that peer's clock.
Proper(e, c) ==
    /\ e.quote.content = c /\ e.quote.pub_key = e.peer /\ verify_quote_signature(e.quote)
    /\ e.quote.timestamp <= now + Skew[e.peer]

\* What was paid for is accepted.  The client pays without a look at the quotes,
\* so one improper quote of an odd node spoils the proof; nothing else does: if
\* the odd nodes' quotes are proper, for whatever metrics and address, every
\* other node of the close group takes the proof, in whatever order the quotes
\* came and however the clocks differ within the tolerance, until a quote is
\* older than the maximal age but for the tolerance (get_store_quotes,
\* verify_evm_payment).
PaidProofHolds ==
    \A c \in Chunk :
        LET quotes == job[c].quotes
        IN  /\ job[c].phase = "paid"
            /\ \A i \in DOMAIN quotes :
                  /\ quotes[i].peer \in Odd => Proper(quotes[i], c)
                  /\ now - (quotes[i].quote.timestamp - Skew[quotes[i].peer]) + Tolerance <= MaxAge
            => \A n \in Group \ Odd : verify_evm_payment(n, c, quotes)

\* What was paid for with a tree is accepted by every node, for every chunk of
\* the tree, as long as the time of the payment is valid by the node's clock,
\* although some candidates were not valid (collect_validated_candidates,
\* verify_merkle_payment).
MerkleProofHolds ==
    tree.phase = "paid" =>
        \A n \in Node, c \in tree.leaves :
            TimestampValid(n, tree.timestamp) => verify_merkle_payment(n, c, MerkleProof(c))
=============================================================================
