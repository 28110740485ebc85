---------------------------- MODULE UploadClient ----------------------------
(***************************************************************************)
(* The upload path of the data client (ant-core/src/data/client): quotes   *)
(* from the close group (quote.rs), on-chain payment per wave (batch.rs)   *)
(* or per merkle sub-batch (merkle.rs), replication to a majority of the   *)
(* close group with fallback (chunk.rs), and the drivers that put these    *)
(* together (data.rs, file.rs).  Peers answer, refuse or time out; a peer  *)
(* that timed out may still store the chunk later.  A user may run the     *)
(* same upload again, after a failure or after a success.                  *)
(***************************************************************************)
EXTENDS Integers, FiniteSets, Sequences

CONSTANTS
    List,         \* the addresses of the encrypted chunks, in their order
    Peer,         \* the close group (one group for all addresses)
    Flaky,        \* peers whose storage check can fail
    Majority,     \* CLOSE_GROUP_MAJORITY
    WaveSize,     \* PAYMENT_WAVE_SIZE
    Concurrency,  \* chunk_concurrency
    MaxLeaves,    \* MAX_LEAVES of one merkle payment
    Threshold,    \* DEFAULT_MERKLE_THRESHOLD
    Plans,        \* the <<source, mode>> pairs a user asks for
    Again,        \* the plans that are run a second time (bound)
    MaxLate       \* bound on the late PUTs on their way

Source == {"data", "file", "external"}
Mode == {"auto", "merkle", "single"}

ASSUME PeerAssumption == IsFiniteSet(Peer) /\ Flaky \subseteq Peer
ASSUME SizeAssumption ==
    /\ Majority \in 1 .. Cardinality(Peer)
    /\ WaveSize \in Nat \ {0} /\ Concurrency \in Nat \ {0} /\ MaxLeaves \in Nat \ {0}
    /\ Threshold \in Nat /\ MaxLate \in Nat
ASSUME PlanAssumption == Plans \subseteq Source \X Mode /\ Again \subseteq Plans
ASSUME ListAssumption == List \in Seq({List[i] : i \in DOMAIN List})

Pos == DOMAIN List
Addr == {List[i] : i \in Pos}

VARIABLES
    held,       \* per address: the peers that store it
    late,       \* PUTs at a peer that no client waits for any more
    phase,      \* idle, join, pay, merkle, mput, done, error
    plan,       \* source and mode of the attempt
    items,      \* the positions the attempt uploads
    wave,       \* waves (of payment or of merkle PUTs) begun so far
    batch,      \* merkle sub-batches paid so far
    preparing,  \* positions in prepare_wave
    storing,    \* positions in store_paid_chunks or a merkle PUT stream
    job,        \* per position: its state in this attempt
    attempts    \* uploads so far (bound)

vars == <<held, late, phase, plan, items, wave, batch, preparing, storing, job,
          attempts>>

State == {"todo", "quoting", "prepared", "already", "noquote", "paid",
          "putting", "stored", "failed"}

\* had: the peers that had the chunk when they were asked for quotes; wait:
\* peers with a PUT in progress; rest: fallback peers; ok: peers that stored
\* the chunk; paid: payments made for this position.
Job == [st : State, had : SUBSET Peer, wait : SUBSET Peer, rest : SUBSET Peer,
        ok : SUBSET Peer, paid : Nat]

Fresh == [st |-> "todo", had |-> {}, wait |-> {}, rest |-> {}, ok |-> {}, paid |-> 0]

TypeOK ==
    /\ held \in [Addr -> SUBSET Peer]
    /\ late \subseteq Addr \X Peer
    /\ phase \in {"idle", "join", "pay", "merkle", "mput", "done", "error"}
    /\ plan \in Source \X Mode
    /\ items \subseteq Pos /\ preparing \subseteq items /\ storing \subseteq items
    /\ wave \in Nat /\ batch \in Nat /\ attempts \in Nat
    /\ job \in [Pos -> Job]

Init ==
    /\ held = [a \in Addr |-> {}]
    /\ late = {}
    /\ phase = "idle"
    /\ plan = <<"data", "single">>
    /\ items = {} /\ preparing = {} /\ storing = {}
    /\ wave = 0 /\ batch = 0 /\ attempts = 0
    /\ job = [i \in Pos |-> Fresh]
-----------------------------------------------------------------------------
\* The client no longer waits for the PUTs S; those that were sent and not
\* refused are still on their way to the peer.
Drop(S) ==
    late' \in {late \cup T : T \in {U \in SUBSET S : Cardinality(late \cup U) <= MaxLate}}

\* Mutant: duplicates are kept.
UniqueKeepsAll == Pos

\* batch_upload_chunks and ChunkSpill.push keep the first chunk of an address.
Unique == {i \in Pos : \A j \in Pos : j < i => List[j] # List[i]}

\* chunks(n): the k-th group of n positions, in order, of a list of positions.
Group(S, n, k) == {i \in S : (Cardinality({j \in S : j < i}) \div n) + 1 = k}

Groups(S, n) == (Cardinality(S) + n - 1) \div n

should_use_merkle(count, mode) ==
    \/ mode = "auto" /\ count >= Threshold
    \/ mode = "merkle" /\ count >= 2

\* prepare_wave: the chunks of a wave ask for quotes.
Ask(js, S) ==
    [i \in Pos |-> IF i \in S THEN [js[i] EXCEPT !.st = "quoting", !.had = held[List[i]]]
                   ELSE js[i]]

\* The external signer's upload is one wave.
PayWaves == IF plan[1] = "external" THEN 1 ELSE Groups(items, WaveSize)

PayWave(k) == IF plan[1] = "external" THEN items ELSE Group(items, WaveSize, k)

\* One upload begins.  data_upload_with_mode keeps duplicates on its merkle
\* path, and so does data_prepare_upload; file_prepare_upload does not.
Begin(p) ==
    LET count == IF p[1] = "file" THEN Cardinality(Unique) ELSE Len(List)
        merkle == p[1] # "external" /\ should_use_merkle(count, p[2])
    IN  /\ \/ phase = "idle"
           \/ phase \in {"done", "error"} /\ p = plan /\ p \in Again /\ attempts < 2
        /\ plan' = p
        /\ attempts' = attempts + 1
        /\ wave' = 0 /\ batch' = 0 /\ preparing' = {} /\ storing' = {}
        /\ job' = [i \in Pos |-> Fresh]
        /\ items' \in IF p[1] = "external" THEN {Pos, Unique}
                      ELSE IF p[1] = "data" /\ merkle THEN {Pos}
                      ELSE {Unique}
        /\ phase' = IF merkle THEN "merkle" ELSE "join"
        /\ UNCHANGED <<held, late>>
-----------------------------------------------------------------------------
\* Mutant: a majority of quotes is taken as enough.
OutcomeByMajority(quotes, already) ==
    IF Cardinality(already) >= Majority THEN {"already"}
    ELSE IF Cardinality(quotes) >= Majority THEN {"prepared"}
    ELSE {"noquote"}

\* Mutant: waits for quotes that do not come.
OutcomeWaits(quotes, already) ==
    IF Cardinality(already) >= Majority THEN {"already"}
    ELSE IF Cardinality(quotes) >= Cardinality(Peer) THEN {"prepared", "noquote"}
    ELSE {}

\* get_store_quotes: the outcomes for the answers of all peers, which may come
\* at any time since they were asked.  The price query may fail as well.
Outcome(quotes, already) ==
    IF Cardinality(already) >= Majority THEN {"already"}
    ELSE IF Cardinality(quotes) >= Cardinality(Peer) THEN {"prepared", "noquote"}
    ELSE {"noquote"}

\* prepare_chunk_payment: each peer quotes, reports the chunk as stored, or
\* fails to answer.
Quote(i) ==
    /\ i \in preparing /\ job[i].st = "quoting"
    /\ \E quotes, already \in SUBSET Peer :
          /\ quotes \cap job[i].had \subseteq Flaky
          /\ already \subseteq held[List[i]] \ quotes
          /\ \E st \in Outcome(quotes, already) :
                job' = [job EXCEPT ![i].st = st]
    /\ UNCHANGED <<held, late, phase, plan, items, wave, batch, preparing,
                   storing, attempts>>

\* The next wave: batch_upload_chunks prepares it while the last one is
\* stored; upload_waves_single stores the last one first.
NextWave(js, paid) ==
    LET more == wave < PayWaves
        ask == more /\ (paid = {} \/ plan[1] = "data")
        new == IF ask THEN PayWave(wave + 1) ELSE {}
    IN  IF paid = {} /\ ~more
        THEN /\ phase' = "done" /\ preparing' = {} /\ storing' = {} /\ job' = js
             /\ UNCHANGED wave
        ELSE /\ phase' = "join" /\ preparing' = new /\ storing' = paid
             /\ wave' = IF ask THEN wave + 1 ELSE wave
             /\ job' = Ask(js, new)

\* Mutant: the errors of the last wave are looked at after the payment.
JoinedLate ==
    /\ phase = "join"
    /\ \A i \in preparing : job[i].st \in {"prepared", "already", "noquote"}
    /\ \A i \in storing : job[i].st \in {"stored", "failed"}
    /\ IF \E i \in preparing : job[i].st = "noquote"
       THEN phase' = "error" /\ UNCHANGED <<wave, preparing, storing, job>>
       ELSE IF \E i \in preparing : job[i].st = "prepared"
       THEN phase' = "pay" /\ UNCHANGED <<wave, preparing, storing, job>>
       ELSE NextWave(job, {})
    /\ UNCHANGED <<held, late, plan, items, batch, attempts>>

\* The join of batch_upload_chunks: both sides have finished; an error of the
\* stores comes first, then one of the preparations.
Joined ==
    /\ phase = "join"
    /\ \A i \in preparing : job[i].st \in {"prepared", "already", "noquote"}
    /\ \A i \in storing : job[i].st \in {"stored", "failed"}
    /\ IF (\E i \in storing : job[i].st = "failed")
          \/ (\E i \in preparing : job[i].st = "noquote")
       THEN phase' = "error" /\ UNCHANGED <<wave, preparing, storing, job>>
       ELSE IF \E i \in preparing : job[i].st = "prepared"
       THEN phase' = "pay" /\ UNCHANGED <<wave, preparing, storing, job>>
       ELSE NextWave(job, {})
    /\ UNCHANGED <<held, late, plan, items, batch, attempts>>

PaidJobs(S) ==
    [i \in Pos |-> IF i \in S THEN [job[i] EXCEPT !.st = "paid", !.paid = @ + 1]
                   ELSE job[i]]

\* batch_pay, or the external signer and finalize_batch_payment: everything
\* is paid, or an error comes back although some of it was paid.
Pay ==
    LET S == {i \in preparing : job[i].st = "prepared"}
    IN  /\ phase = "pay"
        /\ \/ NextWave(PaidJobs(S), S)
           \/ /\ \E T \in SUBSET S : job' = PaidJobs(T)
              /\ phase' = "error"
              /\ UNCHANGED <<wave, preparing, storing>>
        /\ UNCHANGED <<held, late, plan, items, batch, attempts>>
-----------------------------------------------------------------------------
\* pay_for_merkle_batch, one sub-batch at a time.
MerkleWaves == IF plan[1] = "file" THEN Groups(items, WaveSize) ELSE 1

MerkleWave(k) == IF plan[1] = "file" THEN Group(items, WaveSize, k) ELSE items

\* Candidate pools, payment and proofs of the next sub-batch: paid; no
\* payment for lack of peers, where Auto turns to waves of single payments;
\* another error, before or after the payment.  There is no tree of one leaf.
MerklePay ==
    LET S == Group(items, MaxLeaves, batch + 1)
    IN  /\ phase = "merkle"
        /\ \/ /\ batch < Groups(items, MaxLeaves)
              /\ Cardinality(S) > 1
              /\ batch' = batch + 1
              /\ job' = PaidJobs(S)
              /\ phase' \in {"merkle", "error"}
              /\ UNCHANGED items
           \/ /\ batch < Groups(items, MaxLeaves)
              /\ IF plan[2] = "auto" THEN phase' \in {"join", "error"} ELSE phase' = "error"
              /\ items' = IF phase' = "join" THEN Unique ELSE items
              /\ UNCHANGED <<batch, job>>
        /\ UNCHANGED <<held, late, plan, wave, preparing, storing, attempts>>

\* upload_waves_merkle, merkle_upload_chunks: the next stream of PUTs, or the end.
MerkleNext ==
    /\ \/ phase = "merkle" /\ batch = Groups(items, MaxLeaves)
       \/ phase = "mput" /\ \A i \in storing : job[i].st = "stored"
    /\ IF wave = MerkleWaves
       THEN phase' = "done" /\ storing' = {} /\ UNCHANGED wave
       ELSE phase' = "mput" /\ storing' = MerkleWave(wave + 1) /\ wave' = wave + 1
    /\ UNCHANGED <<held, late, plan, items, batch, preparing, job, attempts>>

\* The stream ends with its first error; the other PUTs are dropped.
MerkleAbort ==
    /\ phase = "mput" /\ \E i \in storing : job[i].st = "failed"
    /\ phase' = "error"
    /\ Drop(UNION {{List[i]} \X job[i].wait : i \in storing})
    /\ UNCHANGED <<held, plan, items, wave, batch, preparing, storing, job,
                   attempts>>
-----------------------------------------------------------------------------
\* chunk_put_to_close_group: PUTs to the first Majority peers of the list
\* (quoted peers in the order of their answers, or a new lookup for merkle).
Put(i) ==
    /\ i \in storing /\ job[i].st = "paid" /\ phase \in {"join", "mput"}
    /\ Cardinality({k \in storing : job[k].st = "putting"}) < Concurrency
    /\ \/ \E G \in SUBSET Peer : \E S \in SUBSET G :
             /\ G # {} /\ (phase = "join" => G = Peer)
             /\ Cardinality(S) = IF Cardinality(G) < Majority THEN Cardinality(G) ELSE Majority
             /\ job' = [job EXCEPT ![i].st = "putting", ![i].wait = S, ![i].rest = G \ S]
       \/ phase = "mput" /\ job' = [job EXCEPT ![i].st = "failed"]
    /\ UNCHANGED <<held, late, phase, plan, items, wave, batch, preparing,
                   storing, attempts>>

\* The end of a chunk's PUTs.
Ended(j, st) == [Fresh EXCEPT !.st = st, !.had = j.had, !.paid = j.paid]

\* Mutant: the first answer is taken for the chunk's.
PutOkFirst(i, p) ==
    LET j == job[i]
    IN  /\ i \in storing /\ j.st = "putting" /\ p \in j.wait
        /\ held' = [held EXCEPT ![List[i]] = @ \cup {p}]
        /\ Drop({List[i]} \X (j.wait \ {p}))
        /\ job' = [job EXCEPT ![i] = Ended(j, "stored")]
        /\ UNCHANGED <<phase, plan, items, wave, batch, preparing, storing, attempts>>

\* The peer stores the chunk or has it already.
PutOk(i, p) ==
    LET j == job[i]
        ok == j.ok \cup {p}
        wait == j.wait \ {p}
    IN  /\ i \in storing /\ j.st = "putting" /\ p \in j.wait
        /\ phase \in {"join", "mput"}
        /\ held' = [held EXCEPT ![List[i]] = @ \cup {p}]
        /\ IF Cardinality(ok) >= Majority
           THEN /\ job' = [job EXCEPT ![i] = Ended(j, "stored")]
                /\ Drop({List[i]} \X wait)
           ELSE /\ job' = [job EXCEPT ![i] = IF wait = {} THEN Ended(j, "failed")
                                             ELSE [j EXCEPT !.ok = ok, !.wait = wait]]
                /\ UNCHANGED late
        /\ UNCHANGED <<phase, plan, items, wave, batch, preparing, storing, attempts>>

\* The peer refuses, or its answer does not come in time; the next fallback
\* peer takes its place.
PutFail(i, p) ==
    LET j == job[i]
    IN  /\ i \in storing /\ j.st = "putting" /\ p \in j.wait
        /\ phase \in {"join", "mput"}
        /\ Drop({<<List[i], p>>})
        /\ \/ \E q \in j.rest :
                 job' = [job EXCEPT ![i].wait = (@ \ {p}) \cup {q}, ![i].rest = @ \ {q}]
           \/ /\ j.rest = {}
              /\ job' = [job EXCEPT ![i] = IF j.wait = {p} THEN Ended(j, "failed")
                                           ELSE [j EXCEPT !.wait = @ \ {p}]]
        /\ UNCHANGED <<held, phase, plan, items, wave, batch, preparing, storing,
                       attempts>>

\* A PUT that nobody waits for arrives after all.
LateStore(a, p) ==
    /\ <<a, p>> \in late
    /\ held' = [held EXCEPT ![a] = @ \cup {p}]
    /\ late' = late \ {<<a, p>>}
    /\ UNCHANGED <<phase, plan, items, wave, batch, preparing, storing, job,
                   attempts>>

Client ==
    \/ Joined \/ Pay \/ MerklePay \/ MerkleNext \/ MerkleAbort
    \/ \E i \in Pos : Quote(i) \/ Put(i)
    \/ \E i \in Pos, p \in Peer : PutOk(i, p) \/ PutFail(i, p)

Next ==
    \/ \E p \in Plans : Begin(p)
    \/ Client
    \/ \E a \in Addr, p \in Peer : LateStore(a, p)

Spec == Init /\ [][Next]_vars

\* Every request is answered or times out, and the client's tasks run.
FairSpec == Spec /\ WF_vars(Client)
-----------------------------------------------------------------------------
Merkle == batch > 0

\* An upload that returns Ok has every chunk on a majority of the close
\* group (chunk.rs: "Store a chunk to `CLOSE_GROUP_MAJORITY` peers"), whatever
\* mix of quotes, fallbacks, timeouts and earlier replicas led there.
UploadedIsReplicated ==
    phase = "done" => \A a \in Addr : Cardinality(held[a]) >= Majority

\* A chunk that any working peer of the group already had when the client
\* asked is never paid for one by one (quote.rs needs a quote from every peer,
\* and a peer that has the chunk gives none).
NeverPaysForHeld ==
    \A i \in Pos : (~Merkle /\ job[i].paid > 0) => job[i].had \subseteq Flaky

AtRisk(i) == job[i].st \in {"paid", "putting", "failed"}

\* Waves are paid one by one: the chunks that are paid for and not stored are
\* all of one wave, so that a failure loses at most one wave's payments.
OneWaveAtRisk ==
    (~Merkle /\ plan[1] # "external") =>
        \A i, k \in items : AtRisk(i) /\ AtRisk(k) =>
            \E w \in 1 .. Groups(items, WaveSize) :
                {i, k} \subseteq Group(items, WaveSize, w)

Payments(a) == {i \in Pos : List[i] = a /\ job[i].paid > 0}

\* One upload pays once for an address, unless it keeps duplicates (merkle
\* payments of in-memory data, external signer) or Auto turns from merkle to
\* single payments.
PaidOnce ==
    (plan[1] = "file" \/ (plan[1] = "data" /\ ~Merkle)) /\ ~(plan[2] = "auto" /\ Merkle)
    => \A a \in Addr : /\ Cardinality(Payments(a)) <= 1
                       /\ \A i \in Payments(a) : job[i].paid = 1

\* An upload that has begun returns.
UploadEnds == phase \in {"join", "pay", "merkle", "mput"} ~> phase \in {"done", "error"}
=============================================================================
