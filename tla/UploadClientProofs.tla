------------------------- MODULE UploadClientProofs -------------------------
(***************************************************************************)
(* What an upload achieves and what it costs, for any list of chunks, any  *)
(* close group and any sizes of waves and merkle batches (UploadClient);   *)
(* then, that what is uploaded can be had back, for any file, any sizes of *)
(* chunks and batches and any interleaving (FileTransfer).                 *)
(***************************************************************************)
EXTENDS UploadClient, FileTransfer, FiniteSetTheorems, SequenceTheorems, WellFoundedInduction, TLAPS

Settled == {"already", "stored"}

\* The peers a chunk was put to hold it, and a settled chunk is on a majority.
DataInv ==
    \A i \in Pos : /\ job[i].ok \subseteq held[List[i]]
                   /\ job[i].st \in Settled => Cardinality(held[List[i]]) >= Majority

\* An attempt uploads every address.
CoverInv == phase # "idle" => \A a \in Addr : \E i \in items : List[i] = a

Reached(i) == \E k \in 1 .. wave : i \in PayWave(k)

\* Payment waves: of the chunks reached so far only those that are prepared or
\* stored now are not settled.
WaveInv ==
    phase \in {"join", "pay"} =>
        /\ wave \in 0 .. PayWaves
        /\ preparing = {} \/ (wave > 0 /\ preparing = PayWave(wave))
        /\ storing = {} \/ \E k \in 1 .. wave : storing \subseteq PayWave(k)
        /\ \A i \in items : Reached(i) /\ i \notin preparing \cup storing => job[i].st \in Settled
        /\ \A i \in preparing : job[i].st \in IF phase = "pay" THEN {"prepared", "already"}
                                              ELSE {"quoting", "prepared", "already", "noquote"}
        /\ \A i \in storing : job[i].st \in IF phase = "pay" THEN {"stored"}
                                            ELSE {"paid", "putting", "stored", "failed"}

\* Merkle payments come before the PUTs; the streams of PUTs end one by one.
MerkleInv ==
    /\ phase \in {"merkle", "mput", "done"} => preparing = {}
    /\ phase = "merkle" => wave = 0 /\ storing = {} /\ batch \in 0 .. Groups(items, MaxLeaves)
    /\ phase = "mput" => /\ wave \in 1 .. MerkleWaves /\ storing = MerkleWave(wave)
                         /\ \A k \in 1 .. wave - 1 : \A i \in MerkleWave(k) : job[i].st = "stored"
    /\ phase = "done" => storing = {} /\ \A i \in items : job[i].st \in Settled

ReplicaInv == TypeOK /\ DataInv /\ CoverInv /\ WaveInv /\ MerkleInv

\* What one attempt has paid for: each position once, while it is quoted for
\* its only wave or for its only merkle batch.
MoneyInv ==
    /\ phase = "idle" => items = {}
    /\ phase \in {"join", "pay"} /\ plan[1] # "external" => items = Unique
    /\ plan[1] = "file" => items = Unique
    /\ Merkle /\ phase \in {"join", "pay"} => plan[2] = "auto"
    /\ batch = 0 /\ phase \in {"merkle", "mput"} => \A i \in Pos : job[i] = Fresh
    /\ phase = "mput" /\ batch = 0 => items = {}
    /\ phase = "merkle" => \A i \in Pos : job[i].paid > 0 => \E k \in 1 .. batch : i \in Group(items, MaxLeaves, k)
    /\ ~Merkle /\ phase \in {"join", "pay"} =>
          \A i \in Pos : /\ ~Reached(i) => job[i].st = "todo" /\ job[i].paid = 0
                         /\ i \in preparing => job[i].paid = 0
    /\ ~(plan[2] = "auto" /\ Merkle) => \A i \in Pos : job[i].paid > 0 => job[i].paid = 1 /\ i \in items
    /\ ~Merkle => \A i \in Pos : job[i].paid > 0 \/ job[i].st = "prepared" => job[i].had \subseteq Flaky
    /\ plan[1] = "data" /\ ~Merkle => \A i \in Pos : job[i].paid > 0 => i \in Unique
-----------------------------------------------------------------------------
\* Division rounds up to a group for every member.
LEMMA GroupIndex ==
    ASSUME NEW c \in Nat, NEW C \in Nat, NEW n \in Nat \ {0}, c < C
    PROVE  (c \div n) + 1 \in 1 .. (C + n - 1) \div n
<1>1. PICK q \in Int : q = c \div n
  OBVIOUS
<1>2. PICK p \in Int : p = (C + n - 1) \div n
  OBVIOUS
<1>3. n * q <= c /\ c < n * (q + 1)
  BY <1>1, SMTT(30)
<1>4. n * p <= C + n - 1 /\ C + n - 1 < n * (p + 1)
  BY <1>2, SMTT(30)
<1>5. q >= 0
  BY <1>1, <1>3, SMTT(30)
<1>6. n * q < n * p
  <2>1. C + n - 1 >= c + n
    OBVIOUS
  <2>2. n * (p + 1) > n * q + n
    BY <1>3, <1>4, <2>1
  <2> QED
    BY <2>2
<1>7. q < p
  BY <1>6, SMTT(30)
<1> QED
  BY <1>1, <1>2, <1>5, <1>7

LEMMA PosFacts == IsFiniteSet(Pos) /\ Pos \subseteq Nat
<1>1. Pos = 1 .. Len(List) /\ Len(List) \in Nat
  BY ListAssumption DEF Pos
<1> QED
  BY <1>1, FS_Interval

\* The first chunk of an address is kept.
LEMMA UniqueCovers == Unique \subseteq Pos /\ \A a \in Addr : \E i \in Unique : List[i] = a
<1>1. Unique \subseteq Pos
  BY DEF Unique
<1>2. ASSUME NEW a \in Addr PROVE \E i \in Unique : List[i] = a
  <2> DEFINE T == {i \in Pos : List[i] = a}
  <2>1. T \subseteq Nat /\ T # {}
    BY PosFacts DEF Addr
  <2>2. PICK x \in T : \A y \in T : ~(<<y, x>> \in OpToRel(<, Nat))
    BY <2>1, WFMin, NatLessThanWellFounded
  <2>3. \A y \in T : ~(y < x)
    BY <2>1, <2>2 DEF OpToRel
  <2> QED
    BY <2>3 DEF Unique
<1> QED
  BY <1>1, <1>2

LEMMA GroupFacts ==
    ASSUME NEW S \in SUBSET Pos, NEW n \in Nat \ {0}
    PROVE  /\ Groups(S, n) \in Nat
           /\ \A i \in S : \E k \in 1 .. Groups(S, n) : i \in Group(S, n, k)
           /\ \A k : Group(S, n, k) \subseteq S
           /\ \A k, l : \A i : i \in Group(S, n, k) /\ i \in Group(S, n, l) => k = l
<1>1. IsFiniteSet(S) /\ Cardinality(S) \in Nat
  BY PosFacts, FS_Subset, FS_CardinalityType
<1>2. Groups(S, n) \in Nat
  <2>1. PICK p \in Int : p = (Cardinality(S) + n - 1) \div n
    BY <1>1
  <2>2. Cardinality(S) + n - 1 < n * (p + 1)
    BY <1>1, <2>1, SMTT(30)
  <2>3. p >= 0
    BY <1>1, <2>2, SMTT(30)
  <2> QED
    BY <2>1, <2>3 DEF Groups
<1>3. ASSUME NEW i \in S PROVE \E k \in 1 .. Groups(S, n) : i \in Group(S, n, k)
  <2> DEFINE T == {j \in S : j < i}
  <2>1. T \subseteq S \ {i}
    BY PosFacts
  <2>2. /\ IsFiniteSet(S \ {i}) /\ Cardinality(S \ {i}) = Cardinality(S) - 1
        /\ IsFiniteSet(T) /\ Cardinality(T) <= Cardinality(S \ {i})
    BY <1>1, <2>1, FS_RemoveElement, FS_Subset
  <2>3. PICK c \in Nat : c = Cardinality(T)
    BY <2>2, FS_CardinalityType
  <2>4. c < Cardinality(S)
    BY <1>1, <2>2, <2>3
  <2>5. (c \div n) + 1 \in 1 .. Groups(S, n)
    BY <1>1, <2>4, GroupIndex DEF Groups
  <2>6. i \in Group(S, n, (c \div n) + 1)
    BY <2>3 DEF Group
  <2> QED
    BY <2>5, <2>6
<1> QED
  BY <1>2, <1>3 DEF Group

\* The waves of payments, and those of merkle PUTs, take every chunk once.
LEMMA WaveFacts ==
    ASSUME TypeOK
    PROVE  /\ PayWaves \in Nat /\ MerkleWaves \in Nat
           /\ \A i \in items : \E k \in 1 .. PayWaves : i \in PayWave(k)
           /\ \A i \in items : \E k \in 1 .. MerkleWaves : i \in MerkleWave(k)
           /\ \A k : PayWave(k) \subseteq items /\ MerkleWave(k) \subseteq items
           /\ \A k, l \in 1 .. PayWaves : \A i : i \in PayWave(k) /\ i \in PayWave(l) => k = l
<1>1. items \in SUBSET Pos /\ WaveSize \in Nat \ {0}
  BY SizeAssumption DEF TypeOK
<1>2. /\ Groups(items, WaveSize) \in Nat
      /\ \A i \in items : \E k \in 1 .. Groups(items, WaveSize) : i \in Group(items, WaveSize, k)
      /\ \A k : Group(items, WaveSize, k) \subseteq items
      /\ \A k, l : \A i : i \in Group(items, WaveSize, k) /\ i \in Group(items, WaveSize, l) => k = l
  BY <1>1, GroupFacts
<1>3. /\ PayWaves \in Nat
      /\ \A i \in items : \E k \in 1 .. PayWaves : i \in PayWave(k)
      /\ \A k : PayWave(k) \subseteq items
      /\ \A k, l \in 1 .. PayWaves : \A i : i \in PayWave(k) /\ i \in PayWave(l) => k = l
  <2>1. CASE plan[1] = "external"
    BY <2>1 DEF PayWaves, PayWave
  <2>2. CASE plan[1] # "external"
    <3>1. PayWaves = Groups(items, WaveSize) /\ \A k : PayWave(k) = Group(items, WaveSize, k)
      BY <2>2 DEF PayWaves, PayWave
    <3> QED
      BY <1>2, <3>1
  <2> QED
    BY <2>1, <2>2
<1>4. /\ MerkleWaves \in Nat
      /\ \A i \in items : \E k \in 1 .. MerkleWaves : i \in MerkleWave(k)
      /\ \A k : MerkleWave(k) \subseteq items
  <2>1. CASE plan[1] # "file"
    BY <2>1 DEF MerkleWaves, MerkleWave
  <2>2. CASE plan[1] = "file"
    <3>1. MerkleWaves = Groups(items, WaveSize) /\ \A k : MerkleWave(k) = Group(items, WaveSize, k)
      BY <2>2 DEF MerkleWaves, MerkleWave
    <3> QED
      BY <1>2, <3>1
  <2> QED
    BY <2>1, <2>2
<1> QED
  BY <1>3, <1>4

\* Holding more keeps a majority.
LEMMA MoreHeld ==
    ASSUME NEW A, NEW B \in SUBSET Peer, A \subseteq B, Cardinality(A) >= Majority
    PROVE  Cardinality(B) >= Majority
<1>1. IsFiniteSet(B)
  BY PeerAssumption, FS_Subset
<1>2. IsFiniteSet(A) /\ Cardinality(A) <= Cardinality(B) /\ Cardinality(A) \in Nat /\ Cardinality(B) \in Nat
  BY <1>1, FS_Subset, FS_CardinalityType
<1>3. Majority \in Int
  BY SizeAssumption, PeerAssumption, FS_CardinalityType
<1> QED
  BY <1>2, <1>3
-----------------------------------------------------------------------------
LEMMA FreshType == Fresh \in Job
BY DEF Fresh, Job, State

LEMMA InitReplica == Init => ReplicaInv
<1> SUFFICES ASSUME Init PROVE ReplicaInv
  OBVIOUS
<1>1. TypeOK
  BY FreshType DEF Init, TypeOK, Source, Mode
<1>2. DataInv
  <2>1. \A i \in Pos : job[i] = Fresh /\ held[List[i]] = {}
    BY DEF Init, Addr
  <2> QED
    BY <2>1 DEF DataInv, Settled, Fresh
<1>3. CoverInv /\ WaveInv /\ MerkleInv
  BY DEF Init, CoverInv, WaveInv, MerkleInv
<1> QED
  BY <1>1, <1>2, <1>3 DEF ReplicaInv

ctl == <<phase, plan, items, wave, batch, preparing, storing, attempts>>

\* What a step of one position changes, and what it keeps.
Moves(i, r) ==
    /\ job' = [job EXCEPT ![i] = r] /\ UNCHANGED ctl
    /\ held' \in [Addr -> SUBSET Peer] /\ late' \subseteq Addr \X Peer
    /\ \A a \in Addr : held[a] \subseteq held'[a]
    /\ r.ok \subseteq held'[List[i]]
    /\ r.st \in Settled => Cardinality(held'[List[i]]) >= Majority
    /\ r.paid = job[i].paid /\ r.had = job[i].had
    /\ \/ /\ i \in preparing /\ job[i].st = "quoting" /\ r.st \in {"prepared", "already", "noquote"}
          /\ r.st = "prepared" => r.had \subseteq Flaky
       \/ /\ i \in storing /\ phase \in {"join", "mput"} /\ job[i].st \in {"paid", "putting"}
          /\ r.st \in {"putting", "stored", "failed"}

LEMMA PositionStep ==
    ASSUME ReplicaInv, NEW i \in Pos, NEW r \in Job, Moves(i, r)
    PROVE  ReplicaInv'
<1> USE DEF Moves
<1>1. /\ phase' = phase /\ plan' = plan /\ items' = items /\ wave' = wave /\ batch' = batch
      /\ preparing' = preparing /\ storing' = storing /\ attempts' = attempts
  BY DEF ctl
<1>2. /\ job \in [Pos -> Job] /\ job' \in [Pos -> Job] /\ job'[i] = r
      /\ \A k \in Pos \ {i} : job'[k] = job[k]
  BY DEF ReplicaInv, TypeOK
<1>3. TypeOK'
  BY <1>1, <1>2 DEF ReplicaInv, TypeOK
<1>4. DataInv'
  <2> SUFFICES ASSUME NEW k \in Pos
               PROVE  /\ job'[k].ok \subseteq held'[List[k]]
                      /\ job'[k].st \in Settled => Cardinality(held'[List[k]]) >= Majority
    BY DEF DataInv
  <2>1. CASE k = i
    BY <1>2, <2>1
  <2>2. CASE k # i
    <3>1. List[k] \in Addr
      BY DEF Addr
    <3>2. held'[List[k]] \in SUBSET Peer /\ held[List[k]] \subseteq held'[List[k]]
      BY <3>1
    <3> QED
      BY <1>2, <2>2, <3>2, MoreHeld DEF ReplicaInv, DataInv
  <2> QED
    BY <2>1, <2>2
<1>5. CoverInv'
  BY <1>1 DEF ReplicaInv, CoverInv
<1>6. WaveInv'
  <2>1. PayWaves' = PayWaves /\ (\A k : PayWave(k)' = PayWave(k)) /\ \A k : Reached(k)' = Reached(k)
    BY <1>1 DEF PayWaves, PayWave, Reached
  <2> SUFFICES ASSUME phase \in {"join", "pay"} PROVE WaveInv'
    BY <1>1 DEF WaveInv
  <2>2. /\ wave \in 0 .. PayWaves
        /\ preparing = {} \/ (wave > 0 /\ preparing = PayWave(wave))
        /\ storing = {} \/ \E k \in 1 .. wave : storing \subseteq PayWave(k)
        /\ \A k \in items : Reached(k) /\ k \notin preparing \cup storing => job[k].st \in Settled
        /\ \A k \in preparing : job[k].st \in IF phase = "pay" THEN {"prepared", "already"}
                                              ELSE {"quoting", "prepared", "already", "noquote"}
        /\ \A k \in storing : job[k].st \in IF phase = "pay" THEN {"stored"}
                                            ELSE {"paid", "putting", "stored", "failed"}
    BY DEF ReplicaInv, WaveInv
  <2>3. items \subseteq Pos /\ preparing \subseteq items /\ storing \subseteq items
    BY DEF ReplicaInv, TypeOK
  <2>4. \A k \in items : Reached(k) /\ k \notin preparing \cup storing => job'[k].st \in Settled
    BY <1>2, <2>2, <2>3
  <2>5. \A k \in preparing : job'[k].st \in IF phase = "pay" THEN {"prepared", "already"}
                                            ELSE {"quoting", "prepared", "already", "noquote"}
    BY <1>2, <2>2, <2>3
  <2>6. \A k \in storing : job'[k].st \in IF phase = "pay" THEN {"stored"}
                                          ELSE {"paid", "putting", "stored", "failed"}
    BY <1>2, <2>2, <2>3
  <2> QED
    BY <1>1, <2>1, <2>2, <2>4, <2>5, <2>6 DEF WaveInv
<1>7. MerkleInv'
  <2>1. MerkleWaves' = MerkleWaves /\ (\A k : MerkleWave(k)' = MerkleWave(k))
    BY <1>1 DEF MerkleWaves, MerkleWave
  <2>2. \A k : MerkleWave(k) \subseteq Pos
    BY WaveFacts DEF ReplicaInv, TypeOK
  <2>3. phase = "mput" => \A k \in 1 .. wave - 1 : \A j \in MerkleWave(k) : job'[j].st = "stored"
    <3> SUFFICES ASSUME phase = "mput", NEW k \in 1 .. wave - 1, NEW j \in MerkleWave(k)
                 PROVE  job'[j].st = "stored"
      OBVIOUS
    <3>1. job[j].st = "stored" /\ j \in Pos /\ preparing = {}
      BY <2>2 DEF ReplicaInv, MerkleInv
    <3> QED
      BY <1>2, <3>1
  <2>4. phase = "done" => \A j \in items : job'[j].st \in Settled
    <3> SUFFICES ASSUME phase = "done", NEW j \in items PROVE job'[j].st \in Settled
      OBVIOUS
    <3>1. job[j].st \in Settled /\ j \in Pos /\ preparing = {} /\ storing = {}
      BY DEF ReplicaInv, MerkleInv, TypeOK
    <3> QED
      BY <1>2, <3>1
  <2> QED
    BY <1>1, <2>1, <2>3, <2>4 DEF ReplicaInv, MerkleInv
<1> QED
  BY <1>3, <1>4, <1>5, <1>6, <1>7 DEF ReplicaInv

LEMMA DropType ==
    ASSUME TypeOK, NEW S \in SUBSET (Addr \X Peer), Drop(S)
    PROVE  late' \subseteq Addr \X Peer
<1>1. PICK U \in SUBSET S : late' = late \cup U
  BY DEF Drop
<1> QED
  BY <1>1 DEF TypeOK

\* A quote: a majority of peers has the chunk, or every peer quotes.
LEMMA QuoteMoves ==
    ASSUME ReplicaInv, NEW i \in Pos, Quote(i)
    PROVE  \E r \in Job : Moves(i, r)
<1>1. PICK quotes \in SUBSET Peer, already \in SUBSET Peer,
            st \in {"prepared", "already", "noquote"} :
        /\ quotes \cap job[i].had \subseteq Flaky
        /\ already \subseteq held[List[i]] \ quotes
        /\ st \in Outcome(quotes, already)
        /\ job' = [job EXCEPT ![i].st = st]
  BY DEF Quote, Outcome
<1>2. st \in {"prepared", "already", "noquote"}
  BY <1>1 DEF Outcome
<1> DEFINE r == [job[i] EXCEPT !.st = st]
<1>3. job[i] \in Job /\ job[i].had \subseteq Peer
  BY DEF ReplicaInv, TypeOK, Job
<1>4. r \in Job
  BY <1>2, <1>3 DEF Job, State
<1>5. r.st = st /\ r.paid = job[i].paid /\ r.had = job[i].had /\ r.ok = job[i].ok
  BY <1>3 DEF Job
<1>6. List[i] \in Addr /\ held[List[i]] \in SUBSET Peer
  BY DEF Addr, ReplicaInv, TypeOK
<1>7. st = "already" => Cardinality(held[List[i]]) >= Majority
  <2> SUFFICES ASSUME st = "already" PROVE Cardinality(held[List[i]]) >= Majority
    OBVIOUS
  <2>1. Cardinality(already) >= Majority /\ already \subseteq held[List[i]]
    BY <1>1 DEF Outcome
  <2> QED
    BY <1>6, <2>1, MoreHeld
<1>8. st = "prepared" => job[i].had \subseteq Flaky
  <2> SUFFICES ASSUME st = "prepared" PROVE job[i].had \subseteq Flaky
    OBVIOUS
  <2>1. Cardinality(quotes) >= Cardinality(Peer)
    BY <1>1 DEF Outcome
  <2>2. quotes = Peer
    BY <2>1, PeerAssumption, FS_Subset, FS_CardinalityType
  <2> QED
    BY <1>1, <1>3, <2>2
<1>9. /\ UNCHANGED <<held, late>> /\ UNCHANGED ctl /\ i \in preparing /\ job[i].st = "quoting"
      /\ job' = [job EXCEPT ![i] = r]
  BY <1>1 DEF Quote, ctl
<1>10. job[i].ok \subseteq held[List[i]] /\ held \in [Addr -> SUBSET Peer] /\ late \subseteq Addr \X Peer
  BY DEF ReplicaInv, DataInv, TypeOK
<1>11. r.st \in Settled => st = "already"
  BY <1>2, <1>5 DEF Settled
<1> HIDE DEF r
<1>12. Moves(i, r)
  BY <1>2, <1>5, <1>7, <1>8, <1>9, <1>10, <1>11 DEF Moves
<1> QED
  BY <1>4, <1>12

LEMMA PutMoves ==
    ASSUME ReplicaInv, NEW i \in Pos, Put(i)
    PROVE  \E r \in Job : Moves(i, r)
<1>1. job[i] \in Job /\ job[i].ok \subseteq held[List[i]]
  BY DEF ReplicaInv, TypeOK, DataInv
<1>2. /\ UNCHANGED <<held, late>> /\ UNCHANGED ctl /\ i \in storing /\ job[i].st = "paid"
      /\ phase \in {"join", "mput"}
  BY DEF Put, ctl
<1>3. held \in [Addr -> SUBSET Peer] /\ late \subseteq Addr \X Peer
  BY DEF ReplicaInv, TypeOK
<1>4. ASSUME NEW r \in Job, job' = [job EXCEPT ![i] = r], r.st \in {"putting", "failed"},
             r.paid = job[i].paid, r.had = job[i].had, r.ok = job[i].ok
      PROVE  Moves(i, r)
  BY <1>1, <1>2, <1>3, <1>4 DEF Moves, Settled
<1>5. ASSUME NEW G \in SUBSET Peer, NEW S \in SUBSET G,
             job' = [job EXCEPT ![i].st = "putting", ![i].wait = S, ![i].rest = G \ S]
      PROVE  \E r \in Job : Moves(i, r)
  <2> DEFINE r == [job[i] EXCEPT !.st = "putting", !.wait = S, !.rest = G \ S]
  <2>1. r \in Job
    BY <1>1, <1>5 DEF Job, State
  <2>2. r.st = "putting" /\ r.paid = job[i].paid /\ r.had = job[i].had /\ r.ok = job[i].ok
    BY <1>1 DEF Job
  <2>3. job' = [job EXCEPT ![i] = r]
    BY <1>5
  <2> HIDE DEF r
  <2> QED
    BY <1>4, <2>1, <2>2, <2>3
<1>6. ASSUME job' = [job EXCEPT ![i].st = "failed"]
      PROVE  \E r \in Job : Moves(i, r)
  <2> DEFINE r == [job[i] EXCEPT !.st = "failed"]
  <2>1. r \in Job
    BY <1>1 DEF Job, State
  <2>2. r.st = "failed" /\ r.paid = job[i].paid /\ r.had = job[i].had /\ r.ok = job[i].ok
    BY <1>1 DEF Job
  <2>3. job' = [job EXCEPT ![i] = r]
    BY <1>6
  <2> HIDE DEF r
  <2> QED
    BY <1>4, <2>1, <2>2, <2>3
<1> QED
  BY <1>5, <1>6 DEF Put

LEMMA EndedFacts ==
    ASSUME NEW j \in Job, NEW st \in State
    PROVE  /\ Ended(j, st) \in Job /\ Ended(j, st).st = st /\ Ended(j, st).ok = {}
           /\ Ended(j, st).paid = j.paid /\ Ended(j, st).had = j.had
BY DEF Ended, Fresh, Job, State

\* A peer's answer: the peer holds the chunk, and the majority that ends the
\* PUTs of a chunk holds it.
LEMMA PutOkMoves ==
    ASSUME ReplicaInv, NEW i \in Pos, NEW p \in Peer, PutOk(i, p)
    PROVE  \E r \in Job : Moves(i, r)
<1> DEFINE ok == job[i].ok \cup {p}
           wait == job[i].wait \ {p}
<1>1. job[i] \in Job /\ job[i].ok \subseteq held[List[i]] /\ job[i].wait \subseteq Peer /\ ok \subseteq Peer
  BY DEF ReplicaInv, TypeOK, DataInv, Job
<1>2. List[i] \in Addr /\ held[List[i]] \in SUBSET Peer
  BY DEF Addr, ReplicaInv, TypeOK
<1>3. /\ held' = [held EXCEPT ![List[i]] = held[List[i]] \cup {p}] /\ UNCHANGED ctl
      /\ i \in storing /\ job[i].st = "putting" /\ phase \in {"join", "mput"}
  BY DEF PutOk, ctl
<1>4. /\ held' \in [Addr -> SUBSET Peer] /\ held'[List[i]] = held[List[i]] \cup {p}
      /\ \A a \in Addr : held[a] \subseteq held'[a]
  BY <1>2, <1>3 DEF ReplicaInv, TypeOK
<1>5. late' \subseteq Addr \X Peer
  <2>1. CASE Drop({List[i]} \X wait)
    BY <1>1, <1>2, <2>1, DropType DEF ReplicaInv
  <2>2. CASE UNCHANGED late
    BY <2>2 DEF ReplicaInv, TypeOK
  <2> QED
    BY <2>1, <2>2 DEF PutOk
<1>6. ASSUME NEW r \in Job, job' = [job EXCEPT ![i] = r], r.st \in {"putting", "stored", "failed"},
             r.paid = job[i].paid, r.had = job[i].had, r.ok \subseteq ok,
             r.st = "stored" => Cardinality(ok) >= Majority
      PROVE  Moves(i, r)
  <2>1. r.ok \subseteq held'[List[i]]
    BY <1>1, <1>4, <1>6
  <2>2. r.st \in Settled => Cardinality(held'[List[i]]) >= Majority
    <3> SUFFICES ASSUME r.st \in Settled PROVE Cardinality(held'[List[i]]) >= Majority
      OBVIOUS
    <3>1. Cardinality(ok) >= Majority
      BY <1>6 DEF Settled
    <3>2. ok \subseteq held'[List[i]] /\ held'[List[i]] \in SUBSET Peer
      BY <1>1, <1>2, <1>4
    <3> QED
      BY <3>1, <3>2, MoreHeld
  <2> QED
    BY <1>3, <1>4, <1>5, <1>6, <2>1, <2>2 DEF Moves
<1>7. CASE Cardinality(ok) >= Majority /\ job' = [job EXCEPT ![i] = Ended(job[i], "stored")]
  <2>1. PICK r : r = Ended(job[i], "stored")
    OBVIOUS
  <2>2. r \in Job /\ r.st = "stored" /\ r.ok = {} /\ r.paid = job[i].paid /\ r.had = job[i].had
    BY <1>1, <2>1, EndedFacts DEF State
  <2>3. Moves(i, r)
    BY <1>6, <1>7, <2>1, <2>2
  <2> QED
    BY <2>2, <2>3
<1>8. CASE job' = [job EXCEPT ![i] = Ended(job[i], "failed")]
  <2>1. PICK r : r = Ended(job[i], "failed")
    OBVIOUS
  <2>2. r \in Job /\ r.st = "failed" /\ r.ok = {} /\ r.paid = job[i].paid /\ r.had = job[i].had
    BY <1>1, <2>1, EndedFacts DEF State
  <2>3. Moves(i, r)
    BY <1>6, <1>8, <2>1, <2>2
  <2> QED
    BY <2>2, <2>3
<1>9. CASE job' = [job EXCEPT ![i] = [job[i] EXCEPT !.ok = ok, !.wait = wait]]
  <2>1. PICK r : r = [job[i] EXCEPT !.ok = ok, !.wait = wait]
    OBVIOUS
  <2>2. wait \subseteq Peer
    BY <1>1
  <2> HIDE DEF ok, wait
  <2>3. r \in Job
    BY <1>1, <2>1, <2>2 DEF Job
  <2>4. r.st = "putting" /\ r.ok = ok /\ r.paid = job[i].paid /\ r.had = job[i].had
    BY <1>1, <1>3, <2>1 DEF Job
  <2>5. Moves(i, r)
    BY <1>6, <1>9, <2>1, <2>3, <2>4
  <2> QED
    BY <2>3, <2>5
<1> QED
  BY <1>7, <1>8, <1>9 DEF PutOk

LEMMA PutFailMoves ==
    ASSUME ReplicaInv, NEW i \in Pos, NEW p \in Peer, PutFail(i, p)
    PROVE  \E r \in Job : Moves(i, r)
<1>1. job[i] \in Job /\ job[i].ok \subseteq held[List[i]] /\ job[i].wait \subseteq Peer /\ job[i].rest \subseteq Peer
  BY DEF ReplicaInv, TypeOK, DataInv, Job
<1>2. /\ UNCHANGED held /\ UNCHANGED ctl
      /\ i \in storing /\ job[i].st = "putting" /\ phase \in {"join", "mput"}
  BY DEF PutFail, ctl
<1>3. held \in [Addr -> SUBSET Peer] /\ late' \subseteq Addr \X Peer
  <2>1. {<<List[i], p>>} \in SUBSET (Addr \X Peer)
    BY DEF Addr
  <2> QED
    BY <2>1, DropType DEF PutFail, ReplicaInv, TypeOK
<1>4. ASSUME NEW r \in Job, job' = [job EXCEPT ![i] = r], r.st \in {"putting", "failed"},
             r.paid = job[i].paid, r.had = job[i].had, r.ok \subseteq job[i].ok
      PROVE  Moves(i, r)
  BY <1>1, <1>2, <1>3, <1>4 DEF Moves, Settled
<1>5. CASE job' = [job EXCEPT ![i] = Ended(job[i], "failed")]
  <2>1. PICK r : r = Ended(job[i], "failed")
    OBVIOUS
  <2>2. r \in Job /\ r.st = "failed" /\ r.ok = {} /\ r.paid = job[i].paid /\ r.had = job[i].had
    BY <1>1, <2>1, EndedFacts DEF State
  <2>3. Moves(i, r)
    BY <1>4, <1>5, <2>1, <2>2
  <2> QED
    BY <2>2, <2>3
<1>6. ASSUME NEW W \in SUBSET Peer, NEW R \in SUBSET Peer,
             job' = [job EXCEPT ![i] = [job[i] EXCEPT !.wait = W, !.rest = R]]
      PROVE  \E r \in Job : Moves(i, r)
  <2>1. PICK r : r = [job[i] EXCEPT !.wait = W, !.rest = R]
    OBVIOUS
  <2>2. r \in Job
    BY <1>1, <2>1 DEF Job
  <2>3. r.st = "putting" /\ r.ok = job[i].ok /\ r.paid = job[i].paid /\ r.had = job[i].had
    BY <1>1, <1>2, <2>1 DEF Job
  <2>4. Moves(i, r)
    BY <1>4, <1>6, <2>1, <2>2, <2>3
  <2> QED
    BY <2>2, <2>4
<1>7. CASE job' = [job EXCEPT ![i] = [job[i] EXCEPT !.wait = job[i].wait \ {p}]]
  <2>1. [job[i] EXCEPT !.wait = job[i].wait \ {p}] = [job[i] EXCEPT !.wait = job[i].wait \ {p}, !.rest = job[i].rest]
    BY <1>1 DEF Job
  <2>2. job[i].wait \ {p} \in SUBSET Peer /\ job[i].rest \in SUBSET Peer
    BY <1>1
  <2> QED
    BY <1>6, <1>7, <2>1, <2>2
<1>8. ASSUME NEW q \in job[i].rest,
             job' = [job EXCEPT ![i].wait = (job[i].wait \ {p}) \cup {q}, ![i].rest = job[i].rest \ {q}]
      PROVE  \E r \in Job : Moves(i, r)
  <2>1. (job[i].wait \ {p}) \cup {q} \in SUBSET Peer /\ job[i].rest \ {q} \in SUBSET Peer
    BY <1>1
  <2>2. job' = [job EXCEPT ![i] = [job[i] EXCEPT !.wait = (job[i].wait \ {p}) \cup {q},
                                                 !.rest = job[i].rest \ {q}]]
    BY <1>8
  <2> QED
    BY <1>6, <2>1, <2>2
<1> QED
  BY <1>5, <1>7, <1>8 DEF PutFail

\* The next wave begins when what is left of the last one is settled.
LEMMA NextWaveStep ==
    ASSUME ReplicaInv, phase \in {"join", "pay"}, NEW js \in [Pos -> Job], NEW paid \in SUBSET preparing,
           \A i \in Pos : js[i].ok = job[i].ok,
           \A i \in Pos \ paid : js[i] = job[i],
           \A i \in paid : js[i].st = "paid",
           \A i \in (preparing \cup storing) \ paid : job[i].st \in Settled,
           NextWave(js, paid), UNCHANGED <<held, late, plan, items, batch, attempts>>
    PROVE  ReplicaInv'
<1>1. /\ items \subseteq Pos /\ preparing \subseteq items /\ storing \subseteq items
      /\ held \in [Addr -> SUBSET Peer] /\ wave \in Nat
  BY DEF ReplicaInv, TypeOK
<1>2. /\ PayWaves' = PayWaves /\ (\A k : PayWave(k)' = PayWave(k)) /\ \A k : PayWave(k) \subseteq items
      /\ PayWaves \in Nat
      /\ \A k, l \in 1 .. PayWaves : \A i : i \in PayWave(k) /\ i \in PayWave(l) => k = l
      /\ \A i \in items : \E k \in 1 .. PayWaves : i \in PayWave(k)
  BY WaveFacts DEF PayWaves, PayWave, ReplicaInv
<1>3. /\ wave \in 0 .. PayWaves
      /\ preparing = {} \/ (wave > 0 /\ preparing = PayWave(wave))
      /\ \A i \in items : Reached(i) /\ i \notin preparing \cup storing => job[i].st \in Settled
  BY DEF ReplicaInv, WaveInv
<1>4. \A i \in items : Reached(i) /\ i \notin paid => job[i].st \in Settled /\ js[i] = job[i]
  BY <1>1, <1>3
<1>5. \A a \in Addr : \E i \in items : List[i] = a
  BY DEF ReplicaInv, CoverInv
<1>6. CASE /\ paid = {} /\ wave = PayWaves /\ UNCHANGED wave
           /\ phase' = "done" /\ preparing' = {} /\ storing' = {} /\ job' = js
  <2>1. TypeOK'
    BY <1>6 DEF ReplicaInv, TypeOK
  <2>2. job' = job
    BY <1>6 DEF ReplicaInv, TypeOK
  <2>3. DataInv'
    BY <2>2 DEF ReplicaInv, DataInv
  <2>4. \A i \in items : job[i].st \in Settled
    BY <1>2, <1>4, <1>6 DEF Reached
  <2>5. CoverInv' /\ WaveInv' /\ MerkleInv'
    BY <1>5, <1>6, <2>2, <2>4 DEF CoverInv, WaveInv, MerkleInv
  <2> QED
    BY <2>1, <2>3, <2>5 DEF ReplicaInv
<1>7. ASSUME NEW new,
             \/ new = {} /\ wave' = wave
             \/ new = PayWave(wave + 1) /\ wave' = wave + 1 /\ wave < PayWaves,
             phase' = "join", preparing' = new, storing' = paid, job' = Ask(js, new)
      PROVE  ReplicaInv'
  <2>1. new \subseteq items /\ wave' \in 0 .. PayWaves
    BY <1>2, <1>3, <1>7
  <2>2. \A i \in Pos : job'[i] = IF i \in new THEN [js[i] EXCEPT !.st = "quoting", !.had = held[List[i]]] ELSE js[i]
    BY <1>7 DEF Ask
  <2>3. \A i \in new : [js[i] EXCEPT !.st = "quoting", !.had = held[List[i]]] \in Job
    <3> SUFFICES ASSUME NEW i \in new PROVE [js[i] EXCEPT !.st = "quoting", !.had = held[List[i]]] \in Job
      OBVIOUS
    <3>1. js[i] \in Job /\ held[List[i]] \in SUBSET Peer /\ "quoting" \in State
      BY <1>1, <2>1 DEF Addr, State
    <3> QED
      BY <3>1 DEF Job
  <2>4. job' \in [Pos -> Job]
    BY <1>7, <2>3 DEF Ask
  <2>5. TypeOK'
    BY <1>1, <1>3, <1>7, <2>1, <2>4 DEF ReplicaInv, TypeOK
  <2>6. \A i \in new : job'[i].st = "quoting" /\ job'[i].ok = js[i].ok
    BY <1>1, <2>1, <2>2 DEF Job
  <2>7. DataInv'
    <3> SUFFICES ASSUME NEW i \in Pos
                 PROVE  /\ job'[i].ok \subseteq held[List[i]]
                        /\ job'[i].st \in Settled => Cardinality(held[List[i]]) >= Majority
      BY DEF DataInv
    <3>1. /\ job[i].ok \subseteq held[List[i]] /\ js[i].ok = job[i].ok
          /\ job[i].st \in Settled => Cardinality(held[List[i]]) >= Majority
      BY DEF ReplicaInv, DataInv
    <3> QED
      BY <2>2, <2>6, <3>1 DEF Settled
  <2>8. \A i \in paid : i \notin new
    BY <1>2, <1>3, <1>7
  <2>9. WaveInv'
    <3>1. storing' = {} \/ \E k \in 1 .. wave' : storing' \subseteq PayWave(k)
      BY <1>3, <1>7
    <3>2. \A i \in items : Reached(i)' /\ i \notin new \cup paid => job'[i].st \in Settled
      <4> SUFFICES ASSUME NEW i \in items, Reached(i)', i \notin new \cup paid PROVE job'[i].st \in Settled
        OBVIOUS
      <4>1. PICK k \in 1 .. wave' : i \in PayWave(k)
        BY <1>2 DEF Reached
      <4>2. k \in 1 .. wave
        BY <1>3, <1>7, <4>1
      <4>3. Reached(i)
        BY <4>1, <4>2 DEF Reached
      <4> QED
        BY <1>1, <1>4, <2>2, <4>3
    <3>3. \A i \in storing' : job'[i].st = "paid"
      BY <1>1, <1>7, <2>2, <2>8
    <3> QED
      BY <1>2, <1>3, <1>7, <2>1, <2>6, <3>1, <3>2, <3>3 DEF WaveInv
  <2>10. CoverInv' /\ MerkleInv'
    BY <1>5, <1>7 DEF CoverInv, MerkleInv
  <2> QED
    BY <2>5, <2>7, <2>9, <2>10 DEF ReplicaInv
<1>8. CASE paid = {} /\ ~(wave < PayWaves)
  BY <1>2, <1>3, <1>6, <1>8 DEF NextWave
<1>9. CASE ~(paid = {} /\ ~(wave < PayWaves))
  <2> DEFINE ask == wave < PayWaves /\ (paid = {} \/ plan[1] = "data")
             new == IF ask THEN PayWave(wave + 1) ELSE {}
  <2>1. /\ phase' = "join" /\ preparing' = new /\ storing' = paid
        /\ wave' = IF ask THEN wave + 1 ELSE wave
        /\ job' = Ask(js, new)
    BY <1>9 DEF NextWave
  <2>2. \/ new = {} /\ wave' = wave
        \/ new = PayWave(wave + 1) /\ wave' = wave + 1 /\ wave < PayWaves
    BY <2>1
  <2> HIDE DEF new
  <2> QED
    BY <1>7, <2>1, <2>2
<1> QED
  BY <1>8, <1>9

LEMMA JoinedStep ==
    ASSUME ReplicaInv, Joined
    PROVE  ReplicaInv'
<1>1. /\ phase = "join" /\ UNCHANGED <<held, late, plan, items, batch, attempts>>
      /\ \A i \in preparing : job[i].st \in {"prepared", "already", "noquote"}
      /\ \A i \in storing : job[i].st \in {"stored", "failed"}
  BY DEF Joined
<1>2. job \in [Pos -> Job]
  BY DEF ReplicaInv, TypeOK
<1>3. CASE phase' = "error" /\ UNCHANGED <<wave, preparing, storing, job>>
  BY <1>1, <1>3 DEF ReplicaInv, TypeOK, DataInv, CoverInv, WaveInv, MerkleInv
<1>4. CASE /\ phase' = "pay" /\ UNCHANGED <<wave, preparing, storing, job>>
           /\ \A i \in storing : job[i].st # "failed"
           /\ \A i \in preparing : job[i].st # "noquote"
  <2>1. TypeOK' /\ DataInv' /\ CoverInv' /\ MerkleInv'
    BY <1>1, <1>4 DEF ReplicaInv, TypeOK, DataInv, CoverInv, MerkleInv
  <2>2. PayWaves' = PayWaves /\ (\A k : PayWave(k)' = PayWave(k)) /\ \A k : Reached(k)' = Reached(k)
    BY <1>1, <1>4 DEF PayWaves, PayWave, Reached
  <2>3. WaveInv'
    BY <1>1, <1>4, <2>2 DEF ReplicaInv, WaveInv
  <2> QED
    BY <2>1, <2>3 DEF ReplicaInv
<1>5. CASE /\ NextWave(job, {})
           /\ \A i \in storing : job[i].st # "failed"
           /\ \A i \in preparing : job[i].st \notin {"noquote", "prepared"}
  <2>1. \A i \in (preparing \cup storing) \ {} : job[i].st \in Settled
    BY <1>1, <1>5 DEF Settled
  <2> QED
    BY <1>1, <1>2, <1>5, <2>1, NextWaveStep
<1> QED
  BY <1>3, <1>4, <1>5 DEF Joined

\* Paying changes the positions that are paid for, and only their payment.
LEMMA PaidFacts ==
    ASSUME TypeOK, NEW S \in SUBSET Pos
    PROVE  /\ PaidJobs(S) \in [Pos -> Job]
           /\ \A i \in Pos \ S : PaidJobs(S)[i] = job[i]
           /\ \A i \in S : /\ PaidJobs(S)[i].st = "paid" /\ PaidJobs(S)[i].paid = job[i].paid + 1
                           /\ PaidJobs(S)[i].ok = job[i].ok /\ PaidJobs(S)[i].had = job[i].had
<1>1. job \in [Pos -> Job]
  BY DEF TypeOK
<1>2. ASSUME NEW i \in S
      PROVE  /\ PaidJobs(S)[i] \in Job
             /\ PaidJobs(S)[i].st = "paid" /\ PaidJobs(S)[i].paid = job[i].paid + 1
             /\ PaidJobs(S)[i].ok = job[i].ok /\ PaidJobs(S)[i].had = job[i].had
  <2>1. job[i] \in Job /\ job[i].paid \in Nat /\ "paid" \in State
    BY <1>1 DEF Job, State
  <2>2. PICK n \in Nat : n = job[i].paid + 1
    BY <2>1
  <2>3. PaidJobs(S)[i] = [job[i] EXCEPT !.st = "paid", !.paid = n]
    BY <2>2 DEF PaidJobs
  <2> QED
    BY <2>1, <2>2, <2>3 DEF Job
<1>3. \A i \in Pos \ S : PaidJobs(S)[i] = job[i]
  BY DEF PaidJobs
<1>4. PaidJobs(S) = [i \in Pos |-> PaidJobs(S)[i]]
  BY DEF PaidJobs
<1> QED
  BY <1>1, <1>2, <1>3, <1>4

LEMMA PayStep ==
    ASSUME ReplicaInv, Pay
    PROVE  ReplicaInv'
<1> DEFINE S == {i \in preparing : job[i].st = "prepared"}
<1>1. phase = "pay" /\ UNCHANGED <<held, late, plan, items, batch, attempts>>
  BY DEF Pay
<1>2. S \subseteq preparing /\ preparing \subseteq Pos /\ storing \subseteq Pos /\ TypeOK
  BY DEF ReplicaInv, TypeOK
<1>3. /\ \A i \in preparing : job[i].st \in {"prepared", "already"}
      /\ \A i \in storing : job[i].st = "stored"
  BY <1>1 DEF ReplicaInv, WaveInv
<1>4. CASE NextWave(PaidJobs(S), S)
  <2>1. PICK js : js = PaidJobs(S)
    OBVIOUS
  <2>2. \A i \in (preparing \cup storing) \ S : job[i].st \in Settled
    BY <1>3 DEF Settled
  <2>3. /\ js \in [Pos -> Job] /\ \A i \in Pos \ S : js[i] = job[i]
        /\ \A i \in S : js[i].st = "paid" /\ js[i].ok = job[i].ok
    BY <1>2, <2>1, PaidFacts
  <2>4. PICK T \in SUBSET preparing : T = S
    BY <1>2
  <2>5. \A i \in Pos : js[i].ok = job[i].ok
    BY <2>3
  <2> HIDE DEF S
  <2> QED
    BY <1>1, <1>4, <2>1, <2>2, <2>3, <2>4, <2>5, NextWaveStep
<1>5. ASSUME NEW T \in SUBSET S, job' = PaidJobs(T), phase' = "error", UNCHANGED <<wave, preparing, storing>>
      PROVE  ReplicaInv'
  <2>1. /\ job' \in [Pos -> Job] /\ \A i \in Pos \ T : job'[i] = job[i]
        /\ \A i \in T : job'[i].st = "paid" /\ job'[i].ok = job[i].ok
    BY <1>2, <1>5, PaidFacts
  <2>2. TypeOK'
    BY <1>1, <1>5, <2>1 DEF ReplicaInv, TypeOK
  <2>3. DataInv'
    BY <1>1, <2>1 DEF ReplicaInv, DataInv, Settled
  <2>4. CoverInv' /\ WaveInv' /\ MerkleInv'
    BY <1>1, <1>5 DEF ReplicaInv, CoverInv, WaveInv, MerkleInv
  <2> QED
    BY <2>2, <2>3, <2>4 DEF ReplicaInv
<1> QED
  BY <1>4, <1>5 DEF Pay

\* Before the first wave nothing is reached.
LEMMA FirstWave ==
    ASSUME TypeOK', items' \in SUBSET Pos, wave' = 0, preparing' = {}, storing' = {}
    PROVE  WaveInv'
<1>1. PayWaves' \in Nat
  BY GroupFacts, SizeAssumption DEF PayWaves
<1>2. \A i : ~Reached(i)'
  BY DEF Reached
<1> QED
  BY <1>1, <1>2 DEF WaveInv

LEMMA BeginStep ==
    ASSUME ReplicaInv, NEW p \in Plans, Begin(p)
    PROVE  ReplicaInv'
<1>1. /\ plan' = p /\ attempts' = attempts + 1 /\ wave' = 0 /\ batch' = 0
      /\ preparing' = {} /\ storing' = {} /\ job' = [i \in Pos |-> Fresh]
      /\ items' \in {Pos, Unique} /\ phase' \in {"merkle", "join"} /\ UNCHANGED <<held, late>>
  BY DEF Begin
<1>2. items' \in SUBSET Pos /\ \A a \in Addr : \E i \in items' : List[i] = a
  BY <1>1, UniqueCovers DEF Addr
<1>3. TypeOK'
  <2>1. p \in Source \X Mode
    BY PlanAssumption
  <2> QED
    BY <1>1, <1>2, <2>1, FreshType DEF ReplicaInv, TypeOK
<1>4. DataInv'
  <2>1. Fresh.ok = {} /\ Fresh.st \notin Settled
    BY DEF Fresh, Settled
  <2> QED
    BY <1>1, <2>1 DEF DataInv
<1>5. CoverInv'
  BY <1>2 DEF CoverInv
<1>6. WaveInv'
  BY <1>1, <1>2, <1>3, FirstWave
<1>7. MerkleInv'
  <2>1. Groups(items', MaxLeaves) \in Nat
    BY <1>2, GroupFacts, SizeAssumption
  <2> QED
    BY <1>1, <2>1 DEF MerkleInv
<1> QED
  BY <1>3, <1>4, <1>5, <1>6, <1>7 DEF ReplicaInv

LEMMA MerklePayStep ==
    ASSUME ReplicaInv, MerklePay
    PROVE  ReplicaInv'
<1>1. /\ phase = "merkle" /\ wave = 0 /\ preparing = {} /\ storing = {} /\ batch \in 0 .. Groups(items, MaxLeaves)
      /\ batch < Groups(items, MaxLeaves) /\ items \in SUBSET Pos
      /\ UNCHANGED <<held, late, plan, wave, preparing, storing, attempts>>
  BY DEF MerklePay, ReplicaInv, MerkleInv, TypeOK
<1>2. ASSUME NEW S \in SUBSET Pos, batch' = batch + 1, job' = PaidJobs(S), phase' \in {"merkle", "error"}, items' = items
      PROVE  ReplicaInv'
  <2>1. /\ job' \in [Pos -> Job] /\ \A i \in Pos \ S : job'[i] = job[i]
        /\ \A i \in S : job'[i].st = "paid" /\ job'[i].ok = job[i].ok
    BY <1>2, PaidFacts DEF ReplicaInv
  <2>2. TypeOK'
    BY <1>1, <1>2, <2>1 DEF ReplicaInv, TypeOK
  <2>3. DataInv'
    BY <1>1, <2>1 DEF ReplicaInv, DataInv, Settled
  <2>4. CoverInv' /\ WaveInv'
    BY <1>1, <1>2 DEF ReplicaInv, CoverInv, WaveInv
  <2>5. MerkleInv'
    <3>1. Groups(items, MaxLeaves) \in Nat
      BY <1>1, GroupFacts, SizeAssumption
    <3>2. batch' \in 0 .. Groups(items, MaxLeaves)
      BY <1>1, <1>2, <3>1
    <3> QED
      BY <1>1, <1>2, <3>2 DEF MerkleInv
  <2> QED
    BY <2>2, <2>3, <2>4, <2>5 DEF ReplicaInv
<1>3. CASE /\ phase' \in {"join", "error"} /\ items' = IF phase' = "join" THEN Unique ELSE items
           /\ UNCHANGED <<batch, job>>
  <2>1. items' \in SUBSET Pos /\ \A a \in Addr : \E i \in items' : List[i] = a
    BY <1>1, <1>3, UniqueCovers DEF ReplicaInv, CoverInv
  <2>2. TypeOK'
    BY <1>1, <1>3, <2>1 DEF ReplicaInv, TypeOK
  <2>3. DataInv'
    BY <1>1, <1>3 DEF ReplicaInv, DataInv
  <2>4. CoverInv' /\ MerkleInv'
    BY <1>3, <2>1 DEF CoverInv, MerkleInv
  <2>5. WaveInv'
    BY <1>1, <2>1, <2>2, FirstWave
  <2> QED
    BY <2>2, <2>3, <2>4, <2>5 DEF ReplicaInv
<1>4. Group(items, MaxLeaves, batch + 1) \in SUBSET Pos
  BY <1>1 DEF Group
<1> QED
  BY <1>2, <1>3, <1>4 DEF MerklePay

LEMMA MerkleNextStep ==
    ASSUME ReplicaInv, MerkleNext
    PROVE  ReplicaInv'
<1>1. /\ UNCHANGED <<held, late, plan, items, batch, preparing, job, attempts>>
      /\ phase \in {"merkle", "mput"} /\ preparing = {} /\ wave \in Nat /\ MerkleWaves \in Nat
      /\ phase = "mput" => \A i \in storing : job[i].st = "stored"
  BY WaveFacts DEF MerkleNext, ReplicaInv, MerkleInv, TypeOK
<1>2. wave \in 0 .. MerkleWaves /\ \A k \in 1 .. wave : \A i \in MerkleWave(k) : job[i].st = "stored"
  BY <1>1 DEF ReplicaInv, MerkleInv
<1>3. MerkleWaves' = MerkleWaves /\ \A k : MerkleWave(k)' = MerkleWave(k) /\ MerkleWave(k) \subseteq items
  BY <1>1, WaveFacts DEF MerkleWaves, MerkleWave, ReplicaInv
<1>4. DataInv' /\ CoverInv'
  BY <1>1 DEF ReplicaInv, DataInv, CoverInv
<1>5. CASE wave = MerkleWaves /\ phase' = "done" /\ storing' = {} /\ UNCHANGED wave
  <2>1. TypeOK' /\ WaveInv'
    BY <1>1, <1>5 DEF ReplicaInv, TypeOK, WaveInv
  <2>2. \A i \in items : job[i].st = "stored"
    BY <1>2, <1>5, WaveFacts DEF ReplicaInv
  <2>3. MerkleInv'
    BY <1>1, <1>5, <2>2 DEF MerkleInv, Settled
  <2> QED
    BY <1>4, <2>1, <2>3 DEF ReplicaInv
<1>6. CASE wave # MerkleWaves /\ phase' = "mput" /\ storing' = MerkleWave(wave + 1) /\ wave' = wave + 1
  <2>1. TypeOK' /\ WaveInv'
    BY <1>1, <1>3, <1>6 DEF ReplicaInv, TypeOK, WaveInv
  <2>2. wave' \in 1 .. MerkleWaves /\ 1 .. wave' - 1 = 1 .. wave
    BY <1>1, <1>2, <1>6
  <2>3. MerkleInv'
    BY <1>1, <1>2, <1>3, <1>6, <2>2 DEF MerkleInv
  <2> QED
    BY <1>4, <2>1, <2>3 DEF ReplicaInv
<1> QED
  BY <1>5, <1>6 DEF MerkleNext

LEMMA MerkleAbortStep ==
    ASSUME ReplicaInv, MerkleAbort
    PROVE  ReplicaInv'
<1>1. phase' = "error" /\ UNCHANGED <<held, plan, items, wave, batch, preparing, storing, job, attempts>>
      /\ phase = "mput"
  BY DEF MerkleAbort
<1>2. late' \subseteq Addr \X Peer
  <2>1. \A i \in storing : List[i] \in Addr /\ job[i].wait \subseteq Peer
    BY DEF ReplicaInv, TypeOK, Job, Addr
  <2>2. UNION {{List[i]} \X job[i].wait : i \in storing} \in SUBSET (Addr \X Peer)
    BY <2>1
  <2> QED
    BY <2>2, DropType DEF MerkleAbort, ReplicaInv
<1> QED
  BY <1>1, <1>2 DEF ReplicaInv, TypeOK, DataInv, CoverInv, WaveInv, MerkleInv

LEMMA LateStep ==
    ASSUME ReplicaInv, NEW a \in Addr, NEW p \in Peer, LateStore(a, p)
    PROVE  ReplicaInv'
<1>1. /\ held' = [held EXCEPT ![a] = held[a] \cup {p}] /\ late' \subseteq late
      /\ UNCHANGED <<phase, plan, items, wave, batch, preparing, storing, job, attempts>>
  BY DEF LateStore
<1>2. held' \in [Addr -> SUBSET Peer] /\ \A b \in Addr : held[b] \subseteq held'[b]
  BY <1>1 DEF ReplicaInv, TypeOK
<1>3. TypeOK' /\ CoverInv' /\ MerkleInv'
  BY <1>1, <1>2 DEF ReplicaInv, TypeOK, CoverInv, MerkleInv, MerkleWaves, MerkleWave
<1>4. WaveInv'
  BY <1>1 DEF ReplicaInv, WaveInv, Reached, PayWaves, PayWave
<1>5. DataInv'
  <2> SUFFICES ASSUME NEW i \in Pos
               PROVE  /\ job[i].ok \subseteq held'[List[i]]
                      /\ job[i].st \in Settled => Cardinality(held'[List[i]]) >= Majority
    BY <1>1 DEF DataInv
  <2>1. held[List[i]] \subseteq held'[List[i]] /\ held'[List[i]] \in SUBSET Peer
    BY <1>2 DEF Addr
  <2> QED
    BY <2>1, MoreHeld DEF ReplicaInv, DataInv
<1> QED
  BY <1>3, <1>4, <1>5 DEF ReplicaInv

LEMMA NextReplica == ReplicaInv /\ [Next]_vars => ReplicaInv'
<1> SUFFICES ASSUME ReplicaInv, [Next]_vars PROVE ReplicaInv'
  OBVIOUS
<1>1. CASE UNCHANGED vars
  BY <1>1 DEF vars, ReplicaInv, TypeOK, DataInv, CoverInv, WaveInv, MerkleInv, Reached, PayWaves, PayWave,
              MerkleWaves, MerkleWave
<1>2. ASSUME NEW i \in Pos, Quote(i) \/ Put(i) \/ \E p \in Peer : PutOk(i, p) \/ PutFail(i, p)
      PROVE  ReplicaInv'
  <2>1. PICK r \in Job : Moves(i, r)
    BY <1>2, QuoteMoves, PutMoves, PutOkMoves, PutFailMoves
  <2> QED
    BY <2>1, PositionStep
<1> QED
  BY <1>1, <1>2, BeginStep, JoinedStep, PayStep, MerklePayStep, MerkleNextStep, MerkleAbortStep, LateStep
     DEF Next, Client

\* Every variable keeps its type in every upload.
THEOREM TypeCorrect == Spec => []TypeOK
<1>1. ReplicaInv => TypeOK
  BY DEF ReplicaInv
<1> QED
  BY <1>1, InitReplica, NextReplica, PTL DEF Spec

\* When an upload returns Ok, a majority of the close group holds every chunk:
\* for any list of chunks, group, wave and batch sizes, whatever peers answer,
\* refuse or do late (chunk_put_to_close_group, batch_upload_chunks,
\* upload_waves_merkle).
THEOREM ReplicaTheorem == Spec => []UploadedIsReplicated
<1>1. ReplicaInv => UploadedIsReplicated
  BY DEF ReplicaInv, DataInv, CoverInv, MerkleInv, UploadedIsReplicated, TypeOK
<1> QED
  BY <1>1, InitReplica, NextReplica, PTL DEF Spec
-----------------------------------------------------------------------------
(* Payments *)

LEMMA InitMoney == Init => MoneyInv
<1>1. Fresh.paid = 0 /\ Fresh.st = "todo"
  BY DEF Fresh
<1> QED
  BY <1>1 DEF Init, MoneyInv, Merkle

\* The chunks that are prepared or stored now were reached.
LEMMA ReachedNow ==
    ASSUME ReplicaInv, phase \in {"join", "pay"}, NEW i \in preparing \cup storing
    PROVE  Reached(i)
<1>1. wave \in Nat
  BY DEF ReplicaInv, TypeOK
<1> QED
  BY <1>1 DEF ReplicaInv, WaveInv, Reached

LEMMA MoneyMoves ==
    ASSUME ReplicaInv, MoneyInv, NEW i \in Pos, NEW r \in Job, Moves(i, r)
    PROVE  MoneyInv'
<1>1. /\ phase' = phase /\ plan' = plan /\ items' = items /\ wave' = wave /\ batch' = batch
      /\ preparing' = preparing /\ storing' = storing
  BY DEF Moves, ctl
<1>2. /\ job'[i] = r /\ \A k \in Pos \ {i} : job'[k] = job[k]
  BY DEF Moves, ReplicaInv, TypeOK
<1>3. r.paid = job[i].paid /\ r.had = job[i].had /\ (r.st = "prepared" => r.had \subseteq Flaky)
  BY DEF Moves
<1>4. \A k \in Pos : job'[k].paid = job[k].paid /\ job'[k].had = job[k].had
  BY <1>2, <1>3
<1>5. i \in preparing \cup storing /\ preparing \subseteq items /\ storing \subseteq items
  BY DEF Moves, ReplicaInv, TypeOK
<1>6. Merkle' = Merkle /\ \A k : Reached(k)' = Reached(k)
  BY <1>1 DEF Merkle, Reached, PayWave
<1>7. batch = 0 => phase \notin {"merkle", "mput"}
  BY <1>5 DEF MoneyInv, ReplicaInv, MerkleInv
<1>8. phase \in {"join", "pay"} => Reached(i)
  BY <1>5, ReachedNow
<1>9. ~Merkle /\ phase \in {"join", "pay"} =>
          \A k \in Pos : /\ ~Reached(k) => job'[k].st = "todo" /\ job'[k].paid = 0
                         /\ k \in preparing => job'[k].paid = 0
  BY <1>2, <1>4, <1>8 DEF MoneyInv
<1>10. ~Merkle => \A k \in Pos : job'[k].paid > 0 \/ job'[k].st = "prepared" => job'[k].had \subseteq Flaky
  BY <1>2, <1>3, <1>4 DEF MoneyInv
<1> QED
  BY <1>1, <1>4, <1>6, <1>7, <1>9, <1>10 DEF MoneyInv

LEMMA MoneyNextWave ==
    ASSUME ReplicaInv, MoneyInv, phase \in {"join", "pay"},
           NEW paid \in SUBSET {i \in preparing : job[i].st = "prepared"},
           NEW js \in [Pos -> Job],
           \A i \in Pos \ paid : js[i] = job[i],
           \A i \in paid : js[i].paid = job[i].paid + 1 /\ js[i].had = job[i].had /\ js[i].st = "paid",
           NextWave(js, paid) \/ (phase' = "error" /\ job' = js /\ UNCHANGED <<wave, preparing, storing>>),
           UNCHANGED <<plan, items, batch>>
    PROVE  MoneyInv'
<1>1. /\ PayWaves' = PayWaves /\ (\A k : PayWave(k)' = PayWave(k)) /\ \A k : PayWave(k) \subseteq items
      /\ \A k, l \in 1 .. PayWaves : \A i : i \in PayWave(k) /\ i \in PayWave(l) => k = l
      /\ PayWaves \in Nat
  BY WaveFacts DEF PayWaves, PayWave, ReplicaInv
<1>2. /\ wave \in 0 .. PayWaves /\ wave \in Nat /\ preparing \subseteq items /\ items \subseteq Pos /\ job \in [Pos -> Job]
      /\ \A i \in preparing : Reached(i)
  BY ReachedNow DEF ReplicaInv, WaveInv, TypeOK
<1>3. Merkle' = Merkle
  BY DEF Merkle
<1>4. plan[1] # "external" => items = Unique
  BY DEF MoneyInv
<1>5. CASE Merkle
  <2>1. plan[2] = "auto" /\ batch # 0
    BY <1>5 DEF MoneyInv, Merkle
  <2>2. phase' \in {"done", "join", "error"}
    BY DEF NextWave
  <2> QED
    BY <1>3, <1>4, <1>5, <2>1, <2>2 DEF MoneyInv
<1>6. CASE ~Merkle
  <2>1. \A i \in Pos : /\ ~Reached(i) => job[i].st = "todo" /\ job[i].paid = 0
                       /\ i \in preparing => job[i].paid = 0
    BY <1>6 DEF MoneyInv
  <2>2. \A i \in Pos : /\ js[i].paid > 0 => js[i].paid = 1 /\ i \in items
                       /\ js[i].paid > 0 \/ js[i].st = "prepared" => js[i].had \subseteq Flaky
    <3> SUFFICES ASSUME NEW i \in Pos
                 PROVE  /\ js[i].paid > 0 => js[i].paid = 1 /\ i \in items
                        /\ js[i].paid > 0 \/ js[i].st = "prepared" => js[i].had \subseteq Flaky
      OBVIOUS
    <3>1. CASE i \in paid
      BY <1>2, <1>6, <2>1, <3>1 DEF MoneyInv
    <3>2. CASE i \notin paid
      BY <1>6, <3>2 DEF MoneyInv
    <3> QED
      BY <3>1, <3>2
  <2>3. CASE phase' \in {"done", "error"} /\ job' = js
    BY <1>3, <1>4, <2>2, <2>3 DEF MoneyInv
  <2>4. ASSUME NEW new,
               \/ new = {} /\ wave' = wave
               \/ new = PayWave(wave + 1) /\ wave' = wave + 1 /\ wave < PayWaves,
               phase' = "join", preparing' = new, job' = Ask(js, new)
        PROVE  MoneyInv'
    <3>1. \A i \in new : i \in Pos /\ ~Reached(i)
      BY <1>1, <1>2, <2>4 DEF Reached
    <3>2. \A i \in Pos : job'[i] = IF i \in new THEN [js[i] EXCEPT !.st = "quoting", !.had = held[List[i]]] ELSE js[i]
      BY <2>4 DEF Ask
    <3>3. \A i \in new : js[i] = job[i] /\ js[i].paid = 0
      BY <1>2, <2>1, <3>1
    <3>4. \A i \in new : job'[i].paid = 0 /\ job'[i].st = "quoting"
      <4> SUFFICES ASSUME NEW i \in new PROVE job'[i].paid = 0 /\ job'[i].st = "quoting"
        OBVIOUS
      <4>1. js[i] \in Job /\ job'[i] = [js[i] EXCEPT !.st = "quoting", !.had = held[List[i]]]
        BY <3>1, <3>2
      <4> QED
        BY <3>3, <4>1 DEF Job
    <3>5. \A i \in Pos : ~Reached(i)' => ~Reached(i) /\ i \notin new
      BY <1>1, <1>2, <2>4 DEF Reached
    <3>6. \A i \in Pos : ~Reached(i)' => job'[i].st = "todo" /\ job'[i].paid = 0
      BY <1>2, <2>1, <3>2, <3>5
    <3>7. \A i \in Pos : /\ job'[i].paid > 0 => job'[i].paid = 1 /\ i \in items
                         /\ job'[i].paid > 0 \/ job'[i].st = "prepared" => job'[i].had \subseteq Flaky
      <4> SUFFICES ASSUME NEW i \in Pos
                   PROVE  /\ job'[i].paid > 0 => job'[i].paid = 1 /\ i \in items
                          /\ job'[i].paid > 0 \/ job'[i].st = "prepared" => job'[i].had \subseteq Flaky
        OBVIOUS
      <4>1. CASE i \in new
        BY <3>4, <4>1
      <4>2. CASE i \notin new
        BY <2>2, <3>2, <4>2
      <4> QED
        BY <4>1, <4>2
    <3> QED
      BY <1>3, <1>4, <2>4, <3>4, <3>6, <3>7 DEF MoneyInv
  <2>5. CASE NextWave(js, paid)
    <3>1. CASE paid = {} /\ ~(wave < PayWaves)
      BY <2>3, <2>5, <3>1 DEF NextWave
    <3>2. CASE ~(paid = {} /\ ~(wave < PayWaves))
      <4> DEFINE ask == wave < PayWaves /\ (paid = {} \/ plan[1] = "data")
                 new == IF ask THEN PayWave(wave + 1) ELSE {}
      <4>1. phase' = "join" /\ preparing' = new /\ wave' = (IF ask THEN wave + 1 ELSE wave) /\ job' = Ask(js, new)
        BY <2>5, <3>2 DEF NextWave
      <4>2. \/ new = {} /\ wave' = wave
            \/ new = PayWave(wave + 1) /\ wave' = wave + 1 /\ wave < PayWaves
        BY <4>1
      <4> HIDE DEF new
      <4> QED
        BY <2>4, <4>1, <4>2
    <3> QED
      BY <3>1, <3>2
  <2> QED
    BY <2>3, <2>5
<1> QED
  BY <1>5, <1>6

LEMMA MoneyJoined ==
    ASSUME ReplicaInv, MoneyInv, Joined
    PROVE  MoneyInv'
<1>1. phase = "join" /\ UNCHANGED <<plan, items, batch>> /\ job \in [Pos -> Job]
  BY DEF Joined, ReplicaInv, TypeOK
<1>2. {} \in SUBSET {i \in preparing : job[i].st = "prepared"}
  OBVIOUS
<1>3. CASE NextWave(job, {}) \/ (phase' = "error" /\ UNCHANGED <<wave, preparing, storing, job>>)
  BY <1>1, <1>2, <1>3, MoneyNextWave
<1>4. CASE phase' = "pay" /\ UNCHANGED <<wave, preparing, storing, job>>
  BY <1>1, <1>4 DEF MoneyInv, Merkle, Reached, PayWave
<1> QED
  BY <1>3, <1>4 DEF Joined

LEMMA MoneyPay ==
    ASSUME ReplicaInv, MoneyInv, Pay
    PROVE  MoneyInv'
<1> DEFINE S == {i \in preparing : job[i].st = "prepared"}
<1>1. phase = "pay" /\ UNCHANGED <<plan, items, batch>> /\ S \subseteq Pos /\ TypeOK
  BY DEF Pay, ReplicaInv, TypeOK
<1>2. PICK T \in SUBSET S : \/ NextWave(PaidJobs(T), T)
                            \/ job' = PaidJobs(T) /\ phase' = "error" /\ UNCHANGED <<wave, preparing, storing>>
  BY DEF Pay
<1>3. PICK js : js = PaidJobs(T)
  OBVIOUS
<1>4. /\ js \in [Pos -> Job] /\ \A i \in Pos \ T : js[i] = job[i]
      /\ \A i \in T : js[i].paid = job[i].paid + 1 /\ js[i].had = job[i].had /\ js[i].st = "paid"
  BY <1>1, <1>2, <1>3, PaidFacts
<1> QED
  BY <1>1, <1>2, <1>3, <1>4, MoneyNextWave

\* A merkle batch pays for positions that no earlier batch had.
LEMMA MoneyMerkle ==
    ASSUME ReplicaInv, MoneyInv, MerklePay
    PROVE  MoneyInv'
<1> DEFINE S == Group(items, MaxLeaves, batch + 1)
<1>1. /\ phase = "merkle" /\ wave = 0 /\ preparing = {} /\ batch \in Nat /\ items \in SUBSET Pos
      /\ UNCHANGED <<plan, wave, preparing, storing>> /\ TypeOK
  BY DEF MerklePay, ReplicaInv, MerkleInv, TypeOK
<1>2. /\ S \subseteq items
      /\ \A k : \A i : i \in Group(items, MaxLeaves, k) /\ i \in S => k = batch + 1
  BY <1>1, GroupFacts, SizeAssumption
<1>3. CASE batch' = batch + 1 /\ job' = PaidJobs(S) /\ phase' \in {"merkle", "error"} /\ items' = items
  <2>1. /\ \A i \in Pos \ S : job'[i] = job[i]
        /\ \A i \in S : job'[i].paid = job[i].paid + 1
    BY <1>1, <1>2, <1>3, PaidFacts
  <2>2. \A i \in S : job[i].paid = 0
    <3> SUFFICES ASSUME NEW i \in S, job[i].paid # 0 PROVE FALSE
      OBVIOUS
    <3>1. job[i].paid \in Nat
      BY <1>1, <1>2 DEF TypeOK, Job
    <3>2. PICK k \in 1 .. batch : i \in Group(items, MaxLeaves, k)
      BY <1>1, <1>2, <3>1 DEF MoneyInv
    <3> QED
      BY <1>1, <1>2, <3>2
  <2>3. \A i \in Pos : job'[i].paid > 0 => \E k \in 1 .. batch + 1 : i \in Group(items, MaxLeaves, k)
    <3> SUFFICES ASSUME NEW i \in Pos, job'[i].paid > 0
                 PROVE  \E k \in 1 .. batch + 1 : i \in Group(items, MaxLeaves, k)
      OBVIOUS
    <3>1. CASE i \in S
      BY <1>1, <3>1
    <3>2. CASE i \notin S
      <4>1. PICK k \in 1 .. batch : i \in Group(items, MaxLeaves, k)
        BY <1>1, <2>1, <3>2 DEF MoneyInv
      <4> QED
        BY <1>1, <4>1
    <3> QED
      BY <3>1, <3>2
  <2>4. plan[2] # "auto" => \A i \in Pos : job'[i].paid > 0 => job'[i].paid = 1 /\ i \in items
    BY <1>2, <2>1, <2>2 DEF MoneyInv
  <2>5. Merkle' /\ batch' # 0
    BY <1>1, <1>3 DEF Merkle
  <2> QED
    BY <1>1, <1>3, <2>3, <2>4, <2>5 DEF MoneyInv
<1>4. CASE /\ IF plan[2] = "auto" THEN phase' \in {"join", "error"} ELSE phase' = "error"
           /\ items' = IF phase' = "join" THEN Unique ELSE items
           /\ UNCHANGED <<batch, job>>
  <2>1. Merkle' = Merkle /\ (Merkle = (batch # 0)) /\ Fresh.paid = 0 /\ Fresh.st = "todo"
    BY <1>1, <1>4 DEF Merkle, Fresh
  <2>2. CASE Merkle
    BY <1>1, <1>4, <2>1, <2>2 DEF MoneyInv
  <2>3. CASE ~Merkle
    <3>1. \A i \in Pos : job[i] = Fresh
      BY <1>1, <2>1, <2>3 DEF MoneyInv
    <3> QED
      BY <1>1, <1>4, <2>1, <2>3, <3>1 DEF MoneyInv
  <2> QED
    BY <2>2, <2>3
<1> HIDE DEF S
<1> QED
  BY <1>3, <1>4 DEF MerklePay, S

LEMMA MoneyMerkleNext ==
    ASSUME ReplicaInv, MoneyInv, MerkleNext
    PROVE  MoneyInv'
<1>1. UNCHANGED <<plan, items, batch, preparing, job>> /\ phase' \in {"done", "mput"} /\ phase \in {"merkle", "mput"}
  BY DEF MerkleNext
<1>2. Merkle' = Merkle
  BY <1>1 DEF Merkle
<1>3. batch = 0 => items = {}
  <2> SUFFICES ASSUME batch = 0, phase = "merkle" PROVE items = {}
    BY <1>1 DEF MoneyInv
  <2>1. Groups(items, MaxLeaves) = 0 /\ items \in SUBSET Pos
    BY DEF MerkleNext, ReplicaInv, TypeOK
  <2>2. \A i \in items : \E k \in 1 .. Groups(items, MaxLeaves) : i \in Group(items, MaxLeaves, k)
    BY <2>1, GroupFacts, SizeAssumption
  <2> QED
    BY <2>1, <2>2
<1> QED
  BY <1>1, <1>2, <1>3 DEF MoneyInv

LEMMA MoneyBegin ==
    ASSUME NEW p \in Plans, Begin(p)
    PROVE  MoneyInv'
<1>1. /\ plan' = p /\ wave' = 0 /\ batch' = 0 /\ preparing' = {} /\ job' = [i \in Pos |-> Fresh]
      /\ phase' \in {"merkle", "join"}
  BY DEF Begin
<1>2. /\ p[1] = "file" => items' = Unique
      /\ p[1] # "external" /\ phase' = "join" => items' = Unique
  <2>1. PICK merkle \in BOOLEAN :
          /\ merkle = (p[1] # "external" /\
                       should_use_merkle(IF p[1] = "file" THEN Cardinality(Unique) ELSE Len(List), p[2]))
          /\ items' \in IF p[1] = "external" THEN {Pos, Unique}
                        ELSE IF p[1] = "data" /\ merkle THEN {Pos} ELSE {Unique}
          /\ phase' = IF merkle THEN "merkle" ELSE "join"
    BY DEF Begin
  <2> QED
    BY <2>1
<1>3. ~Merkle' /\ Fresh.paid = 0 /\ Fresh.st = "todo"
  BY <1>1 DEF Merkle, Fresh
<1> QED
  BY <1>1, <1>2, <1>3 DEF MoneyInv

LEMMA NextMoney == ReplicaInv /\ MoneyInv /\ [Next]_vars => MoneyInv'
<1> SUFFICES ASSUME ReplicaInv, MoneyInv, [Next]_vars PROVE MoneyInv'
  OBVIOUS
<1>1. CASE UNCHANGED vars
  BY <1>1 DEF vars, MoneyInv, Merkle, Reached, PayWave
<1>2. ASSUME NEW i \in Pos, Quote(i) \/ Put(i) \/ \E p \in Peer : PutOk(i, p) \/ PutFail(i, p)
      PROVE  MoneyInv'
  <2>1. PICK r \in Job : Moves(i, r)
    BY <1>2, QuoteMoves, PutMoves, PutOkMoves, PutFailMoves
  <2> QED
    BY <2>1, MoneyMoves
<1>3. CASE MerkleAbort
  <2>1. phase' = "error" /\ UNCHANGED <<plan, items, wave, batch, preparing, job>>
    BY <1>3 DEF MerkleAbort
  <2> QED
    BY <2>1 DEF MoneyInv, Merkle
<1>4. ASSUME NEW a \in Addr, NEW p \in Peer, LateStore(a, p) PROVE MoneyInv'
  <2>1. UNCHANGED <<phase, plan, items, wave, batch, preparing, job>>
    BY <1>4 DEF LateStore
  <2> QED
    BY <2>1 DEF MoneyInv, Merkle, Reached, PayWave
<1> QED
  BY <1>1, <1>2, <1>3, <1>4, MoneyBegin, MoneyJoined, MoneyPay, MoneyMerkle, MoneyMerkleNext DEF Next, Client

\* A chunk that a working peer of the group had when it was asked is never paid
\* for one by one, in any upload (get_store_quotes, batch_pay).
THEOREM HeldTheorem == Spec => []NeverPaysForHeld
<1>1. MoneyInv => NeverPaysForHeld
  BY DEF MoneyInv, NeverPaysForHeld
<1> QED
  BY <1>1, InitReplica, NextReplica, InitMoney, NextMoney, PTL DEF Spec

\* One upload pays once for an address, wherever it keeps no duplicates and
\* does not turn from merkle to single payments (batch_upload_chunks, ChunkSpill,
\* pay_for_merkle_batch).
THEOREM PaidOnceTheorem == Spec => []PaidOnce
<1>1. MoneyInv => PaidOnce
  <2> SUFFICES ASSUME MoneyInv, plan[1] = "file" \/ (plan[1] = "data" /\ ~Merkle), ~(plan[2] = "auto" /\ Merkle),
                      NEW a \in Addr
               PROVE  Cardinality(Payments(a)) <= 1 /\ \A i \in Payments(a) : job[i].paid = 1
    BY DEF PaidOnce
  <2>1. \A i \in Pos : job[i].paid > 0 => job[i].paid = 1 /\ i \in Unique
    BY DEF MoneyInv
  <2>2. \A i, k \in Payments(a) : i = k
    <3> SUFFICES ASSUME NEW i \in Payments(a), NEW k \in Payments(a), i # k PROVE FALSE
      OBVIOUS
    <3>1. i \in Unique /\ k \in Unique /\ List[i] = List[k] /\ i \in Pos /\ k \in Pos
      BY <2>1 DEF Payments
    <3>2. i < k \/ k < i
      BY <3>1, PosFacts
    <3> QED
      BY <3>1, <3>2 DEF Unique
  <2>3. Cardinality(Payments(a)) <= 1
    <3>1. CASE Payments(a) = {}
      BY <3>1, FS_EmptySet
    <3>2. ASSUME NEW i \in Payments(a) PROVE Cardinality(Payments(a)) <= 1
      <4>1. Payments(a) = {i}
        BY <2>2
      <4>2. Cardinality({i}) = 1
        BY FS_Singleton
      <4> QED
        BY <4>1, <4>2
    <3> QED
      BY <3>1, <3>2
  <2> QED
    BY <2>1, <2>3 DEF Payments
<1> QED
  BY <1>1, InitReplica, NextReplica, InitMoney, NextMoney, PTL DEF Spec
-----------------------------------------------------------------------------
(* Waves at risk *)

\* While waves are paid, what is at risk is being stored, which is one wave.
LEMMA RiskOf ==
    ReplicaInv /\ MoneyInv /\ phase # "error" => OneWaveAtRisk
<1> SUFFICES ASSUME ReplicaInv, MoneyInv, phase # "error",
                    ~Merkle, plan[1] # "external", NEW i \in items, NEW k \in items, AtRisk(i), AtRisk(k)
             PROVE  \E w \in 1 .. Groups(items, WaveSize) : {i, k} \subseteq Group(items, WaveSize, w)
  BY DEF OneWaveAtRisk
<1>1. /\ items \subseteq Pos /\ wave \in Nat /\ batch \in Nat
      /\ phase \in {"idle", "join", "pay", "merkle", "mput", "done", "error"}
  BY DEF ReplicaInv, TypeOK
<1>2. PayWaves = Groups(items, WaveSize) /\ \A w : PayWave(w) = Group(items, WaveSize, w)
  BY DEF PayWaves, PayWave
<1>3. phase = "join"
  <2>1. phase # "idle"
    BY DEF MoneyInv
  <2>2. phase # "done"
    BY DEF ReplicaInv, MerkleInv, AtRisk, Settled
  <2>3. phase \notin {"merkle", "mput"}
    <3>1. Fresh.st = "todo" /\ batch = 0
      BY <1>1 DEF Fresh, Merkle
    <3> QED
      BY <1>1, <3>1 DEF MoneyInv, AtRisk
  <2>4. phase # "pay"
    <3> SUFFICES ASSUME phase = "pay" PROVE FALSE
      OBVIOUS
    <3>1. Reached(i)
      BY <1>1 DEF MoneyInv, AtRisk
    <3> QED
      BY <3>1 DEF ReplicaInv, WaveInv, AtRisk, Settled
  <2> QED
    BY <1>1, <2>1, <2>2, <2>3, <2>4
<1>4. ASSUME NEW j \in items, AtRisk(j) PROVE j \in storing
  <2>1. Reached(j)
    BY <1>1, <1>3, <1>4 DEF MoneyInv, AtRisk
  <2> QED
    BY <1>3, <1>4, <2>1 DEF ReplicaInv, WaveInv, AtRisk, Settled
<1>5. PICK w \in 1 .. wave : storing \subseteq PayWave(w)
  BY <1>3, <1>4 DEF ReplicaInv, WaveInv
<1>6. w \in 1 .. PayWaves
  <2>1. wave \in 0 .. PayWaves /\ PayWaves \in Nat
    BY <1>3, WaveFacts DEF ReplicaInv, WaveInv
  <2> QED
    BY <1>5, <2>1
<1> QED
  BY <1>2, <1>4, <1>5, <1>6

RiskOnError == phase = "error" => OneWaveAtRisk

\* An upload that fails leaves at risk what was, or a part of the wave it was
\* paying for.
LEMMA NextRisk ==
    ReplicaInv /\ MoneyInv /\ OneWaveAtRisk /\ [Next]_vars /\ ReplicaInv' => RiskOnError'
<1> SUFFICES ASSUME ReplicaInv, MoneyInv, OneWaveAtRisk, [Next]_vars, ReplicaInv', phase' = "error"
             PROVE  OneWaveAtRisk'
  BY DEF RiskOnError
<1>1. ASSUME UNCHANGED <<plan, items>>, batch' = 0 => batch = 0,
             \A i \in items : AtRisk(i)' => AtRisk(i)
      PROVE  OneWaveAtRisk'
  <2>1. batch \in Nat /\ batch' \in Nat
    BY DEF ReplicaInv, TypeOK
  <2>2. Merkle => Merkle'
    BY <1>1, <2>1 DEF Merkle
  <2> QED
    BY <1>1, <2>2 DEF OneWaveAtRisk
<1>2. ASSUME UNCHANGED <<plan, items, batch, job>> PROVE OneWaveAtRisk'
  <2>1. \A i \in items : AtRisk(i)' => AtRisk(i)
    BY <1>2 DEF AtRisk
  <2> QED
    BY <1>1, <1>2, <2>1
<1>3. CASE UNCHANGED vars \/ MerkleAbort \/ \E a \in Addr, p \in Peer : LateStore(a, p)
  BY <1>2, <1>3 DEF vars, MerkleAbort, LateStore
<1>4. ASSUME NEW i \in Pos, Quote(i) \/ Put(i) \/ \E p \in Peer : PutOk(i, p) \/ PutFail(i, p)
      PROVE  OneWaveAtRisk'
  <2>1. PICK r \in Job : Moves(i, r)
    BY <1>4, QuoteMoves, PutMoves, PutOkMoves, PutFailMoves
  <2>2. /\ UNCHANGED <<plan, items, batch, phase>> /\ items \subseteq Pos
        /\ job'[i] = r /\ \A k \in Pos \ {i} : job'[k] = job[k]
    BY <2>1 DEF Moves, ctl, ReplicaInv, TypeOK
  <2>3. r.st \in {"prepared", "already", "noquote"}
    BY <2>1, <2>2 DEF Moves
  <2>4. \A k \in items : AtRisk(k)' => AtRisk(k)
    BY <2>2, <2>3 DEF AtRisk
  <2> QED
    BY <1>1, <2>2, <2>4
<1>5. CASE Joined
  BY <1>2, <1>5 DEF Joined, NextWave
<1>6. CASE MerkleNext \/ \E p \in Plans : Begin(p)
  BY <1>6 DEF MerkleNext, Begin
<1>7. CASE MerklePay
  <2>1. CASE batch' = batch + 1
    <3>1. Merkle'
      BY <2>1 DEF Merkle, ReplicaInv, TypeOK
    <3> QED
      BY <3>1 DEF OneWaveAtRisk
  <2>2. CASE UNCHANGED <<batch, job>>
    <3>1. UNCHANGED <<plan, items>>
      BY <1>7, <2>2 DEF MerklePay, ReplicaInv, TypeOK
    <3> QED
      BY <1>2, <2>2, <3>1
  <2> QED
    BY <1>7, <2>1, <2>2 DEF MerklePay
<1>8. CASE Pay
  <2> DEFINE S == {i \in preparing : job[i].st = "prepared"}
  <2>1. /\ phase = "pay" /\ UNCHANGED <<plan, items, batch, wave, preparing>>
        /\ \E T \in SUBSET S : job' = PaidJobs(T)
    BY <1>8 DEF Pay, NextWave
  <2>2. PICK T \in SUBSET S : job' = PaidJobs(T)
    BY <2>1
  <2>3. T \subseteq Pos /\ items \subseteq Pos /\ wave \in Nat /\ TypeOK
    BY <2>2 DEF ReplicaInv, TypeOK
  <2>4. \A i \in items : AtRisk(i)' => i \in T \/ AtRisk(i)
    BY <2>2, <2>3, PaidFacts DEF AtRisk
  <2> SUFFICES ASSUME ~Merkle, plan[1] # "external", NEW i \in items, NEW k \in items, AtRisk(i)', AtRisk(k)'
               PROVE  \E w \in 1 .. Groups(items, WaveSize) : {i, k} \subseteq Group(items, WaveSize, w)
    BY <2>1 DEF OneWaveAtRisk, Merkle
  <2>5. \A j \in items : ~AtRisk(j)
    <3> SUFFICES ASSUME NEW j \in items, AtRisk(j) PROVE FALSE
      OBVIOUS
    <3>1. Reached(j)
      BY <2>1, <2>3 DEF MoneyInv, AtRisk
    <3> QED
      BY <2>1, <3>1 DEF ReplicaInv, WaveInv, AtRisk, Settled
  <2>6. i \in preparing /\ k \in preparing
    BY <2>4, <2>5
  <2>7. wave > 0 /\ preparing = PayWave(wave) /\ wave \in 0 .. PayWaves
    BY <2>1, <2>6 DEF ReplicaInv, WaveInv
  <2>8. wave \in 1 .. Groups(items, WaveSize) /\ preparing = Group(items, WaveSize, wave)
    BY <2>7 DEF PayWaves, PayWave
  <2> QED
    BY <2>6, <2>8
<1> QED
  BY <1>3, <1>4, <1>5, <1>6, <1>7, <1>8 DEF Next, Client

\* The chunks that are paid for and not stored are of one wave, so that a
\* failure loses the payments of one wave at most (batch_upload_chunks,
\* upload_waves_single).
THEOREM RiskTheorem == Spec => []OneWaveAtRisk
<1>1. Init => RiskOnError
  BY DEF Init, RiskOnError
<1>2. ReplicaInv /\ MoneyInv /\ RiskOnError => OneWaveAtRisk
  BY RiskOf DEF RiskOnError
<1> QED
  BY <1>1, <1>2, InitReplica, NextReplica, InitMoney, NextMoney, NextRisk, PTL DEF Spec
-----------------------------------------------------------------------------
(* A file on its way to the network and back: FileTransfer.  Lemmas name   *)
(* the assumptions on its constants that they use.                         *)

\* Induction over the natural numbers, for a set.
LEMMA Inductive ==
    ASSUME NEW S \in SUBSET Nat, 0 \in S, \A n \in S : n + 1 \in S
    PROVE  S = Nat
<1> SUFFICES ASSUME S # Nat PROVE FALSE
  OBVIOUS
<1> DEFINE T == Nat \ S
<1>1. T \subseteq Nat /\ T # {}
  OBVIOUS
<1>2. PICK x \in T : \A y \in T : ~(<<y, x>> \in OpToRel(<, Nat))
  BY <1>1, WFMin, NatLessThanWellFounded
<1>3. \A y \in T : ~(y < x)
  BY <1>1, <1>2 DEF OpToRel
<1>4. x \in Nat /\ x # 0
  BY <1>2
<1>5. x - 1 \in Nat /\ x - 1 < x
  BY <1>4
<1>6. x - 1 \in S
  BY <1>3, <1>5
<1>7. (x - 1) + 1 \in S
  BY <1>6
<1>8. (x - 1) + 1 = x
  BY <1>4
<1>9. x \in S
  BY <1>7, <1>8
<1> QED
  BY <1>2, <1>9
-----------------------------------------------------------------------------
(* Chunk boundaries *)

Start(s, i) == get_start_end_positions(s, i)[1]
End(s, i) == get_start_end_positions(s, i)[2]

\* Files of fewer than three chunks of full size: three thirds.
LEMMA SmallSpans ==
    ASSUME MaxChunkAssumption, NEW s \in Nat, s >= 3, s < 3 * MaxChunk
    PROVE  /\ get_num_chunks(s) = 3
           /\ \E q \in Nat : /\ q >= 1 /\ 2 * q < s
                             /\ Start(s, 0) = 0 /\ End(s, 0) = q
                             /\ Start(s, 1) = q /\ End(s, 1) = 2 * q
                             /\ Start(s, 2) = 2 * q /\ End(s, 2) = s
<1> USE DEF MaxChunkAssumption, MinChunk
<1>1. get_num_chunks(s) = 3
  BY DEF get_num_chunks
<1>2. PICK q \in Nat : q = s \div 3
  OBVIOUS
<1>3. q >= 1 /\ 2 * q < s
  BY <1>2
<1>4. /\ get_chunk_size(s, 0) = q
      /\ get_chunk_size(s, 1) = q
      /\ get_chunk_size(s, 2) = s - 2 * q
  BY <1>1, <1>2 DEF get_chunk_size
<1>5. /\ get_start_position(s, 0) = 0
      /\ get_start_position(s, 1) = q
      /\ get_start_position(s, 2) = 2 * q
  BY <1>1, <1>3, <1>4 DEF get_start_position
<1> QED
  BY <1>1, <1>3, <1>4, <1>5 DEF Start, End, get_start_end_positions

\* Larger ones: full chunks and a last one with the rest.
LEMMA LargeSpans ==
    ASSUME MaxChunkAssumption, NEW s \in Nat, s >= 3 * MaxChunk
    PROVE  \E n \in Nat :
             /\ get_num_chunks(s) = n /\ n >= 3
             /\ MaxChunk * (n - 1) < s /\ s <= MaxChunk * n
             /\ \A i \in 0 .. n - 1 : /\ Start(s, i) = MaxChunk * i
                                      /\ End(s, i) = IF i = n - 1 THEN s ELSE MaxChunk * (i + 1)
<1> USE DEF MaxChunkAssumption, MinChunk
<1> DEFINE M == MaxChunk
<1>0. M \in Nat /\ M >= 2
  OBVIOUS
<1>1. PICK n \in Int : n = (s + M - 1) \div M
  BY <1>0
<1>2. M * n <= s + M - 1 /\ s + M - 1 < M * n + M
  BY <1>0, <1>1, SMTT(30)
<1>3. M * (n - 1) < s /\ s <= M * n
  BY <1>0, <1>2, SMTT(30)
<1>4. n >= 3
  <2> SUFFICES ASSUME n <= 2 PROVE FALSE
    OBVIOUS
  <2>1. M * n <= M * 2
    BY <1>0, SMTT(30)
  <2> QED
    BY <1>0, <1>3, <2>1
<1>5. get_num_chunks(s) = n
  BY <1>0, <1>1, <1>4 DEF get_num_chunks
<1>6. PICK r \in Int : r = s % M
  BY <1>0
<1>7. r \in 0 .. M - 1 /\ (r = 0 => s = M * n) /\ (r # 0 => s = M * (n - 1) + r)
  <2>1. PICK d \in Int : d = s \div M
    BY <1>0
  <2>2. s = M * d + r /\ 0 <= r /\ r < M
    BY <1>0, <1>6, <2>1, SMTT(30)
  <2>3. d <= n
    <3> SUFFICES ASSUME d >= n + 1 PROVE FALSE
      BY <1>1, <2>1
    <3>1. M * d >= M * n + M
      BY <1>0, SMTT(30)
    <3> QED
      BY <1>0, <1>3, <2>2, <3>1
  <2>7. d >= n - 1
    <3> SUFFICES ASSUME d <= n - 2 PROVE FALSE
      BY <1>1, <2>1
    <3>1. M * d + M <= M * (n - 1)
      BY <1>0, SMTT(30)
    <3> QED
      BY <1>0, <1>3, <2>2, <3>1
  <2>4. M * (n - 1) = M * n - M
    BY <1>0, SMTT(30)
  <2>5. CASE d = n
    BY <1>0, <1>3, <2>2, <2>5
  <2>6. CASE d = n - 1
    BY <1>0, <1>3, <2>2, <2>4, <2>6
  <2> QED
    BY <2>3, <2>5, <2>6, <2>7
<1>8. ASSUME NEW i \in 0 .. n - 1
      PROVE  get_chunk_size(s, i) = IF i = n - 1 THEN s - M * (n - 1) ELSE M
  <2>1. M * n - M * (n - 1) = M
    BY <1>0, SMTT(30)
  <2>2. r >= 0
    BY <1>7
  <2>3. ~(n = 0) /\ ~(s < 3 * MaxChunk)
    BY <1>4
  <2>4. CASE r = 0
    <3>1. get_chunk_size(s, i) = M
      BY <1>4, <1>5, <1>6, <2>3, <2>4 DEF get_chunk_size
    <3>2. s - M * (n - 1) = M
      BY <1>7, <2>1, <2>4
    <3> QED
      BY <3>1, <3>2
  <2>5. CASE r # 0 /\ i # n - 1
    <3>1. i < n - 2 \/ i = n - 2
      BY <2>5
    <3> QED
      BY <1>4, <1>5, <1>6, <2>2, <2>3, <2>5, <3>1 DEF get_chunk_size
  <2>6. CASE r # 0 /\ i = n - 1
    <3>1. get_chunk_size(s, i) = r
      BY <1>4, <1>5, <1>6, <2>2, <2>3, <2>6 DEF get_chunk_size
    <3>2. M * (n - 1) \in Int
      BY <1>0
    <3>3. s - M * (n - 1) = r
      BY <1>7, <2>6, <3>2
    <3> QED
      BY <2>6, <3>1, <3>3
  <2> QED
    BY <2>4, <2>5, <2>6
<1>9. ASSUME NEW i \in 0 .. n - 1
      PROVE  get_start_position(s, i) = M * i
  <2>1. 0 \in 0 .. n - 1 /\ 0 # n - 1
    BY <1>4
  <2>2. get_chunk_size(s, 0) = M
    BY <1>8, <2>1
  <2>3. CASE i = n - 1
    <3>1. i - 1 \in 0 .. n - 1 /\ i - 1 # n - 1
      BY <1>4, <2>3
    <3>2. get_chunk_size(s, i - 1) = M
      BY <1>8, <3>1
    <3>3. M * (i - 1) + M = M * i
      BY <1>0, SMTT(30)
    <3> QED
      BY <1>4, <1>5, <2>2, <2>3, <3>2, <3>3 DEF get_start_position
  <2>4. CASE i # n - 1
    BY <1>4, <1>5, <2>2, <2>4 DEF get_start_position
  <2> QED
    BY <2>3, <2>4
<1>10. ASSUME NEW i \in 0 .. n - 1
       PROVE  /\ Start(s, i) = M * i
              /\ End(s, i) = IF i = n - 1 THEN s ELSE M * (i + 1)
  <2>1. M * i + M = M * (i + 1)
    BY <1>0, SMTT(30)
  <2>2. get_start_end_positions(s, i) = <<M * i, M * i + get_chunk_size(s, i)>>
    BY <1>4, <1>5, <1>9 DEF get_start_end_positions
  <2>3. i = n - 1 => M * i + (s - M * (n - 1)) = s
    BY <1>0, SMTT(30)
  <2> QED
    BY <1>8, <2>1, <2>2, <2>3 DEF Start, End
<1> QED
  BY <1>3, <1>4, <1>5, <1>10

\* The chunks of a file are not empty and follow one another from its beginning
\* to its end.
LEMMA Spans ==
    ASSUME MaxChunkAssumption, NEW s \in Nat, s >= 3
    PROVE  \E n \in Nat :
             /\ get_num_chunks(s) = n /\ n >= 3
             /\ Start(s, 0) = 0 /\ End(s, n - 1) = s
             /\ \A i \in 0 .. n - 1 : /\ Start(s, i) \in Nat /\ End(s, i) \in Nat
                                      /\ Start(s, i) < End(s, i) /\ End(s, i) <= s
             /\ \A i \in 0 .. n - 2 : Start(s, i + 1) = End(s, i)
             /\ \A i \in 0 .. n - 1 : \A j \in i .. n - 1 : Start(s, i) <= Start(s, j)
<1>1. CASE s < 3 * MaxChunk
  <2>1. PICK q \in Nat : /\ q >= 1 /\ 2 * q < s
                         /\ Start(s, 0) = 0 /\ End(s, 0) = q
                         /\ Start(s, 1) = q /\ End(s, 1) = 2 * q
                         /\ Start(s, 2) = 2 * q /\ End(s, 2) = s
    BY <1>1, SmallSpans
  <2>2. get_num_chunks(s) = 3
    BY <1>1, SmallSpans
  <2>3. ASSUME NEW i \in 0 .. 2
        PROVE /\ Start(s, i) \in Nat /\ End(s, i) \in Nat
              /\ Start(s, i) < End(s, i) /\ End(s, i) <= s
    BY <2>1
  <2>4. ASSUME NEW i \in 0 .. 1 PROVE Start(s, i + 1) = End(s, i)
    BY <2>1
  <2>5. ASSUME NEW i \in 0 .. 2, NEW j \in i .. 2 PROVE Start(s, i) <= Start(s, j)
    BY <2>1
  <2> WITNESS 3 \in Nat
  <2> QED
    BY <2>1, <2>2, <2>3, <2>4, <2>5
<1>2. CASE s >= 3 * MaxChunk
  <2>0. MaxChunk \in Nat /\ MaxChunk >= 2
    BY DEF MaxChunkAssumption
  <2>1. PICK n \in Nat :
             /\ get_num_chunks(s) = n /\ n >= 3
             /\ MaxChunk * (n - 1) < s /\ s <= MaxChunk * n
             /\ \A i \in 0 .. n - 1 : /\ Start(s, i) = MaxChunk * i
                                      /\ End(s, i) = IF i = n - 1 THEN s ELSE MaxChunk * (i + 1)
    BY <1>2, LargeSpans
  <2>2. ASSUME NEW i \in 0 .. n - 1
        PROVE /\ Start(s, i) \in Nat /\ End(s, i) \in Nat
              /\ Start(s, i) < End(s, i) /\ End(s, i) <= s
    <3>1. MaxChunk * i \in Nat /\ MaxChunk * (i + 1) = MaxChunk * i + MaxChunk
      BY <2>0, SMTT(30)
    <3>2. i # n - 1 => MaxChunk * (i + 1) <= MaxChunk * (n - 1)
      BY <2>0, <2>1, SMTT(30)
    <3>3. i = n - 1 => MaxChunk * i = MaxChunk * (n - 1)
      OBVIOUS
    <3>4. MaxChunk * (n - 1) \in Nat
      BY <2>0, <2>1
    <3> QED
      BY <2>0, <2>1, <3>1, <3>2, <3>3, <3>4
  <2>3. ASSUME NEW i \in 0 .. n - 2 PROVE Start(s, i + 1) = End(s, i)
    BY <2>1
  <2>4. ASSUME NEW i \in 0 .. n - 1, NEW j \in i .. n - 1 PROVE Start(s, i) <= Start(s, j)
    <3>1. MaxChunk * i <= MaxChunk * j
      BY <2>0, SMTT(30)
    <3> QED
      BY <2>1, <3>1
  <2>5. Start(s, 0) = 0 /\ End(s, n - 1) = s
    BY <2>0, <2>1
  <2> WITNESS n \in Nat
  <2> QED
    BY <2>1, <2>2, <2>3, <2>4, <2>5
<1> QED
  BY <1>1, <1>2 DEF MaxChunkAssumption
-----------------------------------------------------------------------------
(* Data, cut into parts and put together again, and data maps              *)

\* A sequence of units, none of which stands for an error.
Data(C) == \E T : C \in Seq(T) /\ <<"failed", 0>> \notin T

\* Marks at which C is cut into n parts.
Marks(e, n, C) ==
    /\ n \in Nat /\ n >= 1
    /\ e \in [0 .. n -> 0 .. Len(C)]
    /\ e[0] = 0 /\ e[n] = Len(C)
    /\ \A i, j \in 0 .. n : i <= j => e[i] <= e[j]

Part(C, e, i) == SubSeq(C, e[i] + 1, e[i + 1])
Piece(C, p, q) == SubSeq(C, p + 1, q)

\* Consecutive parts, put together.
LEMMA Flatten ==
    ASSUME NEW T, NEW C \in Seq(T), NEW n, NEW e, Marks(e, n, C),
           NEW a \in Nat, NEW b \in Nat, b >= 1, a + b <= n
    PROVE  FlattenSeq([k \in 1 .. b |-> Part(C, e, a + k - 1)]) = Piece(C, e[a], e[a + b])
<1> DEFINE seqs == [k \in 1 .. b |-> Part(C, e, a + k - 1)]
           g == [i \in 1 .. b |-> SubSeq(C, e[a] + 1, e[a + i])]
           Eq(f) == f = [i \in 1 .. b |-> IF i = 1 THEN seqs[i] ELSE f[i - 1] \o seqs[i]]
           flatten == CHOOSE f : Eq(f)
<1>1. Len(seqs) = b /\ DOMAIN seqs = 1 .. b
  OBVIOUS
<1>2. ASSUME NEW i \in 1 .. b
      PROVE  \E p, q, r \in Nat : /\ p = e[a] /\ q = e[a + i - 1] /\ r = e[a + i]
                                  /\ p <= q /\ q <= r /\ r <= Len(C)
  <2>1. a \in 0 .. n /\ a + i - 1 \in 0 .. n /\ a + i \in 0 .. n /\ a <= a + i - 1 /\ a + i - 1 <= a + i
    BY DEF Marks
  <2>2. Len(C) \in Nat
    OBVIOUS
  <2>3. e[a] \in 0 .. Len(C) /\ e[a + i - 1] \in 0 .. Len(C) /\ e[a + i] \in 0 .. Len(C)
    BY <2>1 DEF Marks
  <2>4. e[a] <= e[a + i - 1] /\ e[a + i - 1] <= e[a + i]
    BY <2>1 DEF Marks
  <2>5. PICK p, q, r \in 0 .. Len(C) : p = e[a] /\ q = e[a + i - 1] /\ r = e[a + i]
    BY <2>3
  <2>6. p \in Nat /\ q \in Nat /\ r \in Nat /\ p <= q /\ q <= r /\ r <= Len(C)
    BY <2>2, <2>4, <2>5
  <2> QED
    BY <2>5, <2>6
<1>3. ASSUME NEW i \in 1 .. b, i # 1
      PROVE  g[i] = g[i - 1] \o seqs[i]
  <2>1. i - 1 \in 1 .. b /\ a + (i - 1) = a + i - 1 /\ (a + i - 1) + 1 = a + i
    BY <1>3
  <2>2. g[i - 1] = SubSeq(C, e[a] + 1, e[a + i - 1])
    BY <2>1
  <2>3. seqs[i] = SubSeq(C, e[a + i - 1] + 1, e[a + i])
    BY <2>1 DEF Part
  <2>4. g[i] = SubSeq(C, e[a] + 1, e[a + i])
    OBVIOUS
  <2>5. SubSeq(C, e[a] + 1, e[a + i - 1]) \o SubSeq(C, e[a + i - 1] + 1, e[a + i]) = SubSeq(C, e[a] + 1, e[a + i])
    <3> HIDE DEF seqs, g
    <3>2. Len(C) \in Nat
      OBVIOUS
    <3>1. PICK p, q, r \in Nat : p = e[a] /\ q = e[a + i - 1] /\ r = e[a + i] /\ p <= q /\ q <= r /\ r <= Len(C)
      BY <1>2
    <3>3. p + 1 \in 1 .. Len(C) + 1 /\ q \in (p + 1) - 1 .. Len(C) /\ r \in q .. Len(C)
      BY <3>1, <3>2
    <3> QED
      BY <3>1, <3>3, ConcatAdjacentSubSeq
  <2> QED
    BY <2>2, <2>3, <2>4, <2>5
<1>4. g[1] = seqs[1]
  <2>1. 1 \in 1 .. b /\ a + 1 - 1 = a
    OBVIOUS
  <2> QED
    BY <2>1 DEF Part
<1>5. Eq(g)
  BY <1>3, <1>4
<1>6. Eq(flatten)
  BY <1>5
<1>7. FlattenSeq(seqs) = flatten[b]
  BY <1>1 DEF FlattenSeq
<1> HIDE DEF flatten
<1>8. flatten[1] = g[1]
  BY <1>4, <1>6
<1>9. ASSUME NEW i \in 1 .. b, i # 1, flatten[i - 1] = g[i - 1] PROVE flatten[i] = g[i]
  <2>1. flatten[i] = flatten[i - 1] \o seqs[i]
    BY <1>6, <1>9
  <2>2. g[i] = g[i - 1] \o seqs[i]
    BY <1>3, <1>9
  <2> QED
    BY <1>9, <2>1, <2>2
<1> HIDE DEF Eq, g, seqs
<1>10. flatten[b] = g[b]
  <2> DEFINE S == {k \in Nat : k + 1 \in 1 .. b => flatten[k + 1] = g[k + 1]}
  <2>1. 0 \in S
    BY <1>8
  <2>2. ASSUME NEW k \in S PROVE k + 1 \in S
    <3> SUFFICES ASSUME k + 2 \in 1 .. b PROVE flatten[k + 2] = g[k + 2]
      OBVIOUS
    <3>1. k + 1 \in 1 .. b /\ (k + 2) - 1 = k + 1 /\ k + 2 # 1
      OBVIOUS
    <3> QED
      BY <1>9, <3>1
  <2>3. S \in SUBSET Nat
    OBVIOUS
  <2> HIDE DEF S
  <2>4. S = Nat
    BY <2>1, <2>2, <2>3, Inductive
  <2>5. b - 1 \in S /\ (b - 1) + 1 = b /\ b \in 1 .. b
    BY <2>4
  <2> QED
    BY <2>5 DEF S
<1>11. g[b] = SubSeq(C, e[a] + 1, e[a + b])
  <2>1. b \in 1 .. b
    OBVIOUS
  <2> QED
    BY <2>1 DEF g
<1> QED
  BY <1>7, <1>10, <1>11 DEF seqs, Piece

\* MapLen counts the chunk infos.
LEMMA MapLength ==
    ASSUME NEW m, NEW n \in Nat, DOMAIN m.infos = 0 .. n - 1
    PROVE  MapLen(m) = n
<1>1. Cardinality(0 .. n - 1) = n
  BY FS_Interval
<1> QED
  BY <1>1 DEF MapLen

\* The chunks of m are the parts of C, and open at level l only.
Opens(m, e, n, l, C) ==
    /\ Marks(e, n, C)
    /\ DOMAIN m.infos = 0 .. n - 1
    /\ \A i \in 0 .. n - 1 : \A lv \in {0, 1} :
          decrypt_chunk(i, m.infos[i].dst, extract_hashes(m), lv)
              = IF lv = l THEN Part(C, e, i) ELSE Failed
    /\ \A i \in 0 .. n - 1 : m.infos[i].size = Len(Part(C, e, i))

\* The parts, and the chunk infos made of parts.
Parts(C, e, n) == [i \in 0 .. n - 1 |-> Part(C, e, i)]
Infos(src, n, l) ==
    [i \in 0 .. n - 1 |-> ChunkInfo(src[i], encrypt_chunk(src[i], get_pad_key_and_nonce(i, src, l)))]

\* Chunk infos made of the parts of C open to these parts.
LEMMA InfosOpen ==
    ASSUME NEW e, NEW n, NEW C, NEW l, Marks(e, n, C), NEW m, m.infos = Infos(Parts(C, e, n), n, l)
    PROVE  Opens(m, e, n, l, C)
<1> DEFINE src == Parts(C, e, n)
<1>0. DOMAIN src = 0 .. n - 1 /\ \A i \in 0 .. n - 1 : src[i] = Part(C, e, i)
  BY DEF Parts
<1> HIDE DEF src
<1>1. DOMAIN m.infos = 0 .. n - 1
  BY DEF Infos
<1>2. \A i \in 0 .. n - 1 : /\ m.infos[i].src = src[i]
                            /\ m.infos[i].dst = [body |-> src[i], key |-> get_pad_key_and_nonce(i, src, l)]
  BY DEF Infos, src, ChunkInfo, encrypt_chunk
<1>3. extract_hashes(m) = src
  <2>1. extract_hashes(m) = [i \in 0 .. n - 1 |-> src[i]]
    BY <1>1, <1>2 DEF extract_hashes
  <2>2. src = [i \in 0 .. n - 1 |-> src[i]]
    BY DEF src, Parts
  <2> QED
    BY <2>1, <2>2
<1>4. ASSUME NEW i \in 0 .. n - 1, NEW lv \in {0, 1}
      PROVE  get_pad_key_and_nonce(i, src, l) = get_pad_key_and_nonce(i, src, lv) <=> lv = l
  BY DEF get_pad_key_and_nonce, get_pki
<1>5. ASSUME NEW i \in 0 .. n - 1, NEW lv \in {0, 1}
      PROVE  decrypt_chunk(i, m.infos[i].dst, extract_hashes(m), lv)
              = IF lv = l THEN Part(C, e, i) ELSE Failed
  <2>0. m.infos[i].dst = [body |-> src[i], key |-> get_pad_key_and_nonce(i, src, l)]
    BY <1>2
  <2>1. m.infos[i].dst.body = src[i] /\ m.infos[i].dst.key = get_pad_key_and_nonce(i, src, l)
    BY <2>0
  <2>2. m.infos[i].dst.key = get_pad_key_and_nonce(i, src, lv) <=> lv = l
    BY <1>4, <2>1
  <2> QED
    BY <1>0, <1>3, <2>1, <2>2 DEF decrypt_chunk
<1>6. \A i \in 0 .. n - 1 : m.infos[i].size = Len(Part(C, e, i))
  <2>1. \A i \in 0 .. n - 1 : m.infos[i].size = Len(src[i])
    BY DEF Infos, src, ChunkInfo
  <2> QED
    BY <1>0, <2>1
<1> QED
  BY <1>1, <1>5, <1>6 DEF Opens

\* A part of data is not taken for an error.
LEMMA PartIsData ==
    ASSUME NEW e, NEW n, NEW C, Marks(e, n, C), Data(C), NEW i \in 0 .. n - 1
    PROVE  Part(C, e, i) # Failed
<1>1. PICK T : C \in Seq(T) /\ <<"failed", 0>> \notin T
  BY DEF Data
<1>2. i \in 0 .. n /\ i + 1 \in 0 .. n
  BY DEF Marks
<1>3. PICK p, q \in 0 .. Len(C) : p = e[i] /\ q = e[i + 1]
  BY <1>2 DEF Marks
<1>4. Len(C) \in Nat
  BY <1>1
<1>5. p \in Int /\ q \in Int /\ p + 1 \in Int /\ \A k \in p + 1 .. q : C[k] \in T
  BY <1>1, <1>3, <1>4
<1>6. /\ SubSeq(C, p + 1, q) \in Seq(T)
      /\ Len(SubSeq(C, p + 1, q)) = IF p + 1 <= q THEN q - (p + 1) + 1 ELSE 0
  BY <1>5, SubSeqProperties
<1>7. SUFFICES ASSUME SubSeq(C, p + 1, q) = << <<"failed", 0>> >> PROVE FALSE
  BY <1>3 DEF Part, Failed
<1>8. << <<"failed", 0>> >> \in Seq(T)
  BY <1>6, <1>7
<1>9. << <<"failed", 0>> >>[1] \in T
  <2>1. Len(<< <<"failed", 0>> >>) = 1
    OBVIOUS
  <2> QED
    BY <1>8, <2>1, ElementOfSeq
<1> QED
  BY <1>1, <1>9

\* decrypt_full_set gives C at the right level and an error at the other.
LEMMA FullSet ==
    ASSUME NEW m, NEW e, NEW n, NEW l \in {0, 1}, NEW C, Opens(m, e, n, l, C), Data(C), m.child = l, NEW chunks
    PROVE  decrypt_full_set(m, chunks) =
             IF \A i \in 0 .. n - 1 : m.infos[i].dst \in chunks THEN C ELSE Failed
<1> USE DEF Opens
<1>0. n \in Nat /\ n >= 1
  BY DEF Marks
<1>1. MapLen(m) = n
  BY <1>0, MapLength
<1> DEFINE part == [i \in 1 .. n |->
                   IF m.infos[i - 1].dst \in chunks
                   THEN decrypt_chunk(i - 1, m.infos[i - 1].dst, extract_hashes(m), m.child)
                   ELSE Failed]
<1>2. ASSUME NEW i \in 1 .. n
      PROVE  part[i] = IF m.infos[i - 1].dst \in chunks THEN Part(C, e, i - 1) ELSE Failed
  <2>1. i - 1 \in 0 .. n - 1
    BY <1>0
  <2>2. decrypt_chunk(i - 1, m.infos[i - 1].dst, extract_hashes(m), m.child) = Part(C, e, i - 1)
    BY <2>1
  <2> QED
    BY <2>2
<1>3. ASSUME NEW i \in 1 .. n PROVE Part(C, e, i - 1) # Failed
  <2>1. i - 1 \in 0 .. n - 1
    BY <1>0
  <2> QED
    BY <2>1, PartIsData
<1>4. decrypt_full_set(m, chunks) = IF \E i \in 1 .. n : part[i] = Failed THEN Failed ELSE FlattenSeq(part)
  BY <1>1 DEF decrypt_full_set
<1> DEFINE all == \A i \in 0 .. n - 1 : m.infos[i].dst \in chunks
<1>5. CASE ~all
  <2>1. PICK i \in 0 .. n - 1 : m.infos[i].dst \notin chunks
    BY <1>5
  <2>2. i + 1 \in 1 .. n /\ (i + 1) - 1 = i
    BY <1>0
  <2>3. part[i + 1] = Failed
    BY <1>2, <2>1, <2>2
  <2> HIDE DEF part
  <2> QED
    BY <1>4, <1>5, <2>2, <2>3
<1>6. CASE all
  <2>1. ASSUME NEW i \in 1 .. n PROVE part[i] = Part(C, e, 0 + i - 1)
    <3>1. i - 1 \in 0 .. n - 1 /\ 0 + i - 1 = i - 1
      BY <1>0
    <3> QED
      BY <1>2, <1>6, <3>1
  <2>2. part = [i \in 1 .. n |-> Part(C, e, 0 + i - 1)]
    BY <2>1
  <2>3. ASSUME NEW i \in 1 .. n PROVE part[i] # Failed
    <3>1. 0 + i - 1 = i - 1
      OBVIOUS
    <3> QED
      BY <1>3, <2>1, <3>1
  <2> HIDE DEF part
  <2>4. PICK T : C \in Seq(T)
    BY DEF Data
  <2>5. 0 \in Nat /\ 0 + n <= n
    BY <1>0
  <2>6. FlattenSeq(part) = Piece(C, e[0], e[0 + n])
    BY <1>0, <2>2, <2>4, <2>5, Flatten
  <2>7. e[0] + 1 = 1 /\ e[0 + n] = Len(C)
    BY <1>0 DEF Marks
  <2>8. SubSeq(C, 1, Len(C)) = C
    BY <2>4, SubSeqFull
  <2> QED
    BY <1>4, <1>6, <2>3, <2>6, <2>7, <2>8 DEF Piece
<1> QED
  BY <1>5, <1>6

\* A step of the loop of shrink_data_map, or of that of get_root_data_map.
Turn(shrinks, chunks, s) == IF shrinks THEN ShrinkLevel(s) ELSE Parent(s, chunks)

Repeated(shrinks, chunks, start, f) ==
    f = [k \in Nat |-> IF k = 0 THEN start ELSE Turn(shrinks, chunks, f[k - 1])]

\* The steps can be repeated.
LEMMA Repeats ==
    ASSUME NEW shrinks, NEW chunks, NEW start
    PROVE  \E f : Repeated(shrinks, chunks, start, f)
<1> DEFINE Step(s) == Turn(shrinks, chunks, s)
           Run(g, k) == g[0] = start /\ \A j \in 0 .. k - 1 : g[j + 1] = Step(g[j])
<1> HIDE DEF Step
<1>1. \A k \in Nat : \E g : Run(g, k)
  <2> DEFINE S == {k \in Nat : \E g : Run(g, k)}
  <2>1. 0 \in S
    <3>1. Run([j \in {0} |-> start], 0)
      OBVIOUS
    <3> QED
      BY <3>1
  <2>2. ASSUME NEW k \in S PROVE k + 1 \in S
    <3>1. PICK g : Run(g, k)
      OBVIOUS
    <3> DEFINE h == [j \in 0 .. k + 1 |-> IF j = k + 1 THEN Step(g[k]) ELSE g[j]]
    <3>2. h[0] = start
      BY <3>1
    <3>3. ASSUME NEW j \in 0 .. (k + 1) - 1 PROVE h[j + 1] = Step(h[j])
      <4>1. h[j] = g[j]
        OBVIOUS
      <4>2. CASE j = k
        BY <4>1, <4>2
      <4>3. CASE j # k
        <5>1. j \in 0 .. k - 1 /\ j + 1 \in 0 .. k + 1 /\ j + 1 # k + 1
          BY <4>3
        <5> QED
          BY <3>1, <4>1, <5>1
      <4> QED
        BY <4>2, <4>3
    <3>4. Run(h, k + 1)
      BY <3>2, <3>3
    <3> HIDE DEF h, Run
    <3>5. \E x : Run(x, k + 1)
      BY <3>4
    <3> QED
      BY <3>5
  <2>3. S \in SUBSET Nat
    OBVIOUS
  <2> HIDE DEF S
  <2>4. S = Nat
    BY <2>1, <2>2, <2>3, Inductive
  <2> QED
    BY <2>4 DEF S
<1>2. ASSUME NEW k \in Nat, NEW g, Run(g, k), NEW h, Run(h, k + 1)
      PROVE  g[k] = h[k]
  <2> DEFINE S == {j \in Nat : j <= k => g[j] = h[j]}
  <2>1. 0 \in S
    BY <1>2
  <2>2. ASSUME NEW j \in S PROVE j + 1 \in S
    <3> SUFFICES ASSUME j + 1 <= k PROVE g[j + 1] = h[j + 1]
      OBVIOUS
    <3>1. j \in 0 .. k - 1 /\ j \in 0 .. (k + 1) - 1 /\ j <= k
      OBVIOUS
    <3>2. g[j + 1] = Step(g[j]) /\ h[j + 1] = Step(h[j])
      BY <1>2, <3>1
    <3> QED
      BY <3>1, <3>2
  <2>3. S \in SUBSET Nat
    OBVIOUS
  <2> HIDE DEF S
  <2>4. S = Nat
    BY <2>1, <2>2, <2>3, Inductive
  <2> QED
    BY <2>4 DEF S
<1> DEFINE G(k) == CHOOSE g : Run(g, k)
           f == [k \in Nat |-> G(k)[k]]
<1>3. \A k \in Nat : Run(G(k), k)
  BY <1>1
<1> HIDE DEF G
<1>4. f[0] = start
  BY <1>3
<1>5. ASSUME NEW k \in Nat, k # 0 PROVE f[k] = Step(f[k - 1])
  <2>1. k - 1 \in Nat /\ (k - 1) + 1 = k /\ k - 1 \in 0 .. k - 1
    BY <1>5
  <2>2. Run(G(k - 1), k - 1) /\ Run(G(k), k)
    BY <1>3, <2>1
  <2>3. G(k - 1)[k - 1] = G(k)[k - 1]
    <3> HIDE DEF Run
    <3> QED
      BY <1>2, <2>1, <2>2
  <2>4. G(k)[k] = Step(G(k)[k - 1])
    BY <2>1, <2>2
  <2> QED
    BY <2>1, <2>3, <2>4
<1>6. \A k \in Nat : f[k] = IF k = 0 THEN start ELSE Step(f[k - 1])
  BY <1>4, <1>5
<1>7. f = [k \in Nat |-> IF k = 0 THEN start ELSE Step(f[k - 1])]
  <2>1. \E x : x = f
    OBVIOUS
  <2> QED
    BY <1>6
<1>8. Repeated(shrinks, chunks, start, f)
  BY <1>7 DEF Step, Repeated
<1> QED
  BY <1>8

\* A serialized map is data, and from_bytes gives the map back.
LEMMA MapBytes ==
    ASSUME NEW p, NEW n \in Nat, p = [infos |-> p.infos, child |-> p.child], p.infos = [i \in 0 .. n - 1 |-> p.infos[i]]
    PROVE  /\ Data(to_bytes(p))
           /\ Len(to_bytes(p)) = n + 1
           /\ to_bytes(p) # Failed
           /\ from_bytes(to_bytes(p)) = p
<1> DEFINE T == {<<"head", p.child>>} \cup {<<"info", p.infos[i]>> : i \in 0 .. n - 1}
           h == << <<"head", p.child>> >>
           b == [i \in 1 .. n |-> <<"info", p.infos[i - 1]>>]
           D == to_bytes(p)
<1>1. MapLen(p) = n
  <2>1. DOMAIN p.infos = 0 .. n - 1
    OBVIOUS
  <2> QED
    BY <2>1, MapLength
<1>2. D = h \o b
  BY <1>1 DEF to_bytes
<1>3. <<"failed", 0>> \notin T
  OBVIOUS
<1>4. h \in Seq(T) /\ Len(h) = 1 /\ h[1] = <<"head", p.child>>
  OBVIOUS
<1>5. b \in Seq(T) /\ Len(b) = n
  <2>1. ASSUME NEW i \in 1 .. n PROVE b[i] \in T
    <3>1. i - 1 \in 0 .. n - 1
      OBVIOUS
    <3> QED
      BY <3>1
  <2>2. b \in [1 .. n -> T] /\ Len(b) = n
    BY <2>1
  <2> HIDE DEF b, T
  <2> QED
    BY <2>2, SeqDef
<1>10. \A i \in 1 .. n : b[i] = <<"info", p.infos[i - 1]>>
  OBVIOUS
<1> HIDE DEF T, h, b, D
<1>6. /\ D \in Seq(T) /\ Len(D) = 1 + n
      /\ \A i \in 1 .. 1 + n : D[i] = IF i <= 1 THEN h[i] ELSE b[i - 1]
  <2>1. /\ h \o b \in Seq(T) /\ Len(h \o b) = Len(h) + Len(b)
        /\ \A i \in 1 .. Len(h) + Len(b) : (h \o b)[i] = IF i <= Len(h) THEN h[i] ELSE b[i - Len(h)]
    BY <1>4, <1>5, ConcatProperties
  <2> QED
    BY <1>2, <1>4, <1>5, <2>1
<1>7. D[1] = <<"head", p.child>>
  BY <1>4, <1>6
<1>8. ASSUME NEW i \in 0 .. n - 1 PROVE D[i + 2] = <<"info", p.infos[i]>>
  <2>1. i + 2 \in 1 .. 1 + n /\ ~(i + 2 <= 1) /\ (i + 2) - 1 = i + 1 /\ i + 1 \in 1 .. n /\ (i + 1) - 1 = i
    OBVIOUS
  <2> QED
    BY <1>6, <1>10, <2>1
<1>9. from_bytes(D) = p
  <2>1. D # <<>> /\ D[1][1] = "head" /\ D[1][2] = p.child
    BY <1>6, <1>7
  <2>2. Len(D) - 2 = n - 1
    BY <1>6
  <2>3. [i \in 0 .. Len(D) - 2 |-> D[i + 2][2]] = p.infos
    <3>1. \A i \in 0 .. n - 1 : D[i + 2][2] = p.infos[i]
      BY <1>8
    <3>2. [i \in 0 .. n - 1 |-> D[i + 2][2]] = [i \in 0 .. n - 1 |-> p.infos[i]]
      BY <3>1
    <3> QED
      BY <2>2, <3>2
  <2> QED
    BY <2>1, <2>3 DEF from_bytes, DataMap
<1>11. D # Failed
  <2>1. Failed[1] = <<"failed", 0>>
    BY DEF Failed
  <2> QED
    BY <1>7, <2>1
<1>12. Data(D)
  BY <1>3, <1>6 DEF Data
<1> QED
  BY <1>6, <1>9, <1>11, <1>12 DEF D

\* The chunks of a map.
Dsts(m) == {m.infos[i].dst : i \in DOMAIN m.infos}

\* The two fields of a level.
LEMMA LevelFields ==
  ASSUME NEW r, NEW m, NEW c, r = [map |-> m, chunks |-> c]
  PROVE  r.map = m /\ r.chunks = c
OBVIOUS

\* What encrypt_with_child_level makes of data, before it shrinks.
LEMMA LevelOpens ==
    ASSUME MaxChunkAssumption, NEW D, Data(D), Len(D) >= 3, NEW l
    PROVE  \E e, n : /\ Marks(e, n, D) /\ n >= 3 /\ n = get_num_chunks(Len(D))
                     /\ \A i \in 0 .. n - 1 : e[i] = Start(Len(D), i)
                     /\ EncryptLevel(D, l).map = [infos |-> Infos(Parts(D, e, n), n, l), child |-> 0]
                     /\ EncryptLevel(D, l).chunks = Dsts(EncryptLevel(D, l).map)
<1>1. PICK s \in Nat : s = Len(D)
  BY DEF Data
<1>2. PICK n \in Nat :
             /\ get_num_chunks(s) = n /\ n >= 3
             /\ Start(s, 0) = 0 /\ End(s, n - 1) = s
             /\ \A i \in 0 .. n - 1 : /\ Start(s, i) \in Nat /\ End(s, i) \in Nat
                                      /\ Start(s, i) < End(s, i) /\ End(s, i) <= s
             /\ \A i \in 0 .. n - 2 : Start(s, i + 1) = End(s, i)
             /\ \A i \in 0 .. n - 1 : \A j \in i .. n - 1 : Start(s, i) <= Start(s, j)
  BY <1>1, Spans
<1> DEFINE e == [i \in 0 .. n |-> IF i = n THEN s ELSE Start(s, i)]
<1>3. \A i \in 0 .. n - 1 : e[i] = Start(s, i)
  BY <1>2
<1>4. Marks(e, n, D)
  <2>1. ASSUME NEW i \in 0 .. n PROVE e[i] \in 0 .. s
    <3>1. CASE i = n
      BY <3>1
    <3>2. CASE i # n
      <4>1. i \in 0 .. n - 1
        BY <3>2
      <4>2. PICK a, b \in Nat : a = Start(s, i) /\ b = End(s, i)
        BY <1>2, <4>1
      <4>3. a < b /\ b <= s
        BY <1>2, <4>1, <4>2
      <4>4. e[i] = a
        BY <1>3, <4>1, <4>2
      <4> QED
        BY <4>3, <4>4
    <3> QED
      BY <3>1, <3>2
  <2>2. e[0] = 0 /\ e[n] = s
    BY <1>2
  <2>3. ASSUME NEW i \in 0 .. n, NEW j \in 0 .. n, i <= j PROVE e[i] <= e[j]
    <3>1. CASE j = n
      BY <2>1, <2>2, <3>1
    <3>2. CASE j # n
      <4>1. i \in 0 .. n - 1 /\ j \in 0 .. n - 1 /\ j \in i .. n - 1
        BY <2>3, <3>2
      <4> QED
        BY <1>2, <1>3, <4>1
    <3> QED
      BY <3>1, <3>2
  <2>4. e \in [0 .. n -> 0 .. s]
    BY <2>1
  <2> HIDE DEF e
  <2> QED
    BY <1>1, <1>2, <2>2, <2>3, <2>4 DEF Marks
<1>5. ASSUME NEW i \in 0 .. n - 1
      PROVE  Slice(D, get_start_end_positions(s, i)) = Part(D, e, i)
  <2>1. e[i + 1] = End(s, i)
    <3>1. CASE i = n - 1
      <4>1. i + 1 = n /\ n \in 0 .. n
        BY <1>2, <3>1
      <4> QED
        BY <1>2, <3>1, <4>1
    <3>2. CASE i # n - 1
      <4>1. i \in 0 .. n - 2 /\ i + 1 \in 0 .. n - 1
        BY <3>2
      <4> QED
        BY <1>2, <1>3, <4>1
    <3> QED
      BY <3>1, <3>2
  <2>2. e[i] = Start(s, i)
    BY <1>3
  <2> HIDE DEF e
  <2> QED
    BY <2>1, <2>2 DEF Part, Slice, Start, End
<1> HIDE DEF e
<1> DEFINE src == [i \in 0 .. n - 1 |-> Slice(D, get_start_end_positions(s, i))]
           enc == [i \in 0 .. n - 1 |-> encrypt_chunk(src[i], get_pad_key_and_nonce(i, src, l))]
<1>6. src = Parts(D, e, n)
  BY <1>5 DEF Parts
<1>7. EncryptLevel(D, l) =
        [map |-> DataMap([i \in 0 .. n - 1 |-> ChunkInfo(src[i], enc[i])], 0),
         chunks |-> {enc[i] : i \in 0 .. n - 1}]
  BY <1>1, <1>2 DEF EncryptLevel
<1> HIDE DEF src
<1>8. [i \in 0 .. n - 1 |-> ChunkInfo(src[i], enc[i])] = Infos(src, n, l)
  BY DEF Infos
<1>9. \A i \in 0 .. n - 1 : Infos(src, n, l)[i].dst = enc[i]
  BY DEF Infos, ChunkInfo
<1>10. DOMAIN Infos(src, n, l) = 0 .. n - 1
  BY DEF Infos
<1> HIDE DEF enc
<1>11. EncryptLevel(D, l).map = [infos |-> Infos(src, n, l), child |-> 0]
  <2>1. EncryptLevel(D, l).map =
          DataMap([i \in 0 .. n - 1 |-> ChunkInfo(src[i], enc[i])], 0)
    BY <1>7, LevelFields
  <2>2. EncryptLevel(D, l).map = DataMap(Infos(src, n, l), 0)
    BY <2>1, <1>8, Zenon
  <2> QED
    BY <2>2 DEF DataMap
<1>12. Dsts(EncryptLevel(D, l).map) = {enc[i] : i \in 0 .. n - 1}
  BY <1>9, <1>10, <1>11 DEF Dsts
<1>13. /\ Marks(e, n, D) /\ n >= 3 /\ n = get_num_chunks(Len(D))
       /\ \A i \in 0 .. n - 1 : e[i] = Start(Len(D), i)
  BY <1>1, <1>2, <1>3, <1>4
<1>14. /\ EncryptLevel(D, l).map = [infos |-> Infos(Parts(D, e, n), n, l), child |-> 0]
       /\ EncryptLevel(D, l).chunks = Dsts(EncryptLevel(D, l).map)
  BY <1>6, <1>7, <1>11, <1>12
<1> QED
  BY <1>13, <1>14

\* The level that is written into a map does not change its chunks.
LEMMA OpensInfos ==
    ASSUME NEW x, NEW y, x.infos = y.infos, NEW e, NEW n, NEW l, NEW C, Opens(x, e, n, l, C)
    PROVE  Opens(y, e, n, l, C)
BY DEF Opens, extract_hashes

\* A map of three or more chunks that open at level l only.
Level(m, l, C) ==
    /\ m = [infos |-> m.infos, child |-> m.child]
    /\ \E e, n : n >= 3 /\ m.infos = [i \in 0 .. n - 1 |-> m.infos[i]] /\ Opens(m, e, n, l, C)

\* The map in a child map.  If shrinking once was not enough it is a child map
\* too, but one that has lost its level.
Inner(p, C, once) ==
    /\ p.child = 0
    /\ Level(p, 0, C) \/ (~once /\ \E D : Level(p, 1, D))

Over(m, C, once) == \E p : Inner(p, C, once) /\ Level(m, 1, to_bytes(p))

\* A data map of C.
Good(m, C, once) ==
    \/ m.child = 0 /\ Level(m, 0, C)
    \/ m.child = 1 /\ Over(m, C, once)

\* The length of a map, and of the map serialized.
LEMMA LevelLen ==
    ASSUME NEW m, NEW l, NEW C, Level(m, l, C)
    PROVE  /\ MapLen(m) \in Nat /\ MapLen(m) >= 3
           /\ Data(to_bytes(m)) /\ to_bytes(m) # Failed
           /\ Len(to_bytes(m)) = MapLen(m) + 1
           /\ from_bytes(to_bytes(m)) = m
<1>1. PICK e, n : n >= 3 /\ m.infos = [i \in 0 .. n - 1 |-> m.infos[i]] /\ Opens(m, e, n, l, C)
  BY DEF Level
<1>2. n \in Nat /\ DOMAIN m.infos = 0 .. n - 1
  BY <1>1 DEF Opens, Marks
<1>3. MapLen(m) = n
  BY <1>2, MapLength
<1>4. m = [infos |-> m.infos, child |-> m.child]
  BY DEF Level
<1> QED
  BY <1>1, <1>2, <1>3, <1>4, MapBytes

\* The map m of C, shrunk to s.  Once it is enough, s is the map of m.
Shrunk(s, m, C, once) ==
    /\ s.map.child = 0 /\ Over(s.map, C, once)
    /\ once => /\ MapLen(s.map) <= 3 /\ s.chunks = Dsts(s.map)
               /\ Level(s.map, 1, to_bytes(m))

\* The loop of shrink_data_map.
LEMMA ShrinkStep ==
    ASSUME MaxChunkAssumption, NEW m, NEW C, Level(m, 0, C), m.child = 0, MapLen(m) > 3,
           NEW once \in BOOLEAN, once <=> get_num_chunks(MapLen(m) + 1) <= 3,
           NEW s, s = [map |-> m, chunks |-> {}] \/ Shrunk(s, m, C, once)
    PROVE  Shrunk(ShrinkLevel(s), m, C, once)
<1> DEFINE t == ShrinkLevel(s)
           D == to_bytes(s.map)
           enc == EncryptLevel(D, 1)
<1>1. CASE MapLen(s.map) <= 3
  <2>1. s # [map |-> m, chunks |-> {}]
    BY <1>1, LevelLen
  <2>2. t = s
    BY <1>1 DEF ShrinkLevel
  <2> QED
    BY <2>1, <2>2
<1>2. CASE ~(MapLen(s.map) <= 3)
  <2>0. s.map.child = 0 /\ \E l, E : Level(s.map, l, E)
    BY DEF Over, Shrunk
  <2>1. t = [map |-> enc.map, chunks |-> s.chunks \cup enc.chunks]
    <3>1. s.map.child + 1 = 1
      BY <2>0
    <3> QED
      BY <1>2, <3>1 DEF ShrinkLevel
  <2>2. PICK k \in Nat : k = MapLen(s.map) /\ k >= 3 /\ Len(D) = k + 1
    BY <2>0, LevelLen
  <2>3. Data(D)
    BY <2>0, LevelLen
  <2> HIDE DEF t, D, enc
  <2>4. PICK e, n : /\ Marks(e, n, D) /\ n >= 3 /\ n = get_num_chunks(Len(D))
                    /\ enc.map = [infos |-> Infos(Parts(D, e, n), n, 1), child |-> 0]
                    /\ enc.chunks = Dsts(enc.map)
    <3>1. Len(D) >= 3
      BY <2>2
    <3> QED
      BY <2>3, <3>1, LevelOpens DEF enc
  <2>5. Level(enc.map, 1, D)
    <3>1. enc.map.infos = Infos(Parts(D, e, n), n, 1)
      BY <2>4
    <3>2. Opens(enc.map, e, n, 1, D)
      BY <2>4, <3>1, InfosOpen
    <3>3. enc.map.infos = [i \in 0 .. n - 1 |-> enc.map.infos[i]]
      BY <3>1 DEF Infos
    <3>4. enc.map = [infos |-> enc.map.infos, child |-> enc.map.child]
      BY <2>4
    <3> QED
      BY <2>4, <3>2, <3>3, <3>4 DEF Level
  <2>6. MapLen(enc.map) = n
    <3>1. DOMAIN enc.map.infos = 0 .. n - 1
      BY <2>4 DEF Infos
    <3>2. n \in Nat
      BY <2>4 DEF Marks
    <3> QED
      BY <3>1, <3>2, MapLength
  <2>7. Inner(s.map, C, once)
    <3>1. CASE s = [map |-> m, chunks |-> {}]
      BY <3>1 DEF Inner
    <3>2. CASE Shrunk(s, m, C, once)
      BY <1>2, <2>0, <3>2 DEF Over, Inner, Shrunk
    <3> QED
      BY <3>1, <3>2
  <2>8. t.map = enc.map /\ t.map.child = 0
    BY <2>1, <2>4
  <2>9. Over(t.map, C, once)
    BY <2>5, <2>7, <2>8 DEF Over, D
  <2>10. ASSUME once
         PROVE  MapLen(t.map) <= 3 /\ t.chunks = Dsts(t.map) /\ Level(t.map, 1, to_bytes(m))
    <3>1. s = [map |-> m, chunks |-> {}]
      BY <1>2, <2>10 DEF Shrunk
    <3>2. t.chunks = enc.chunks
      BY <2>1, <3>1
    <3>3. Len(D) = MapLen(m) + 1
      BY <2>2, <3>1
    <3>4. D = to_bytes(m)
      BY <3>1 DEF D
    <3> QED
      BY <2>4, <2>5, <2>6, <2>8, <2>10, <3>2, <3>3, <3>4
  <2> QED
    BY <2>8, <2>9, <2>10 DEF t, Shrunk
<1> QED
  BY <1>1, <1>2

\* shrink_data_map gives a data map of what the map was one of.
LEMMA Shrinks ==
    ASSUME MaxChunkAssumption, NEW m, NEW C, Level(m, 0, C), m.child = 0,
           NEW once \in BOOLEAN, once <=> get_num_chunks(MapLen(m) + 1) <= 3
    PROVE  LET x == shrink_data_map(m)
           IN  /\ Good(x.map, C, once)
               /\ MapLen(m) <= 3 => x.chunks = {}
               /\ MapLen(m) <= 3 => x.map = m
               /\ MapLen(m) > 3 /\ once => /\ x.chunks = Dsts(x.map)
                                           /\ x.map.child = 1 /\ Level(x.map, 1, to_bytes(m))
<1> DEFINE x == shrink_data_map(m)
           start == [map |-> m, chunks |-> {}]
           Eq(f) == f = [k \in Nat |-> IF k = 0 THEN start ELSE ShrinkLevel(f[k - 1])]
           level == CHOOSE f : Eq(f)
<1>0. PICK n \in Nat : n = MapLen(m) /\ n >= 3
  BY LevelLen
<1>1. CASE n <= 3
  <2>1. x = start
    BY <1>0, <1>1 DEF shrink_data_map
  <2> QED
    BY <1>0, <1>1, <2>1 DEF Good
<1>2. CASE n > 3
  <2>1. x = [map |-> DataMap(level[n].map.infos, m.child + 1), chunks |-> level[n].chunks]
    BY <1>0, <1>2 DEF shrink_data_map
  <2>2. \E f : Eq(f)
    <3>1. \A f, k : Turn(TRUE, {}, f[k - 1]) = ShrinkLevel(f[k - 1])
      BY DEF Turn
    <3>2. PICK f : Repeated(TRUE, {}, start, f)
      BY Repeats
    <3>3. Eq(f)
      BY <3>1, <3>2 DEF Repeated
    <3> QED
      BY <3>3
  <2>3. Eq(level)
    BY <2>2
  <2> HIDE DEF level
  <2>4. level[0] = start /\ \A k \in Nat : level[k + 1] = ShrinkLevel(level[k])
    <3>1. ASSUME NEW k \in Nat PROVE level[k + 1] = ShrinkLevel(level[k])
      <4>1. k + 1 \in Nat /\ k + 1 # 0 /\ (k + 1) - 1 = k
        OBVIOUS
      <4> QED
        BY <2>3, <4>1
    <3> QED
      BY <2>3, <3>1
  <2> HIDE DEF Eq
  <2> DEFINE P(s) == Shrunk(s, m, C, once)
  <2>5. \A k \in Nat : P(level[k + 1])
    <3> DEFINE S == {k \in Nat : P(level[k + 1])}
    <3>1. 0 \in S
      <4>1. level[0 + 1] = ShrinkLevel(level[0])
        BY <2>4
      <4> QED
        BY <1>0, <1>2, <2>4, <4>1, ShrinkStep
    <3>2. ASSUME NEW k \in S PROVE k + 1 \in S
      <4>1. level[(k + 1) + 1] = ShrinkLevel(level[k + 1])
        BY <2>4
      <4>2. P(level[k + 1])
        OBVIOUS
      <4>3. P(level[(k + 1) + 1])
        BY <1>0, <1>2, <4>1, <4>2, ShrinkStep
      <4> QED
        BY <4>3
    <3>3. S \in SUBSET Nat
      OBVIOUS
    <3> HIDE DEF S
    <3>4. S = Nat
      BY <3>1, <3>2, <3>3, Inductive
    <3> QED
      BY <3>4 DEF S
  <2>6. P(level[n])
    <3>1. n - 1 \in Nat /\ (n - 1) + 1 = n
      BY <1>2
    <3> QED
      BY <2>5, <3>1
  <2>7. x.map = [infos |-> level[n].map.infos, child |-> 1] /\ x.chunks = level[n].chunks
    <3>1. m.child + 1 = 1
      OBVIOUS
    <3> QED
      BY <2>1, <3>1 DEF DataMap
  <2>8. ASSUME NEW D, Level(level[n].map, 1, D) PROVE Level(x.map, 1, D)
    <3>2. PICK d, k : /\ k >= 3 /\ level[n].map.infos = [i \in 0 .. k - 1 |-> level[n].map.infos[i]]
                      /\ Opens(level[n].map, d, k, 1, D)
      BY <2>8 DEF Level
    <3>3. x.map.infos = level[n].map.infos
      BY <2>7
    <3>4. Opens(x.map, d, k, 1, D)
      BY <3>2, <3>3, OpensInfos
    <3> QED
      BY <2>7, <3>2, <3>3, <3>4 DEF Level
  <2>10. Over(x.map, C, once)
    <3>1. PICK p : Inner(p, C, once) /\ Level(level[n].map, 1, to_bytes(p))
      BY <2>6 DEF Over, Shrunk
    <3>2. Level(x.map, 1, to_bytes(p))
      BY <2>8, <3>1
    <3> QED
      BY <3>1, <3>2 DEF Over
  <2>9. Dsts(x.map) = Dsts(level[n].map)
    BY <2>7 DEF Dsts
  <2>11. once => x.chunks = Dsts(x.map) /\ Level(x.map, 1, to_bytes(m))
    BY <2>6, <2>7, <2>8, <2>9 DEF Shrunk
  <2> QED
    BY <1>0, <1>2, <2>7, <2>10, <2>11 DEF Good
<1> QED
  BY <1>0, <1>1, <1>2
-----------------------------------------------------------------------------
(* What the stream and encrypt make of a file                              *)

\* What a file holds is data.
LEMMA BytesData ==
    ASSUME NEW n \in Nat
    PROVE  /\ Data(Bytes(n)) /\ Len(Bytes(n)) = n
           /\ \A i \in 1 .. n : Bytes(n)[i] = <<"byte", i>>
<1> DEFINE T == {<<"byte", i>> : i \in 1 .. n}
           B == Bytes(n)
<1>1. B = [i \in 1 .. n |-> <<"byte", i>>]
  BY DEF Bytes
<1>2. <<"failed", 0>> \notin T
  OBVIOUS
<1>3. B \in [1 .. n -> T] /\ Len(B) = n /\ \A i \in 1 .. n : B[i] = <<"byte", i>>
  BY <1>1
<1> HIDE DEF T, B
<1>4. B \in Seq(T)
  BY <1>3, SeqDef
<1>5. Data(B)
  BY <1>2, <1>4 DEF Data
<1> QED
  BY <1>3, <1>5 DEF B

\* A part of a longer file is the same part of a shorter one.
FilePart(n, p, q) == SubSeq(Bytes(n), p + 1, q)

\* Bytes that both files have are the same in both.
LEMMA BytesPart ==
    ASSUME NEW a \in Nat, NEW b \in Nat, NEW p \in Nat, NEW q \in Nat, q <= a, q <= b
    PROVE  FilePart(a, p, q) = FilePart(b, p, q)
<1> DEFINE T == {<<"byte", i>> : i \in 1 .. q}
           A == Bytes(a)
           B == Bytes(b)
<1>1. \A i \in p + 1 .. q : A[i] = <<"byte", i>> /\ B[i] = <<"byte", i>>
  BY BytesData
<1>2. \A i \in p + 1 .. q : A[i] \in T /\ B[i] \in T
  BY <1>1
<1> HIDE DEF T, A, B
<1>3. /\ SubSeq(A, p + 1, q) \in Seq(T)
      /\ Len(SubSeq(A, p + 1, q)) = IF p + 1 <= q THEN q - (p + 1) + 1 ELSE 0
      /\ \A i \in 1 .. q - (p + 1) + 1 : SubSeq(A, p + 1, q)[i] = A[(p + 1) + i - 1]
  BY <1>2, SubSeqProperties
<1>4. /\ SubSeq(B, p + 1, q) \in Seq(T)
      /\ Len(SubSeq(B, p + 1, q)) = IF p + 1 <= q THEN q - (p + 1) + 1 ELSE 0
      /\ \A i \in 1 .. q - (p + 1) + 1 : SubSeq(B, p + 1, q)[i] = B[(p + 1) + i - 1]
  BY <1>2, SubSeqProperties
<1>5. ASSUME NEW i \in 1 .. Len(SubSeq(A, p + 1, q)) PROVE SubSeq(A, p + 1, q)[i] = SubSeq(B, p + 1, q)[i]
  <2>1. i \in 1 .. q - (p + 1) + 1 /\ (p + 1) + i - 1 \in p + 1 .. q
    BY <1>3
  <2> QED
    BY <1>1, <1>3, <1>4, <2>1
<1> QED
  BY <1>3, <1>4, <1>5, SeqEqual DEF A, B, FilePart

\* Three bytes make three chunks or more.
LEMMA EnoughChunks ==
    ASSUME MaxChunkAssumption, NEW s \in Nat
    PROVE  get_num_chunks(s) \in Nat /\ (get_num_chunks(s) >= 3 <=> s >= 3)
<1>1. CASE s < 3
  BY <1>1 DEF get_num_chunks, MinChunk
<1>2. CASE s >= 3
  BY <1>2, Spans
<1> QED
  BY <1>1, <1>2

StreamInfos(s) ==
    [i \in 0 .. Total - 1 |-> ChunkInfo(Sources(s)[i], StreamChunk(s, i))]

\* The chunks of the stream are the parts of what was read of the file.
LEMMA StreamParts ==
    ASSUME MaxChunkAssumption, size \in Nat, size >= 3, NEW s, s.read \in Nat
    PROVE  \E e : LET C == Bytes(Least(size, s.read))
                  IN  /\ Marks(e, Total, C) /\ Total >= 3
                      /\ Sources(s) = Parts(C, e, Total)
<1> DEFINE C == Bytes(Least(size, s.read))
<1>1. PICK n \in Nat :
             /\ get_num_chunks(size) = n /\ n >= 3
             /\ Start(size, 0) = 0 /\ End(size, n - 1) = size
             /\ \A i \in 0 .. n - 1 : /\ Start(size, i) \in Nat /\ End(size, i) \in Nat
                                      /\ Start(size, i) < End(size, i) /\ End(size, i) <= size
             /\ \A i \in 0 .. n - 2 : Start(size, i + 1) = End(size, i)
             /\ \A i \in 0 .. n - 1 : \A j \in i .. n - 1 : Start(size, i) <= Start(size, j)
  BY Spans
<1>2. PICK r \in Nat : r = s.read
  OBVIOUS
<1>3. PICK c \in Nat : c = Least(size, r) /\ c <= size /\ c <= r /\ (c = size \/ c = r)
  BY DEF Least
<1>4. C = Bytes(c) /\ Len(C) = c
  BY <1>2, <1>3, BytesData
<1> HIDE DEF C
<1> DEFINE e == [i \in 0 .. n |-> IF i = n THEN c ELSE Least(Start(size, i), r)]
<1>5. ASSUME NEW i \in 0 .. n - 1
      PROVE  \E a, b \in Nat : /\ a = Start(size, i) /\ b = End(size, i) /\ a < b /\ b <= size
                               /\ e[i] = Least(a, r) /\ e[i + 1] = Least(b, r)
  <2>1. PICK a, b \in Nat : a = Start(size, i) /\ b = End(size, i)
    BY <1>1
  <2>2. a < b /\ b <= size
    BY <1>1, <2>1
  <2>3. e[i] = Least(a, r)
    BY <1>1, <2>1
  <2>4. e[i + 1] = Least(b, r)
    <3>1. CASE i = n - 1
      <4>1. i + 1 = n /\ n \in 0 .. n
        BY <1>1, <3>1
      <4>2. b = size
        BY <1>1, <2>1, <3>1
      <4> QED
        BY <1>3, <4>1, <4>2
    <3>2. CASE i # n - 1
      <4>1. i \in 0 .. n - 2 /\ i + 1 \in 0 .. n /\ i + 1 # n
        BY <3>2
      <4>2. b = Start(size, i + 1)
        BY <1>1, <2>1, <4>1
      <4> QED
        BY <4>1, <4>2
    <3> QED
      BY <3>1, <3>2
  <2> QED
    BY <2>1, <2>2, <2>3, <2>4
<1>6. e[0] = 0 /\ e[n] = c
  BY <1>1 DEF Least
<1>9. e = [i \in 0 .. n |-> e[i]]
  OBVIOUS
<1>10. \A i \in 0 .. n - 1 : e[i] = Least(Start(size, i), r)
  BY <1>1
<1> HIDE DEF e
<1>7. Marks(e, n, C)
  <2>1. ASSUME NEW i \in 0 .. n PROVE e[i] \in 0 .. c
    <3>1. CASE i = n
      BY <1>6, <3>1
    <3>2. CASE i # n
      <4>1. i \in 0 .. n - 1
        BY <3>2
      <4>2. PICK a, b \in Nat : a < b /\ b <= size /\ e[i] = Least(a, r)
        BY <1>5, <4>1
      <4> QED
        BY <1>3, <4>2 DEF Least
    <3> QED
      BY <3>1, <3>2
  <2>2. ASSUME NEW i \in 0 .. n, NEW j \in 0 .. n, i <= j PROVE e[i] <= e[j]
    <3>1. CASE j = n
      BY <1>6, <2>1, <3>1
    <3>2. CASE j # n
      <4>1. i \in 0 .. n - 1 /\ j \in 0 .. n - 1 /\ j \in i .. n - 1
        BY <2>2, <3>2
      <4>2. PICK a, b \in Nat : a = Start(size, i) /\ b = Start(size, j) /\ a <= b
        BY <1>1, <4>1
      <4>3. e[i] = Least(a, r) /\ e[j] = Least(b, r)
        BY <1>10, <4>1, <4>2
      <4> QED
        BY <4>2, <4>3 DEF Least
    <3> QED
      BY <3>1, <3>2
  <2>3. e \in [0 .. n -> 0 .. c]
    BY <1>9, <2>1
  <2> QED
    BY <1>1, <1>4, <1>6, <2>2, <2>3 DEF Marks
<1>8. ASSUME NEW i \in 0 .. n - 1 PROVE Sources(s)[i] = Part(C, e, i)
  <2>1. PICK a, b \in Nat : /\ a = Start(size, i) /\ b = End(size, i) /\ a < b /\ b <= size
                            /\ e[i] = Least(a, r) /\ e[i + 1] = Least(b, r)
    BY <1>5
  <2>2. Sources(s)[i] = SubSeq(Bytes(r), a + 1, Least(b, r))
    <3>1. Span(i)[1] = a /\ Span(i)[2] = b
      BY <2>1 DEF Span, Start, End
    <3> QED
      BY <1>1, <1>2, <3>1 DEF Sources, Total, Slice
  <2>3. PICK q \in Nat : q = Least(b, r) /\ q <= r /\ q <= c
    BY <1>3, <2>1 DEF Least
  <2>4. CASE a <= r
    <3>1. Least(a, r) = a
      BY <2>4 DEF Least
    <3>2. FilePart(r, a, q) = FilePart(c, a, q)
      BY <2>3, BytesPart
    <3> QED
      BY <1>4, <2>1, <2>2, <2>3, <3>1, <3>2 DEF Part, FilePart
  <2>5. CASE a > r
    <3>1. Least(a, r) = r /\ Least(b, r) = r
      BY <2>1, <2>5 DEF Least
    <3>2. SubSeq(Bytes(r), a + 1, r) = <<>>
      <4>1. a + 1 \in Int /\ r \in Int /\ r < a + 1
        BY <2>5
      <4> QED
        BY <4>1, SubSeqEmpty
    <3>3. SubSeq(C, r + 1, r) = <<>>
      <4>1. r + 1 \in Int /\ r \in Int /\ r < r + 1
        OBVIOUS
      <4> QED
        BY <4>1, SubSeqEmpty
    <3> QED
      BY <2>1, <2>2, <3>1, <3>2, <3>3 DEF Part
  <2> QED
    BY <2>4, <2>5
<1>11. Sources(s) = Parts(C, e, n)
  BY <1>1, <1>8 DEF Parts, Sources, Total
<1>12. Total = n
  BY <1>1 DEF Total
<1> QED
  BY <1>1, <1>7, <1>11, <1>12 DEF C

\* The map of the stream before it is shrunk.
StreamRoot(s) == DataMap(StreamInfos(s), 0)

\* The stream makes a map of what it has read, up to the length asked for.
LEMMA StreamLevel ==
    ASSUME MaxChunkAssumption, size \in Nat, Total >= 3, NEW s, s.read \in Nat
    PROVE  /\ Level(StreamRoot(s), 0, Bytes(Least(size, s.read)))
           /\ StreamRoot(s).child = 0
           /\ MapLen(StreamRoot(s)) = Total
           /\ StreamMap(s) = shrink_data_map(StreamRoot(s))
<1> DEFINE C == Bytes(Least(size, s.read))
           n == Total
           m == StreamRoot(s)
<1>1. size >= 3
  BY EnoughChunks DEF Total
<1>2. PICK e : Marks(e, n, C) /\ n >= 3 /\ Sources(s) = Parts(C, e, n)
  BY <1>1, StreamParts
<1> DEFINE src == Sources(s)
<1>3. StreamInfos(s) = Infos(src, n, 0)
  BY DEF StreamInfos, Infos, StreamChunk
<1>4. m = [infos |-> Infos(src, n, 0), child |-> 0]
  BY <1>3 DEF StreamRoot, DataMap
<1>5. n \in Nat
  BY <1>2 DEF Marks
<1> HIDE DEF C, n, m, src
<1>6. m.infos = Infos(Parts(C, e, n), n, 0)
  BY <1>2, <1>4 DEF src
<1>7. Opens(m, e, n, 0, C)
  BY <1>2, <1>6, InfosOpen
<1>8. m.infos = [i \in 0 .. n - 1 |-> m.infos[i]] /\ DOMAIN m.infos = 0 .. n - 1
  BY <1>6 DEF Infos
<1>9. m = [infos |-> m.infos, child |-> m.child] /\ m.child = 0
  BY <1>4
<1>10. MapLen(m) = n
  BY <1>5, <1>8, MapLength
<1>11. Level(m, 0, C)
  BY <1>2, <1>7, <1>8, <1>9 DEF Level
<1>12. StreamMap(s) = shrink_data_map(m)
  BY DEF StreamMap, StreamRoot, StreamInfos, m
<1> QED
  BY <1>9, <1>10, <1>11, <1>12 DEF C, n, m

\* encrypt makes a map of all its data.
LEMMA MemoryLevel ==
    ASSUME MaxChunkAssumption, NEW s \in Nat, get_num_chunks(s) >= 3
    PROVE  LET enc == EncryptLevel(Bytes(s), 0)
           IN  /\ Level(enc.map, 0, Bytes(s)) /\ enc.map.child = 0
               /\ MapLen(enc.map) = get_num_chunks(s)
               /\ enc.chunks = Dsts(enc.map)
<1> DEFINE C == Bytes(s)
           enc == EncryptLevel(C, 0)
           m == enc.map
<1>1. s >= 3
  BY EnoughChunks
<1>2. Data(C) /\ Len(C) = s
  BY BytesData
<1> HIDE DEF C
<1>3. PICK e, n : /\ Marks(e, n, C) /\ n >= 3 /\ n = get_num_chunks(Len(C))
                  /\ EncryptLevel(C, 0).map = [infos |-> Infos(Parts(C, e, n), n, 0), child |-> 0]
                  /\ EncryptLevel(C, 0).chunks = Dsts(EncryptLevel(C, 0).map)
  BY <1>1, <1>2, LevelOpens
<1>4. n \in Nat
  BY <1>3 DEF Marks
<1> HIDE DEF enc, m
<1>5. m = [infos |-> Infos(Parts(C, e, n), n, 0), child |-> 0]
  BY <1>3 DEF m, enc
<1>6. m.infos = Infos(Parts(C, e, n), n, 0) /\ m.child = 0 /\ m = [infos |-> m.infos, child |-> m.child]
  BY <1>5
<1>7. Opens(m, e, n, 0, C)
  BY <1>3, <1>6, InfosOpen
<1>8. m.infos = [i \in 0 .. n - 1 |-> m.infos[i]] /\ DOMAIN m.infos = 0 .. n - 1
  BY <1>6 DEF Infos
<1>9. MapLen(m) = n
  BY <1>4, <1>8, MapLength
<1>10. Level(m, 0, C)
  BY <1>3, <1>6, <1>7, <1>8 DEF Level
<1>11. enc.chunks = Dsts(m)
  BY <1>3 DEF m, enc
<1> QED
  BY <1>2, <1>3, <1>6, <1>9, <1>10, <1>11 DEF C, enc, m
-----------------------------------------------------------------------------
(* The batches of a download                                               *)

\* What a fetch function is given back: an index and its chunk.
Pair(infos, i) == <<i, infos[i].dst>>

\* The chunks of a batch, in whatever order.
Complete(got, a, b, infos) ==
    /\ got \in Seq({Pair(infos, i) : i \in a .. a + b - 1})
    /\ Len(got) = b
    /\ \A i \in a .. a + b - 1 : \E k \in 1 .. b : got[k] = Pair(infos, i)

\* fetch_next_batch sorts what came in any order.
LEMMA Sorted ==
    ASSUME NEW a \in Nat, NEW b \in Nat, NEW infos, NEW got, Complete(got, a, b, infos), NEW k \in 1 .. b
    PROVE  InOrder(got)[k] = Pair(infos, a + k - 1)
<1> DEFINE W == a .. a + b - 1
           All == {Pair(infos, i) : i \in W}
           below(g) == {i \in W : i < g[1]}
<1>1. Entries(got) = All
  <2>1. \A j \in 1 .. Len(got) : got[j] \in All
    <3>1. got \in Seq(All)
      BY DEF Complete
    <3> HIDE DEF All
    <3> QED
      BY <3>1, ElementOfSeq
  <2>2. \A i \in W : \E j \in 1 .. Len(got) : got[j] = Pair(infos, i)
    BY DEF Complete
  <2>3. Entries(got) = {got[j] : j \in 1 .. Len(got)}
    BY DEF Entries
  <2> QED
    BY <2>1, <2>2, <2>3
<1>2. {g[1] : g \in All} = W
  <2>1. \A i \in W : Pair(infos, i)[1] = i
    BY DEF Pair
  <2> QED
    BY <2>1
<1>3. ASSUME NEW i \in W PROVE Cardinality({j \in W : j < i}) = i - a
  <2>1. {j \in W : j < i} = a .. i - 1
    OBVIOUS
  <2>2. Cardinality(a .. i - 1) = i - a
    <3>1. CASE i = a
      <4>1. a .. i - 1 = {}
        BY <3>1
      <4> QED
        BY <3>1, <4>1, FS_EmptySet
    <3>2. CASE i # a
      <4>1. a \in Int /\ i - 1 \in Int /\ a <= i - 1
        BY <3>2
      <4>2. Cardinality(a .. i - 1) = (i - 1) - a + 1
        BY <4>1, FS_Interval
      <4> QED
        BY <4>2
    <3> QED
      BY <3>1, <3>2
  <2> QED
    BY <2>1, <2>2
<1>4. Len(got) = b
  BY DEF Complete
<1>5. InOrder(got)[k] = CHOOSE g \in All : Cardinality(below(g)) = k - 1
  BY <1>1, <1>2, <1>4 DEF InOrder
<1>6. a + k - 1 \in W
  OBVIOUS
<1>7. ASSUME NEW g \in All PROVE Cardinality(below(g)) = k - 1 <=> g = Pair(infos, a + k - 1)
  <2>1. PICK i \in W : g = Pair(infos, i)
    OBVIOUS
  <2>2. g[1] = i
    BY <2>1 DEF Pair
  <2>3. Cardinality(below(g)) = i - a
    BY <1>3, <2>2
  <2>4. i - a = k - 1 <=> i = a + k - 1
    OBVIOUS
  <2>5. g = Pair(infos, a + k - 1) => i = a + k - 1
    BY <2>1 DEF Pair
  <2> HIDE DEF below
  <2> QED
    BY <2>1, <2>3, <2>4, <2>5
<1>8. Pair(infos, a + k - 1) \in All
  BY <1>6
<1> HIDE DEF All, below
<1> QED
  BY <1>5, <1>7, <1>8

\* A batch is what its chunks contain, if they open.
\* P is what the chunks a .. a + b - 1 of the map m decrypt to.
Decrypted(m, a, b, P) ==
    /\ P = [k \in 1 .. b |-> P[k]]
    /\ \A k \in 1 .. b :
          decrypt_chunk(a + k - 1, m.infos[a + k - 1].dst, extract_hashes(m), 0) = P[k]

\* DecryptBatch puts the decrypted chunks of a batch together.
LEMMA BatchParts ==
    ASSUME NEW m, NEW P, m.child = 0, NEW a \in Nat, NEW b \in Nat, NEW got, Complete(got, a, b, m.infos),
           Decrypted(m, a, b, P)
    PROVE  DecryptBatch(m, a, got) =
             IF \E k \in 1 .. b : P[k] = Failed THEN Failed ELSE FlattenSeq(P)
<1> DEFINE part == [k \in 1 .. Len(got) |->
                     decrypt_chunk(a + k - 1, InOrder(got)[k][2], extract_hashes(m), m.child)]
<1>1. Len(got) = b
  BY DEF Complete
<1>2. ASSUME NEW k \in 1 .. b PROVE part[k] = P[k]
  <2>1. InOrder(got)[k][2] = m.infos[a + k - 1].dst
    BY Sorted DEF Pair
  <2> QED
    BY <1>1, <2>1 DEF Decrypted
<1>3. part = [k \in 1 .. b |-> part[k]]
  BY <1>1
<1>4. DecryptBatch(m, a, got) =
        IF Failed \in Entries(part) THEN Failed ELSE FlattenSeq(part)
  BY DEF DecryptBatch
<1> HIDE DEF part
<1>5. part = P
  BY <1>2, <1>3 DEF Decrypted
<1>6. Len(P) = b
  <2>1. DOMAIN P = 1 .. b
    BY DEF Decrypted
  <2> QED
    BY <2>1
<1>7. Failed \in Entries(P) <=> \E k \in 1 .. b : P[k] = Failed
  BY <1>6 DEF Entries
<1> QED
  BY <1>4, <1>5, <1>7

\* A batch of a root map decrypts to its piece of the data.
LEMMA BatchOpens ==
    ASSUME NEW m, NEW e, NEW n \in Nat, NEW C, Opens(m, e, n, 0, C), m.child = 0, Data(C),
           NEW a \in Nat, NEW b \in Nat, b >= 1, a + b <= n, NEW got, Complete(got, a, b, m.infos)
    PROVE  DecryptBatch(m, a, got) = Piece(C, e[a], e[a + b])
<1> DEFINE P == [k \in 1 .. b |-> Part(C, e, a + k - 1)]
<1>1. ASSUME NEW k \in 1 .. b
      PROVE  decrypt_chunk(a + k - 1, m.infos[a + k - 1].dst, extract_hashes(m), 0) = P[k]
  <2>1. a + k - 1 \in 0 .. n - 1
    OBVIOUS
  <2> QED
    BY <2>1 DEF Opens
<1>2. P = [k \in 1 .. b |-> P[k]]
  OBVIOUS
<1>3. Marks(e, n, C)
  BY DEF Opens
<1>4. ASSUME NEW k \in 1 .. b PROVE P[k] # Failed
  <2>1. a + k - 1 \in 0 .. n - 1
    OBVIOUS
  <2> QED
    BY <1>3, <2>1, PartIsData
<1>5. PICK T : C \in Seq(T)
  BY DEF Data
<1>6. FlattenSeq(P) = Piece(C, e[a], e[a + b])
  BY <1>3, <1>5, Flatten
<1> HIDE DEF P
<1>7. Decrypted(m, a, b, P)
  BY <1>1, <1>2 DEF Decrypted
<1>8. DecryptBatch(m, a, got) =
        IF \E k \in 1 .. b : P[k] = Failed THEN Failed ELSE FlattenSeq(P)
  BY <1>7, BatchParts
<1> QED
  BY <1>4, <1>6, <1>8

\* A map that has lost its level does not decrypt.
LEMMA BatchFails ==
    ASSUME NEW m, NEW e, NEW n \in Nat, NEW C, Opens(m, e, n, 1, C), m.child = 0,
           NEW a \in Nat, NEW b \in Nat, b >= 1, a + b <= n, NEW got, Complete(got, a, b, m.infos)
    PROVE  DecryptBatch(m, a, got) = Failed
<1> DEFINE P == [k \in 1 .. b |-> Failed]
<1>1. ASSUME NEW k \in 1 .. b
      PROVE  decrypt_chunk(a + k - 1, m.infos[a + k - 1].dst, extract_hashes(m), 0) = P[k]
  <2>1. a + k - 1 \in 0 .. n - 1
    OBVIOUS
  <2> QED
    BY <2>1 DEF Opens
<1>2. P = [k \in 1 .. b |-> P[k]]
  OBVIOUS
<1>3. 1 \in 1 .. b /\ P[1] = Failed
  OBVIOUS
<1> HIDE DEF P
<1>4. Decrypted(m, a, b, P)
  BY <1>1, <1>2 DEF Decrypted
<1> QED
  BY <1>3, <1>4, BatchParts

\* Chunks W of the map of d are asked for: those that are there and those that are not.
Fetching(d, W) ==
    /\ IsFiniteSet(W) /\ d.want \subseteq W
    /\ d.got \in Seq({Pair(d.map.infos, i) : i \in W})
    /\ \A i \in W : i \in d.want \/ \E k \in 1 .. Len(d.got) : d.got[k] = Pair(d.map.infos, i)
    /\ Len(d.got) + Cardinality(d.want) = Cardinality(W)

\* Nothing has come yet.
LEMMA FetchStart ==
    ASSUME NEW d, NEW W, IsFiniteSet(W), d.want = W, d.got = <<>>
    PROVE  Fetching(d, W)
<1>1. Cardinality(W) \in Nat
  BY FS_CardinalityType
<1>2. d.got \in Seq({Pair(d.map.infos, i) : i \in W}) /\ Len(d.got) = 0
  BY EmptySeq
<1> QED
  BY <1>1, <1>2 DEF Fetching

\* One more chunk has come.
LEMMA FetchMore ==
    ASSUME NEW c, NEW d, NEW W, Fetching(c, W), NEW i \in c.want,
           d.map = c.map, d.want = c.want \ {i}, d.got = Append(c.got, Pair(c.map.infos, i))
    PROVE  Fetching(d, W)
<1> DEFINE T == {Pair(c.map.infos, j) : j \in W}
<1>1. i \in W /\ Pair(c.map.infos, i) \in T /\ c.got \in Seq(T)
  BY DEF Fetching
<1>2. /\ d.got \in Seq(T) /\ Len(d.got) = Len(c.got) + 1
      /\ \A j \in 1 .. Len(c.got) : d.got[j] = c.got[j]
      /\ d.got[Len(c.got) + 1] = Pair(c.map.infos, i)
  <2> HIDE DEF T
  <2> QED
    BY <1>1, AppendProperties
<1>3. Len(c.got) \in Nat
  <2> HIDE DEF T
  <2> QED
    BY <1>1, LenProperties
<1>4. IsFiniteSet(c.want) /\ Cardinality(c.want) \in Nat /\ Cardinality(d.want) = Cardinality(c.want) - 1
  <2>1. IsFiniteSet(c.want)
    BY FS_Subset DEF Fetching
  <2> QED
    BY <2>1, FS_RemoveElement, FS_CardinalityType
<1>5. ASSUME NEW j \in W PROVE j \in d.want \/ \E k \in 1 .. Len(d.got) : d.got[k] = Pair(d.map.infos, j)
  <2>1. CASE j = i
    <3>1. Len(c.got) + 1 \in 1 .. Len(d.got)
      BY <1>2, <1>3
    <3> QED
      BY <1>2, <2>1, <3>1
  <2>2. CASE j # i
    <3>1. CASE j \in c.want
      BY <2>2, <3>1
    <3>2. CASE \E k \in 1 .. Len(c.got) : c.got[k] = Pair(c.map.infos, j)
      <4>1. PICK k \in 1 .. Len(c.got) : c.got[k] = Pair(c.map.infos, j)
        BY <3>2
      <4>2. k \in 1 .. Len(d.got)
        BY <1>2, <1>3
      <4> QED
        BY <1>2, <4>1, <4>2
    <3> QED
      BY <3>1, <3>2 DEF Fetching
  <2> QED
    BY <2>1, <2>2
<1>6. Len(d.got) + Cardinality(d.want) = Cardinality(W)
  BY <1>2, <1>3, <1>4 DEF Fetching
<1>7. d.want \subseteq W /\ IsFiniteSet(W)
  BY DEF Fetching
<1>8. d.got \in Seq({Pair(d.map.infos, j) : j \in W})
  BY <1>2
<1> QED
  BY <1>5, <1>6, <1>7, <1>8 DEF Fetching

\* All chunks of a batch have come.
LEMMA FetchAll ==
    ASSUME NEW d, NEW a \in Nat, NEW b \in Nat, Fetching(d, a .. a + b - 1), d.want = {}
    PROVE  Complete(d.got, a, b, d.map.infos)
<1>1. Cardinality(a .. a + b - 1) = b
  <2>1. CASE b = 0
    <3>1. a .. a + b - 1 = {}
      BY <2>1
    <3> QED
      BY <2>1, <3>1, FS_EmptySet
  <2>2. CASE b # 0
    <3>1. a \in Int /\ a + b - 1 \in Int /\ a <= a + b - 1
      BY <2>2
    <3>2. Cardinality(a .. a + b - 1) = (a + b - 1) - a + 1
      BY <3>1, FS_Interval
    <3> QED
      BY <3>2
  <2> QED
    BY <2>1, <2>2
<1>2. Cardinality(d.want) = 0
  BY FS_EmptySet
<1>3. PICK T : d.got \in Seq(T)
  BY DEF Fetching
<1>4. Len(d.got) \in Nat
  BY <1>3, LenProperties
<1>5. Len(d.got) = b
  BY <1>1, <1>2, <1>4 DEF Fetching
<1> QED
  BY <1>5 DEF Fetching, Complete

\* The map of s bytes is shrunk once at most.
Once(s) == get_num_chunks(get_num_chunks(s) + 1) <= 3

\* A map of three chunks is not shrunk.
Flat(m, s) == get_num_chunks(s) <= 3 => m.child = 0

\* finalize_encryption gives a data map of what was read.
LEMMA FinalGood ==
    ASSUME MaxChunkAssumption, size \in Nat, Total >= 3, NEW s, s.read \in Nat
    PROVE  /\ Good(StreamMap(s).map, Bytes(Least(size, s.read)), Once(size))
           /\ StreamMap(s).map # NoMap
           /\ Flat(StreamMap(s).map, size)
<1> DEFINE m == StreamRoot(s)
           C == Bytes(Least(size, s.read))
           x == shrink_data_map(m)
<1>1. /\ Level(m, 0, C) /\ m.child = 0 /\ MapLen(m) = Total /\ StreamMap(s) = x
  BY StreamLevel
<1>2. Once(size) \in BOOLEAN /\ (Once(size) <=> get_num_chunks(MapLen(m) + 1) <= 3)
  BY <1>1 DEF Once, Total
<1> HIDE DEF m, C
<1>3. Good(x.map, C, Once(size))
  BY <1>1, <1>2, Shrinks
<1>4. x.map.child # -1
  BY <1>3 DEF Good
<1>6. Flat(x.map, size)
  <2>1. MapLen(m) <= 3 => x.map = m
    BY <1>1, <1>2, Shrinks
  <2> QED
    BY <1>1, <2>1 DEF Flat, Total
<1> HIDE DEF x
<1>5. x.map # NoMap
  BY <1>4 DEF NoMap
<1> QED
  BY <1>1, <1>3, <1>5, <1>6 DEF C

\* When all of the file was read, the stream has the sources that encrypt has.
LEMMA FinalAgrees ==
    ASSUME MaxChunkAssumption, size \in Nat, Total >= 3, NEW s, s.read \in Nat, s.read >= size
    PROVE  StreamMap(s).map = encrypt(Bytes(size)).map
<1>0. size >= 3
  BY EnoughChunks DEF Total
<1>1. PICK n \in Nat :
             /\ get_num_chunks(size) = n /\ n >= 3
             /\ \A i \in 0 .. n - 1 : /\ Start(size, i) \in Nat /\ End(size, i) \in Nat
                                      /\ Start(size, i) < End(size, i) /\ End(size, i) <= size
  BY <1>0, Spans
<1> DEFINE B == Bytes(size)
           src == [i \in 0 .. n - 1 |-> Slice(B, get_start_end_positions(size, i))]
           enc == [i \in 0 .. n - 1 |-> encrypt_chunk(src[i], get_pad_key_and_nonce(i, src, 0))]
<1>2. Len(B) = size
  BY BytesData
<1>3. EncryptLevel(B, 0).map = DataMap([i \in 0 .. n - 1 |-> ChunkInfo(src[i], enc[i])], 0)
  <2> HIDE DEF B
  <2> QED
    BY <1>1, <1>2 DEF EncryptLevel
<1>4. ASSUME NEW i \in 0 .. n - 1 PROVE Sources(s)[i] = src[i]
  <2>1. PICK a, b \in Nat : a = Start(size, i) /\ b = End(size, i) /\ b <= size
    BY <1>1
  <2>2. Least(b, s.read) = b
    BY <2>1 DEF Least
  <2>3. Sources(s)[i] = FilePart(s.read, a, b)
    <3>1. Span(i)[1] = a /\ Span(i)[2] = b
      BY <2>1 DEF Span, Start, End
    <3> QED
      BY <1>1, <2>2, <3>1 DEF Sources, Total, Slice, FilePart
  <2>4. src[i] = FilePart(size, a, b)
    <3>1. src[i] = Slice(B, get_start_end_positions(size, i))
      OBVIOUS
    <3> HIDE DEF src
    <3> QED
      BY <2>1, <3>1 DEF Slice, FilePart, Start, End
  <2>5. FilePart(s.read, a, b) = FilePart(size, a, b)
    <3>1. PICK r \in Nat : r = s.read
      OBVIOUS
    <3>2. b <= r
      BY <2>1, <3>1
    <3> QED
      BY <2>1, <3>1, <3>2, BytesPart
  <2> QED
    BY <2>3, <2>4, <2>5
<1>5. Sources(s) = src
  BY <1>1, <1>4 DEF Sources, Total
<1>6. StreamRoot(s) = EncryptLevel(B, 0).map
  <2>1. \A i \in 0 .. n - 1 : StreamChunk(s, i) = enc[i]
    BY <1>5 DEF StreamChunk
  <2> HIDE DEF src, enc
  <2> QED
    BY <1>1, <1>3, <1>5, <2>1 DEF StreamRoot, StreamInfos, Total
<1>7. encrypt(B).map = shrink_data_map(EncryptLevel(B, 0).map).map
  BY DEF encrypt
<1>8. StreamMap(s) = shrink_data_map(StreamRoot(s))
  BY StreamLevel
<1> QED
  BY <1>6, <1>7, <1>8

\* encrypt gives a data map of its data.
LEMMA MemoryGood ==
    ASSUME MaxChunkAssumption, NEW s \in Nat, get_num_chunks(s) >= 3
    PROVE  Good(encrypt(Bytes(s)).map, Bytes(s), Once(s)) /\ Flat(encrypt(Bytes(s)).map, s)
<1> DEFINE C == Bytes(s)
           m == EncryptLevel(C, 0).map
           x == shrink_data_map(m)
<1>1. Level(m, 0, C) /\ m.child = 0 /\ MapLen(m) = get_num_chunks(s)
  BY MemoryLevel
<1>2. Once(s) \in BOOLEAN /\ (Once(s) <=> get_num_chunks(MapLen(m) + 1) <= 3)
  BY <1>1 DEF Once
<1>3. encrypt(C).map = x.map
  BY DEF encrypt
<1> HIDE DEF C, m
<1>4. Good(x.map, C, Once(s)) /\ (MapLen(m) <= 3 => x.map = m)
  BY <1>1, <1>2, Shrinks
<1>5. Flat(x.map, s)
  BY <1>1, <1>4 DEF Flat
<1> QED
  BY <1>3, <1>4, <1>5 DEF C
-----------------------------------------------------------------------------
(* The invariant of transfers: what is running, the data map of the        *)
(* stream and of the upload, and how much of it has been written           *)

\* What an upload of mode m, of s bytes of which the task has read r, stores.
Text(m, s, r) == IF m = "memory" THEN Bytes(s) ELSE Bytes(Least(s, r))

\* The types.
Shape ==
    /\ stream = [pc |-> stream.pc, read |-> stream.read, processed |-> stream.processed, rest |-> stream.rest,
                 input_complete |-> stream.input_complete, read_error |-> stream.read_error,
                 item |-> stream.item, map |-> stream.map]
    /\ upload = [pc |-> upload.pc, mode |-> upload.mode, map |-> upload.map]
    /\ down = [pc |-> down.pc, kind |-> down.kind, map |-> down.map, start |-> down.start, want |-> down.want,
               got |-> down.got, data |-> down.data, count |-> down.count]
    /\ file \in Nat /\ size \in Nat /\ stream.read \in Nat /\ stream.processed \in Nat
    /\ stream.pc \in {"off", "open", "next", "send", "ok", "failed"}
    /\ upload.pc \in {"idle", "spilling", "quoting", "prepared", "storing", "ok", "failed", "crashed"}
    /\ down.pc \in {"idle", "root", "create", "batch", "rename", "data", "ok", "failed", "refused", "off"}

\* What is running: the task outlives a caller that fails, downloads follow an
\* upload.
Phases ==
    /\ upload.pc = "idle" => stream.pc = "off" /\ stream.map = NoMap /\ stream.processed = 0 /\ ~stream.read_error
    /\ upload.pc \in {"quoting", "prepared", "storing", "ok", "crashed"} => stream.pc \in {"off", "ok"}
    /\ upload.pc \notin {"ok", "crashed"} => down.pc = "idle" /\ out = Old
    /\ upload.pc = "crashed" => down.pc = "off"
    /\ upload.pc \in {"idle", "ok", "failed", "prepared"} => ~spillDir
    /\ upload.pc = "spilling" => open /\ stream.pc # "off" /\ upload.mode # "memory"
    /\ down.pc \in {"idle", "root", "create", "data", "ok", "failed", "refused"} => tmp = NoFile
    /\ down.pc \in {"root", "create", "batch", "rename", "data"} => (down.kind = "file" <=> down.pc # "data")

\* The data map of the stream.
StreamInv ==
    /\ stream.pc \in {"next", "send", "ok"} => get_num_chunks(size) >= 3
    /\ stream.processed <= get_num_chunks(size)
    /\ stream.pc = "ok" => stream.map # NoMap
    /\ stream.map # NoMap =>
         /\ stream.input_complete /\ stream.processed = get_num_chunks(size)
         /\ Good(stream.map, Bytes(Least(size, stream.read)), Once(size)) /\ Flat(stream.map, size)
         /\ stream.read >= size => stream.map = encrypt(Bytes(size)).map

MapInv ==
    upload.pc \in {"quoting", "prepared", "storing", "ok"} =>
        Good(upload.map, Text(upload.mode, size, stream.read), Once(size)) /\ Flat(upload.map, size)

\* Why a download fails without a fault.
Excused(kind, s) == IF kind = "file" THEN ~Once(s) ELSE get_num_chunks(s) > 3

\* Why an upload without a fault fails.
FaultInv ==
    /\ upload.pc = "spilling" /\ stream.read_error => faulty
    /\ upload.pc = "spilling" /\ stream.pc = "failed" /\ ~faulty =>
         get_num_chunks(size) < 3 \/ stream.read < size
    /\ upload.pc = "failed" /\ ~faulty =>
         /\ stream.pc \in {"ok", "failed", "off"}
         /\ get_num_chunks(size) < 3 \/ stream.read < size
    /\ down.pc = "failed" /\ ~faulty => Excused(down.kind, size)

\* A download that writes batches to the temporary file t.
Writing(d, t, C, once) ==
    /\ d.map.child = 0
    /\ \E e, n : /\ d.start \in 0 .. n - 1
                 /\ Fetching(d, d.start .. (Least(d.start + Batch, n) - 1))
                 /\ \/ Opens(d.map, e, n, 0, C) /\ t = Piece(C, 0, e[d.start])
                    \/ ~once /\ d.start = 0 /\ \E D : Opens(d.map, e, n, 1, D)

DownInv ==
    LET C == Text(upload.mode, size, stream.read)
    IN  /\ down.pc = "root" => /\ down.map.child = 1 /\ Over(down.map, C, Once(size))
                               /\ Fetching(down, DOMAIN down.map.infos)
        /\ down.pc = "create" => Inner(down.map, C, Once(size))
        /\ down.pc = "batch" => Writing(down, tmp, C, Once(size))
        /\ down.pc = "rename" => tmp = C
        /\ down.pc = "data" => down.map = upload.map /\ Fetching(down, DOMAIN down.map.infos)
        /\ out = Old \/ out = C

TransferInv == Shape /\ Phases /\ StreamInv /\ MapInv /\ FaultInv /\ DownInv

\* The first state.
LEMMA TransferInit ==
    ASSUME TransferAssumption, MaxChunkAssumption, FileInit
    PROVE  TransferInv
<1> USE DEF FileInit
<1>1. file \in Nat /\ size \in Nat
  BY DEF TransferAssumption
<1>2. Shape
  BY <1>1 DEF Shape
<1>3. Phases
  BY DEF Phases
<1>4. StreamInv
  <2>1. 0 <= get_num_chunks(size)
    BY EnoughChunks, <1>1
  <2> QED
    BY <2>1 DEF StreamInv
<1>5. MapInv /\ FaultInv /\ DownInv
  BY DEF MapInv, FaultInv, DownInv
<1> QED
  BY <1>2, <1>3, <1>4, <1>5 DEF TransferInv

\* The steps of the encryption task leave all else alone, and run only before
\* the caller has the data map.
LEMMA TaskFrame ==
    ASSUME TransferInv, stream.pc \in {"open", "next", "send"}, Shape',
           UNCHANGED <<size, open, upload, spill, spillDir, down, tmp, out>>, stream'.pc # "off"
    PROVE  Phases' /\ MapInv' /\ DownInv' /\ upload.pc \in {"spilling", "failed"} /\ down.pc = "idle"
<1>1. upload.pc \in {"spilling", "failed"}
  BY DEF TransferInv, Shape, Phases
<1>2. down.pc = "idle" /\ out = Old
  BY <1>1 DEF TransferInv, Phases
<1>3. Phases'
  BY <1>1, <1>2 DEF TransferInv, Phases
<1>4. MapInv'
  BY <1>1 DEF MapInv
<1>5. DownInv'
  BY <1>2 DEF DownInv
<1> QED
  BY <1>1, <1>2, <1>3, <1>4, <1>5

\* The task opens the file.
LEMMA OpenStep ==
    ASSUME TransferInv, MaxChunkAssumption, OpenFile
    PROVE  TransferInv'
<1> USE DEF OpenFile, TaskAt, callerVars, downVars, Total
<1>1. PICK pc \in {"next", "failed"} :
        /\ stream' = [stream EXCEPT !.pc = pc]
        /\ pc = "next" => ~(get_num_chunks(size) < 3)
        /\ pc = "failed" => get_num_chunks(size) < 3 \/ faulty'
        /\ faulty' = faulty \/ faulty'
  OBVIOUS
<1>2. /\ stream'.pc = pc /\ stream'.map = stream.map /\ stream'.read = stream.read
      /\ stream'.processed = stream.processed /\ stream'.input_complete = stream.input_complete
      /\ stream'.read_error = stream.read_error
  BY <1>1 DEF TransferInv, Shape
<1>3. UNCHANGED <<file, size, open, upload, spill, spillDir, down, tmp, out>>
  OBVIOUS
<1>4. Shape'
  BY <1>1, <1>3 DEF TransferInv, Shape
<1>5. Phases' /\ MapInv' /\ DownInv' /\ upload.pc \in {"spilling", "failed"} /\ down.pc = "idle"
  BY <1>2, <1>3, <1>4, TaskFrame
<1>6. get_num_chunks(size) \in Nat
  BY EnoughChunks DEF TransferInv, Shape
<1>7. StreamInv'
  BY <1>1, <1>2, <1>3, <1>6 DEF TransferInv, StreamInv
<1>8. FaultInv'
  BY <1>1, <1>2, <1>3, <1>5 DEF TransferInv, FaultInv
<1> QED
  BY <1>4, <1>5, <1>7, <1>8 DEF TransferInv

\* The task reads.
LEMMA ReadStep ==
    ASSUME TransferInv, MaxChunkAssumption, TransferAssumption,
           ReadEnd \/ ReadFails \/ \E k \in 1 .. MaxRead : ReadPiece(k)
    PROVE  TransferInv'
<1> USE DEF TaskAt, callerVars, downVars, NeedsData
<1>1. stream.pc = "next" /\ ~stream.input_complete /\ stream.map = NoMap
  BY DEF ReadEnd, ReadFails, ReadPiece, TransferInv, StreamInv
<1>2. UNCHANGED <<file, size, open, upload, spill, spillDir, down, tmp, out>>
  BY DEF ReadEnd, ReadFails, ReadPiece
<1>3. /\ stream'.pc = stream.pc /\ stream'.map = stream.map /\ stream'.read \in Nat
      /\ stream'.processed = stream.processed
      /\ (stream'.read_error = stream.read_error /\ faulty' = faulty) \/ faulty' = TRUE
      /\ stream' = [pc |-> stream'.pc, read |-> stream'.read, processed |-> stream'.processed, rest |-> stream'.rest,
                    input_complete |-> stream'.input_complete, read_error |-> stream'.read_error,
                    item |-> stream'.item, map |-> stream'.map]
  <2>1. CASE ReadEnd
    BY <2>1 DEF ReadEnd, TransferInv, Shape
  <2>2. CASE ReadFails
    BY <2>2 DEF ReadFails, TransferInv, Shape
  <2>3. CASE \E k \in 1 .. MaxRead : ReadPiece(k)
    <3>1. PICK k \in 1 .. MaxRead : ReadPiece(k)
      BY <2>3
    <3>2. stream.read + k \in Nat
      BY DEF TransferInv, Shape, TransferAssumption
    <3> QED
      BY <3>1, <3>2 DEF ReadPiece, TransferInv, Shape
  <2> QED
    BY <2>1, <2>2, <2>3
<1>4. Shape'
  BY <1>2, <1>3 DEF TransferInv, Shape
<1>5. Phases' /\ MapInv' /\ DownInv' /\ upload.pc \in {"spilling", "failed"} /\ down.pc = "idle"
  BY <1>1, <1>2, <1>3, <1>4, TaskFrame
<1>7. StreamInv'
  BY <1>1, <1>2, <1>3 DEF TransferInv, StreamInv
<1>8. FaultInv'
  BY <1>1, <1>2, <1>3, <1>5 DEF TransferInv, FaultInv
<1> QED
  BY <1>4, <1>5, <1>7, <1>8 DEF TransferInv

\* The task encrypts a chunk, or finalizes.
LEMMA ProcessStep ==
    ASSUME TransferInv, MaxChunkAssumption, ProcessChunk
    PROVE  TransferInv'
<1> USE DEF TaskAt, callerVars, downVars
<1>0. stream.pc = "next"
  BY DEF ProcessChunk
<1>1. UNCHANGED <<file, size, open, upload, spill, spillDir, down, tmp, out, faulty>>
  BY DEF ProcessChunk
<1>2. PICK n \in Nat : n = get_num_chunks(size) /\ n >= 3 /\ n = Total
  BY <1>0, EnoughChunks DEF TransferInv, Shape, StreamInv, Total
<1>3. /\ stream'.pc \in {"next", "send"} /\ stream'.read = stream.read
      /\ stream'.input_complete = stream.input_complete /\ stream'.read_error = stream.read_error
      /\ stream' = [pc |-> stream'.pc, read |-> stream'.read, processed |-> stream'.processed, rest |-> stream'.rest,
                    input_complete |-> stream'.input_complete, read_error |-> stream'.read_error,
                    item |-> stream'.item, map |-> stream'.map]
  BY DEF ProcessChunk, TransferInv, Shape
<1>4. stream'.processed \in Nat /\ stream'.processed <= n
  <2>1. PICK p \in Nat : p = stream.processed /\ p <= n
    BY <1>2 DEF TransferInv, Shape, StreamInv
  <2>2. stream'.processed = p \/ (stream'.processed = p + 1 /\ p < n)
    BY <1>2, <2>1 DEF ProcessChunk, HasData, TransferInv, Shape
  <2> QED
    BY <1>2, <2>1, <2>2
<1>5. \/ stream'.map = stream.map /\ (stream'.processed = stream.processed \/ stream.processed < n)
      \/ /\ stream.input_complete /\ stream.processed = n /\ stream'.processed = stream.processed
         /\ stream'.map = StreamMap(stream).map
  BY <1>2 DEF ProcessChunk, HasData, TransferInv, Shape
<1>6. Shape'
  BY <1>1, <1>3, <1>4 DEF TransferInv, Shape
<1>7. Phases' /\ MapInv' /\ DownInv' /\ upload.pc \in {"spilling", "failed"} /\ down.pc = "idle"
  BY <1>0, <1>1, <1>3, <1>6, TaskFrame
<1>8. StreamInv'
  <2>1. size \in Nat /\ stream.read \in Nat
    BY DEF TransferInv, Shape
  <2>2. CASE stream'.map = stream.map /\ (stream'.processed = stream.processed \/ stream.processed < n)
    BY <1>1, <1>2, <1>3, <1>4, <2>2 DEF TransferInv, StreamInv
  <2>3. CASE /\ stream.input_complete /\ stream.processed = n /\ stream'.processed = stream.processed
             /\ stream'.map = StreamMap(stream).map
    <3>1. Good(stream'.map, Bytes(Least(size, stream.read)), Once(size)) /\ Flat(stream'.map, size)
      BY <1>2, <2>1, <2>3, FinalGood
    <3>2. stream.read >= size => stream'.map = encrypt(Bytes(size)).map
      BY <1>2, <2>1, <2>3, FinalAgrees
    <3> QED
      BY <1>1, <1>2, <1>3, <1>4, <2>3, <3>1, <3>2 DEF StreamInv
  <2> QED
    BY <1>5, <2>2, <2>3
<1>9. FaultInv'
  BY <1>0, <1>1, <1>3, <1>7 DEF TransferInv, FaultInv
<1> QED
  BY <1>6, <1>7, <1>8, <1>9 DEF TransferInv

\* The task sends a chunk.
LEMMA SendStep ==
    ASSUME TransferInv, MaxChunkAssumption, SendChunk
    PROVE  TransferInv'
<1> USE DEF TaskAt, callerVars, downVars
<1>0. stream.pc = "send"
  BY DEF SendChunk
<1>1. UNCHANGED <<file, size, open, upload, spill, spillDir, down, tmp, out, faulty>>
  BY DEF SendChunk
<1>2. /\ stream'.pc \in {"next", "failed"} /\ stream'.read = stream.read /\ stream'.map = stream.map
      /\ stream'.input_complete = stream.input_complete /\ stream'.read_error = stream.read_error
      /\ stream'.processed = stream.processed
      /\ stream'.pc = "failed" => stream.read_error \/ ~open
      /\ stream' = [pc |-> stream'.pc, read |-> stream'.read, processed |-> stream'.processed, rest |-> stream'.rest,
                    input_complete |-> stream'.input_complete, read_error |-> stream'.read_error,
                    item |-> stream'.item, map |-> stream'.map]
  BY DEF SendChunk, TransferInv, Shape
<1>3. Shape'
  BY <1>1, <1>2 DEF TransferInv, Shape
<1>4. Phases' /\ MapInv' /\ DownInv' /\ upload.pc \in {"spilling", "failed"} /\ down.pc = "idle"
  BY <1>0, <1>1, <1>2, <1>3, TaskFrame
<1>5. StreamInv'
  BY <1>0, <1>1, <1>2 DEF TransferInv, StreamInv
<1>6. FaultInv'
  BY <1>0, <1>1, <1>2, <1>4 DEF TransferInv, FaultInv, Phases
<1> QED
  BY <1>3, <1>4, <1>5, <1>6 DEF TransferInv

\* The task ends.
LEMMA EndStep ==
    ASSUME TransferInv, MaxChunkAssumption, StreamEnds
    PROVE  TransferInv'
<1> USE DEF TaskAt, callerVars, downVars
<1>0. stream.pc = "next"
  BY DEF StreamEnds
<1>1. UNCHANGED <<file, size, open, upload, spill, spillDir, down, tmp, out, faulty>>
  BY DEF StreamEnds
<1>2. /\ stream'.pc \in {"ok", "failed"} /\ stream'.read = stream.read /\ stream'.map = stream.map
      /\ stream'.input_complete = stream.input_complete /\ stream'.read_error = stream.read_error
      /\ stream'.processed = stream.processed
      /\ stream'.pc = "ok" => stream.map # NoMap
      /\ stream'.pc = "failed" => stream.read_error \/ stream.map = NoMap
      /\ stream' = [pc |-> stream'.pc, read |-> stream'.read, processed |-> stream'.processed, rest |-> stream'.rest,
                    input_complete |-> stream'.input_complete, read_error |-> stream'.read_error,
                    item |-> stream'.item, map |-> stream'.map]
  BY DEF StreamEnds, TransferInv, Shape
<1>3. Shape'
  BY <1>1, <1>2 DEF TransferInv, Shape
<1>4. Phases' /\ MapInv' /\ DownInv' /\ upload.pc \in {"spilling", "failed"} /\ down.pc = "idle"
  BY <1>0, <1>1, <1>2, <1>3, TaskFrame
<1>5. StreamInv'
  BY <1>0, <1>1, <1>2 DEF TransferInv, StreamInv
<1>6. stream.map = NoMap => stream.read < size
  <2> SUFFICES ASSUME stream.map = NoMap PROVE stream.read < size
    OBVIOUS
  <2>1. PICK n \in Nat :
             /\ get_num_chunks(size) = n /\ n >= 3
             /\ \A i \in 0 .. n - 1 : /\ Start(size, i) \in Nat /\ End(size, i) \in Nat
                                      /\ Start(size, i) < End(size, i) /\ End(size, i) <= size
    <3>1. size \in Nat /\ size >= 3
      BY <1>0, EnoughChunks DEF TransferInv, Shape, StreamInv
    <3> QED
      BY <3>1, Spans
  <2>2. PICK p \in Nat : p = stream.processed
    BY DEF TransferInv, Shape
  <2>3. p # n /\ p <= n
    BY <2>1, <2>2 DEF StreamEnds, Total, TransferInv, StreamInv
  <2>4. p \in 0 .. n - 1 /\ p < n
    BY <2>3
  <2>5. ~(stream.read > Start(size, p))
    BY <2>1, <2>2, <2>4 DEF StreamEnds, HasData, Total, Span, Start
  <2>6. PICK a, b \in Nat : a = Start(size, p) /\ b = End(size, p)
    BY <2>1, <2>4
  <2>7. a < b /\ b <= size
    BY <2>1, <2>4, <2>6
  <2> QED
    BY <2>5, <2>6, <2>7 DEF TransferInv, Shape
<1>7. FaultInv'
  BY <1>0, <1>1, <1>2, <1>4, <1>6 DEF TransferInv, FaultInv
<1> QED
  BY <1>3, <1>4, <1>5, <1>7 DEF TransferInv

\* No download has begun yet.
LEMMA CallerFrame ==
    ASSUME TransferInv, upload.pc \notin {"ok", "crashed"}, UNCHANGED <<down, tmp, out>>
    PROVE  DownInv' /\ down.pc = "idle" /\ out = Old /\ tmp = NoFile
<1>1. down.pc = "idle" /\ out = Old /\ tmp = NoFile
  BY DEF TransferInv, Phases
<1> QED
  BY <1>1 DEF DownInv

\* The upload fails or is dropped.
LEMMA FailStep ==
    ASSUME TransferInv, upload.pc \in {"spilling", "quoting", "prepared", "storing"}, Fail,
           UNCHANGED <<file, size, stream, down, tmp, out>>
    PROVE  TransferInv'
<1> USE DEF Fail, Finish
<1>1. upload'.pc = "failed" /\ upload' = [pc |-> upload'.pc, mode |-> upload'.mode, map |-> upload'.map]
  BY DEF TransferInv, Shape
<1>2. DownInv' /\ down.pc = "idle" /\ out = Old /\ tmp = NoFile
  BY CallerFrame
<1>3. Shape'
  BY <1>1 DEF TransferInv, Shape
<1>4. Phases'
  BY <1>1, <1>2 DEF Phases
<1>5. StreamInv'
  BY DEF TransferInv, StreamInv
<1>6. MapInv' /\ FaultInv'
  BY <1>1, <1>2 DEF MapInv, FaultInv
<1> QED
  BY <1>2, <1>3, <1>4, <1>5, <1>6 DEF TransferInv

\* An upload of a file begins.
LEMMA BeginFile ==
    ASSUME TransferInv, MaxChunkAssumption, NEW mode \in Modes, file_upload(mode)
    PROVE  TransferInv'
<1> USE DEF file_upload, UploadAt, downVars
<1>1. /\ upload.pc = "idle" /\ upload'.pc = "spilling" /\ upload'.mode # "memory"
      /\ upload' = [pc |-> upload'.pc, mode |-> upload'.mode, map |-> upload'.map]
  BY DEF TransferInv, Shape
<1>2. /\ stream'.pc = "open" /\ stream'.map = NoMap /\ stream'.processed = 0
      /\ stream'.read = stream.read /\ stream'.read_error = stream.read_error
      /\ stream' = [pc |-> stream'.pc, read |-> stream'.read, processed |-> stream'.processed, rest |-> stream'.rest,
                    input_complete |-> stream'.input_complete, read_error |-> stream'.read_error,
                    item |-> stream'.item, map |-> stream'.map]
  BY DEF TransferInv, Shape, Phases
<1>3. DownInv' /\ down.pc = "idle" /\ out = Old /\ tmp = NoFile /\ UNCHANGED <<down, tmp, out>>
  BY <1>1, CallerFrame
<1>4. Shape'
  BY <1>1, <1>2 DEF TransferInv, Shape
<1>5. Phases'
  BY <1>1, <1>2, <1>3 DEF Phases
<1>6. StreamInv'
  <2>1. size' \in Nat
    BY DEF TransferInv, Shape
  <2>2. get_num_chunks(size') \in Nat
    BY <2>1, EnoughChunks
  <2> QED
    BY <1>2, <2>2 DEF StreamInv
<1>7. ~stream.read_error
  BY <1>1 DEF TransferInv, Phases
<1>8. MapInv' /\ FaultInv'
  BY <1>1, <1>2, <1>3, <1>7 DEF MapInv, FaultInv
<1> QED
  BY <1>3, <1>4, <1>5, <1>6, <1>8 DEF TransferInv

\* An upload of a file fails before its task is awaited.
LEMMA RefusedStep ==
    ASSUME TransferInv, MaxChunkAssumption, UploadRefused
    PROVE  TransferInv'
<1> USE DEF UploadRefused, UploadAt, downVars, Fail, Finish
<1>1. /\ upload.pc = "idle" /\ upload'.pc = "failed" /\ faulty' /\ ~spillDir'
      /\ upload' = [pc |-> upload'.pc, mode |-> upload'.mode, map |-> upload'.map]
  BY DEF TransferInv, Shape
<1>2. /\ stream'.pc \in {"off", "open"} /\ stream'.map = NoMap /\ stream'.processed = 0
      /\ stream'.read = stream.read
      /\ stream' = [pc |-> stream'.pc, read |-> stream'.read, processed |-> stream'.processed, rest |-> stream'.rest,
                    input_complete |-> stream'.input_complete, read_error |-> stream'.read_error,
                    item |-> stream'.item, map |-> stream'.map]
  BY DEF TransferInv, Shape, Phases
<1>3. DownInv' /\ down.pc = "idle" /\ out = Old /\ tmp = NoFile /\ UNCHANGED <<down, tmp, out>>
  BY <1>1, CallerFrame
<1>4. Shape'
  BY <1>1, <1>2 DEF TransferInv, Shape
<1>5. Phases'
  BY <1>1, <1>2, <1>3 DEF Phases
<1>6. StreamInv'
  <2>1. size' \in Nat
    BY DEF TransferInv, Shape
  <2>2. get_num_chunks(size') \in Nat
    BY <2>1, EnoughChunks
  <2> QED
    BY <1>2, <2>2 DEF StreamInv
<1>8. MapInv' /\ FaultInv'
  BY <1>1, <1>3 DEF MapInv, FaultInv
<1> QED
  BY <1>3, <1>4, <1>5, <1>6, <1>8 DEF TransferInv

\* An upload of data in memory begins.
LEMMA BeginData ==
    ASSUME TransferInv, MaxChunkAssumption, data_upload
    PROVE  TransferInv'
<1> USE DEF UploadAt, downVars, taskVars
<1>1. /\ upload.pc = "idle" /\ size' = file /\ UNCHANGED <<file, stream, down, tmp, out, faulty, spillDir>>
      /\ \/ get_num_chunks(file) < 3 /\ upload' = [upload EXCEPT !.pc = "failed"]
         \/ /\ ~(get_num_chunks(file) < 3)
            /\ upload' = [upload EXCEPT !.pc = "storing", !.mode = "memory", !.map = encrypt(Bytes(file)).map]
  BY DEF data_upload
<1>2. /\ upload' = [pc |-> upload'.pc, mode |-> upload'.mode, map |-> upload'.map]
      /\ \/ upload'.pc = "failed" /\ get_num_chunks(size') < 3
         \/ /\ upload'.pc = "storing" /\ upload'.mode = "memory"
            /\ ~(get_num_chunks(size') < 3) /\ upload'.map = encrypt(Bytes(size')).map
  BY <1>1 DEF TransferInv, Shape
<1>3. DownInv' /\ down.pc = "idle" /\ out = Old /\ tmp = NoFile
  BY <1>1, CallerFrame
<1>4. Shape'
  BY <1>1, <1>2 DEF TransferInv, Shape
<1>5. /\ stream.pc = "off" /\ stream.map = NoMap /\ stream.processed = 0 /\ ~spillDir
  BY <1>1 DEF TransferInv, Phases
<1>6. Phases'
  BY <1>1, <1>2, <1>3, <1>5 DEF Phases
<1>7. size' \in Nat /\ get_num_chunks(size') \in Nat
  BY <1>1, EnoughChunks DEF TransferInv, Shape
<1>8. StreamInv'
  BY <1>1, <1>5, <1>7 DEF StreamInv
<1>9. MapInv'
  <2> SUFFICES ASSUME upload'.pc = "storing"
               PROVE  /\ Good(upload'.map, Text(upload'.mode, size', stream'.read), Once(size'))
                      /\ Flat(upload'.map, size')
    BY <1>2 DEF MapInv
  <2>1. get_num_chunks(size') >= 3
    BY <1>2, <1>7
  <2>2. Good(encrypt(Bytes(size')).map, Bytes(size'), Once(size')) /\ Flat(encrypt(Bytes(size')).map, size')
    BY <1>7, <2>1, MemoryGood
  <2> QED
    BY <1>2, <2>2 DEF Text
<1>10. FaultInv'
  BY <1>1, <1>2, <1>3, <1>5 DEF FaultInv
<1> QED
  BY <1>3, <1>4, <1>6, <1>8, <1>9, <1>10 DEF TransferInv

\* A chunk is spilled.
LEMMA SpillStep ==
    ASSUME TransferInv, SpillChunk
    PROVE  TransferInv'
<1> USE DEF SpillChunk, UploadAt, downVars
<1>1. CASE Fail
  BY <1>1, FailStep
<1>2. CASE UNCHANGED <<upload, open, spillDir, faulty>>
  <2>1. UNCHANGED <<file, size, stream, down, tmp, out>>
    OBVIOUS
  <2> QED
    BY <1>2, <2>1 DEF TransferInv, Shape, Phases, StreamInv, MapInv, FaultInv, DownInv
<1> QED
  BY <1>1, <1>2

\* The task is awaited.
LEMMA AwaitStep ==
    ASSUME TransferInv, AwaitTask
    PROVE  TransferInv'
<1> USE DEF UploadAt, downVars, taskVars, TaskEnded
<1>1. /\ upload.pc = "spilling" /\ stream.pc \in {"ok", "failed", "off"}
      /\ UNCHANGED <<file, size, stream, down, tmp, out, faulty>>
  BY DEF AwaitTask
<1>2. DownInv' /\ down.pc = "idle" /\ out = Old /\ tmp = NoFile
  BY <1>1, CallerFrame
<1>3. StreamInv'
  BY <1>1 DEF TransferInv, StreamInv
<1>4. CASE stream.pc = "ok"
  <2>1. /\ upload'.pc \in {"quoting", "storing"} /\ upload'.map = stream.map /\ upload'.mode = upload.mode
        /\ upload' = [pc |-> upload'.pc, mode |-> upload'.mode, map |-> upload'.map]
        /\ UNCHANGED <<open, spillDir>>
    BY <1>4 DEF AwaitTask, TransferInv, Shape
  <2>2. Shape'
    BY <1>1, <2>1 DEF TransferInv, Shape
  <2>3. Phases'
    BY <1>1, <1>2, <1>4, <2>1 DEF Phases
  <2>4. MapInv'
    <3>1. Good(stream.map, Bytes(Least(size, stream.read)), Once(size)) /\ Flat(stream.map, size)
      BY <1>4 DEF TransferInv, StreamInv
    <3>2. upload.mode # "memory"
      BY <1>1 DEF TransferInv, Phases
    <3> QED
      BY <1>1, <2>1, <3>1, <3>2 DEF MapInv, Text
  <2>5. FaultInv'
    BY <1>1, <1>2, <2>1 DEF FaultInv
  <2> QED
    BY <1>2, <1>3, <2>2, <2>3, <2>4, <2>5 DEF TransferInv
<1>5. CASE stream.pc # "ok"
  <2>1. /\ upload'.pc = "failed" /\ ~spillDir'
        /\ upload' = [pc |-> upload'.pc, mode |-> upload'.mode, map |-> upload'.map]
    BY <1>5 DEF AwaitTask, Finish, TransferInv, Shape
  <2>2. Shape'
    BY <1>1, <2>1 DEF TransferInv, Shape
  <2>3. Phases'
    BY <1>1, <1>2, <2>1 DEF Phases
  <2>4. MapInv'
    BY <2>1 DEF MapInv
  <2>5. stream.pc = "failed"
    BY <1>1, <1>5 DEF TransferInv, Phases
  <2>6. FaultInv'
    BY <1>1, <1>2, <2>1, <2>5 DEF TransferInv, FaultInv
  <2> QED
    BY <1>2, <1>3, <2>2, <2>3, <2>4, <2>6 DEF TransferInv
<1> QED
  BY <1>4, <1>5

\* The rest of the upload keeps the map.
LEMMA CallerMoves ==
    ASSUME TransferInv, upload.pc \in {"quoting", "prepared", "storing"},
           UNCHANGED <<file, size, stream, down, tmp, out>>,
           NEW pc \in {"prepared", "storing", "ok"}, upload' = [upload EXCEPT !.pc = pc], faulty' = faulty,
           pc \in {"prepared", "ok"} => ~spillDir'
    PROVE  TransferInv'
<1>1. /\ upload'.pc = pc /\ upload'.map = upload.map /\ upload'.mode = upload.mode
      /\ upload' = [pc |-> upload'.pc, mode |-> upload'.mode, map |-> upload'.map]
  BY DEF TransferInv, Shape
<1>2. DownInv' /\ down.pc = "idle" /\ out = Old /\ tmp = NoFile
  BY CallerFrame
<1>3. Shape'
  BY <1>1 DEF TransferInv, Shape
<1>4. Phases'
  BY <1>1, <1>2 DEF TransferInv, Phases
<1>5. StreamInv' /\ MapInv'
  BY <1>1 DEF TransferInv, StreamInv, MapInv
<1>6. FaultInv'
  BY <1>1, <1>2 DEF FaultInv
<1> QED
  BY <1>2, <1>3, <1>4, <1>5, <1>6 DEF TransferInv

\* The chunks are stored.
LEMMA CallerKeeps ==
    ASSUME TransferInv,
           StoreWave \/ Stored \/ PrepareUpload \/ finalize_upload \/ CancelUpload
    PROVE  TransferInv'
<1> USE DEF UploadAt, downVars, taskVars
<1>1. CASE StoreWave
  <2>1. upload.pc = "storing" /\ UNCHANGED <<file, size, stream, down, tmp, out>>
    BY <1>1 DEF StoreWave
  <2>2. Fail \/ UNCHANGED <<open, upload, spillDir, faulty>>
    BY <1>1 DEF StoreWave
  <2>3. CASE Fail
    BY <2>1, <2>3, FailStep
  <2>4. CASE UNCHANGED <<open, upload, spillDir, faulty>>
    <3>1. upload' = [upload EXCEPT !.pc = "storing"]
      BY <2>1, <2>4 DEF TransferInv, Shape
    <3> QED
      BY <2>1, <2>4, <3>1, CallerMoves
  <2> QED
    BY <2>2, <2>3, <2>4
<1>2. CASE Stored
  BY <1>2, CallerMoves DEF Stored, Finish
<1>3. CASE PrepareUpload
  <2>1. upload.pc = "quoting" /\ UNCHANGED <<file, size, stream, down, tmp, out>>
    BY <1>3 DEF PrepareUpload
  <2>2. Fail \/ (upload' = [upload EXCEPT !.pc = "prepared"] /\ ~spillDir' /\ faulty' = faulty)
    BY <1>3 DEF PrepareUpload
  <2>3. CASE Fail
    BY <2>1, <2>3, FailStep
  <2> QED
    BY <2>1, <2>2, <2>3, CallerMoves
<1>4. CASE finalize_upload
  <2>1. upload.pc = "prepared" /\ UNCHANGED <<file, size, stream, down, tmp, out>>
    BY <1>4 DEF finalize_upload
  <2>2. Fail \/ (upload' = [upload EXCEPT !.pc = "storing"] /\ faulty' = faulty)
    BY <1>4 DEF finalize_upload
  <2>3. CASE Fail
    BY <2>1, <2>3, FailStep
  <2> QED
    BY <2>1, <2>2, <2>3, CallerMoves
<1>5. CASE CancelUpload
  BY <1>5, FailStep DEF CancelUpload
<1> QED
  BY <1>1, <1>2, <1>3, <1>4, <1>5

\* The file changes, or the process dies.
LEMMA WorldStep ==
    ASSUME TransferInv, TransferAssumption, FileChanges \/ Crash
    PROVE  TransferInv'
<1> USE DEF downVars, taskVars, callerVars
<1>1. CASE FileChanges
  <2>1. file' \in Nat /\ UNCHANGED <<size, stream, open, upload, spillDir, down, tmp, out, faulty>>
    BY <1>1 DEF FileChanges, TransferAssumption
  <2> QED
    BY <2>1 DEF TransferInv, Shape, Phases, StreamInv, MapInv, FaultInv, DownInv
<1>2. CASE Crash
  <2>1. /\ upload'.pc = "crashed" /\ upload'.mode = upload.mode
        /\ upload' = [pc |-> upload'.pc, mode |-> upload'.mode, map |-> upload'.map]
        /\ stream'.pc = "off" /\ stream'.map = stream.map /\ stream'.read = stream.read
        /\ stream'.processed = stream.processed /\ stream'.input_complete = stream.input_complete
        /\ stream' = [pc |-> stream'.pc, read |-> stream'.read, processed |-> stream'.processed, rest |-> stream'.rest,
                      input_complete |-> stream'.input_complete, read_error |-> stream'.read_error,
                      item |-> stream'.item, map |-> stream'.map]
        /\ down'.pc = "off"
        /\ down' = [pc |-> down'.pc, kind |-> down'.kind, map |-> down'.map, start |-> down'.start,
                    want |-> down'.want, got |-> down'.got, data |-> down'.data, count |-> down'.count]
        /\ UNCHANGED <<file, size, out, tmp, spillDir>> /\ faulty'
    BY <1>2 DEF Crash, TransferInv, Shape
  <2>2. Shape'
    BY <2>1 DEF TransferInv, Shape
  <2>3. Phases'
    BY <2>1 DEF Phases
  <2>4. StreamInv'
    BY <2>1 DEF TransferInv, StreamInv
  <2>5. MapInv' /\ FaultInv'
    BY <2>1 DEF MapInv, FaultInv
  <2>6. DownInv'
    BY <2>1 DEF TransferInv, DownInv
  <2> QED
    BY <2>2, <2>3, <2>4, <2>5, <2>6 DEF TransferInv
<1> QED
  BY <1>1, <1>2

IsDown(d) ==
    d = [pc |-> d.pc, kind |-> d.kind, map |-> d.map, start |-> d.start, want |-> d.want, got |-> d.got,
         data |-> d.data, count |-> d.count]

\* A download changes nothing of the upload.
LEMMA DownFrame ==
    ASSUME TransferInv, upload.pc = "ok", UNCHANGED <<file, stream, size, open, upload, spill, spillDir>>,
           IsDown(down'),
           down'.pc \in {"root", "create", "batch", "rename", "data", "ok", "failed", "refused"},
           down'.pc \notin {"batch", "rename"} => tmp' = NoFile,
           down'.pc \in {"root", "create", "batch", "rename", "data"} => (down'.kind = "file" <=> down'.pc # "data"),
           down'.pc = "failed" /\ ~faulty' => Excused(down'.kind, size)
    PROVE  Shape' /\ Phases' /\ StreamInv' /\ MapInv' /\ FaultInv'
<1>1. Shape'
  BY DEF TransferInv, Shape, IsDown
<1>2. Phases'
  BY DEF TransferInv, Phases
<1>3. StreamInv' /\ MapInv'
  BY DEF TransferInv, StreamInv, MapInv
<1>4. FaultInv'
  BY DEF FaultInv
<1> QED
  BY <1>1, <1>2, <1>3, <1>4

\* A download fails, or is refused.
LEMMA DownEnds ==
    ASSUME TransferInv, upload.pc = "ok", UNCHANGED <<file, stream, size, open, upload, spill, spillDir, out>>,
           NEW pc \in {"failed", "refused"}, down' = [down EXCEPT !.pc = pc], tmp' = NoFile,
           pc = "failed" /\ ~faulty' => Excused(down.kind, size)
    PROVE  TransferInv'
<1>1. IsDown(down') /\ down'.pc = pc /\ down'.kind = down.kind
  BY DEF TransferInv, Shape, IsDown
<1>2. Shape' /\ Phases' /\ StreamInv' /\ MapInv' /\ FaultInv'
  BY <1>1, DownFrame
<1>3. DownInv'
  BY <1>1 DEF TransferInv, DownInv
<1> QED
  BY <1>2, <1>3 DEF TransferInv

LEMMA DownFails ==
    ASSUME TransferInv, upload.pc = "ok", UNCHANGED <<file, stream, size, open, upload, spill, spillDir, out>>,
           down' = [down EXCEPT !.pc = "failed"], tmp' = NoFile,
           ~faulty' => Excused(down.kind, size)
    PROVE  TransferInv'
<1> DEFINE pc == "failed"
<1>1. pc \in {"failed", "refused"} /\ down' = [down EXCEPT !.pc = pc]
  OBVIOUS
<1> HIDE DEF pc
<1> QED
  BY <1>1, DownEnds

LEMMA DownRefused ==
    ASSUME TransferInv, upload.pc = "ok", UNCHANGED <<file, stream, size, open, upload, spill, spillDir, out>>,
           down' = [down EXCEPT !.pc = "refused"], tmp' = NoFile
    PROVE  TransferInv'
<1> DEFINE pc == "refused"
<1>1. pc \in {"failed", "refused"} /\ down' = [down EXCEPT !.pc = pc] /\ pc # "failed"
  OBVIOUS
<1> HIDE DEF pc
<1> QED
  BY <1>1, DownEnds

\* Only what was uploaded is downloaded.
LEMMA Running ==
    ASSUME TransferInv, down.pc \in {"root", "create", "batch", "rename", "data"}
    PROVE  upload.pc = "ok"
BY DEF TransferInv, Shape, Phases

\* A download that goes on with a map.
LEMMA FileDownIs ==
    ASSUME IsDown(down), NEW pc, NEW map
    PROVE  LET d == FileDown(pc, map)
           IN  /\ IsDown(d) /\ d.pc = pc /\ d.map = map /\ d.got = <<>> /\ d.start = 0 /\ d.kind = down.kind
               /\ d.want = IF pc = "batch" THEN BatchAt(map, 0, Batch) ELSE DOMAIN map.infos
               /\ d.count = down.count
<1> DEFINE w == IF pc = "batch" THEN BatchAt(map, 0, Batch) ELSE DOMAIN map.infos
           d == FileDown(pc, map)
<1>1. d = [down EXCEPT !.pc = pc, !.map = map, !.got = <<>>, !.start = 0, !.want = w]
  BY DEF FileDown, Indices
<1> HIDE DEF w, d
<1>2. /\ IsDown(d) /\ d.pc = pc /\ d.map = map /\ d.got = <<>> /\ d.start = 0 /\ d.kind = down.kind
      /\ d.want = w /\ d.count = down.count
  BY <1>1 DEF IsDown
<1> QED
  BY <1>2 DEF w, d

\* A data map is finite.
LEMMA LevelDomain ==
    ASSUME NEW m, NEW l, NEW C, Level(m, l, C)
    PROVE  IsFiniteSet(DOMAIN m.infos)
<1>1. PICK e, n : Opens(m, e, n, l, C)
  BY DEF Level
<1>2. n \in Nat /\ DOMAIN m.infos = 0 .. n - 1
  BY <1>1 DEF Opens, Marks
<1>3. IsFiniteSet(0 .. n - 1)
  BY <1>2, FS_Interval
<1> QED
  BY <1>2, <1>3

\* A download begins.
LEMMA StartStep ==
    ASSUME TransferInv, TransferAssumption, NEW kind \in Kinds, StartDownload(kind)
    PROVE  TransferInv'
<1> USE DEF UploadAt, callerVars, taskVars
<1> DEFINE pc == CASE kind \in {"data", "browser"} -> "data"
                   [] kind = "file" /\ is_child(upload.map) -> "root"
                   [] OTHER -> "create"
           d == FileDown(pc, upload.map)
           C == Text(upload.mode, size, stream.read)
<1>1. /\ upload.pc = "ok" /\ down.pc \in {"idle", "ok", "failed", "refused"}
      /\ UNCHANGED <<file, stream, size, open, upload, spill, spillDir, tmp, out>>
      /\ down' = [d EXCEPT !.kind = kind, !.count = @ + 1, !.data = NoFile]
  BY DEF StartDownload
<1>2. kind \in {"file", "data", "browser"}
  BY DEF TransferAssumption
<1>3. IsDown(down)
  BY DEF TransferInv, Shape, IsDown
<1>4. pc \in {"data", "root", "create"} /\ (pc = "root" <=> kind = "file" /\ is_child(upload.map)) /\ (kind = "file" <=> pc # "data")
      /\ (pc = "create" => ~is_child(upload.map))
  BY <1>2
<1> HIDE DEF pc
<1>5. IsDown(d) /\ d.pc = pc /\ d.map = upload.map /\ d.got = <<>> /\ d.want = DOMAIN upload.map.infos
  BY <1>3, <1>4, FileDownIs
<1> HIDE DEF d
<1>6. /\ IsDown(down') /\ down'.pc = pc /\ down'.map = upload.map /\ down'.got = <<>>
      /\ down'.want = DOMAIN upload.map.infos /\ down'.kind = kind
  BY <1>1, <1>5 DEF IsDown
<1>7. tmp = NoFile
  BY <1>1 DEF TransferInv, Phases
<1>8. Shape' /\ Phases' /\ StreamInv' /\ MapInv' /\ FaultInv'
  BY <1>1, <1>4, <1>6, <1>7, DownFrame
<1>9. Good(upload.map, C, Once(size))
  BY <1>1 DEF TransferInv, MapInv
<1>10. pc = "root" => upload.map.child = 1 /\ Over(upload.map, C, Once(size)) /\ Fetching(down', DOMAIN down'.map.infos)
  <2> SUFFICES ASSUME pc = "root"
               PROVE  upload.map.child = 1 /\ Over(upload.map, C, Once(size)) /\ Fetching(down', DOMAIN down'.map.infos)
    OBVIOUS
  <2>1. upload.map.child > 0
    BY <1>4 DEF is_child
  <2>2. upload.map.child = 1 /\ Over(upload.map, C, Once(size))
    BY <1>9, <2>1 DEF Good
  <2>3. IsFiniteSet(DOMAIN upload.map.infos)
    BY <2>2, LevelDomain DEF Over
  <2>4. Fetching(down', DOMAIN down'.map.infos)
    BY <1>6, <2>3, FetchStart
  <2> QED
    BY <2>2, <2>4
<1>11. pc = "create" => Inner(upload.map, C, Once(size))
  BY <1>4, <1>9 DEF Good, is_child, Inner
<1>12. Fetching(down', DOMAIN down'.map.infos)
  <2>1. IsFiniteSet(DOMAIN upload.map.infos)
    BY <1>9, LevelDomain DEF Good, Over
  <2> QED
    BY <1>6, <2>1, FetchStart
<1>13. DownInv'
  <2>1. C' = C
    BY <1>1
  <2> HIDE DEF C
  <2>2. out = Old \/ out = C
    BY DEF TransferInv, DownInv, C
  <2> QED
    BY <1>1, <1>4, <1>6, <1>10, <1>11, <1>12, <2>2 DEF DownInv, C
<1> QED
  BY <1>8, <1>13 DEF TransferInv

\* chunk_get that gives nothing means that no peer that can be reached has the chunk.
LEMMA NoAnswer ==
    ASSUME TransferAssumption, NEW chunk, NEW answers \in Answers(chunk), chunk_get(answers) \notin {"has", "error"}
    PROVE  "has" \notin Entries(answers)
<1>1. PICK k \in Nat : DOMAIN answers = 1 .. k /\ Len(answers) = k
  <2> DEFINE k == IF down.kind = "browser" THEN 1 ELSE Peers
  <2>1. k \in Nat
    BY DEF TransferAssumption
  <2>2. PICK A : answers \in [1 .. k -> A]
    BY DEF Answers
  <2> HIDE DEF k
  <2>3. Len(answers) = k
    BY <2>1, <2>2
  <2> QED
    BY <2>1, <2>2, <2>3
<1>2. Entries(answers) = {answers[p] : p \in 1 .. k}
  BY <1>1 DEF Entries
<1> DEFINE final == {p \in 1 .. k : answers[p] \in {"has", "error"}}
           first == CHOOSE p \in final : \A q \in final : p <= q
<1>3. CASE final = {}
  BY <1>2, <1>3
<1>4. CASE final # {}
  <2>1. \E p \in final : \A q \in final : p <= q
    <3>0. final \subseteq Nat
      OBVIOUS
    <3> HIDE DEF final
    <3>1. PICK x \in final : \A y \in final : ~(<<y, x>> \in OpToRel(<, Nat))
      BY <1>4, <3>0, WFMin, NatLessThanWellFounded
    <3>2. \A y \in final : ~(y < x)
      BY <3>0, <3>1 DEF OpToRel
    <3>3. \A y \in final : x <= y
      BY <3>0, <3>2
    <3> QED
      BY <3>3
  <2>2. first \in final
    BY <2>1
  <2>3. chunk_get(answers) = answers[first]
    BY <1>1, <1>4 DEF chunk_get
  <2> HIDE DEF first
  <2> QED
    BY <2>2, <2>3
<1> QED
  BY <1>3, <1>4

\* A chunk comes, or does not.
LEMMA FetchStep ==
    ASSUME TransferInv, TransferAssumption, NEW i \in down.want, FetchDone(i)
    PROVE  TransferInv'
<1> USE DEF callerVars, taskVars
<1> DEFINE chunk == down.map.infos[i].dst
           got == [down EXCEPT !.want = @ \ {i}, !.got = Append(@, <<i, chunk>>)]
           C == Text(upload.mode, size, stream.read)
<1>1. /\ down.pc \in {"root", "batch", "data"}
      /\ UNCHANGED <<file, stream, size, open, upload, spill, spillDir, out>>
  BY DEF FetchDone
<1>2. \/ down' = got /\ UNCHANGED tmp
      \/ down' = [down EXCEPT !.pc = "failed"] /\ tmp' = NoFile /\ faulty'
      \/ down' = [down EXCEPT !.pc = "refused"] /\ tmp' = NoFile
  <2>1. CASE chunk \in Entries(cache)
    BY <2>1 DEF FetchDone
  <2>2. CASE chunk \notin Entries(cache)
    <3>1. PICK answers \in Answers(chunk) :
            /\ faulty' = (faulty \/ "has" \notin Entries(answers))
            /\ IF chunk_get(answers) = "has" THEN down' = got /\ UNCHANGED tmp
               ELSE /\ down' = [down EXCEPT !.pc = IF chunk_get(answers) = "error" THEN "refused" ELSE "failed"]
                    /\ tmp' = NoFile
      BY <2>2 DEF FetchDone
    <3>2. CASE chunk_get(answers) \in {"has", "error"}
      BY <3>1, <3>2
    <3>3. CASE chunk_get(answers) \notin {"has", "error"}
      <4>1. "has" \notin Entries(answers)
        BY <3>3, NoAnswer
      <4>2. faulty'
        BY <3>1, <4>1
      <4> QED
        BY <3>1, <3>3, <4>2
    <3> QED
      BY <3>2, <3>3
  <2> QED
    BY <2>1, <2>2
<1>3. upload.pc = "ok"
  BY <1>1, Running
<1>4. CASE down' = [down EXCEPT !.pc = "failed"] /\ tmp' = NoFile /\ faulty'
  BY <1>1, <1>3, <1>4, DownFails
<1>6. CASE down' = [down EXCEPT !.pc = "refused"] /\ tmp' = NoFile
  BY <1>1, <1>3, <1>6, DownRefused
<1>5. CASE down' = got /\ UNCHANGED tmp
  <2>0. IsDown(down)
    BY DEF TransferInv, Shape, IsDown
  <2>1. /\ IsDown(down') /\ down'.pc = down.pc /\ down'.map = down.map /\ down'.kind = down.kind
        /\ down'.start = down.start /\ down'.want = down.want \ {i}
        /\ down'.got = Append(down.got, Pair(down.map.infos, i))
    BY <1>5, <2>0 DEF IsDown, Pair
  <2>2. down.kind = "file" <=> down.pc # "data"
    BY <1>1 DEF TransferInv, Phases
  <2>3. down.pc # "batch" => tmp = NoFile
    BY <1>1 DEF TransferInv, Phases
  <2>4. Shape' /\ Phases' /\ StreamInv' /\ MapInv' /\ FaultInv'
    BY <1>1, <1>3, <1>5, <2>1, <2>2, <2>3, DownFrame
  <2>5. \A W : Fetching(down, W) => Fetching(down', W)
    BY <2>1, FetchMore
  <2>6. Writing(down, tmp, C, Once(size)) => Writing(down', tmp, C, Once(size))
    <3> HIDE DEF C
    <3> SUFFICES ASSUME Writing(down, tmp, C, Once(size)) PROVE Writing(down', tmp, C, Once(size))
      OBVIOUS
    <3>1. PICK e, n : /\ down.start \in 0 .. n - 1
                 /\ Fetching(down, down.start .. (Least(down.start + Batch, n) - 1))
                 /\ \/ Opens(down.map, e, n, 0, C) /\ tmp = Piece(C, 0, e[down.start])
                    \/ ~Once(size) /\ down.start = 0 /\ \E D : Opens(down.map, e, n, 1, D)
      BY DEF Writing
    <3>2. Fetching(down', down'.start .. (Least(down'.start + Batch, n) - 1))
      BY <2>1, <2>5, <3>1
    <3>3. down.map.child = 0
      BY DEF Writing
    <3> QED
      BY <2>1, <3>1, <3>2, <3>3 DEF Writing
  <2>7. DownInv'
    <3>1. C' = C
      BY <1>1
    <3> QED
      BY <1>1, <1>5, <2>1, <2>5, <2>6, <3>1 DEF TransferInv, DownInv
  <2> QED
    BY <2>4, <2>7 DEF TransferInv
<1> QED
  BY <1>2, <1>4, <1>5, <1>6

\* What is uploaded is data.
LEMMA TextData ==
    ASSUME TransferInv
    PROVE  Data(Text(upload.mode, size, stream.read))
<1>1. size \in Nat /\ stream.read \in Nat
  BY DEF TransferInv, Shape
<1>2. Least(size, stream.read) \in Nat
  BY <1>1 DEF Least
<1> QED
  BY <1>1, <1>2, BytesData DEF Text

\* The chunks of a child map have come.
LEMMA RootStep ==
    ASSUME TransferInv, RootFetched
    PROVE  TransferInv'
<1> USE DEF callerVars, taskVars
<1> DEFINE C == Text(upload.mode, size, stream.read)
           once == Once(size)
           m == down.map
           data == decrypt_full_set(m, Fetched)
           map == IF data = Failed THEN NoMap ELSE from_bytes(data)
<1>1. /\ down.pc = "root" /\ down.want = {}
      /\ UNCHANGED <<file, stream, size, open, upload, spill, spillDir, tmp, out, faulty>>
      /\ down' = CASE map.child < 0 -> [down EXCEPT !.pc = "failed"]
                   [] map.child >= 0 /\ is_child(map) -> FileDown("root", map)
                   [] OTHER -> FileDown("create", map)
  BY DEF RootFetched
<1>2. m.child = 1 /\ Over(m, C, once) /\ Fetching(down, DOMAIN m.infos)
  BY <1>1 DEF TransferInv, DownInv
<1>3. upload.pc = "ok" /\ tmp = NoFile
  BY <1>1, Running DEF TransferInv, Phases
<1>4. PICK p : Inner(p, C, once) /\ Level(m, 1, to_bytes(p))
  BY <1>2 DEF Over
<1>5. PICK e, n : Opens(m, e, n, 1, to_bytes(p))
  BY <1>4 DEF Level
<1>6. /\ Data(to_bytes(p)) /\ to_bytes(p) # Failed
      /\ from_bytes(to_bytes(p)) = p
  BY <1>4, LevelLen DEF Inner
<1>7. DOMAIN m.infos = 0 .. n - 1
  BY <1>5 DEF Opens
<1>8. ASSUME NEW i \in 0 .. n - 1 PROVE m.infos[i].dst \in Fetched
  <2>1. PICK k \in 1 .. Len(down.got) : down.got[k] = Pair(m.infos, i)
    BY <1>1, <1>2, <1>7 DEF Fetching
  <2>2. down.got[k][2] = m.infos[i].dst
    BY <2>1 DEF Pair
  <2> QED
    BY <2>1, <2>2 DEF Fetched
<1>9. data = to_bytes(p)
  BY <1>2, <1>5, <1>6, <1>8, FullSet
<1>10. map = p /\ p.child = 0
  BY <1>4, <1>6, <1>9 DEF Inner
<1> HIDE DEF map, data
<1>11. down' = FileDown("create", p)
  BY <1>1, <1>10 DEF is_child
<1>12. IsDown(down)
  BY DEF TransferInv, Shape, IsDown
<1>13. IsDown(down') /\ down'.pc = "create" /\ down'.map = p /\ down'.kind = "file"
  <2>1. down.kind = "file"
    BY <1>1 DEF TransferInv, Phases
  <2> QED
    BY <1>11, <1>12, <2>1, FileDownIs
<1>14. Shape' /\ Phases' /\ StreamInv' /\ MapInv' /\ FaultInv'
  BY <1>1, <1>3, <1>13, DownFrame
<1>15. DownInv'
  <2>1. out = Old \/ out = C
    BY DEF TransferInv, DownInv
  <2> QED
    BY <1>1, <1>4, <1>13, <2>1 DEF DownInv
<1> QED
  BY <1>14, <1>15 DEF TransferInv

\* The temporary file is created.
LEMMA CreateStep ==
    ASSUME TransferInv, TransferAssumption, CreateTemp
    PROVE  TransferInv'
<1> USE DEF callerVars, taskVars
<1> DEFINE C == Text(upload.mode, size, stream.read)
           once == Once(size)
           m == down.map
<1>1. /\ down.pc = "create"
      /\ UNCHANGED <<file, stream, size, open, upload, spill, spillDir, out>>
      /\ \/ tmp' = <<>> /\ down' = FileDown("batch", m)
         \/ down' = [down EXCEPT !.pc = "failed"] /\ faulty' /\ tmp' = tmp
  BY DEF CreateTemp
<1>2. upload.pc = "ok" /\ tmp = NoFile
  BY <1>1, Running DEF TransferInv, Phases
<1>3. CASE down' = [down EXCEPT !.pc = "failed"] /\ faulty' /\ tmp' = tmp
  BY <1>1, <1>2, <1>3, DownFails
<1>4. CASE tmp' = <<>> /\ down' = FileDown("batch", m)
  <2>1. Inner(m, C, once)
    BY <1>1 DEF TransferInv, DownInv
  <2>2. IsDown(down)
    BY DEF TransferInv, Shape, IsDown
  <2>3. /\ IsDown(down') /\ down'.pc = "batch" /\ down'.map = m /\ down'.got = <<>> /\ down'.start = 0
        /\ down'.want = BatchAt(m, 0, Batch) /\ down'.kind = "file"
    <3>1. down.kind = "file"
      BY <1>1 DEF TransferInv, Phases
    <3> QED
      BY <1>4, <2>2, <3>1, FileDownIs
  <2>4. Shape' /\ Phases' /\ StreamInv' /\ MapInv' /\ FaultInv'
    BY <1>1, <1>2, <2>3, DownFrame
  <2>5. PICK l, D, e, n : /\ l \in {0, 1} /\ Opens(m, e, n, l, D)
                          /\ \/ l = 0 /\ D = C
                             \/ l = 1 /\ ~once
    <3> HIDE DEF C, once, m
    <3> QED
      BY <2>1 DEF Inner, Level
  <2>6. n \in Nat /\ n >= 1 /\ DOMAIN m.infos = 0 .. n - 1 /\ e[0] = 0
    BY <2>5 DEF Opens, Marks
  <2>7. MapLen(m) = n
    BY <2>6, MapLength
  <2> DEFINE W == 0 .. (Least(0 + Batch, n) - 1)
  <2>8. BatchAt(m, 0, Batch) = W
    BY <2>7 DEF BatchAt
  <2>9. IsFiniteSet(W)
    <3>1. Least(0 + Batch, n) - 1 \in Int
      BY <2>6 DEF Least, TransferAssumption
    <3> QED
      BY <3>1, FS_Interval
  <2> HIDE DEF W
  <2>10. Fetching(down', W)
    BY <2>3, <2>8, <2>9, FetchStart
  <2>11. tmp' = Piece(C, 0, e[0])
    <3>1. SubSeq(C, 0 + 1, 0) = <<>>
      BY SubSeqEmpty
    <3> QED
      BY <1>4, <2>6, <3>1 DEF Piece
  <2>12. Writing(down', tmp', C, once)
    <3>1. down'.start \in 0 .. n - 1
      BY <2>3, <2>6
    <3>2. Fetching(down', down'.start .. (Least(down'.start + Batch, n) - 1))
      BY <2>3, <2>10 DEF W
    <3>3. down'.map.child = 0
      BY <2>1, <2>3 DEF Inner
    <3>4. \/ Opens(down'.map, e, n, 0, C) /\ tmp' = Piece(C, 0, e[down'.start])
          \/ ~once /\ down'.start = 0 /\ \E E : Opens(down'.map, e, n, 1, E)
      BY <2>3, <2>5, <2>11
    <3> QED
      BY <3>1, <3>2, <3>3, <3>4 DEF Writing
  <2>13. DownInv'
    <3>1. out = Old \/ out = C
      BY DEF TransferInv, DownInv
    <3> QED
      BY <1>1, <2>3, <2>12, <3>1 DEF DownInv
  <2> QED
    BY <2>4, <2>13 DEF TransferInv
<1> QED
  BY <1>1, <1>3, <1>4

\* A batch is written.
LEMMA WriteStep ==
    ASSUME TransferInv, TransferAssumption, WriteBatch
    PROVE  TransferInv'
<1> USE DEF callerVars, taskVars
<1> DEFINE C == Text(upload.mode, size, stream.read)
           once == Once(size)
           m == down.map
           a == down.start
           data == DecryptBatch(m, a, down.got)
<1>1. /\ down.pc = "batch" /\ down.want = {}
      /\ UNCHANGED <<file, stream, size, open, upload, spill, spillDir, out>>
      /\ \/ /\ data # Failed /\ tmp' = tmp \o data
            /\ down' = IF a + Batch < MapLen(m)
                       THEN [down EXCEPT !.start = a + Batch, !.got = <<>>, !.want = BatchAt(m, a + Batch, Batch)]
                       ELSE [down EXCEPT !.pc = "rename", !.got = <<>>]
         \/ /\ tmp' = NoFile /\ down' = [down EXCEPT !.pc = "failed"]
            /\ faulty' = (faulty \/ data # Failed)
  BY DEF WriteBatch
<1>2. upload.pc = "ok"
  BY <1>1, Running
<1>3. Writing(down, tmp, C, once)
  BY <1>1 DEF TransferInv, DownInv
<1>4. Data(C)
  BY TextData
<1>5. IsDown(down)
  BY DEF TransferInv, Shape, IsDown
<1>6. (out = Old \/ out = C) /\ down.kind = "file"
  BY <1>1 DEF TransferInv, DownInv, Phases
<1>7. C' = C /\ once' = once
  BY <1>1
<1> HIDE DEF C, once
<1>8. PICK e, n : /\ a \in 0 .. n - 1
                  /\ Fetching(down, a .. (Least(a + Batch, n) - 1))
                  /\ \/ Opens(m, e, n, 0, C) /\ tmp = Piece(C, 0, e[a])
                     \/ ~once /\ a = 0 /\ \E D : Opens(m, e, n, 1, D)
  BY <1>3 DEF Writing
<1>9. n \in Nat /\ DOMAIN m.infos = 0 .. n - 1
  BY <1>8 DEF Opens, Marks
<1>10. MapLen(m) = n /\ m.child = 0
  BY <1>3, <1>9, MapLength DEF Writing
<1>11. PICK b \in Nat : b >= 1 /\ a + b <= n /\ a + b = Least(a + Batch, n) /\ (a + Batch < n => b = Batch) /\ (~(a + Batch < n) => a + b = n)
  <2>1. a \in Nat /\ Batch \in Nat /\ Batch >= 1 /\ a < n
    BY <1>8, <1>9 DEF TransferAssumption
  <2>2. CASE a + Batch < n
    <3>1. Least(a + Batch, n) = a + Batch
      BY <2>2 DEF Least
    <3> DEFINE b == Batch
    <3>2. b \in Nat /\ b = Batch
      BY <2>1
    <3> HIDE DEF b
    <3>3. b >= 1 /\ a + b <= n /\ a + b = Least(a + Batch, n) /\ (a + Batch < n => b = Batch) /\ (~(a + Batch < n) => a + b = n)
      BY <1>9, <2>1, <2>2, <3>1, <3>2
    <3> QED
      BY <3>2, <3>3
  <2>3. CASE ~(a + Batch < n)
    <3>1. Least(a + Batch, n) = n
      BY <2>3 DEF Least
    <3> DEFINE b == n - a
    <3>2. b \in Nat /\ b >= 1 /\ a + b = n
      BY <1>9, <2>1
    <3> HIDE DEF b
    <3>3. b >= 1 /\ a + b <= n /\ a + b = Least(a + Batch, n) /\ (a + Batch < n => b = Batch) /\ (~(a + Batch < n) => a + b = n)
      BY <1>9, <2>1, <2>3, <3>1, <3>2
    <3> QED
      BY <3>2, <3>3
  <2> QED
    BY <2>2, <2>3
<1>12. a \in Nat /\ a .. (Least(a + Batch, n) - 1) = a .. a + b - 1
  BY <1>8, <1>9, <1>11
<1>13. Complete(down.got, a, b, m.infos)
  <2>1. Fetching(down, a .. a + b - 1)
    BY <1>8, <1>12
  <2> QED
    BY <1>1, <1>12, <2>1, FetchAll
<1> HIDE DEF m, a
<1>14. CASE ~once /\ \E D : Opens(m, e, n, 1, D)
  <2>1. PICK D : Opens(m, e, n, 1, D)
    BY <1>14
  <2>3. data = Failed
    BY <1>10, <1>11, <1>12, <1>13, <1>9, <2>1, BatchFails
  <2>4. tmp' = NoFile /\ down' = [down EXCEPT !.pc = "failed"]
    BY <1>1, <2>3
  <2>5. Excused(down.kind, size)
    BY <1>6, <1>14 DEF Excused, once
  <2> QED
    BY <1>1, <1>2, <2>4, <2>5, DownFails
<1>15. CASE Opens(m, e, n, 0, C) /\ tmp = Piece(C, 0, e[a])
  <2>1. data = Piece(C, e[a], e[a + b])
    BY <1>4, <1>9, <1>10, <1>11, <1>12, <1>13, <1>15, BatchOpens
  <2>2. PICK T : C \in Seq(T) /\ <<"failed", 0>> \notin T
    BY <1>4 DEF Data
  <2>3. PICK u, v \in 0 .. Len(C) : u = e[a] /\ v = e[a + b] /\ u <= v /\ (a + b = n => v = Len(C)) /\ Len(C) \in Nat
    <3>1. a \in 0 .. n /\ a + b \in 0 .. n /\ a <= a + b
      BY <1>9, <1>11, <1>12
    <3> QED
      BY <1>15, <2>2, <3>1 DEF Opens, Marks
  <2>4. tmp \o data = Piece(C, 0, v)
    <3>1. 0 + 1 = 1 /\ 1 \in 1 .. Len(C) + 1 /\ u \in 1 - 1 .. Len(C) /\ v \in u .. Len(C)
      BY <2>3
    <3>2. SubSeq(C, 1, u) \o SubSeq(C, u + 1, v) = SubSeq(C, 1, v)
      BY <2>2, <3>1, ConcatAdjacentSubSeq
    <3> QED
      BY <1>15, <2>1, <2>3, <3>1, <3>2 DEF Piece
  <2>5. CASE tmp' = NoFile /\ down' = [down EXCEPT !.pc = "failed"] /\ faulty' = (faulty \/ data # Failed)
    <3>1. data # Failed
      <4> SUFFICES ASSUME Piece(C, u, v) = << <<"failed", 0>> >> PROVE FALSE
        BY <2>1, <2>3 DEF Failed
      <4>1. u \in Int /\ v \in Int /\ u + 1 \in Int /\ \A k \in u + 1 .. v : C[k] \in T
        BY <2>2, <2>3
      <4>2. Piece(C, u, v) \in Seq(T)
        BY <4>1, SubSeqProperties DEF Piece
      <4>3. << <<"failed", 0>> >> \in Seq(T)
        BY <4>2
      <4>4. << <<"failed", 0>> >>[1] \in T
        <5>1. Len(<< <<"failed", 0>> >>) = 1
          OBVIOUS
        <5> QED
          BY <4>3, <5>1, ElementOfSeq
      <4> QED
        BY <2>2, <4>4
    <3>2. faulty'
      BY <2>5, <3>1
    <3> QED
      BY <1>1, <1>2, <2>5, <3>2, DownFails
  <2>6. CASE /\ tmp' = tmp \o data
             /\ down' = IF a + Batch < MapLen(m)
                       THEN [down EXCEPT !.start = a + Batch, !.got = <<>>, !.want = BatchAt(m, a + Batch, Batch)]
                       ELSE [down EXCEPT !.pc = "rename", !.got = <<>>]
    <3>1. tmp' = Piece(C, 0, v)
      BY <2>4, <2>6
    <3>2. CASE a + Batch < n
      <4>1. down' = [down EXCEPT !.start = a + Batch, !.got = <<>>, !.want = BatchAt(m, a + Batch, Batch)]
        BY <1>10, <2>6, <3>2
      <4>2. /\ IsDown(down') /\ down'.pc = "batch" /\ down'.map = m /\ down'.got = <<>> /\ down'.start = a + Batch
            /\ down'.want = BatchAt(m, a + Batch, Batch) /\ down'.kind = "file"
        BY <1>1, <1>5, <1>6, <4>1 DEF IsDown, m
      <4>3. Shape' /\ Phases' /\ StreamInv' /\ MapInv' /\ FaultInv'
        BY <1>1, <1>2, <4>2, DownFrame
      <4>4. b = Batch /\ a + Batch \in 0 .. n - 1 /\ a + Batch \in Nat
        BY <1>9, <1>11, <1>12, <3>2
      <4> DEFINE W == (a + Batch) .. (Least((a + Batch) + Batch, n) - 1)
      <4>5. BatchAt(m, a + Batch, Batch) = W
        BY <1>10 DEF BatchAt
      <4>6. IsFiniteSet(W)
        <5>1. Least((a + Batch) + Batch, n) - 1 \in Int
          BY <1>9, <4>4 DEF Least, TransferAssumption
        <5> QED
          BY <4>4, <5>1, FS_Interval
      <4> HIDE DEF W
      <4>7. Fetching(down', W)
        BY <4>2, <4>5, <4>6, FetchStart
      <4>8. Writing(down', tmp', C, once)
        <5>1. Fetching(down', down'.start .. (Least(down'.start + Batch, n) - 1))
          BY <4>2, <4>7 DEF W
        <5>2. Opens(down'.map, e, n, 0, C) /\ tmp' = Piece(C, 0, e[down'.start]) /\ down'.start \in 0 .. n - 1
          BY <1>15, <2>3, <3>1, <4>2, <4>4
        <5> QED
          BY <1>10, <4>2, <5>1, <5>2 DEF Writing
      <4>9. DownInv'
        BY <1>1, <1>6, <1>7, <4>2, <4>8 DEF DownInv, C, once
      <4> QED
        BY <4>3, <4>9 DEF TransferInv
    <3>3. CASE ~(a + Batch < n)
      <4>1. down' = [down EXCEPT !.pc = "rename", !.got = <<>>]
        BY <1>10, <2>6, <3>3
      <4>2. IsDown(down') /\ down'.pc = "rename" /\ down'.kind = "file"
        BY <1>5, <1>6, <4>1 DEF IsDown
      <4>3. Shape' /\ Phases' /\ StreamInv' /\ MapInv' /\ FaultInv'
        BY <1>1, <1>2, <4>2, DownFrame
      <4>4. tmp' = C
        <5>1. v = Len(C)
          BY <1>11, <2>3, <3>3
        <5>2. SubSeq(C, 1, Len(C)) = C
          BY <2>2, SubSeqFull
        <5>3. 0 + 1 = 1
          OBVIOUS
        <5> QED
          BY <3>1, <5>1, <5>2, <5>3 DEF Piece
      <4>5. DownInv'
        BY <1>1, <1>6, <1>7, <4>2, <4>4 DEF DownInv, C, once
      <4> QED
        BY <4>3, <4>5 DEF TransferInv
    <3> QED
      BY <3>2, <3>3
  <2> QED
    BY <1>1, <2>5, <2>6
<1> QED
  BY <1>8, <1>14, <1>15 DEF m, a

\* All chunks of a map decrypt to its data.
LEMMA LevelDecrypts ==
    ASSUME NEW m, NEW l \in {0, 1}, NEW C, Level(m, l, C), Data(C), m.child = l, NEW chunks, Dsts(m) \subseteq chunks
    PROVE  decrypt_full_set(m, chunks) = C
<1>1. PICK e, n : Opens(m, e, n, l, C)
  BY DEF Level
<1>2. \A i \in 0 .. n - 1 : m.infos[i].dst \in chunks
  BY <1>1 DEF Dsts, Opens
<1>3. CASE l = 0
  <2>1. Opens(m, e, n, 0, C) /\ m.child = 0
    BY <1>1, <1>3
  <2> QED
    BY <1>2, <2>1, FullSet
<1>4. CASE l = 1
  <2>1. Opens(m, e, n, 1, C) /\ m.child = 1
    BY <1>1, <1>4
  <2> QED
    BY <1>2, <2>1, FullSet
<1> QED
  BY <1>3, <1>4

\* get_root_data_map goes from a map to its parent until there is none.
LEMMA RootMap ==
    ASSUME NEW m, NEW chunks, NEW p, ~is_child(p),
           m = p \/ (is_child(m) /\ Parent(m, chunks) = p)
    PROVE  get_root_data_map(m, chunks) = p
<1> DEFINE Eq(f) == f = [d \in Nat |-> IF d = 0 THEN m ELSE Parent(f[d - 1], chunks)]
           up == CHOOSE f : Eq(f)
<1>1. get_root_data_map(m, chunks) =
        IF \E d \in 0 .. MaxDepth : ~is_child(up[d])
        THEN up[CHOOSE d \in 0 .. MaxDepth : ~is_child(up[d])]
        ELSE NoMap
  BY DEF get_root_data_map
<1>2. \E f : Eq(f)
  <2>1. \A f, k : Turn(FALSE, chunks, f[k - 1]) = Parent(f[k - 1], chunks)
    BY DEF Turn
  <2>2. PICK f : Repeated(FALSE, chunks, m, f)
    BY Repeats
  <2>3. Eq(f)
    BY <2>1, <2>2 DEF Repeated
  <2> QED
    BY <2>3
<1>3. Eq(up)
  BY <1>2
<1> HIDE DEF up
<1>4. up[0] = m /\ \A k \in Nat : up[k + 1] = Parent(up[k], chunks)
  <2>1. ASSUME NEW k \in Nat PROVE up[k + 1] = Parent(up[k], chunks)
    <3>1. k + 1 \in Nat /\ k + 1 # 0 /\ (k + 1) - 1 = k
      OBVIOUS
    <3> QED
      BY <1>3, <3>1
  <2> QED
    BY <1>3, <2>1
<1> HIDE DEF Eq
<1>5. Parent(p, chunks) = p
  BY DEF Parent
<1>6. Parent(m, chunks) = p
  BY <1>5
<1>7. \A k \in Nat : up[k + 1] = p
  <2> DEFINE S == {k \in Nat : up[k + 1] = p}
  <2>1. 0 \in S
    <3>1. up[0 + 1] = p
      BY <1>4, <1>6
    <3> QED
      BY <3>1
  <2>2. ASSUME NEW k \in S PROVE k + 1 \in S
    <3>1. up[(k + 1) + 1] = Parent(up[k + 1], chunks)
      BY <1>4
    <3> QED
      BY <1>5, <3>1
  <2>3. S \in SUBSET Nat
    OBVIOUS
  <2> HIDE DEF S
  <2>4. S = Nat
    BY <2>1, <2>2, <2>3, Inductive
  <2> QED
    BY <2>4 DEF S
<1>8. \A d \in 0 .. MaxDepth : ~is_child(up[d]) => up[d] = p
  <2> SUFFICES ASSUME NEW d \in 0 .. 100, ~is_child(up[d]) PROVE up[d] = p
    BY DEF MaxDepth
  <2>1. CASE d = 0
    BY <1>4, <2>1
  <2>2. CASE d # 0
    <3>1. d - 1 \in Nat /\ (d - 1) + 1 = d
      BY <2>2
    <3> QED
      BY <1>7, <3>1
  <2> QED
    BY <2>1, <2>2
<1>9. 1 \in 0 .. MaxDepth /\ ~is_child(up[1])
  <2>1. up[0 + 1] = p
    BY <1>7
  <2> QED
    BY <2>1 DEF MaxDepth
<1> DEFINE d == CHOOSE d \in 0 .. MaxDepth : ~is_child(up[d])
<1>10. d \in 0 .. MaxDepth /\ ~is_child(up[d])
  BY <1>9
<1>11. get_root_data_map(m, chunks) = up[d]
  BY <1>1, <1>9
<1> HIDE DEF d
<1> QED
  BY <1>8, <1>10, <1>11

\* Data of three chunks is decrypted when they have come: its map is not shrunk.
LEMMA DataOpens ==
    ASSUME TransferInv, MaxChunkAssumption, down.pc = "data", down.want = {}, get_num_chunks(size) <= 3
    PROVE  decrypt(down.map, Fetched) # Failed
<1> DEFINE C == Text(upload.mode, size, stream.read)
           m == down.map
<1>1. m = upload.map /\ Fetching(down, DOMAIN m.infos)
  BY DEF TransferInv, DownInv
<1>2. upload.pc = "ok"
  BY Running
<1>3. m.child = 0 /\ Level(m, 0, C)
  <2>1. Good(upload.map, C, Once(size)) /\ upload.map.child = 0
    BY <1>2 DEF TransferInv, MapInv, Flat
  <2> QED
    BY <1>1, <2>1 DEF Good
<1>4. Data(C)
  BY TextData
<1>5. Dsts(m) \subseteq Fetched
  <2> SUFFICES ASSUME NEW i \in DOMAIN m.infos PROVE m.infos[i].dst \in Fetched
    BY DEF Dsts
  <2>1. PICK k \in 1 .. Len(down.got) : down.got[k] = Pair(m.infos, i)
    BY <1>1 DEF Fetching
  <2>2. down.got[k][2] = m.infos[i].dst
    BY <2>1 DEF Pair
  <2> QED
    BY <2>1, <2>2 DEF Fetched
<1>6. C # Failed
  <2> SUFFICES ASSUME C = << <<"failed", 0>> >> PROVE FALSE
    BY DEF Failed
  <2>1. PICK T : C \in Seq(T) /\ <<"failed", 0>> \notin T
    BY <1>4 DEF Data
  <2>2. << <<"failed", 0>> >> \in Seq(T)
    BY <2>1
  <2> HIDE DEF C
  <2>3. << <<"failed", 0>> >>[1] \in T
    <3>1. Len(<< <<"failed", 0>> >>) = 1
      OBVIOUS
    <3> QED
      BY <2>2, <3>1, ElementOfSeq
  <2> QED
    BY <2>1, <2>3
<1> HIDE DEF C, m
<1>7. ~is_child(m)
  BY <1>3 DEF is_child
<1>8. get_root_data_map(m, Fetched) = m
  BY <1>7, RootMap
<1>9. decrypt_full_set(m, Fetched) = C
  BY <1>3, <1>4, <1>5, LevelDecrypts
<1>10. decrypt(m, Fetched) = C
  BY <1>3, <1>8, <1>9 DEF decrypt
<1> QED
  BY <1>6, <1>10 DEF m

\* The temporary file is renamed, or the data is decrypted in memory.
LEMMA LastSteps ==
    ASSUME TransferInv, MaxChunkAssumption, RenameOutput \/ data_download
    PROVE  TransferInv'
<1> USE DEF callerVars, taskVars
<1> DEFINE C == Text(upload.mode, size, stream.read)
<1>0. IsDown(down)
  BY DEF TransferInv, Shape, IsDown
<1>1. UNCHANGED <<file, stream, size, open, upload, spill, spillDir>>
  BY DEF RenameOutput, data_download
<1>2. out = Old \/ out = C
  BY DEF TransferInv, DownInv
<1>3. CASE RenameOutput
  <2>1. upload.pc = "ok" /\ tmp = C
    BY <1>3, Running DEF RenameOutput, TransferInv, DownInv
  <2>2. CASE down' = [down EXCEPT !.pc = "failed"] /\ faulty' = TRUE /\ UNCHANGED out
    BY <1>1, <1>3, <2>1, <2>2, DownFails DEF RenameOutput
  <2>3. CASE out' = tmp /\ down' = [down EXCEPT !.pc = "ok", !.data = tmp]
    <3>1. IsDown(down') /\ down'.pc = "ok"
      BY <1>0, <2>3 DEF IsDown
    <3>2. tmp' = NoFile
      BY <1>3 DEF RenameOutput
    <3>3. Shape' /\ Phases' /\ StreamInv' /\ MapInv' /\ FaultInv'
      BY <1>1, <2>1, <3>1, <3>2, DownFrame
    <3>4. DownInv'
      BY <1>1, <2>1, <2>3, <3>1 DEF DownInv
    <3> QED
      BY <3>3, <3>4 DEF TransferInv
  <2> QED
    BY <1>3, <2>2, <2>3 DEF RenameOutput
<1>4. CASE data_download
  <2>1. upload.pc = "ok" /\ down.pc = "data" /\ down.kind # "file" /\ tmp = NoFile /\ UNCHANGED <<tmp, out>>
    BY <1>4, Running DEF data_download, TransferInv, Phases
  <2>2. PICK x : \/ down' = [down EXCEPT !.pc = "failed"] /\ decrypt(down.map, Fetched) = Failed
                 \/ down' = [down EXCEPT !.pc = "ok", !.data = x]
    BY <1>4 DEF data_download
  <2>3. CASE down' = [down EXCEPT !.pc = "failed"] /\ decrypt(down.map, Fetched) = Failed
    <3>1. ~(get_num_chunks(size) <= 3)
      BY <1>4, <2>1, <2>3, DataOpens DEF data_download
    <3>2. get_num_chunks(size) \in Nat
      BY EnoughChunks DEF TransferInv, Shape
    <3>3. Excused(down.kind, size)
      BY <2>1, <3>1, <3>2 DEF Excused
    <3> QED
      BY <1>1, <2>1, <2>3, <3>3, DownFails
  <2>4. CASE down' = [down EXCEPT !.pc = "ok", !.data = x]
    <3>1. IsDown(down') /\ down'.pc = "ok"
      BY <1>0, <2>4 DEF IsDown
    <3>3. Shape' /\ Phases' /\ StreamInv' /\ MapInv' /\ FaultInv'
      BY <1>1, <2>1, <3>1, DownFrame
    <3>4. DownInv'
      BY <1>1, <1>2, <2>1, <3>1 DEF DownInv
    <3> QED
      BY <3>3, <3>4 DEF TransferInv
  <2> QED
    BY <2>2, <2>3, <2>4
<1> QED
  BY <1>3, <1>4

\* Every step keeps the invariant.
LEMMA TransferStep ==
    ASSUME TransferAssumption, MaxChunkAssumption, TransferInv, [FileNext]_fileVars
    PROVE  TransferInv'
<1>1. CASE TaskStep
  BY <1>1, OpenStep, ReadStep, ProcessStep, SendStep, EndStep DEF TaskStep
<1>2. CASE CallerStep
  <2>1. CASE SpillChunk
    BY <2>1, SpillStep
  <2>2. CASE AwaitTask
    BY <2>2, AwaitStep
  <2>3. CASE StoreWave \/ Stored \/ PrepareUpload
    BY <2>3, CallerKeeps
  <2>4. CASE \E i \in down.want : FetchDone(i)
    BY <2>4, FetchStep
  <2>5. CASE RootFetched
    BY <2>5, RootStep
  <2>6. CASE CreateTemp
    BY <2>6, CreateStep
  <2>7. CASE WriteBatch
    BY <2>7, WriteStep
  <2>8. CASE RenameOutput \/ data_download
    BY <2>8, LastSteps
  <2> QED
    BY <1>2, <2>1, <2>2, <2>3, <2>4, <2>5, <2>6, <2>7, <2>8 DEF CallerStep
<1>3. CASE \E mode \in Modes : file_upload(mode)
  BY <1>3, BeginFile
<1>4. CASE UploadRefused
  BY <1>4, RefusedStep
<1>5. CASE data_upload
  BY <1>5, BeginData
<1>6. CASE finalize_upload \/ CancelUpload
  BY <1>6, CallerKeeps
<1>7. CASE \E kind \in Kinds : StartDownload(kind)
  BY <1>7, StartStep
<1>8. CASE FileChanges \/ Crash
  BY <1>8, WorldStep
<1>9. CASE UNCHANGED fileVars
  <2>1. /\ UNCHANGED <<file, size, stream, channel, open, upload, spill, spillDir, network>>
        /\ UNCHANGED <<down, cache, tmp, out, faulty>>
    BY <1>9 DEF fileVars
  <2>2. Shape' /\ Phases'
    BY <2>1 DEF TransferInv, Shape, Phases
  <2>3. StreamInv' /\ MapInv' /\ FaultInv'
    BY <2>1 DEF TransferInv, StreamInv, MapInv, FaultInv
  <2>4. DownInv'
    BY <2>1 DEF TransferInv, DownInv
  <2> QED
    BY <2>2, <2>3, <2>4 DEF TransferInv
<1> QED
  BY <1>1, <1>2, <1>3, <1>4, <1>5, <1>6, <1>7, <1>8, <1>9 DEF FileNext

\* So it always holds.
LEMMA TransferInvariant ==
    ASSUME TransferAssumption, MaxChunkAssumption
    PROVE  FileSpec => []TransferInv
<1>1. FileInit => TransferInv
  BY TransferInit
<1>2. TransferInv /\ [FileNext]_fileVars => TransferInv'
  BY TransferStep
<1> QED
  BY <1>1, <1>2, PTL DEF FileSpec

\* The output file of a download is the old one or all that was uploaded, in any
\* order of the answers, for any sizes of chunks and batches, whatever fails and
\* whenever the process dies (file_download).
THEOREM OutputTheorem == FileSpec => []OutputWhole
<1> USE TransferAssumption, MaxChunkAssumption
<1>1. TransferInv => OutputWhole
  BY DEF TransferInv, DownInv, Text, OutputWhole, Content
<1> QED
  BY <1>1, TransferInvariant, PTL

\* Uploads and downloads that end leave no spill directory and no temporary file
\* (Drop of ChunkSpill, the error paths of file_download).
THEOREM NothingLeftTheorem == FileSpec => []NothingLeft
<1> USE TransferAssumption, MaxChunkAssumption
<1>1. TransferInv => NothingLeft
  BY DEF TransferInv, Phases, NothingLeft
<1> QED
  BY <1>1, TransferInvariant, PTL

\* Without a fault, an upload fails only for a file that is too small or shrank, and
\* a file download only if its map was shrunk twice or a peer erred that was asked
\* before one that has the chunk: the map that the stream or encrypt has made can be
\* decrypted with the chunks the peers give, in any batches (chunk_get,
\* fetch_next_batch, get_root_data_map_parallel).  A download into memory fails
\* besides when its map was shrunk, and never for one of three chunks.
THEOREM FailsTheorem == FileSpec => []FailsOnlyOnFault
<1> USE TransferAssumption, MaxChunkAssumption
<1>1. TransferInv => FailsOnlyOnFault
  BY DEF TransferInv, FaultInv, Excused, Once, FailsOnlyOnFault, UploadAt, Total, ShrunkOnce
<1> QED
  BY <1>1, TransferInvariant, PTL

\* However the reads are cut, and whatever the file grows to, the stream ends with
\* the data map that encrypt computes in memory (EncryptionStream).
THEOREM StreamAgreesTheorem == FileSpec => StreamAgrees
<1> USE TransferAssumption, MaxChunkAssumption
<1>1. ASSUME TransferInv, StreamEnds, stream'.pc = "ok", stream.read >= size
      PROVE  stream.map = encrypt(Bytes(size)).map
  <2>1. stream.map # NoMap
    BY <1>1 DEF StreamEnds, TransferInv, Shape
  <2> QED
    BY <1>1, <2>1 DEF TransferInv, StreamInv
<1>2. TransferInv => [StreamEnds /\ stream'.pc = "ok" /\ stream.read >= size
                        => stream.map = encrypt(Bytes(size)).map]_fileVars
  BY <1>1
<1> QED
  BY <1>2, TransferInvariant, PTL DEF StreamAgrees
-----------------------------------------------------------------------------
(* Folds over sets                                                         *)

\* A fold takes the elements of a set one by one, and adds each to the fold of
\* the others: InSomeOrder appends it to a sequence, SumSizes adds its size in
\* the map m to a sum.
Pick(s) == CHOOSE x \in s : TRUE
Grown(sum, m, q, x) == IF sum THEN q + m.infos[x].size ELSE Append(q, x)
Added(sum, m, f, s) ==
    IF s = {} THEN IF sum THEN 0 ELSE <<>> ELSE Grown(sum, m, f[s \ {Pick(s)}], Pick(s))
Folding(sum, m, f, S) == f = [s \in SUBSET S |-> Added(sum, m, f, s)]

\* What is left to fold is smaller.
LEMMA PickSmaller ==
    ASSUME NEW S, IsFiniteSet(S), NEW s \in SUBSET S, s # {}
    PROVE  /\ Pick(s) \in s /\ s \ {Pick(s)} \in SUBSET S
           /\ Cardinality(s) \in Nat /\ Cardinality(s) >= 1
           /\ Cardinality(s \ {Pick(s)}) = Cardinality(s) - 1
<1>1. Pick(s) \in s
  BY DEF Pick
<1>2. IsFiniteSet(s)
  BY FS_Subset
<1>3. Cardinality(s) \in Nat /\ Cardinality(s \ {Pick(s)}) = Cardinality(s) - 1
  BY <1>1, <1>2, FS_CardinalityType, FS_RemoveElement
<1>4. Cardinality(s \ {Pick(s)}) \in Nat
  BY <1>2, FS_Subset, FS_CardinalityType
<1> QED
  BY <1>1, <1>3, <1>4

\* Such a function is there on the subsets of at most n elements.
LEMMA FoldingUpTo ==
    ASSUME NEW sum, NEW m, NEW S, IsFiniteSet(S)
    PROVE  \A n \in Nat : \E g : \A s \in SUBSET S : Cardinality(s) <= n => g[s] = Added(sum, m, g, s)
<1> DEFINE Upto(g, n) == \A s \in SUBSET S : Cardinality(s) <= n => g[s] = Added(sum, m, g, s)
           N == {n \in Nat : \E g : Upto(g, n)}
<1>0. \A s \in SUBSET S : Cardinality(s) \in Nat
  BY FS_Subset, FS_CardinalityType
<1>1. 0 \in N
  <2> DEFINE g == [s \in SUBSET S |-> IF sum THEN 0 ELSE <<>>]
  <2>1. ASSUME NEW s \in SUBSET S, Cardinality(s) <= 0 PROVE g[s] = Added(sum, m, g, s)
    <3>1. s = {}
      <4> SUFFICES ASSUME s # {} PROVE FALSE
        OBVIOUS
      <4>1. Cardinality(s) \in Nat /\ Cardinality(s) >= 1
        BY PickSmaller
      <4> QED
        BY <2>1, <4>1
    <3> QED
      BY <3>1 DEF Added
  <2> HIDE DEF g
  <2>2. Upto(g, 0)
    BY <2>1
  <2> QED
    BY <2>2
<1>2. ASSUME NEW n \in N PROVE n + 1 \in N
  <2>1. n \in Nat /\ \E g : Upto(g, n)
    OBVIOUS
  <2>2. PICK g : Upto(g, n)
    BY <2>1
  <2> DEFINE h == [s \in SUBSET S |-> IF Cardinality(s) <= n THEN g[s] ELSE Grown(sum, m, g[s \ {Pick(s)}], Pick(s))]
  <2>3. \A s \in SUBSET S : Cardinality(s) <= n => h[s] = g[s]
    OBVIOUS
  <2>4. \A s \in SUBSET S : ~(Cardinality(s) <= n) => h[s] = Grown(sum, m, g[s \ {Pick(s)}], Pick(s))
    OBVIOUS
  <2> HIDE DEF h
  <2>5. ASSUME NEW s \in SUBSET S, Cardinality(s) <= n + 1 PROVE h[s] = Added(sum, m, h, s)
    <3>1. CASE s = {}
      <4>1. Cardinality(s) <= n
        BY <2>1, <3>1, FS_EmptySet
      <4> QED
        BY <2>2, <2>3, <3>1, <4>1 DEF Added
    <3>2. CASE s # {}
      <4> DEFINE r == s \ {Pick(s)}
      <4>1. r \in SUBSET S /\ Cardinality(r) <= n
        BY <2>1, <2>5, <3>2, PickSmaller
      <4>2. h[r] = g[r]
        BY <2>3, <4>1
      <4>3. h[s] = Grown(sum, m, g[r], Pick(s))
        <5>1. CASE Cardinality(s) <= n
          <6>1. h[s] = g[s] /\ g[s] = Added(sum, m, g, s)
            BY <2>2, <2>3, <5>1
          <6> QED
            BY <3>2, <6>1 DEF Added
        <5>2. CASE ~(Cardinality(s) <= n)
          BY <2>4, <5>2
        <5> QED
          BY <5>1, <5>2
      <4> QED
        BY <3>2, <4>2, <4>3 DEF Added
    <3> QED
      BY <3>1, <3>2
  <2>6. Upto(h, n + 1)
    BY <2>5
  <2> HIDE DEF Upto
  <2>7. n + 1 \in Nat
    BY <2>1
  <2> QED
    BY <2>6, <2>7
<1>3. N \in SUBSET Nat
  OBVIOUS
<1> HIDE DEF N
<1>4. N = Nat
  BY <1>1, <1>2, <1>3, Inductive
<1> QED
  BY <1>4 DEF N

\* A finite set can be folded.
LEMMA FoldingExists ==
    ASSUME NEW sum, NEW m, NEW S, IsFiniteSet(S)
    PROVE  \E f : Folding(sum, m, f, S)
<1>1. Cardinality(S) \in Nat
  BY FS_CardinalityType
<1>2. PICK g : \A s \in SUBSET S : Cardinality(s) <= Cardinality(S) => g[s] = Added(sum, m, g, s)
  BY <1>1, FoldingUpTo
<1>3. \A s \in SUBSET S : Cardinality(s) <= Cardinality(S)
  BY FS_Subset
<1> DEFINE f == [s \in SUBSET S |-> g[s]]
<1>4. ASSUME NEW s \in SUBSET S PROVE f[s] = Added(sum, m, f, s)
  <2>1. g[s] = Added(sum, m, g, s)
    BY <1>2, <1>3
  <2> QED
    BY <2>1 DEF Added
<1>5. f = [s \in SUBSET S |-> f[s]]
  OBVIOUS
<1> HIDE DEF f
<1>6. Folding(sum, m, f, S)
  BY <1>4, <1>5 DEF Folding
<1> QED
  BY <1>6

\* Every element of a finite set comes up.
LEMMA SomeOrder ==
    ASSUME NEW S, IsFiniteSet(S)
    PROVE  InSomeOrder(S) \in Seq(S) /\ Entries(InSomeOrder(S)) = S
<1> DEFINE f == CHOOSE h : Folding(FALSE, S, h, S)
<1>1. InSomeOrder(S) = f[S]
  BY DEF InSomeOrder, FoldSet, MapThenFoldSet, Folding, Added, Grown, Pick
<1>2. Folding(FALSE, S, f, S)
  BY FoldingExists
<1> HIDE DEF f
<1>3. \A s \in SUBSET S : f[s] = Added(FALSE, S, f, s)
  BY <1>2 DEF Folding
<1> DEFINE Fine(s) == f[s] \in Seq(S) /\ Entries(f[s]) = s
           N == {n \in Nat : \A s \in SUBSET S : Cardinality(s) <= n => Fine(s)}
<1>4. 0 \in N
  <2>1. ASSUME NEW s \in SUBSET S, Cardinality(s) <= 0 PROVE Fine(s)
    <3>1. s = {}
      <4> SUFFICES ASSUME s # {} PROVE FALSE
        OBVIOUS
      <4>1. Cardinality(s) \in Nat /\ Cardinality(s) >= 1
        BY PickSmaller
      <4> QED
        BY <2>1, <4>1
    <3>2. f[s] = <<>>
      BY <1>3, <3>1 DEF Added, Grown
    <3> QED
      BY <3>1, <3>2 DEF Entries
  <2> QED
    BY <2>1
<1>5. ASSUME NEW n \in N PROVE n + 1 \in N
  <2>1. n \in Nat /\ \A s \in SUBSET S : Cardinality(s) <= n => Fine(s)
    OBVIOUS
  <2>2. ASSUME NEW s \in SUBSET S, Cardinality(s) <= n + 1 PROVE Fine(s)
    <3>1. CASE s = {}
      <4>1. Cardinality(s) <= n
        BY <2>1, <3>1, FS_EmptySet
      <4> QED
        BY <2>1, <4>1
    <3>2. CASE s # {}
      <4>1. PICK x \in s : x = Pick(s)
        BY <3>2, PickSmaller
      <4>2. PICK r \in SUBSET S : r = s \ {x} /\ Cardinality(r) <= n
        <5>1. s \ {x} \in SUBSET S /\ Cardinality(s) \in Nat /\ Cardinality(s \ {x}) = Cardinality(s) - 1
          BY <3>2, <4>1, PickSmaller
        <5>2. Cardinality(s \ {x}) <= n
          BY <2>1, <2>2, <5>1
        <5> QED
          BY <5>1, <5>2
      <4>3. f[r] \in Seq(S) /\ Entries(f[r]) = r
        BY <2>1, <4>2
      <4>4. f[s] = Append(f[r], x)
        BY <1>3, <3>2, <4>1, <4>2 DEF Added, Grown
      <4>5. PICK q \in Seq(S) : q = f[r]
        BY <4>3
      <4>6. /\ Append(q, x) \in Seq(S) /\ Len(Append(q, x)) = Len(q) + 1
            /\ \A j \in 1 .. Len(q) : Append(q, x)[j] = q[j]
            /\ Append(q, x)[Len(q) + 1] = x
        BY AppendProperties
      <4>7. Entries(Append(q, x)) = Entries(q) \cup {x}
        <5>1. Len(q) \in Nat
          OBVIOUS
        <5>2. 1 .. Len(q) + 1 = (1 .. Len(q)) \cup {Len(q) + 1}
          BY <5>1
        <5> QED
          BY <4>6, <5>2 DEF Entries
      <4> QED
        BY <4>2, <4>3, <4>4, <4>5, <4>6, <4>7
    <3> QED
      BY <3>1, <3>2
  <2>3. n + 1 \in Nat
    BY <2>1
  <2> HIDE DEF Fine
  <2> QED
    BY <2>2, <2>3
<1>6. N \in SUBSET Nat
  OBVIOUS
<1> HIDE DEF N
<1>7. N = Nat
  BY <1>4, <1>5, <1>6, Inductive
<1>8. Cardinality(S) \in N /\ Cardinality(S) <= Cardinality(S)
  BY <1>7, FS_CardinalityType
<1>9. S \in SUBSET S
  OBVIOUS
<1>10. Fine(S)
  <2> HIDE DEF Fine
  <2> QED
    BY <1>8, <1>9 DEF N
<1> QED
  BY <1>1, <1>10
-----------------------------------------------------------------------------
(* Which chunks have to be kept                                            *)

\* The chunks of which C can be had back with the map m are among these.
Kept(m, C, chunks) ==
    /\ Dsts(m) \subseteq chunks
    /\ \/ m.child = 0 /\ Level(m, 0, C)
       \/ /\ m.child = 1
          /\ \E p : /\ p.child = 0 /\ Level(p, 0, C) /\ Dsts(p) \subseteq chunks
                    /\ Level(m, 1, to_bytes(p))

\* More chunks do no harm.
LEMMA KeptMore ==
    ASSUME NEW m, NEW C, NEW chunks, NEW more, chunks \subseteq more, Kept(m, C, chunks)
    PROVE  Kept(m, C, more)
<1>1. Dsts(m) \subseteq more
  BY DEF Kept
<1>2. CASE m.child = 0 /\ Level(m, 0, C)
  BY <1>1, <1>2 DEF Kept
<1>3. CASE m.child = 1 /\ \E p : /\ p.child = 0 /\ Level(p, 0, C) /\ Dsts(p) \subseteq chunks
                                 /\ Level(m, 1, to_bytes(p))
  <2>1. PICK p : /\ p.child = 0 /\ Level(p, 0, C) /\ Dsts(p) \subseteq chunks
                 /\ Level(m, 1, to_bytes(p))
    BY <1>3
  <2>2. Dsts(p) \subseteq more
    BY <2>1
  <2> QED
    BY <1>1, <1>3, <2>1, <2>2 DEF Kept
<1> QED
  BY <1>2, <1>3 DEF Kept

\* The chunks of a map are finitely many.
LEMMA LevelFinite ==
    ASSUME NEW m, NEW l, NEW C, Level(m, l, C)
    PROVE  IsFiniteSet(Dsts(m))
<1> DEFINE S == DOMAIN m.infos
           f == [i \in S |-> m.infos[i].dst]
<1>1. IsFiniteSet(S)
  BY LevelDomain
<1>2. Dsts(m) = {f[i] : i \in S}
  BY DEF Dsts
<1>3. f \in Surjection(S, {f[i] : i \in S})
  BY DEF Surjection
<1> HIDE DEF f, S
<1>4. IsFiniteSet({f[i] : i \in S})
  BY <1>1, <1>3, FS_Surjection
<1> QED
  BY <1>2, <1>4

\* The root map of what is kept.
LEMMA KeptRoot ==
    ASSUME NEW m, NEW C, NEW chunks, Kept(m, C, chunks)
    PROVE  LET root == get_root_data_map(m, chunks)
           IN  root.child = 0 /\ Level(root, 0, C) /\ Dsts(root) \subseteq chunks
<1>1. CASE m.child = 0 /\ Level(m, 0, C)
  <2>1. ~is_child(m)
    BY <1>1 DEF is_child
  <2>2. get_root_data_map(m, chunks) = m
    BY <2>1, RootMap
  <2> QED
    BY <1>1, <2>2 DEF Kept
<1>2. CASE m.child = 1 /\ \E p : /\ p.child = 0 /\ Level(p, 0, C) /\ Dsts(p) \subseteq chunks
                                 /\ Level(m, 1, to_bytes(p))
  <2>1. PICK p : /\ p.child = 0 /\ Level(p, 0, C) /\ Dsts(p) \subseteq chunks
                 /\ Level(m, 1, to_bytes(p))
    BY <1>2
  <2> DEFINE D == to_bytes(p)
  <2>2. Data(D) /\ D # Failed /\ from_bytes(D) = p
    BY <2>1, LevelLen
  <2>3. Level(m, 1, D)
    BY <2>1
  <2> HIDE DEF D
  <2>4. decrypt_full_set(m, chunks) = D
    BY <1>2, <2>2, <2>3, LevelDecrypts DEF Kept
  <2>5. is_child(m) /\ ~is_child(p)
    BY <1>2, <2>1 DEF is_child
  <2>6. Parent(m, chunks) = p
    BY <2>2, <2>4, <2>5 DEF Parent
  <2>7. get_root_data_map(m, chunks) = p
    BY <2>5, <2>6, RootMap
  <2> QED
    BY <2>1, <2>7
<1> QED
  BY <1>1, <1>2 DEF Kept

\* What is kept can be had back.
LEMMA KeptDecrypts ==
    ASSUME NEW m, NEW C, Data(C), NEW chunks, Kept(m, C, chunks)
    PROVE  decrypt(m, chunks) = C
<1>1. PICK p : /\ p = get_root_data_map(m, chunks)
               /\ p.child = 0 /\ Level(p, 0, C) /\ Dsts(p) \subseteq chunks
  BY KeptRoot
<1>2. decrypt_full_set(p, chunks) = C
  BY <1>1, LevelDecrypts
<1> QED
  BY <1>1, <1>2 DEF decrypt

\* Shrinking gives the chunks of the map it returns.
LEMMA ShrunkKept ==
    ASSUME MaxChunkAssumption, NEW m, NEW C, Level(m, 0, C), m.child = 0,
           get_num_chunks(MapLen(m) + 1) <= 3,
           NEW chunks, Dsts(m) \cup shrink_data_map(m).chunks \subseteq chunks
    PROVE  /\ Kept(shrink_data_map(m).map, C, chunks)
           /\ IsFiniteSet(shrink_data_map(m).chunks)
<1> DEFINE x == shrink_data_map(m)
<1>1. /\ MapLen(m) <= 3 => x.chunks = {}
      /\ MapLen(m) <= 3 => x.map = m
      /\ MapLen(m) > 3 => /\ x.chunks = Dsts(x.map)
                          /\ x.map.child = 1 /\ Level(x.map, 1, to_bytes(m))
  <2>1. TRUE \in BOOLEAN /\ (TRUE <=> get_num_chunks(MapLen(m) + 1) <= 3)
    OBVIOUS
  <2> QED
    BY <2>1, Shrinks
<1>2. MapLen(m) \in Nat
  BY LevelLen
<1>3. Dsts(m) \cup x.chunks \subseteq chunks
  OBVIOUS
<1> HIDE DEF x
<1>4. CASE MapLen(m) <= 3
  BY <1>1, <1>3, <1>4, FS_EmptySet DEF Kept, x
<1>5. CASE MapLen(m) > 3
  <2>1. Kept(x.map, C, chunks)
    BY <1>1, <1>3, <1>5 DEF Kept
  <2>2. IsFiniteSet(x.chunks)
    BY <1>1, <1>5, LevelFinite
  <2> QED
    BY <2>1, <2>2 DEF x
<1> QED
  BY <1>2, <1>4, <1>5

\* s is a sequence.
IsSeq(s) == \E T : s \in Seq(T)

\* What is appended is there.
LEMMA EntriesAppend ==
    ASSUME NEW s, IsSeq(s), NEW x
    PROVE  IsSeq(Append(s, x)) /\ Entries(Append(s, x)) = Entries(s) \cup {x}
<1>1. PICK T : s \in Seq(T)
  BY DEF IsSeq
<1> DEFINE U == T \cup {x}
<1>2. x \in U /\ s \in Seq(U)
  BY <1>1
<1> HIDE DEF U
<1>3. /\ Append(s, x) \in Seq(U) /\ Len(Append(s, x)) = Len(s) + 1
      /\ \A j \in 1 .. Len(s) : Append(s, x)[j] = s[j]
      /\ Append(s, x)[Len(s) + 1] = x
  BY <1>2, AppendProperties
<1>4. Len(s) \in Nat
  BY <1>1
<1>5. 1 .. Len(s) + 1 = (1 .. Len(s)) \cup {Len(s) + 1}
  BY <1>4
<1>6. Entries(Append(s, x)) = Entries(s) \cup {x}
  BY <1>3, <1>5 DEF Entries
<1> QED
  BY <1>3, <1>6 DEF IsSeq

\* What is taken from the head was there.
LEMMA EntriesTail ==
    ASSUME NEW s, IsSeq(s), s # <<>>
    PROVE  IsSeq(Tail(s)) /\ Entries(s) = Entries(Tail(s)) \cup {Head(s)}
<1>1. PICK T : s \in Seq(T)
  BY DEF IsSeq
<1>2. /\ Len(s) \in Nat /\ Len(s) # 0 /\ Head(s) = s[1]
      /\ Tail(s) \in Seq(T) /\ Len(Tail(s)) = Len(s) - 1
      /\ \A i \in 1 .. Len(Tail(s)) : Tail(s)[i] = s[i + 1]
  BY <1>1, HeadTailProperties, EmptySeq
<1>3. ASSUME NEW i \in 1 .. Len(s) PROVE s[i] \in Entries(Tail(s)) \cup {Head(s)}
  <2>1. CASE i = 1
    BY <1>2, <2>1
  <2>2. CASE i # 1
    <3>1. i - 1 \in 1 .. Len(Tail(s)) /\ (i - 1) + 1 = i
      BY <1>2, <2>2
    <3>2. Tail(s)[i - 1] = s[i]
      BY <1>2, <3>1
    <3> QED
      BY <3>1, <3>2 DEF Entries
  <2> QED
    BY <2>1, <2>2
<1>4. ASSUME NEW i \in 1 .. Len(Tail(s)) PROVE Tail(s)[i] \in Entries(s)
  <2>1. i + 1 \in 1 .. Len(s) /\ Tail(s)[i] = s[i + 1]
    BY <1>2
  <2> QED
    BY <2>1 DEF Entries
<1>5. Head(s) \in Entries(s)
  <2>1. 1 \in 1 .. Len(s)
    BY <1>2
  <2> QED
    BY <1>2, <2>1 DEF Entries
<1> QED
  BY <1>2, <1>3, <1>4, <1>5 DEF Entries, IsSeq

\* Both parts of a concatenation are there.
LEMMA EntriesConcat ==
    ASSUME NEW s, IsSeq(s), NEW t, IsSeq(t)
    PROVE  IsSeq(s \o t) /\ Entries(s) \cup Entries(t) \subseteq Entries(s \o t)
<1>1. PICK T : s \in Seq(T)
  BY DEF IsSeq
<1>2. PICK U : t \in Seq(U)
  BY DEF IsSeq
<1> DEFINE V == T \cup U
<1>3. s \in Seq(V) /\ t \in Seq(V)
  BY <1>1, <1>2
<1> HIDE DEF V
<1>4. /\ s \o t \in Seq(V) /\ Len(s \o t) = Len(s) + Len(t)
      /\ \A i \in 1 .. Len(s) : (s \o t)[i] = s[i]
      /\ \A i \in 1 .. Len(t) : (s \o t)[Len(s) + i] = t[i]
      /\ Len(s) \in Nat /\ Len(t) \in Nat
  <2>1. /\ s \o t \in Seq(V) /\ Len(s \o t) = Len(s) + Len(t) /\ Len(s) \in Nat /\ Len(t) \in Nat
        /\ \A i \in 1 .. Len(s) + Len(t) : (s \o t)[i] = IF i <= Len(s) THEN s[i] ELSE t[i - Len(s)]
    BY <1>3, ConcatProperties, LenProperties
  <2>2. ASSUME NEW i \in 1 .. Len(s) PROVE (s \o t)[i] = s[i]
    BY <2>1
  <2>3. ASSUME NEW i \in 1 .. Len(t) PROVE (s \o t)[Len(s) + i] = t[i]
    <3>1. Len(s) + i \in 1 .. Len(s) + Len(t) /\ ~(Len(s) + i <= Len(s)) /\ (Len(s) + i) - Len(s) = i
      BY <2>1
    <3> QED
      BY <2>1, <3>1
  <2> QED
    BY <2>1, <2>2, <2>3
<1>5. ASSUME NEW i \in 1 .. Len(s) PROVE s[i] \in Entries(s \o t)
  <2>1. i \in 1 .. Len(s \o t)
    BY <1>4
  <2> QED
    BY <1>4, <2>1 DEF Entries
<1>6. ASSUME NEW i \in 1 .. Len(t) PROVE t[i] \in Entries(s \o t)
  <2>1. Len(s) + i \in 1 .. Len(s \o t)
    BY <1>4
  <2> QED
    BY <1>4, <2>1 DEF Entries
<1> QED
  BY <1>4, <1>5, <1>6 DEF Entries, IsSeq

\* What is taken from the front, and what stays.
LEMMA EntriesDrop ==
    ASSUME NEW s, IsSeq(s), NEW n \in 0 .. Len(s)
    PROVE  /\ IsSeq(SubSeq(s, n + 1, Len(s)))
           /\ Entries(s) \subseteq {s[i] : i \in 1 .. n} \cup Entries(SubSeq(s, n + 1, Len(s)))
<1>1. PICK T : s \in Seq(T)
  BY DEF IsSeq
<1>2. Len(s) \in Nat /\ \A i \in 1 .. Len(s) : s[i] \in T
  BY <1>1
<1> DEFINE t == SubSeq(s, n + 1, Len(s))
<1>3. /\ t \in Seq(T) /\ Len(t) = Len(s) - n
      /\ \A i \in 1 .. Len(s) - n : t[i] = s[n + i]
  <2>1. n + 1 \in Int /\ Len(s) \in Int /\ \A i \in n + 1 .. Len(s) : s[i] \in T
    BY <1>2
  <2>2. /\ t \in Seq(T)
        /\ Len(t) = IF n + 1 <= Len(s) THEN Len(s) - (n + 1) + 1 ELSE 0
        /\ \A i \in 1 .. Len(s) - (n + 1) + 1 : t[i] = s[(n + 1) + i - 1]
    BY <2>1, SubSeqProperties
  <2>3. Len(t) = Len(s) - n
    BY <1>2, <2>2
  <2>4. ASSUME NEW i \in 1 .. Len(s) - n PROVE t[i] = s[n + i]
    <3>1. i \in 1 .. Len(s) - (n + 1) + 1 /\ (n + 1) + i - 1 = n + i
      BY <1>2
    <3> QED
      BY <2>2, <3>1
  <2> QED
    BY <2>2, <2>3, <2>4
<1> HIDE DEF t
<1>4. ASSUME NEW i \in 1 .. Len(s) PROVE s[i] \in {s[j] : j \in 1 .. n} \cup Entries(t)
  <2>1. CASE i <= n
    <3>1. i \in 1 .. n
      BY <2>1
    <3> QED
      BY <3>1
  <2>2. CASE ~(i <= n)
    <3>1. i - n \in 1 .. Len(t) /\ i - n \in 1 .. Len(s) - n /\ n + (i - n) = i
      BY <1>2, <1>3, <2>2
    <3>2. t[i - n] = s[i]
      BY <1>3, <3>1
    <3> QED
      BY <3>1, <3>2 DEF Entries
  <2> QED
    BY <2>1, <2>2
<1>5. Entries(s) \subseteq {s[j] : j \in 1 .. n} \cup Entries(t)
  BY <1>4 DEF Entries
<1> QED
  BY <1>3, <1>5 DEF IsSeq, t

\* The loop of file_prepare_upload over s leaves out nothing but what is stored.
LoopStep(s, net, q, i) == IF s[i] \in net THEN q ELSE Append(q, s[i])

Looped(s, net, n, f) == f = [i \in 0 .. n |-> IF i = 0 THEN <<>> ELSE LoopStep(s, net, f[i - 1], i)]

\* The loop of file_prepare_upload comes to its end.
LEMMA LoopRuns ==
    ASSUME NEW s, NEW net, NEW n \in Nat
    PROVE  \E f : Looped(s, net, n, f)
<1> DEFINE Run(g, k) == g[0] = <<>> /\ \A i \in 1 .. k : g[i] = LoopStep(s, net, g[i - 1], i)
           N == {k \in Nat : \E g : Run(g, k)}
<1>1. 0 \in N
  <2> DEFINE g == [i \in {0} |-> <<>>]
  <2>1. g[0] = <<>>
    OBVIOUS
  <2> HIDE DEF g
  <2>2. Run(g, 0)
    BY <2>1
  <2> QED
    BY <2>2
<1>2. ASSUME NEW k \in N PROVE k + 1 \in N
  <2>1. k \in Nat /\ \E g : Run(g, k)
    OBVIOUS
  <2>2. PICK g : Run(g, k)
    BY <2>1
  <2> DEFINE h == [i \in 0 .. k + 1 |-> IF i <= k THEN g[i] ELSE LoopStep(s, net, g[k], k + 1)]
  <2>3. \A i \in 0 .. k : h[i] = g[i]
    BY <2>1
  <2>4. h[k + 1] = LoopStep(s, net, g[k], k + 1)
    BY <2>1
  <2> HIDE DEF h
  <2>5. ASSUME NEW i \in 1 .. k + 1 PROVE h[i] = LoopStep(s, net, h[i - 1], i)
    <3>1. CASE i <= k
      <4>1. i \in 1 .. k /\ i \in 0 .. k /\ i - 1 \in 0 .. k
        BY <2>1, <3>1
      <4> QED
        BY <2>2, <2>3, <4>1
    <3>2. CASE ~(i <= k)
      <4>1. i = k + 1 /\ i - 1 = k /\ k \in 0 .. k
        BY <2>1, <3>2
      <4> QED
        BY <2>3, <2>4, <4>1
    <3> QED
      BY <3>1, <3>2
  <2>6. Run(h, k + 1)
    <3>1. 0 \in 0 .. k
      BY <2>1
    <3> QED
      BY <2>2, <2>3, <2>5, <3>1
  <2> HIDE DEF Run
  <2>7. k + 1 \in Nat
    BY <2>1
  <2> QED
    BY <2>6, <2>7
<1>3. N \in SUBSET Nat
  OBVIOUS
<1> HIDE DEF N
<1>4. N = Nat
  BY <1>1, <1>2, <1>3, Inductive
<1>5. PICK g : Run(g, n)
  BY <1>4 DEF N
<1> DEFINE f == [i \in 0 .. n |-> g[i]]
<1>6. ASSUME NEW i \in 0 .. n PROVE f[i] = IF i = 0 THEN <<>> ELSE LoopStep(s, net, f[i - 1], i)
  <2>1. CASE i = 0
    BY <1>5, <2>1
  <2>2. CASE i # 0
    <3>1. i \in 1 .. n /\ i - 1 \in 0 .. n
      BY <2>2
    <3> QED
      BY <1>5, <2>2, <3>1
  <2> QED
    BY <2>1, <2>2
<1>7. f = [i \in 0 .. n |-> f[i]]
  OBVIOUS
<1> HIDE DEF f
<1>8. Looped(s, net, n, f)
  BY <1>6, <1>7 DEF Looped
<1> QED
  BY <1>8

\* What file_prepare_upload leaves out is stored.
LEMMA Prepared ==
    ASSUME NEW s, IsSeq(s)
    PROVE  /\ IsSeq(PreparedChunks(s))
           /\ Entries(s) \subseteq Entries(PreparedChunks(s)) \cup network
<1>1. PICK n \in Nat : n = Len(s)
  BY DEF IsSeq
<1> DEFINE Eq(f) == Looped(s, network, n, f)
           Loop(f) == f = [i \in 0 .. n |-> CASE i = 0 -> <<>>
                                              [] i > 0 /\ s[i] \in network -> f[i - 1]
                                              [] OTHER -> Append(f[i - 1], s[i])]
           prepared == CHOOSE f : Loop(f)
<1>2. ASSUME NEW f PROVE Loop(f) <=> Eq(f)
  <2>1. ASSUME NEW i \in 0 .. n
        PROVE  (CASE i = 0 -> <<>> [] i > 0 /\ s[i] \in network -> f[i - 1] [] OTHER -> Append(f[i - 1], s[i]))
                 = IF i = 0 THEN <<>> ELSE LoopStep(s, network, f[i - 1], i)
    BY DEF LoopStep
  <2>2. [i \in 0 .. n |-> CASE i = 0 -> <<>>
                             [] i > 0 /\ s[i] \in network -> f[i - 1]
                             [] OTHER -> Append(f[i - 1], s[i])]
          = [i \in 0 .. n |-> IF i = 0 THEN <<>> ELSE LoopStep(s, network, f[i - 1], i)]
    BY <2>1
  <2> QED
    BY <2>2 DEF Looped
<1>3. PreparedChunks(s) = prepared[n]
  BY <1>1 DEF PreparedChunks
<1>4. \E f : Eq(f)
  BY LoopRuns
<1> HIDE DEF Eq, Loop
<1>5. Eq(prepared)
  <2>1. \E f : Loop(f)
    BY <1>2, <1>4
  <2>2. Loop(prepared)
    BY <2>1
  <2> HIDE DEF prepared
  <2> QED
    BY <1>2, <2>2
<1> HIDE DEF prepared
<1>6. /\ prepared[0] = <<>>
      /\ \A i \in 1 .. n : prepared[i] = LoopStep(s, network, prepared[i - 1], i)
  BY <1>5 DEF Eq, Looped
<1> DEFINE Fine(k) == /\ IsSeq(prepared[k])
                      /\ \A i \in 1 .. k : s[i] \in Entries(prepared[k]) \cup network
           N == {k \in Nat : k <= n => Fine(k)}
<1>7. 0 \in N
  <2>1. IsSeq(<<>>)
    BY EmptySeq DEF IsSeq
  <2>2. Fine(0)
    BY <1>6, <2>1
  <2> QED
    BY <2>2
<1>8. ASSUME NEW k \in N PROVE k + 1 \in N
  <2>1. k \in Nat
    OBVIOUS
  <2>2. ASSUME k + 1 <= n PROVE Fine(k + 1)
    <3>1. Fine(k)
      BY <2>1, <2>2
    <3>2. k + 1 \in 1 .. n /\ (k + 1) - 1 = k
      BY <2>1, <2>2
    <3>3. prepared[k + 1] = LoopStep(s, network, prepared[k], k + 1)
      BY <1>6, <3>2
    <3>4. /\ IsSeq(prepared[k + 1])
          /\ Entries(prepared[k]) \subseteq Entries(prepared[k + 1])
          /\ s[k + 1] \in Entries(prepared[k + 1]) \cup network
      BY <3>1, <3>3, EntriesAppend DEF LoopStep
    <3>5. ASSUME NEW i \in 1 .. k + 1 PROVE s[i] \in Entries(prepared[k + 1]) \cup network
      <4>1. i \in 1 .. k \/ i = k + 1
        BY <2>1
      <4> QED
        BY <3>1, <3>4, <4>1
    <3> QED
      BY <3>4, <3>5
  <2>3. k + 1 \in Nat
    BY <2>1
  <2> HIDE DEF Fine
  <2> QED
    BY <2>2, <2>3
<1>9. N \in SUBSET Nat
  OBVIOUS
<1> HIDE DEF N
<1>10. N = Nat
  BY <1>7, <1>8, <1>9, Inductive
<1>11. Fine(n)
  <2>1. n <= n
    OBVIOUS
  <2> HIDE DEF Fine
  <2> QED
    BY <1>10, <2>1 DEF N
<1> QED
  BY <1>1, <1>3, <1>11 DEF Entries
-----------------------------------------------------------------------------
(* The invariant of uploads: every chunk of the map that the stream is     *)
(* going to have, and that was yielded, is on its way, spilled or stored   *)

\* The chunks of a stream that has read r of a file of n bytes.
Cuts(n, r) ==
    [i \in 0 .. get_num_chunks(n) - 1 |-> FilePart(r, Start(n, i), Least(End(n, i), r))]
Cut(n, r, i) == encrypt_chunk(Cuts(n, r)[i], get_pad_key_and_nonce(i, Cuts(n, r), 0))
Uncut(n, r) ==
    DataMap([i \in 0 .. get_num_chunks(n) - 1 |-> ChunkInfo(Cuts(n, r)[i], Cut(n, r, i))], 0)
CutMap(n, r) == shrink_data_map(Uncut(n, r))

\* The chunks of the stream, as functions of the length and of what was read.
LEMMA StreamCuts ==
    ASSUME NEW s
    PROVE  /\ Sources(s) = Cuts(size, s.read)
           /\ \A i : StreamChunk(s, i) = Cut(size, s.read, i)
           /\ StreamMap(s) = CutMap(size, s.read)
           /\ StreamRoot(s) = Uncut(size, s.read)
<1>1. Sources(s) = Cuts(size, s.read)
  BY DEF Sources, Cuts, Total, Span, Slice, FilePart, Start, End
<1>2. \A i : StreamChunk(s, i) = Cut(size, s.read, i)
  BY <1>1 DEF StreamChunk, Cut
<1>3. StreamMap(s) = CutMap(size, s.read)
  BY <1>1, <1>2 DEF StreamMap, CutMap, Uncut, Total
<1>4. StreamRoot(s) = Uncut(size, s.read)
  BY <1>1, <1>2 DEF StreamRoot, StreamInfos, Uncut, Total
<1> QED
  BY <1>1, <1>2, <1>3, <1>4

\* A chunk that was complete stays what it is when more is read.
LEMMA CutStays ==
    ASSUME MaxChunkAssumption, NEW n \in Nat, n >= 3, NEW r \in Nat, NEW t \in Nat, t >= r,
           NEW p \in Nat, p < get_num_chunks(n), End(n, p) <= r, NEW i \in 2 .. p
    PROVE  Cut(n, t, i) = Cut(n, r, i)
<1>1. PICK k \in Nat :
             /\ get_num_chunks(n) = k /\ k >= 3
             /\ \A j \in 0 .. k - 1 : /\ Start(n, j) \in Nat /\ End(n, j) \in Nat
                                      /\ Start(n, j) < End(n, j) /\ End(n, j) <= n
             /\ \A j \in 0 .. k - 2 : Start(n, j + 1) = End(n, j)
             /\ \A j \in 0 .. k - 1 : \A h \in j .. k - 1 : Start(n, j) <= Start(n, h)
  BY Spans
<1>2. ASSUME NEW j \in 0 .. p PROVE Cuts(n, t)[j] = Cuts(n, r)[j]
  <2>1. j \in 0 .. k - 1 /\ p \in 0 .. k - 1
    BY <1>1
  <2>2. PICK a, b, c, d \in Nat : /\ a = Start(n, j) /\ b = End(n, j) /\ c = Start(n, p) /\ d = End(n, p)
                                  /\ c < d /\ d <= r
    BY <1>1, <2>1
  <2>3. b <= r
    <3>1. CASE j = p
      BY <2>2, <3>1
    <3>2. CASE j # p
      <4>1. j \in 0 .. k - 2 /\ j + 1 \in 0 .. k - 1 /\ p \in j + 1 .. k - 1
        BY <1>1, <2>1, <3>2
      <4>2. Start(n, j + 1) = b /\ Start(n, j + 1) <= c
        BY <1>1, <2>2, <4>1
      <4> QED
        BY <2>2, <4>2
    <3> QED
      BY <3>1, <3>2
  <2>4. Least(b, r) = b /\ Least(b, t) = b
    BY <2>3 DEF Least
  <2>5. Cuts(n, t)[j] = FilePart(t, a, b) /\ Cuts(n, r)[j] = FilePart(r, a, b)
    BY <1>1, <2>1, <2>2, <2>4 DEF Cuts
  <2>6. b <= t
    BY <2>3
  <2>7. FilePart(t, a, b) = FilePart(r, a, b)
    BY <2>3, <2>6, BytesPart
  <2> QED
    BY <2>5, <2>7
<1>3. i \in 0 .. p /\ i - 1 \in 0 .. p /\ i - 2 \in 0 .. p /\ i # 0 /\ i # 1
  OBVIOUS
<1>4. \A x : get_n_1_n_2(i, x)[1] = i - 1 /\ get_n_1_n_2(i, x)[2] = i - 2
  BY <1>3 DEF get_n_1_n_2
<1>5. ASSUME NEW hashes
      PROVE  get_pad_key_and_nonce(i, hashes, 0)
               = get_pki(hashes[i], hashes[i - 1], hashes[i - 2], i, 0)
  BY <1>4 DEF get_pad_key_and_nonce
<1>6. get_pad_key_and_nonce(i, Cuts(n, t), 0) = get_pad_key_and_nonce(i, Cuts(n, r), 0)
  <2>1. /\ Cuts(n, t)[i] = Cuts(n, r)[i]
        /\ Cuts(n, t)[i - 1] = Cuts(n, r)[i - 1]
        /\ Cuts(n, t)[i - 2] = Cuts(n, r)[i - 2]
    BY <1>2, <1>3
  <2> QED
    BY <1>5, <2>1
<1> QED
  BY <1>2, <1>3, <1>6 DEF Cut

\* The chunks between the task and the network.
Flow ==
    Entries(stream.rest) \cup (IF stream.pc = "send" THEN {stream.item} ELSE {})
        \cup Entries(channel) \cup Entries(spill)

\* The chunks that a stream s of n bytes has yielded are among F.
Traced(s, n, F) ==
    /\ s.pc = "ok" => s.rest = <<>>
    /\ s.pc = "open" => s.processed = 0 /\ s.map = NoMap
    /\ s.map = NoMap => s.rest = <<>>
    /\ s.input_complete \/ s.processed = 0 \/ End(n, s.processed - 1) <= s.read
    /\ \A i \in 2 .. s.processed - 1 : Cut(n, s.read, i) \in F
    /\ s.map # NoMap =>
         /\ s.map = CutMap(n, s.read).map
         /\ {Cut(n, s.read, 0), Cut(n, s.read, 1)} \cup CutMap(n, s.read).chunks \subseteq F

\* Before the upload.
StartInv == upload.pc = "idle" => stream.rest = <<>> /\ channel = <<>> /\ spill = <<>>

\* A task that read with an error does not end well.
ErrorInv == stream.pc = "ok" => ~stream.read_error

\* While chunks are spilled.
FlowInv ==
    upload.pc = "spilling" /\ stream.pc # "failed" /\ Once(size) =>
        /\ IsSeq(stream.rest) /\ IsSeq(channel) /\ IsSeq(spill)
        /\ Traced(stream, size, Flow)

\* The chunks of the data map are spilled or stored.
StoreInv ==
    upload.pc \in {"quoting", "prepared", "storing"} =>
        /\ ~stream.read_error
        /\ Once(size) =>
             /\ IsSeq(spill)
             /\ Kept(upload.map, Text(upload.mode, size, stream.read), Entries(spill) \cup network)

UploadInv == StartInv /\ ErrorInv /\ FlowInv /\ StoreInv

\* Nothing is in an empty sequence.
LEMMA EmptyIsSeq == IsSeq(<<>>) /\ Entries(<<>>) = {}
<1>1. IsSeq(<<>>)
  BY EmptySeq DEF IsSeq
<1>2. Entries(<<>>) = {}
  BY DEF Entries
<1> QED
  BY <1>1, <1>2

\* The first state.
LEMMA UploadInit ==
    ASSUME FileInit
    PROVE  UploadInv
BY DEF FileInit, UploadInv, StartInv, ErrorInv, FlowInv, StoreInv

\* While the task runs, its caller spills or has failed.
LEMMA TaskRuns ==
    ASSUME TransferInv, stream.pc \in {"open", "next", "send"}, upload' = upload
    PROVE  upload.pc \in {"spilling", "failed"} /\ StartInv' /\ StoreInv'
<1>1. upload.pc \in {"spilling", "failed"}
  BY DEF TransferInv, Shape, Phases
<1> QED
  BY <1>1 DEF StartInv, StoreInv

\* A step that takes no chunk away and leaves the stream where it is.
LEMMA FlowFrame ==
    ASSUME NEW s, NEW t, NEW n, NEW F, NEW G, Traced(s, n, F), F \subseteq G,
           t.read = s.read, t.processed = s.processed, t.map = s.map, t.rest = s.rest,
           t.input_complete = s.input_complete, t.pc = "ok" => s.rest = <<>>,
           t.pc # "open"
    PROVE  Traced(t, n, G)
BY DEF Traced

\* The task opens the file.
LEMMA OpenFlow ==
    ASSUME TransferInv, UploadInv, OpenFile
    PROVE  UploadInv'
<1> USE DEF OpenFile, TaskAt, callerVars, downVars
<1>1. /\ stream.pc = "open" /\ stream'.pc \in {"next", "failed"}
      /\ UNCHANGED <<size, upload, spill, channel>>
      /\ stream'.read = stream.read /\ stream'.processed = stream.processed /\ stream'.map = stream.map
      /\ stream'.rest = stream.rest /\ stream'.input_complete = stream.input_complete
  BY DEF TransferInv, Shape
<1>2. StartInv' /\ StoreInv'
  BY <1>1, TaskRuns
<1>3. ErrorInv'
  BY <1>1 DEF ErrorInv
<1>4. FlowInv'
  <2> SUFFICES ASSUME upload.pc = "spilling", stream'.pc # "failed", Once(size)
               PROVE  /\ IsSeq(stream'.rest) /\ IsSeq(channel') /\ IsSeq(spill')
                      /\ Traced(stream', size, Flow')
    BY <1>1 DEF FlowInv
  <2>1. /\ IsSeq(stream.rest) /\ IsSeq(channel) /\ IsSeq(spill)
        /\ Traced(stream, size, Flow)
    BY <1>1 DEF UploadInv, FlowInv
  <2>2. Flow \subseteq Flow'
    BY <1>1 DEF Flow
  <2>3. Traced(stream', size, Flow')
    BY <1>1, <2>1, <2>2, FlowFrame
  <2> QED
    BY <1>1, <2>1, <2>3
<1> QED
  BY <1>2, <1>3, <1>4 DEF UploadInv

\* More bytes do not change the chunks that were yielded.
LEMMA ReadFlow ==
    ASSUME TransferInv, UploadInv, MaxChunkAssumption, TransferAssumption,
           ReadEnd \/ ReadFails \/ \E k \in 1 .. MaxRead : ReadPiece(k)
    PROVE  UploadInv'
<1> USE DEF TaskAt, callerVars, downVars, NeedsData
<1>1. stream.pc = "next" /\ ~stream.input_complete /\ stream.map = NoMap
  BY DEF ReadEnd, ReadFails, ReadPiece, TransferInv, StreamInv
<1>2. UNCHANGED <<size, upload, spill, channel>>
  BY DEF ReadEnd, ReadFails, ReadPiece
<1>3. PICK r, t, p \in Nat : r = stream.read /\ t = stream'.read /\ t >= r /\ p = stream.processed
  <2>1. stream.read \in Nat /\ stream.processed \in Nat
    BY DEF TransferInv, Shape
  <2>2. CASE ReadEnd
    BY <2>1, <2>2 DEF ReadEnd, TransferInv, Shape
  <2>3. CASE ReadFails
    BY <2>1, <2>3 DEF ReadFails, TransferInv, Shape
  <2>4. CASE \E k \in 1 .. MaxRead : ReadPiece(k)
    <3>1. PICK k \in 1 .. MaxRead : ReadPiece(k)
      BY <2>4
    <3>2. stream.read + k \in Nat /\ stream.read + k >= stream.read
      BY <2>1 DEF TransferAssumption
    <3>3. stream'.read = stream.read + k
      BY <3>1 DEF ReadPiece, TransferInv, Shape
    <3> QED
      BY <2>1, <3>2, <3>3
  <2> QED
    BY <2>2, <2>3, <2>4
<1>4. /\ stream'.pc = "next" /\ stream'.map = stream.map /\ stream'.rest = stream.rest
      /\ stream'.processed = p
  BY <1>1, <1>3 DEF ReadEnd, ReadFails, ReadPiece, TransferInv, Shape
<1>5. StartInv' /\ StoreInv'
  BY <1>1, <1>2, TaskRuns
<1>6. ErrorInv'
  BY <1>4 DEF ErrorInv
<1>7. FlowInv'
  <2> SUFFICES ASSUME upload.pc = "spilling", Once(size)
               PROVE  /\ IsSeq(stream'.rest) /\ IsSeq(channel') /\ IsSeq(spill')
                      /\ Traced(stream', size, Flow')
    BY <1>2 DEF FlowInv
  <2>1. /\ IsSeq(stream.rest) /\ IsSeq(channel) /\ IsSeq(spill)
        /\ Traced(stream, size, Flow)
    BY <1>1 DEF UploadInv, FlowInv
  <2>2. Flow' = Flow
    BY <1>1, <1>2, <1>4 DEF Flow
  <2>3. PICK n \in Nat : n = size /\ n >= 3 /\ p <= get_num_chunks(n) /\ get_num_chunks(n) \in Nat
    <3>1. size \in Nat /\ get_num_chunks(size) >= 3 /\ p <= get_num_chunks(size)
      BY <1>1, <1>3 DEF TransferInv, Shape, StreamInv
    <3> QED
      BY <3>1, EnoughChunks
  <2>4. p = 0 \/ End(n, p - 1) <= r
    BY <1>1, <1>3, <2>1, <2>3 DEF Traced
  <2>5. p = 0 \/ (End(n, p - 1) \in Nat /\ p - 1 \in Nat /\ p - 1 < get_num_chunks(n))
    <3> SUFFICES ASSUME p # 0 PROVE End(n, p - 1) \in Nat /\ p - 1 \in Nat /\ p - 1 < get_num_chunks(n)
      OBVIOUS
    <3>1. p - 1 \in Nat /\ p - 1 \in 0 .. get_num_chunks(n) - 1
      BY <2>3
    <3> QED
      BY <2>3, <3>1, Spans
  <2>6. ASSUME NEW i \in 2 .. p - 1 PROVE Cut(n, t, i) \in Flow
    <3>1. p # 0
      OBVIOUS
    <3>2. Cut(n, r, i) \in Flow
      BY <1>3, <2>1, <2>3 DEF Traced
    <3>3. PICK q \in Nat : q = p - 1 /\ q < get_num_chunks(n) /\ End(n, q) <= r
      BY <2>4, <2>5, <3>1
    <3>4. i \in 2 .. q
      BY <3>3
    <3>5. Cut(n, t, i) = Cut(n, r, i)
      BY <1>3, <2>3, <3>3, <3>4, CutStays
    <3> QED
      BY <3>2, <3>5
  <2>7. p = 0 \/ End(n, p - 1) <= t
    BY <1>3, <2>4, <2>5
  <2>8. stream.rest = <<>>
    BY <1>1, <2>1 DEF Traced
  <2>9. Traced(stream', size, Flow')
    BY <1>1, <1>3, <1>4, <2>2, <2>3, <2>6, <2>7, <2>8 DEF Traced
  <2> QED
    BY <1>2, <1>4, <2>1, <2>9
<1> QED
  BY <1>5, <1>6, <1>7 DEF UploadInv

\* What finalize_encryption yields.
LEMMA FinalChunks ==
    ASSUME MaxChunkAssumption, size \in Nat, Total >= 3, NEW s, s.read \in Nat, Once(size)
    PROVE  /\ IsSeq(finalize_encryption(s))
           /\ {Cut(size, s.read, 0), Cut(size, s.read, 1)} \cup CutMap(size, s.read).chunks
                \subseteq Entries(finalize_encryption(s))
<1> DEFINE m == StreamRoot(s)
           C == Bytes(Least(size, s.read))
           x == StreamMap(s).chunks
           a == Cut(size, s.read, 0)
           b == Cut(size, s.read, 1)
<1>1. /\ Level(m, 0, C) /\ m.child = 0 /\ MapLen(m) = Total
      /\ StreamMap(s) = shrink_data_map(m)
  BY StreamLevel
<1>2. get_num_chunks(MapLen(m) + 1) <= 3
  BY <1>1 DEF Once, Total
<1>3. IsFiniteSet(x)
  <2> HIDE DEF m, C
  <2>1. IsFiniteSet(shrink_data_map(m).chunks)
    <3> DEFINE all == Dsts(m) \cup shrink_data_map(m).chunks
    <3>1. Dsts(m) \cup shrink_data_map(m).chunks \subseteq all
      OBVIOUS
    <3> HIDE DEF all
    <3> QED
      BY <1>1, <1>2, <3>1, ShrunkKept
  <2> QED
    BY <1>1, <2>1
<1>4. x = CutMap(size, s.read).chunks /\ StreamChunk(s, 0) = a /\ StreamChunk(s, 1) = b
  BY StreamCuts
<1>5. finalize_encryption(s) = <<a, b>> \o InSomeOrder(x)
  BY <1>4 DEF finalize_encryption
<1> HIDE DEF a, b, x
<1>6. IsSeq(InSomeOrder(x)) /\ Entries(InSomeOrder(x)) = x
  BY <1>3, SomeOrder DEF IsSeq
<1>7. IsSeq(<<a, b>>) /\ {a, b} \subseteq Entries(<<a, b>>)
  <2>1. <<a, b>> \in Seq({a, b})
    OBVIOUS
  <2>2. Len(<<a, b>>) = 2 /\ <<a, b>>[1] = a /\ <<a, b>>[2] = b
    OBVIOUS
  <2>3. 1 \in 1 .. 2 /\ 2 \in 1 .. 2
    OBVIOUS
  <2>4. {a, b} \subseteq Entries(<<a, b>>)
    BY <2>2, <2>3 DEF Entries
  <2> QED
    BY <2>1, <2>4 DEF IsSeq
<1>8. /\ IsSeq(<<a, b>> \o InSomeOrder(x))
      /\ Entries(<<a, b>>) \cup Entries(InSomeOrder(x))
           \subseteq Entries(<<a, b>> \o InSomeOrder(x))
  BY <1>6, <1>7, EntriesConcat
<1> QED
  BY <1>4, <1>5, <1>6, <1>7, <1>8 DEF a, b

\* A chunk that is processed is yielded, now or by finalize_encryption.
LEMMA ProcessFlow ==
    ASSUME TransferInv, UploadInv, MaxChunkAssumption, ProcessChunk
    PROVE  UploadInv'
<1> USE DEF TaskAt, callerVars, downVars
<1>0. stream.pc = "next"
  BY DEF ProcessChunk
<1>1. UNCHANGED <<size, upload, spill, channel>>
  BY DEF ProcessChunk
<1>2. PICK n \in Nat : n = get_num_chunks(size) /\ n >= 3 /\ n = Total
  BY <1>0, EnoughChunks DEF TransferInv, Shape, StreamInv, Total
<1>3. /\ stream'.pc \in {"next", "send"} /\ stream'.read = stream.read
      /\ stream'.input_complete = stream.input_complete
  BY <1>0 DEF ProcessChunk, TransferInv, Shape
<1>4. StartInv' /\ StoreInv'
  BY <1>0, <1>1, TaskRuns
<1>5. ErrorInv'
  BY <1>3 DEF ErrorInv
<1>6. PICK p, r, z \in Nat : p = stream.processed /\ p <= n /\ r = stream.read /\ z = size
  BY <1>2 DEF TransferInv, Shape, StreamInv
<1>7. FlowInv'
  <2> SUFFICES ASSUME upload.pc = "spilling", Once(size)
               PROVE  /\ IsSeq(stream'.rest) /\ IsSeq(channel') /\ IsSeq(spill')
                      /\ Traced(stream', size, Flow')
    BY <1>1 DEF FlowInv
  <2>1. /\ IsSeq(stream.rest) /\ IsSeq(channel) /\ IsSeq(spill)
        /\ Traced(stream, size, Flow)
    BY <1>0 DEF UploadInv, FlowInv
  <2>2. CASE HasData(stream) /\ stream' = [stream EXCEPT !.processed = @ + 1] /\ stream.processed < 2
    <3>1. p < n /\ (End(z, p) <= r \/ stream.input_complete)
      <4>1. PICK d : d = End(z, p)
        OBVIOUS
      <4>2. p < n /\ (r >= d \/ stream.input_complete)
        BY <1>2, <1>6, <2>2, <4>1 DEF HasData, Span, End
      <4>3. d \in Nat
        <5>1. p \in 0 .. n - 1
          BY <1>2, <4>2
        <5>2. z >= 3
          BY <1>2, <1>6, EnoughChunks
        <5> QED
          BY <1>2, <1>6, <4>1, <5>1, <5>2, Spans
      <4> QED
        BY <1>6, <4>1, <4>2, <4>3
    <3>2. stream.map = NoMap
      <4>1. stream.processed # get_num_chunks(size)
        BY <1>2, <1>6, <3>1
      <4>2. StreamInv
        BY DEF TransferInv
      <4> QED
        BY <4>1, <4>2 DEF StreamInv
    <3>3. /\ stream'.pc = "next" /\ stream'.processed = p + 1 /\ stream'.map = stream.map /\ stream'.rest = stream.rest
      BY <1>0, <1>6, <2>2 DEF TransferInv, Shape
    <3>4. stream.rest = <<>>
      BY <2>1, <3>2 DEF Traced
    <3>5. (p + 1) - 1 = p /\ p + 1 # 0 /\ p < 2
      BY <1>6, <2>2
    <3>6. 2 .. p = {}
      BY <3>5
    <3>7. Traced(stream', size, Flow')
      BY <1>3, <1>6, <3>1, <3>2, <3>3, <3>4, <3>5, <3>6 DEF Traced
    <3> QED
      BY <1>1, <2>1, <3>3, <3>7
  <2>3. CASE /\ HasData(stream) /\ stream.processed >= 2
             /\ stream' = [stream EXCEPT !.processed = @ + 1, !.pc = "send",
                                         !.item = StreamChunk(stream, stream.processed)]
    <3>1. p < n /\ (End(z, p) <= r \/ stream.input_complete)
      <4>1. PICK d : d = End(z, p)
        OBVIOUS
      <4>2. p < n /\ (r >= d \/ stream.input_complete)
        BY <1>2, <1>6, <2>3, <4>1 DEF HasData, Span, End
      <4>3. d \in Nat
        <5>1. p \in 0 .. n - 1
          BY <1>2, <4>2
        <5>2. z >= 3
          BY <1>2, <1>6, EnoughChunks
        <5> QED
          BY <1>2, <1>6, <4>1, <5>1, <5>2, Spans
      <4> QED
        BY <1>6, <4>1, <4>2, <4>3
    <3>2. stream.map = NoMap
      <4>1. stream.processed # get_num_chunks(size)
        BY <1>2, <1>6, <3>1
      <4>2. StreamInv
        BY DEF TransferInv
      <4> QED
        BY <4>1, <4>2 DEF StreamInv
    <3>3. /\ stream'.pc = "send" /\ stream'.processed = p + 1 /\ stream'.map = stream.map /\ stream'.rest = stream.rest
          /\ stream'.item = StreamChunk(stream, stream.processed)
      BY <1>0, <1>6, <2>3 DEF TransferInv, Shape
    <3>4. stream.rest = <<>>
      BY <2>1, <3>2 DEF Traced
    <3>5. (p + 1) - 1 = p /\ p + 1 # 0
      BY <1>6
    <3>6. stream'.item = Cut(z, r, p)
      BY <1>6, <3>3, StreamCuts
    <3>7. Flow' = Flow \cup {Cut(z, r, p)}
      BY <1>0, <1>1, <3>3, <3>6 DEF Flow
    <3>8. ASSUME NEW i \in 2 .. p PROVE Cut(z, r, i) \in Flow'
      <4>1. i = p \/ i \in 2 .. p - 1
        BY <1>6
      <4> QED
        BY <1>6, <2>1, <3>7, <4>1 DEF Traced
    <3>9. Traced(stream', size, Flow')
      BY <1>3, <1>6, <3>1, <3>2, <3>3, <3>4, <3>5, <3>8 DEF Traced
    <3> QED
      BY <1>1, <2>1, <3>3, <3>9
  <2>4. CASE /\ stream.input_complete /\ stream.processed = Total /\ stream.map = NoMap
             /\ stream' = [stream EXCEPT !.rest = finalize_encryption(stream), !.map = StreamMap(stream).map]
    <3>1. /\ stream'.pc = "next" /\ stream'.processed = stream.processed
          /\ stream'.rest = finalize_encryption(stream) /\ stream'.map = StreamMap(stream).map
      BY <1>0, <2>4 DEF TransferInv, Shape
    <3>2. /\ IsSeq(stream'.rest)
          /\ {Cut(z, r, 0), Cut(z, r, 1)} \cup CutMap(z, r).chunks \subseteq Entries(stream'.rest)
      BY <1>2, <1>6, <3>1, FinalChunks
    <3>3. stream'.map = CutMap(z, r).map
      BY <1>6, <3>1, StreamCuts
    <3>4. stream'.map # NoMap
      BY <1>2, <1>6, <3>1, FinalGood
    <3>5. Entries(stream.rest) = {}
      <4>1. stream.rest = <<>>
        BY <2>1, <2>4 DEF Traced
      <4> QED
        BY <4>1, EmptyIsSeq
    <3>6. Flow \subseteq Flow' /\ Entries(stream'.rest) \subseteq Flow'
      BY <1>0, <1>1, <3>1, <3>5 DEF Flow
    <3>7. Traced(stream', size, Flow')
      BY <1>3, <1>6, <2>1, <2>4, <3>1, <3>2, <3>3, <3>4, <3>6 DEF Traced
    <3> QED
      BY <1>1, <2>1, <3>2, <3>7
  <2>5. CASE /\ stream.rest # <<>>
             /\ stream' = [stream EXCEPT !.rest = Tail(@), !.pc = "send", !.item = Head(stream.rest)]
    <3>1. /\ stream'.pc = "send" /\ stream'.processed = stream.processed /\ stream'.map = stream.map
          /\ stream'.rest = Tail(stream.rest) /\ stream'.item = Head(stream.rest)
      BY <2>5 DEF TransferInv, Shape
    <3>2. /\ IsSeq(stream'.rest)
          /\ Entries(stream.rest) = Entries(stream'.rest) \cup {stream'.item}
      BY <2>1, <2>5, <3>1, EntriesTail
    <3>3. Flow' = Flow
      BY <1>0, <1>1, <3>1, <3>2 DEF Flow
    <3>4. stream.map # NoMap
      BY <2>1, <2>5 DEF Traced
    <3>5. Traced(stream', size, Flow')
      BY <1>3, <2>1, <3>1, <3>3, <3>4 DEF Traced
    <3> QED
      BY <1>1, <2>1, <3>2, <3>5
  <2> QED
    BY <2>2, <2>3, <2>4, <2>5 DEF ProcessChunk
<1> QED
  BY <1>4, <1>5, <1>7 DEF UploadInv

\* A chunk goes into the channel.
LEMMA SendFlow ==
    ASSUME TransferInv, UploadInv, SendChunk
    PROVE  UploadInv'
<1> USE DEF TaskAt, callerVars, downVars
<1>0. stream.pc = "send"
  BY DEF SendChunk
<1>1. UNCHANGED <<size, upload, spill>>
  BY DEF SendChunk
<1>2. /\ stream'.pc \in {"next", "failed"} /\ stream'.read = stream.read /\ stream'.map = stream.map
      /\ stream'.input_complete = stream.input_complete /\ stream'.processed = stream.processed
      /\ stream'.rest = stream.rest
      /\ stream'.pc = "next" => channel' = Append(channel, stream.item)
  BY DEF SendChunk, TransferInv, Shape
<1>3. StartInv' /\ StoreInv'
  BY <1>0, <1>1, TaskRuns
<1>4. ErrorInv'
  BY <1>2 DEF ErrorInv
<1>5. FlowInv'
  <2> SUFFICES ASSUME upload.pc = "spilling", stream'.pc # "failed", Once(size)
               PROVE  /\ IsSeq(stream'.rest) /\ IsSeq(channel') /\ IsSeq(spill')
                      /\ Traced(stream', size, Flow')
    BY <1>1 DEF FlowInv
  <2>1. /\ IsSeq(stream.rest) /\ IsSeq(channel) /\ IsSeq(spill)
        /\ Traced(stream, size, Flow)
    BY <1>0 DEF UploadInv, FlowInv
  <2>2. stream'.pc = "next" /\ channel' = Append(channel, stream.item)
    BY <1>2
  <2>3. IsSeq(channel') /\ Entries(channel') = Entries(channel) \cup {stream.item}
    BY <2>1, <2>2, EntriesAppend
  <2>4. Flow \subseteq Flow'
    BY <1>0, <1>1, <1>2, <2>2, <2>3 DEF Flow
  <2>5. Traced(stream', size, Flow')
    BY <1>2, <2>1, <2>2, <2>4, FlowFrame
  <2> QED
    BY <1>1, <1>2, <2>1, <2>3, <2>5
<1> QED
  BY <1>3, <1>4, <1>5 DEF UploadInv

\* The task ends.
LEMMA EndFlow ==
    ASSUME TransferInv, UploadInv, StreamEnds
    PROVE  UploadInv'
<1> USE DEF TaskAt, callerVars, downVars
<1>0. stream.pc = "next" /\ stream.rest = <<>>
  BY DEF StreamEnds
<1>1. UNCHANGED <<size, upload, spill, channel>>
  BY DEF StreamEnds
<1>2. /\ stream'.pc \in {"ok", "failed"} /\ stream'.read = stream.read /\ stream'.map = stream.map
      /\ stream'.input_complete = stream.input_complete /\ stream'.processed = stream.processed
      /\ stream'.rest = stream.rest /\ stream'.read_error = stream.read_error
      /\ stream'.pc = "ok" => ~stream.read_error
  BY DEF StreamEnds, TransferInv, Shape
<1>3. StartInv' /\ StoreInv'
  BY <1>0, <1>1, TaskRuns
<1>4. ErrorInv'
  BY <1>2 DEF ErrorInv
<1>5. FlowInv'
  <2> SUFFICES ASSUME upload.pc = "spilling", stream'.pc # "failed", Once(size)
               PROVE  /\ IsSeq(stream'.rest) /\ IsSeq(channel') /\ IsSeq(spill')
                      /\ Traced(stream', size, Flow')
    BY <1>1 DEF FlowInv
  <2>1. /\ IsSeq(stream.rest) /\ IsSeq(channel) /\ IsSeq(spill)
        /\ Traced(stream, size, Flow)
    BY <1>0 DEF UploadInv, FlowInv
  <2>2. Flow \subseteq Flow'
    BY <1>0, <1>1, <1>2 DEF Flow
  <2>3. Traced(stream', size, Flow')
    BY <1>0, <1>2, <2>1, <2>2, FlowFrame
  <2> QED
    BY <1>1, <1>2, <2>1, <2>3
<1> QED
  BY <1>3, <1>4, <1>5 DEF UploadInv

\* An upload of a file begins.
LEMMA BeginFileFlow ==
    ASSUME TransferInv, UploadInv, NEW mode \in Modes, file_upload(mode)
    PROVE  UploadInv'
<1> USE DEF file_upload, UploadAt
<1>1. /\ upload.pc = "idle" /\ upload'.pc = "spilling" /\ UNCHANGED <<channel, spill>>
      /\ stream'.pc = "open" /\ stream'.read = stream.read /\ stream'.processed = stream.processed
      /\ stream'.map = stream.map /\ stream'.rest = stream.rest
  BY DEF TransferInv, Shape
<1>2. /\ stream.processed = 0 /\ stream.map = NoMap
      /\ stream.rest = <<>> /\ channel = <<>> /\ spill = <<>>
  BY <1>1 DEF TransferInv, Phases, UploadInv, StartInv
<1>3. StartInv' /\ StoreInv' /\ ErrorInv'
  BY <1>1 DEF StartInv, StoreInv, ErrorInv
<1>4. 2 .. 0 - 1 = {}
  OBVIOUS
<1>5. Traced(stream', size', Flow')
  BY <1>1, <1>2, <1>4 DEF Traced
<1>6. FlowInv'
  BY <1>1, <1>2, <1>5, EmptyIsSeq DEF FlowInv
<1> QED
  BY <1>3, <1>6 DEF UploadInv

\* encrypt gives the chunks of the map it returns.
LEMMA MemoryKept ==
    ASSUME MaxChunkAssumption, NEW s \in Nat, get_num_chunks(s) >= 3, Once(s)
    PROVE  LET enc == encrypt(Bytes(s))
           IN  Kept(enc.map, Bytes(s), enc.chunks) /\ IsFiniteSet(enc.chunks)
<1> DEFINE C == Bytes(s)
           lev == EncryptLevel(C, 0)
           m == lev.map
           x == shrink_data_map(m)
           all == lev.chunks \cup x.chunks
<1>1. Level(m, 0, C) /\ m.child = 0 /\ MapLen(m) = get_num_chunks(s) /\ lev.chunks = Dsts(m)
  BY MemoryLevel
<1>2. get_num_chunks(MapLen(m) + 1) <= 3
  BY <1>1 DEF Once
<1>3. encrypt(C) = [map |-> x.map, chunks |-> all]
  BY DEF encrypt
<1> HIDE DEF C, lev, m
<1>4. Dsts(m) \cup x.chunks \subseteq all
  BY <1>1
<1> HIDE DEF all
<1>5. Kept(x.map, C, all) /\ IsFiniteSet(x.chunks)
  BY <1>1, <1>2, <1>4, ShrunkKept
<1>6. IsFiniteSet(Dsts(m))
  BY <1>1, LevelFinite
<1>7. IsFiniteSet(all)
  BY <1>1, <1>5, <1>6, FS_Union DEF all
<1> HIDE DEF x
<1>8. encrypt(C).map = x.map /\ encrypt(C).chunks = all
  BY <1>3
<1>9. Kept(encrypt(C).map, C, encrypt(C).chunks) /\ IsFiniteSet(encrypt(C).chunks)
  BY <1>5, <1>7, <1>8
<1> QED
  BY <1>9 DEF C

\* An upload of data in memory begins.
LEMMA BeginDataFlow ==
    ASSUME TransferInv, UploadInv, MaxChunkAssumption, data_upload
    PROVE  UploadInv'
<1> USE DEF UploadAt, taskVars
<1> DEFINE enc == encrypt(Bytes(file))
<1>1. /\ upload.pc = "idle" /\ size' = file /\ UNCHANGED <<stream, channel, network>>
      /\ \/ upload'.pc = "failed"
         \/ /\ ~(get_num_chunks(file) < 3) /\ upload'.pc = "storing" /\ upload'.mode = "memory"
            /\ upload'.map = enc.map /\ spill' = InSomeOrder(enc.chunks)
  <2> HIDE DEF enc
  <2>1. upload = [pc |-> upload.pc, mode |-> upload.mode, map |-> upload.map]
    BY DEF TransferInv, Shape
  <2> QED
    BY <2>1 DEF data_upload, enc
<1>2. stream.pc = "off" /\ ~stream.read_error
  BY <1>1 DEF TransferInv, Phases
<1>3. StartInv' /\ ErrorInv' /\ FlowInv'
  BY <1>1, <1>2 DEF StartInv, ErrorInv, FlowInv
<1>4. StoreInv'
  <2> SUFFICES ASSUME upload'.pc = "storing", Once(size')
               PROVE  /\ IsSeq(spill')
                      /\ Kept(upload'.map, Text(upload'.mode, size', stream'.read), Entries(spill') \cup network')
    BY <1>1, <1>2 DEF StoreInv
  <2>1. /\ ~(get_num_chunks(file) < 3) /\ upload'.mode = "memory"
        /\ upload'.map = enc.map /\ spill' = InSomeOrder(enc.chunks)
    BY <1>1
  <2>2. file \in Nat /\ get_num_chunks(file) \in Nat
    BY EnoughChunks DEF TransferInv, Shape
  <2>3. get_num_chunks(file) >= 3
    BY <2>1, <2>2
  <2>4. Kept(enc.map, Bytes(file), enc.chunks) /\ IsFiniteSet(enc.chunks)
    BY <1>1, <2>2, <2>3, MemoryKept
  <2> HIDE DEF enc
  <2>5. IsSeq(spill') /\ Entries(spill') = enc.chunks
    BY <2>1, <2>4, SomeOrder DEF IsSeq
  <2>6. Text(upload'.mode, size', stream'.read) = Bytes(file)
    BY <1>1, <2>1 DEF Text
  <2>7. enc.chunks \subseteq Entries(spill') \cup network'
    BY <2>5
  <2>8. Kept(enc.map, Bytes(file), Entries(spill') \cup network')
    BY <2>4, <2>7, KeptMore
  <2> QED
    BY <2>1, <2>5, <2>6, <2>8
<1> QED
  BY <1>3, <1>4 DEF UploadInv

\* An upload that has ended.
LEMMA EndedFlow ==
    ASSUME UploadInv, upload'.pc \in {"ok", "failed", "crashed"},
           stream' = stream \/ stream'.pc # "ok"
    PROVE  UploadInv'
BY DEF UploadInv, StartInv, ErrorInv, FlowInv, StoreInv

\* A chunk that is skipped was spilled before.
LEMMA SpillFlow ==
    ASSUME TransferInv, UploadInv, SpillChunk
    PROVE  UploadInv'
<1> USE DEF SpillChunk, UploadAt
<1>1. CASE Fail
  <2>1. upload'.pc = "failed" /\ stream' = stream
    BY <1>1 DEF Fail, Finish, TransferInv, Shape
  <2> QED
    BY <2>1, EndedFlow
<1>2. CASE ~Fail
  <2>1. /\ upload.pc = "spilling" /\ channel # <<>> /\ channel' = Tail(channel) /\ UNCHANGED <<upload, size, stream>>
        /\ spill' = IF Head(channel) \in Entries(spill) THEN spill ELSE Append(spill, Head(channel))
    BY <1>2
  <2>2. StartInv' /\ StoreInv' /\ ErrorInv'
    BY <2>1 DEF UploadInv, StartInv, StoreInv, ErrorInv
  <2>3. FlowInv'
    <3> SUFFICES ASSUME stream.pc # "failed", Once(size)
                 PROVE  /\ IsSeq(stream.rest) /\ IsSeq(channel') /\ IsSeq(spill')
                        /\ Traced(stream, size, Flow')
      BY <2>1 DEF FlowInv
    <3>1. /\ IsSeq(stream.rest) /\ IsSeq(channel) /\ IsSeq(spill)
          /\ Traced(stream, size, Flow)
      BY <2>1 DEF UploadInv, FlowInv
    <3>2. IsSeq(channel') /\ Entries(channel) = Entries(channel') \cup {Head(channel)}
      BY <2>1, <3>1, EntriesTail
    <3>3. IsSeq(spill') /\ Entries(spill') = Entries(spill) \cup {Head(channel)}
      <4>1. CASE Head(channel) \in Entries(spill)
        BY <2>1, <3>1, <4>1
      <4>2. CASE Head(channel) \notin Entries(spill)
        BY <2>1, <3>1, <4>2, EntriesAppend
      <4> QED
        BY <4>1, <4>2
    <3>4. Flow \subseteq Flow'
      BY <2>1, <3>2, <3>3 DEF Flow
    <3>5. Traced(stream, size, Flow')
      BY <3>1, <3>4 DEF Traced
    <3> QED
      BY <3>1, <3>2, <3>3, <3>5
  <2> QED
    BY <2>2, <2>3 DEF UploadInv
<1> QED
  BY <1>1, <1>2

\* When the task has ended well, all chunks of its map are spilled.
LEMMA AwaitFlow ==
    ASSUME TransferInv, UploadInv, MaxChunkAssumption, AwaitTask
    PROVE  UploadInv'
<1> USE DEF AwaitTask, UploadAt, taskVars
<1>1. upload.pc = "spilling" /\ channel = <<>> /\ UNCHANGED <<size, stream, channel, network>>
  OBVIOUS
<1>2. upload = [pc |-> upload.pc, mode |-> upload.mode, map |-> upload.map]
  BY DEF TransferInv, Shape
<1>3. CASE stream.pc # "ok"
  <2>1. upload'.pc = "failed"
    BY <1>2, <1>3 DEF Finish
  <2> QED
    BY <1>1, <2>1, EndedFlow
<1>4. CASE stream.pc = "ok"
  <2>1. /\ upload'.pc \in {"quoting", "storing"} /\ upload'.map = stream.map /\ upload'.mode = upload.mode
        /\ spill' = spill
    BY <1>2, <1>4
  <2>2. StartInv' /\ ErrorInv' /\ FlowInv'
    BY <1>1, <2>1 DEF UploadInv, StartInv, ErrorInv, FlowInv
  <2>3. StoreInv'
    <3>1. ~stream.read_error
      BY <1>4 DEF UploadInv, ErrorInv
    <3> SUFFICES ASSUME Once(size)
                 PROVE  /\ IsSeq(spill)
                        /\ Kept(stream.map, Text(upload.mode, size, stream.read), Entries(spill) \cup network)
      BY <1>1, <2>1, <3>1 DEF StoreInv
    <3>2. IsSeq(spill) /\ Traced(stream, size, Flow)
      BY <1>1, <1>4 DEF UploadInv, FlowInv
    <3>3. Flow = Entries(spill)
      <4>1. stream.rest = <<>>
        BY <1>4, <3>2 DEF Traced
      <4> QED
        BY <1>1, <1>4, <4>1, EmptyIsSeq DEF Flow
    <3>4. /\ stream.map # NoMap /\ stream.processed = get_num_chunks(size)
          /\ get_num_chunks(size) >= 3 /\ size \in Nat /\ stream.read \in Nat
      BY <1>4 DEF TransferInv, StreamInv, Shape
    <3>5. PICK n \in Nat : n = get_num_chunks(size) /\ n >= 3 /\ n = Total
      BY <3>4, EnoughChunks DEF Total
    <3> DEFINE m == Uncut(size, stream.read)
               C == Bytes(Least(size, stream.read))
               x == shrink_data_map(m)
               all == Entries(spill) \cup network
    <3>6. Level(m, 0, C) /\ m.child = 0 /\ MapLen(m) = n
      BY <3>4, <3>5, StreamLevel, StreamCuts
    <3>7. stream.map = x.map /\ x.chunks \subseteq all
      BY <3>2, <3>3, <3>4 DEF Traced, CutMap
    <3>8. Dsts(m) \subseteq all
      <4>1. DOMAIN m.infos = 0 .. n - 1 /\ \A i \in 0 .. n - 1 : m.infos[i].dst = Cut(size, stream.read, i)
        BY <3>5 DEF Uncut, DataMap, ChunkInfo
      <4>2. ASSUME NEW i \in 0 .. n - 1 PROVE Cut(size, stream.read, i) \in all
        <5>1. i = 0 \/ i = 1 \/ i \in 2 .. n - 1
          BY <3>5
        <5>2. CASE i = 0 \/ i = 1
          BY <3>2, <3>3, <3>4, <5>2 DEF Traced
        <5>3. CASE i \in 2 .. n - 1
          BY <3>2, <3>3, <3>4, <3>5, <5>3 DEF Traced
        <5> QED
          BY <5>1, <5>2, <5>3
      <4> HIDE DEF m, all
      <4> QED
        BY <4>1, <4>2 DEF Dsts
    <3>9. get_num_chunks(MapLen(m) + 1) <= 3
      BY <3>5, <3>6 DEF Once
    <3>10. Text(upload.mode, size, stream.read) = C
      BY <1>1 DEF TransferInv, Phases, Text
    <3> HIDE DEF m, C, all
    <3>11. Kept(x.map, C, all)
      BY <3>6, <3>7, <3>8, <3>9, ShrunkKept
    <3> QED
      BY <3>2, <3>7, <3>10, <3>11 DEF all
  <2> QED
    BY <2>2, <2>3 DEF UploadInv
<1> QED
  BY <1>3, <1>4

\* A wave takes to the network what it takes from the spill.
LEMMA WaveFlow ==
    ASSUME TransferAssumption, TransferInv, UploadInv, StoreWave
    PROVE  UploadInv'
<1> USE DEF StoreWave, UploadAt, taskVars
<1>1. CASE Fail
  <2>1. upload'.pc = "failed" /\ stream' = stream
    BY <1>1 DEF Fail, Finish, TransferInv, Shape
  <2> QED
    BY <2>1, EndedFlow
<1>2. CASE ~Fail
  <2> DEFINE n == Least(Wave, Len(spill))
             part == {spill[i] : i \in 1 .. n}
  <2>1. /\ upload.pc = "storing" /\ UNCHANGED <<upload, size, stream>>
        /\ network' = network \cup part
        /\ spill' = SubSeq(spill, n + 1, Len(spill))
    BY <1>2
  <2>2. StartInv' /\ ErrorInv' /\ FlowInv'
    BY <2>1 DEF UploadInv, StartInv, ErrorInv, FlowInv
  <2>3. StoreInv'
    <3>1. ~stream.read_error
      BY <2>1 DEF UploadInv, StoreInv
    <3> SUFFICES ASSUME Once(size)
                 PROVE  /\ IsSeq(spill')
                        /\ Kept(upload.map, Text(upload.mode, size, stream.read), Entries(spill') \cup network')
      BY <2>1, <3>1 DEF StoreInv
    <3>2. IsSeq(spill) /\ Kept(upload.map, Text(upload.mode, size, stream.read), Entries(spill) \cup network)
      BY <2>1 DEF UploadInv, StoreInv
    <3>3. n \in 0 .. Len(spill)
      <4>1. Len(spill) \in Nat /\ Wave \in Nat
        BY <3>2 DEF IsSeq, TransferAssumption
      <4> QED
        BY <4>1 DEF Least
    <3> HIDE DEF n
    <3>4. IsSeq(spill') /\ Entries(spill) \subseteq part \cup Entries(spill')
      BY <2>1, <3>2, <3>3, EntriesDrop
    <3> HIDE DEF part
    <3>5. Entries(spill) \cup network \subseteq Entries(spill') \cup network'
      BY <2>1, <3>4
    <3> QED
      BY <3>2, <3>4, <3>5, KeptMore
  <2> QED
    BY <2>2, <2>3 DEF UploadInv
<1> QED
  BY <1>1, <1>2

\* Preparing and finalizing keep what is not stored.
LEMMA PrepareFlow ==
    ASSUME TransferInv, UploadInv, PrepareUpload \/ finalize_upload
    PROVE  UploadInv'
<1> USE DEF PrepareUpload, finalize_upload, UploadAt, taskVars
<1>1. CASE Fail
  <2>1. upload'.pc = "failed" /\ stream' = stream
    BY <1>1 DEF Fail, Finish, TransferInv, Shape
  <2> QED
    BY <2>1, EndedFlow
<1>2. CASE ~Fail
  <2>1. /\ upload.pc \in {"quoting", "prepared"} /\ upload'.pc \in {"prepared", "storing"}
        /\ upload'.map = upload.map /\ upload'.mode = upload.mode
        /\ UNCHANGED <<size, stream, network>>
    BY <1>2 DEF TransferInv, Shape
  <2>2. spill' = spill \/ spill' = PreparedChunks(spill)
    BY <1>2
  <2>3. StartInv' /\ ErrorInv' /\ FlowInv'
    BY <2>1 DEF UploadInv, StartInv, ErrorInv, FlowInv
  <2>4. StoreInv'
    <3>1. ~stream.read_error
      BY <2>1 DEF UploadInv, StoreInv
    <3> SUFFICES ASSUME Once(size)
                 PROVE  /\ IsSeq(spill')
                        /\ Kept(upload.map, Text(upload.mode, size, stream.read), Entries(spill') \cup network)
      BY <2>1, <3>1 DEF StoreInv
    <3>2. IsSeq(spill) /\ Kept(upload.map, Text(upload.mode, size, stream.read), Entries(spill) \cup network)
      BY <2>1 DEF UploadInv, StoreInv
    <3>3. IsSeq(spill') /\ Entries(spill) \subseteq Entries(spill') \cup network
      <4>1. CASE spill' = spill
        BY <3>2, <4>1
      <4>2. CASE spill' = PreparedChunks(spill)
        BY <3>2, <4>2, Prepared
      <4> QED
        BY <2>2, <4>1, <4>2
    <3>4. Entries(spill) \cup network \subseteq Entries(spill') \cup network
      BY <3>3
    <3> QED
      BY <3>2, <3>3, <3>4, KeptMore
  <2> QED
    BY <2>3, <2>4 DEF UploadInv
<1> QED
  BY <1>1, <1>2

\* The upload ends.
LEMMA EndsFlow ==
    ASSUME TransferInv, UploadInv,
           Stored \/ CancelUpload \/ UploadRefused \/ Crash
    PROVE  UploadInv'
<1>1. upload'.pc \in {"ok", "failed", "crashed"}
  BY DEF Stored, CancelUpload, UploadRefused, Crash, Fail, Finish, TransferInv, Shape
<1>2. stream' = stream \/ stream'.pc # "ok"
  BY DEF Stored, CancelUpload, UploadRefused, Crash, taskVars, TransferInv, Shape
<1> QED
  BY <1>1, <1>2, EndedFlow

\* A download begins after the upload.
LEMMA DownFlow ==
    ASSUME TransferInv, UploadInv,
           \/ \E i \in down.want : FetchDone(i)
           \/ RootFetched \/ CreateTemp \/ WriteBatch \/ RenameOutput
           \/ data_download \/ \E kind \in Kinds : StartDownload(kind)
    PROVE  UploadInv'
<1>1. UNCHANGED <<taskVars, callerVars>>
  BY DEF FetchDone, RootFetched, CreateTemp, WriteBatch, RenameOutput,
         data_download, StartDownload
<1>2. UNCHANGED <<stream, upload>>
  BY <1>1 DEF taskVars, callerVars
<1>3. upload.pc = "ok"
  <2>1. CASE \E kind \in Kinds : StartDownload(kind)
    BY <2>1 DEF StartDownload, UploadAt
  <2>2. CASE ~ \E kind \in Kinds : StartDownload(kind)
    <3>1. down.pc \in {"root", "create", "batch", "rename", "data"}
      BY <2>2 DEF FetchDone, RootFetched, CreateTemp, WriteBatch, RenameOutput,
         data_download
    <3> QED
      BY <3>1, Running
  <2> QED
    BY <2>1, <2>2
<1> QED
  BY <1>2, <1>3, EndedFlow

\* Nothing of the upload changes.
LEMMA QuietFlow ==
    ASSUME UploadInv, FileChanges \/ UNCHANGED fileVars
    PROVE  UploadInv'
<1>1. UNCHANGED <<size, stream, channel, upload, spill, network>>
  BY DEF FileChanges, fileVars, taskVars, callerVars
<1>2. StartInv' /\ ErrorInv' /\ StoreInv'
  BY <1>1 DEF UploadInv, StartInv, ErrorInv, StoreInv
<1>3. Flow' = Flow
  BY <1>1 DEF Flow
<1>4. FlowInv'
  BY <1>1, <1>3 DEF UploadInv, FlowInv
<1> QED
  BY <1>2, <1>4 DEF UploadInv

\* Every step keeps the invariant.
LEMMA UploadStep ==
    ASSUME TransferAssumption, MaxChunkAssumption, TransferInv, UploadInv, [FileNext]_fileVars
    PROVE  UploadInv'
<1>1. CASE TaskStep
  BY <1>1, OpenFlow, ReadFlow, ProcessFlow, SendFlow, EndFlow DEF TaskStep
<1>2. CASE CallerStep
  BY <1>2, SpillFlow, AwaitFlow, WaveFlow, PrepareFlow, EndsFlow, DownFlow DEF CallerStep
<1>3. CASE \E mode \in Modes : file_upload(mode)
  BY <1>3, BeginFileFlow
<1>4. CASE data_upload
  BY <1>4, BeginDataFlow
<1>5. CASE UploadRefused \/ CancelUpload \/ Crash
  BY <1>5, EndsFlow
<1>6. CASE finalize_upload
  BY <1>6, PrepareFlow
<1>7. CASE \E kind \in Kinds : StartDownload(kind)
  BY <1>7, DownFlow
<1>8. CASE FileChanges \/ UNCHANGED fileVars
  BY <1>8, QuietFlow
<1> QED
  BY <1>1, <1>2, <1>3, <1>4, <1>5, <1>6, <1>7, <1>8 DEF FileNext

\* So it always holds.
LEMMA UploadInvariant ==
    ASSUME TransferAssumption, MaxChunkAssumption
    PROVE  FileSpec => [](TransferInv /\ UploadInv)
<1>1. FileInit => UploadInv
  BY UploadInit
<1>2. TransferInv /\ UploadInv /\ [FileNext]_fileVars => UploadInv'
  BY UploadStep
<1> QED
  BY <1>1, <1>2, TransferInvariant, PTL DEF FileSpec
-----------------------------------------------------------------------------
(* Ranges                                                                  *)

\* The sizes of chunks S of m are numbers.
Sized(m, S) == \A x \in S : m.infos[x].size \in Nat

\* f has the sums of the sizes of the subsets of S.
Summed(m, f, S) ==
    f[{}] = 0 /\ \A s \in SUBSET S : f[s] \in Nat /\ \A x \in s : f[s] = f[s \ {x}] + m.infos[x].size

\* A sum of sizes does not depend on the order: any element may come last.
LEMMA SumAnyOrder ==
    ASSUME NEW m, NEW S, IsFiniteSet(S), Sized(m, S), NEW f, Folding(TRUE, m, f, S)
    PROVE  Summed(m, f, S)
<1>1. \A s \in SUBSET S : f[s] = Added(TRUE, m, f, s)
  BY DEF Folding
<1>2. f[{}] = 0
  BY <1>1 DEF Added
<1> DEFINE Fine(s) == f[s] \in Nat /\ \A x \in s : f[s] = f[s \ {x}] + m.infos[x].size
           N == {n \in Nat : \A s \in SUBSET S : Cardinality(s) <= n => Fine(s)}
<1>3. 0 \in N
  <2>1. ASSUME NEW s \in SUBSET S, Cardinality(s) <= 0 PROVE Fine(s)
    <3>1. s = {}
      <4> SUFFICES ASSUME s # {} PROVE FALSE
        OBVIOUS
      <4>1. Cardinality(s) \in Nat /\ Cardinality(s) >= 1
        BY PickSmaller
      <4> QED
        BY <2>1, <4>1
    <3> QED
      BY <1>2, <3>1
  <2> HIDE DEF Fine
  <2> QED
    BY <2>1
<1>4. ASSUME NEW n \in N PROVE n + 1 \in N
  <2>1. n \in Nat /\ \A s \in SUBSET S : Cardinality(s) <= n => Fine(s)
    OBVIOUS
  <2>2. ASSUME NEW s \in SUBSET S, Cardinality(s) <= n + 1 PROVE Fine(s)
    <3>1. CASE s = {}
      BY <1>2, <3>1
    <3>2. CASE s # {}
      <4>1. PICK p \in s : p = Pick(s)
        BY <3>2, PickSmaller
      <4>2. \A x \in s : s \ {x} \in SUBSET S /\ Cardinality(s \ {x}) <= n
        <5> SUFFICES ASSUME NEW x \in s PROVE Cardinality(s \ {x}) <= n
          OBVIOUS
        <5>1. IsFiniteSet(s)
          BY FS_Subset
        <5>2. Cardinality(s) \in Nat /\ Cardinality(s \ {x}) = Cardinality(s) - 1
          BY <5>1, FS_CardinalityType, FS_RemoveElement
        <5> QED
          BY <2>1, <2>2, <5>2
      <4>3. \A x \in s : Fine(s \ {x})
        BY <2>1, <4>2
      <4>4. f[s] = f[s \ {p}] + m.infos[p].size
        BY <1>1, <3>2, <4>1 DEF Added, Grown
      <4>5. f[s] \in Nat
        <5>1. PICK k \in Nat : k = f[s \ {p}]
          BY <4>1, <4>3
        <5>2. PICK z \in Nat : z = m.infos[p].size
          BY <4>1 DEF Sized
        <5>3. f[s] = k + z /\ k + z \in Nat
          BY <4>4, <5>1, <5>2
        <5> QED
          BY <5>3
      <4>6. ASSUME NEW x \in s, x # p PROVE f[s] = f[s \ {x}] + m.infos[x].size
        <5>1. PICK r \in SUBSET S : r = s \ {p, x}
          OBVIOUS
        <5>2. (s \ {p}) \ {x} = r /\ (s \ {x}) \ {p} = r
          BY <5>1
        <5>3. f[s \ {p}] = f[r] + m.infos[x].size
          <6>1. x \in s \ {p} /\ Fine(s \ {p})
            BY <4>1, <4>3, <4>6
          <6>2. f[s \ {p}] = f[(s \ {p}) \ {x}] + m.infos[x].size
            BY <6>1
          <6> QED
            BY <5>2, <6>2
        <5>4. f[s \ {x}] = f[r] + m.infos[p].size
          <6>1. p \in s \ {x} /\ Fine(s \ {x})
            BY <4>1, <4>3, <4>6
          <6>2. f[s \ {x}] = f[(s \ {x}) \ {p}] + m.infos[p].size
            BY <6>1
          <6> QED
            BY <5>2, <6>2
        <5>5. f[r] \in Nat
          <6>1. Cardinality(r) <= n
            <7>1. IsFiniteSet(s \ {x}) /\ r \subseteq s \ {x}
              BY <5>1, FS_Subset
            <7>2. Cardinality(r) \in Nat /\ Cardinality(s \ {x}) \in Nat /\ Cardinality(r) <= Cardinality(s \ {x})
              BY <7>1, FS_Subset, FS_CardinalityType
            <7> QED
              BY <2>1, <4>2, <7>2
          <6> QED
            BY <2>1, <6>1
        <5>6. m.infos[x].size \in Nat /\ m.infos[p].size \in Nat
          BY <4>1, <4>6 DEF Sized
        <5> QED
          BY <4>4, <5>3, <5>4, <5>5, <5>6
      <4> QED
        BY <4>1, <4>4, <4>5, <4>6
    <3> QED
      BY <3>1, <3>2
  <2>3. n + 1 \in Nat
    BY <2>1
  <2> HIDE DEF Fine
  <2> QED
    BY <2>2, <2>3
<1>5. N \in SUBSET Nat
  OBVIOUS
<1> HIDE DEF N
<1>6. N = Nat
  BY <1>3, <1>4, <1>5, Inductive
<1>7. ASSUME NEW s \in SUBSET S PROVE Fine(s)
  <2>1. Cardinality(s) \in N /\ Cardinality(s) <= Cardinality(s)
    BY <1>6, FS_Subset, FS_CardinalityType
  <2> HIDE DEF Fine
  <2> QED
    BY <2>1 DEF N
<1> QED
  BY <1>2, <1>7 DEF Summed

\* Where part i begins and ends.
MarkedAt(e, C, i) ==
    \E p, q \in Nat : /\ p = e[i] /\ q = e[i + 1] /\ p <= q /\ q <= Len(C)
                      /\ Len(Part(C, e, i)) = q - p

\* The length of a part.
LEMMA MarkAt ==
    ASSUME NEW e, NEW n, NEW T, NEW C \in Seq(T), Marks(e, n, C), NEW i \in 0 .. n - 1
    PROVE  MarkedAt(e, C, i)
<1>1. n \in Nat /\ i \in 0 .. n /\ i + 1 \in 0 .. n /\ i <= i + 1
  BY DEF Marks
<1>2. PICK p, q \in 0 .. Len(C) : p = e[i] /\ q = e[i + 1] /\ p <= q
  BY <1>1 DEF Marks
<1>3. Len(C) \in Nat
  OBVIOUS
<1>4. p \in Nat /\ q \in Nat /\ q <= Len(C)
  BY <1>2, <1>3
<1>5. p + 1 \in Int /\ q \in Int /\ \A k \in p + 1 .. q : C[k] \in T
  BY <1>3, <1>4
<1>6. Len(SubSeq(C, p + 1, q)) = IF p + 1 <= q THEN q - (p + 1) + 1 ELSE 0
  BY <1>5, SubSeqProperties
<1>7. Len(SubSeq(C, p + 1, q)) = q - p
  BY <1>2, <1>4, <1>6
<1> QED
  BY <1>2, <1>4, <1>7 DEF Part, MarkedAt

\* The sizes of the first i chunks add up to the mark after them.
LEMMA SizesSum ==
    ASSUME NEW m, NEW e, NEW n \in Nat, NEW l, NEW C, Opens(m, e, n, l, C), Data(C), NEW i \in 0 .. n
    PROVE  SumSizes(m, 0 .. i - 1) = e[i]
<1>1. PICK T : C \in Seq(T)
  BY DEF Data
<1>2. Marks(e, n, C) /\ \A j \in 0 .. n - 1 : m.infos[j].size = Len(Part(C, e, j))
  BY DEF Opens
<1> DEFINE S == 0 .. i - 1
           f == CHOOSE h : Folding(TRUE, m, h, S)
<1>3. SumSizes(m, S) = f[S]
  BY DEF SumSizes, FoldSet, MapThenFoldSet, Folding, Added, Grown, Pick
<1>4. IsFiniteSet(S)
  BY FS_Interval
<1>5. Folding(TRUE, m, f, S)
  <2> HIDE DEF S
  <2> QED
    BY <1>4, FoldingExists
<1> HIDE DEF f
<1>6. ASSUME NEW j \in S
      PROVE  \E p, q \in Nat : p = e[j] /\ q = e[j + 1] /\ p <= q /\ m.infos[j].size = q - p
  <2>1. j \in 0 .. n - 1
    OBVIOUS
  <2>2. PICK p, q \in Nat : /\ p = e[j] /\ q = e[j + 1] /\ p <= q /\ q <= Len(C)
                            /\ Len(Part(C, e, j)) = q - p
    <3>1. MarkedAt(e, C, j)
      BY <1>1, <1>2, <2>1, MarkAt
    <3> QED
      BY <3>1 DEF MarkedAt
  <2>3. m.infos[j].size = q - p
    BY <1>2, <2>1, <2>2
  <2> QED
    BY <2>2, <2>3
<1>7. Sized(m, S)
  <2>1. ASSUME NEW j \in S PROVE m.infos[j].size \in Nat
    <3>1. PICK p, q \in Nat : p = e[j] /\ q = e[j + 1] /\ p <= q /\ m.infos[j].size = q - p
      BY <1>6
    <3> QED
      BY <3>1
  <2> QED
    BY <2>1 DEF Sized
<1>8. /\ f[{}] = 0
      /\ \A s \in SUBSET S : f[s] \in Nat /\ \A x \in s : f[s] = f[s \ {x}] + m.infos[x].size
  <2> HIDE DEF S
  <2>1. Summed(m, f, S)
    BY <1>4, <1>5, <1>7, SumAnyOrder
  <2> QED
    BY <2>1 DEF Summed
<1> DEFINE J == {j \in Nat : j <= i => f[0 .. j - 1] = e[j]}
<1>9. 0 \in J
  <2>1. 0 .. 0 - 1 = {} /\ e[0] = 0
    BY <1>2 DEF Marks
  <2>2. f[0 .. 0 - 1] = e[0]
    BY <1>8, <2>1
  <2> QED
    BY <2>2
<1>10. ASSUME NEW j \in J PROVE j + 1 \in J
  <2>0. j \in Nat /\ j + 1 \in Nat
    OBVIOUS
  <2> SUFFICES ASSUME j + 1 <= i PROVE f[0 .. (j + 1) - 1] = e[j + 1]
    BY <2>0
  <2>1. j \in S /\ f[0 .. j - 1] = e[j]
    OBVIOUS
  <2>2. 0 .. (j + 1) - 1 \in SUBSET S /\ j \in 0 .. (j + 1) - 1 /\ (0 .. (j + 1) - 1) \ {j} = 0 .. j - 1
    BY <2>0
  <2>3. PICK p, q \in Nat : p = e[j] /\ q = e[j + 1] /\ p <= q /\ m.infos[j].size = q - p
    BY <1>6, <2>1
  <2>4. f[0 .. (j + 1) - 1] = f[0 .. j - 1] + m.infos[j].size
    <3> HIDE DEF S, J
    <3> QED
      BY <1>8, <2>2
  <2> QED
    BY <2>1, <2>3, <2>4
<1>11. J \in SUBSET Nat
  OBVIOUS
<1> HIDE DEF J
<1>12. J = Nat
  BY <1>9, <1>10, <1>11, Inductive
<1>13. f[0 .. i - 1] = e[i]
  BY <1>12 DEF J
<1> QED
  BY <1>3, <1>13 DEF S

\* The size and the positions that a root map gives.
LEMMA Positions ==
    ASSUME NEW m, NEW e, NEW n \in Nat, NEW l, NEW C, Opens(m, e, n, l, C), Data(C)
    PROVE  /\ file_size(m) = Len(C)
           /\ \A i \in 0 .. n - 1 : get_chunk_start_position(m, i) = e[i]
<1>1. DOMAIN m.infos = 0 .. n - 1 /\ e[n] = Len(C)
  BY DEF Opens, Marks
<1>2. SumSizes(m, 0 .. n - 1) = e[n]
  BY SizesSum
<1>3. file_size(m) = Len(C)
  BY <1>1, <1>2 DEF file_size
<1>4. ASSUME NEW i \in 0 .. n - 1 PROVE get_chunk_start_position(m, i) = e[i]
  <2>1. {j \in 0 .. n - 1 : j < i} = 0 .. i - 1
    OBVIOUS
  <2>2. i \in 0 .. n
    OBVIOUS
  <2>3. SumSizes(m, 0 .. i - 1) = e[i]
    BY <2>2, SizesSum
  <2> QED
    BY <1>1, <2>1, <2>3 DEF get_chunk_start_position
<1> QED
  BY <1>3, <1>4

\* The chunk in which a position is.
Found(m, e, n, pos, i) ==
    i \in 0 .. n - 1 /\ get_chunk_index_from_infos(m, pos) = i /\ e[i] <= pos /\ pos < e[i + 1]

\* Every position before the end is in one chunk.
LEMMA IndexFound ==
    ASSUME NEW m, NEW e, NEW n \in Nat, NEW l, NEW C, Opens(m, e, n, l, C), Data(C),
           NEW pos \in Nat, pos < Len(C)
    PROVE  \E i \in Nat : Found(m, e, n, pos, i)
<1>1. PICK T : C \in Seq(T)
  BY DEF Data
<1>2. /\ Marks(e, n, C) /\ DOMAIN m.infos = 0 .. n - 1
      /\ \A i \in 0 .. n - 1 : m.infos[i].size = Len(Part(C, e, i))
  BY DEF Opens
<1>3. Len(C) \in Nat /\ e \in [0 .. n -> 0 .. Len(C)] /\ e[0] = 0 /\ e[n] = Len(C)
      /\ \A i, j \in 0 .. n : i <= j => e[i] <= e[j]
  BY <1>1, <1>2 DEF Marks
<1> DEFINE In(i) == e[i] <= pos /\ pos < e[i + 1]
           within == {i \in DOMAIN m.infos :
                        LET start == get_chunk_start_position(m, i)
                        IN  start <= pos /\ pos < start + m.infos[i].size}
           first == CHOOSE i \in within : \A j \in within : i <= j
<1>4. ASSUME NEW i \in 0 .. n - 1 PROVE i \in within <=> In(i)
  <2>1. MarkedAt(e, C, i)
    BY <1>1, <1>2, MarkAt
  <2>2. PICK p, q \in Nat : p = e[i] /\ q = e[i + 1] /\ p <= q /\ Len(Part(C, e, i)) = q - p
    BY <2>1 DEF MarkedAt
  <2>3. get_chunk_start_position(m, i) = p /\ m.infos[i].size = q - p
    <3>1. \A k \in 0 .. n - 1 : get_chunk_start_position(m, k) = e[k]
      BY Positions
    <3> QED
      BY <1>2, <2>2, <3>1
  <2>4. i \in within <=> (p <= pos /\ pos < p + (q - p))
    BY <1>2, <2>3
  <2> QED
    BY <2>2, <2>4
<1>5. within \subseteq 0 .. n - 1
  BY <1>2
<1>6. get_chunk_index_from_infos(m, pos) = IF within = {} THEN MapLen(m) - 1 ELSE first
  BY DEF get_chunk_index_from_infos
<1> HIDE DEF within
<1>7. within # {}
  <2> SUFFICES ASSUME within = {} PROVE FALSE
    OBVIOUS
  <2> DEFINE J == {j \in Nat : j <= n => e[j] <= pos}
  <2>1. 0 \in J
    BY <1>3
  <2>2. ASSUME NEW j \in J PROVE j + 1 \in J
    <3>0. j \in Nat /\ j + 1 \in Nat
      OBVIOUS
    <3> SUFFICES ASSUME j + 1 <= n PROVE e[j + 1] <= pos
      BY <3>0
    <3>1. j \in 0 .. n - 1 /\ e[j] <= pos /\ j + 1 \in 0 .. n
      BY <3>0
    <3>2. ~(pos < e[j + 1])
      BY <1>4, <3>1
    <3>3. PICK q \in 0 .. Len(C) : q = e[j + 1]
      BY <1>3, <3>1
    <3> QED
      BY <1>3, <3>2, <3>3
  <2>3. J \in SUBSET Nat
    OBVIOUS
  <2> HIDE DEF J
  <2>4. J = Nat
    BY <2>1, <2>2, <2>3, Inductive
  <2>5. e[n] <= pos
    BY <2>4 DEF J
  <2> QED
    BY <1>3, <2>5
<1>8. PICK i : i \in within
  BY <1>7
<1>9. i \in 0 .. n - 1 /\ In(i)
  BY <1>4, <1>5, <1>8
<1>10. ASSUME NEW j \in within PROVE ~(j < i)
  <2> SUFFICES ASSUME j < i PROVE FALSE
    OBVIOUS
  <2>1. j \in 0 .. n - 1 /\ In(j)
    BY <1>4, <1>5
  <2>2. j + 1 \in 0 .. n /\ i \in 0 .. n /\ j + 1 <= i
    BY <1>9, <2>1
  <2>3. PICK p, q \in 0 .. Len(C) : p = e[j + 1] /\ q = e[i]
    BY <1>3, <2>2
  <2>4. p <= q
    BY <1>3, <2>2, <2>3
  <2>5. pos < p /\ q <= pos
    BY <1>9, <2>1, <2>3
  <2> QED
    BY <1>3, <2>3, <2>4, <2>5
<1>11. \A j \in within : i <= j
  BY <1>5, <1>9, <1>10
<1>12. first \in within /\ \A j \in within : first <= j
  BY <1>8, <1>11
<1> HIDE DEF first
<1>13. first = i
  BY <1>5, <1>8, <1>11, <1>12
<1>14. get_chunk_index_from_infos(m, pos) = i
  BY <1>6, <1>7, <1>13
<1> QED
  BY <1>9, <1>14 DEF Found

\* C can be had from chunks with the root map m.
RootOf(m, e, n, C, chunks) ==
    n \in Nat /\ Opens(m, e, n, 0, C) /\ m.child = 0 /\ Data(C) /\ Dsts(m) \subseteq chunks

\* get_range gives the part of C that was asked for.
LEMMA RangeIs ==
    ASSUME NEW m, NEW e, NEW n, NEW C, NEW chunks, RootOf(m, e, n, C, chunks), NEW a \in Nat, NEW len \in Nat
    PROVE  get_range(m, chunks, a, len) = Piece(C, a, Least(a + len, Len(C)))
<1> n \in Nat
  BY DEF RootOf
<1> Opens(m, e, n, 0, C)
  BY DEF RootOf
<1> Data(C)
  BY DEF RootOf
<1> m.child = 0 /\ Dsts(m) \subseteq chunks
  BY DEF RootOf
<1>1. PICK T : C \in Seq(T)
  BY DEF Data
<1>2. Len(C) \in Nat /\ file_size(m) = Len(C)
  <2>1. file_size(m) = Len(C)
    BY Positions
  <2> QED
    BY <1>1, <2>1
<1>0. \A k \in 0 .. n - 1 : get_chunk_start_position(m, k) = e[k]
  BY Positions
<1> DEFINE end == IF a + len < file_size(m) THEN a + len ELSE file_size(m)
           first == get_chunk_index_from_infos(m, a)
           last == get_chunk_index_from_infos(m, end - 1)
           part == [k \in 1 .. last - first + 1 |->
                     LET i == first + k - 1
                     IN  IF m.infos[i].dst \in chunks
                         THEN decrypt_chunk(i, m.infos[i].dst, extract_hashes(m), m.child)
                         ELSE <<>>]
           bytes == FlattenSeq(part)
           offset == a - get_chunk_start_position(m, first)
<1>3. get_range(m, chunks, a, len) =
        CASE a >= file_size(m) \/ end = a -> <<>>
          [] a < file_size(m) /\ end # a /\ Failed \in {part[k] : k \in DOMAIN part} -> Failed
          [] OTHER -> IF offset >= Len(bytes) THEN <<>>
                      ELSE Slice(bytes, <<offset, IF offset + end - a < Len(bytes)
                                                        THEN offset + end - a ELSE Len(bytes)>>)
  BY DEF get_range
<1>4. end \in Nat /\ end <= Len(C) /\ end = Least(a + len, Len(C)) /\ (a < Len(C) => end >= a)
  BY <1>2 DEF Least
<1>5. CASE a >= Len(C) \/ end = a
  <2>1. get_range(m, chunks, a, len) = <<>>
    <3> HIDE DEF end, first, part, bytes, offset
    <3> QED
      BY <1>2, <1>3, <1>5
  <2>2. SubSeq(C, a + 1, end) = <<>>
    <3> HIDE DEF end
    <3>1. a + 1 \in Int /\ end \in Int /\ end < a + 1
      BY <1>2, <1>4, <1>5
    <3> QED
      BY <3>1, SubSeqEmpty
  <2> QED
    BY <1>4, <2>1, <2>2 DEF Piece
<1>6. CASE a < Len(C) /\ end # a
  <2>1. PICK z \in Nat : z = end /\ z > a /\ z <= Len(C) /\ z - 1 \in Nat /\ z - 1 < Len(C) /\ z - 1 >= a
    BY <1>2, <1>4, <1>6
  <2> HIDE DEF end
  <2>2. PICK f \in Nat : Found(m, e, n, a, f)
    BY <1>6, IndexFound
  <2>3. PICK g \in Nat : Found(m, e, n, z - 1, g)
    BY <2>1, IndexFound
  <2>4. first = f /\ last = g
    BY <2>1, <2>2, <2>3 DEF Found
  <2>5. Marks(e, n, C) /\ \A i \in 0 .. n - 1 : m.infos[i].dst \in chunks
    BY DEF Opens, Dsts
  <2>6. /\ e \in [0 .. n -> 0 .. Len(C)]
        /\ \A i, j \in 0 .. n : i <= j => e[i] <= e[j]
    BY <2>5 DEF Marks
  <2>7. f \in 0 .. n /\ f + 1 \in 0 .. n /\ g \in 0 .. n /\ g + 1 \in 0 .. n
    BY <2>2, <2>3 DEF Found
  <2>8. PICK p, q \in Nat : p = e[f] /\ q = e[g + 1] /\ p <= a /\ z - 1 < q /\ q <= Len(C)
    <3>1. e[f] \in 0 .. Len(C) /\ e[g + 1] \in 0 .. Len(C)
      BY <2>6, <2>7
    <3>2. e[f] \in Nat /\ e[g + 1] \in Nat /\ e[g + 1] <= Len(C)
      BY <1>2, <3>1
    <3> QED
      BY <2>2, <2>3, <3>2 DEF Found
  <2>9. f <= g
    <3> SUFFICES ASSUME g < f PROVE FALSE
      OBVIOUS
    <3>1. g + 1 <= f
      OBVIOUS
    <3>2. q <= p
      BY <2>6, <2>7, <2>8, <3>1
    <3> QED
      BY <2>1, <2>8, <3>2
  <2>10. PICK b \in Nat : b = g - f + 1 /\ b >= 1 /\ f + b <= n /\ f + b = g + 1
    BY <2>7, <2>9
  <2> DEFINE P == [k \in 1 .. b |-> Part(C, e, f + k - 1)]
  <2>11. part = P
    <3>1. ASSUME NEW k \in 1 .. b
          PROVE  (IF m.infos[f + k - 1].dst \in chunks
                  THEN decrypt_chunk(f + k - 1, m.infos[f + k - 1].dst, extract_hashes(m), m.child)
                  ELSE <<>>) = P[k]
      <4>1. f + k - 1 \in 0 .. n - 1
        BY <2>10
      <4>2. decrypt_chunk(f + k - 1, m.infos[f + k - 1].dst, extract_hashes(m), 0)
              = Part(C, e, f + k - 1)
        BY <4>1 DEF Opens
      <4> QED
        BY <2>5, <4>1, <4>2
    <3>2. last - first + 1 = b
      BY <2>4, <2>10
    <3> HIDE DEF first, last
    <3> QED
      BY <2>4, <3>1, <3>2
  <2>12. bytes = Piece(C, p, q)
    <3>1. FlattenSeq(P) = Piece(C, e[f], e[f + b])
      BY <1>1, <2>5, <2>10, Flatten
    <3> HIDE DEF part, P
    <3> QED
      BY <2>8, <2>10, <2>11, <3>1
  <2>13. Failed \notin {part[k] : k \in DOMAIN part}
    <3>1. ASSUME NEW k \in 1 .. b PROVE P[k] # Failed
      <4>1. f + k - 1 \in 0 .. n - 1
        BY <2>10
      <4> QED
        BY <2>5, <4>1, PartIsData
    <3>2. DOMAIN P = 1 .. b
      OBVIOUS
    <3> HIDE DEF part, P
    <3> QED
      BY <2>11, <3>1, <3>2
  <2>14. offset = a - p
    <3>1. f \in 0 .. n - 1
      BY <2>2 DEF Found
    <3> HIDE DEF first
    <3> QED
      BY <1>0, <2>4, <2>8, <3>1
  <2>15. Len(Piece(C, p, q)) = q - p
    <3>1. p + 1 \in Int /\ q \in Int /\ \A k \in p + 1 .. q : C[k] \in T
      BY <1>1, <1>2, <2>8
    <3>2. Len(SubSeq(C, p + 1, q)) = IF p + 1 <= q THEN q - (p + 1) + 1 ELSE 0
      BY <3>1, SubSeqProperties
    <3>3. p + 1 <= q
      BY <2>1, <2>8
    <3> QED
      BY <3>2, <3>3 DEF Piece
  <2> HIDE DEF part, bytes, offset, first, last
  <2>16. get_range(m, chunks, a, len) =
          IF offset >= Len(bytes) THEN <<>>
          ELSE Slice(bytes, <<offset, IF offset + end - a < Len(bytes) THEN offset + end - a ELSE Len(bytes)>>)
    BY <1>2, <1>3, <1>6, <2>13
  <2>17. ~(offset >= Len(bytes)) /\ (IF offset + end - a < Len(bytes) THEN offset + end - a ELSE Len(bytes)) = z - p
    <3>1. PICK o, w \in Int : o = offset /\ w = Len(bytes) /\ o = a - p /\ w = q - p
      BY <2>12, <2>14, <2>15
    <3>2. z <= q /\ a < q
      BY <2>1, <2>8
    <3>3. ~(o >= w) /\ o + z - a = z - p /\ z - p <= w
      BY <3>1, <3>2
    <3> QED
      BY <2>1, <3>1, <3>3
  <2>18. get_range(m, chunks, a, len) = SubSeq(SubSeq(C, p + 1, q), (a - p) + 1, z - p)
    BY <2>12, <2>14, <2>16, <2>17 DEF Slice, Piece
  <2>19. /\ p + 1 \in 1 .. Len(C) /\ q \in 1 .. Len(C)
         /\ (a - p) + 1 \in 1 .. q - (p + 1) + 1 /\ z - p \in 1 .. q - (p + 1) + 1
         /\ (p + 1) + ((a - p) + 1) - 1 = a + 1 /\ (p + 1) + (z - p) - 1 = z
    <3>1. PICK c \in Nat : c = Len(C)
      BY <1>2
    <3>2. p <= a /\ a + 1 <= z /\ z <= q /\ q <= c
      BY <2>1, <2>8, <3>1
    <3> HIDE DEF end
    <3>3. p + 1 \in 1 .. c /\ q \in 1 .. c
      BY <3>2
    <3>4. (a - p) + 1 \in 1 .. q - (p + 1) + 1 /\ z - p \in 1 .. q - (p + 1) + 1
      BY <3>2
    <3>5. (p + 1) + ((a - p) + 1) - 1 = a + 1 /\ (p + 1) + (z - p) - 1 = z
      OBVIOUS
    <3> QED
      BY <3>1, <3>3, <3>4, <3>5
  <2>20. SubSeq(SubSeq(C, p + 1, q), (a - p) + 1, z - p) = SubSeq(C, (p + 1) + ((a - p) + 1) - 1, (p + 1) + (z - p) - 1)
    BY <1>1, <2>19, SubSeqOfSubSeq
  <2> QED
    BY <1>4, <2>1, <2>18, <2>19, <2>20 DEF Piece
<1> QED
  BY <1>2, <1>4, <1>5, <1>6

\* The part of what was uploaded that a range asks for.
Asked(C, a, b) == Slice(C, <<a, Least(b, Len(C))>>)

\* All ways to ask for the bytes from a to b.
RangesFit(m, chunks, C, s, a, b) ==
    /\ get_range(m, chunks, a, b - a) = Asked(C, a, b)
    /\ range(m, chunks, a, b) = Asked(C, a, b)
    /\ range_from(m, chunks, a) = Asked(C, a, s)
    /\ range_inclusive(m, chunks, a, b) = Asked(C, a, b + 1)

\* All four ways to ask for a range.
LEMMA RangesOf ==
    ASSUME NEW m, NEW e, NEW n, NEW C, NEW chunks, RootOf(m, e, n, C, chunks),
           NEW s \in Nat, Len(C) <= s, NEW a \in Nat, NEW b \in Nat, a <= b
    PROVE  RangesFit(m, chunks, C, s, a, b)
<1>1. Opens(m, e, n, 0, C) /\ Data(C)
  BY DEF RootOf
<1>2. n \in Nat
  BY DEF RootOf
<1>3. PICK c \in Nat : c = Len(C) /\ file_size(m) = c
  <2>1. Len(C) \in Nat
    BY <1>1 DEF Data
  <2>2. file_size(m) = Len(C)
    BY <1>1, <1>2, Positions
  <2> QED
    BY <2>1, <2>2
<1>4. ASSUME NEW len \in Nat
      PROVE  get_range(m, chunks, a, len) = Piece(C, a, Least(a + len, c))
  <2>1. get_range(m, chunks, a, len) = Piece(C, a, Least(a + len, Len(C)))
    BY RangeIs
  <2> QED
    BY <1>3, <2>1
<1>5. \A x \in Nat : Asked(C, a, x) = Piece(C, a, Least(x, c))
  BY <1>3 DEF Asked, Slice, Piece
<1>6. get_range(m, chunks, a, b - a) = Asked(C, a, b)
  <2>1. b - a \in Nat /\ a + (b - a) = b
    OBVIOUS
  <2> QED
    BY <1>4, <1>5, <2>1
<1>7. Saturating(b, a) = b - a
  BY DEF Saturating
<1>8. range(m, chunks, a, b) = Asked(C, a, b)
  BY <1>6, <1>7 DEF range
<1>9. range_from(m, chunks, a) = Asked(C, a, s)
  <2> DEFINE len == Saturating(c, a)
  <2>1. len \in Nat /\ Least(a + len, c) = c
    BY DEF Saturating, Least
  <2>2. Least(s, c) = c
    BY <1>3 DEF Least
  <2>3. range_from(m, chunks, a) = get_range(m, chunks, a, len)
    BY <1>3 DEF range_from
  <2> HIDE DEF len
  <2> QED
    BY <1>4, <1>5, <2>1, <2>2, <2>3
<1>10. range_inclusive(m, chunks, a, b) = Asked(C, a, b + 1)
  <2>1. (b - a) + 1 \in Nat /\ a + ((b - a) + 1) = b + 1 /\ b + 1 \in Nat
    OBVIOUS
  <2>2. range_inclusive(m, chunks, a, b) = get_range(m, chunks, a, (b - a) + 1)
    BY <1>7 DEF range_inclusive
  <2> QED
    BY <1>4, <1>5, <2>1, <2>2
<1> QED
  BY <1>6, <1>8, <1>9, <1>10 DEF RangesFit

\* What an upload that ends has stored.
LEMMA StoredKept ==
    ASSUME TransferInv, UploadInv, Stored
    PROVE  /\ ~stream.read_error
           /\ ShrunkOnce => Data(Content) /\ Kept(upload.map, Content, network)
<1>1. upload.pc = "storing" /\ spill = <<>>
  BY DEF Stored, UploadAt
<1>2. ~stream.read_error
  BY <1>1 DEF UploadInv, StoreInv
<1>3. ASSUME ShrunkOnce PROVE Data(Content) /\ Kept(upload.map, Content, network)
  <2> DEFINE C == Text(upload.mode, size, stream.read)
  <2>1. Kept(upload.map, C, Entries(spill) \cup network)
    BY <1>1, <1>3 DEF UploadInv, StoreInv, Once, ShrunkOnce
  <2>2. Entries(spill) \cup network = network
    BY <1>1, EmptyIsSeq
  <2>3. Data(C)
    BY TextData
  <2>4. Content = C
    BY DEF Content, Text
  <2> HIDE DEF C
  <2> QED
    BY <2>1, <2>2, <2>3, <2>4
<1> QED
  BY <1>2, <1>3

\* When an upload returns Ok there was no read error, and what was read can be
\* decrypted with its data map from the chunks that are stored
\* (spawn_file_encryption, encrypt_file_to_spill, file_prepare_upload, the waves).
THEOREM RecoverableTheorem == FileSpec => UploadIsRecoverable
<1> USE TransferAssumption, MaxChunkAssumption
<1>1. ASSUME TransferInv, UploadInv, Stored
      PROVE  ~stream.read_error /\ (ShrunkOnce => decrypt(upload.map, network) = Content)
  BY <1>1, StoredKept, KeptDecrypts
<1>2. TransferInv /\ UploadInv
        => [Stored => ~stream.read_error
                             /\ (ShrunkOnce => decrypt(upload.map, network) = Content)]_fileVars
  BY <1>1
<1> QED
  BY <1>2, UploadInvariant, PTL DEF UploadIsRecoverable

\* No more is uploaded than was asked for.
LEMMA ContentLength ==
    ASSUME TransferInv
    PROVE  Len(Content) <= size /\ size \in Nat
<1>1. size \in Nat /\ stream.read \in Nat
  BY DEF TransferInv, Shape
<1>2. PICK k \in Nat : Content = Bytes(k) /\ k <= size
  BY <1>1 DEF Content, Least
<1>3. Len(Bytes(k)) = k
  BY BytesData
<1> QED
  BY <1>1, <1>2, <1>3

\* And every range of it can be read alone (DecryptionStream: get_range, range,
\* range_from, range_inclusive).
THEOREM RangesTheorem == FileSpec => RangesAgree
<1> USE TransferAssumption, MaxChunkAssumption
<1>1. ASSUME TransferInv, UploadInv, Stored, ShrunkOnce,
             NEW a \in 0 .. size + 1, NEW b \in a .. size + 1
      PROVE  LET root == get_root_data_map(upload.map, network)
                 part(p, q) == Slice(Content, <<p, Least(q, Len(Content))>>)
             IN  /\ get_range(root, network, a, b - a) = part(a, b)
                 /\ range(root, network, a, b) = part(a, b)
                 /\ range_from(root, network, a) = part(a, size)
                 /\ range_inclusive(root, network, a, b) = part(a, b + 1)
  <2>1. Data(Content) /\ Kept(upload.map, Content, network)
    BY <1>1, StoredKept
  <2>2. PICK m, C : /\ m = get_root_data_map(upload.map, network) /\ C = Content
                    /\ m.child = 0 /\ Level(m, 0, C) /\ Dsts(m) \subseteq network /\ Data(C)
    BY <2>1, KeptRoot
  <2>3. PICK s \in Nat : s = size /\ Len(C) <= s
    BY <1>1, <2>2, ContentLength
  <2>4. a \in Nat /\ b \in Nat /\ a <= b
    BY <1>1, <2>3
  <2>5. PICK e, n : Opens(m, e, n, 0, C) /\ n \in Nat
    BY <2>2 DEF Level, Opens, Marks
  <2>6. RootOf(m, e, n, C, network)
    BY <2>2, <2>5 DEF RootOf
  <2>7. RangesFit(m, network, C, s, a, b)
    BY <2>3, <2>4, <2>6, RangesOf
  <2> QED
    BY <2>2, <2>3, <2>7 DEF RangesFit, Asked
<1>2. TransferInv /\ UploadInv
        => [Stored /\ ShrunkOnce =>
              LET root == get_root_data_map(upload.map, network)
                  part(p, q) == Slice(Content, <<p, Least(q, Len(Content))>>)
              IN  \A a \in 0 .. size + 1 : \A b \in a .. size + 1 :
                     /\ get_range(root, network, a, b - a) = part(a, b)
                     /\ range(root, network, a, b) = part(a, b)
                     /\ range_from(root, network, a) = part(a, size)
                     /\ range_inclusive(root, network, a, b) = part(a, b + 1)]_fileVars
  BY <1>1
<1> QED
  BY <1>2, UploadInvariant, PTL DEF RangesAgree
=============================================================================
