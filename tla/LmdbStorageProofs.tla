-------------------------- MODULE LmdbStorageProofs --------------------------
(***************************************************************************)
(* Machine-checked properties of LmdbStorage for every set of callers,     *)
(* addresses and contents and every capacity.                              *)
(***************************************************************************)
EXTENDS LmdbStorage, FiniteSetTheorems, TLAPS

\* Answering a call keeps the types of pc and res.
LEMMA AnswerType ==
    ASSUME TypeOK, NEW t \in Caller, NEW r \in Result,
           NEW o \in Content \cup {None}, Answer(t, r, o)
    PROVE  /\ pc' \in [Caller -> {"idle", "start", "txn", "new", "dup", "ret"}]
           /\ res' \in [Caller -> [res : Result, out : Content \cup {None}]]
BY DEF TypeOK, Answer, Goto

\* Counting keeps the type of the statistics.
LEMMA BumpType ==
    ASSUME TypeOK, NEW f \in Counter, Bump(f)
    PROVE  stats' \in [Counter -> Nat]
BY DEF TypeOK, Bump

\* The results and the counters a step names are results and counters.
LEMMA Literals ==
    /\ {"new", "dup", "err", "found", "absent", "deleted", "missing"} \subseteq Result
    /\ {"chunks_stored", "chunks_retrieved", "duplicates",
        "verification_failures"} \subseteq Counter
BY DEF Result, Counter

\* The steps of a caller keep every variable in its type.
LEMMA StepType ==
    ASSUME TypeOK, NEW t \in Caller, Call(t) \/ Step(t) \/ IoError(t)
    PROVE  TypeOK'
<1> USE Literals, AnswerType, BumpType
<1>1. CASE Call(t)
  BY <1>1 DEF TypeOK, Call, Goto
<1>2. CASE PutCheck(t)
  <2>1. UNCHANGED <<db, arg, opened, removed, calls>>
    BY <1>2 DEF PutCheck
  <2>2. CASE Answer(t, "err", None) /\ UNCHANGED stats
    BY <2>1, <2>2 DEF TypeOK
  <2>3. CASE Answer(t, "dup", None) /\ Bump("duplicates")
    BY <2>1, <2>3 DEF TypeOK
  <2>4. CASE Goto(t, "txn") /\ UNCHANGED <<res, stats>>
    BY <2>1, <2>4 DEF TypeOK, Goto
  <2> QED BY <1>2, <2>2, <2>3, <2>4 DEF PutCheck
<1>3. CASE PutTxn(t)
  <2>1. UNCHANGED <<arg, stats, opened, removed, calls>>
    BY <1>3 DEF PutTxn
  <2>2. CASE Goto(t, "dup") /\ UNCHANGED <<db, res>>
    BY <2>1, <2>2 DEF TypeOK, Goto
  <2>3. CASE Answer(t, "err", None) /\ UNCHANGED db
    BY <2>1, <2>3 DEF TypeOK
  <2>4. CASE /\ db' = [db EXCEPT ![arg[t].addr] = arg[t].content]
             /\ Goto(t, "new") /\ UNCHANGED res
    BY <2>1, <2>4 DEF TypeOK, Goto, Map, Request
  <2> QED BY <1>3, <2>2, <2>3, <2>4 DEF PutTxn
<1>4. CASE PutCount(t)
  <2>1. UNCHANGED <<db, arg, opened, removed, calls>>
    BY <1>4 DEF PutCount
  <2>2. pc[t] \in Result /\ Answer(t, pc[t], None)
    BY <1>4 DEF PutCount
  <2>3. stats' \in [Counter -> Nat]
    BY <1>4 DEF PutCount
  <2> QED BY <2>1, <2>2, <2>3 DEF TypeOK
<1>5. CASE Get(t)
  <2>1. UNCHANGED <<db, arg, opened, removed, calls>>
    BY <1>5 DEF Get
  <2>2. CASE Answer(t, "absent", None) /\ UNCHANGED stats
    BY <2>1, <2>2 DEF TypeOK
  <2>3. CASE Answer(t, "err", None) /\ Bump("verification_failures")
    BY <2>1, <2>3 DEF TypeOK
  <2>4. CASE Answer(t, "found", db[arg[t].addr]) /\ Bump("chunks_retrieved")
    <3>1. db[arg[t].addr] \in Content \cup {None}
      BY DEF TypeOK, Map, Request
    <3> QED BY <2>1, <2>4, <3>1 DEF TypeOK
  <2> QED BY <1>5, <2>2, <2>3, <2>4 DEF Get
<1>6. CASE Exists(t)
  BY <1>6 DEF TypeOK, Exists
<1>7. CASE Delete(t)
  <2>1. UNCHANGED <<arg, stats, opened, calls>>
    BY <1>7 DEF Delete
  <2>2. CASE /\ db' = [db EXCEPT ![arg[t].addr] = None]
             /\ removed' = removed + 1
             /\ Answer(t, "deleted", None)
    <3>1. db' \in Map
      BY <2>2 DEF TypeOK, Map
    <3>2. removed' \in Nat
      BY <2>2 DEF TypeOK
    <3> QED BY <2>1, <2>2, <3>1, <3>2 DEF TypeOK
  <2>3. CASE Answer(t, "missing", None) /\ UNCHANGED <<db, removed>>
    BY <2>1, <2>3 DEF TypeOK
  <2> QED BY <1>7, <2>2, <2>3 DEF Delete
<1>8. CASE IoError(t)
  BY <1>8 DEF TypeOK, IoError
<1>9. CASE Return(t)
  BY <1>9 DEF TypeOK, Return, Goto
<1> QED BY <1>1, <1>2, <1>3, <1>4, <1>5, <1>6, <1>7, <1>8, <1>9 DEF Step

\* The occupied addresses are finitely many.
LEMMA StoredFinite ==
    ASSUME NEW m
    PROVE  /\ IsFiniteSet(Stored(m))
           /\ Cardinality(Stored(m)) \in Nat
BY AddrFinite, FS_Subset, FS_CardinalityType DEF Stored

\* TypeOK is an invariant of the storage.
THEOREM TypeCorrect == Spec => []TypeOK
<1>1. Init => TypeOK
  BY DEF Init, TypeOK, Map, Idle, Result, ZeroStats, Counter
<1>2. TypeOK /\ [Next]_vars => TypeOK'
  <2> SUFFICES ASSUME TypeOK, [Next]_vars PROVE TypeOK'
    OBVIOUS
  <2>1. ASSUME NEW t \in Caller, Call(t) \/ Step(t) \/ IoError(t) PROVE TypeOK'
    BY <2>1, StepType
  <2>2. CASE Restart
    BY <2>2, StoredFinite DEF TypeOK, Restart, ZeroStats, Counter, Idle, Result
  <2>3. ASSUME NEW a \in Addr, Corrupt(a) PROVE TypeOK'
    BY <2>3 DEF TypeOK, Corrupt, Map
  <2>4. CASE UNCHANGED vars
    BY <2>4 DEF TypeOK, vars
  <2> QED BY <2>1, <2>2, <2>3, <2>4 DEF Next
<1> QED BY <1>1, <1>2, PTL DEF Spec

-----------------------------------------------------------------------------
\* What the three kinds of writes do to the number of entries.
LEMMA StoredAdd ==
    ASSUME NEW m \in Map, NEW a \in Addr, NEW c \in Content, a \notin Stored(m)
    PROVE  Cardinality(Stored([m EXCEPT ![a] = c])) = Cardinality(Stored(m)) + 1
<1>1. Stored([m EXCEPT ![a] = c]) = Stored(m) \cup {a}
  BY NoneAssumption DEF Stored, Map
<1> QED BY <1>1, StoredFinite, FS_AddElement

LEMMA StoredRemove ==
    ASSUME NEW m \in Map, NEW a \in Addr, a \in Stored(m)
    PROVE  Cardinality(Stored([m EXCEPT ![a] = None])) = Cardinality(Stored(m)) - 1
<1>1. Stored([m EXCEPT ![a] = None]) = Stored(m) \ {a}
  BY DEF Stored, Map
<1> QED BY <1>1, StoredFinite, FS_RemoveElement

LEMMA StoredReplace ==
    ASSUME NEW m \in Map, NEW a \in Addr, NEW c \in Content, a \in Stored(m)
    PROVE  Stored([m EXCEPT ![a] = c]) = Stored(m)
BY NoneAssumption DEF Stored, Map

\* How the set of committed but uncounted puts follows pc.
LEMMA UncountedMoves ==
    ASSUME TypeOK, NEW t \in Caller, NEW l, Goto(t, l)
    PROVE  /\ IsFiniteSet(Uncounted)
           /\ Cardinality(Uncounted) \in Nat
           /\ pc[t] # "new" /\ l # "new" => Uncounted' = Uncounted
           /\ pc[t] # "new" /\ l = "new"
                => Cardinality(Uncounted') = Cardinality(Uncounted) + 1
           /\ pc[t] = "new" /\ l # "new"
                => Cardinality(Uncounted') = Cardinality(Uncounted) - 1
<1>1. IsFiniteSet(Uncounted) /\ Cardinality(Uncounted) \in Nat
  BY CallerFinite, FS_Subset, FS_CardinalityType DEF Uncounted
<1>2. \A u \in Caller : pc'[u] = IF u = t THEN l ELSE pc[u]
  BY DEF TypeOK, Goto
<1>3. pc[t] # "new" /\ l # "new" => Uncounted' = Uncounted
  BY <1>2 DEF Uncounted
<1>4. pc[t] # "new" /\ l = "new" => Uncounted' = Uncounted \cup {t} /\ t \notin Uncounted
  BY <1>2 DEF Uncounted
<1>5. pc[t] = "new" /\ l # "new" => Uncounted' = Uncounted \ {t} /\ t \in Uncounted
  BY <1>2 DEF Uncounted
<1> QED BY <1>1, <1>3, <1>4, <1>5, FS_AddElement, FS_RemoveElement

\* The inductive invariant behind the two theorems below.
IInv == TypeOK /\ CapacityRespected /\ NoCounterDrift

\* A step that writes nothing and counts nothing keeps both.
LEMMA QuietStep ==
    ASSUME IInv, UNCHANGED <<db, opened, removed>>, Uncounted' = Uncounted,
           stats'["chunks_stored"] = stats["chunks_stored"]
    PROVE  (CapacityRespected /\ NoCounterDrift)'
BY DEF IInv, CapacityRespected, NoCounterDrift

\* Every step of a caller keeps the capacity and the count.
LEMMA StepCounts ==
    ASSUME IInv, NEW t \in Caller, Call(t) \/ Step(t) \/ IoError(t)
    PROVE  (CapacityRespected /\ NoCounterDrift)'
<1>0. /\ TypeOK /\ db \in Map /\ arg[t].addr \in Addr /\ arg[t].content \in Content
      /\ stats \in [Counter -> Nat] /\ removed \in Nat /\ opened \in Nat
  BY DEF IInv, TypeOK, Request
<1>1. CASE /\ UNCHANGED <<db, opened, removed>>
           /\ pc[t] # "new" /\ \E l : l # "new" /\ Goto(t, l)
           /\ stats'["chunks_stored"] = stats["chunks_stored"]
  BY <1>0, <1>1, UncountedMoves, QuietStep
<1>2. CASE Call(t)
  BY <1>1, <1>2 DEF Call
<1>3. CASE PutCheck(t)
  BY <1>0, <1>1, <1>3 DEF PutCheck, Answer, Bump, Counter
<1>4. CASE PutTxn(t)
  <2>1. CASE exists(arg[t].addr) \/ AtCapacity(db)
    BY <1>1, <1>4, <2>1 DEF PutTxn, Answer
  <2>2. CASE ~exists(arg[t].addr) /\ ~AtCapacity(db)
    <3>1. /\ db' = [db EXCEPT ![arg[t].addr] = arg[t].content]
          /\ pc[t] = "txn" /\ Goto(t, "new")
          /\ UNCHANGED <<stats, opened, removed>>
      BY <1>4, <2>2 DEF PutTxn
    <3>2. Cardinality(Stored(db)') = Cardinality(Stored(db)) + 1
      BY <1>0, <2>2, <3>1, StoredAdd DEF exists
    <3>3. Cardinality(Uncounted') = Cardinality(Uncounted) + 1
      BY <1>0, <3>1, UncountedMoves
    <3>4. CapacityRespected'
      BY <2>2, <3>2, StoredFinite, MaxChunksAssumption
      DEF AtCapacity, CapacityRespected
    <3>5. NoCounterDrift'
      <4>1. Cardinality(Stored(db)) \in Nat /\ Cardinality(Uncounted) \in Nat
        BY <1>0, <3>1, StoredFinite, UncountedMoves
      <4>2. stats["chunks_stored"] \in Nat
        BY <1>0 DEF Counter
      <4> QED BY <1>0, <3>1, <3>2, <3>3, <4>1, <4>2 DEF IInv, NoCounterDrift
    <3> QED BY <3>4, <3>5
  <2> QED BY <2>1, <2>2
<1>5. CASE PutCount(t)
  <2>1. CASE pc[t] = "dup"
    BY <1>0, <1>1, <1>5, <2>1 DEF PutCount, Answer, Bump, Counter
  <2>2. CASE pc[t] = "new"
    <3>1. /\ UNCHANGED <<db, opened, removed>> /\ Goto(t, "ret")
          /\ stats'["chunks_stored"] = stats["chunks_stored"] + 1
      BY <1>0, <1>5, <2>2 DEF PutCount, Answer, Bump, Counter
    <3>2. Cardinality(Uncounted') = Cardinality(Uncounted) - 1
          /\ Cardinality(Uncounted) \in Nat
      BY <1>0, <2>2, <3>1, UncountedMoves
    <3>3. stats["chunks_stored"] \in Nat /\ Cardinality(Stored(db)) \in Nat
      BY <1>0, StoredFinite DEF Counter
    <3> QED BY <1>0, <3>1, <3>2, <3>3 DEF IInv, CapacityRespected, NoCounterDrift
  <2> QED BY <1>5, <2>1, <2>2 DEF PutCount
<1>6. CASE Get(t)
  BY <1>0, <1>1, <1>6 DEF Get, Answer, Bump, Counter
<1>7. CASE Exists(t)
  BY <1>1, <1>7 DEF Exists, Answer
<1>8. CASE Delete(t)
  <2>1. pc[t] # "new" /\ Goto(t, "ret") /\ UNCHANGED <<stats, opened>>
    BY <1>8 DEF Delete, Answer
  <2>2. CASE ~exists(arg[t].addr)
    BY <1>1, <1>8, <2>1, <2>2 DEF Delete
  <2>3. CASE exists(arg[t].addr)
    <3>1. db' = [db EXCEPT ![arg[t].addr] = None] /\ removed' = removed + 1
      BY <1>8, <2>3 DEF Delete
    <3>2. Cardinality(Stored(db)') = Cardinality(Stored(db)) - 1
          /\ Cardinality(Stored(db)) \in Nat
      BY <1>0, <2>3, <3>1, StoredRemove, StoredFinite DEF exists
    <3>3. Uncounted' = Uncounted
      BY <1>0, <2>1, UncountedMoves
    <3> QED BY <1>0, <2>1, <3>1, <3>2, <3>3, MaxChunksAssumption
         DEF IInv, CapacityRespected, NoCounterDrift
  <2> QED BY <2>2, <2>3
<1>9. CASE IoError(t)
  BY <1>1, <1>9 DEF IoError, Answer
<1>10. CASE Return(t)
  BY <1>1, <1>10 DEF Return
<1> QED BY <1>2, <1>3, <1>4, <1>5, <1>6, <1>7, <1>8, <1>9, <1>10 DEF Step

\* IInv is an invariant.
LEMMA InvariantHolds == Spec => []IInv
<1>1. Init => CapacityRespected /\ NoCounterDrift
  <2> SUFFICES ASSUME Init PROVE CapacityRespected /\ NoCounterDrift
    OBVIOUS
  <2>1. Stored(db) = {} /\ Uncounted = {}
    BY DEF Init, Stored, Uncounted
  <2> QED BY <2>1, FS_EmptySet, MaxChunksAssumption
       DEF Init, CapacityRespected, NoCounterDrift, ZeroStats, Counter
<1>2. IInv /\ [Next]_vars => (CapacityRespected /\ NoCounterDrift)'
  <2> SUFFICES ASSUME IInv, [Next]_vars
               PROVE  (CapacityRespected /\ NoCounterDrift)'
    OBVIOUS
  <2>1. ASSUME NEW t \in Caller, Call(t) \/ Step(t) \/ IoError(t)
        PROVE  (CapacityRespected /\ NoCounterDrift)'
    BY <2>1, StepCounts
  <2>2. CASE Restart
    <3>1. Uncounted' = {} /\ db' = db /\ opened' = Cardinality(Stored(db))
          /\ removed' = 0 /\ stats'["chunks_stored"] = 0
      BY <2>2 DEF Restart, Uncounted, ZeroStats, Counter
    <3> QED BY <3>1, StoredFinite, FS_EmptySet DEF IInv, CapacityRespected, NoCounterDrift
  <2>3. ASSUME NEW a \in Addr, Corrupt(a)
        PROVE  (CapacityRespected /\ NoCounterDrift)'
    <3>1. db \in Map BY DEF IInv, TypeOK
    <3>2. Stored(db)' = Stored(db)
      <4>1. PICK c \in Content : db' = [db EXCEPT ![a] = c]
        BY <2>3 DEF Corrupt
      <4>2. Stored([db EXCEPT ![a] = c]) = Stored(db)
        BY <2>3, <3>1, StoredReplace DEF Corrupt, exists
      <4> QED BY <4>1, <4>2 DEF Stored
    <3>3. UNCHANGED <<pc, stats, opened, removed>> /\ Uncounted' = Uncounted
      BY <2>3 DEF Corrupt, Uncounted
    <3> QED BY <3>2, <3>3 DEF IInv, CapacityRespected, NoCounterDrift
  <2>4. CASE UNCHANGED vars
    BY <2>4, QuietStep DEF vars, Uncounted
  <2> QED BY <2>1, <2>2, <2>3, <2>4 DEF Next
<1> QED BY <1>1, <1>2, TypeCorrect, PTL DEF Spec, IInv

\* The capacity is respected for every number of racing callers: the check
\* and the write of put are one transaction.
THEOREM CapacityTheorem == Spec => []CapacityRespected
BY InvariantHolds, PTL DEF IInv

\* The number of entries always equals what the counters say, up to the
\* committed puts that are about to be counted.
THEOREM NoDriftTheorem == Spec => []NoCounterDrift
BY InvariantHolds, PTL DEF IInv
-----------------------------------------------------------------------------
(* The storage implements the atomic store *)

\* A caller in its write transaction has passed the check of the address.
TxnInv == \A t \in Caller : pc[t] = "txn" => arg[t].op = "put" /\ Hash[arg[t].content] = arg[t].addr

LEMMA NextTxn == TypeOK /\ TxnInv /\ [Next]_vars => TxnInv'
<1> SUFFICES ASSUME TypeOK, TxnInv, [Next]_vars PROVE TxnInv'
  OBVIOUS
<1>0. pc \in [Caller -> {"idle", "start", "txn", "new", "dup", "ret"}] /\ arg \in [Caller -> Request]
  BY DEF TypeOK
<1>1. ASSUME NEW t \in Caller, Call(t) PROVE TxnInv'
  <2>1. pc'[t] = "start" /\ \A u \in Caller \ {t} : pc'[u] = pc[u] /\ arg'[u] = arg[u]
    BY <1>0, <1>1 DEF Call, Goto
  <2> QED
    BY <2>1 DEF TxnInv
<1>2. ASSUME NEW t \in Caller, Step(t) \/ IoError(t) PROVE TxnInv'
  <2>1. UNCHANGED arg /\ \A u \in Caller \ {t} : pc'[u] = pc[u]
    BY <1>0, <1>2 DEF Step, IoError, PutCheck, PutTxn, PutCount, Get, Exists, Delete, Return, Answer, Goto
  <2>2. pc'[t] = "txn" => PutCheck(t) /\ Hash[arg[t].content] = arg[t].addr
    BY <1>0, <1>2 DEF Step, IoError, PutCheck, PutTxn, PutCount, Get, Exists, Delete, Return, Answer, Goto
  <2> QED
    BY <2>1, <2>2 DEF TxnInv, PutCheck
<1>3. CASE Restart
  BY <1>3 DEF TxnInv, Restart
<1>4. CASE UNCHANGED <<pc, arg>>
  BY <1>4 DEF TxnInv
<1> QED
  BY <1>1, <1>2, <1>3, <1>4 DEF Next, vars, Corrupt

\* Where a caller is, seen from outside.
LEMMA PhaseOf ==
    ASSUME NEW t \in Caller
    PROVE  /\ pc[t] = "idle" => AbsPhase[t] = "idle"
           /\ pc[t] \in {"start", "txn"} => AbsPhase[t] = "pending"
           /\ pc[t] \in {"new", "dup", "ret"} => AbsPhase[t] = "done"
BY DEF AbsPhase

\* The other callers do not notice.
LEMMA MoveMaps ==
    ASSUME TypeOK, NEW t \in Caller, NEW l \in {"idle", "start", "txn", "new", "dup", "ret"}, Goto(t, l)
    PROVE  /\ l = "idle" => AbsPhase' = [AbsPhase EXCEPT ![t] = "idle"]
           /\ l \in {"start", "txn"} => AbsPhase' = [AbsPhase EXCEPT ![t] = "pending"]
           /\ l \in {"new", "dup", "ret"} => AbsPhase' = [AbsPhase EXCEPT ![t] = "done"]
<1>1. pc' = [pc EXCEPT ![t] = l] /\ pc \in [Caller -> {"idle", "start", "txn", "new", "dup", "ret"}]
  BY DEF Goto, TypeOK
<1> QED
  BY <1>1 DEF AbsPhase

\* A step that answers is the step in which the operation takes effect.
LEMMA AnswerMaps ==
    ASSUME TypeOK, NEW t \in Caller, pc[t] \in {"start", "txn"}, NEW r, NEW o, Answer(t, r, o), UNCHANGED arg,
           NEW m, db' = m
    PROVE  CS!TakeEffect(t, r, o, m)
<1>1. AbsPhase[t] = "pending" /\ AbsPhase' = [AbsPhase EXCEPT ![t] = "done"]
  BY PhaseOf, MoveMaps DEF Answer
<1>2. AbsRet' = [AbsRet EXCEPT ![t] = [res |-> r, out |-> o]]
  BY DEF AbsRet, Answer, Goto, TypeOK
<1> QED
  BY <1>1, <1>2 DEF CS!TakeEffect

\* So is the commit of a put, although it has yet to be counted.
LEMMA CommitMaps ==
    ASSUME TypeOK, NEW t \in Caller, pc[t] = "txn", NEW r \in {"new", "dup"}, Goto(t, r), UNCHANGED <<arg, res>>,
           NEW m, db' = m
    PROVE  CS!TakeEffect(t, r, None, m)
<1>1. AbsPhase[t] = "pending" /\ AbsPhase' = [AbsPhase EXCEPT ![t] = "done"]
  BY PhaseOf, MoveMaps
<1>2. AbsRet' = [AbsRet EXCEPT ![t] = [res |-> r, out |-> None]]
  BY DEF AbsRet, Goto, TypeOK
<1> QED
  BY <1>1, <1>2 DEF CS!TakeEffect

LEMMA SameStored == (\A m : CS!Stored(m) = Stored(m)) /\ (\A m : CS!AtCapacity(m) <=> AtCapacity(m))
<1>1. ASSUME NEW m PROVE CS!Stored(m) = Stored(m)
  BY DEF CS!Stored, Stored
<1>2. \A S : CS!Cardinality(S) = Cardinality(S)
  BY DEF CS!Cardinality, Cardinality
<1>3. ASSUME NEW m PROVE CS!AtCapacity(m) <=> AtCapacity(m)
  BY <1>1, <1>2 DEF CS!AtCapacity, AtCapacity
<1> QED
  BY <1>1, <1>3

LEMMA PutMaps ==
    ASSUME TypeOK, TxnInv, NEW t \in Caller, PutCheck(t) \/ PutTxn(t) \/ PutCount(t)
    PROVE  CS!AbsPut(t) \/ CS!AbsFail(t) \/ UNCHANGED <<db, AbsPhase, arg, AbsRet>>
<1> DEFINE a == arg[t].addr
           c == arg[t].content
<1>1. CASE PutCheck(t)
  <2>1. CASE Answer(t, "err", None)
    BY <1>1, <2>1, AnswerMaps DEF PutCheck, CS!AbsFail
  <2>2. CASE Hash[c] = a /\ exists(a) /\ Answer(t, "dup", None)
    <3>1. CS!TakeEffect(t, "dup", None, db)
      BY <1>1, <2>2, AnswerMaps DEF PutCheck
    <3> QED
      BY <1>1, <2>2, <3>1, SameStored DEF PutCheck, CS!AbsPut, exists
  <2>3. CASE Goto(t, "txn") /\ UNCHANGED res
    <3>1. pc[t] = "start" /\ AbsPhase' = [AbsPhase EXCEPT ![t] = "pending"] /\ AbsPhase[t] = "pending"
      BY <1>1, <2>3, PhaseOf, MoveMaps DEF PutCheck
    <3>2. AbsPhase' = AbsPhase
      BY <3>1 DEF AbsPhase
    <3>3. AbsRet' = AbsRet
      BY <2>3, <3>1 DEF AbsRet, Goto, TypeOK
    <3> QED
      BY <1>1, <3>2, <3>3 DEF PutCheck
  <2> QED
    BY <1>1, <2>1, <2>2, <2>3 DEF PutCheck
<1>2. CASE PutTxn(t)
  <2>1. pc[t] = "txn" /\ arg[t].op = "put" /\ Hash[c] = a /\ UNCHANGED arg
    BY <1>2 DEF PutTxn, TxnInv
  <2>2. CASE exists(a) /\ Goto(t, "dup") /\ UNCHANGED <<db, res>>
    <3>1. CS!TakeEffect(t, "dup", None, db)
      BY <2>1, <2>2, CommitMaps
    <3> QED
      BY <2>1, <2>2, <3>1, SameStored DEF CS!AbsPut, exists
  <2>3. CASE Answer(t, "err", None) /\ UNCHANGED db
    BY <2>1, <2>3, AnswerMaps DEF CS!AbsFail
  <2>4. CASE ~exists(a) /\ ~AtCapacity(db) /\ db' = [db EXCEPT ![a] = c] /\ Goto(t, "new") /\ UNCHANGED res
    <3>1. CS!TakeEffect(t, "new", None, [db EXCEPT ![a] = c])
      BY <2>1, <2>4, CommitMaps
    <3> QED
      BY <2>1, <2>4, <3>1, SameStored DEF CS!AbsPut, exists
  <2> QED
    BY <1>2, <2>2, <2>3, <2>4 DEF PutTxn
<1>3. CASE PutCount(t)
  <2>1. pc[t] \in {"new", "dup"} /\ Answer(t, pc[t], None) /\ UNCHANGED <<db, arg>>
    BY <1>3 DEF PutCount
  <2>2. AbsPhase' = AbsPhase
    <3>1. AbsPhase' = [AbsPhase EXCEPT ![t] = "done"] /\ AbsPhase[t] = "done"
      BY <2>1, PhaseOf, MoveMaps DEF Answer
    <3> QED
      BY <3>1 DEF AbsPhase
  <2>3. AbsRet' = AbsRet
    BY <2>1 DEF AbsRet, Answer, Goto, TypeOK
  <2> QED
    BY <2>1, <2>2, <2>3
<1> QED
  BY <1>1, <1>2, <1>3

LEMMA ReadMaps ==
    ASSUME TypeOK, NEW t \in Caller, Get(t) \/ Exists(t) \/ Delete(t) \/ IoError(t)
    PROVE  CS!AbsGet(t) \/ CS!AbsExists(t) \/ CS!AbsDelete(t) \/ CS!AbsFail(t)
<1> DEFINE a == arg[t].addr
<1>1. pc[t] \in {"start", "txn"} /\ UNCHANGED arg
  BY DEF Get, Exists, Delete, IoError
<1>2. CASE Answer(t, "err", None) /\ UNCHANGED db
  BY <1>1, <1>2, AnswerMaps DEF CS!AbsFail
<1>3. CASE Get(t)
  <2>1. CASE ~exists(a) /\ Answer(t, "absent", None)
    <3>1. CS!TakeEffect(t, "absent", None, db)
      BY <1>1, <1>3, <2>1, AnswerMaps DEF Get
    <3> QED
      BY <1>3, <2>1, <3>1, SameStored DEF Get, CS!AbsGet, exists
  <2>2. CASE exists(a) /\ (VerifyOnRead => Hash[db[a]] = a) /\ Answer(t, "found", db[a])
    <3>1. CS!TakeEffect(t, "found", db[a], db)
      BY <1>1, <1>3, <2>2, AnswerMaps DEF Get
    <3> QED
      BY <1>3, <2>2, <3>1, SameStored DEF Get, CS!AbsGet, exists
  <2> QED
    BY <1>2, <1>3, <2>1, <2>2 DEF Get
<1>4. CASE Exists(t)
  <2>1. CS!TakeEffect(t, IF exists(a) THEN "found" ELSE "absent", None, db)
    BY <1>1, <1>4, AnswerMaps DEF Exists
  <2> QED
    BY <1>4, <2>1, SameStored DEF Exists, CS!AbsExists, exists
<1>5. CASE Delete(t)
  <2>1. CASE exists(a) /\ db' = [db EXCEPT ![a] = None] /\ Answer(t, "deleted", None)
    <3>1. CS!TakeEffect(t, "deleted", None, [db EXCEPT ![a] = None])
      BY <1>1, <2>1, AnswerMaps
    <3> QED
      BY <1>5, <2>1, <3>1, SameStored DEF Delete, CS!AbsDelete, exists
  <2>2. CASE ~exists(a) /\ UNCHANGED db /\ Answer(t, "missing", None)
    <3>1. [db EXCEPT ![a] = None] = db
      BY <2>2 DEF exists, Stored, TypeOK, Map, Request
    <3>2. CS!TakeEffect(t, "missing", None, [db EXCEPT ![a] = None])
      BY <1>1, <2>2, <3>1, AnswerMaps
    <3> QED
      BY <1>5, <2>2, <3>2, SameStored DEF Delete, CS!AbsDelete, exists
  <2> QED
    BY <1>5, <2>1, <2>2 DEF Delete
<1>6. CASE IoError(t)
  BY <1>2, <1>6 DEF IoError
<1> QED
  BY <1>3, <1>4, <1>5, <1>6

LEMMA NextMaps == TypeOK /\ TxnInv /\ [Next]_vars => [CS!AbsNext]_<<db, AbsPhase, arg, AbsRet>>
<1> SUFFICES ASSUME TypeOK, TxnInv, [Next]_vars PROVE [CS!AbsNext]_<<db, AbsPhase, arg, AbsRet>>
  OBVIOUS
<1>1. ASSUME NEW t \in Caller, Call(t) PROVE CS!Invoke(t)
  <2>1. AbsPhase[t] = "idle" /\ AbsPhase' = [AbsPhase EXCEPT ![t] = "pending"]
    BY <1>1, PhaseOf, MoveMaps DEF Call
  <2>2. AbsRet' = AbsRet
    BY <1>1 DEF Call, AbsRet, Goto, TypeOK
  <2> QED
    BY <1>1, <2>1, <2>2 DEF Call, CS!Invoke, CS!Request, CS!Op, Request, Op
<1>2. ASSUME NEW t \in Caller, Return(t) PROVE CS!Return(t)
  <2>1. AbsPhase[t] = "done" /\ AbsPhase' = [AbsPhase EXCEPT ![t] = "idle"]
    BY <1>2, PhaseOf, MoveMaps DEF Return
  <2>2. AbsRet' = AbsRet
    BY <1>2 DEF Return, AbsRet, Goto, TypeOK
  <2> QED
    BY <1>2, <2>1, <2>2 DEF Return, CS!Return
<1>3. CASE Restart
  <2>1. AbsPhase' = [t \in Caller |-> "idle"]
    BY <1>3 DEF Restart, AbsPhase
  <2>2. AbsRet' = [t \in Caller |-> CS!NoRet]
    BY <1>3 DEF Restart, AbsRet, Idle, CS!NoRet
  <2>3. CS!AbsCrash
    BY <1>3, <2>1, <2>2 DEF Restart, CS!AbsCrash
  <2> QED
    BY <2>3 DEF CS!AbsNext
<1>4. ASSUME NEW a \in Addr, Corrupt(a) PROVE CS!AbsCorrupt(a)
  BY <1>4, SameStored DEF Corrupt, CS!AbsCorrupt, exists, AbsPhase, AbsRet
<1>5. CASE UNCHANGED vars
  BY <1>5 DEF vars, AbsPhase, AbsRet
<1> QED
  BY <1>1, <1>2, <1>3, <1>4, <1>5, PutMaps, ReadMaps DEF Next, Step, CS!AbsNext

\* The LMDB storage is linearizable: put, get, exists and delete each take
\* effect in one indivisible step between the call and the return, although a
\* put reads, writes and counts in three steps that others interleave with,
\* and a crash loses no stored chunk.
THEOREM StorageTheorem == Spec => ImplementsContentStore
<1>1. Init => CS!AbsInit
  <2> SUFFICES ASSUME Init PROVE CS!AbsInit
    OBVIOUS
  <2>1. AbsPhase = [t \in Caller |-> "idle"] /\ AbsRet = [t \in Caller |-> CS!NoRet]
    BY DEF Init, AbsPhase, AbsRet, Idle, CS!NoRet
  <2> QED
    BY <2>1 DEF Init, CS!AbsInit, CS!Request, CS!Op, Request, Op
<1>2. Init => TxnInv
  BY DEF Init, TxnInv
<1>3. Spec => []TxnInv
  BY <1>2, NextTxn, TypeCorrect, PTL DEF Spec
<1> QED
  BY <1>1, <1>3, NextMaps, TypeCorrect, PTL DEF Spec, ImplementsContentStore, CS!AbsSpec, CS!absVars
=============================================================================
