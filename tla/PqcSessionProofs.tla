-------------------------- MODULE PqcSessionProofs --------------------------
(***************************************************************************)
(* No nonce of a PQC session is used twice, no permit is lost or used      *)
(* twice, and the two counters differ by the streams that were not         *)
(* numbered: for any number of sessions and concurrent calls, any limits   *)
(* and any order in which the streams are created and accepted.            *)
(***************************************************************************)
EXTENDS PqcSession, FiniteSetTheorems, TLAPS

\* Streams that were admitted: their number was read from the counter.
Admitted(c) == srv[c] \in {"reading", "handling", "replied"}

\* The client's counter is ahead of every number it has used.
ClientAhead ==
    /\ \A s \in Session : cseq[s] <= MaxSeq
    /\ \A e \in enc : e.dir = "c2s" => e.seq < cseq[e.sess]

\* So is the server's while its accept loop runs.
ServerAhead ==
    \A s \in Session : link[s] # "closed" =>
        /\ sseq[s] <= MaxSeq
        /\ \A c \in Call : (Admitted(c) /\ sess[c] = s) => num[c] < sseq[s]

\* Admitted streams of a session have different numbers.
NumUnique ==
    \A c, d \in Call :
        (Admitted(c) /\ Admitted(d) /\ sess[c] = sess[d] /\ num[c] = num[d]) => c = d

\* A response is encrypted once, under the number of its stream.
ResponseNonce ==
    \A e \in enc : e.dir = "s2c" =>
        e.sess = sess[e.call] /\ e.seq = num[e.call] /\ srv[e.call] = "replied"

\* The client's half of NonceUnique.
RequestUnique ==
    \A e, f \in enc :
        (e.dir = "c2s" /\ f.dir = "c2s" /\ e.sess = f.sess /\ e.seq = f.seq)
            => e.call = f.call

\* The server knows no stream the client has not created.
Fresh == \A c \in Call : pc[c] \in {"idle", "creating"} => srv[c] = "none"

\* The part of TypeOK the argument needs.
TypeInv ==
    /\ link \in [Session -> {"new", "session", "accepted", "up", "closed"}]
    /\ cseq \in [Session -> 0 .. (Width - 1)]
    /\ sseq \in [Session -> 0 .. (Width - 1)]
    /\ pc \in [Call -> CallState]
    /\ sess \in [Call -> Session]
    /\ seq \in [Call -> 0 .. (Width - 1)]
    /\ srv \in [Call -> StreamState]
    /\ num \in [Call -> 0 .. (Width - 1)]
    /\ enc \subseteq Encryption

IInv ==
    /\ TypeInv /\ Fresh
    /\ ClientAhead /\ ServerAhead
    /\ NumUnique /\ ResponseNonce /\ RequestUnique

\* Below the limit the counters do not wrap.
LEMMA NoWrap ==
    ASSUME NEW n \in 0 .. (Width - 1), n < MaxSeq
    PROVE  (n + 1) % Width = n + 1 /\ n + 1 \in 0 .. (Width - 1) /\ n + 1 <= MaxSeq
BY SeqAssumption

\* At the start nothing was encrypted and no stream was accepted.
LEMMA InitIInv == Init => IInv
BY SeqAssumption
   DEF Init, IInv, TypeInv, ClientAhead, ServerAhead, NumUnique, ResponseNonce,
       RequestUnique, Admitted, StreamState, CallState, Fresh

\* send_request: the number it takes is one no request of the session had.
LEMMA StartIInv == ASSUME IInv, NEW c \in Call, Start(c) PROVE IInv'
<1> DEFINE s == sess[c]
           n == cseq[s]
           new == [sess |-> s, dir |-> "c2s", seq |-> n, call |-> c]
<1>0. s \in Session /\ n \in 0 .. (Width - 1)
  BY DEF IInv, TypeInv
<1>a. /\ pc[c] = "idle" /\ UNCHANGED <<srv, sess, num, sseq, link>>
      /\ pc' = [pc EXCEPT ![c] = "failed"] \/ pc' = [pc EXCEPT ![c] = "creating"]
  BY DEF Start, ClientGoto
<1>b. Fresh' /\ pc' \in [Call -> CallState]
  BY <1>a DEF IInv, TypeInv, Fresh, CallState
<1>1. CASE UNCHANGED <<cseq, seq, enc>>
  BY <1>1, <1>a, <1>b DEF IInv, TypeInv, ClientAhead, ServerAhead, NumUnique, ResponseNonce,
              RequestUnique, Admitted
<1>2. CASE /\ n < MaxSeq
           /\ cseq' = [cseq EXCEPT ![s] = (n + 1) % Width]
           /\ seq' = [seq EXCEPT ![c] = n]
           /\ enc' = enc \cup {new}
  <2>1. cseq' = [cseq EXCEPT ![s] = n + 1] /\ n + 1 \in 0 .. (Width - 1) /\ n + 1 <= MaxSeq
    BY <1>0, <1>2, NoWrap
  <2>2. UNCHANGED <<link, sseq, num, sess, srv>>
    BY DEF Start
  <2>3. new \in Encryption
    BY <1>0 DEF Encryption, Direction
  <2>4. TypeInv'
    <3>1. cseq' \in [Session -> 0 .. (Width - 1)]
      BY <2>1 DEF IInv, TypeInv
    <3>2. seq' \in [Call -> 0 .. (Width - 1)]
      BY <1>0, <1>2 DEF IInv, TypeInv
    <3>3. enc' \subseteq Encryption
      BY <1>2, <2>3 DEF IInv, TypeInv
    <3> QED
      BY <1>b, <2>2, <3>1, <3>2, <3>3 DEF IInv, TypeInv
  <2>5. \A e \in enc : e.sess \in Session /\ e.seq \in 0 .. (Width - 1)
    BY DEF IInv, TypeInv, Encryption
  <2>6. ClientAhead'
    <3>1. \A t \in Session : cseq'[t] <= MaxSeq /\ cseq'[t] >= cseq[t]
      BY <1>0, <2>1 DEF IInv, TypeInv, ClientAhead
    <3>2. \A e \in enc : e.dir = "c2s" => e.seq < cseq'[e.sess]
      BY <3>1, <2>1, <2>5, SeqAssumption DEF IInv, TypeInv, ClientAhead
    <3>3. new.seq < cseq'[new.sess]
      BY <1>0, <2>1 DEF IInv, TypeInv
    <3> QED
      BY <3>1, <3>2, <3>3, <1>2 DEF ClientAhead
  <2>7. ServerAhead' /\ NumUnique'
    BY <2>2 DEF IInv, ServerAhead, NumUnique, Admitted
  <2>8. ResponseNonce'
    BY <1>2, <2>2 DEF IInv, ResponseNonce
  <2>9. RequestUnique'
    <3>1. \A e \in enc : (e.dir = "c2s" /\ e.sess = s) => e.seq # n
      BY <1>0, <2>5 DEF IInv, ClientAhead
    <3> QED
      BY <3>1, <1>2 DEF IInv, RequestUnique
  <2> QED
    BY <1>b, <2>4, <2>6, <2>7, <2>8, <2>9 DEF IInv
<1> QED
  BY <1>1, <1>2 DEF Start, Encrypt

\* The accept loop: an admitted stream gets a number no other has.
LEMMA AcceptIInv == ASSUME IInv, NEW c \in Call, Accept(c) PROVE IInv'
<1> DEFINE s == sess[c]
           n == sseq[s]
<1>0. /\ s \in Session /\ n \in 0 .. (Width - 1) /\ link[s] # "closed"
      /\ n <= MaxSeq
      /\ \A d \in Call : Admitted(d) /\ sess[d] = s => num[d] < n
  BY DEF IInv, TypeInv, ServerAhead, Accept
<1>1. /\ UNCHANGED <<cseq, pc, sess, seq, enc>>
      /\ sseq' = [sseq EXCEPT ![s] = (n + 1) % Width]
      /\ num' = [num EXCEPT ![c] = n]
      /\ ~Admitted(c)
  BY DEF Accept, Admitted
<1>2. (n + 1) % Width \in 0 .. (Width - 1)
  BY <1>0, SeqAssumption
<1>3. \A e \in enc : e.dir = "s2c" => e.call # c
  BY <1>1 DEF IInv, ResponseNonce, Admitted
<1>4. \A e \in enc : e.call \in Call
  BY DEF IInv, TypeInv, Encryption
<1>f. Fresh'
  BY DEF IInv, TypeInv, Fresh, Accept, StreamGoto
<1>5. CASE /\ n < MaxSeq /\ link' = link /\ srv' = [srv EXCEPT ![c] = "reading"]
  <2>1. sseq' = [sseq EXCEPT ![s] = n + 1] /\ n + 1 <= MaxSeq
    BY <1>0, <1>1, <1>5, NoWrap
  <2>2. \A d \in Call : Admitted(d)' <=> (d = c \/ Admitted(d))
    BY <1>5 DEF Admitted, IInv, TypeInv
  <2>3. TypeInv'
    BY <1>0, <1>1, <1>2, <1>5 DEF IInv, TypeInv, StreamState
  <2>4. ClientAhead' /\ RequestUnique'
    BY <1>1 DEF IInv, ClientAhead, RequestUnique
  <2>5. ServerAhead'
    <3> SUFFICES ASSUME NEW t \in Session, link'[t] # "closed"
                 PROVE  /\ sseq'[t] <= MaxSeq
                        /\ \A d \in Call :
                              (Admitted(d)' /\ sess'[d] = t) => num'[d] < sseq'[t]
      BY DEF ServerAhead
    <3>1. sseq[t] <= MaxSeq /\ sseq[t] \in Nat
          /\ \A d \in Call : Admitted(d) /\ sess[d] = t => num[d] < sseq[t]
      BY <1>5, SeqAssumption DEF IInv, ServerAhead, TypeInv
    <3>2. CASE t = s
      <4>1. sseq'[t] = n + 1 /\ num'[c] = n /\ \A d \in Call : num[d] \in Nat
        BY <3>2, <1>0, <1>1, <2>1, SeqAssumption DEF IInv, TypeInv
      <4>2. \A d \in Call : d # c => num'[d] = num[d]
        BY <1>1 DEF IInv, TypeInv
      <4> QED
        BY <4>1, <4>2, <3>1, <3>2, <1>0, <1>1, <2>1, <2>2
    <3>3. CASE t # s
      <4>1. sseq'[t] = sseq[t] /\ (\A d \in Call : sess[d] = t => num'[d] = num[d])
        BY <3>3, <1>0, <1>1 DEF IInv, TypeInv
      <4> QED
        BY <4>1, <3>1, <3>3, <1>1, <2>2
    <3> QED
      BY <3>2, <3>3
  <2>6. NumUnique'
    <3> SUFFICES ASSUME NEW a \in Call, NEW b \in Call, Admitted(a)', Admitted(b)',
                        sess[a] = sess[b], num'[a] = num'[b]
                 PROVE  a = b
      BY <1>1 DEF NumUnique
    <3>1. CASE a # c /\ b # c
      BY <3>1, <1>1, <2>2 DEF IInv, TypeInv, NumUnique
    <3>2. CASE a = c /\ b # c
      BY <3>2, <1>0, <1>1, <2>2 DEF IInv, TypeInv
    <3>3. CASE a # c /\ b = c
      BY <3>3, <1>0, <1>1, <2>2 DEF IInv, TypeInv
    <3> QED
      BY <3>1, <3>2, <3>3
  <2>7. ResponseNonce'
    BY <1>1, <1>3, <1>4, <1>5 DEF IInv, TypeInv, ResponseNonce
  <2> QED
    BY <1>f, <2>3, <2>4, <2>5, <2>6, <2>7 DEF IInv
<1>6. CASE /\ srv' = [srv EXCEPT ![c] = "dropped"]
           /\ \/ n < MaxSeq /\ link' = link
              \/ link' = [link EXCEPT ![s] = "closed"]
  <2>1. \A d \in Call : Admitted(d)' <=> Admitted(d)
    BY <1>1, <1>6 DEF Admitted, IInv, TypeInv
  <2>2. \A d \in Call : Admitted(d) => num'[d] = num[d]
    BY <1>1 DEF IInv, TypeInv
  <2>3. TypeInv'
    BY <1>0, <1>1, <1>2, <1>6 DEF IInv, TypeInv, StreamState
  <2>4. ClientAhead' /\ RequestUnique'
    BY <1>1 DEF IInv, ClientAhead, RequestUnique
  <2>5. ServerAhead'
    <3> SUFFICES ASSUME NEW t \in Session, link'[t] # "closed"
                 PROVE  /\ sseq'[t] <= MaxSeq
                        /\ \A d \in Call :
                              (Admitted(d)' /\ sess'[d] = t) => num'[d] < sseq'[t]
      BY DEF ServerAhead
    <3>1. link[t] # "closed"
      BY <1>6 DEF IInv, TypeInv
    <3>2. sseq[t] <= MaxSeq /\ sseq[t] \in Nat
          /\ \A d \in Call : Admitted(d) /\ sess[d] = t => num[d] < sseq[t]
      BY <3>1, SeqAssumption DEF IInv, ServerAhead, TypeInv
    <3>3. CASE t # s
      BY <3>2, <3>3, <1>0, <1>1, <2>1, <2>2 DEF IInv, TypeInv
    <3>4. CASE t = s
      <4>1. n < MaxSeq
        BY <3>4, <1>0, <1>6 DEF IInv, TypeInv
      <4>2. sseq'[t] = n + 1 /\ n + 1 <= MaxSeq
        BY <4>1, <3>4, <1>0, <1>1, NoWrap DEF IInv, TypeInv
      <4>3. \A d \in Call : num[d] \in Nat
        BY SeqAssumption DEF IInv, TypeInv
      <4> QED
        BY <4>1, <4>2, <4>3, <3>2, <3>4, <1>0, <1>1, <2>1, <2>2
    <3> QED
      BY <3>3, <3>4
  <2>6. NumUnique'
    BY <2>1, <2>2, <1>1 DEF IInv, NumUnique
  <2>7. ResponseNonce'
    BY <1>1, <1>3, <1>4, <1>6 DEF IInv, TypeInv, ResponseNonce
  <2> QED
    BY <1>f, <2>3, <2>4, <2>5, <2>6, <2>7 DEF IInv
<1> QED
  <2>1. \/ /\ n < MaxSeq /\ link' = link /\ srv' = [srv EXCEPT ![c] = "reading"]
        \/ /\ srv' = [srv EXCEPT ![c] = "dropped"]
           /\ \/ n < MaxSeq /\ link' = link
              \/ link' = [link EXCEPT ![s] = "closed"]
    BY <1>0, SeqAssumption DEF Accept, StreamGoto
  <2> QED
    BY <2>1, <1>5, <1>6

\* The handler encrypts one response, under its stream's number.
LEMMA RespondIInv == ASSUME IInv, NEW c \in Call, Respond(c) PROVE IInv'
<1> DEFINE new == [sess |-> sess[c], dir |-> "s2c", seq |-> num[c], call |-> c]
<1>1. UNCHANGED <<link, cseq, sseq, seq, num, pc, sess>> /\ srv[c] = "handling"
  BY DEF Respond, counters
<1>2. new \in Encryption
  BY DEF IInv, TypeInv, Encryption, Direction
<1>3. \A e \in enc : e.dir = "s2c" => e.call # c
  BY <1>1 DEF IInv, ResponseNonce
<1>4. \A e \in enc : e.call \in Call
  BY DEF IInv, TypeInv, Encryption
<1>5. \/ enc' = enc \cup {new} /\ srv' = [srv EXCEPT ![c] = "replied"]
      \/ enc' = enc /\ srv' = [srv EXCEPT ![c] = "dropped"]
  BY DEF Respond, Encrypt, StreamGoto
<1>6. TypeInv'
  BY <1>1, <1>2, <1>5 DEF IInv, TypeInv, StreamState
<1>7. ClientAhead' /\ RequestUnique'
  BY <1>1, <1>5 DEF IInv, ClientAhead, RequestUnique
<1>8. \A d \in Call : Admitted(d)' => Admitted(d)
  BY <1>1, <1>5 DEF Admitted, IInv, TypeInv
<1>9. ServerAhead' /\ NumUnique'
  BY <1>1, <1>8 DEF IInv, ServerAhead, NumUnique
<1>10. ResponseNonce'
  BY <1>1, <1>3, <1>4, <1>5 DEF IInv, TypeInv, ResponseNonce
<1>11. Fresh'
  BY <1>1, <1>5 DEF IInv, TypeInv, Fresh
<1> QED
  BY <1>6, <1>7, <1>9, <1>10, <1>11 DEF IInv

\* Steps that encrypt nothing and admit no stream: a stream may move on or be
\* dropped and a session may be closed.
LEMMA QuietIInv ==
    ASSUME IInv,
           UNCHANGED <<cseq, sseq, seq, num, sess, enc>>,
           TypeInv', Fresh',
           \A s \in Session : link'[s] # "closed" => link[s] # "closed",
           \A c \in Call : Admitted(c)' => Admitted(c),
           \A c \in Call : srv[c] = "replied" => srv'[c] = "replied"
    PROVE  IInv'
<1>1. \A e \in enc : e.call \in Call
  BY DEF IInv, TypeInv, Encryption
<1>2. ClientAhead' /\ RequestUnique'
  BY DEF IInv, ClientAhead, RequestUnique
<1>3. ServerAhead' /\ NumUnique'
  BY DEF IInv, ServerAhead, NumUnique
<1>4. ResponseNonce'
  BY <1>1 DEF IInv, ResponseNonce
<1> QED
  BY <1>2, <1>3, <1>4 DEF IInv

\* Every step of the system keeps the inductive invariant.
LEMMA NextIInv == IInv /\ [Next]_vars => IInv'
<1> SUFFICES ASSUME IInv, [Next]_vars PROVE IInv'
  OBVIOUS
<1>1. CASE UNCHANGED vars
  BY <1>1, QuietIInv DEF vars, Admitted, IInv, TypeInv, Fresh
<1>2. ASSUME NEW s \in Session,
             ServeSession(s) \/ ServerHandshake(s) \/ ClientHandshake(s) \/ Close(s)
      PROVE  IInv'
  BY <1>2, QuietIInv
     DEF ServeSession, ServerHandshake, ClientHandshake, Close, counters, Admitted, IInv,
         TypeInv, Fresh
<1>3. ASSUME NEW c \in Call, OpenStream(c) PROVE IInv'
  <2>1. srv[c] = "none"
    BY <1>3 DEF OpenStream, IInv, Fresh
  <2> QED
    BY <1>3, <2>1, QuietIInv
       DEF OpenStream, StreamGoto, ClientGoto, counters, Admitted, IInv, TypeInv, Fresh,
           StreamState, CallState
<1>4. ASSUME NEW c \in Call, Write(c) \/ ReadResponse(c) PROVE IInv'
  BY <1>4, QuietIInv
     DEF Write, ReadResponse, ClientGoto, counters, Admitted, IInv, TypeInv, Fresh, CallState
<1>5. ASSUME NEW c \in Call, Abandon(c) \/ ReadRequest(c) PROVE IInv'
  BY <1>5, QuietIInv
     DEF Abandon, ReadRequest, StreamGoto, counters, Admitted, IInv, TypeInv, Fresh, StreamState
<1> QED
  BY <1>1, <1>2, <1>3, <1>4, <1>5, StartIInv, AcceptIInv, RespondIInv
     DEF Next, Client, Server

\* The inductive invariant says that no nonce is used for two messages.
LEMMA IInvNonceUnique == IInv => NonceUnique
<1> SUFFICES ASSUME IInv, NEW e \in enc, NEW f \in enc,
                    e.sess = f.sess, e.dir = f.dir, e.seq = f.seq
             PROVE  e.call = f.call
  BY DEF NonceUnique
<1>1. e.dir \in Direction /\ e.call \in Call /\ f.call \in Call
  BY DEF IInv, TypeInv, Encryption
<1>2. CASE e.dir = "c2s"
  BY <1>2 DEF IInv, RequestUnique
<1>3. CASE e.dir = "s2c"
  BY <1>1, <1>3 DEF IInv, ResponseNonce, NumUnique, Admitted
<1> QED
  BY <1>1, <1>2, <1>3 DEF Direction

\* pqc_tunnel.rs, build_nonce: (stream_seq, direction) is used for one message
\* of a session, whatever the interleaving of calls and streams.
THEOREM NonceTheorem == Spec => []NonceUnique
<1>1. Init => IInv
  BY InitIInv
<1>2. IInv /\ [Next]_vars => IInv'
  BY NextIInv
<1>3. IInv => NonceUnique
  BY IInvNonceUnique
<1> QED
  BY <1>1, <1>2, <1>3, PTL DEF Spec
-----------------------------------------------------------------------------
(* The permits *)

HeldBy(s) == {c \in Held : sess[c] = s}

PermitInv ==
    /\ TypeInv
    /\ gfree \in Nat /\ sfree \in [Session -> Nat]
    /\ PermitsBalanced

LEMMA HeldFinite ==
    /\ IsFiniteSet(Held) /\ Cardinality(Held) \in Nat
    /\ \A s : IsFiniteSet(HeldBy(s)) /\ Cardinality(HeldBy(s)) \in Nat
<1>1. Held \in SUBSET Call /\ \A s : HeldBy(s) \in SUBSET Call
  BY DEF Held, HeldBy
<1> QED
  BY <1>1, CallAssumption, FS_Subset, FS_CardinalityType

\* A stream that starts or ends changes who holds permits by itself alone, and
\* only in its own session.
LEMMA TakePermit ==
    ASSUME NEW c \in Call, c \notin Held, Held' = Held \cup {c}, UNCHANGED sess
    PROVE  /\ Cardinality(Held)' = Cardinality(Held) + 1
           /\ Cardinality(HeldBy(sess[c]))' = Cardinality(HeldBy(sess[c])) + 1
           /\ \A s : s # sess[c] => HeldBy(s)' = HeldBy(s)
<1>1. c \notin HeldBy(sess[c]) /\ HeldBy(sess[c])' = HeldBy(sess[c]) \cup {c}
  BY DEF HeldBy
<1>2. \A s : s # sess[c] => HeldBy(s)' = HeldBy(s)
  BY DEF HeldBy
<1> QED
  BY <1>1, <1>2, HeldFinite, FS_AddElement

LEMMA DropPermit ==
    ASSUME NEW c \in Call, c \in Held, Held' = Held \ {c}, UNCHANGED sess
    PROVE  /\ Cardinality(Held)' = Cardinality(Held) - 1
           /\ Cardinality(HeldBy(sess[c]))' = Cardinality(HeldBy(sess[c])) - 1
           /\ \A s : s # sess[c] => HeldBy(s)' = HeldBy(s)
<1>1. c \in HeldBy(sess[c]) /\ HeldBy(sess[c])' = HeldBy(sess[c]) \ {c}
  BY DEF HeldBy
<1>2. \A s : s # sess[c] => HeldBy(s)' = HeldBy(s)
  BY DEF HeldBy
<1> QED
  BY <1>1, <1>2, HeldFinite, FS_RemoveElement

\* handle_session takes both permits, or none.
LEMMA AcceptPermit ==
    ASSUME PermitInv, TypeInv', NEW c \in Call, Accept(c)
    PROVE  PermitInv'
<1>1. UNCHANGED sess /\ srv[c] = "queued" /\ sess[c] \in Session
  BY DEF Accept, PermitInv, TypeInv
<1>2. CASE /\ gfree > 0 /\ sfree[sess[c]] > 0 /\ srv' = [srv EXCEPT ![c] = "reading"]
           /\ gfree' = gfree - 1 /\ sfree' = [sfree EXCEPT ![sess[c]] = sfree[sess[c]] - 1]
  <2>1. c \notin Held /\ Held' = Held \cup {c}
    BY <1>1, <1>2 DEF Held, PermitInv, TypeInv
  <2>2. /\ Cardinality(Held)' = Cardinality(Held) + 1
        /\ Cardinality(HeldBy(sess[c]))' = Cardinality(HeldBy(sess[c])) + 1
        /\ \A s : s # sess[c] => HeldBy(s)' = HeldBy(s)
    BY <1>1, <2>1, TakePermit
  <2>3. gfree' \in Nat /\ sfree' \in [Session -> Nat]
    BY <1>1, <1>2 DEF PermitInv
  <2>4. gfree' + Cardinality(Held)' = GlobalPermits
    BY <1>2, <2>2, HeldFinite DEF PermitInv, PermitsBalanced
  <2>5. ASSUME NEW s \in Session PROVE sfree'[s] + Cardinality(HeldBy(s))' = SessionPermits
    <3>1. sfree[s] + Cardinality(HeldBy(s)) = SessionPermits /\ sfree[s] \in Nat /\ Cardinality(HeldBy(s)) \in Nat
      BY HeldFinite DEF PermitInv, PermitsBalanced, HeldBy
    <3>2. CASE s = sess[c]
      BY <1>1, <1>2, <2>2, <3>1, <3>2 DEF PermitInv
    <3>3. CASE s # sess[c]
      BY <1>1, <1>2, <2>2, <3>1, <3>3 DEF PermitInv
    <3> QED
      BY <3>2, <3>3
  <2> QED
    BY <2>3, <2>4, <2>5 DEF PermitInv, PermitsBalanced, HeldBy
<1>3. CASE srv' = [srv EXCEPT ![c] = "dropped"] /\ UNCHANGED <<gfree, sfree>>
  <2>1. Held' = Held
    BY <1>1, <1>3 DEF Held, PermitInv, TypeInv
  <2> QED
    BY <1>1, <1>3, <2>1 DEF PermitInv, PermitsBalanced
<1> QED
  BY <1>2, <1>3 DEF Accept, StreamGoto

\* Every way out of a handler returns both.
LEMMA ReleasePermit ==
    ASSUME PermitInv, TypeInv', NEW c \in Call, c \in Held, Release(c), UNCHANGED sess,
           NEW l \in {"replied", "dropped"}, srv' = [srv EXCEPT ![c] = l]
    PROVE  PermitInv'
<1>1. Held' = Held \ {c} /\ sess[c] \in Session
  BY DEF Held, PermitInv, TypeInv
<1>2. /\ Cardinality(Held)' = Cardinality(Held) - 1
      /\ Cardinality(HeldBy(sess[c]))' = Cardinality(HeldBy(sess[c])) - 1
      /\ \A s : s # sess[c] => HeldBy(s)' = HeldBy(s)
  BY <1>1, DropPermit
<1>3. gfree' = gfree + 1 /\ sfree' = [sfree EXCEPT ![sess[c]] = sfree[sess[c]] + 1]
  BY DEF Release
<1>4. gfree' \in Nat /\ sfree' \in [Session -> Nat]
  BY <1>1, <1>3 DEF PermitInv
<1>5. gfree' + Cardinality(Held)' = GlobalPermits
  BY <1>2, <1>3, HeldFinite DEF PermitInv, PermitsBalanced
<1>6. ASSUME NEW s \in Session PROVE sfree'[s] + Cardinality(HeldBy(s))' = SessionPermits
  <2>1. sfree[s] + Cardinality(HeldBy(s)) = SessionPermits /\ sfree[s] \in Nat /\ Cardinality(HeldBy(s)) \in Nat
    BY HeldFinite DEF PermitInv, PermitsBalanced, HeldBy
  <2>2. CASE s = sess[c]
    BY <1>1, <1>2, <1>3, <2>1, <2>2 DEF PermitInv
  <2>3. CASE s # sess[c]
    BY <1>1, <1>2, <1>3, <2>1, <2>3 DEF PermitInv
  <2> QED
    BY <2>2, <2>3
<1> QED
  BY <1>4, <1>5, <1>6 DEF PermitInv, PermitsBalanced, HeldBy

LEMMA NextPermit == IInv /\ PermitInv /\ [Next]_vars => PermitInv'
<1> SUFFICES ASSUME IInv, PermitInv, [Next]_vars PROVE PermitInv'
  OBVIOUS
<1>0. TypeInv'
  BY NextIInv DEF IInv
<1>1. CASE UNCHANGED <<gfree, sfree, sess>> /\ Held' = Held
  BY <1>0, <1>1 DEF PermitInv, PermitsBalanced
<1>2. CASE UNCHANGED vars
  BY <1>1, <1>2 DEF vars, Held
<1>3. ASSUME NEW s \in Session,
             ServeSession(s) \/ ServerHandshake(s) \/ ClientHandshake(s) \/ Close(s)
      PROVE  PermitInv'
  BY <1>1, <1>3 DEF ServeSession, ServerHandshake, ClientHandshake, Close, Held
<1>4. ASSUME NEW c \in Call, Start(c) \/ Write(c) \/ ReadResponse(c) PROVE PermitInv'
  BY <1>1, <1>4 DEF Start, Write, ReadResponse, Held
<1>5. ASSUME NEW c \in Call, OpenStream(c) \/ Abandon(c) PROVE PermitInv'
  <2>1. srv[c] \notin {"reading", "handling"}
    BY <1>5 DEF OpenStream, Abandon, IInv, Fresh
  <2>2. Held' = Held
    BY <1>5, <2>1 DEF OpenStream, Abandon, StreamGoto, Held, PermitInv, TypeInv
  <2> QED
    BY <1>1, <1>5, <2>2 DEF OpenStream, Abandon
<1>6. ASSUME NEW c \in Call, ReadRequest(c) PROVE PermitInv'
  <2>1. CASE srv' = [srv EXCEPT ![c] = "handling"] /\ UNCHANGED <<gfree, sfree>>
    <3>1. Held' = Held
      BY <1>6, <2>1 DEF ReadRequest, Held, PermitInv, TypeInv
    <3> QED
      BY <1>1, <1>6, <2>1, <3>1 DEF ReadRequest
  <2>2. CASE srv' = [srv EXCEPT ![c] = "dropped"] /\ Release(c)
    BY <1>0, <1>6, <2>2, ReleasePermit DEF ReadRequest, Held
  <2> QED
    BY <1>6, <2>1, <2>2 DEF ReadRequest, StreamGoto
<1>7. ASSUME NEW c \in Call, Respond(c) PROVE PermitInv'
  <2>1. PICK l \in {"replied", "dropped"} : srv' = [srv EXCEPT ![c] = l]
    BY <1>7 DEF Respond, StreamGoto
  <2> QED
    BY <1>0, <1>7, <2>1, ReleasePermit DEF Respond, Held
<1> QED
  BY <1>0, <1>2, <1>3, <1>4, <1>5, <1>6, <1>7, AcceptPermit DEF Next, Client, Server

\* The limits hold and no path through a handler keeps or returns a permit too
\* many, whatever the sessions do to each other through the shared semaphore.
THEOREM PermitTheorem == Spec => []PermitsBalanced
<1>1. Init => IInv /\ PermitInv
  <2> SUFFICES ASSUME Init PROVE PermitInv
    BY InitIInv
  <2>1. TypeInv /\ gfree \in Nat /\ sfree \in [Session -> Nat]
    BY InitIInv, PermitAssumption DEF IInv, Init
  <2>2. Held = {}
    BY DEF Init, Held
  <2>3. Cardinality(Held) = 0 /\ \A s : Cardinality({c \in Held : sess[c] = s}) = 0
    BY <2>2, FS_EmptySet
  <2> QED
    BY <2>1, <2>3, PermitAssumption DEF Init, PermitInv, PermitsBalanced
<1>2. PermitInv => PermitsBalanced
  BY DEF PermitInv
<1> QED
  BY <1>1, <1>2, NextIInv, NextPermit, PTL DEF Spec
-----------------------------------------------------------------------------
(* The two counters *)

\* A call that never got a stream is unknown to the server.
LostInv == \A c \in Call : pc[c] = "lost" => srv[c] = "none"

LagInv == LostInv /\ LagIsLostStreams

LEMMA UnnumberedFinite == \A s : IsFiniteSet(Unnumbered(s)) /\ Cardinality(Unnumbered(s)) \in Nat
<1>1. \A s : Unnumbered(s) \in SUBSET Call
  BY DEF Unnumbered
<1> QED
  BY <1>1, CallAssumption, FS_Subset, FS_CardinalityType

\* Steps that number nothing and leave every stream where it was counted.
LEMMA QuietLag ==
    ASSUME LagInv, LostInv', UNCHANGED <<cseq, sseq>>,
           \A s \in Session : link'[s] # "closed" => link[s] # "closed" /\ Unnumbered(s)' = Unnumbered(s)
    PROVE  LagInv'
BY DEF LagInv, LagIsLostStreams

\* The client numbers a call: it is unnumbered at the server.
LEMMA StartLag ==
    ASSUME IInv, LagInv, NEW c \in Call, Start(c)
    PROVE  LagInv'
<1> DEFINE s == sess[c]
           n == cseq[s]
<1>1. /\ s \in Session /\ n \in 0 .. (Width - 1) /\ pc[c] = "idle" /\ srv[c] = "none"
      /\ UNCHANGED <<link, sseq, num, sess, srv>>
  BY DEF Start, IInv, TypeInv, Fresh
<1>2. CASE pc' = [pc EXCEPT ![c] = "failed"] /\ UNCHANGED <<cseq, seq, enc>>
  <2>1. \A t : Unnumbered(t)' = Unnumbered(t)
    BY <1>1, <1>2 DEF Unnumbered, IInv, TypeInv
  <2>2. LostInv'
    BY <1>1, <1>2 DEF LagInv, LostInv, IInv, TypeInv
  <2> QED
    BY <1>1, <1>2, <2>1, <2>2, QuietLag
<1>3. CASE n < MaxSeq /\ cseq' = [cseq EXCEPT ![s] = (n + 1) % Width] /\ pc' = [pc EXCEPT ![c] = "creating"]
  <2>1. cseq' = [cseq EXCEPT ![s] = n + 1]
    BY <1>1, <1>3, NoWrap
  <2>2. c \notin Unnumbered(s) /\ Unnumbered(s)' = Unnumbered(s) \cup {c}
    BY <1>1, <1>3 DEF Unnumbered, IInv, TypeInv
  <2>3. \A t : t # s => Unnumbered(t)' = Unnumbered(t)
    BY <1>1, <1>3 DEF Unnumbered, IInv, TypeInv
  <2>4. Cardinality(Unnumbered(s))' = Cardinality(Unnumbered(s)) + 1
    BY <2>2, UnnumberedFinite, FS_AddElement
  <2>5. LostInv'
    BY <1>1, <1>3 DEF LagInv, LostInv, IInv, TypeInv
  <2>6. ASSUME NEW t \in Session, link'[t] # "closed"
        PROVE  cseq'[t] = sseq'[t] + Cardinality(Unnumbered(t))'
    <3>1. cseq[t] = sseq[t] + Cardinality(Unnumbered(t))
      BY <1>1, <2>6 DEF LagInv, LagIsLostStreams
    <3>2. sseq[t] \in Int /\ cseq \in [Session -> 0 .. (Width - 1)] /\ Cardinality(Unnumbered(t)) \in Nat
      BY UnnumberedFinite DEF IInv, TypeInv
    <3>3. CASE t = s
      BY <1>1, <2>1, <2>4, <3>1, <3>2, <3>3
    <3>4. CASE t # s
      BY <1>1, <2>1, <2>3, <3>1, <3>2, <3>4
    <3> QED
      BY <3>3, <3>4
  <2> QED
    BY <2>5, <2>6 DEF LagInv, LagIsLostStreams
<1> QED
  BY <1>2, <1>3 DEF Start, ClientGoto

\* The server numbers a stream, admitted or turned away; at the limit it ends
\* the session instead.
LEMMA AcceptLag ==
    ASSUME IInv, LagInv, NEW c \in Call, Accept(c)
    PROVE  LagInv'
<1> DEFINE s == sess[c]
           n == sseq[s]
<1>1. /\ s \in Session /\ n \in 0 .. (Width - 1) /\ srv[c] = "queued" /\ UNCHANGED <<cseq, pc, sess>>
      /\ sseq' = [sseq EXCEPT ![s] = (n + 1) % Width] /\ link[s] # "closed"
      /\ link' = IF n >= MaxSeq THEN [link EXCEPT ![s] = "closed"] ELSE link
  BY DEF Accept, IInv, TypeInv
<1>2. PICK l \in {"reading", "dropped"} : srv' = [srv EXCEPT ![c] = l]
  BY DEF Accept, StreamGoto
<1>3. pc[c] \notin {"creating", "lost"}
  BY <1>1 DEF IInv, Fresh, LagInv, LostInv
<1>4. c \in Unnumbered(s) /\ Unnumbered(s)' = Unnumbered(s) \ {c}
  BY <1>1, <1>2, <1>3 DEF Unnumbered, IInv, TypeInv
<1>5. \A t : t # s => Unnumbered(t)' = Unnumbered(t)
  BY <1>1, <1>2 DEF Unnumbered, IInv, TypeInv
<1>6. Cardinality(Unnumbered(s))' = Cardinality(Unnumbered(s)) - 1
  BY <1>4, UnnumberedFinite, FS_RemoveElement
<1>7. LostInv'
  BY <1>1, <1>2, <1>3 DEF LagInv, LostInv, IInv, TypeInv
<1>8. ASSUME NEW t \in Session, link'[t] # "closed"
      PROVE  cseq'[t] = sseq'[t] + Cardinality(Unnumbered(t))'
  <2>1. link[t] # "closed" /\ (t = s => n < MaxSeq)
    BY <1>1, <1>8, SeqAssumption DEF IInv, TypeInv
  <2>2. cseq[t] = sseq[t] + Cardinality(Unnumbered(t))
    BY <2>1 DEF LagInv, LagIsLostStreams
  <2>3. sseq \in [Session -> 0 .. (Width - 1)] /\ cseq[t] \in Int /\ Cardinality(Unnumbered(t)) \in Nat
    BY UnnumberedFinite DEF IInv, TypeInv
  <2>4. CASE t = s
    <3>1. sseq'[t] = n + 1
      BY <1>1, <2>1, <2>3, <2>4, NoWrap
    <3> QED
      BY <1>1, <1>6, <2>2, <2>3, <2>4, <3>1
  <2>5. CASE t # s
    BY <1>1, <1>5, <2>2, <2>3, <2>5
  <2> QED
    BY <2>4, <2>5
<1> QED
  BY <1>7, <1>8 DEF LagInv, LagIsLostStreams

LEMMA NextLag == IInv /\ LagInv /\ [Next]_vars => LagInv'
<1> SUFFICES ASSUME IInv, LagInv, [Next]_vars PROVE LagInv'
  OBVIOUS
<1>1. CASE UNCHANGED vars
  BY <1>1, QuietLag DEF vars, LagInv, LostInv, Unnumbered
<1>2. ASSUME NEW s \in Session,
             ServeSession(s) \/ ServerHandshake(s) \/ ClientHandshake(s) \/ Close(s)
      PROVE  LagInv'
  <2>1. UNCHANGED <<cseq, sseq, pc, srv, sess>> /\ \A t \in Session : link'[t] # "closed" => link[t] # "closed"
    BY <1>2 DEF ServeSession, ServerHandshake, ClientHandshake, Close, counters, IInv, TypeInv
  <2> QED
    BY <2>1, QuietLag DEF LagInv, LostInv, Unnumbered
<1>3. ASSUME NEW c \in Call, OpenStream(c) \/ Write(c) \/ ReadResponse(c) PROVE LagInv'
  <2>1. UNCHANGED <<cseq, sseq, link, sess>>
    BY <1>3 DEF OpenStream, Write, ReadResponse, counters
  <2>2. CASE OpenStream(c)
    <3>1. srv[c] = "none" /\ pc[c] = "creating"
      BY <2>2 DEF OpenStream, IInv, Fresh
    <3>2. \/ pc' = [pc EXCEPT ![c] = "opened"] /\ srv' = [srv EXCEPT ![c] = "queued"]
          \/ pc' = [pc EXCEPT ![c] = "lost"] /\ srv' = srv
      BY <2>2 DEF OpenStream, ClientGoto, StreamGoto
    <3>3. LostInv'
      BY <3>1, <3>2 DEF LagInv, LostInv, IInv, TypeInv
    <3>4. \A t : Unnumbered(t)' = Unnumbered(t)
      BY <2>1, <3>1, <3>2 DEF Unnumbered, IInv, TypeInv
    <3> QED
      BY <2>1, <3>3, <3>4, QuietLag
  <2>3. CASE Write(c) \/ ReadResponse(c)
    <3>1. /\ pc[c] \in {"opened", "sent"} /\ srv' = srv
          /\ \E l \in {"sent", "ok", "failed"} : pc' = [pc EXCEPT ![c] = l]
      BY <2>3 DEF Write, ReadResponse, ClientGoto
    <3>2. LostInv'
      BY <3>1 DEF LagInv, LostInv, IInv, TypeInv
    <3>3. \A t : Unnumbered(t)' = Unnumbered(t)
      BY <2>1, <3>1 DEF Unnumbered, IInv, TypeInv
    <3> QED
      BY <2>1, <3>2, <3>3, QuietLag
  <2> QED
    BY <1>3, <2>2, <2>3
<1>4. ASSUME NEW c \in Call, Abandon(c) \/ ReadRequest(c) \/ Respond(c) PROVE LagInv'
  <2>1. UNCHANGED <<cseq, sseq, link, sess, pc>>
    BY <1>4 DEF Abandon, ReadRequest, Respond, counters
  <2>2. /\ srv[c] \in {"queued", "reading", "handling"} /\ (srv[c] = "queued" => link[sess[c]] = "closed")
        /\ \E l \in {"handling", "replied", "dropped"} : srv' = [srv EXCEPT ![c] = l]
    BY <1>4 DEF Abandon, ReadRequest, Respond, StreamGoto
  <2>3. LostInv'
    BY <2>1, <2>2 DEF LagInv, LostInv, IInv, TypeInv
  <2>4. \A t : link[t] # "closed" => Unnumbered(t)' = Unnumbered(t)
    BY <2>1, <2>2 DEF Unnumbered, IInv, TypeInv
  <2> QED
    BY <2>1, <2>3, <2>4, QuietLag
<1> QED
  BY <1>1, <1>2, <1>3, <1>4, StartLag, AcceptLag DEF Next, Client, Server

\* While a session is open the server's count is behind the client's by the
\* streams in flight and those that could not be created, and by nothing else:
\* streams turned away or refused are counted on both sides.
THEOREM LagTheorem == Spec => []LagIsLostStreams
<1>1. Init => IInv /\ LagInv
  <2> SUFFICES ASSUME Init PROVE LagInv
    BY InitIInv
  <2>1. \A s : Unnumbered(s) = {}
    BY DEF Init, Unnumbered
  <2>2. \A s : Cardinality(Unnumbered(s)) = 0
    BY <2>1, FS_EmptySet
  <2> QED
    BY <2>2 DEF Init, LagInv, LostInv, LagIsLostStreams
<1>2. LagInv => LagIsLostStreams
  BY DEF LagInv
<1> QED
  BY <1>1, <1>2, NextIInv, NextLag, PTL DEF Spec
=============================================================================
