----------------------------- MODULE PqcSession -----------------------------
(***************************************************************************)
(* The browser path: WASM clients (ant-wasm/src/transport.rs) call a node  *)
(* (ant-node/src/webtransport/server.rs) over WebTransport.  The first     *)
(* bidirectional stream of a session is the ML-KEM handshake; each later   *)
(* stream carries one request and one response, encrypted under the        *)
(* session key with the nonce (stream_seq, direction).  The two ends count *)
(* the streams separately: the client when a call starts, the server when  *)
(* it accepts a stream.  Calls of one client run concurrently.             *)
(***************************************************************************)
EXTENDS Integers, FiniteSets

CONSTANTS
    Session,         \* WebTransport sessions, each with its own session key
    Call,            \* calls of send_request
    Width,           \* 2^32, the range of stream_seq
    MaxSeq,          \* MAX_STREAM_SEQ
    GlobalPermits,   \* MAX_CONCURRENT_STREAMS
    SessionPermits,  \* MAX_STREAMS_PER_SESSION
    InOrder          \* browser and QUIC library hand streams over in the order
                     \* of the calls (external; FALSE: in any order)

ASSUME SeqAssumption == Width \in Nat /\ MaxSeq \in 1 .. (Width - 1)
ASSUME PermitAssumption == GlobalPermits \in Nat /\ SessionPermits \in Nat
ASSUME CallAssumption == IsFiniteSet(Call) /\ InOrder \in BOOLEAN

VARIABLES
    link,    \* per session: new, session, accepted, up, closed
    cseq,    \* WtTransport.stream_seq, per session
    sseq,    \* stream_seq of handle_session, per session
    pc,      \* per call: idle, creating, opened, sent, ok, failed, lost
    sess,    \* per call: its session
    seq,     \* per call: the number the client gave it
    srv,     \* per call: its stream at the server
    num,     \* per call: the number the server gave its stream
    gfree,   \* free permits of the global semaphore
    sfree,   \* free permits of each session's semaphore
    enc      \* what was encrypted, with its nonce (history)

vars == <<link, cseq, sseq, pc, sess, seq, srv, num, gfree, sfree, enc>>

Direction == {"c2s", "s2c"}

\* "lost": the call failed because no stream could be created for it.
CallState == {"idle", "creating", "opened", "sent", "ok", "failed", "lost"}

StreamState == {"none", "queued", "reading", "handling", "replied", "dropped"}

Encryption == [sess : Session, dir : Direction, seq : 0 .. (Width - 1), call : Call]

TypeOK ==
    /\ link \in [Session -> {"new", "session", "accepted", "up", "closed"}]
    /\ cseq \in [Session -> 0 .. (Width - 1)]
    /\ sseq \in [Session -> 0 .. (Width - 1)]
    /\ pc \in [Call -> CallState]
    /\ sess \in [Call -> Session]
    /\ seq \in [Call -> 0 .. (Width - 1)]
    /\ srv \in [Call -> StreamState]
    /\ num \in [Call -> 0 .. (Width - 1)]
    /\ gfree \in 0 .. GlobalPermits
    /\ sfree \in [Session -> 0 .. SessionPermits]
    /\ enc \subseteq Encryption

Init ==
    /\ link = [s \in Session |-> "new"]
    /\ cseq = [s \in Session |-> 1]
    /\ sseq = [s \in Session |-> 1]
    /\ pc = [c \in Call |-> "idle"]
    /\ sess \in [Call -> Session]
    /\ seq = [c \in Call |-> 0]
    /\ srv = [c \in Call |-> "none"]
    /\ num = [c \in Call |-> 0]
    /\ gfree = GlobalPermits
    /\ sfree = [s \in Session |-> SessionPermits]
    /\ enc = {}

-----------------------------------------------------------------------------
\* build_nonce and SessionCipher::encrypt under the session's key.
Encrypt(c, d, n) ==
    enc' = enc \cup {[sess |-> sess[c], dir |-> d, seq |-> n, call |-> c]}

ClientGoto(c, l) == pc' = [pc EXCEPT ![c] = l]

StreamGoto(c, l) == srv' = [srv EXCEPT ![c] = l]

\* No earlier call of c's session still waits where c waits.
Oldest(c, waiting) ==
    InOrder => \A d \in Call \ {c} : (sess[d] = sess[c] /\ waiting[d]) => seq[c] < seq[d]

counters == <<cseq, sseq, seq, num>>

\* serve_with_identity: the endpoint accepts the session and spawns its task,
\* which shares the global semaphore with the others.
ServeSession(s) ==
    /\ link[s] = "new"
    /\ link' = [link EXCEPT ![s] = "session"]
    /\ UNCHANGED <<counters, pc, sess, srv, gfree, sfree, enc>>

\* perform_server_handshake: the ClientHello is refused, or the server signs
\* its answer and enters the stream loop.
ServerHandshake(s) ==
    /\ link[s] = "session"
    /\ link' = [link EXCEPT ![s] = "accepted"]
    /\ UNCHANGED <<counters, pc, sess, srv, gfree, sfree, enc>>

\* perform_handshake: version, signature and expected peer id hold, and the
\* client has a transport.
ClientHandshake(s) ==
    /\ link[s] = "accepted"
    /\ link' = [link EXCEPT ![s] = "up"]
    /\ UNCHANGED <<counters, pc, sess, srv, gfree, sfree, enc>>

\* A handshake check fails, the client closes, or the connection is lost.
Close(s) ==
    /\ link[s] # "closed"
    /\ link' = [link EXCEPT ![s] = "closed"]
    /\ UNCHANGED <<counters, pc, sess, srv, gfree, sfree, enc>>

\* Mutant: the counter advances once the stream is there.
StartUncounted(c) ==
    LET s == sess[c]
    IN  /\ pc[c] = "idle" /\ link[s] \in {"up", "closed"}
        /\ cseq[s] < MaxSeq
        /\ seq' = [seq EXCEPT ![c] = cseq[s]]
        /\ Encrypt(c, "c2s", cseq[s])
        /\ ClientGoto(c, "creating")
        /\ UNCHANGED <<link, cseq, sseq, num, sess, srv, gfree, sfree>>

\* send_request up to its first await: the limit, the number, the cipher.
Start(c) ==
    LET s == sess[c]
        n == cseq[s]
    IN  /\ pc[c] = "idle" /\ link[s] \in {"up", "closed"}
        /\ \/ /\ n >= MaxSeq
              /\ ClientGoto(c, "failed")
              /\ UNCHANGED <<cseq, seq, enc>>
           \/ /\ n < MaxSeq
              /\ cseq' = [cseq EXCEPT ![s] = (n + 1) % Width]
              /\ seq' = [seq EXCEPT ![c] = n]
              /\ Encrypt(c, "c2s", n)
              /\ ClientGoto(c, "creating")
        /\ UNCHANGED <<link, sseq, num, sess, srv, gfree, sfree>>

\* create_bidirectional_stream resolves, or is refused by the browser.
OpenStream(c) ==
    /\ pc[c] = "creating"
    /\ Oldest(c, [d \in Call |-> pc[d] = "creating"])
    /\ \/ /\ link[sess[c]] = "up"
          /\ ClientGoto(c, "opened")
          /\ StreamGoto(c, "queued")
       \/ /\ ClientGoto(c, "lost")
          /\ UNCHANGED srv
    /\ UNCHANGED <<link, counters, sess, gfree, sfree, enc>>

\* The framed request is written and the write side closed.
Write(c) ==
    /\ pc[c] = "opened"
    /\ \/ ClientGoto(c, "sent")
       \/ (link[sess[c]] = "closed" \/ srv[c] = "dropped") /\ ClientGoto(c, "failed")
    /\ UNCHANGED <<link, counters, sess, srv, gfree, sfree, enc>>

\* The response is read, its number compared, and it is decrypted; or the
\* stream or the session ended first.
ReadResponse(c) ==
    /\ pc[c] = "sent"
    /\ \/ srv[c] = "replied" /\ num[c] = seq[c] /\ ClientGoto(c, "ok")
       \/ (link[sess[c]] = "closed" \/ srv[c] = "dropped") /\ ClientGoto(c, "failed")
    /\ UNCHANGED <<link, counters, sess, srv, gfree, sfree, enc>>

-----------------------------------------------------------------------------
\* Mutant: a stream turned away is not numbered.
AcceptUncounted(c) ==
    LET s == sess[c]
        admitted == gfree > 0 /\ sfree[s] > 0
    IN  /\ srv[c] = "queued" /\ link[s] \in {"accepted", "up"}
        /\ num' = [num EXCEPT ![c] = sseq[s]]
        /\ \/ /\ admitted
              /\ sseq' = [sseq EXCEPT ![s] = @ + 1]
              /\ StreamGoto(c, "reading")
              /\ gfree' = gfree - 1
              /\ sfree' = [sfree EXCEPT ![s] = @ - 1]
           \/ ~admitted /\ StreamGoto(c, "dropped") /\ UNCHANGED <<sseq, gfree, sfree>>
        /\ UNCHANGED <<link, cseq, pc, sess, seq, enc>>

\* handle_session, the accept loop: number the stream, end the session at
\* the limit, take both permits or turn the stream away.
Accept(c) ==
    LET s == sess[c]
        n == sseq[s]
        limit == n >= MaxSeq
        admitted == ~limit /\ gfree > 0 /\ sfree[s] > 0
    IN  /\ srv[c] = "queued" /\ link[s] \in {"accepted", "up"}
        /\ Oldest(c, [d \in Call |-> srv[d] = "queued"])
        /\ sseq' = [sseq EXCEPT ![s] = (n + 1) % Width]
        /\ num' = [num EXCEPT ![c] = n]
        /\ link' = IF limit THEN [link EXCEPT ![s] = "closed"] ELSE link
        /\ \/ /\ admitted
              /\ StreamGoto(c, "reading")
              /\ gfree' = gfree - 1
              /\ sfree' = [sfree EXCEPT ![s] = @ - 1]
           \/ /\ ~admitted
              /\ StreamGoto(c, "dropped")
              /\ UNCHANGED <<gfree, sfree>>
        /\ UNCHANGED <<cseq, pc, sess, seq, enc>>

\* The loop ended: streams still queued are never accepted.
Abandon(c) ==
    /\ srv[c] = "queued" /\ link[sess[c]] = "closed"
    /\ StreamGoto(c, "dropped")
    /\ UNCHANGED <<link, counters, pc, sess, gfree, sfree, enc>>

\* The handler's task ends and drops both permits.
Release(c) ==
    /\ gfree' = gfree + 1
    /\ sfree' = [sfree EXCEPT ![sess[c]] = @ + 1]

\* Mutant: an early return keeps the session's permit.
ReadRequestLeaks(c) ==
    /\ srv[c] = "reading" /\ pc[c] = "sent"
    /\ \/ num[c] = seq[c] /\ StreamGoto(c, "handling") /\ UNCHANGED gfree
       \/ num[c] # seq[c] /\ StreamGoto(c, "dropped") /\ gfree' = gfree + 1
    /\ UNCHANGED <<link, counters, pc, sess, sfree, enc>>

\* Mutant: the handler waits for the request that should have come.
ReadRequestWaits(c) ==
    /\ srv[c] = "reading" /\ pc[c] = "sent" /\ num[c] = seq[c]
    /\ StreamGoto(c, "handling")
    /\ UNCHANGED <<link, counters, pc, sess, gfree, sfree, enc>>

\* handle_encrypted_stream: read the envelope, compare its number with the
\* stream's, decrypt; any failure ends the stream without an answer.
ReadRequest(c) ==
    /\ srv[c] = "reading"
    /\ \/ /\ pc[c] = "sent" /\ num[c] = seq[c]
          /\ StreamGoto(c, "handling")
          /\ UNCHANGED <<gfree, sfree>>
       \/ /\ \/ pc[c] \in {"sent", "failed"} /\ num[c] # seq[c]
             \/ link[sess[c]] = "closed"
          /\ StreamGoto(c, "dropped")
          /\ Release(c)
    /\ UNCHANGED <<link, counters, pc, sess, enc>>

\* try_handle_request and try_network_fetch give no response or an error, or
\* a response that is encrypted under the stream's number and written.
Respond(c) ==
    /\ srv[c] = "handling"
    /\ \/ Encrypt(c, "s2c", num[c]) /\ StreamGoto(c, "replied")
       \/ StreamGoto(c, "dropped") /\ UNCHANGED enc
    /\ Release(c)
    /\ UNCHANGED <<link, counters, pc, sess>>

Client(c) == Start(c) \/ OpenStream(c) \/ Write(c) \/ ReadResponse(c)

Server(c) == Accept(c) \/ Abandon(c) \/ ReadRequest(c) \/ Respond(c)

Next ==
    \/ \E s \in Session : \/ ServeSession(s) \/ ServerHandshake(s)
                            \/ ClientHandshake(s) \/ Close(s)
    \/ \E c \in Call : Client(c) \/ Server(c)

Spec == Init /\ [][Next]_vars

\* Promises resolve, and the server's tasks run; nobody has to connect, to
\* call or to close.
FairSpec ==
    /\ Spec
    /\ \A c \in Call :
          /\ WF_vars(OpenStream(c) \/ Write(c) \/ ReadResponse(c))
          /\ WF_vars(Server(c))
-----------------------------------------------------------------------------
\* pqc_tunnel.rs:194: "(stream_seq, direction) is a unique nonce for each
\* message in a session", however the calls interleave, whichever streams
\* are refused or turned away, and at the end of the counters.
NonceUnique ==
    \A e, f \in enc :
        (e.sess = f.sess /\ e.dir = f.dir /\ e.seq = f.seq) => e.call = f.call

Held == {c \in Call : srv[c] \in {"reading", "handling"}}

\* The limits of 64 streams per node and 8 per session hold, and every way
\* out of a handler gives both permits back (server.rs, handle_session).
PermitsBalanced ==
    /\ gfree + Cardinality(Held) = GlobalPermits
    /\ \A s \in Session :
          sfree[s] + Cardinality({c \in Held : sess[c] = s}) = SessionPermits

\* Calls the client has numbered and the server has not, or never will.
Unnumbered(s) ==
    {c \in Call : /\ sess[c] = s
                  /\ pc[c] \in {"creating", "lost"} \/ srv[c] = "queued"}

\* The server's count lags the client's by exactly the streams in flight and
\* the streams that never came to be: a stream turned away for lack of
\* permits, or refused for its number, costs nothing, a stream that could not
\* be created is never made up for.
LagIsLostStreams ==
    \A s \in Session :
        link[s] # "closed" => cseq[s] = sseq[s] + Cardinality(Unnumbered(s))

\* Every call ends, answered or failed.
CallsReturn ==
    \A c \in Call : pc[c] = "creating" ~> pc[c] \in {"ok", "failed", "lost"}
=============================================================================
