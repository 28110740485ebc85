---------------------------- MODULE ContentStore ----------------------------
(***************************************************************************)
(* What LmdbStorage promises its callers: a content-addressed map with a   *)
(* capacity on which put, get, exists and delete each take effect in one   *)
(* indivisible step somewhere between the call and the return.  The        *)
(* detailed module LmdbStorage is shown to implement this one.             *)
(***************************************************************************)
EXTENDS ChunkBase

VARIABLES
    map,    \* the chunks, by address
    phase,  \* per caller: idle, pending (called), done (took effect)
    req,    \* per caller: the operation and its arguments
    ret     \* per caller: what the operation will return

absVars == <<map, phase, req, ret>>

Request == [op : Op, addr : Addr, content : Content]

NoRet == [res |-> "err", out |-> None]

AbsInit ==
    /\ map = [a \in Addr |-> None]
    /\ phase = [t \in Caller |-> "idle"]
    /\ req \in [Caller -> Request]
    /\ ret = [t \in Caller |-> NoRet]

Invoke(t) ==
    /\ phase[t] = "idle"
    /\ \E r \in Request : req' = [req EXCEPT ![t] = r]
    /\ phase' = [phase EXCEPT ![t] = "pending"]
    /\ UNCHANGED <<map, ret>>

\* The caller's operation takes effect with result r, output o and map m.
TakeEffect(t, r, o, m) ==
    /\ phase[t] = "pending"
    /\ phase' = [phase EXCEPT ![t] = "done"]
    /\ ret' = [ret EXCEPT ![t] = [res |-> r, out |-> o]]
    /\ map' = m
    /\ UNCHANGED req

AbsPut(t) ==
    LET a == req[t].addr
        c == req[t].content
    IN  /\ req[t].op = "put"
        /\ \/ /\ Hash[c] = a /\ a \in Stored(map)
              /\ TakeEffect(t, "dup", None, map)
           \/ /\ Hash[c] = a /\ a \notin Stored(map) /\ ~AtCapacity(map)
              /\ TakeEffect(t, "new", None, [map EXCEPT ![a] = c])

AbsGet(t) ==
    LET a == req[t].addr
    IN  /\ req[t].op = "get"
        /\ \/ /\ a \notin Stored(map)
              /\ TakeEffect(t, "absent", None, map)
           \/ /\ a \in Stored(map)
              /\ VerifyOnRead => Hash[map[a]] = a
              /\ TakeEffect(t, "found", map[a], map)

AbsExists(t) ==
    /\ req[t].op = "exists"
    /\ TakeEffect(t, IF req[t].addr \in Stored(map) THEN "found" ELSE "absent",
                  None, map)

AbsDelete(t) ==
    LET a == req[t].addr
    IN  /\ req[t].op = "delete"
        /\ TakeEffect(t, IF a \in Stored(map) THEN "deleted" ELSE "missing",
                      None, [map EXCEPT ![a] = None])

\* An operation may fail, and then it has changed nothing.
AbsFail(t) == TakeEffect(t, "err", None, map)

Return(t) ==
    /\ phase[t] = "done"
    /\ phase' = [phase EXCEPT ![t] = "idle"]
    /\ UNCHANGED <<map, req, ret>>

\* The process dies and is started again: calls are lost, the map is not.
AbsCrash ==
    /\ phase' = [t \in Caller |-> "idle"]
    /\ ret' = [t \in Caller |-> NoRet]
    /\ UNCHANGED <<map, req>>

\* The disk may damage a stored value.
AbsCorrupt(a) ==
    /\ a \in Stored(map)
    /\ \E c \in Content : map' = [map EXCEPT ![a] = c]
    /\ UNCHANGED <<phase, req, ret>>

AbsNext ==
    \/ \E t \in Caller : \/ Invoke(t) \/ AbsPut(t) \/ AbsGet(t) \/ AbsExists(t)
                         \/ AbsDelete(t) \/ AbsFail(t) \/ Return(t)
    \/ AbsCrash
    \/ \E a \in Addr : AbsCorrupt(a)

AbsSpec == AbsInit /\ [][AbsNext]_absVars
=============================================================================
