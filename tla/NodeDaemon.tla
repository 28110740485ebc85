----------------------------- MODULE NodeDaemon -----------------------------
(***************************************************************************)
(* ant-client's node daemon: the registry file and its copy in memory      *)
(* (node/registry.rs, node/mod.rs), the supervisor with one monitor task   *)
(* per child process (daemon/supervisor.rs), and the REST handlers         *)
(* (daemon/server.rs), which run concurrently.  The supervisor sits behind *)
(* one lock; a handler takes it once or several times, and a stop keeps it *)
(* while the process dies.  Node processes outlive the daemon.             *)
(***************************************************************************)
EXTENDS Naturals, FiniteSets

CONSTANTS
    MaxNode,      \* largest node id (bound)
    Registered,   \* nodes in the registry when the daemon starts first
    MaxPid,       \* number of processes that can be spawned (bound)
    Handler,      \* REST requests in progress at a time
    Ops,          \* the operations clients ask for
    MaxRequests,  \* bound on the requests
    MaxRestarts,  \* bound on the restarts of the daemon
    Lossy         \* processes that it may be impossible to wait for (bound)

AllOps == {"add", "delete", "start", "start_all", "stop", "stop_all", "reset"}

ASSUME DaemonBounds ==
    /\ MaxNode \in Nat /\ MaxPid \in Nat /\ MaxRequests \in Nat
    /\ MaxRestarts \in Nat /\ Lossy \subseteq 1..MaxPid
ASSUME RegisteredAssumption == Registered \in 0..MaxNode
ASSUME OpsAssumption == Ops \subseteq AllOps
ASSUME HandlerAssumption == IsFiniteSet(Handler) /\ 0 \notin Handler

Node == 1..MaxNode
Pid == 1..MaxPid

VARIABLES
    file,      \* the registry file: nodes and next_id
    mem,       \* the nodes of AppState.registry
    missed,    \* whether the last reload of it failed (history)
    status,    \* NodeRuntime.status; "absent" when there is no entry
    pid,       \* NodeRuntime.pid; 0 is None
    proc,      \* per pid: unused, alive, clean (exit code 0), crashed
    owner,     \* per pid: the node it runs
    lost,      \* processes that could not be waited for
    mon,       \* per pid: where the monitor task that holds this child is
    held,      \* the handler that keeps the supervisor lock, or 0
    job,       \* per handler: the request in progress
    epoch,     \* incarnation of the daemon
    born,      \* per pid: the incarnation that spawned it
    spawned,   \* processes spawned so far
    stopped,   \* nodes stopped by a client (history)
    requests   \* requests so far (bound)

vars == <<file, mem, missed, status, pid, proc, owner, lost, mon, held, job, epoch,
          born, spawned, stopped, requests>>

Idle == [op |-> "none", ids |-> {}, at |-> "idle"]

TypeOK ==
    /\ file \in [nodes : SUBSET Node, next : 1..(MaxNode + 1)]
    /\ mem \subseteq Node /\ missed \in BOOLEAN
    /\ status \in [Node -> {"absent", "running", "stopping", "stopped", "errored"}]
    /\ pid \in [Node -> 0..MaxPid]
    /\ proc \in [Pid -> {"unused", "alive", "clean", "crashed"}]
    /\ owner \in [Pid -> 0..MaxNode] /\ lost \subseteq Pid
    /\ mon \in [Pid -> {"none", "wait", "exited", "checked", "backoff", "failed",
                        "spawned", "done"}]
    /\ held \in Handler \cup {0}
    /\ job \in [Handler -> [op : AllOps \cup {"none"}, ids : SUBSET Node,
                            at : {"idle", "begin", "locked", "act", "sync"}]]
    /\ epoch \in 0..MaxRestarts
    /\ born \in [Pid -> 0..MaxRestarts]
    /\ spawned \in 0..MaxPid
    /\ stopped \subseteq Node
    /\ requests \in Nat

\* The registry is what an earlier daemon left; its processes are gone.
Init ==
    /\ file = [nodes |-> 1..Registered, next |-> Registered + 1]
    /\ mem = file.nodes /\ missed = FALSE
    /\ status = [n \in Node |-> "absent"]
    /\ pid = [n \in Node |-> 0]
    /\ proc = [p \in Pid |-> "unused"]
    /\ owner = [p \in Pid |-> 0] /\ lost = {}
    /\ mon = [p \in Pid |-> "none"]
    /\ held = 0
    /\ job = [h \in Handler |-> Idle]
    /\ epoch = 0
    /\ born = [p \in Pid |-> 0]
    /\ spawned = 0
    /\ stopped = {}
    /\ requests = 0

copy == <<mem, missed>>
registry == <<file, copy>>
states == <<status, pid>>
procs == <<proc, owner, born, spawned, lost>>
history == <<epoch, stopped, requests>>

\* NodeRegistry: an id is given once, until the registry is cleared.
add(reg) == [nodes |-> reg.nodes \cup {reg.next}, next |-> reg.next + 1]

remove(reg, ids) == [reg EXCEPT !.nodes = @ \ ids]

cleared == [nodes |-> {}, next |-> 1]

LockFree == held = 0

is_running(n) == status[n] = "running"

SetState(n, s, p) ==
    /\ status' = [status EXCEPT ![n] = s]
    /\ pid' = [pid EXCEPT ![n] = p]

At(h, op, l) == job[h].op = op /\ job[h].at = l

Move(h, l) == job' = [job EXCEPT ![h].at = l]

Finish(h) == job' = [job EXCEPT ![h] = Idle]

\* child.wait() fails for process p, which goes on.
WaitFails(p) == p \in Lossy /\ lost' = lost \cup {p}

\* spawn_node: a new process q of node n.
Spawn(n, q) ==
    /\ q = spawned + 1
    /\ spawned' = q
    /\ proc' = [proc EXCEPT ![q] = "alive"]
    /\ owner' = [owner EXCEPT ![q] = n]
    /\ born' = [born EXCEPT ![q] = epoch]
-----------------------------------------------------------------------------
\* The handlers.

\* The requests that name a node.
Named == {"delete", "start", "stop"}

Request(h, op, n) ==
    /\ job[h] = Idle /\ requests < MaxRequests /\ op \in Ops
    /\ job' = [job EXCEPT ![h] = [op |-> op, ids |-> {m \in {n} : op \in Named}, at |-> "begin"]]
    /\ requests' = requests + 1
    /\ UNCHANGED <<registry, states, procs, mon, held, epoch, stopped>>

\* post_nodes / add_nodes: load_locked, add and save are one step under the
\* file lock.
AddNode(h) ==
    /\ At(h, "add", "begin")
    /\ file.next \in Node
    /\ file' = add(file)
    /\ Move(h, "sync")
    /\ UNCHANGED <<copy, states, procs, mon, held, history>>

\* add_nodes fails before it changes the file (no binary, a full disk); the
\* handler answers with the error.
post_nodes_fails(h) ==
    /\ At(h, "add", "begin")
    /\ Finish(h)
    /\ UNCHANGED <<registry, states, procs, mon, held, history>>

\* delete_node: the check, under the supervisor lock that is then dropped.
DeleteCheck(h) ==
    /\ At(h, "delete", "begin") /\ LockFree
    /\ IF \E n \in job[h].ids : is_running(n) THEN Finish(h) ELSE Move(h, "act")
    /\ UNCHANGED <<registry, states, procs, mon, held, history>>

\* remove_node: no such node, or the file cannot be read or written, or done.
DeleteNode(h) ==
    /\ At(h, "delete", "act")
    /\ \/ /\ job[h].ids \subseteq file.nodes
          /\ file' = remove(file, job[h].ids) /\ Move(h, "sync")
       \/ UNCHANGED file /\ Finish(h)
    /\ UNCHANGED <<copy, states, procs, mon, held, history>>

\* post_reset: the check, then reset() without the lock.
ResetCheck(h) ==
    /\ At(h, "reset", "begin") /\ LockFree
    /\ IF \E n \in Node : is_running(n) THEN Finish(h) ELSE Move(h, "act")
    /\ UNCHANGED <<registry, states, procs, mon, held, history>>

\* A directory that cannot be removed ends it before the registry is cleared.
Reset(h) ==
    /\ At(h, "reset", "act")
    /\ \/ file' = cleared /\ Move(h, "sync")
       \/ UNCHANGED file /\ Finish(h)
    /\ UNCHANGED <<copy, states, procs, mon, held, history>>

\* Mutant: the copy is derived from the own change instead of the file.
SyncRegistryOwn(h) ==
    /\ job[h].at = "sync"
    /\ mem' = CASE job[h].op = "delete" -> mem \ job[h].ids
                [] job[h].op = "reset" -> {}
                [] OTHER -> file.nodes
    /\ missed' = FALSE
    /\ Finish(h)
    /\ UNCHANGED <<file, states, procs, mon, held, history>>

\* The last step of add, delete and reset: reload the file under the
\* registry's write lock.  "if let Ok(fresh)": if that fails the old copy stays
\* and nobody is told.
SyncRegistry(h) ==
    /\ job[h].at = "sync"
    /\ \/ mem' = file.nodes /\ missed' = FALSE
       \/ UNCHANGED mem /\ missed' = TRUE
    /\ Finish(h)
    /\ UNCHANGED <<file, states, procs, mon, held, history>>

\* start, start-all, stop, stop-all: the ids are read from the copy of the
\* registry, whose lock is then dropped.  Without one the handler is done: it
\* answers "not found", or an empty result.
Found(h, op, ids) ==
    /\ At(h, op, "begin")
    /\ job' = [job EXCEPT ![h] = IF ids = {} THEN Idle
                                ELSE [@ EXCEPT !.ids = ids, !.at = "locked"]]
    /\ UNCHANGED <<registry, states, procs, mon, held, history>>

post_start_node(h) == Found(h, "start", job[h].ids \cap mem)

post_start_all(h) == Found(h, "start_all", mem)

post_stop_node(h) == Found(h, "stop", job[h].ids \cap mem)

post_stop_all(h) == Found(h, "stop_all", mem)

\* One id of the list is done.
NextId(h, n) ==
    job' = [job EXCEPT ![h] = IF job[h].ids = {n} THEN Idle
                             ELSE [job[h] EXCEPT !.ids = @ \ {n}]]

\* Mutant: the status is not looked at again under the lock.
StartNodeUnchecked(h, n) ==
    /\ job[h].op \in {"start", "start_all"} /\ job[h].at = "locked"
    /\ n \in job[h].ids /\ LockFree
    /\ NextId(h, n)
    /\ \E q \in Pid : /\ Spawn(n, q)
                      /\ SetState(n, "running", q)
                      /\ mon' = [mon EXCEPT ![q] = "wait"]
    /\ UNCHANGED <<registry, lost, held, history>>

\* start_node under the supervisor lock: already running, spawn error, exit
\* within the first second, a wait for that which fails and leaves a process
\* nobody knows of, or running with a monitor.
StartNode(h, n) ==
    /\ job[h].op \in {"start", "start_all"} /\ job[h].at = "locked"
    /\ n \in job[h].ids /\ LockFree
    /\ NextId(h, n)
    /\ \/ is_running(n) /\ UNCHANGED <<states, procs, mon>>
       \/ ~is_running(n) /\ UNCHANGED <<states, procs, mon>>
       \/ /\ ~is_running(n)
          /\ SetState(n, "errored", 0)
          /\ UNCHANGED <<procs, mon>>
       \/ /\ ~is_running(n)
          /\ \E q \in Pid : Spawn(n, q) /\ WaitFails(q)
          /\ UNCHANGED <<states, mon>>
       \/ /\ ~is_running(n)
          /\ \E q \in Pid : /\ Spawn(n, q)
                            /\ SetState(n, "running", q)
                            /\ mon' = [mon EXCEPT ![q] = "wait"]
          /\ UNCHANGED lost
    /\ UNCHANGED <<registry, held, history>>

\* stop_node under the supervisor lock, which is kept until the process is
\* gone: mark it Stopping ...
StopBegin(h, n) ==
    /\ job[h].op \in {"stop", "stop_all"} /\ job[h].at = "locked"
    /\ n \in job[h].ids /\ held \in {0, h}
    /\ \A m \in Node : status[m] # "stopping"
    /\ \/ /\ is_running(n)
          /\ status' = [status EXCEPT ![n] = "stopping"]
          /\ held' = h
          /\ UNCHANGED job
       \/ /\ ~is_running(n)
          /\ NextId(h, n)
          /\ held' = IF job[h].ids = {n} THEN 0 ELSE h
          /\ UNCHANGED status
    /\ UNCHANGED <<registry, pid, procs, mon, history>>

\* SIGTERM, and SIGKILL after ten seconds: the process is gone, with an exit
\* code that depends on when it noticed.  A process that had ended is left.
graceful_kill(q) ==
    \E code \in {"clean", "crashed"} :
        proc' = [p \in Pid |-> IF p = q /\ proc[p] = "alive" THEN code ELSE proc[p]]

\* ... then kill it, and Stopped.
StopEnd(h, n) ==
    /\ held = h /\ status[n] = "stopping"
    /\ graceful_kill(pid[n])
    /\ SetState(n, "stopped", 0)
    /\ stopped' = stopped \cup {n}
    /\ NextId(h, n)
    /\ held' = IF job[h].ids = {n} THEN 0 ELSE h
    /\ UNCHANGED <<registry, owner, born, spawned, lost, mon, epoch, requests>>
-----------------------------------------------------------------------------
\* Processes and their monitor tasks.

ProcExit(p) ==
    /\ proc[p] = "alive"
    /\ \E code \in {"clean", "crashed"} : proc' = [proc EXCEPT ![p] = code]
    /\ UNCHANGED <<registry, states, owner, born, spawned, lost, mon, held, job, history>>

MonGoto(p, l) == mon' = [mon EXCEPT ![p] = l]

\* child.wait() returns: the process has ended, or waiting for it has failed.
MonExited(p) ==
    /\ mon[p] = "wait"
    /\ \/ proc[p] # "alive" /\ UNCHANGED lost
       \/ WaitFails(p)
    /\ MonGoto(p, "exited")
    /\ UNCHANGED <<registry, states, proc, owner, born, spawned, held, job, history>>

\* Was the node stopped on purpose?
MonCheck(p) ==
    /\ mon[p] = "exited" /\ LockFree
    /\ MonGoto(p, IF status[owner[p]] \in {"stopped", "stopping"} THEN "done" ELSE "checked")
    /\ UNCHANGED <<registry, states, procs, held, job, history>>

\* Mutant: a clean exit ends the monitor without updating the state.
MonExitSilent(p) ==
    /\ mon[p] = "checked" /\ LockFree
    /\ \/ proc[p] = "clean" /\ MonGoto(p, "done") /\ UNCHANGED states
       \/ proc[p] = "crashed" /\ MonGoto(p, "backoff") /\ UNCHANGED states
    /\ UNCHANGED <<registry, procs, held, job, history>>

\* A clean exit is recorded as Stopped; a crash, or an exit code nobody could
\* get, goes to record_crash, which gives up (Errored) or asks for a restart
\* (module CrashPolicy).
MonExit(p) ==
    /\ mon[p] = "checked" /\ LockFree
    /\ \/ /\ proc[p] = "clean" /\ p \notin lost
          /\ SetState(owner[p], "stopped", 0)
          /\ MonGoto(p, "done")
       \/ /\ proc[p] = "crashed" \/ p \in lost
          /\ SetState(owner[p], "errored", 0)
          /\ MonGoto(p, "done")
       \/ /\ proc[p] = "crashed" \/ p \in lost
          /\ MonGoto(p, "backoff")
          /\ UNCHANGED states
    /\ UNCHANGED <<registry, procs, held, job, history>>

\* Mutant: the new child is not handed to the loop.
MonRespawnUnwatched(p) ==
    /\ mon[p] = "backoff"
    /\ \E q \in Pid : /\ Spawn(owner[p], q)
                      /\ SetState(owner[p], "running", q)
    /\ mon' = [mon EXCEPT ![p] = "done"]
    /\ UNCHANGED <<registry, lost, held, job, history>>

\* After the backoff the process is spawned again, without a look at the
\* supervisor; the result is entered under its lock.
MonRespawn(p) ==
    /\ mon[p] = "backoff"
    /\ \/ \E q \in Pid : /\ Spawn(owner[p], q)
                         /\ mon' = [mon EXCEPT ![p] = "done", ![q] = "spawned"]
       \/ MonGoto(p, "failed") /\ UNCHANGED <<proc, owner, born, spawned>>
    /\ UNCHANGED <<registry, lost, states, held, job, history>>

MonRegister(p) ==
    /\ LockFree
    /\ \/ /\ mon[p] = "spawned"
          /\ SetState(owner[p], "running", p)
          /\ MonGoto(p, "wait")
       \/ /\ mon[p] = "failed"
          /\ SetState(owner[p], "errored", 0)
          /\ MonGoto(p, "done")
    /\ UNCHANGED <<registry, procs, held, job, history>>

\* The daemon dies and is started again (daemon/client.rs run, server::start):
\* the registry is loaded, the supervisor is empty, the processes live on.
DaemonRestart ==
    /\ epoch < MaxRestarts
    /\ epoch' = epoch + 1
    /\ mem' = file.nodes /\ missed' = FALSE
    /\ status' = [n \in Node |-> "absent"]
    /\ pid' = [n \in Node |-> 0]
    /\ mon' = [p \in Pid |-> IF mon[p] = "none" THEN "none" ELSE "done"]
    /\ held' = 0
    /\ job' = [h \in Handler |-> Idle]
    /\ UNCHANGED <<file, procs, stopped, requests>>

HandlerStep(h) ==
    \/ AddNode(h) \/ post_nodes_fails(h) \/ DeleteCheck(h) \/ DeleteNode(h)
    \/ ResetCheck(h) \/ Reset(h) \/ SyncRegistry(h)
    \/ post_start_node(h) \/ post_start_all(h) \/ post_stop_node(h) \/ post_stop_all(h)
    \/ \E n \in Node : StartNode(h, n) \/ StopBegin(h, n) \/ StopEnd(h, n)

MonitorStep(p) ==
    MonExited(p) \/ MonCheck(p) \/ MonExit(p) \/ MonRespawn(p) \/ MonRegister(p)

Next ==
    \/ \E h \in Handler, op \in AllOps, n \in Node : Request(h, op, n)
    \/ \E h \in Handler : HandlerStep(h)
    \/ \E p \in Pid : ProcExit(p) \/ MonitorStep(p)
    \/ DaemonRestart

Spec == Init /\ [][Next]_vars

\* Handlers and monitors are tasks of one runtime and all make progress; a
\* process may run for ever.
FairSpec ==
    /\ Spec
    /\ \A h \in Handler : WF_vars(HandlerStep(h))
    /\ \A p \in Pid : WF_vars(MonitorStep(p))
-----------------------------------------------------------------------------
Live(n) == {p \in Pid : proc[p] = "alive" /\ owner[p] = n}

\* Without a stop by a client and without a daemon restart a node has one
\* process at most: crash, backoff, respawn and any number of racing start
\* requests never produce a second one, but for processes that could not be
\* waited for (start_node, monitor_node).
OneProcessUnlessStopped ==
    epoch = 0 => \A n \in Node \ stopped : Cardinality(Live(n) \ lost) <= 1

\* Every process this daemon spawned and can wait for is watched until it exits:
\* a crash is never missed, even when stale monitors of the same node are around.
EveryProcessWatched ==
    \A p \in Pid \ lost : proc[p] = "alive" /\ born[p] = epoch => mon[p] \in {"wait", "spawned"}

\* Once no registry change is in progress, the copy in memory is the file,
\* unless the last reload failed: of two concurrent changes the last reload sees
\* both, and it makes good for reloads that failed before it (post_nodes,
\* delete_node, post_reset).
RegistryInSync ==
    (\A h \in Handler : job[h].at # "sync") => missed \/ mem = file.nodes

\* A node that is shown as running without a process does not stay so: its
\* monitor restarts it, or marks it stopped or errored.
NoStaleRunning == \A n \in Node : []<>~(is_running(n) /\ Live(n) = {})
=============================================================================
