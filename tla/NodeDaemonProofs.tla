-------------------------- MODULE NodeDaemonProofs --------------------------
(***************************************************************************)
(* The daemon neither doubles nor loses processes and keeps the two copies *)
(* of the registry together, for any number of nodes, concurrent requests, *)
(* processes and restarts; and the crash policy of its supervisor gives up *)
(* on a node only after a burst of crashes.                                *)
(***************************************************************************)
EXTENDS NodeDaemon, CrashPolicy, Sequences, FiniteSetTheorems, TLAPS

JobAt == {"idle", "begin", "locked", "act", "sync"}
Job == [op : AllOps \cup {"none"}, ids : SUBSET Node, at : JobAt]

\* What the steps of a handler do to its request.
LEMMA JobTyped ==
    ASSUME job \in [Handler -> Job], NEW h \in Handler
    PROVE  /\ [job EXCEPT ![h] = Idle] \in [Handler -> Job]
           /\ \A l \in JobAt : [job EXCEPT ![h].at = l] \in [Handler -> Job]
           /\ \A n \in Node : NextId(h, n) => job' \in [Handler -> Job]
<1>1. Idle \in Job
  BY DEF Idle, Job, JobAt
<1>2. \A l \in JobAt : [job EXCEPT ![h].at = l] \in [Handler -> Job]
  BY DEF Job
<1>3. \A n \in Node : [job[h] EXCEPT !.ids = @ \ {n}] \in Job
  BY DEF Job
<1>4. ASSUME NEW n \in Node, NextId(h, n) PROVE job' \in [Handler -> Job]
  BY <1>1, <1>3, <1>4 DEF NextId
<1> QED
  BY <1>1, <1>2, <1>4

\* A spawned process has a new id.
LEMMA SpawnTyped ==
    ASSUME TypeOK, NEW n \in 0 .. MaxNode, NEW q \in Pid, Spawn(n, q)
    PROVE  /\ proc' \in [Pid -> {"unused", "alive", "clean", "crashed"}]
           /\ owner' \in [Pid -> 0 .. MaxNode]
           /\ born' \in [Pid -> 0 .. MaxRestarts]
           /\ spawned' \in 0 .. MaxPid
BY DaemonBounds DEF TypeOK, Spawn, Pid

LEMMA TypeInit == Init => TypeOK
<1> SUFFICES ASSUME Init PROVE TypeOK
  OBVIOUS
<1>1. file \in [nodes : SUBSET Node, next : 1 .. (MaxNode + 1)] /\ mem \subseteq Node
  <2>1. 1 .. Registered \subseteq Node /\ Registered + 1 \in 1 .. (MaxNode + 1)
    BY DaemonBounds, RegisteredAssumption DEF Node
  <2>2. file = [nodes |-> 1 .. Registered, next |-> Registered + 1] /\ mem = file.nodes
    BY DEF Init
  <2> QED
    BY <2>1, <2>2
<1>2. job \in [Handler -> Job]
  BY DEF Init, Idle, Job, JobAt
<1>3. /\ owner \in [Pid -> 0 .. MaxNode] /\ born \in [Pid -> 0 .. MaxRestarts]
      /\ spawned \in 0 .. MaxPid /\ epoch \in 0 .. MaxRestarts /\ pid \in [Node -> 0 .. MaxPid]
  BY DaemonBounds DEF Init
<1>4. /\ missed \in BOOLEAN /\ lost \subseteq Pid /\ held \in Handler \cup {0}
      /\ proc \in [Pid -> {"unused", "alive", "clean", "crashed"}]
      /\ status \in [Node -> {"absent", "running", "stopping", "stopped", "errored"}]
      /\ mon \in [Pid -> {"none", "wait", "exited", "checked", "backoff", "failed", "spawned", "done"}]
      /\ stopped \subseteq Node /\ requests \in Nat
  BY DEF Init
<1> QED
  BY <1>1, <1>2, <1>3, <1>4 DEF TypeOK, Job, JobAt

LEMMA TypeStep == TypeOK /\ [Next]_vars => TypeOK'
<1> SUFFICES ASSUME TypeOK, [Next]_vars PROVE TypeOK'
  OBVIOUS
<1> USE DaemonBounds
<1>0. /\ job \in [Handler -> Job]
      /\ mem \subseteq Node /\ file.nodes \subseteq Node
      /\ JobAt = {"idle", "begin", "locked", "act", "sync"}
  BY DEF TypeOK, Job, JobAt
<1>1. ASSUME NEW h \in Handler, NEW op \in AllOps, NEW n \in Node, Request(h, op, n)
      PROVE  TypeOK'
  <2>1. [op |-> op, ids |-> {m \in {n} : op \in Named}, at |-> "begin"] \in Job
    BY DEF Job, JobAt
  <2> QED
    BY <1>0, <1>1, <2>1 DEF Request, TypeOK, Job, JobAt, registry, copy, states, procs
<1>2. ASSUME NEW h \in Handler, HandlerStep(h) PROVE TypeOK'
  <2>1. CASE AddNode(h)
    <3>1. job' \in [Handler -> Job]
      BY <2>1, <1>0, JobTyped DEF AddNode, Move
    <3>2. file' \in [nodes : SUBSET Node, next : 1 .. (MaxNode + 1)]
      BY <2>1 DEF AddNode, add, TypeOK, Node
    <3> QED
      BY <2>1, <3>1, <3>2 DEF AddNode, TypeOK, Job, JobAt, copy, states, procs, history
  <2>2. CASE post_nodes_fails(h) \/ DeleteCheck(h) \/ ResetCheck(h)
    <3>1. job' \in [Handler -> Job]
      BY <2>2, <1>0, JobTyped DEF post_nodes_fails, DeleteCheck, ResetCheck, Move, Finish
    <3> QED
      BY <2>2, <3>1 DEF post_nodes_fails, DeleteCheck, ResetCheck, TypeOK, Job, JobAt,
                        registry, copy, states, procs, history
  <2>3. CASE DeleteNode(h) \/ Reset(h)
    <3>1. job' \in [Handler -> Job]
      BY <2>3, <1>0, JobTyped DEF DeleteNode, Reset, Move, Finish
    <3>2. file' \in [nodes : SUBSET Node, next : 1 .. (MaxNode + 1)]
      <4>1. remove(file, job[h].ids) \in [nodes : SUBSET Node, next : 1 .. (MaxNode + 1)]
        BY DEF remove, TypeOK
      <4>2. cleared \in [nodes : SUBSET Node, next : 1 .. (MaxNode + 1)]
        BY DEF cleared
      <4> QED
        BY <2>3, <4>1, <4>2 DEF DeleteNode, Reset, TypeOK
    <3> QED
      BY <2>3, <3>1, <3>2 DEF DeleteNode, Reset, TypeOK, Job, JobAt, copy, states, procs, history
  <2>4. CASE SyncRegistry(h)
    <3>1. job' \in [Handler -> Job]
      BY <2>4, <1>0, JobTyped DEF SyncRegistry, Finish
    <3> QED
      BY <2>4, <3>1, <1>0 DEF SyncRegistry, TypeOK, Job, JobAt, states, procs, history
  <2>5. CASE post_start_node(h) \/ post_start_all(h) \/ post_stop_node(h) \/ post_stop_all(h)
    <3>1. PICK op \in AllOps, ids \in SUBSET Node : Found(h, op, ids)
      <4>1. mem \in SUBSET Node /\ job[h].ids \cap mem \in SUBSET Node
        BY <1>0
      <4> QED
        BY <2>5, <4>1 DEF post_start_node, post_start_all, post_stop_node, post_stop_all, AllOps
    <3>2. [job[h] EXCEPT !.ids = ids, !.at = "locked"] \in Job
      BY <1>0 DEF Job
    <3>3. job' \in [Handler -> Job]
      BY <3>1, <3>2, <1>0, JobTyped DEF Found, Idle, Job
    <3> QED
      BY <3>1, <3>3 DEF Found, TypeOK, Job, JobAt, registry, copy, states, procs, history
  <2>6. ASSUME NEW n \in Node, StartNode(h, n) PROVE TypeOK'
    <3>1. job' \in [Handler -> Job]
      BY <2>6, <1>0, JobTyped DEF StartNode
    <3>2. CASE UNCHANGED <<states, procs, mon>>
      BY <2>6, <3>1, <3>2 DEF StartNode, TypeOK, Job, JobAt, registry, copy, states, procs, history
    <3>3. CASE SetState(n, "errored", 0) /\ UNCHANGED <<procs, mon>>
      BY <2>6, <3>1, <3>3 DEF StartNode, SetState, TypeOK, Job, JobAt, registry, copy, procs, history
    <3>4. CASE /\ \E q \in Pid : /\ Spawn(n, q)
                                 /\ SetState(n, "running", q)
                                 /\ mon' = [mon EXCEPT ![q] = "wait"]
               /\ UNCHANGED lost
      <4>1. PICK q \in Pid : /\ Spawn(n, q)
                             /\ SetState(n, "running", q)
                             /\ mon' = [mon EXCEPT ![q] = "wait"]
        BY <3>4
      <4>2. n \in 0 .. MaxNode /\ q \in 0 .. MaxPid
        BY DEF Node, Pid
      <4> QED
        BY <2>6, <3>1, <3>4, <4>1, <4>2, SpawnTyped
           DEF StartNode, SetState, TypeOK, Job, JobAt, registry, copy, history
    <3>5. CASE (\E q \in Pid : Spawn(n, q) /\ WaitFails(q)) /\ UNCHANGED <<states, mon>>
      <4>1. PICK q \in Pid : Spawn(n, q) /\ WaitFails(q)
        BY <3>5
      <4>2. n \in 0 .. MaxNode /\ lost' \subseteq Pid
        BY <4>1 DEF Node, WaitFails, TypeOK
      <4> QED
        BY <2>6, <3>1, <3>5, <4>1, <4>2, SpawnTyped
           DEF StartNode, TypeOK, Job, JobAt, registry, copy, states, history
    <3> QED
      BY <2>6, <3>2, <3>3, <3>4, <3>5 DEF StartNode
  <2>7. ASSUME NEW n \in Node, StopBegin(h, n) PROVE TypeOK'
    <3>1. job' \in [Handler -> Job]
      BY <2>7, <1>0, JobTyped DEF StopBegin
    <3> QED
      BY <2>7, <3>1 DEF StopBegin, TypeOK, Job, JobAt, registry, copy, procs, history
  <2>8. ASSUME NEW n \in Node, StopEnd(h, n) PROVE TypeOK'
    <3>1. job' \in [Handler -> Job]
      BY <2>8, <1>0, JobTyped DEF StopEnd
    <3>2. proc' \in [Pid -> {"unused", "alive", "clean", "crashed"}]
      BY <2>8 DEF StopEnd, graceful_kill, TypeOK
    <3> QED
      BY <2>8, <3>1, <3>2 DEF StopEnd, SetState, TypeOK, Job, JobAt, registry, copy
  <2> QED
    BY <1>2, <2>1, <2>2, <2>3, <2>4, <2>5, <2>6, <2>7, <2>8 DEF HandlerStep
<1>3. ASSUME NEW p \in Pid, ProcExit(p) PROVE TypeOK'
  BY <1>3 DEF ProcExit, TypeOK, registry, copy, states, history
<1>4. ASSUME NEW p \in Pid, MonExited(p) \/ MonCheck(p) \/ MonExit(p) \/ MonRegister(p)
      PROVE  TypeOK'
  <2>0. p \in 0 .. MaxPid
    BY DEF Pid
  <2>1. /\ UNCHANGED <<registry, proc, owner, born, spawned, held, job, history>>
        /\ lost' \subseteq Pid
        /\ \E l \in {"exited", "done", "checked", "backoff", "wait"} : MonGoto(p, l)
        /\ UNCHANGED states \/ \E s \in {"stopped", "errored", "running"}, q \in {0, p} :
                                  SetState(owner[p], s, q)
    BY <1>4 DEF MonExited, MonCheck, MonExit, MonRegister, WaitFails, procs, TypeOK
  <2>2. mon' \in [Pid -> {"none", "wait", "exited", "checked", "backoff", "failed",
                          "spawned", "done"}]
    BY <2>1 DEF MonGoto, TypeOK
  <2>3. /\ status' \in [Node -> {"absent", "running", "stopping", "stopped", "errored"}]
        /\ pid' \in [Node -> 0 .. MaxPid]
    <3>1. CASE UNCHANGED states
      BY <3>1 DEF states, TypeOK
    <3>2. ASSUME NEW s \in {"stopped", "errored", "running"}, NEW q \in {0, p},
                 SetState(owner[p], s, q)
          PROVE  /\ status' \in [Node -> {"absent", "running", "stopping", "stopped", "errored"}]
                 /\ pid' \in [Node -> 0 .. MaxPid]
      <4>1. q \in 0 .. MaxPid
        BY <2>0
      <4>2. status' = [status EXCEPT ![owner[p]] = s] /\ pid' = [pid EXCEPT ![owner[p]] = q]
        BY <3>2 DEF SetState
      <4> QED
        BY <4>1, <4>2 DEF TypeOK
    <3> QED
      BY <2>1, <3>1, <3>2
  <2> QED
    BY <2>1, <2>2, <2>3 DEF TypeOK, registry, copy, history
<1>5. ASSUME NEW p \in Pid, MonRespawn(p) PROVE TypeOK'
  <2>0. UNCHANGED lost
    BY <1>5 DEF MonRespawn
  <2>1. CASE MonGoto(p, "failed") /\ UNCHANGED procs
    BY <1>5, <2>1 DEF MonRespawn, MonGoto, TypeOK, registry, copy, states, procs, history
  <2>2. ASSUME NEW q \in Pid, Spawn(owner[p], q),
               mon' = [mon EXCEPT ![p] = "done", ![q] = "spawned"]
        PROVE  TypeOK'
    <3>1. owner[p] \in 0 .. MaxNode
      BY DEF TypeOK
    <3> QED
      BY <1>5, <2>0, <2>2, <3>1, SpawnTyped DEF MonRespawn, TypeOK, registry, copy, states, history
  <2> QED
    BY <1>5, <2>1, <2>2 DEF MonRespawn, procs
<1>6. CASE DaemonRestart
  <2>1. job' \in [Handler -> Job]
    BY <1>6 DEF DaemonRestart, Idle, Job, JobAt
  <2> QED
    <3>1. /\ mem' \subseteq Node /\ missed' \in BOOLEAN /\ file' \in [nodes : SUBSET Node, next : 1 .. (MaxNode + 1)]
          /\ held' \in Handler \cup {0}
      BY <1>6, <1>0 DEF DaemonRestart, TypeOK
    <3>3. epoch' \in 0 .. MaxRestarts
      BY <1>6 DEF DaemonRestart, TypeOK
    <3>2. /\ status' \in [Node -> {"absent", "running", "stopping", "stopped", "errored"}]
          /\ pid' \in [Node -> 0 .. MaxPid]
          /\ mon' \in [Pid -> {"none", "wait", "exited", "checked", "backoff", "failed", "spawned", "done"}]
      BY <1>6 DEF DaemonRestart, TypeOK
    <3> QED
      BY <1>6, <2>1, <3>1, <3>2, <3>3 DEF DaemonRestart, TypeOK, Job, JobAt, procs
<1>7. CASE UNCHANGED vars
  BY <1>7 DEF TypeOK, vars
<1> QED
  BY <1>1, <1>2, <1>3, <1>4, <1>5, <1>6, <1>7 DEF Next, MonitorStep

\* The state of the daemon is always one the types of the code allow.
THEOREM TypeCorrect == Spec => []TypeOK
BY TypeInit, TypeStep, PTL DEF Spec
-----------------------------------------------------------------------------
(* The two copies of the registry *)

\* Only a handler that works through its list keeps the supervisor lock.
HeldInv == held # 0 => job[held].at = "locked"

SyncInv == TypeOK /\ HeldInv /\ RegistryInSync

LEMMA HeldStep == TypeOK /\ HeldInv /\ [Next]_vars => HeldInv'
<1> SUFFICES ASSUME TypeOK, HeldInv, [Next]_vars PROVE HeldInv'
  OBVIOUS
<1>0. job \in [Handler -> Job] /\ held \in Handler \cup {0}
  BY DEF TypeOK, Job, JobAt
<1>1. ASSUME NEW h \in Handler, job[h].at # "locked", held' = held,
             \A g \in Handler : g # h => job'[g] = job[g]
      PROVE  HeldInv'
  BY <1>0, <1>1 DEF HeldInv
<1>2. ASSUME NEW h \in Handler, NEW op \in AllOps, NEW n \in Node, Request(h, op, n)
      PROVE  HeldInv'
  BY <1>0, <1>1, <1>2 DEF Request, Idle
<1>3. ASSUME NEW h \in Handler, HandlerStep(h) PROVE HeldInv'
  <2>1. CASE AddNode(h) \/ post_nodes_fails(h) \/ DeleteCheck(h) \/ DeleteNode(h)
             \/ ResetCheck(h) \/ Reset(h) \/ SyncRegistry(h)
    <3>1. /\ job[h].at # "locked" /\ held' = held
          /\ \A g \in Handler : g # h => job'[g] = job[g]
      BY <1>0, <2>1 DEF AddNode, post_nodes_fails, DeleteCheck, DeleteNode, ResetCheck, Reset,
                        SyncRegistry, At, Move, Finish
    <3> QED
      BY <1>1, <3>1
  <2>2. CASE post_start_node(h) \/ post_start_all(h) \/ post_stop_node(h) \/ post_stop_all(h)
    <3>1. /\ job[h].at # "locked" /\ held' = held
          /\ \A g \in Handler : g # h => job'[g] = job[g]
      BY <1>0, <2>2 DEF post_start_node, post_start_all, post_stop_node, post_stop_all, Found, At
    <3> QED
      BY <1>1, <3>1
  <2>3. ASSUME NEW n \in Node, StartNode(h, n) PROVE HeldInv'
    BY <2>3 DEF StartNode, LockFree, HeldInv
  <2>4. ASSUME NEW n \in Node, StopBegin(h, n) \/ StopEnd(h, n) PROVE HeldInv'
    <3>1. /\ job[h].at = "locked"
          /\ \/ held' = 0
             \/ held' = h /\ (job' = job \/ (job[h].ids # {n} /\ NextId(h, n)))
      BY <2>4, HandlerAssumption DEF StopBegin, StopEnd, HeldInv
    <3>2. ASSUME job[h].ids # {n}, NextId(h, n) PROVE job'[h].at = job[h].at
      <4>1. job'[h] = [job[h] EXCEPT !.ids = @ \ {n}]
        BY <1>0, <3>2 DEF NextId
      <4> QED
        BY <1>0, <4>1 DEF Job
    <3> QED
      BY <3>1, <3>2 DEF HeldInv
  <2> QED
    BY <1>3, <2>1, <2>2, <2>3, <2>4 DEF HandlerStep
<1>4. ASSUME NEW p \in Pid, ProcExit(p) \/ MonitorStep(p) PROVE HeldInv'
  <2>1. UNCHANGED <<held, job>>
    BY <1>4 DEF ProcExit, MonitorStep, MonExited, MonCheck, MonExit, MonRespawn, MonRegister
  <2> QED
    BY <2>1 DEF HeldInv
<1>5. CASE DaemonRestart
  BY <1>5 DEF DaemonRestart, HeldInv
<1>6. CASE UNCHANGED vars
  BY <1>6 DEF HeldInv, vars
<1> QED
  BY <1>2, <1>3, <1>4, <1>5, <1>6 DEF Next

\* A change of the file leaves its handler at "sync", and the reload at the end
\* copies the whole file.
LEMMA SyncStep == SyncInv /\ [Next]_vars => RegistryInSync'
<1> SUFFICES ASSUME TypeOK, HeldInv, RegistryInSync, [Next]_vars PROVE RegistryInSync'
  BY DEF SyncInv
<1>0. job \in [Handler -> Job]
  BY DEF TypeOK, Job, JobAt
<1>1. ASSUME NEW h \in Handler, NEW op \in AllOps, NEW n \in Node, Request(h, op, n)
      PROVE  RegistryInSync'
  BY <1>0, <1>1 DEF Request, RegistryInSync, registry, copy, Idle
<1>2. ASSUME NEW h \in Handler, HandlerStep(h) PROVE RegistryInSync'
  <2>1. CASE AddNode(h)
    <3>1. job'[h].at = "sync"
      BY <1>0, <2>1 DEF AddNode, Move, Job
    <3> QED
      BY <3>1 DEF RegistryInSync
  <2>2. CASE post_nodes_fails(h) \/ DeleteCheck(h) \/ ResetCheck(h)
    <3>1. /\ \A g \in Handler : job[g].at = "sync" => job'[g].at = "sync"
          /\ UNCHANGED registry
      BY <1>0, <2>2 DEF post_nodes_fails, DeleteCheck, ResetCheck, At, Move, Finish, Job
    <3> QED
      BY <3>1 DEF RegistryInSync, registry, copy
  <2>3. CASE DeleteNode(h) \/ Reset(h)
    <3>1. job[h].at # "sync" /\ UNCHANGED <<mem, missed>>
      BY <2>3 DEF DeleteNode, Reset, At, copy
    <3>2. CASE Move(h, "sync")
      <4>1. job'[h].at = "sync"
        BY <1>0, <3>2 DEF Move, Job
      <4> QED
        BY <4>1 DEF RegistryInSync
    <3>3. CASE Finish(h) /\ UNCHANGED file
      BY <1>0, <3>1, <3>3 DEF Finish, RegistryInSync
    <3> QED
      BY <2>3, <3>2, <3>3 DEF DeleteNode, Reset
  <2>4. CASE SyncRegistry(h)
    BY <2>4 DEF SyncRegistry, RegistryInSync
  <2>5. CASE post_start_node(h) \/ post_start_all(h) \/ post_stop_node(h) \/ post_stop_all(h)
    <3>1. /\ job[h].at = "begin" /\ UNCHANGED registry
          /\ \A g \in Handler : g # h => job'[g] = job[g]
      BY <1>0, <2>5 DEF post_start_node, post_start_all, post_stop_node, post_stop_all, Found, At
    <3> QED
      BY <3>1 DEF RegistryInSync, registry, copy
  <2>6. ASSUME NEW n \in Node, StartNode(h, n) \/ StopBegin(h, n) \/ StopEnd(h, n)
        PROVE  RegistryInSync'
    <3>1. UNCHANGED registry /\ (job' = job \/ NextId(h, n))
      BY <2>6 DEF StartNode, StopBegin, StopEnd
    <3>2. job[h].at = "locked"
      BY <2>6, HandlerAssumption DEF StartNode, StopBegin, StopEnd, HeldInv
    <3>3. \A g \in Handler : g # h => job'[g] = job[g]
      BY <1>0, <3>1 DEF NextId
    <3> QED
      BY <3>1, <3>2, <3>3 DEF RegistryInSync, registry, copy
  <2> QED
    BY <1>2, <2>1, <2>2, <2>3, <2>4, <2>5, <2>6 DEF HandlerStep
<1>3. ASSUME NEW p \in Pid, ProcExit(p) \/ MonitorStep(p) PROVE RegistryInSync'
  <2>1. UNCHANGED <<registry, job>>
    BY <1>3 DEF ProcExit, MonitorStep, MonExited, MonCheck, MonExit, MonRespawn, MonRegister
  <2> QED
    BY <2>1 DEF RegistryInSync, registry, copy
<1>4. CASE DaemonRestart
  BY <1>4 DEF DaemonRestart, RegistryInSync
<1>5. CASE UNCHANGED vars
  BY <1>5 DEF RegistryInSync, vars
<1> QED
  BY <1>1, <1>2, <1>3, <1>4, <1>5 DEF Next

\* Of any number of concurrent changes of the registry, the last reload sees
\* all: when none is in progress the copy in memory is the file, unless that
\* reload failed, whatever happened to those before it.
THEOREM SyncTheorem == Spec => []RegistryInSync
<1>1. Init => HeldInv /\ RegistryInSync
  BY DEF Init, HeldInv, RegistryInSync
<1> QED
  BY <1>1, HeldStep, SyncStep, TypeCorrect, PTL DEF Spec, SyncInv
-----------------------------------------------------------------------------
(* Processes and their monitors *)

\* Process ids are given in order, by this daemon or an earlier one; a process
\* that has a monitor has a node.
Fresh ==
    /\ \A p \in Pid : born[p] <= epoch
    /\ \A p \in Pid : p > spawned => proc[p] = "unused" /\ mon[p] = "none"
    /\ \A p \in Pid : mon[p] # "none" => owner[p] \in Node

WatchInv == TypeOK /\ Fresh /\ EveryProcessWatched

\* A stop in progress keeps the lock, and there is one at most.
StoppingInv ==
    /\ \A n \in Node : status[n] = "stopping" => held # 0
    /\ \A m, n \in Node : status[m] = "stopping" /\ status[n] = "stopping" => m = n

\* The monitor that is still at work for a process.
Active(p) == mon[p] \notin {"none", "done"}

\* A node nobody stopped has one monitor at work at most, and is shown as
\* running, or being stopped, as long as there is one: a start sees that.
OneMonitor ==
    epoch = 0 => \A n \in Node \ stopped :
        /\ \A p, q \in Pid : Active(p) /\ Active(q) /\ owner[p] = n /\ owner[q] = n => p = q
        /\ \A p \in Pid : Active(p) /\ owner[p] = n => status[n] \in {"running", "stopping"}

ProcessInv == WatchInv /\ StoppingInv /\ OneMonitor

\* The steps of a handler that touch neither processes nor their states.
LEMMA QuietStep ==
    ASSUME NEW h \in Handler,
           \/ AddNode(h) \/ post_nodes_fails(h) \/ DeleteCheck(h) \/ DeleteNode(h)
           \/ ResetCheck(h) \/ Reset(h) \/ SyncRegistry(h)
           \/ post_start_node(h) \/ post_start_all(h) \/ post_stop_node(h) \/ post_stop_all(h)
    PROVE  UNCHANGED <<states, procs, mon, held, history>>
BY DEF AddNode, post_nodes_fails, DeleteCheck, DeleteNode, ResetCheck, Reset, SyncRegistry,
       post_start_node, post_start_all, post_stop_node, post_stop_all, Found

\* The process that is spawned next has not been one before, and its monitor
\* takes it over in the same step, unless it cannot be waited for.
LEMMA SpawnWatched ==
    ASSUME WatchInv, NEW n \in Node, NEW q \in Pid, Spawn(n, q), epoch' = epoch,
           lost \subseteq lost', mon'[q] \in {"wait", "spawned"} \/ q \in lost',
           \A p \in Pid : p # q => mon'[p] = mon[p] \/ (mon[p] = "backoff" /\ mon'[p] = "done")
    PROVE  Fresh' /\ EveryProcessWatched'
<1>1. /\ q = spawned + 1 /\ spawned' = q /\ spawned \in Nat
      /\ proc'[q] = "alive" /\ owner'[q] = n /\ born'[q] = epoch
      /\ \A p \in Pid : p # q => proc'[p] = proc[p] /\ owner'[p] = owner[p] /\ born'[p] = born[p]
  BY DaemonBounds DEF Spawn, WatchInv, TypeOK
<1>2. Fresh'
  <2>1. \A p \in Pid : p > spawned' => p > spawned /\ p # q
    BY <1>1 DEF Pid
  <2>2. \A p \in Pid : mon[p] = "backoff" => ~(p > spawned)
    BY DEF WatchInv, Fresh
  <2>3. \A p \in Pid : born'[p] <= epoch'
    BY <1>1, DaemonBounds DEF WatchInv, Fresh, TypeOK
  <2>4. \A p \in Pid : p > spawned' => proc'[p] = "unused" /\ mon'[p] = "none"
    BY <1>1, <2>1, <2>2 DEF WatchInv, Fresh
  <2>5. \A p \in Pid : mon'[p] # "none" => owner'[p] \in Node
    BY <1>1 DEF WatchInv, Fresh
  <2> QED
    BY <2>3, <2>4, <2>5 DEF Fresh
<1>3. EveryProcessWatched'
  <2> SUFFICES ASSUME NEW p \in Pid, p \notin lost', proc'[p] = "alive", born'[p] = epoch
               PROVE  mon'[p] \in {"wait", "spawned"}
    BY DEF EveryProcessWatched
  <2>1. CASE p = q
    BY <2>1
  <2>2. CASE p # q
    BY <1>1, <2>2 DEF WatchInv, EveryProcessWatched
  <2> QED
    BY <2>1, <2>2
<1> QED
  BY <1>2, <1>3

LEMMA WatchStep == WatchInv /\ [Next]_vars => Fresh' /\ EveryProcessWatched'
<1> SUFFICES ASSUME WatchInv, [Next]_vars PROVE Fresh' /\ EveryProcessWatched'
  OBVIOUS
<1>0. /\ proc \in [Pid -> {"unused", "alive", "clean", "crashed"}]
      /\ mon \in [Pid -> {"none", "wait", "exited", "checked", "backoff", "failed",
                          "spawned", "done"}]
      /\ owner \in [Pid -> 0 .. MaxNode]
  BY DEF WatchInv, TypeOK
<1>1. ASSUME UNCHANGED <<procs, mon, epoch>> PROVE Fresh' /\ EveryProcessWatched'
  BY <1>1 DEF WatchInv, Fresh, EveryProcessWatched, procs
<1>2. ASSUME NEW h \in Handler, NEW op \in AllOps, NEW n \in Node, Request(h, op, n)
      PROVE  Fresh' /\ EveryProcessWatched'
  BY <1>1, <1>2 DEF Request
<1>3. ASSUME NEW h \in Handler, HandlerStep(h) PROVE Fresh' /\ EveryProcessWatched'
  <2>1. CASE UNCHANGED <<states, procs, mon, held, history>>
    BY <1>1, <2>1 DEF history
  <2>2. ASSUME NEW n \in Node, StartNode(h, n) PROVE Fresh' /\ EveryProcessWatched'
    <3>1. CASE UNCHANGED <<procs, mon>>
      BY <1>1, <2>2, <3>1 DEF StartNode, history
    <3>2. ASSUME NEW q \in Pid, Spawn(n, q), UNCHANGED lost, mon' = [mon EXCEPT ![q] = "wait"]
          PROVE  Fresh' /\ EveryProcessWatched'
      <4>1. mon'[q] = "wait" /\ \A p \in Pid : p # q => mon'[p] = mon[p]
        BY <1>0, <3>2
      <4>2. epoch' = epoch
        BY <2>2 DEF StartNode, history
      <4> QED
        BY <3>2, <4>1, <4>2, SpawnWatched
    <3>3. ASSUME NEW q \in Pid, Spawn(n, q), WaitFails(q), UNCHANGED mon
          PROVE  Fresh' /\ EveryProcessWatched'
      <4>1. epoch' = epoch /\ lost \subseteq lost' /\ q \in lost'
        BY <2>2, <3>3 DEF StartNode, history, WaitFails
      <4> QED
        BY <3>3, <4>1, SpawnWatched
    <3> QED
      BY <2>2, <3>1, <3>2, <3>3 DEF StartNode
  <2>3. ASSUME NEW n \in Node, StopBegin(h, n) PROVE Fresh' /\ EveryProcessWatched'
    BY <1>1, <2>3 DEF StopBegin, history
  <2>4. ASSUME NEW n \in Node, StopEnd(h, n) PROVE Fresh' /\ EveryProcessWatched'
    <3>1. \A p \in Pid : proc'[p] = proc[p] \/ (proc[p] = "alive" /\ proc'[p] # "alive")
      BY <1>0, <2>4 DEF StopEnd, graceful_kill
    <3>2. UNCHANGED <<owner, born, spawned, lost, mon, epoch>>
      BY <2>4 DEF StopEnd
    <3> QED
      BY <3>1, <3>2 DEF WatchInv, Fresh, EveryProcessWatched
  <2> QED
    BY <1>3, <2>1, <2>2, <2>3, <2>4, QuietStep DEF HandlerStep
<1>4. ASSUME NEW p \in Pid, ProcExit(p) PROVE Fresh' /\ EveryProcessWatched'
  <2>1. \A q \in Pid : proc'[q] = proc[q] \/ (proc[q] = "alive" /\ proc'[q] # "alive")
    BY <1>0, <1>4 DEF ProcExit
  <2>2. UNCHANGED <<owner, born, spawned, lost, mon, epoch>>
    BY <1>4 DEF ProcExit, history
  <2> QED
    BY <2>1, <2>2 DEF WatchInv, Fresh, EveryProcessWatched
<1>5. ASSUME NEW p \in Pid, MonExited(p) \/ MonCheck(p) \/ MonExit(p) \/ MonRegister(p)
      PROVE  Fresh' /\ EveryProcessWatched'
  <2>1. /\ mon[p] # "none" /\ mon'[p] # "none"
        /\ mon'[p] = "wait" \/ proc[p] # "alive" \/ mon[p] \notin {"wait", "spawned"} \/ p \in lost'
        /\ \A q \in Pid : q # p => mon'[q] = mon[q]
        /\ lost \subseteq lost'
        /\ UNCHANGED <<proc, owner, born, spawned, epoch>>
    BY <1>0, <1>5 DEF MonExited, MonCheck, MonExit, MonRegister, MonGoto, WaitFails, procs, history
  <2> QED
    BY <2>1 DEF WatchInv, Fresh, EveryProcessWatched
<1>6. ASSUME NEW p \in Pid, MonRespawn(p) PROVE Fresh' /\ EveryProcessWatched'
  <2>0. mon[p] = "backoff" /\ UNCHANGED <<epoch, lost>>
    BY <1>6 DEF MonRespawn, history
  <2>1. CASE MonGoto(p, "failed") /\ UNCHANGED procs
    BY <1>0, <2>0, <2>1 DEF MonGoto, WatchInv, Fresh, EveryProcessWatched, procs
  <2>2. ASSUME NEW q \in Pid, Spawn(owner[p], q),
               mon' = [mon EXCEPT ![p] = "done", ![q] = "spawned"]
        PROVE  Fresh' /\ EveryProcessWatched'
    <3>1. q > spawned
      BY <2>2, DaemonBounds DEF Spawn, WatchInv, TypeOK
    <3>2. q # p /\ owner[p] \in Node
      BY <2>0, <3>1 DEF WatchInv, Fresh
    <3>3. /\ mon'[q] = "spawned"
          /\ \A r \in Pid : r # q => mon'[r] = mon[r] \/ (mon[r] = "backoff" /\ mon'[r] = "done")
      BY <1>0, <2>0, <2>2, <3>2
    <3> QED
      BY <2>0, <2>2, <3>2, <3>3, SpawnWatched
  <2> QED
    BY <1>6, <2>1, <2>2 DEF MonRespawn, procs
<1>7. CASE DaemonRestart
  <2>1. /\ UNCHANGED <<proc, owner, born, spawned, lost>>
        /\ \A p \in Pid : mon'[p] = IF mon[p] = "none" THEN "none" ELSE "done"
        /\ \A p \in Pid : born[p] # epoch' /\ born[p] <= epoch'
    BY <1>7, DaemonBounds DEF DaemonRestart, WatchInv, Fresh, TypeOK, procs
  <2> QED
    BY <2>1 DEF WatchInv, Fresh, EveryProcessWatched
<1>8. CASE UNCHANGED vars
  BY <1>1, <1>8 DEF vars, procs
<1> QED
  BY <1>2, <1>3, <1>4, <1>5, <1>6, <1>7, <1>8 DEF Next, MonitorStep

\* A process that the daemon spawned and can wait for is watched by a monitor
\* until it exits.
THEOREM WatchedTheorem == Spec => []EveryProcessWatched
<1>1. Init => Fresh /\ EveryProcessWatched
  BY DaemonBounds DEF Init, Fresh, EveryProcessWatched
<1> QED
  BY <1>1, WatchStep, TypeCorrect, PTL DEF Spec, WatchInv

LEMMA StoppingStep == TypeOK /\ StoppingInv /\ [Next]_vars => StoppingInv'
<1> SUFFICES ASSUME TypeOK, StoppingInv, [Next]_vars PROVE StoppingInv'
  OBVIOUS
<1>0. /\ status \in [Node -> {"absent", "running", "stopping", "stopped", "errored"}]
      /\ held \in Handler \cup {0}
  BY DEF TypeOK
<1>1. ASSUME UNCHANGED <<status, held>> PROVE StoppingInv'
  BY <1>1 DEF StoppingInv
<1>2. ASSUME NEW n, NEW s \in {"running", "stopped", "errored"},
             status' = [status EXCEPT ![n] = s], held' = held
      PROVE  StoppingInv'
  BY <1>0, <1>2 DEF StoppingInv
<1>3. ASSUME NEW h \in Handler, NEW op \in AllOps, NEW n \in Node, Request(h, op, n)
      PROVE  StoppingInv'
  BY <1>1, <1>3 DEF Request, states
<1>4. ASSUME NEW h \in Handler, HandlerStep(h) PROVE StoppingInv'
  <2>1. CASE UNCHANGED <<states, procs, mon, held, history>>
    BY <1>1, <2>1 DEF states
  <2>2. ASSUME NEW n \in Node, StartNode(h, n) PROVE StoppingInv'
    <3>1. /\ held' = held
          /\ status' = status \/ \E s \in {"running", "stopped", "errored"} :
                                     status' = [status EXCEPT ![n] = s]
      BY <2>2 DEF StartNode, SetState, states
    <3> QED
      BY <1>1, <1>2, <3>1
  <2>3. ASSUME NEW n \in Node, StopBegin(h, n) PROVE StoppingInv'
    <3>1. \A m \in Node : status[m] # "stopping"
      BY <2>3 DEF StopBegin
    <3> QED
      BY <1>0, <2>3, <3>1, HandlerAssumption DEF StopBegin, StoppingInv
  <2>4. ASSUME NEW n \in Node, StopEnd(h, n) PROVE StoppingInv'
    <3>1. status' = [status EXCEPT ![n] = "stopped"] /\ status[n] = "stopping"
      BY <2>4 DEF StopEnd, SetState
    <3>2. \A m \in Node : status'[m] # "stopping"
      BY <1>0, <3>1 DEF StoppingInv
    <3> QED
      BY <3>2 DEF StoppingInv
  <2> QED
    BY <1>4, <2>1, <2>2, <2>3, <2>4, QuietStep DEF HandlerStep
<1>5. ASSUME NEW p \in Pid, ProcExit(p) \/ MonitorStep(p) PROVE StoppingInv'
  <2>1. /\ held' = held
        /\ status' = status \/ \E s \in {"running", "stopped", "errored"} :
                                   status' = [status EXCEPT ![owner[p]] = s]
    BY <1>5 DEF ProcExit, MonitorStep, MonExited, MonCheck, MonExit, MonRespawn, MonRegister,
                SetState, states
  <2> QED
    BY <1>1, <1>2, <2>1
<1>6. CASE DaemonRestart
  BY <1>6 DEF DaemonRestart, StoppingInv
<1>7. CASE UNCHANGED vars
  BY <1>1, <1>7 DEF vars
<1> QED
  BY <1>3, <1>4, <1>5, <1>6, <1>7 DEF Next

\* A monitor ends, or hands its node over to the monitor of the process it
\* spawned; a start finds a node that is not running without a monitor.
LEMMA OneMonitorStep == ProcessInv /\ [Next]_vars => OneMonitor'
<1> SUFFICES ASSUME ProcessInv, [Next]_vars, epoch' = 0, NEW n \in Node, n \notin stopped'
             PROVE  /\ \A p, q \in Pid :
                          Active(p)' /\ Active(q)' /\ owner'[p] = n /\ owner'[q] = n => p = q
                    /\ \A p \in Pid :
                          Active(p)' /\ owner'[p] = n => status'[n] \in {"running", "stopping"}
  BY DEF OneMonitor
<1> DEFINE Goal == /\ \A p, q \in Pid :
                         Active(p)' /\ Active(q)' /\ owner'[p] = n /\ owner'[q] = n => p = q
                   /\ \A p \in Pid :
                         Active(p)' /\ owner'[p] = n => status'[n] \in {"running", "stopping"}
<1>0. /\ mon \in [Pid -> {"none", "wait", "exited", "checked", "backoff", "failed",
                          "spawned", "done"}]
      /\ owner \in [Pid -> 0 .. MaxNode]
      /\ status \in [Node -> {"absent", "running", "stopping", "stopped", "errored"}]
      /\ spawned \in Nat /\ epoch \in Nat
      /\ \A p \in Pid : mon[p] # "none" => owner[p] \in Node
      /\ \A p \in Pid : p > spawned => mon[p] = "none"
      /\ \A m \in Node : status[m] = "stopping" => held # 0
  BY DaemonBounds DEF ProcessInv, WatchInv, TypeOK, Fresh, StoppingInv
<1>1. ASSUME epoch = 0, n \notin stopped
      PROVE  /\ \A p, q \in Pid : Active(p) /\ Active(q) /\ owner[p] = n /\ owner[q] = n => p = q
             /\ \A p \in Pid : Active(p) /\ owner[p] = n => status[n] \in {"running", "stopping"}
  BY <1>1 DEF ProcessInv, OneMonitor
<1>2. ASSUME UNCHANGED <<states, owner, mon, epoch, stopped>> PROVE Goal
  BY <1>1, <1>2 DEF Active, states
<1>3. ASSUME NEW h \in Handler, NEW op \in AllOps, NEW m \in Node, Request(h, op, m) PROVE Goal
  BY <1>2, <1>3 DEF Request, procs
<1>4. ASSUME NEW h \in Handler, HandlerStep(h) PROVE Goal
  <2>1. CASE UNCHANGED <<states, procs, mon, held, history>>
    BY <1>2, <2>1 DEF procs, history
  <2>2. ASSUME NEW m \in Node, StartNode(h, m) PROVE Goal
    <3>0. held = 0 /\ epoch = 0 /\ n \notin stopped
      BY <2>2 DEF StartNode, LockFree, history
    <3>1. CASE UNCHANGED <<states, procs, mon>>
      BY <1>2, <2>2, <3>1 DEF StartNode, procs, history
    <3>2. CASE ~is_running(m) /\ SetState(m, "errored", 0) /\ UNCHANGED <<procs, mon>>
      <4>1. n = m => \A p \in Pid : Active(p) => owner[p] # n
        BY <1>0, <1>1, <3>0, <3>2 DEF is_running
      <4> QED
        BY <1>0, <1>1, <3>0, <3>2, <4>1 DEF SetState, Active, procs
    <3>3. ASSUME ~is_running(m), NEW q \in Pid, Spawn(m, q), SetState(m, "running", q),
                 mon' = [mon EXCEPT ![q] = "wait"]
          PROVE  Goal
      <4>1. n = m => \A p \in Pid : Active(p) => owner[p] # n
        BY <1>0, <1>1, <3>0, <3>3 DEF is_running
      <4>2. /\ owner'[q] = m /\ mon'[q] = "wait"
            /\ \A p \in Pid : p # q => mon'[p] = mon[p] /\ owner'[p] = owner[p]
            /\ status'[n] = IF n = m THEN "running" ELSE status[n]
        BY <1>0, <3>3 DEF Spawn, SetState
      <4>3. \A p \in Pid : p # q => (Active(p)' <=> Active(p))
        BY <4>2 DEF Active
      <4> QED
        BY <1>1, <3>0, <4>1, <4>2, <4>3
    <3>4. ASSUME NEW q \in Pid, Spawn(m, q), UNCHANGED <<states, mon>> PROVE Goal
      <4>1. /\ ~Active(q) /\ status' = status
            /\ \A p \in Pid : p # q => owner'[p] = owner[p]
        BY <1>0, <3>4, DaemonBounds DEF Spawn, Active, states
      <4>2. \A p \in Pid : Active(p)' => Active(p) /\ p # q
        BY <3>4, <4>1 DEF Active
      <4> QED
        BY <1>1, <3>0, <4>1, <4>2
    <3> QED
      BY <2>2, <3>1, <3>2, <3>3, <3>4 DEF StartNode
  <2>3. ASSUME NEW m \in Node, StopBegin(h, m) PROVE Goal
    <3>1. UNCHANGED <<owner, mon, epoch, stopped>>
      BY <2>3 DEF StopBegin, procs, history
    <3>2. status' = status \/ (status[m] = "running" /\ status' = [status EXCEPT ![m] = "stopping"])
      BY <2>3 DEF StopBegin, is_running
    <3> QED
      BY <1>0, <1>1, <3>1, <3>2 DEF Active
  <2>4. ASSUME NEW m \in Node, StopEnd(h, m) PROVE Goal
    <3>1. n # m /\ n \notin stopped /\ UNCHANGED <<owner, mon, epoch>>
      BY <2>4 DEF StopEnd
    <3>2. status'[n] = status[n]
      BY <1>0, <2>4, <3>1 DEF StopEnd, SetState
    <3> QED
      BY <1>1, <3>1, <3>2 DEF Active
  <2> QED
    BY <1>4, <2>1, <2>2, <2>3, <2>4, QuietStep DEF HandlerStep
<1>5. ASSUME NEW p \in Pid, ProcExit(p) PROVE Goal
  BY <1>2, <1>5 DEF ProcExit, history
<1>6. ASSUME NEW p \in Pid, MonExited(p) \/ MonCheck(p) \/ MonExit(p) \/ MonRegister(p) PROVE Goal
  <2>1. /\ Active(p) /\ owner' = owner /\ epoch = 0 /\ n \notin stopped
        /\ \A q \in Pid : q # p => mon'[q] = mon[q]
    BY <1>0, <1>6 DEF MonExited, MonCheck, MonExit, MonRegister, MonGoto, Active, procs, history
  <2>2. owner[p] \in Node
    BY <1>0, <2>1 DEF Active
  <2>3. \A q \in Pid : Active(q)' => Active(q)
    BY <2>1 DEF Active
  <2>4. \/ status' = status
        \/ \E s : status' = [status EXCEPT ![owner[p]] = s] /\ (s = "running" \/ mon'[p] = "done")
    BY <1>0, <1>6 DEF MonExited, MonCheck, MonExit, MonRegister, MonGoto, SetState, states
  <2>5. CASE status' = status
    BY <1>1, <2>1, <2>3, <2>5
  <2>6. ASSUME NEW s, status' = [status EXCEPT ![owner[p]] = s], s = "running" \/ mon'[p] = "done"
        PROVE  Goal
    <3>1. CASE owner[p] = n
      <4>1. status'[n] = s
        BY <1>0, <2>6, <3>1
      <4>2. \A q \in Pid : Active(q)' /\ owner[q] = n => q = p
        BY <1>1, <2>1, <2>3, <3>1
      <4>3. Active(p)' => s = "running"
        BY <2>6 DEF Active
      <4> QED
        BY <2>1, <4>1, <4>2, <4>3
    <3>2. CASE owner[p] # n
      <4>1. status'[n] = status[n]
        BY <1>0, <2>2, <2>6, <3>2
      <4> QED
        BY <1>1, <2>1, <2>3, <4>1
    <3> QED
      BY <3>1, <3>2
  <2> QED
    BY <2>4, <2>5, <2>6
<1>7. ASSUME NEW p \in Pid, MonRespawn(p) PROVE Goal
  <2>0. /\ mon[p] = "backoff" /\ Active(p) /\ status' = status
        /\ epoch = 0 /\ n \notin stopped
    BY <1>7 DEF MonRespawn, Active, states, history
  <2>1. CASE MonGoto(p, "failed") /\ UNCHANGED procs
    <3>1. owner' = owner /\ \A q \in Pid : Active(q)' <=> Active(q)
      BY <1>0, <2>0, <2>1 DEF MonGoto, Active, procs
    <3> QED
      BY <1>1, <2>0, <3>1
  <2>2. ASSUME NEW q \in Pid, Spawn(owner[p], q),
               mon' = [mon EXCEPT ![p] = "done", ![q] = "spawned"]
        PROVE  Goal
    <3>1. q # p
      BY <1>0, <2>0, <2>2 DEF Spawn
    <3>2. /\ owner'[q] = owner[p]
          /\ \A r \in Pid : r # q => owner'[r] = owner[r]
          /\ ~Active(p)'
          /\ \A r \in Pid : r # q /\ Active(r)' => Active(r) /\ r # p
      BY <1>0, <2>2, <3>1 DEF Spawn, Active
    <3> QED
      BY <1>1, <2>0, <3>2
  <2> QED
    BY <1>7, <2>1, <2>2 DEF MonRespawn, procs
<1>8. ~DaemonRestart
  BY <1>0 DEF DaemonRestart
<1>9. CASE UNCHANGED vars
  BY <1>2, <1>9 DEF vars, states
<1> QED
  BY <1>3, <1>4, <1>5, <1>6, <1>7, <1>8, <1>9 DEF Next, MonitorStep

\* Two live processes of one node would have two monitors at work.
LEMMA OneProcess == ProcessInv => OneProcessUnlessStopped
<1> SUFFICES ASSUME ProcessInv, epoch = 0, NEW n \in Node \ stopped
             PROVE  Cardinality(Live(n) \ lost) <= 1
  BY DEF OneProcessUnlessStopped
<1> DEFINE Watched == Live(n) \ lost
<1>1. \A p \in Watched : p \in Pid /\ Active(p) /\ owner[p] = n
  BY DaemonBounds DEF Live, ProcessInv, WatchInv, Fresh, EveryProcessWatched, TypeOK, Active
<1>2. \A p, q \in Watched : p = q
  BY <1>1 DEF ProcessInv, OneMonitor
<1>3. CASE Watched = {}
  BY <1>3, FS_EmptySet
<1>4. ASSUME NEW p \in Watched PROVE Cardinality(Watched) <= 1
  <2>1. Watched = {p}
    BY <1>2
  <2>2. Cardinality({p}) = 1
    BY FS_Singleton
  <2> QED
    BY <2>1, <2>2
<1> QED
  BY <1>3, <1>4

\* Crashes, backoff, respawns and racing start requests never give a node a
\* second process that can be waited for, as long as no client stops it and the
\* daemon lives.
THEOREM OneProcessTheorem == Spec => []OneProcessUnlessStopped
<1>1. Init => ProcessInv
  BY TypeInit, DaemonBounds DEF Init, ProcessInv, WatchInv, Fresh, EveryProcessWatched,
                                StoppingInv, OneMonitor, Active
<1>2. ProcessInv /\ [Next]_vars => ProcessInv'
  BY TypeStep, WatchStep, StoppingStep, OneMonitorStep DEF ProcessInv, WatchInv
<1> QED
  BY <1>1, <1>2, OneProcess, PTL DEF Spec
-----------------------------------------------------------------------------
(* When the supervisor gives up on a crashing node: CrashPolicy.           *)

\* The crashes are recorded in order, none in the future.
CrashesSorted ==
    /\ \A i \in 1 .. Len(crashes) : crashes[i] <= now
    /\ \A i, j \in 1 .. Len(crashes) : i <= j => crashes[i] <= crashes[j]

\* The window that record_crash measures starts at the oldest of the crashes
\* that restart_count counts; without one there is no window.
WindowStart ==
    IF restart_count = 0 THEN first_crash_at = None
    ELSE /\ restart_count <= Len(crashes)
         /\ first_crash_at = crashes[Len(crashes) - restart_count + 1]

\* Inductive: the counter, the window and the history of crashes agree.
BurstInv ==
    /\ now \in Nat /\ restart_count \in Nat /\ crashes \in Seq(Nat)
    /\ CrashesSorted /\ WindowStart /\ ErroredOnlyAfterBurst

\* start_node: no crash yet.
LEMMA BurstInit == PolicyInit => BurstInv
BY DEF PolicyInit, BurstInv, CrashesSorted, WindowStart, ErroredOnlyAfterBurst

\* record_crash: after a stable run the window starts anew at this crash;
\* otherwise it reaches back over the crashes counted so far, so the last
\* MaxCrashes of them lie in it when it is short enough.
LEMMA CrashStep ==
    ASSUME PolicyAssumption, NoneIsNoTime, BurstInv, Crash
    PROVE  BurstInv'
<1> DEFINE L == Len(crashes)
<1>0. now \in Nat /\ L \in Nat /\ restart_count \in Nat
  BY DEF BurstInv
<1> USE <1>0
<1>1. PICK attempt \in Nat, first \in Nat :
        /\ attempt \in 1 .. L + 1 /\ first <= now
        /\ restart_count' = attempt /\ first_crash_at' = first
        /\ attempt = 1 => first = now
        /\ attempt > 1 => first = crashes[L - attempt + 2]
        /\ crash_status' = "errored" => attempt >= MaxCrashes /\ now - first < CrashWindow
  <2>1. CASE WasStable
    <3> WITNESS 1 \in Nat, now \in Nat
    <3> QED
      BY <2>1 DEF BurstInv, Crash, GivesUp
  <2>2. CASE ~WasStable /\ first_crash_at = None
    <3>1. restart_count = 0
      BY <2>2 DEF BurstInv, WindowStart, NoneIsNoTime
    <3> WITNESS 1 \in Nat, now \in Nat
    <3> QED
      BY <2>2, <3>1 DEF BurstInv, Crash, GivesUp
  <2>3. CASE ~WasStable /\ first_crash_at # None
    <3>1. restart_count \in 1 .. L /\ first_crash_at = crashes[L - restart_count + 1]
      BY <2>3 DEF BurstInv, WindowStart
    <3>2. first_crash_at \in Nat /\ first_crash_at <= now
      BY <3>1 DEF BurstInv, CrashesSorted
    <3> USE <3>2
    <3> WITNESS restart_count + 1 \in Nat, first_crash_at \in Nat
    <3> QED
      BY <2>3, <3>1, <3>2 DEF BurstInv, Crash, GivesUp
  <2> QED
    BY <2>1, <2>2, <2>3
<1>2. /\ now' = now /\ now \in Nat /\ L \in Nat
      /\ crashes' = Append(crashes, now) /\ crashes' \in Seq(Nat) /\ Len(crashes') = L + 1
      /\ crashes'[L + 1] = now /\ \A i \in 1 .. L : crashes'[i] = crashes[i] /\ crashes[i] \in Nat
  BY DEF BurstInv, Crash
<1> HIDE DEF L
<1>3. \A i \in 1 .. L + 1 : crashes'[i] \in Nat /\ crashes'[i] <= now
  BY <1>2 DEF BurstInv, CrashesSorted, L
<1>4. \A i, j \in 1 .. L + 1 : i <= j => crashes'[i] <= crashes'[j]
  BY <1>2, <1>3 DEF BurstInv, CrashesSorted, L
<1>5. first = crashes'[L + 1 - attempt + 1]
  BY <1>1, <1>2
<1>6. ErroredOnlyAfterBurst'
  <2> SUFFICES ASSUME crash_status' = "errored" PROVE Burst'
    BY DEF ErroredOnlyAfterBurst
  <2>1. attempt >= MaxCrashes /\ now - first < CrashWindow /\ MaxCrashes \in Nat \ {0} /\ CrashWindow \in Nat
    BY <1>1 DEF PolicyAssumption
  <2>2. L + 1 - MaxCrashes + 1 \in 1 .. L + 1 /\ L + 1 - attempt + 1 \in 1 .. L + 1
        /\ L + 1 - attempt + 1 <= L + 1 - MaxCrashes + 1
    BY <1>1, <1>2, <2>1
  <2>3. first <= crashes'[L + 1 - MaxCrashes + 1] /\ crashes'[L + 1 - MaxCrashes + 1] \in Nat
    BY <1>3, <1>4, <1>5, <2>2
  <2>4. crashes'[L + 1] - crashes'[L + 1 - MaxCrashes + 1] < CrashWindow
    <3>1. PICK q \in Nat : q = crashes'[L + 1 - MaxCrashes + 1]
      BY <2>3
    <3>2. first <= q /\ now - q < CrashWindow
      BY <2>1, <2>3, <3>1
    <3> QED
      BY <1>2, <3>1, <3>2
  <2>5. L + 1 >= MaxCrashes
    BY <1>1, <2>1, <1>2
  <2> QED
    BY <1>2, <2>4, <2>5 DEF Burst
<1>7. CrashesSorted'
  BY <1>2, <1>3, <1>4 DEF CrashesSorted
<1>8. WindowStart'
  BY <1>1, <1>2, <1>5 DEF WindowStart
<1> QED
  BY <1>1, <1>2, <1>6, <1>7, <1>8 DEF BurstInv

\* However crashes, backoffs, respawns and stable runs alternate, and for any
\* setting of the policy, record_crash gives a node up only when its last
\* MAX_CRASHES_BEFORE_ERRORED crashes fell within CRASH_WINDOW.
THEOREM BurstTheorem == PolicySpec => []ErroredOnlyAfterBurst
<1> USE PolicyAssumption, NoneIsNoTime
<1>1. BurstInv /\ [PolicyNext]_policyVars => BurstInv'
  <2> SUFFICES ASSUME BurstInv, [PolicyNext]_policyVars PROVE BurstInv'
    OBVIOUS
  <2>1. CASE Crash
    BY <2>1, CrashStep
  <2>2. CASE Respawn
    BY <2>2 DEF Respawn, BurstInv, CrashesSorted, WindowStart, ErroredOnlyAfterBurst, Burst
  <2>3. CASE Tick
    <3>1. CrashesSorted'
      BY <2>3 DEF Tick, BurstInv, CrashesSorted
    <3> QED
      BY <2>3, <3>1 DEF Tick, BurstInv, WindowStart, ErroredOnlyAfterBurst, Burst
  <2>4. CASE UNCHANGED policyVars
    BY <2>4 DEF policyVars, BurstInv, CrashesSorted, WindowStart, ErroredOnlyAfterBurst, Burst
  <2> QED
    BY <2>1, <2>2, <2>3, <2>4 DEF PolicyNext
<1>2. BurstInv => ErroredOnlyAfterBurst
  BY DEF BurstInv
<1> QED
  BY BurstInit, <1>1, <1>2, PTL DEF PolicySpec
=============================================================================
