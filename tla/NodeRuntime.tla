----------------------------- MODULE NodeRuntime -----------------------------
(***************************************************************************)
(* The life of node processes (ant-node/src/node.rs) and of the nodes of a *)
(* local devnet (devnet.rs), with or without a chain, launched by          *)
(* ant-devnet or by LocalDevnet of ant-core; the routing task that both    *)
(* run between the P2P event channel and the protocol handler, and the     *)
(* client call that waits for the answer on the same kind of channel       *)
(* (client/chunk_protocol.rs).  What the handler does with a request is in *)
(* ChunkNode; the P2P library is external.                                 *)
(***************************************************************************)
EXTENDS Integers, Sequences, FiniteSets

CONSTANTS
    Solo,       \* nodes with a process of their own (RunningNode)
    Dirs,       \* the root directories they may be given, with the default one
    Layouts,    \* the ways in which they may be given them: several may share one
    Dev,        \* the nodes of the devnet, in the order of their index
    BootCount,  \* bootstrap_count
    Req,        \* client calls, each with a request id of its own
    Asked,      \* the nodes that calls and other events go to
    Cap,        \* capacity of the P2P event channel
    Permits,    \* permits of the routing semaphore
    MaxStarts,  \* bound on the starts of processes
    MaxNoise    \* bound on P2P events that are not requests

DevNode == {Dev[i] : i \in DOMAIN Dev}
Node == Solo \cup DevNode

ASSUME NodeAssumption ==
    /\ IsFiniteSet(Solo) /\ Solo \cap DevNode = {} /\ Dirs \cap DevNode = {}
    /\ "default" \in Dirs /\ Layouts # {} /\ Layouts \subseteq [Solo -> Dirs]
    /\ Dev \in Seq(DevNode) /\ BootCount \in 1 .. Len(Dev) - 1
    /\ \A i, j \in DOMAIN Dev : Dev[i] = Dev[j] => i = j
ASSUME CallAssumption == IsFiniteSet(Req) /\ Asked \subseteq Node
ASSUME BoundAssumption ==
    Cap \in Nat \ {0} /\ Permits \in Nat \ {0} /\ MaxStarts \in Nat /\ MaxNoise \in Nat

Other == "other"
ASSUME OtherAssumption == Other \notin Req

VARIABLES
    life,     \* per node: how far its start, its run or its stop has come
    starts,   \* starts of processes so far (bound)
    ident,    \* per node: the identity it runs with (0: none)
    keys,     \* per root directory: the identities stored there
    overwritten,  \* root directories whose key file was replaced by another
    minted,   \* identities generated so far
    past,     \* per node: the identities it has run with
    phase,    \* NetworkState of the devnet
    monitor,  \* the health monitor: none, on, or told to stop
    wt,       \* the WebTransport listener of the devnet, likewise
    chain,    \* whether the Anvil chain of the devnet runs
    routing,  \* per node: the routing task: none, on, told to stop, ended by itself
    buf,      \* per node: events the routing task has not received yet
    lag,      \* per node: whether unread events were overwritten
    waiting,  \* per node: handlers that wait for a permit
    busy,     \* per node: handlers at work
    call,     \* per call: its state, its peer, the request whose answer it took
    sent,     \* requests on their way
    wire,     \* answers on their way
    noise,    \* other events so far (bound)
    world,    \* processes, a devnet of ant-devnet, or a LocalDevnet: they
              \* share nothing, so one at a time is enough
    root      \* per process: the root directory it is given

lives == <<life, starts, ident, keys, minted, past, overwritten>>
devnet == <<phase, monitor, wt, chain>>
tasks == <<routing, buf, lag, waiting, busy>>
calls == <<call, sent, wire>>
setting == <<world, root>>
vars == <<lives, devnet, tasks, calls, noise, setting>>

\* The directory with the key of a node.  All processes with the default one
\* share {default_root_dir}/nodes, where each identity has a directory of its own;
\* an explicit --root-dir holds one key file.
Root(n) == IF n \in Solo THEN root[n] ELSE n
Roots == Dirs \cup DevNode
Explicit(n) == n \in Solo /\ root[n] # "default"

Life == {"down", "mint", "load", "identity", "p2p", "built", "running", "stopping"}
Phase == {"uninitialized", "bootstrapping", "spawning", "stabilizing", "ready",
          "failed", "shutting", "stopped", "dropped"}

\* A task that was aborted, or whose token was cancelled, still has to be
\* scheduled before it ends.
Task == {"none", "on", "told"}
Told(task) == IF task = "on" THEN "told" ELSE task

TypeOK ==
    /\ life \in [Node -> Life]
    /\ starts \in Nat /\ ident \in [Node -> Nat] /\ minted \in Nat
    /\ keys \in [Roots -> SUBSET (1 .. minted)] /\ past \in [Node -> SUBSET (1 .. minted)]
    /\ overwritten \subseteq Roots
    /\ phase \in Phase /\ monitor \in Task /\ wt \in Task /\ chain \in BOOLEAN
    /\ routing \in [Node -> Task \cup {"ended"}]
    /\ buf \in [Node -> Seq(Req \cup {Other})] /\ \A n \in Node : Len(buf[n]) <= Cap
    /\ lag \in [Node -> BOOLEAN]
    /\ waiting \in [Node -> SUBSET Req] /\ busy \in [Node -> SUBSET Req]
    /\ call \in [Req -> [st : {"idle", "waiting", "done", "error", "timeout"},
                         peer : Node \cup {Other}, got : Req \cup {Other}]]
    /\ sent \subseteq Req /\ wire \subseteq Req /\ noise \in Nat
    /\ world \in {"processes", "devnet", "local"} /\ root \in Layouts

Init ==
    /\ life = [n \in Node |-> "down"] /\ starts = 0
    /\ ident = [n \in Node |-> 0] /\ keys = [r \in Roots |-> {}] /\ minted = 0
    /\ past = [n \in Node |-> {}] /\ overwritten = {}
    /\ phase = "uninitialized" /\ monitor = "none" /\ wt = "none" /\ chain = FALSE
    /\ routing = [n \in Node |-> "none"] /\ buf = [n \in Node |-> <<>>]
    /\ lag = [n \in Node |-> FALSE]
    /\ waiting = [n \in Node |-> {}] /\ busy = [n \in Node |-> {}]
    /\ call = [c \in Req |-> [st |-> "idle", peer |-> Other, got |-> Other]]
    /\ sent = {} /\ wire = {} /\ noise = 0
    /\ \/ world = "processes" /\ root \in Layouts
       \/ world \in {"devnet", "local"} /\ root = CHOOSE l \in Layouts : TRUE
-----------------------------------------------------------------------------
(* A node process *)

\* Mutant: with several identities, the first one that the scan meets is used.
FoundAny(n) == keys[Root(n)]

\* resolve_identity: the identities a start may load.  An explicit root directory
\* holds at most one key file; the default one must hold exactly one.
Found(n) == {i \in keys[Root(n)] : keys[Root(n)] = {i}}

\* NodeBuilder.build up to the scan for identities: none (first run), one, or
\* too many, which ends the start with an error.
Build(n) ==
    /\ world = "processes" /\ life[n] = "down" /\ starts < MaxStarts
    /\ starts' = starts + 1
    /\ \/ /\ keys[Root(n)] = {}
          /\ life' = [life EXCEPT ![n] = "mint"] /\ UNCHANGED ident
       \/ \E i \in Found(n) :
            life' = [life EXCEPT ![n] = "load"] /\ ident' = [ident EXCEPT ![n] = i]
       \/ keys[Root(n)] # {} /\ Found(n) = {} /\ UNCHANGED <<life, ident>>
    /\ UNCHANGED <<keys, minted, past, overwritten, devnet, tasks, calls, noise, setting>>

\* A new identity is generated and saved, over whatever another process has
\* saved in an explicit directory since this one looked.
MintIdentity(n) ==
    /\ life[n] = "mint"
    /\ minted' = minted + 1
    /\ keys' = [keys EXCEPT ![Root(n)] = IF Explicit(n) THEN {minted'} ELSE @ \cup {minted'}]
    /\ overwritten' = overwritten \cup {r \in {Root(n)} : Explicit(n) /\ keys[r] # {}}
    /\ ident' = [ident EXCEPT ![n] = minted']
    /\ past' = [past EXCEPT ![n] = @ \cup {minted'}]
    /\ life' = [life EXCEPT ![n] = "identity"]
    /\ UNCHANGED <<starts, devnet, tasks, calls, noise, setting>>

\* The identity that the scan has found is loaded, or what is in the key file of
\* an explicit directory by now.
LoadIdentity(n) ==
    /\ life[n] = "load"
    /\ \E i \in keys[Root(n)] :
         /\ Explicit(n) \/ i = ident[n]
         /\ ident' = [ident EXCEPT ![n] = i] /\ past' = [past EXCEPT ![n] = @ \cup {i}]
    /\ life' = [life EXCEPT ![n] = "identity"]
    /\ UNCHANGED <<starts, keys, minted, overwritten, devnet, tasks, calls, noise, setting>>

\* build_core_config with the identity, and the P2P node.
CreateP2p(n) ==
    /\ life[n] = "identity"
    /\ life' = [life EXCEPT ![n] = "p2p"]
    /\ UNCHANGED <<starts, ident, keys, minted, past, overwritten, devnet, tasks, calls, noise, setting>>

\* The upgrade monitor, the bootstrap cache (whose failure is passed over), and
\* build_ant_protocol: storage, verifier and quotes.
CreateProtocol(n) ==
    /\ life[n] = "p2p"
    /\ life' = [life EXCEPT ![n] = "built"]
    /\ UNCHANGED <<starts, ident, keys, minted, past, overwritten, devnet, tasks, calls, noise, setting>>

\* Any step of build, or the start of the P2P node, fails, or the process is
\* killed: it ends.
StartupFails(n) ==
    /\ life[n] \in {"mint", "load", "identity", "p2p", "built"}
    /\ life' = [life EXCEPT ![n] = "down"]
    /\ ident' = [ident EXCEPT ![n] = 0]
    /\ UNCHANGED <<starts, keys, minted, past, overwritten, devnet, tasks, calls, noise, setting>>

\* start_protocol_routing: the task subscribes to the events of the node.
Subscribe(n) ==
    /\ routing' = [routing EXCEPT ![n] = "on"]
    /\ buf' = [buf EXCEPT ![n] = <<>>]
    /\ lag' = [lag EXCEPT ![n] = FALSE]
    /\ UNCHANGED <<waiting, busy>>

Run(n) ==
    /\ n \in Solo /\ life[n] = "built"
    /\ life' = [life EXCEPT ![n] = "running"]
    /\ Subscribe(n)
    /\ UNCHANGED <<starts, ident, keys, minted, past, overwritten, devnet, calls, noise, setting>>

\* The handles of the routing tasks are aborted, and nobody waits for the tasks:
\* one that is being polled may route more events before it ends.
Aborted(S) == routing' = [n \in Node |-> IF n \in S THEN Told(routing[n]) ELSE routing[n]]

\* The routing task is gone with its receiver; handlers it has spawned go on.
NoTask(n) ==
    /\ routing' = [routing EXCEPT ![n] = "none"]
    /\ buf' = [buf EXCEPT ![n] = <<>>]
    /\ lag' = [lag EXCEPT ![n] = FALSE]

RoutingEnds(n) ==
    /\ routing[n] = "told"
    /\ NoTask(n)
    /\ UNCHANGED <<lives, devnet, waiting, busy, calls, noise, setting>>

\* run_event_loop ends: SIGINT, SIGTERM or the token (an upgrade, shutdown).
Shutdown(n) ==
    /\ n \in Solo /\ life[n] = "running"
    /\ life' = [life EXCEPT ![n] = "stopping"]
    /\ Aborted({n})
    /\ UNCHANGED <<starts, ident, keys, minted, past, overwritten, devnet, buf, lag, waiting, busy, calls, noise, setting>>

\* The P2P node is shut down; with a process, its tasks and handlers end too.
Exit(n) ==
    /\ life[n] = "stopping"
    /\ life' = [life EXCEPT ![n] = "down"]
    /\ ident' = [ident EXCEPT ![n] = 0]
    /\ waiting' = IF n \in Solo THEN [waiting EXCEPT ![n] = {}] ELSE waiting
    /\ busy' = IF n \in Solo THEN [busy EXCEPT ![n] = {}] ELSE busy
    /\ IF n \in Solo THEN NoTask(n) ELSE UNCHANGED <<routing, buf, lag>>
    /\ UNCHANGED <<starts, keys, minted, past, overwritten, devnet, calls, noise, setting>>
-----------------------------------------------------------------------------
(* The devnet *)

\* The index of the node that comes next.
NextNode == Cardinality({i \in DOMAIN Dev : life[Dev[i]] = "running"}) + 1

\* Anvil is started before the devnet: if asked for by ant-devnet, which keeps
\* it to the end of its process, and always by LocalDevnet.
StartChain ==
    /\ world # "processes" /\ phase = "uninitialized" /\ ~chain
    /\ chain' = TRUE
    /\ UNCHANGED <<lives, phase, monitor, wt, tasks, calls, noise, setting>>

\* Devnet.start: state BootstrappingPhase.
DevnetStart ==
    /\ phase = "uninitialized"
    /\ phase' = "bootstrapping"
    /\ UNCHANGED <<lives, monitor, wt, chain, tasks, calls, noise, setting>>

MainStart == world = "devnet" /\ DevnetStart

LocalStart == world = "local" /\ chain /\ DevnetStart

\* create_node: an identity, saved in a directory named after it, and the
\* protocol handler.
CreateNode ==
    LET n == Dev[NextNode]
    IN  /\ phase \in {"bootstrapping", "spawning"} /\ life[n] = "down"
        /\ minted' = minted + 1
        /\ keys' = [keys EXCEPT ![n] = {minted'}]
        /\ life' = [life EXCEPT ![n] = "identity"]
        /\ UNCHANGED <<starts, ident, past, overwritten, devnet, tasks, calls, noise, setting>>

\* The loops of start_bootstrap_nodes and start_regular_nodes.
PhaseAfter(i) ==
    CASE i = BootCount -> "spawning"
      [] i = Len(Dev) -> "stabilizing"
      [] OTHER -> phase

\* start_node: the identity is loaded from its file; the P2P node; routing.
StartNode ==
    LET n == Dev[NextNode]
    IN  /\ phase \in {"bootstrapping", "spawning"} /\ life[n] = "identity"
        /\ life' = [life EXCEPT ![n] = "running"]
        /\ \E i \in keys[n] :
             ident' = [ident EXCEPT ![n] = i] /\ past' = [past EXCEPT ![n] = @ \cup {i}]
        /\ Subscribe(n)
        /\ phase' = PhaseAfter(NextNode)
        /\ UNCHANGED <<starts, keys, minted, overwritten, monitor, wt, chain, calls, noise, setting>>

\* A node fails to be created or to start, or the network does not stabilize
\* in time: start returns the error and leaves what runs running.
DevnetStartFails ==
    /\ phase \in {"bootstrapping", "spawning", "stabilizing"}
    /\ phase' = "failed"
    /\ life' = [n \in Node |-> IF life[n] = "identity" THEN "down" ELSE life[n]]
    /\ UNCHANGED <<starts, ident, keys, minted, past, overwritten, monitor, wt, chain, tasks, calls, noise, setting>>

\* Every node has its peers: the monitor starts, the devnet is ready.
Stabilize ==
    /\ phase = "stabilizing"
    /\ phase' = "ready" /\ monitor' = "on"
    /\ UNCHANGED <<lives, wt, chain, tasks, calls, noise, setting>>

\* ant-devnet serves WebTransport from the first bootstrap node, with the
\* shutdown token of the devnet, then writes the manifest.
ServeWebTransport ==
    /\ world = "devnet" /\ phase = "ready" /\ wt = "none"
    /\ wt' = "on"
    /\ UNCHANGED <<lives, phase, monitor, chain, tasks, calls, noise, setting>>

\* Mutant: the token is not cancelled.
ShutdownWithoutToken ==
    /\ phase' = "shutting" /\ monitor' = Told(monitor) /\ UNCHANGED wt
    /\ life' = [n \in Node |-> IF n \in DevNode /\ life[n] = "running" THEN "stopping" ELSE life[n]]
    /\ Aborted(DevNode)
    /\ UNCHANGED <<starts, ident, keys, minted, past, overwritten, chain, buf, lag, waiting, busy, calls, noise, setting>>

\* Devnet.shutdown: the token, which the listener sees, the monitor and the
\* routing tasks are cancelled; then all nodes are shut down at once.
DevnetShutdown ==
    /\ phase' = "shutting" /\ monitor' = Told(monitor) /\ wt' = Told(wt)
    /\ life' = [n \in Node |-> IF n \in DevNode /\ life[n] = "running" THEN "stopping" ELSE life[n]]
    /\ Aborted(DevNode)
    /\ UNCHANGED <<starts, ident, keys, minted, past, overwritten, chain, buf, lag, waiting, busy, calls, noise, setting>>

\* Whoever has a Devnet may shut it down after a start that failed.
ShutdownCalled == world = "devnet" /\ phase \in {"ready", "failed"} /\ DevnetShutdown

\* A LocalDevnet exists only once its start has succeeded.
LocalShutdown == world = "local" /\ phase = "ready" /\ DevnetShutdown

\* The devnet is dropped without a shutdown: only the monitor and the
\* listener are told.
DevnetDrop ==
    /\ world = "devnet" /\ phase \in {"ready", "failed"}
    /\ phase' = "dropped" /\ monitor' = Told(monitor) /\ wt' = Told(wt)
    /\ UNCHANGED <<lives, chain, tasks, calls, noise, setting>>

\* The devnet and then the chain are dropped: with the LocalDevnet, or with the
\* variables of LocalDevnet.start when Devnet.start returned an error.
LocalDrop ==
    /\ world = "local" /\ phase \in {"ready", "failed", "stopped"} /\ chain
    /\ phase' = IF phase = "stopped" THEN phase ELSE "dropped"
    /\ monitor' = Told(monitor) /\ chain' = FALSE
    /\ UNCHANGED <<lives, wt, tasks, calls, noise, setting>>

\* The monitor and the listener meet the token, or the abort.
MonitorEnds ==
    /\ monitor = "told" /\ monitor' = "none"
    /\ UNCHANGED <<lives, phase, wt, chain, tasks, calls, noise, setting>>

ListenerEnds ==
    /\ wt = "told" /\ wt' = "none"
    /\ UNCHANGED <<lives, phase, monitor, chain, tasks, calls, noise, setting>>

\* The shutdowns of all P2P nodes have been joined, and nothing else; the data
\* directory goes.
DevnetStopped ==
    /\ phase = "shutting" /\ \A n \in DevNode : life[n] = "down"
    /\ phase' = "stopped"
    /\ keys' = [r \in Roots |-> IF r \in DevNode THEN {} ELSE keys[r]]
    /\ UNCHANGED <<life, starts, ident, minted, past, overwritten, monitor, wt, chain, tasks, calls, noise, setting>>
-----------------------------------------------------------------------------
(* Routing *)

Listens(n) == routing[n] \in {"on", "told"}

\* An event at a node.  The channel keeps the newest Cap events for a reader
\* that is behind.
Arrives(n, e) ==
    LET full == Len(buf[n]) = Cap
    IN  /\ buf' = IF ~Listens(n) THEN buf
                  ELSE [buf EXCEPT ![n] = Append(IF full THEN Tail(@) ELSE @, e)]
        /\ lag' = IF Listens(n) /\ full THEN [lag EXCEPT ![n] = TRUE] ELSE lag

RequestArrives(r) ==
    /\ r \in sent
    /\ sent' = sent \ {r}
    /\ Arrives(call[r].peer, r)
    /\ UNCHANGED <<lives, devnet, routing, waiting, busy, call, wire, noise, setting>>

OtherArrives(n) ==
    /\ n \in Asked /\ Listens(n) /\ noise < MaxNoise
    /\ noise' = noise + 1
    /\ Arrives(n, Other)
    /\ UNCHANGED <<lives, devnet, routing, waiting, busy, calls, setting>>

\* events.recv: the task spawns a handler for a chunk request and passes over
\* everything else.
Route(n) ==
    /\ Listens(n) /\ ~lag[n] /\ buf[n] # <<>>
    /\ buf' = [buf EXCEPT ![n] = Tail(@)]
    /\ waiting' = IF Head(buf[n]) \in Req
                  THEN [waiting EXCEPT ![n] = @ \cup {Head(buf[n])}] ELSE waiting
    /\ UNCHANGED <<lives, devnet, routing, lag, busy, calls, noise, setting>>

\* "while let Ok(event)": an error of the channel, Lagged too, ends the task.
RouteLagged(n) ==
    /\ Listens(n) /\ lag[n]
    /\ routing' = [routing EXCEPT ![n] = "ended"]
    /\ buf' = [buf EXCEPT ![n] = <<>>]
    /\ lag' = [lag EXCEPT ![n] = FALSE]
    /\ UNCHANGED <<lives, devnet, waiting, busy, calls, noise, setting>>

\* sem.acquire; devnet nodes have no semaphore.
Acquire(n, r) ==
    /\ r \in waiting[n]
    /\ n \in Solo => Cardinality(busy[n]) < Permits
    /\ waiting' = [waiting EXCEPT ![n] = @ \ {r}]
    /\ busy' = [busy EXCEPT ![n] = @ \cup {r}]
    /\ UNCHANGED <<lives, devnet, routing, buf, lag, calls, noise, setting>>

\* Mutant: a request whose answer could not be sent is queued again.
HandleRetries(n, r) ==
    /\ r \in busy[n]
    /\ busy' = [busy EXCEPT ![n] = @ \ {r}]
    /\ \/ wire' = wire \cup {r} /\ UNCHANGED waiting
       \/ waiting' = [waiting EXCEPT ![n] = @ \cup {r}] /\ UNCHANGED wire
    /\ UNCHANGED <<lives, devnet, routing, buf, lag, call, sent, noise, setting>>

\* try_handle_request and the answer, or an error of either; the permit goes.
Handle(n, r) ==
    /\ r \in busy[n]
    /\ busy' = [busy EXCEPT ![n] = @ \ {r}]
    /\ \/ wire' = wire \cup {r}
       \/ UNCHANGED wire
    /\ UNCHANGED <<lives, devnet, routing, buf, lag, waiting, call, sent, noise, setting>>
-----------------------------------------------------------------------------
(* send_and_await_chunk_response *)

\* The call subscribes, then sends.
Call(r) ==
    /\ call[r].st = "idle"
    /\ \E n \in Asked \cap (IF world = "processes" THEN Solo ELSE DevNode) :
         \/ call' = [call EXCEPT ![r].st = "waiting", ![r].peer = n] /\ sent' = sent \cup {r}
         \/ call' = [call EXCEPT ![r].st = "error", ![r].peer = n] /\ UNCHANGED sent
    /\ UNCHANGED <<lives, devnet, tasks, wire, noise, setting>>

\* Mutant: the request id is not compared.
TakesAny(c, r) == call[c].st = "waiting" /\ call[c].peer = call[r].peer

\* A waiting call takes a message of its peer that carries its request id.
Takes(c, r) == call[c].st = "waiting" /\ call[c].peer = call[r].peer /\ c = r

\* An answer reaches the client's channel: every call sees it, unless its
\* receiver lags (which it survives).
AnswerArrives(r) ==
    /\ r \in wire
    /\ wire' = wire \ {r}
    /\ \/ call' = [c \in Req |-> IF Takes(c, r) THEN [call[c] EXCEPT !.st = "done", !.got = r] ELSE call[c]]
       \/ UNCHANGED call
    /\ UNCHANGED <<lives, devnet, tasks, sent, noise, setting>>

\* The deadline passes.
Timeout(r) ==
    /\ call[r].st = "waiting"
    /\ call' = [call EXCEPT ![r].st = "timeout"]
    /\ UNCHANGED <<lives, devnet, tasks, sent, wire, noise, setting>>

Next ==
    \/ \E n \in Solo : Build(n) \/ MintIdentity(n) \/ LoadIdentity(n) \/ CreateP2p(n)
                         \/ CreateProtocol(n) \/ StartupFails(n)
                         \/ Run(n) \/ Shutdown(n)
    \/ \E n \in Node : Exit(n) \/ OtherArrives(n) \/ Route(n) \/ RouteLagged(n) \/ RoutingEnds(n)
    \/ StartChain \/ MainStart \/ LocalStart \/ CreateNode \/ StartNode \/ DevnetStartFails \/ Stabilize
    \/ ServeWebTransport \/ ShutdownCalled \/ LocalShutdown \/ DevnetDrop
    \/ LocalDrop \/ MonitorEnds \/ ListenerEnds \/ DevnetStopped
    \/ \E n \in Node, r \in Req : Acquire(n, r) \/ Handle(n, r)
    \/ \E r \in Req : Call(r) \/ RequestArrives(r) \/ AnswerArrives(r) \/ Timeout(r)

Spec == Init /\ [][Next]_vars

\* Tasks are scheduled, also to be cancelled, and semaphores wake their waiters.
\* Only nodes that are asked have requests to handle.
FairSpec ==
    /\ Spec
    /\ \A n \in Asked, r \in Req : WF_vars(Acquire(n, r)) /\ WF_vars(Handle(n, r))
    /\ \A n \in DevNode : WF_vars(RoutingEnds(n))
    /\ WF_vars(MonitorEnds) /\ WF_vars(ListenerEnds)
-----------------------------------------------------------------------------
\* A call ends with the answer to its own request, also when the answer to an
\* earlier call at the same peer, which timed out, comes in while it waits
\* (send_and_await_chunk_response).
OwnAnswer == \A c \in Req : call[c].st = "done" => call[c].got = c

\* However starts race, fail and repeat, a node never comes up with another
\* identity than the one it had, but for one case: two processes that were given
\* the same explicit directory both found it empty, and the key file of one was
\* overwritten (resolve_identity, load_or_generate_identity, create_node).
IdentityKept ==
    \A n \in Node :
        \/ Cardinality(past[n]) <= 1
        \/ Explicit(n) /\ Root(n) \in overwritten /\ \E m \in Solo \ {n} : Root(m) = Root(n)

\* A devnet that reports Ready runs all its nodes; one that reports Stopped
\* runs none, and no routing task, monitor or listener that has not been told to
\* stop, also after a start that failed half way; and the chain of a LocalDevnet
\* is there as long as nodes that it answers for (Devnet.start, Devnet.shutdown,
\* LocalDevnet).
DevnetAllOrNone ==
    /\ phase = "ready" => monitor = "on" /\ \A n \in DevNode : life[n] = "running"
    /\ phase = "stopped" =>
         /\ monitor # "on" /\ wt # "on"
         /\ \A n \in DevNode : life[n] = "down" /\ routing[n] # "on"
    /\ world = "local" /\ phase # "dropped" =>
         chain \/ \A n \in DevNode : life[n] = "down"

\* No task of the devnet is left, nor a handler that one of them has spawned.
Quiet ==
    /\ monitor = "none" /\ wt = "none"
    /\ \A n \in DevNode : ~Listens(n) /\ waiting[n] = {} /\ busy[n] = {}

\* Every request that the routing task of a node takes is handled to its end,
\* or ends with the process (start_protocol_routing); and although a shutdown of
\* the devnet waits for the P2P nodes only, what it leaves behind ends, handlers
\* that were spawned after it was complete included (Devnet.shutdown).
TasksFinish ==
    /\ \A n \in Asked, r \in Req : r \in waiting[n] ~> r \notin waiting[n] \cup busy[n]
    /\ phase = "stopped" ~> Quiet
==============================================================================
