# A TLA+ model of exp-ant-wasm

This directory specifies the parts of the repository that carry its own logic: the
storage node with its payments, upgrades and runtime, the post-quantum WebTransport
session with the browser, the daemon that supervises node processes, the client that
uploads and downloads, and the encryption of files. The modules are checked with TLC
on small instances, and their safety properties are proved with TLAPS for
every value of the constants, in the modules whose names end in `Proofs`.

`PROJECT.json` is the index: components, runs, the lines of source behind each
definition, mutants, findings, hazards and theorems.

## 1. Inventory

### 1.1 Parts of the system

| Part | Source | State it keeps | Operations | Module |
|---|---|---|---|---|
| Chunk storage | `ant-node/src/storage/lmdb.rs` | LMDB map, statistics | put, get, exists, delete, reopen | `LmdbStorage` over `ChunkBase`; promise: `ContentStore` |
| Request handler | `ant-node/src/storage/handler.rs` | one task per message | PUT, GET, quote, merkle quote | `ChunkNode` |
| Payment verifier | `ant-node/src/payment/{verifier,cache,proof}.rs` | two LRU caches | check, verify on the chain | `ChunkNode`, `Lru`; content of proofs: `Payment` |
| Quoting metrics | `ant-node/src/payment/metrics.rs` | counters, a file | count, persist, load | `ChunkNode` |
| Quotes, prices, wallet | `ant-node/src/payment/{quote,pricing,single_node,wallet}.rs`, client `payment.rs`, `merkle.rs` | signed quotes, payments | quote, pay the median, pay a tree, verify | `Payment` |
| Node runtime, routing | `ant-node/src/node.rs`, `client/chunk_protocol.rs` | identity, event channel, semaphore | start, route, handle, stop; call and await | `NodeRuntime` |
| Development network | `ant-node/src/devnet.rs`, `bin/ant-devnet`, `ant-core/src/node/devnet.rs` | phase, nodes, monitor, chain | start, serve, shut down, drop | `NodeRuntime` |
| Automatic upgrade | `ant-node/src/upgrade/` | shared executable, two caches, two locks | check, download, replace, roll back, restart | `Upgrade` |
| WebTransport server | `ant-node/src/webtransport/server.rs` | stream counter, two semaphores | handshake, accept, handle a stream | `PqcSession` |
| PQC tunnel | `ant-protocol/src/pqc_tunnel.rs` | session keys | encrypt under a nonce | `PqcSession` |
| Browser transport | `ant-wasm/src/transport.rs` | stream counter | connect, send_request, close | `PqcSession` |
| Node supervisor | `ant-core/src/node/daemon/supervisor.rs`, `process/spawn.rs` | status and PID per node, monitor tasks | start, stop, restart after a crash | `NodeDaemon`, `CrashPolicy` |
| Daemon handlers | `.../daemon/server.rs` | registry copy in memory | add, delete, start, stop, start-all, stop-all, reset | `NodeDaemon` |
| Node registry | `.../node/registry.rs`, `node/mod.rs` | a locked JSON file | add, remove, clear, reload | `NodeDaemon` |
| Binaries, self-update | `ant-core/src/node/binary.rs`, `update.rs` | install directory, `ant` itself | resolve, download, extract, cache, update | `BinaryInstall` |
| Upload client | `ant-core/src/data/client/{quote,chunk,batch,merkle,data,file}.rs` | waves, payments, PUTs in progress | quote, pay, replicate | `UploadClient` |
| Self-encryption | `self_encryption/src/` | none; the state of a stream | encrypt, shrink a data map, decrypt, ranges | `SelfEncryption` (operators), `FileTransfer` |
| File encryption | `.../data/client/file.rs` | channel, spill directory | read, encrypt, spill, clean up | `FileTransfer` |
| Download clients | `.../data/client/{chunk,cache,data,file}.rs`, `ant-wasm/src/client.rs` | LRU of chunks, temporary file | get, download | `FileTransfer` |
| Configuration, command line, network client, bindings | various | none of interest | parsing, printing, thin calls | left out |

### 1.2 How they interact

A **data client** cuts a file into encrypted chunks, asks the close group of each
address for quotes, pays on the chain and sends PUTs with a proof. A **node**
receives them as events of the P2P library: its routing task takes them from a lossy
channel and spawns a handler under a semaphore; the handler asks the verifier, which
asks the chain, and stores in LMDB; the metrics it counts go into the next quote. A
**browser** reaches one node over WebTransport: after a handshake both ends number
the bidirectional streams on their own and use the number in the nonce of the
tunnel's cipher. The **daemon** runs nodes as child processes; REST handlers and one
monitor task per child share the supervisor behind one RwLock and the registry
behind a file lock; the executables come from an install directory that requests
share. The nodes of a machine **upgrade** one executable through a shared cache.

### 1.3 What is hard

- *Concurrency.* Handlers of one node overlap at every await; PUTs of one address
  race between the existence check and the transaction. REST handlers and monitors
  interleave between their critical sections. Stream numbers are taken before an
  await. Processes write the same temporary files. Fetches of a batch complete in any
  order.
- *Failure.* Crashes lose caches and tear files; processes crash and are restarted
  with backoff; the daemon dies while its children live; a PUT times out and is
  stored nevertheless; payments succeed in part; a file changes while it is read.
- *Limits.* Capacity of the store, LRU evictions, permits, the event channel, the
  channel of two chunks, counters of 32 bits.
- *Time.* Quotes expire, clocks differ, the answer to a call that timed out arrives
  during the next one, rollouts are staged.
- *Progress.* Answers, monitors, transfers and upgrades must not hang.

### 1.4 What makes each part correct

- Storage: capacity, counters without drift, atomic operations, authentic reads.
- Node: nothing unpaid is stored; nothing acknowledged is lost; metrics do not fall
  behind; every request is handled to its end.
- Payment: what is paid for on proper quotes is accepted while it is fresh, what is not
  paid for is not; a minority does not set the price.
- Runtime: answers belong to their requests; an identity is kept, but for a shared
  explicit directory; a devnet is whole or gone; what is routed is handled, and what a
  shutdown leaves behind ends.
- Upgrade: only signed binaries are installed; every node ends on its release.
- Session: a nonce is used once; permits come back; the counters of both ends agree
  up to a known lag; every call ends.
- Daemon: one process per node; every process that can be waited for is watched; the
  copy of the registry equals the file after a reload that did not fail; no node is
  shown as running for ever without a process.
- Binaries: a cached binary is what its name says; `ant` stays a signed release.
- Upload: success means replication to a majority; one payment per chunk, none for
  what is there; a failure puts one wave at risk; every upload ends.
- Files: an upload can be read back, as a whole and by ranges; the stream computes
  what encryption in memory computes; outputs are whole; nothing is left behind.

## 2. Modules and their code

**ChunkBase** declares addresses, contents, the hash, the capacity, the operations.
**ContentStore** is the abstract promise: every call takes effect in one step.
**LmdbStorage** is `lmdb.rs`: a `put` is the optimistic check (`PutCheck`), the write
transaction with the authoritative checks (`PutTxn`) and the statistics (`PutCount`).
`Restart` reopens the environment, `Corrupt` damages a value, `IoError` is any `Err`
of heed. The refinement maps `db` to the abstract map; a `put` takes effect in its
check when that answers and in its transaction otherwise.

**Lru** gives `lru::LruCache` as a sequence, most recent first. **ChunkNode** has a task
per slot. A PUT goes `recv` (sizes, hash, existence) → `pay` (caches, proof shape) →
`rpc` or `poolrpc` (the chain) → `store` → `count` → `bill` → `reply`. A store that
cannot be read when the PUT is validated answers with an error, and a response that
cannot be encoded is not sent (`Reply`). A proof is a record: its kind, the address or
pool it is bound to, and whether the checks on its content succeed. The chain is
external: the payments made so far, which anyone may extend at any time. `boot` and
`acked` are history variables for the properties.

**Payment** spells out what `ChunkNode` takes as one Boolean. Time passes between any
two steps (`Tick`) and every node has its own clock. The client does not look at a quote
before it pays, so the nodes in `Odd` send any of `QuoteAnswers`: a quote with any
metrics, for another chunk, at another time (`OddTimes`), for another address, badly
signed, or another node's. A chunk goes through `AskQuotes`, `QuoteAnswer` (answers in
any order, counted as `Collected`), `pay_for_storage` and `PutSingle`, which hands any
proof made so far to any node; a tree through `AskCandidates`, `PoolAnswer`,
`pay_for_merkle_tree` and `PutMerkle`. `verify_evm_payment` and `verify_merkle_payment`
are conjunctions with one definition per check of `verifier.rs`. The root of a tree
comes with the proof, in the midpoint of its pool; what ties it to the payment is the
hash of that pool on the chain. `Presented` are the proofs a client can put together for
a chunk: its own, one relabelled, one with a branch of another tree, with or without its
root. `verify_merkle_proof`, with the depth and the time of the payment
(`TimestampValid`), is evmlib's and external. The contracts (`vault`, `chain`) are
external. The price curve is a table `Curve` over the fill of a store.

**NodeRuntime** runs one of three `world`s: processes of their own, each with the
default root directory or an explicit one that several may share (`Layouts`; `Build`,
`MintIdentity`, `LoadIdentity`, `CreateP2p`, `CreateProtocol`, `Run`, `Shutdown`,
`Exit`; `StartupFails` anywhere), the devnet of `ant-devnet`, or that of `LocalDevnet`
with its chain. `overwritten` records explicit directories in which a start wrote its
key over another one. A shutdown joins the P2P nodes only: the routing tasks, the
monitor and the WebTransport listener are told (`Told`), and end in steps of their own
(`RoutingEnds`, `MonitorEnds`, `ListenerEnds`), perhaps after the shutdown has returned.
In all of them the routing task reads the broadcast channel (`buf`, `Cap`; overflow sets
`lag`), `Acquire` and `Handle` are the spawned handler, and `Call`, `AnswerArrives` and
`Timeout` the client's `send_and_await_chunk_response`.

**Upgrade** has the shared files as state: the release list, per version the cached
binary with its temporary file and metadata, the executable and its backup, and the two
locks. Every node is a program counter over the file operations of `check_for_updates`,
`BinaryCache`, `apply_upgrade` and the restart; any operation may fail (`MaxFaults`),
any process may end between two of them (`Crash`), and a service manager or a user
starts it again (`Launch`). A file is absent, whole, part of a version, or forged. A TTL
ends (`Expire`) and a rollout delay is over at some time.

**PqcSession** has one state machine per browser call and one per server stream.
`Start` takes the number (`cseq`), `OpenStream` is the awaited creation, which can
fail, `Accept` is the server's loop with its number, limit and both `try_acquire`s,
`ServeSession` the start of that loop after the handshake. `enc` records what was
encrypted under which (session, direction, number). Counters wrap at `Width`.

**NodeDaemon** models each REST handler in the steps its locks leave. `stop_node`
keeps the write lock during `graceful_kill` (`held`). A monitor is the program counter
`mon[p]` of the process it waits for. Whether a crash is followed by a restart is a
free choice in `MonExit`; **CrashPolicy** models `record_crash` itself over a clock.
A reload that fails leaves the old copy (`SyncRegistry`; `missed` records it), and the
daemon may be unable to wait for a process that goes on (`WaitFails`, `lost`).
`DaemonRestart` loads the registry into a new daemon while the processes live on.

**BinaryInstall** has inodes under names: who has `.download.tmp` or `ant-node` open
goes on writing to it after somebody else truncated, renamed or removed it. A request
resolves a local path, a version, the latest version or a URL, downloads piece by
piece, extracts, asks the binary for its version (`Probe`), and renames it to its
cached name; `ant update` verifies the signature of its archive, then the version,
and replaces the executable. `mixed` records the inodes written by extractions that
overlapped; one that is opened by an extraction alone leaves it.

**UploadClient** models one upload at a time. `job[i]` is the state of the chunk at
position `i`; `Joined` is the `tokio::join!` of `batch_upload_chunks`; the driver
decides the waves: `data` pipelines them, `file` stores each before the next, `external`
has one. `MerklePay` is one sub-batch of `pay_for_merkle_batch`; one of a single chunk
is refused, since a tree needs two leaves. A PUT nobody waits for may still arrive
(`late`, `LateStore`). `held` says which peers store an address; the peers are those of
`ChunkNode`, reduced to their answers.

**SelfEncryption** has the algorithms as operators: chunk boundaries, the two neighbours
whose hashes give a key, data maps, `shrink_data_map`, `encrypt`, `decrypt`, ranges.
Data is a sequence of units; an encrypted chunk is its content with its key material and
is opened by the same material only. Loops and recursion are recursive functions:
`shrink_data_map` iterates `ShrinkLevel`, `get_root_data_map` iterates `Parent` to the
depth of `MaxDepth`. **FileTransfer** is the pipeline around them: the blocking task
reads (`ReadPiece`, `ReadEnd`, `ReadFails`), encrypts as `EncryptionStream` does
(`ProcessChunk`) and sends; the caller spills, awaits the task, stores waves, or hands
over to an external signer; a download fetches in batches that complete in any order
(`FetchDone`), through the LRU and a close group whose peers have the chunk, do not,
cannot be reached or err (`chunk_get`; a peer that errs before one has the chunk ends
the download, which is then `refused`), decrypts and renames its temporary file
(`RenameOutput`), or decrypts in memory (`data_download`). The file may change at any
time and the process may die.

How the modules meet: `Payment` refines the verdict of `ChunkNode`'s proofs, the
peers of `UploadClient` are `ChunkNode`s, the `Handle` step of `NodeRuntime` is one of
its tasks, `FileTransfer` extends `SelfEncryption` and `Lru` and leaves payment and
placement to `UploadClient`. Their product is not checked as one system: each module
keeps the interface of the others as nondeterminism that includes what the other does.

## 3. Runs

| Run | Shows | Distinct states |
|---|---|---|
| `lmdb` | two callers, two chunks, one free slot: capacity, drift, refinement of `ContentStore` | 185,784 |
| `node` | two tasks, twelve kinds of request, caches of one entry, a store that fails, crashes: payment, durability, metrics, answers | 631,446 |
| `payment` | a group of three, one of them sending any quote, one node outside, skewed clocks; a chunk asked for twice, or one of two trees of two chunks | 1,563,114 |
| `runtime` | two processes in default or explicit directories, shared or not, or a devnet of two nodes with or without a chain; two calls over a channel of one event | 415,723 |
| `upgrade` | a staged beta node and a serviced stable node, a release and a pre-release, one fault, one crash | 246,437 |
| `pqc` | two sessions, three calls, one permit, 2-bit counters: nonces, permits, lag, every call ends | 230,696 |
| `daemon` | all seven requests, two handlers, two nodes, three processes, one of which may not be waited for, reloads that fail, one daemon restart | 1,112,721 |
| `crash_policy` | a node is given up only after a burst, over 20 instants | 140,076 |
| `install` | two requests of any kind for any version, each failing or dying anywhere | 683,158 |
| `upload` | three positions, two addresses, three peers, five plans, three of them run twice | 171,120 |
| `files` | files of 2, 5, 7 and 8 units in chunks of 2, three ways up, three ways down, two downloads | 77,497 |
| `data_download_shrunk` | a violation, section 6 | |

Deadlock is not checked: in all of these systems nothing more need happen once the
bounded number of requests is used up, and progress is stated as a property.

**Bounds.** Every race above is between two actors, so two callers, slots, handlers,
nodes or requests produce it; a third call (`MaxCalls`, `MaxRequests`, `MaxStarts`) lets
something follow. Capacities of one put the store, the caches, the channel and the
permits at their limit with two competitors. Two addresses suffice to confuse addresses,
one pool that pays for one of them to confuse pools. `MaxPid` = 3 allows a respawn and a
racing start. `Width` = 4 with `MaxSeq` = 3 lets the counter reach its limit. Three
peers with a majority of two leave one fallback; one flaky peer may not see its own
copy; waves of one and merkle payments of two leave several waves and a rest. `MaxLate`
= 1 suffices for a replica nobody counted. In `payment`, one of three is the largest
minority; `MaxAge` = 2 and `Tolerance` = 1 within `MaxTime` = 3 let quotes expire,
`MerkleMaxAge` = 2 trees, and the two `OddTimes` are too old and too far ahead. `Trees`
are two trees that share a chunk, so that the payment of one can be presented with
branches of the other. The two `Layouts` have both processes in the default directory,
where they race for the first identity, or both in one explicit directory, where they
race for the key file. `Lossy` = {1} lets a process get lost before another one of its
node starts. In `upload`, the list has one address twice and trees have two leaves at
most (`MaxLeaves`), so an in-memory merkle upload falls into 2 + 1 and its second tree
is refused; that such uploads of other sizes keep what is claimed of success is left to
the theorems. In `upgrade`, version 1 is installed, 2 is a release, 3 a pre-release. In
`install`, `Pieces` = 2 is the least number at which a file can be mixed. In `files`, a
file of 2 units is too small, one of 5 needs three chunks, 7 and 8 need four, with and
without a remainder, so that the data map is shrunk once (`ShrunkOnce`; maps that are
shrunk twice are in section 6); `Batch` = 2 leaves several batches and a rest, and
`Channel` = 2 is the one of the code. Symmetry is declared for the midpoints of a tree in `payment`, which checks no
liveness; the other runs are small enough, and most check liveness.

**Fairness.** `WF` on the steps of a caller, task, handler, call or upload: they are
tokio tasks or promises that are ready once enabled; storage transactions, chain queries
and requests to peers return or time out (`timeout_secs`). Nobody has to send a request,
pay, crash or close. In `pqc`, a client that opens a stream writes it: a peer that
stalls for ever is outside the assumption, and the code has no timeout for it. In
`daemon`, `WF` on handlers and monitors is enough although they share a lock: the number
of requests is bounded. In `upgrade`, `SF` on taking a file lock that others take in
between (waiters of `flock` are woken), on the end of a rollout delay, which is finite,
and `WF` on `Expire`, a TTL. In `runtime`, a message in the channel is read, a semaphore
wakes its waiters, a deadline passes, and a task that was told to stop is scheduled and
ends; that a routing task notices that it fell behind is not. That a message or an
answer is delivered is not assumed of the library beyond the arrival of a request.
`files` writes weak fairness out with `TaskReady` and `CallerReady`, the same formula
without `ENABLED`, which would encrypt anew in every state.

## 4. Proofs

Each component with theorems has a module `<Component>Proofs` that extends it. The
theorems hold for every value of the constants that meets the named assumptions of the
component's module, so for any number of callers, tasks, nodes, calls, chunks, waves,
crashes and faults; the bounds of the runs are parameters of the proofs. `CrashPolicy`,
`Upgrade` and `FileTransfer` belong to the daemon, the node and the client: the proof
modules of these extend them too, which is why their specifications have names of their
own (`PolicySpec`, `UpgradeSpec`, `FileSpec`).

| Theorem | States | Assumes, besides types and finite sets |
|---|---|---|
| `LmdbStorageProofs!TypeCorrect` | `[]TypeOK` | |
| `LmdbStorageProofs!CapacityTheorem` | `[]CapacityRespected` | |
| `LmdbStorageProofs!NoDriftTheorem` | `[]NoCounterDrift` | |
| `LmdbStorageProofs!StorageTheorem` | `ImplementsContentStore`, the refinement | `None` is no content |
| `ChunkNodeProofs!TypeCorrect` | `[]TypeOK` | `NoFile` is no metrics |
| `ChunkNodeProofs!PaidTheorem` | `[]PaidBeforeStored` | |
| `ChunkNodeProofs!DurableTheorem` | `[]AckedIsDurable` | |
| `ChunkNodeProofs!CountTheorem` | `[]NeverUndercounts` | |
| `PaymentProofs!StoredTheorem` | `[]StoredWasPaid` | |
| `PaymentProofs!MerkleProofTheorem` | `[]MerkleProofHolds` | |
| `PaymentProofs!PriceTheorem` | `[]MinorityCannotSetPrice` | odd nodes, which send any quote, are a minority of the group |
| `PaymentProofs!PaidProofTheorem` | `[]PaidProofHolds` | clocks differ by the tolerance at most |
| `PqcSessionProofs!NonceTheorem` | `[]NonceUnique` | `MaxSeq` < `Width` |
| `PqcSessionProofs!PermitTheorem` | `[]PermitsBalanced` | |
| `PqcSessionProofs!LagTheorem` | `[]LagIsLostStreams` | `MaxSeq` < `Width` |
| `NodeDaemonProofs!TypeCorrect` | `[]TypeOK` | |
| `NodeDaemonProofs!SyncTheorem` | `[]RegistryInSync` | 0 is no handler |
| `NodeDaemonProofs!WatchedTheorem` | `[]EveryProcessWatched` | |
| `NodeDaemonProofs!OneProcessTheorem` | `[]OneProcessUnlessStopped` | 0 is no handler |
| `NodeDaemonProofs!BurstTheorem` | `[]ErroredOnlyAfterBurst` of `CrashPolicy` | `None` is no time |
| `NodeRuntimeProofs!IdentityTheorem` | `[]IdentityKept` | any layout of directories, those of a devnet are apart |
| `NodeRuntimeProofs!DevnetTheorem` | `[]DevnetAllOrNone` | the nodes of a devnet are distinct, some are not bootstrap nodes |
| `NodeRuntimeProofs!AnswerTheorem` | `[]OwnAnswer` | |
| `NodeRuntimeProofs!SignedTheorem` | `[]OnlySigned` of `Upgrade` | |
| `BinaryInstallProofs!CacheTheorem` | `[]CacheHonest` | |
| `BinaryInstallProofs!CliTheorem` | `[]CliIsRelease` | |
| `UploadClientProofs!TypeCorrect` | `[]TypeOK` | |
| `UploadClientProofs!ReplicaTheorem` | `[]UploadedIsReplicated` | `Majority` at most the number of peers |
| `UploadClientProofs!HeldTheorem` | `[]NeverPaysForHeld` | |
| `UploadClientProofs!PaidOnceTheorem` | `[]PaidOnce` | |
| `UploadClientProofs!RiskTheorem` | `[]OneWaveAtRisk` | |
| `UploadClientProofs!OutputTheorem` | `[]OutputWhole` of `FileTransfer` | `MaxChunk` > 1; waves and batches are not empty |
| `UploadClientProofs!NothingLeftTheorem` | `[]NothingLeft` | the same |
| `UploadClientProofs!FailsTheorem` | `[]FailsOnlyOnFault` | the same |
| `UploadClientProofs!StreamAgreesTheorem` | `StreamAgrees`, about steps | the same |
| `UploadClientProofs!RecoverableTheorem` | `UploadIsRecoverable`, about steps | the same |
| `UploadClientProofs!RangesTheorem` | `RangesAgree`, about steps | the same |

Every strengthened invariant named below also holds in all states of its run on TLC (of
`JobInv` and `TreeInv` all but their types, infinite sets that TLC cannot enumerate; of
`TransferInv` and `UploadInv` with the maps, marks and types that exist given explicitly).

*Storage.* The invariant is `TypeOK /\ CapacityRespected /\ NoCounterDrift`: the
transaction that adds an entry moves its caller into `Uncounted` in the same step, and
the capacity follows because check and write are one step. The lemmas `StoredAdd`,
`StoredRemove` and `UncountedMoves` give the cardinalities. The refinement is a step
simulation: `PhaseOf` maps each program counter to the phase of the abstract call,
`MoveMaps`, `AnswerMaps` and `CommitMaps` say which steps are stutters, answers and
effects, and `NextMaps` puts them together. Of the reachable states it needs, besides
the types, that a caller in its write transaction has passed the check of its content
(`TxnInv`).

*Node.* `PaidBeforeStored` is not inductive: a task at `store` relies on an earlier
step. `PaidInv` adds that the caches hold only confirmed payments and that every task
at `store` has a paid address; payments only grow (`PaymentGrows`), so a verdict is
never out of date. `DurableInv` adds that every task about to answer with a success has
its chunk on disk. `NeverUndercounts` is inductive with the types: what has been stored
since the start and not been counted belongs to a task at `count`.

*Payment.* `StoredInv` follows from the checks of the verifier alone: one passed proof
contains a payment on the chain. For the other direction, that what was paid is
accepted, `JobInv` and `TreeInv` follow a job and a tree from the first question to the
payment: the quotes are of distinct nodes, and those of nodes that are not odd are for
the chunk and not from the future of their signer's clock; what was paid is what the
quotes ask for, and is on the chain; a complete pool was signed for the time of the
payment. Of the odd nodes nothing is known. `PaidProofHolds` therefore speaks of
payments whose odd quotes are `Proper`, and shows that an improper one is the only thing
that can spoil a proof while it is fresh; `MinorityCannotSetPrice` needs nothing of them.
It is about the median: of the places below and above it, each is more than a minority
(`Below`). `MerkleProofHolds` ends, as the verifier does, when the time of the tree is
too old for the clock of the node.

*Session.* `IInv` orders numbers and counters: every number given out by a counter is
below it (`ClientAhead`, `ServerAhead`), the numbers of one session are distinct
(`NumUnique`, `RequestUnique`) and a response is encrypted under the number its stream
was accepted with (`ResponseNonce`). The limit keeps the counters from wrapping
(`NoWrap`), which needs `MaxSeq` < `Width`: in the code 2^32 - 2 and 2^32. Permits are
counted as cardinalities of the streams that hold one, in all and per session
(`HeldBy`). The lag needs that a call which never got a stream is unknown to the
server (`LostInv`), so that the streams that are lost and those on their way are
disjoint sets.

*Daemon.* `RegistryInSync` needs that only a handler that works through its list keeps
the supervisor's lock (`HeldInv`). A reload that fails is `missed` until the next one
that succeeds; the theorem says that nothing but that makes the copy differ from the
file, and that a reload repairs what failed ones before it missed. `EveryProcessWatched`
and `OneProcessUnlessStopped` except the processes in `lost`, those that could not be
waited for. `EveryProcessWatched` needs process ids in order (`Fresh`), so that a spawn
never meets an old monitor. `OneProcessUnlessStopped` counts processes; what is
inductive is about monitors (`OneMonitor`): a node nobody stopped has one at work at
most, and is shown as running, or being stopped, as long as there is one. A start sees
that; a stop in progress keeps the lock (`StoppingInv`).

*Runtime.* `IdentityInv`: the identities a process has run with are on its disk. It
mints only after a scan that found none, so it has had none before, and what it is about
to load is all it has had; this is kept although others store identities in the default
directory between the scan and the load. In an explicit directory a start that saves its
key over another's puts the directory into `overwritten`; only a directory that several
processes were given can get there (`SharedInv`), and for all others the argument is the
same. `DevnetInv` has the nodes of a starting devnet as a prefix of their list, so that
the count of running nodes is the index of the last one and the loop ends with all of
them; from a shutdown on, every routing task, the monitor and the listener have been
told to stop, and none comes back. That they do end is `TasksFinish`, on TLC.

*Binaries.* `CacheInv` follows one inode: it is created by the extraction of its request
(`Fresh`) and is under one name at a time (`Apart`). Any number of extractions may
overlap, and those files they write are `mixed`. An extraction whose file is not mixed
is the only one under way, has written pieces of one version to the file at `ant-node`,
and its cached name is still free when it renames; while an extraction of a mixed file
is under way, only a mixed file is at `ant-node` (`ExtractInv`), so an extraction that
comes later, and is alone, starts with a file of its own or empties that one. What was
resolved stays cached (`Resolved`), and a new node has its binary from there (`Copied`).
`CliInv` has the verified archive between its check and the replacement.

*Upload.* `WaveInv` says that of the chunks reached so far only those that are prepared
or stored now are not settled, and where the two sets lie; `MerkleInv` the same for
sub-batches and streams of PUTs; `CoverInv` that removing duplicates keeps every address.
Waves partition the items by a rounded-up division (`GroupIndex`, `GroupFacts`). Money
is counted on top (`MoneyInv`): a payment is made at one place per position, and
positions that were kept have distinct addresses where duplicates are removed. What is
paid and not stored at an error lies in `preparing` or `storing`, so in one wave
(`RiskOf`).

*Crash policy.* `ErroredOnlyAfterBurst` is about the history of crashes, of which
`record_crash` keeps a counter and the start of a window. `BurstInv` ties them together:
the crashes are in order, and the window starts at the oldest of the last `restart_count`
of them (`WindowStart`). A run that was stable starts both anew.

*Upgrade.* `UpgradeInv` says where signed binaries are: in the executable, in the cache and
its temporary files under the name of their version, in the backup, and in the hands of
every process from its verified download or its cache hit to the replacement (`Sound`).
What comes from the network may be forged, and is in no file before `verify` passed. The
rollback needs that a process which has begun to replace has left a backup (`BackedUp`).

*Files.* The algorithms come first. The spans of the chunks partition the data, for every
size (`Spans`); what is cut at such marks and put together is the data (`Flatten`). A map
*opens* at a level to data C (`Opens`, `Level`) if its chunks have the keys of that level
and its sizes and parts are those of C; `LevelOpens` says that this is what `EncryptLevel`
makes, `FullSet` that such a map decrypts to C at its level and fails at the other one.
`Good` is a data map of C as `shrink_data_map` leaves it: a root map, or a map of a
serialized root map (`Shrinks`, `RootMap`). Recursive functions are reasoned about through
sets: the set of numbers up to which a function is as wanted contains 0 and successors, so
it is `Nat` (`Inductive`), and from that a function satisfying the recursion exists and
equals the defined one (`Repeats` for the two iterations, `LoopRuns` for the loop of
`file_prepare_upload`, `FoldingExists` for folds over finite sets, by induction on the
cardinality).

`TransferInv` relates the task, the caller, the download and the files. The stream holds
what it has read, and its map, once there, is a `Good` one of what was read up to the
length asked for (`StreamInv`, `FinalGood`); so is the map of the upload (`MapInv`); a
download is at a batch boundary, its temporary file holds the content up to there, and
what has been fetched are chunks of its map in any order (`DownInv`, `Writing`,
`Fetching`, `Sorted`, `BatchOpens`); without a fault nothing has failed that had no
reason to (`FaultInv`). A fetch that ends in an answer of a peer that errs is no fault
and makes the download `refused`, not failed: the theorem says of a file download that
did not succeed that it had a fault, or was refused, or had a map that was shrunk twice.
From it follow the first four theorems. `StreamAgrees` compares the stream's map with
`encrypt` through the spans (`FinalAgrees`).

That an upload is recoverable is about chunks on their way: `UploadInv` says that every
chunk the stream has yielded, of the map it is going to have, is waiting in the task, in
the channel or in the spill (`Flow`, `Traced`), although later reads may still change the
last chunks; that they do not change those already yielded is `CutStays`. When the task
has ended well, all chunks of its map are spilled (`AwaitFlow`); from then on, spill and
network together keep them (`Kept`, `StoreInv`), through waves and through the external
signer. For ranges, the sizes in a map add up to its marks, in whatever order the fold takes
them (`SumAnyOrder`, `SizesSum`), every position lies in one chunk (`IndexFound`), and
what is cut out of the chunks in between is the part of the data (`RangeIs`).

*Only model-checked.* All liveness properties: `Answered`, `NoStaleRunning`, `CallsReturn`,
`UploadEnds`, `Upgraded`, `TasksFinish`, `TransfersEnd`. They need fairness and
`ENABLED`, which are out of the prover's reach. Every invariant and every action property
of the passing runs is stated by a theorem above.

## 5. What is left out, and why

- *Cryptography and wire formats*: an encryption is a record of what was encrypted
  under which nonce or key, a hash is a function given as a constant or the content
  itself, a proof is a record. `live_time`, `network_size` and records per type do not
  influence any decision that is modelled. The fixed-point arithmetic of the price
  curve and compression are left out.
- *Libraries*: the P2P network, the EVM contracts, QUIC, LMDB and the file system are
  external, with the outcomes the code distinguishes.
- *Metrics*: a persist is one step; two tasks that write the file at once are not
  modelled, except that a crash may tear it.
- *Daemon*: event stream, read-only handlers, PID and port files, and the command
  line's own edits of the registry while no daemon runs; a handler whose client
  disconnects is cancelled at an await in the code and runs on in the model. The
  supervisor's map keeps entries of removed nodes, as in the code.
- *Upload*: different close groups per address, concurrent uploads, the limit on
  concurrent quote requests.
- *Upgrade*: the Windows branches, and the `Upgrader` of `upgrade/mod.rs`, which nothing
  uses. The delay of a rollout, a hash of the node's id, is nondeterministic.
- *Devnet*: the manifest, the port range and the funded client of `LocalDevnet`.
- *Code that nothing but tests calls*: `SingleNodePayment::verify`, `decrypt_range` of
  `self_encryption/src/lib.rs`.
- *Configuration, command line, network client, bindings*: parsing, printing and thin
  calls without state over time.

## 6. Disagreements and observations

`data_download_shrunk` ends in a violation (see `findings` in `PROJECT.json`):
`data_download` fetches only the chunks its data map lists; data of more than three
chunks gets a shrunk map, whose chunks hold the root map and not the content, so the
download fails without any fault. `file_download` asks for the root first and works.

The following were met while modelling. They have no run of their own; each was seen as
a trace of one of the models with a property that states the quoted comment, or in the
code.

*Daemon.* A stop during a monitor's backoff is undone by the respawn
(`supervisor.rs:422`, against the comment at 144-146). `post_reset` and `delete_node`
release the supervisor's lock before they act, so a start can slip in (`server.rs:492`,
`:269`, against 479-480 and 258). The daemon does not find the nodes that survived it
(`server.rs:58`), though `process/spawn.rs:41` says so. The crash window starts at the
first crash and never moves: a burst after an early isolated crash is not recognised
(`supervisor.rs:304`, against 17-18). The 60 s cap on the backoff cannot be reached (the
shift ends at 32 s, `:314`). A node that ends with exit code 0 after its automatic
upgrade is marked stopped and not restarted. When the reload of the registry fails after
a change, the handler keeps its old copy without a word (`if let Ok(fresh)`,
`server.rs:241`, `:277`, `:500`). If waiting for a child fails, the child is taken as
gone while it may run on, by `start_node` (`supervisor.rs:105-109`) and by the monitor
(`:377`), and nobody watches it. `ant node add` and `reset` edit the registry file
themselves when no daemon answers; a daemon that starts at that moment keeps the older
copy until its next reload.

*Session.* One stream that cannot be created shifts all later stream numbers of the
session (`transport.rs:239`, against `PQC-TUNNEL-PROPOSAL.md:172`).

*Runtime.* The routing task ends at the first `Err` of the broadcast channel, `Lagged`
included (`node.rs:747`): after one burst the node answers nothing any more. Two first
starts in the default directory can each mint an identity, after which neither starts
without `--root-dir`. Two first starts with the same explicit `--root-dir` race for one
key file: the second overwrites the first, whose node comes up with another identity
when it is restarted (`node.rs:263-279`). `Devnet.shutdown` signals and aborts its tasks
and does not join them, so some may run on after it has returned (`devnet.rs:436-470`).
A `Devnet` dropped without `shutdown` leaks its nodes; `ant-devnet` forgets the handle
of Anvil; `Devnet::new` with a random port and 40000 nodes or more has an empty range.

*Upgrade.* With three nodes and two failed operations, writers of one temporary file
leave a torn binary in the cache (`binary_cache.rs:103`, against `:86`); with one
failure they do not. A node with an older target can put its version over a sibling's
newer one (`apply.rs:165`). A stable node that shares its executable with a beta node
restarts into the pre-release. A rollback that copies in place and is cut off leaves a
machine that cannot start nodes. A standalone node spawns its successor before it has
released its port, and a SIGTERM during the replacement does not stop that. Binaries,
unlike the release list and the metadata, are not synced before their rename.

*Storage and node.* A chunk corrupted on disk answers `AlreadyExists` to every PUT and
cannot be repaired (`handler.rs:161`). A response that cannot be encoded is not sent,
and the client waits for its timeout (`handler.rs:131-134`). Two concurrent PUTs of one
new chunk are both counted in `close_records_stored` (`handler.rs:196` takes `Ok(false)`
for a new record).

*Payment.* The client needs five quotes from the five peers it asks, so a chunk that one
or two of them hold can be neither quoted nor taken as stored (`quote.rs:164`). It does
not check the content, signature or time of a quote before it pays, while merkle
candidates are validated (`quote.rs:104-109`): one improper quote among the five makes
every node refuse the proof that was paid for, and the chunk has to be paid for again.
`calculate_price` is computed and then ignored in favour of the contract's prices.
`batch_pay` drops the payments that went through when a later one fails
(`batch.rs:259`); a merkle sub-batch that fails drops the proofs of those already paid,
and the fallback of `Auto` pays for them again. A list of one chunk more than
`MAX_LEAVES` leaves a last tree of one leaf, which is an error after the others were
paid (`merkle.rs:118`). `data_prepare_upload` and the merkle path of
`data_upload_with_mode` do not remove duplicates (`data.rs:182`).
`validate_local_recipient` takes any node whose rewards address is among the quotes. Two
quotes of one second can have the same hash.

*Files.* `chunk.rs:212-215` says that a chunk is taken from the first successful
response of its close group; an erroneous answer ends the search instead, and with it
the download (`chunk.rs:251`), although the next peer may have the chunk.
`FailsOnlyOnFault` keeps that end (`refused`) apart from a failure and does not excuse
it as a fault. `data_map.rs:25-26` says that `child` is the number of levels a map was
shrunk. `encrypt_with_child_level` shrinks what it returns, so the loop of
`shrink_data_map` (`self_encryption/src/lib.rs:386`) gets a map that is already shrunk
and writes its own level over it: the number is too small when a map is shrunk twice.
Such a map cannot be decrypted: all its levels are encrypted as level 1,
`get_root_data_map` decrypts one of them, finds a map without a level and takes it for
the root (`lib.rs:429`), and its chunks do not open at level 0, though `lib.rs:256-257`
says that decryption "handles both root data maps and child data maps". In the model 11
units in chunks of 2 do it, in the code a file of more than about 650 GB, whose map of
80 bytes per chunk no longer fits into three chunks. For this reason
`UploadIsRecoverable`, `RangesAgree` and `FailsOnlyOnFault` speak of maps that are
shrunk once at most (`ShrunkOnce`); a file download of such a map fails for a fault or
is refused, and in no other case. That an in-memory download fails for every map that is
shrunk at all is the violation above. `get_range` and the batches of `stream_decrypt`
skip, without an error, chunks that the fetch function does not return. A file that
loses only the end of its last chunk during encryption gives `Ok` and the shorter
content; one that grows without end is buffered without end. `range_inclusive` with its
end before its start returns one unit. The client and the command line write data maps
as MessagePack, while the browser's `download_from_address` reads bincode. Failures to
remove temporary files are only logged.

*Binaries.* Two overlapping extractions write to one file, and what they leave may be
cached under the name of a version it is not (`binary.rs:158`): if `CacheHonest` is
stated of the files in `mixed` too, it has a counterexample. The theorem says that it
goes no further: what is extracted alone is whole, whatever was left in its way. Mixed
downloads can give a request another version than it asked for. A binary from a URL that
does not tell its version is cached as "unknown" and used for the next URL. Node
binaries are not checked against a signature, and the version of an update only if the
new binary runs.

## 7. Plan

1. *Done*: all modules above, their runs, and the proofs of section 4.
2. *Model next*: handlers cancelled by a client that disconnects, and the PID file with the
   command line's own registry edits, in `NodeDaemon`.
3. *When `shrink_data_map` keeps its levels*: drop `ShrunkOnce` from the properties of
   `FileTransfer`; `Good` then becomes a chain of levels, and the lemmas on one level
   (`LevelOpens`, `FullSet`) stay as they are.
