------------------------------- MODULE Upgrade -------------------------------
(***************************************************************************)
(* Automatic upgrades (ant-node/src/upgrade and the upgrade task of        *)
(* node.rs).  The nodes of one machine run one executable file and share   *)
(* one cache directory: the release list with its lock, and per version a  *)
(* binary, its metadata and one download lock.  Every node sleeps, looks   *)
(* for a newer release, waits for its turn in the rollout, fetches the     *)
(* binary, swaps the shared executable and restarts.  File operations are  *)
(* the steps; a process may end between any two of them.                   *)
(***************************************************************************)
EXTENDS Integers, FiniteSetsExt

CONSTANTS
    Sibling,     \* the nodes that share the executable and the cache
    MaxVersion,  \* versions are 1 .. MaxVersion; the machine starts with 1
    Pre,         \* versions that are pre-releases
    Beta,        \* nodes on the beta channel
    Staged,      \* nodes with a staged rollout (max_delay_hours > 0)
    Serviced,    \* nodes with stop_on_upgrade: a service manager restarts them
    NoNode,      \* no holder of a lock
    MaxFaults,   \* bound on failed file operations and downloads
    MaxCrashes   \* bound on processes that end in the middle of their work

Version == 1 .. MaxVersion

ASSUME SiblingAssumption ==
    /\ IsFiniteSet(Sibling) /\ NoNode \notin Sibling
    /\ Beta \subseteq Sibling /\ Staged \subseteq Sibling /\ Serviced \subseteq Sibling
ASSUME VersionAssumption ==
    MaxVersion \in Nat \ {0} /\ Pre \subseteq Version
ASSUME FaultAssumption == MaxFaults \in Nat /\ MaxCrashes \in Nat

\* What a file holds: nothing, a complete signed binary of a version, a binary
\* whose signature is wrong, or a part of a binary.
NoFile == [ver |-> 0, kind |-> "absent"]
Whole(v) == [ver |-> v, kind |-> "whole"]
Part(v) == [ver |-> v, kind |-> "part"]
Forged(v) == [ver |-> v, kind |-> "forged"]
File == {NoFile} \cup UNION {{Whole(v), Part(v), Forged(v)} : v \in Version}

\* What the server sends: a signed archive with the binary, a signed one in
\* which none is found, or one that is not signed.
Archive == {"release", "other", "forged"}

\* The release list: the versions 2 .. upto, and whether its TTL still runs.
NoList == [upto |-> 0, fresh |-> FALSE]

PC == {"down", "sleep", "recheck", "fetch", "list", "resolve", "copy", "lock",
       "copyLocked", "download", "store", "fill", "swap", "rename", "meta",
       "metaRename", "disk", "backup", "backupFill", "replace", "rollback",
       "restore", "restart", "stopping"}

VARIABLES
    published,  \* the newest published version
    list,       \* releases.json
    listLock,   \* holder of releases.lock
    tmp,        \* per version: .ant-node-<version>.tmp
    bin,        \* per version: the cached binary
    metaTmp,    \* per version: whether the temporary metadata file exists
    meta,       \* per version: whether the metadata file exists
    dlLock,     \* holder of download.lock
    exe,        \* the executable that all nodes run
    backup,     \* <executable>.backup
    node,       \* per node: its process
    faults,     \* failures so far (bound)
    crashes     \* crashes so far (bound)

cache == <<tmp, bin, metaTmp, meta>>
disk == <<exe, backup>>
locks == <<listLock, dlLock>>
budget == <<faults, crashes>>
upgradeVars == <<published, list, locks, cache, disk, node, budget>>

\* ver: the version of the running image; pending: the version whose rollout
\* delay runs (0: none); got: the list fetched or read; target: the upgrade;
\* new: the binary in the private temporary directory; at: the name under
\* which the file this node is filling can be found; src: what it copies;
\* mixed: another backup was written into the same file meanwhile.
Process == [pc : PC, ver : Version, pending : {0} \cup Version, got : {0} \cup Version,
            target : {0} \cup Version, new : File, at : {"none", "tmp", "bin", "gone"},
            src : File, mixed : BOOLEAN]

Started(v) == [pc |-> "sleep", ver |-> v, pending |-> 0, got |-> 0, target |-> 0,
               new |-> NoFile, at |-> "none", src |-> NoFile, mixed |-> FALSE]

UpgradeTypeOK ==
    /\ published \in Version
    /\ list \in [upto : {0} \cup Version, fresh : BOOLEAN]
    /\ listLock \in Sibling \cup {NoNode} /\ dlLock \in Sibling \cup {NoNode}
    /\ tmp \in [Version -> File] /\ bin \in [Version -> File]
    /\ metaTmp \in [Version -> BOOLEAN] /\ meta \in [Version -> BOOLEAN]
    /\ exe \in File /\ backup \in File
    /\ node \in [Sibling -> Process]
    /\ faults \in 0 .. MaxFaults /\ crashes \in 0 .. MaxCrashes

UpgradeInit ==
    /\ published = 1 /\ list = NoList
    /\ listLock = NoNode /\ dlLock = NoNode
    /\ tmp = [v \in Version |-> NoFile] /\ bin = [v \in Version |-> NoFile]
    /\ metaTmp = [v \in Version |-> FALSE] /\ meta = [v \in Version |-> FALSE]
    /\ exe = Whole(1) /\ backup = NoFile
    /\ node = [n \in Sibling |-> Started(1)]
    /\ faults = 0 /\ crashes = 0
-----------------------------------------------------------------------------
At(n, pc) == node[n].pc = pc
Goto(n, pc) == node' = [node EXCEPT ![n].pc = pc]

\* A file operation or a download fails.
Fails == faults < MaxFaults /\ faults' = faults + 1 /\ UNCHANGED crashes

\* The guard of the lock file is dropped.
Unlocked(lock, n) == IF lock = n THEN NoNode ELSE lock

\* RolledBack, NoUpgrade and errors: the task sleeps until its next check; the
\* temporary directory goes.
GiveUp(n) ==
    /\ node' = [node EXCEPT ![n] = [Started(@.ver) EXCEPT !.pending = node[n].pending]]
    /\ listLock' = Unlocked(listLock, n)
    /\ dlLock' = Unlocked(dlLock, n)

\* A release appears.  One without a signed asset for the platform is passed
\* over by every check, as if it were not there.
Publish ==
    /\ published < MaxVersion
    /\ published' = published + 1
    /\ UNCHANGED <<list, locks, cache, disk, node, budget>>

\* The TTL of the release list ends.
Expire ==
    /\ list.fresh
    /\ list' = [list EXCEPT !.fresh = FALSE]
    /\ UNCHANGED <<published, locks, cache, disk, node, budget>>
-----------------------------------------------------------------------------
(* The monitor *)

\* select_upgrade_from_releases: the newest eligible version above the running
\* one; 0 if there is none.
select_upgrade(n, upto) ==
    LET eligible == {v \in 2 .. upto : /\ v > node[n].ver
                                       /\ v \in Pre => n \in Beta}
    IN  IF eligible = {} THEN 0 ELSE Max(eligible)

\* Mutant: the detection time is recorded anew at every check.
ReadyRestarts(n, upto, due) ==
    LET v == select_upgrade(n, upto)
        p == node[n]
    IN  /\ n \in Staged \/ v = 0 => ~due
        /\ node' = [node EXCEPT ![n] =
                      [Started(p.ver) EXCEPT !.pending = IF n \in Staged THEN v ELSE 0,
                                             !.pc = IF due THEN "resolve" ELSE "sleep",
                                             !.target = IF due THEN v ELSE 0]]

\* check_for_ready_upgrade on the list the check came up with.  Time may pass
\* between two checks, so a version that is pending already may or may not be
\* due; one seen for the first time is due only without a rollout delay.
Ready(n, upto, due) ==
    LET v == select_upgrade(n, upto)
        p == node[n]
    IN  /\ v # 0 /\ n \in Staged /\ p.pending # v => ~due
        /\ v = 0 => ~due
        /\ node' = [node EXCEPT ![n] =
                      IF v = 0 THEN Started(p.ver)
                      ELSE [Started(p.ver) EXCEPT
                              !.pending = IF n \in Staged THEN v ELSE 0,
                              !.pc = IF due THEN "resolve" ELSE "sleep",
                              !.target = IF due THEN v ELSE 0]]

\* The sleep of the upgrade task is over; without a rollout a release is due
\* as soon as it is seen.
Check(n, upto) ==
    \E due \in BOOLEAN : /\ n \notin Staged => due = (select_upgrade(n, upto) # 0)
                         /\ Ready(n, upto, due)

\* ReleaseCache.read_if_valid: the file is there, and its TTL runs.
read_if_valid == list.upto # 0 /\ list.fresh

\* check_for_updates, lock-free path.
CheckCached(n) ==
    /\ At(n, "sleep") /\ read_if_valid
    /\ Check(n, list.upto)
    /\ UNCHANGED <<published, list, locks, cache, disk, budget>>

\* The list is missing or stale: the node queues for the lock.
CheckStale(n) ==
    /\ At(n, "sleep") /\ ~read_if_valid
    /\ Goto(n, "recheck")
    /\ UNCHANGED <<published, list, locks, cache, disk, budget>>

\* lock_and_recheck: another node may have refreshed the list meanwhile; the
\* guard is dropped with the result.
LockAndRecheck(n) ==
    /\ At(n, "recheck") /\ listLock = NoNode
    /\ \/ /\ read_if_valid
          /\ Check(n, list.upto)
          /\ UNCHANGED listLock
       \/ /\ ~read_if_valid
          /\ Goto(n, "fetch")
          /\ listLock' = n
    /\ UNCHANGED <<published, list, dlLock, cache, disk, budget>>

\* fetch_releases_from_api under the lock, then the old file is removed.
Fetch(n) ==
    /\ At(n, "fetch")
    /\ node' = [node EXCEPT ![n].pc = "list", ![n].got = published]
    /\ list' = NoList
    /\ UNCHANGED <<published, locks, cache, disk, budget>>

FetchFails(n) ==
    /\ At(n, "fetch") /\ Fails
    /\ GiveUp(n)
    /\ UNCHANGED <<published, list, cache, disk>>

\* The new list is renamed into place and the lock released; when the write
\* fails the check goes on with what was fetched.
WriteList(n) ==
    /\ At(n, "list")
    /\ \/ list' = [upto |-> node[n].got, fresh |-> TRUE] /\ UNCHANGED budget
       \/ UNCHANGED list /\ Fails
    /\ listLock' = Unlocked(listLock, n)
    /\ Check(n, node[n].got)
    /\ UNCHANGED <<published, dlLock, cache, disk>>
-----------------------------------------------------------------------------
(* The binary: cache, download, signature *)

\* BinaryCache.get_verified: the metadata is there and the digest matches.
get_verified(v) == meta[v] /\ bin[v] = Whole(v)

\* Fast path, without the lock.
Resolve(n) ==
    /\ At(n, "resolve")
    /\ Goto(n, IF get_verified(node[n].target) THEN "copy" ELSE "lock")
    /\ UNCHANGED <<published, list, locks, cache, disk, budget>>

\* The copy reads the file as it is by now.
CopyCached(n) ==
    LET f == bin[node[n].target]
    IN  /\ At(n, "copy") /\ f # NoFile
        /\ node' = [node EXCEPT ![n].pc = "disk", ![n].new = f]
        /\ UNCHANGED <<published, list, locks, cache, disk, budget>>

\* "Failed to copy from cache, will re-download": without the lock.
CopyCachedFails(n) ==
    /\ At(n, "copy")
    /\ \/ bin[node[n].target] = NoFile /\ UNCHANGED budget
       \/ bin[node[n].target] # NoFile /\ Fails
    /\ Goto(n, "download")
    /\ UNCHANGED <<published, list, locks, cache, disk>>

\* acquire_download_lock and the second look.
LockDownload(n) ==
    /\ At(n, "lock") /\ dlLock = NoNode
    /\ dlLock' = n
    /\ Goto(n, IF get_verified(node[n].target) THEN "copyLocked" ELSE "download")
    /\ UNCHANGED <<published, list, listLock, cache, disk, budget>>

CopyLocked(n) ==
    /\ At(n, "copyLocked")
    /\ \/ /\ bin[node[n].target] # NoFile
          /\ node' = [node EXCEPT ![n].pc = "disk", ![n].new = bin[node[n].target]]
          /\ dlLock' = NoNode
          /\ UNCHANGED <<listLock, budget>>
       \/ Fails /\ GiveUp(n)
    /\ UNCHANGED <<published, list, cache, disk>>

\* Mutant: the archive is extracted and stored without a look at its signature.
verify_nothing(archive) == archive \in Archive

\* verify_from_file: only an archive signed by the release key passes.
verify_from_file(archive) == archive # "forged"

\* extract_binary: the format is known and a member is called ant-node.
extract_binary(archive, v) ==
    CASE archive = "release" -> Whole(v)
      [] archive = "forged"  -> Forged(v)
      [] archive = "other"   -> NoFile

\* download_verify_extract up to the extraction, for whatever the server
\* sends; the signature is checked before anything is extracted.
Download(n) ==
    /\ At(n, "download")
    /\ \E archive \in Archive :
         /\ verify_from_file(archive)
         /\ extract_binary(archive, node[n].target) # NoFile
         /\ node' = [node EXCEPT ![n].pc = "store",
                                 ![n].new = extract_binary(archive, node[n].target)]
    /\ UNCHANGED <<published, list, locks, cache, disk, budget>>

\* Not downloaded, not signed, or nothing to extract.
DownloadFails(n) ==
    /\ At(n, "download") /\ Fails
    /\ GiveUp(n)
    /\ UNCHANGED <<published, list, cache, disk>>
-----------------------------------------------------------------------------
(* BinaryCache.store.  The names of the temporary files depend on the      *)
(* version only.  A file that is renamed or removed stays open for those   *)
(* who are writing it.                                                     *)

Writers(v, where) == {m \in Sibling : At(m, "fill") /\ node[m].target = v /\ node[m].at = where}

\* fs::copy opens (and truncates) the temporary file ...
StoreBegin(n) ==
    LET v == node[n].target
    IN  /\ At(n, "store")
        /\ tmp' = [tmp EXCEPT ![v] = Part(v)]
        /\ node' = [node EXCEPT ![n].pc = "fill", ![n].at = "tmp"]
        /\ UNCHANGED <<published, list, locks, bin, metaTmp, meta, disk, budget>>

\* ... and is complete when nobody else is writing into the same file.
Filled(n) ==
    IF Writers(node[n].target, node[n].at) = {n} THEN node[n].new ELSE Part(node[n].target)

StoreFill(n) ==
    LET v == node[n].target
    IN  /\ At(n, "fill")
        /\ tmp' = IF node[n].at = "tmp" THEN [tmp EXCEPT ![v] = Filled(n)] ELSE tmp
        /\ bin' = IF node[n].at = "bin" THEN [bin EXCEPT ![v] = Filled(n)] ELSE bin
        /\ node' = [node EXCEPT ![n].pc = "swap", ![n].at = "none"]
        /\ UNCHANGED <<published, list, locks, metaTmp, meta, disk, budget>>

\* Writers of version v whose file moves from one name to another.
Moved(from, to, v, ps) ==
    [m \in Sibling |-> IF m \in Writers(v, from) THEN [ps[m] EXCEPT !.at = to] ELSE ps[m]]

\* The old binary is removed, then the temporary one renamed.
StoreRemove(n) ==
    LET v == node[n].target
    IN  /\ At(n, "swap")
        /\ bin' = [bin EXCEPT ![v] = NoFile]
        /\ node' = [Moved("bin", "gone", v, node) EXCEPT ![n].pc = "rename"]
        /\ UNCHANGED <<published, list, locks, tmp, metaTmp, meta, disk, budget>>

\* The rename fails when another node has renamed the file already; store's
\* errors are only logged.
StoreRename(n) ==
    LET v == node[n].target
        there == tmp[v] # NoFile
    IN  /\ At(n, "rename")
        /\ bin' = IF there THEN [bin EXCEPT ![v] = tmp[v]] ELSE bin
        /\ tmp' = [tmp EXCEPT ![v] = NoFile]
        /\ node' = [Moved("tmp", "bin", v, Moved("bin", "gone", v, node)) EXCEPT
                      ![n].pc = IF there THEN "meta" ELSE "disk"]
        /\ dlLock' = IF there THEN dlLock ELSE Unlocked(dlLock, n)
        /\ UNCHANGED <<published, list, listLock, metaTmp, meta, disk, budget>>

\* The metadata: temporary file written, old one removed ...
StoreMeta(n) ==
    LET v == node[n].target
    IN  /\ At(n, "meta")
        /\ metaTmp' = [metaTmp EXCEPT ![v] = TRUE]
        /\ meta' = [meta EXCEPT ![v] = FALSE]
        /\ Goto(n, "metaRename")
        /\ UNCHANGED <<published, list, locks, tmp, bin, disk, budget>>

\* ... and renamed; the download is over and the lock goes.
StoreMetaRename(n) ==
    LET v == node[n].target
    IN  /\ At(n, "metaRename")
        /\ meta' = IF metaTmp[v] THEN [meta EXCEPT ![v] = TRUE] ELSE meta
        /\ metaTmp' = [metaTmp EXCEPT ![v] = FALSE]
        /\ Goto(n, "disk")
        /\ dlLock' = Unlocked(dlLock, n)
        /\ UNCHANGED <<published, list, listLock, tmp, bin, disk, budget>>

\* One file operation of store fails: logged, the upgrade goes on.
StoreFails(n) ==
    /\ node[n].pc \in {"store", "rename", "meta"} /\ Fails
    /\ Goto(n, "disk")
    /\ dlLock' = Unlocked(dlLock, n)
    /\ UNCHANGED <<published, list, listLock, cache, disk>>
-----------------------------------------------------------------------------
(* The executable *)

\* on_disk_version runs the file: a complete one says its version.
on_disk_version == IF exe.kind = "part" \/ exe = NoFile THEN 0 ELSE exe.ver

\* A sibling has done it already: nothing to replace.
CheckDisk(n) ==
    /\ At(n, "disk")
    /\ Goto(n, IF on_disk_version = node[n].target THEN "restart" ELSE "backup")
    /\ UNCHANGED <<published, list, locks, cache, disk, budget>>

\* fs::copy of the executable over the backup file that all nodes share.
BackupBegin(n) ==
    LET clash == {m \in Sibling : At(m, "backupFill") /\ node[m].src # exe}
    IN  /\ At(n, "backup")
        /\ backup' = Part(exe.ver)
        /\ node' = [m \in Sibling |->
                      IF m = n THEN [node[n] EXCEPT !.pc = "backupFill", !.src = exe,
                                                    !.mixed = clash # {}]
                      ELSE IF m \in clash THEN [node[m] EXCEPT !.mixed = TRUE]
                      ELSE node[m]]
        /\ UNCHANGED <<published, list, locks, cache, exe, budget>>

BackupFill(n) ==
    /\ At(n, "backupFill")
    /\ backup' = IF node[n].mixed \/ \E m \in Sibling \ {n} : At(m, "backupFill")
                 THEN Part(node[n].src.ver) ELSE node[n].src
    /\ node' = [node EXCEPT ![n].pc = "replace", ![n].src = NoFile, ![n].mixed = FALSE]
    /\ UNCHANGED <<published, list, locks, cache, exe, budget>>

BackupFails(n) ==
    /\ At(n, "backup") /\ Fails
    /\ GiveUp(n)
    /\ UNCHANGED <<published, list, cache, disk>>

\* replace_binary: one rename.
Replace(n) ==
    /\ At(n, "replace")
    /\ exe' = node[n].new
    /\ node' = [node EXCEPT ![n].pc = "restart", ![n].new = NoFile]
    /\ UNCHANGED <<published, list, locks, cache, backup, budget>>

ReplaceFails(n) ==
    /\ At(n, "replace") /\ Fails
    /\ Goto(n, "rollback")
    /\ UNCHANGED <<published, list, locks, cache, disk>>

\* The rollback writes the backup over the executable, in place; it may be
\* refused ("Critical"), since a running file cannot be opened for writing.
Rollback(n) ==
    /\ At(n, "rollback")
    /\ \/ GiveUp(n) /\ UNCHANGED exe
       \/ /\ exe' = Part(exe.ver)
          /\ node' = [node EXCEPT ![n].pc = "restore", ![n].src = backup]
          /\ UNCHANGED locks
    /\ UNCHANGED <<published, list, cache, backup, budget>>

Restore(n) ==
    /\ At(n, "restore")
    /\ exe' = node[n].src
    /\ GiveUp(n)
    /\ UNCHANGED <<published, list, cache, backup, budget>>
-----------------------------------------------------------------------------
(* The process *)

Runnable(f) == f.kind # "part" /\ f # NoFile

\* prepare_restart: standalone, the new process is spawned before this one
\* ends (its image is the file of now); serviced, it just ends.
Restart(n) ==
    /\ At(n, "restart")
    /\ \/ n \in Serviced \/ Runnable(exe)
    /\ node' = [node EXCEPT ![n].pc = "stopping",
                            ![n].src = IF n \in Serviced THEN NoFile ELSE exe]
    /\ UNCHANGED <<published, list, locks, cache, disk, budget>>

RestartFails(n) ==
    /\ At(n, "restart") /\ n \notin Serviced
    /\ \/ ~Runnable(exe) /\ UNCHANGED budget
       \/ Runnable(exe) /\ Fails
    /\ GiveUp(n)
    /\ UNCHANGED <<published, list, cache, disk>>

\* shutdown.cancel(), the cleanup of run, and the exit.
ExitProcess(n) ==
    /\ At(n, "stopping")
    /\ node' = [node EXCEPT ![n] = IF node[n].src = NoFile
                                   THEN [Started(@.ver) EXCEPT !.pc = "down"]
                                   ELSE Started(node[n].src.ver)]
    /\ UNCHANGED <<published, list, locks, cache, disk, budget>>

\* The process is killed or stopped in the middle of its work; its locks go
\* with it, what it was writing stays as it is.
Crash(n) ==
    /\ node[n].pc \notin {"down", "sleep", "stopping"} /\ crashes < MaxCrashes
    /\ crashes' = crashes + 1
    /\ node' = [node EXCEPT ![n] = [Started(@.ver) EXCEPT !.pc = "down"]]
    /\ listLock' = Unlocked(listLock, n)
    /\ dlLock' = Unlocked(dlLock, n)
    /\ UNCHANGED <<published, list, cache, disk, faults>>

\* The service manager, the daemon or the user starts the node again.
Launch(n) ==
    /\ At(n, "down") /\ Runnable(exe)
    /\ node' = [node EXCEPT ![n] = Started(exe.ver)]
    /\ UNCHANGED <<published, list, locks, cache, disk, budget>>

Work(n) ==
    \/ CheckCached(n) \/ CheckStale(n) \/ LockAndRecheck(n) \/ Fetch(n) \/ WriteList(n)
    \/ Resolve(n) \/ CopyCached(n) \/ CopyCachedFails(n) \/ LockDownload(n) \/ CopyLocked(n)
    \/ Download(n)
    \/ StoreBegin(n) \/ StoreFill(n) \/ StoreRemove(n) \/ StoreRename(n)
    \/ StoreMeta(n) \/ StoreMetaRename(n)
    \/ CheckDisk(n) \/ BackupBegin(n) \/ BackupFill(n) \/ Replace(n)
    \/ Rollback(n) \/ Restore(n) \/ Restart(n) \/ RestartFails(n) \/ ExitProcess(n) \/ Launch(n)

UpgradeNext ==
    \/ Publish \/ Expire
    \/ \E n \in Sibling :
         \/ Work(n)
         \/ FetchFails(n) \/ DownloadFails(n) \/ StoreFails(n) \/ BackupFails(n)
         \/ ReplaceFails(n) \/ Crash(n)

UpgradeSpec == UpgradeInit /\ [][UpgradeNext]_upgradeVars

\* Tasks and processes are scheduled, waiters get file locks, a process that
\* ended is started again; the TTL and the rollout delays are finite.
FairUpgradeSpec ==
    /\ UpgradeSpec /\ WF_upgradeVars(Expire)
    /\ \A n \in Sibling : /\ WF_upgradeVars(Work(n))
                          /\ SF_upgradeVars(LockAndRecheck(n)) /\ SF_upgradeVars(LockDownload(n))
                          /\ SF_upgradeVars(Work(n) /\ node'[n].pc = "resolve")
-----------------------------------------------------------------------------
Installing(n) == node[n].pc \in {"disk", "backup", "backupFill", "replace"}

\* Whatever the caches went through, no node gets to replace the executable by
\* anything but the version it selected, signed by the release key; neither
\* the cache nor the executable ever holds an unsigned binary (apply_upgrade,
\* download_verify_extract, BinaryCache).
OnlySigned ==
    /\ \A n \in Sibling : Installing(n) => /\ node[n].new.ver = node[n].target
                                           /\ node[n].new.kind \in {"whole", "part"}
    /\ exe.kind # "forged"
    /\ \A v \in Version : bin[v].kind # "forged" /\ bin[v].ver \in {0, v}

\* Unless a rollback is cut off and leaves an incomplete executable, every node
\* ends up running at least the newest release of its channel (the upgrade
\* task of run, check_for_ready_upgrade, apply_upgrade).
Upgraded ==
    [](exe.kind = "whole") =>
       \A n \in Sibling : <>[](select_upgrade(n, published) = 0)
=============================================================================
