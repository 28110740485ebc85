---------------------------- MODULE BinaryInstall ----------------------------
(***************************************************************************)
(* Where ant-client gets executables from: the node binary that a request  *)
(* to add nodes resolves (node/binary.rs), and the update of ant itself    *)
(* (update.rs).  The requests of a user, of several daemons' clients or of *)
(* several processes run at the same time and share the install directory  *)
(* with its files .download.tmp, ant-node and ant-node-<version>; an       *)
(* update works in a directory of its own.  File operations are the steps; *)
(* a process may end between any two of them.                              *)
(*                                                                         *)
(* A file is an inode under a name: who has it open goes on writing to it  *)
(* after it was renamed, removed or truncated by somebody else.  Archives  *)
(* and binaries have Pieces pieces; a piece is the version it belongs to.  *)
(***************************************************************************)
EXTENDS Integers, FiniteSetsExt

CONSTANTS
    Job,         \* requests; each is served once
    MaxVersion,  \* versions are 1 .. MaxVersion; 1 is the installed ant
    Pre,         \* versions that are drafts or pre-releases
    Pieces       \* pieces of an archive, and of a binary

ASSUME JobAssumption == IsFiniteSet(Job) /\ 0 \notin Job
ASSUME SizeAssumption == MaxVersion \in Nat \ {0} /\ Pieces \in Nat \ {0}
ASSUME PreAssumption == Pre \subseteq 2 .. MaxVersion

Version == 1 .. MaxVersion
\* The name a binary from a URL gets when it does not tell its version.
Unknown == 0
Name == Version \cup {Unknown}
None == 0          \* no file under a name

VARIABLES
    job,        \* per request: where it is and what it knows
    archive,    \* per inode of a download: its pieces
    binary,     \* per inode of an extracted binary: its pieces
    tmp,        \* the inode at .download.tmp
    plain,      \* the inode at ant-node
    cached,     \* per name: the inode at ant-node-<name>
    node,       \* per request: what was copied to the node's directory
    exe,        \* the executable of ant
    mixed,      \* the inodes extracted to while another extraction was under way (history)
    unrunnable  \* a complete binary did not tell its version (history)

vars == <<job, archive, binary, tmp, plain, cached, node, exe, mixed, unrunnable>>
install == <<archive, binary, tmp, plain, cached, mixed>>

\* A piece 0 is a hole or the end of the file.
Empty == [k \in 1 .. Pieces |-> 0]
Whole(v) == [k \in 1 .. Pieces |-> v]
IsWhole(pieces) == \E v \in Version : pieces = Whole(v)

\* An inode is named after the request that created it.
File == Job \cup {None}

\* What the server has for an update: an archive of some version, signed with
\* the release key or not.
Served == [ver : Version, signed : BOOLEAN]

Start == [pc |-> "start", want |-> Unknown, fd |-> None, k |-> 1, sent |-> 0, bytes |-> Empty,
          name |-> Unknown, got |-> [ver |-> 1, signed |-> TRUE]]

Init ==
    /\ job = [j \in Job |-> Start]
    /\ archive = [j \in Job |-> Empty]
    /\ binary = [j \in Job |-> Empty]
    /\ tmp = None
    /\ plain = None
    /\ cached = [n \in Name |-> None]
    /\ node = [j \in Job |-> Empty]
    /\ exe = [ver |-> 1, signed |-> TRUE]
    /\ mixed = {}
    /\ unrunnable = FALSE

At(j, pc) == job[j].pc = pc
Goto(j, pc) == job' = [job EXCEPT ![j].pc = pc]

\* An error is returned, or the process ends; open files are closed and what is
\* on disk stays.
Fail(j) == Goto(j, "failed")

Active(j) == job[j].pc \notin {"start", "added", "updated", "failed"}

GivesUp(j) ==
    /\ Active(j)
    /\ Fail(j)
    /\ UNCHANGED <<install, node, exe, unrunnable>>
-----------------------------------------------------------------------------
(* resolve_binary *)

\* BinarySource::LocalPath: the user's own file, if it tells its version.
resolve_local(j) ==
    /\ At(j, "start")
    /\ \/ Goto(j, "added")
       \/ Fail(j)
    /\ UNCHANGED <<install, node, exe, unrunnable>>

\* resolve_version: a cached file is used as it is.
resolve_version(j, v) ==
    /\ At(j, "start")
    /\ job' = [job EXCEPT ![j].want = v, ![j].name = v,
                          ![j].pc = IF cached[v] # None THEN "resolved" ELSE "request"]
    /\ UNCHANGED <<install, node, exe, unrunnable>>

\* What GitHub calls the latest release.
fetch_latest_version == Max(Version \ Pre)

resolve_latest(j) == resolve_version(j, fetch_latest_version)

\* resolve_url: the cache is not looked at.
resolve_url(j) ==
    /\ At(j, "start")
    /\ job' = [job EXCEPT ![j].want = Unknown, ![j].pc = "request"]
    /\ UNCHANGED <<install, node, exe, unrunnable>>
-----------------------------------------------------------------------------
(* download_and_extract *)

\* File::create: a file that exists is truncated, and keeps its inode.
Opened(path, j) == IF path = None THEN j ELSE path

\* The server answers, and the temporary file is created.
CreateTemp(j) ==
    /\ At(j, "request")
    /\ LET f == Opened(tmp, j)
       IN  /\ tmp' = f
           /\ archive' = [archive EXCEPT ![f] = Empty]
           /\ job' = [job EXCEPT ![j].pc = "download", ![j].fd = f, ![j].k = 1]
    /\ UNCHANGED <<binary, plain, cached, mixed, node, exe, unrunnable>>

\* The version the server sends: a URL may be of any.
Sent(j) == IF job[j].want = Unknown THEN Version ELSE {job[j].want}

\* A piece of the body is written, at the offset of this request.
WritePiece(j) ==
    /\ At(j, "download")
    /\ \E v \in IF job[j].k = 1 THEN Sent(j) ELSE {job[j].sent} :
          /\ archive' = [archive EXCEPT ![job[j].fd][job[j].k] = v]
          /\ job' = [job EXCEPT ![j].sent = v, ![j].k = @ + 1,
                                ![j].pc = IF job[j].k = Pieces THEN "read" ELSE @]
    /\ UNCHANGED <<binary, tmp, plain, cached, mixed, node, exe, unrunnable>>

\* fs::read of what is under the name now.
ReadTemp(j) ==
    /\ At(j, "read")
    /\ IF tmp = None THEN Fail(j)
       ELSE job' = [job EXCEPT ![j].pc = "remove", ![j].bytes = archive[tmp]]
    /\ UNCHANGED <<install, node, exe, unrunnable>>

RemoveTemp(j) ==
    /\ At(j, "remove")
    /\ tmp' = None
    /\ Goto(j, "extract")
    /\ UNCHANGED <<archive, binary, plain, cached, mixed, node, exe, unrunnable>>

Extracting(j) == job[j].pc \in {"fill", "chmod", "probe", "name", "rename"}

\* The file f is opened for an extraction that is alone, or meets others.
Mixing(f, others) ==
    IF others = {} THEN mixed \ {f} ELSE mixed \cup {f} \cup {job[i].fd : i \in others}

\* extract_tar_gz, extract_zip: the entry is found, and ant-node is created.
ExtractCreate(j) ==
    /\ At(j, "extract")
    /\ \/ /\ job[j].bytes[1] = 0
          /\ Fail(j)
          /\ UNCHANGED <<plain, binary, mixed>>
       \/ /\ job[j].bytes[1] # 0
          /\ LET f == Opened(plain, j)
             IN  /\ plain' = f
                 /\ binary' = [binary EXCEPT ![f] = Empty]
                 /\ mixed' = Mixing(f, {i \in Job \ {j} : Extracting(i)})
                 /\ job' = [job EXCEPT ![j].pc = "fill", ![j].fd = f, ![j].k = 1]
    /\ UNCHANGED <<archive, tmp, cached, node, exe, unrunnable>>

\* io::copy; the decompression fails at a piece that does not belong to the
\* first one, and what was written stays.
ExtractFill(j) ==
    /\ At(j, "fill")
    /\ IF job[j].bytes[job[j].k] # job[j].bytes[1]
       THEN Fail(j) /\ UNCHANGED binary
       ELSE /\ binary' = [binary EXCEPT ![job[j].fd][job[j].k] = job[j].bytes[1]]
            /\ job' = [job EXCEPT ![j].k = @ + 1, ![j].pc = IF job[j].k = Pieces THEN "chmod" ELSE @]
    /\ UNCHANGED <<archive, tmp, plain, cached, mixed, node, exe, unrunnable>>

\* set_permissions, by name.
SetPermissions(j) ==
    /\ At(j, "chmod")
    /\ IF plain = None THEN Fail(j) ELSE Goto(j, "probe")
    /\ UNCHANGED <<install, node, exe, unrunnable>>

\* Mutant: the binary is not asked, the version that was asked for is the name.
NameRequested(pieces, want, runs) == want

\* extract_version: the binary under the name is run; when it is incomplete or
\* does not run, the version that was asked for stands in.
extract_version(pieces, want, runs) == IF IsWhole(pieces) /\ runs THEN pieces[1] ELSE want

Probe(j) ==
    /\ At(j, "probe")
    /\ LET pieces == IF plain = None THEN Empty ELSE binary[plain]
       IN  \E runs \in BOOLEAN :
              /\ job' = [job EXCEPT ![j].pc = "name",
                                    ![j].name = extract_version(pieces, job[j].want, runs)]
              /\ unrunnable' = (unrunnable \/ (IsWhole(pieces) /\ ~runs))
    /\ UNCHANGED <<install, node, exe>>

\* A file that is cached under this name already is used, and this one removed.
UseCached(j) ==
    /\ At(j, "name")
    /\ IF cached[job[j].name] # None
       THEN plain' = None /\ Goto(j, "resolved")
       ELSE Goto(j, "rename") /\ UNCHANGED plain
    /\ UNCHANGED <<archive, binary, tmp, cached, mixed, node, exe, unrunnable>>

RenameToCached(j) ==
    /\ At(j, "rename")
    /\ IF plain = None THEN Fail(j) /\ UNCHANGED <<plain, cached>>
       ELSE /\ cached' = [cached EXCEPT ![job[j].name] = plain]
            /\ plain' = None
            /\ Goto(j, "resolved")
    /\ UNCHANGED <<archive, binary, tmp, mixed, node, exe, unrunnable>>

\* add_nodes copies the resolved file to the directory of the new node.
CopyToNode(j) ==
    /\ At(j, "resolved")
    /\ node' = [node EXCEPT ![j] = binary[cached[job[j].name]]]
    /\ Goto(j, "added")
    /\ UNCHANGED <<install, exe, unrunnable>>
-----------------------------------------------------------------------------
(* ant update *)

\* The newest of the listed releases that is no draft and no pre-release.
fetch_latest_cli_version == Max(Version \ Pre)

\* Whether it is newer than the ant that runs.
check_for_update(current) == fetch_latest_cli_version > current

\* ant update: with --force, a version that is not newer is installed too.
execute(j, force) ==
    /\ At(j, "start")
    /\ Goto(j, IF check_for_update(exe.ver) \/ force THEN "fetch" ELSE "updated")
    /\ UNCHANGED <<install, node, exe, unrunnable>>

\* download_archive and download_bytes, into a directory of its own.
download_archive(j) ==
    /\ At(j, "fetch")
    /\ \E got \in Served : job' = [job EXCEPT ![j].pc = "verify", ![j].got = got]
    /\ UNCHANGED <<install, node, exe, unrunnable>>

\* Mutant: the signature is not looked at.
verify_nothing(got) == TRUE

verify_signature(got) == got.signed

\* A binary that tells its version tells the expected one.
VersionMatches(got, runs) == runs => got.ver = fetch_latest_cli_version

\* perform_update: the signature, the extraction, the version.
VerifyUpdate(j) ==
    /\ At(j, "verify")
    /\ \E runs \in BOOLEAN :
          /\ Goto(j, IF verify_signature(job[j].got) /\ VersionMatches(job[j].got, runs)
                     THEN "replace" ELSE "failed")
          /\ unrunnable' = (unrunnable \/ ~runs)
    /\ UNCHANGED <<install, node, exe>>

\* self_replace renames the new file over the old one.
replace_binary(j) ==
    /\ At(j, "replace")
    /\ exe' = job[j].got
    /\ Goto(j, "updated")
    /\ UNCHANGED <<install, node, unrunnable>>
-----------------------------------------------------------------------------
JobStep(j) ==
    \/ resolve_local(j) \/ resolve_latest(j) \/ resolve_url(j)
    \/ \E v \in Version : resolve_version(j, v)
    \/ CreateTemp(j) \/ WritePiece(j) \/ ReadTemp(j) \/ RemoveTemp(j)
    \/ ExtractCreate(j) \/ ExtractFill(j) \/ SetPermissions(j) \/ Probe(j)
    \/ UseCached(j) \/ RenameToCached(j) \/ CopyToNode(j)
    \/ \E force \in BOOLEAN : execute(j, force)
    \/ download_archive(j) \/ VerifyUpdate(j) \/ replace_binary(j)

Next == \E j \in Job : JobStep(j) \/ GivesUp(j)

Spec == Init /\ [][Next]_vars
-----------------------------------------------------------------------------
TypeOK ==
    /\ \A j \in Job : /\ job[j].want \in Name /\ job[j].name \in Name
                      /\ job[j].fd \in File /\ job[j].got \in Served
    /\ archive \in [Job -> [1 .. Pieces -> 0 .. MaxVersion]]
    /\ binary \in [Job -> [1 .. Pieces -> 0 .. MaxVersion]]
    /\ tmp \in File /\ plain \in File /\ cached \in [Name -> File]
    /\ exe \in Served

\* A cached file is a complete binary, and of the version in its name while
\* binaries tell their version, whatever downloads were mixed in the shared
\* temporary file, failed or died half-way; and what a new node got from it is
\* complete.  A file written by extractions that overlapped is excepted, and only
\* that one: what is extracted later is complete again (download_and_extract,
\* add_nodes).
CacheHonest ==
    /\ \A n \in Name : cached[n] \notin mixed \cup {None} =>
          /\ IsWhole(binary[cached[n]])
          /\ n \in Version /\ ~unrunnable => binary[cached[n]] = Whole(n)
    /\ \A j \in Job : node[j] # Empty /\ cached[job[j].name] \notin mixed => IsWhole(node[j])

\* ant stays a signed release, and when binaries tell their version it is the
\* one it was or the newest: a signed archive of another version is refused too
\* (perform_update).
CliIsRelease ==
    /\ exe.signed
    /\ ~unrunnable => exe.ver \in {1, fetch_latest_cli_version}
=============================================================================
