------------------------- MODULE BinaryInstallProofs -------------------------
(***************************************************************************)
(* The cache of node binaries and the executable of ant, for any number of *)
(* concurrent requests, versions and pieces of a file.                     *)
(***************************************************************************)
EXTENDS BinaryInstall, WellFoundedInduction, TLAPS

\* Where a request may be, those that have not extracted anything first.
Before == {"start", "request", "download", "read", "remove", "extract"}
Place == Before \cup {"fill", "chmod", "probe", "name", "rename", "resolved", "added", "fetch", "verify",
                      "replace", "updated", "failed"}
Content == [1 .. Pieces -> 0 .. MaxVersion]

JobType == [pc : Place, want : Name, fd : File, k : Nat, sent : 0 .. MaxVersion, bytes : Content,
            name : Name, got : Served]

TypeInv ==
    /\ job \in [Job -> JobType]
    /\ archive \in [Job -> Content] /\ binary \in [Job -> Content]
    /\ tmp \in File /\ plain \in File /\ cached \in [Name -> File]
    /\ node \in [Job -> Content]
    /\ exe \in Served
    /\ mixed \subseteq File /\ unrunnable \in BOOLEAN

\* What was resolved is cached: no step removes a cached file.
Resolved == \A j \in Job : At(j, "resolved") => cached[job[j].name] # None

\* An inode is created by the extraction of its request, and is under one name.
Fresh == \A j \in Job : job[j].pc \in Before => plain # j /\ \A n \in Name : cached[n] # j
Apart == plain # None => \A n \in Name : cached[n] # plain

\* What a request copied to a node is cached, and it does nothing more.
Copied == \A j \in Job : node[j] # Empty => At(j, "added") /\ cached[job[j].name] # None

\* An extraction whose file is not mixed is the only one under way and works on
\* the file at ant-node, and what it has written belongs to one version; under
\* the name it is about to take is nothing.  While another one is under way, only
\* a mixed file is at ant-node.
Alone(j) == \A i \in Job : Extracting(i) => i = j
Filled(j) ==
    /\ plain = job[j].fd /\ plain # None /\ job[j].bytes[1] \in Version
    /\ At(j, "fill") => /\ job[j].k \in 1 .. Pieces
                        /\ \A i \in 1 .. job[j].k - 1 : binary[plain][i] = job[j].bytes[1]
    /\ ~At(j, "fill") => binary[plain] = Whole(job[j].bytes[1])
    /\ job[j].pc \in {"name", "rename"} /\ ~unrunnable => job[j].name = job[j].bytes[1]
    /\ At(j, "rename") => cached[job[j].name] = None
ExtractInv ==
    \A j \in Job : Extracting(j) =>
        IF job[j].fd \in mixed THEN plain \in mixed \cup {None} ELSE Alone(j) /\ Filled(j)

HonestInv ==
    /\ \A n \in Name : cached[n] \notin mixed \cup {None} =>
          /\ IsWhole(binary[cached[n]])
          /\ ~unrunnable => n \in Version /\ binary[cached[n]] = Whole(n)
    /\ \A j \in Job : node[j] # Empty /\ cached[job[j].name] \notin mixed => IsWhole(node[j])

CacheInv == TypeInv /\ Resolved /\ Copied /\ Fresh /\ Apart /\ ExtractInv /\ HonestInv
-----------------------------------------------------------------------------
\* There is a latest release: the installed ant is one.
LEMMA LatestExists == Max(Version \ Pre) \in Version
<1> DEFINE T == {MaxVersion - v : v \in Version \ Pre}
<1>1. 1 \in Version \ Pre
  BY SizeAssumption, PreAssumption DEF Version
<1>2. T \subseteq Nat /\ T # {}
  BY <1>1, SizeAssumption DEF Version
<1>3. PICK x \in T : \A y \in T : ~(<<y, x>> \in OpToRel(<, Nat))
  BY <1>2, WFMin, NatLessThanWellFounded
<1>4. \A y \in T : ~(y < x)
  BY <1>2, <1>3 DEF OpToRel
<1>5. PICK v \in Version \ Pre : x = MaxVersion - v
  OBVIOUS
<1>6. ASSUME NEW w \in Version \ Pre PROVE v >= w
  <2>1. MaxVersion - w \in T
    OBVIOUS
  <2>2. ~(MaxVersion - w < MaxVersion - v)
    BY <1>4, <1>5, <2>1
  <2>3. v \in Int /\ w \in Int /\ MaxVersion \in Int
    BY <1>5, SizeAssumption DEF Version
  <2> QED
    BY <2>2, <2>3
<1> QED
  BY <1>5, <1>6 DEF Max

LEMMA ContentType == Empty \in Content /\ \A v \in 0 .. MaxVersion : Whole(v) \in Content
BY SizeAssumption DEF Empty, Whole, Content

\* Every file has pieces of versions, every request knows names and versions.
LEMMA InitType == Init => TypeInv
<1> SUFFICES ASSUME Init PROVE TypeInv
  OBVIOUS
<1>1. [ver |-> 1, signed |-> TRUE] \in Served
  BY SizeAssumption DEF Served, Version
<1>2. Start \in JobType
  BY <1>1, ContentType, SizeAssumption DEF Start, JobType, Place, Before, Name, Unknown, File
<1> QED
  BY <1>1, <1>2, ContentType DEF Init, TypeInv, File

\* One request changes; the others stay.
LEMMA JobUpdate ==
    ASSUME TypeInv, NEW j \in Job, NEW r \in JobType, job' = [job EXCEPT ![j] = r]
    PROVE  /\ job' \in [Job -> JobType] /\ job'[j] = r
           /\ \A i \in Job \ {j} : job'[i] = job[i]
BY DEF TypeInv

\* A request that only moves on keeps its type.
LEMMA GotoType ==
    ASSUME TypeInv, NEW j \in Job, NEW pc \in Place, Goto(j, pc)
    PROVE  /\ job' \in [Job -> JobType] /\ job'[j] = [job[j] EXCEPT !.pc = pc]
           /\ \A i \in Job \ {j} : job'[i] = job[i]
<1>1. job[j] \in JobType
  BY DEF TypeInv
<1>2. [job[j] EXCEPT !.pc = pc] \in JobType
  BY <1>1 DEF JobType
<1>3. job' = [job EXCEPT ![j] = [job[j] EXCEPT !.pc = pc]]
  BY DEF Goto
<1> QED
  BY <1>2, <1>3, JobUpdate

LEMMA ResolveType ==
    ASSUME TypeInv, NEW j \in Job, NEW v \in Version, resolve_version(j, v)
    PROVE  TypeInv'
<1>1. job' = [job EXCEPT ![j] = [job[j] EXCEPT !.want = v, !.name = v,
                                               !.pc = IF cached[v] # None THEN "resolved" ELSE "request"]]
  BY DEF resolve_version
<1>2. job' \in [Job -> JobType]
  <2>1. PICK pc \in Place : pc = IF cached[v] # None THEN "resolved" ELSE "request"
    BY DEF Place, Before
  <2>2. job[j] \in JobType /\ v \in Name
    BY DEF TypeInv, Name
  <2>3. [job[j] EXCEPT !.want = v, !.name = v, !.pc = pc] \in JobType
    BY <2>2 DEF JobType
  <2> QED
    BY <1>1, <2>1, <2>3, JobUpdate
<1> QED
  BY <1>2 DEF resolve_version, install, TypeInv

LEMMA DownloadType ==
    ASSUME TypeInv, NEW j \in Job,
           resolve_url(j) \/ CreateTemp(j) \/ WritePiece(j) \/ ReadTemp(j) \/ RemoveTemp(j)
    PROVE  TypeInv'
<1>1. CASE resolve_url(j)
  <2>1. job' \in [Job -> JobType]
    <3>1. job[j] \in JobType /\ Unknown \in Name /\ "request" \in Place
      BY DEF TypeInv, Name, Place, Before
    <3>2. [job[j] EXCEPT !.want = Unknown, !.pc = "request"] \in JobType
      BY <3>1 DEF JobType
    <3>3. job' = [job EXCEPT ![j] = [job[j] EXCEPT !.want = Unknown, !.pc = "request"]]
      BY <1>1 DEF resolve_url
    <3> QED
      BY <3>2, <3>3, JobUpdate
  <2> QED
    BY <1>1, <2>1 DEF resolve_url, install, TypeInv
<1>2. CASE CreateTemp(j)
  <2> DEFINE f == Opened(tmp, j)
  <2>1. f \in File
    BY DEF TypeInv, File, Opened
  <2> HIDE DEF f
  <2>2. job' \in [Job -> JobType]
    <3>1. job[j] \in JobType /\ "download" \in Place
      BY DEF TypeInv, Place, Before
    <3>2. [job[j] EXCEPT !.pc = "download", !.fd = f, !.k = 1] \in JobType
      BY <2>1, <3>1 DEF JobType
    <3>3. job' = [job EXCEPT ![j] = [job[j] EXCEPT !.pc = "download", !.fd = f, !.k = 1]]
      BY <1>2 DEF CreateTemp, f
    <3> QED
      BY <3>2, <3>3, JobUpdate
  <2>3. archive' \in [Job -> Content]
    BY <1>2, ContentType DEF CreateTemp, TypeInv, f
  <2> QED
    BY <1>2, <2>1, <2>2, <2>3 DEF CreateTemp, TypeInv, f
<1>3. CASE WritePiece(j)
  <2>1. PICK v \in IF job[j].k = 1 THEN Sent(j) ELSE {job[j].sent} :
          /\ archive' = [archive EXCEPT ![job[j].fd] = [archive[job[j].fd] EXCEPT ![job[j].k] = v]]
          /\ job' = [job EXCEPT ![j] = [job[j] EXCEPT !.sent = v, !.k = job[j].k + 1,
                                                      !.pc = IF job[j].k = Pieces THEN "read" ELSE job[j].pc]]
    BY <1>3 DEF WritePiece
  <2>2. v \in 0 .. MaxVersion
    BY <2>1, SizeAssumption DEF TypeInv, JobType, Sent, Name, Version, Unknown
  <2>3. job' \in [Job -> JobType]
    <3>1. job[j] \in JobType /\ job[j].k \in Nat /\ job[j].pc \in Place
      BY DEF TypeInv, JobType
    <3>2. PICK pc \in Place : pc = IF job[j].k = Pieces THEN "read" ELSE job[j].pc
      BY <3>1 DEF Place, Before
    <3>3. PICK k \in Nat : k = job[j].k + 1
      BY <3>1
    <3>4. [job[j] EXCEPT !.sent = v, !.k = k, !.pc = pc] \in JobType
      BY <2>2, <3>1 DEF JobType
    <3> QED
      BY <2>1, <3>2, <3>3, <3>4, JobUpdate
  <2>4. archive' \in [Job -> Content]
    BY <2>1, <2>2 DEF TypeInv, Content
  <2> QED
    BY <1>3, <2>3, <2>4 DEF WritePiece, TypeInv
<1>4. CASE ReadTemp(j)
  <2>1. job' \in [Job -> JobType]
    <3>1. CASE Fail(j)
      BY <3>1, GotoType DEF Fail, Place
    <3>2. CASE tmp # None /\ job' = [job EXCEPT ![j].pc = "remove", ![j].bytes = archive[tmp]]
      <4>1. archive[tmp] \in Content
        BY <3>2 DEF TypeInv, File
      <4> QED
        <5>1. job[j] \in JobType /\ "remove" \in Place
          BY DEF TypeInv, Place, Before
        <5>2. [job[j] EXCEPT !.pc = "remove", !.bytes = archive[tmp]] \in JobType
          BY <4>1, <5>1 DEF JobType
        <5>3. job' = [job EXCEPT ![j] = [job[j] EXCEPT !.pc = "remove", !.bytes = archive[tmp]]]
          BY <3>2
        <5> QED
          BY <5>2, <5>3, JobUpdate
    <3> QED
      BY <1>4, <3>1, <3>2 DEF ReadTemp
  <2> QED
    BY <1>4, <2>1 DEF ReadTemp, install, TypeInv
<1>5. CASE RemoveTemp(j)
  BY <1>5, GotoType DEF RemoveTemp, TypeInv, File, Place, Before
<1> QED
  BY <1>1, <1>2, <1>3, <1>4, <1>5

LEMMA ExtractType ==
    ASSUME TypeInv, NEW j \in Job,
           ExtractCreate(j) \/ ExtractFill(j) \/ Probe(j) \/ UseCached(j) \/ RenameToCached(j)
    PROVE  TypeInv'
<1>1. CASE ExtractCreate(j)
  <2> DEFINE f == Opened(plain, j)
  <2>1. f \in File
    BY DEF TypeInv, File, Opened
  <2>2. CASE Fail(j) /\ UNCHANGED <<plain, binary, mixed>>
    BY <1>1, <2>2, GotoType DEF ExtractCreate, Fail, Place, TypeInv
  <2>3. CASE /\ plain' = f /\ binary' = [binary EXCEPT ![f] = Empty]
             /\ mixed' = Mixing(f, {i \in Job \ {j} : Extracting(i)})
             /\ job' = [job EXCEPT ![j].pc = "fill", ![j].fd = f, ![j].k = 1]
    <3> HIDE DEF f
    <3>1. job' \in [Job -> JobType]
      <4>1. job[j] \in JobType /\ "fill" \in Place
        BY DEF TypeInv, Place
      <4>2. [job[j] EXCEPT !.pc = "fill", !.fd = f, !.k = 1] \in JobType
        BY <2>1, <4>1 DEF JobType
      <4>3. job' = [job EXCEPT ![j] = [job[j] EXCEPT !.pc = "fill", !.fd = f, !.k = 1]]
        BY <2>3
      <4> QED
        BY <4>2, <4>3, JobUpdate
    <3>2. binary' \in [Job -> Content] /\ mixed' \subseteq File
      <4>1. \A i \in Job : job[i].fd \in File
        BY DEF TypeInv, JobType
      <4> QED
        BY <2>1, <2>3, <4>1, ContentType DEF TypeInv, Mixing
    <3> QED
      BY <1>1, <2>1, <2>3, <3>1, <3>2 DEF ExtractCreate, TypeInv
  <2> QED
    BY <1>1, <2>2, <2>3 DEF ExtractCreate
<1>2. CASE ExtractFill(j)
  <2>1. CASE Fail(j) /\ UNCHANGED binary
    BY <1>2, <2>1, GotoType DEF ExtractFill, Fail, Place, TypeInv
  <2>2. CASE /\ binary' = [binary EXCEPT ![job[j].fd][job[j].k] = job[j].bytes[1]]
             /\ job' = [job EXCEPT ![j].k = @ + 1, ![j].pc = IF job[j].k = Pieces THEN "chmod" ELSE @]
    <3>1. job' \in [Job -> JobType]
      <4>1. job[j] \in JobType /\ job[j].k \in Nat /\ job[j].pc \in Place
        BY DEF TypeInv, JobType
      <4>2. PICK pc \in Place : pc = IF job[j].k = Pieces THEN "chmod" ELSE job[j].pc
        BY <4>1 DEF Place
      <4>3. PICK k \in Nat : k = job[j].k + 1
        BY <4>1
      <4>4. [job[j] EXCEPT !.k = k, !.pc = pc] \in JobType
        BY <4>1 DEF JobType
      <4>5. job' = [job EXCEPT ![j] = [job[j] EXCEPT !.k = k, !.pc = pc]]
        BY <2>2, <4>2, <4>3
      <4> QED
        BY <4>4, <4>5, JobUpdate
    <3>2. job[j].bytes[1] \in 0 .. MaxVersion
      BY SizeAssumption DEF TypeInv, JobType, Content
    <3>3. binary' \in [Job -> Content]
      BY <2>2, <3>2 DEF TypeInv, Content
    <3> QED
      BY <1>2, <3>1, <3>3 DEF ExtractFill, TypeInv
  <2> QED
    BY <1>2, <2>1, <2>2 DEF ExtractFill
<1>3. CASE Probe(j)
  <2> DEFINE pieces == IF plain = None THEN Empty ELSE binary[plain]
  <2>1. pieces \in Content
    BY ContentType DEF TypeInv, File
  <2> HIDE DEF pieces
  <2>2. PICK runs \in BOOLEAN :
          /\ job' = [job EXCEPT ![j].pc = "name", ![j].name = extract_version(pieces, job[j].want, runs)]
          /\ unrunnable' = (unrunnable \/ (IsWhole(pieces) /\ ~runs))
    BY <1>3 DEF Probe, pieces
  <2>3. extract_version(pieces, job[j].want, runs) \in Name
    <3>1. IsWhole(pieces) => pieces[1] \in Version
      BY SizeAssumption DEF IsWhole, Whole
    <3> QED
      BY <3>1 DEF extract_version, TypeInv, JobType, Name
  <2>4. job' \in [Job -> JobType]
    <3>1. job[j] \in JobType /\ "name" \in Place
      BY DEF TypeInv, Place
    <3>2. PICK n \in Name : n = extract_version(pieces, job[j].want, runs)
      BY <2>3
    <3>3. [job[j] EXCEPT !.pc = "name", !.name = n] \in JobType
      BY <3>1 DEF JobType
    <3>4. job' = [job EXCEPT ![j] = [job[j] EXCEPT !.pc = "name", !.name = n]]
      BY <2>2, <3>2
    <3> QED
      BY <3>3, <3>4, JobUpdate
  <2>5. unrunnable' \in BOOLEAN
    BY <2>2
  <2> QED
    BY <1>3, <2>4, <2>5 DEF Probe, install, TypeInv
<1>4. CASE UseCached(j)
  BY <1>4, GotoType DEF UseCached, TypeInv, File, Place
<1>5. CASE RenameToCached(j)
  <2>1. job' \in [Job -> JobType]
    BY <1>5, GotoType DEF RenameToCached, Fail, Place
  <2>2. plain' \in File /\ cached' \in [Name -> File]
    BY <1>5 DEF RenameToCached, TypeInv, File
  <2> QED
    BY <1>5, <2>1, <2>2 DEF RenameToCached, TypeInv
<1> QED
  BY <1>1, <1>2, <1>3, <1>4, <1>5

LEMMA UpdateType ==
    ASSUME TypeInv, NEW j \in Job,
           (\E force \in BOOLEAN : execute(j, force)) \/ download_archive(j) \/ VerifyUpdate(j) \/ replace_binary(j)
    PROVE  TypeInv'
<1>1. CASE \E force \in BOOLEAN : execute(j, force)
  <2>1. PICK force \in BOOLEAN : execute(j, force)
    BY <1>1
  <2>2. PICK pc \in Place : pc = IF check_for_update(exe.ver) \/ force THEN "fetch" ELSE "updated"
    BY DEF Place
  <2>3. Goto(j, pc)
    BY <2>1, <2>2 DEF execute
  <2> QED
    BY <2>1, <2>3, GotoType DEF execute, install, TypeInv
<1>2. CASE download_archive(j)
  <2>1. PICK got \in Served : job' = [job EXCEPT ![j] = [job[j] EXCEPT !.pc = "verify", !.got = got]]
    BY <1>2 DEF download_archive
  <2>2. job[j] \in JobType /\ "verify" \in Place
    BY DEF TypeInv, Place
  <2>3. [job[j] EXCEPT !.pc = "verify", !.got = got] \in JobType
    BY <2>2 DEF JobType
  <2>4. job' \in [Job -> JobType]
    BY <2>1, <2>3, JobUpdate
  <2> QED
    BY <1>2, <2>4 DEF download_archive, install, TypeInv
<1>3. CASE VerifyUpdate(j)
  <2>1. PICK runs \in BOOLEAN :
          /\ Goto(j, IF verify_signature(job[j].got) /\ VersionMatches(job[j].got, runs)
                     THEN "replace" ELSE "failed")
          /\ unrunnable' = (unrunnable \/ ~runs)
    BY <1>3 DEF VerifyUpdate
  <2>2. PICK pc \in Place : pc = IF verify_signature(job[j].got) /\ VersionMatches(job[j].got, runs)
                                 THEN "replace" ELSE "failed"
    BY DEF Place
  <2>3. Goto(j, pc)
    BY <2>1, <2>2
  <2>4. unrunnable' \in BOOLEAN
    BY <2>1
  <2> QED
    BY <1>3, <2>3, <2>4, GotoType DEF VerifyUpdate, install, TypeInv
<1>4. CASE replace_binary(j)
  <2>1. job' \in [Job -> JobType]
    BY <1>4, GotoType DEF replace_binary, Place
  <2>2. exe' \in Served
    BY <1>4 DEF replace_binary, TypeInv, JobType
  <2> QED
    BY <1>4, <2>1, <2>2 DEF replace_binary, install, TypeInv
<1> QED
  BY <1>1, <1>2, <1>3, <1>4

LEMMA NextType ==
    ASSUME TypeInv, Resolved, NEW j \in Job, JobStep(j) \/ GivesUp(j)
    PROVE  TypeInv'
<1>1. CASE resolve_local(j) \/ SetPermissions(j) \/ GivesUp(j)
  <2>1. PICK pc \in Place : Goto(j, pc)
    BY <1>1 DEF resolve_local, SetPermissions, GivesUp, Fail, Place
  <2> QED
    BY <1>1, <2>1, GotoType DEF resolve_local, SetPermissions, GivesUp, install, TypeInv
<1>2. CASE resolve_latest(j)
  BY <1>2, LatestExists, ResolveType DEF resolve_latest, fetch_latest_version
<1>3. CASE CopyToNode(j)
  <2>1. job' \in [Job -> JobType]
    BY <1>3, GotoType DEF CopyToNode, Place
  <2>2. job[j].name \in Name /\ cached[job[j].name] \in Job
    BY <1>3 DEF CopyToNode, Resolved, TypeInv, JobType, File
  <2>3. node' \in [Job -> Content]
    BY <1>3, <2>2 DEF CopyToNode, TypeInv
  <2> QED
    BY <1>3, <2>1, <2>3 DEF CopyToNode, install, TypeInv
<1> QED
  BY <1>1, <1>2, <1>3, ResolveType, DownloadType, ExtractType, UpdateType DEF JobStep
-----------------------------------------------------------------------------
\* Steps of a request that extracts and resolves nothing leave the files alone.
LEMMA QuietStep ==
    ASSUME CacheInv, TypeInv', NEW j \in Job,
           \A i \in Job \ {j} : job'[i] = job[i], job[j].pc # "added",
           ~Extracting(j)', job'[j].pc # "resolved",
           job'[j].pc \in Before => job[j].pc \in Before,
           UNCHANGED <<binary, plain, cached, mixed, node>>,
           unrunnable => unrunnable'
    PROVE  CacheInv'
<1>1. Resolved' /\ Copied'
  BY DEF CacheInv, Resolved, Copied, At
<1>2. Fresh' /\ Apart'
  BY DEF CacheInv, Fresh, Apart
<1>3. ExtractInv'
  <2>1. \A i \in Job : Extracting(i)' => i # j /\ Extracting(i)
    BY DEF Extracting
  <2>2. \A i \in Job : Extracting(i)' /\ Alone(i) => Alone(i)'
    BY <2>1 DEF Alone
  <2>3. \A i \in Job : Extracting(i)' /\ Filled(i) => Filled(i)'
    BY <2>1 DEF Filled, At
  <2> QED
    BY <2>1, <2>2, <2>3 DEF CacheInv, ExtractInv
<1>4. HonestInv'
  BY DEF CacheInv, HonestInv, Copied, At
<1> QED
  BY <1>1, <1>2, <1>3, <1>4 DEF CacheInv

LEMMA QuietActions ==
    ASSUME CacheInv, TypeInv', NEW j \in Job,
           \/ resolve_local(j) \/ resolve_url(j) \/ GivesUp(j) \/ CreateTemp(j) \/ WritePiece(j)
           \/ ReadTemp(j) \/ RemoveTemp(j)
           \/ (\E force \in BOOLEAN : execute(j, force)) \/ download_archive(j) \/ VerifyUpdate(j)
           \/ replace_binary(j)
    PROVE  CacheInv'
<1>1. job \in [Job -> JobType]
  BY DEF CacheInv, TypeInv
<1>2. \A i \in Job \ {j} : job'[i] = job[i]
  BY <1>1 DEF resolve_local, resolve_url, GivesUp, Fail, Goto, CreateTemp, WritePiece, ReadTemp, RemoveTemp,
              execute, download_archive, VerifyUpdate, replace_binary
<1>3. UNCHANGED <<binary, plain, cached, mixed, node>>
  BY DEF resolve_local, resolve_url, GivesUp, CreateTemp, WritePiece, ReadTemp, RemoveTemp,
         execute, download_archive, VerifyUpdate, replace_binary, install
<1>4. unrunnable => unrunnable'
  BY DEF resolve_local, resolve_url, GivesUp, CreateTemp, WritePiece, ReadTemp, RemoveTemp,
         execute, download_archive, VerifyUpdate, replace_binary
<1>5. /\ job'[j].pc \in {"request", "download", "read", "remove", "extract", "added", "fetch", "verify",
                         "replace", "updated", "failed"}
      /\ job'[j].pc \in Before => job[j].pc \in Before
  <2>1. CASE resolve_local(j) \/ GivesUp(j) \/ RemoveTemp(j) \/ replace_binary(j)
    BY <1>1, <2>1 DEF JobType, resolve_local, GivesUp, RemoveTemp, replace_binary, Fail, Goto, At, Before
  <2>2. CASE resolve_url(j) \/ CreateTemp(j)
    BY <1>1, <2>2 DEF JobType, resolve_url, CreateTemp, At, Before
  <2>3. CASE WritePiece(j)
    <3>1. job[j].pc = "download" /\ job[j] \in JobType
      BY <1>1, <2>3 DEF WritePiece, At
    <3>2. PICK v : job' = [job EXCEPT ![j] = [job[j] EXCEPT !.sent = v, !.k = job[j].k + 1,
                                                            !.pc = IF job[j].k = Pieces THEN "read" ELSE job[j].pc]]
      BY <2>3 DEF WritePiece
    <3>3. PICK k, pc : k = job[j].k + 1 /\ pc = IF job[j].k = Pieces THEN "read" ELSE job[j].pc
      OBVIOUS
    <3>4. job'[j] = [job[j] EXCEPT !.sent = v, !.k = k, !.pc = pc]
      BY <1>1, <3>2, <3>3
    <3>5. job'[j].pc = pc
      BY <3>1, <3>4 DEF JobType
    <3> QED
      BY <3>1, <3>3, <3>5 DEF Before
  <2>4. CASE ReadTemp(j)
    BY <1>1, <2>4 DEF JobType, ReadTemp, Fail, Goto, At, Before
  <2>5. CASE (\E force \in BOOLEAN : execute(j, force)) \/ VerifyUpdate(j)
    <3>1. PICK pc \in {"fetch", "updated", "replace", "failed"} : Goto(j, pc)
      <4>1. CASE \E force \in BOOLEAN : execute(j, force)
        BY <4>1 DEF execute
      <4>2. CASE VerifyUpdate(j)
        BY <4>2 DEF VerifyUpdate
      <4> QED
        BY <2>5, <4>1, <4>2
    <3> QED
      BY <1>1, <3>1 DEF JobType, Goto, Before
  <2>6. CASE download_archive(j)
    BY <1>1, <2>6 DEF JobType, download_archive, At, Before
  <2> QED
    BY <2>1, <2>2, <2>3, <2>4, <2>5, <2>6
<1>6. ~Extracting(j)' /\ job'[j].pc # "resolved" /\ job[j].pc # "added"
  BY <1>5 DEF Extracting, resolve_local, resolve_url, GivesUp, Active, CreateTemp, WritePiece, ReadTemp, RemoveTemp,
              execute, download_archive, VerifyUpdate, replace_binary, At
<1> QED
  BY <1>2, <1>3, <1>4, <1>5, <1>6, QuietStep

\* A version that is cached is resolved at once.
LEMMA ResolveStep ==
    ASSUME CacheInv, TypeInv', NEW j \in Job, NEW v \in Version, resolve_version(j, v)
    PROVE  CacheInv'
<1>1. job \in [Job -> JobType]
  BY DEF CacheInv, TypeInv
<1>2. /\ \A i \in Job \ {j} : job'[i] = job[i]
      /\ job'[j].name = v /\ job'[j].pc = IF cached[v] # None THEN "resolved" ELSE "request"
      /\ job[j].pc = "start"
      /\ UNCHANGED <<binary, plain, cached, mixed, node, unrunnable>>
  BY <1>1 DEF resolve_version, install, JobType, At
<1>3. CASE cached[v] = None
  <2>1. ~Extracting(j)' /\ job'[j].pc # "resolved" /\ (job'[j].pc \in Before => job[j].pc \in Before)
    BY <1>2, <1>3 DEF Extracting, Before
  <2> QED
    BY <1>2, <2>1, QuietStep
<1>4. CASE cached[v] # None
  <2>1. Resolved' /\ Copied'
    BY <1>2, <1>4 DEF CacheInv, Resolved, Copied, At
  <2>2. Fresh' /\ Apart'
    BY <1>2, <1>4 DEF CacheInv, Fresh, Apart, Before
  <2>3. ExtractInv'
    <3>1. \A i \in Job : Extracting(i)' => i # j /\ Extracting(i)
      BY <1>2, <1>4 DEF Extracting
    <3>2. \A i \in Job : Extracting(i)' /\ Alone(i) => Alone(i)'
      BY <3>1 DEF Alone
    <3>3. \A i \in Job : Extracting(i)' /\ Filled(i) => Filled(i)'
      BY <1>2, <3>1 DEF Filled, At
    <3> QED
      BY <1>2, <3>1, <3>2, <3>3 DEF CacheInv, ExtractInv
  <2>4. HonestInv'
    BY <1>2 DEF CacheInv, HonestInv, Copied, At
  <2> QED
    BY <2>1, <2>2, <2>3, <2>4 DEF CacheInv
<1> QED
  BY <1>3, <1>4

\* The extraction creates its file, or truncates the one at ant-node: no cached
\* file is at that name.
LEMMA CreateStep ==
    ASSUME CacheInv, TypeInv', NEW j \in Job, ExtractCreate(j)
    PROVE  CacheInv'
<1>1. job \in [Job -> JobType]
  BY DEF CacheInv, TypeInv
<1>2. CASE Fail(j) /\ UNCHANGED <<plain, binary, mixed>>
  <2>1. \A i \in Job \ {j} : job'[i] = job[i]
    BY <1>1, <1>2 DEF Fail, Goto
  <2>2. job'[j].pc = "failed"
    BY <1>1, <1>2 DEF Fail, Goto, JobType
  <2>3. ~Extracting(j)' /\ job'[j].pc # "resolved" /\ (job'[j].pc \in Before => job[j].pc \in Before)
    BY <2>2 DEF Extracting, Before
  <2> QED
    BY <1>2, <2>1, <2>3, QuietStep DEF ExtractCreate, At
<1>3. ASSUME NEW f, f = Opened(plain, j), plain' = f, binary' = [binary EXCEPT ![f] = Empty],
             job[j].bytes[1] # 0,
             job' = [job EXCEPT ![j].pc = "fill", ![j].fd = f, ![j].k = 1],
             mixed' = Mixing(f, {i \in Job \ {j} : Extracting(i)})
      PROVE  CacheInv'
  <2>1. /\ \A i \in Job \ {j} : job'[i] = job[i]
        /\ job'[j].pc = "fill" /\ job'[j].fd = f /\ job'[j].k = 1 /\ job'[j].bytes = job[j].bytes
        /\ job[j].pc = "extract" /\ UNCHANGED <<cached, node, unrunnable>>
    BY <1>1, <1>3 DEF JobType, ExtractCreate, At
  <2>2. f \in Job /\ (f = plain \/ f = j) /\ \A n \in Name : cached[n] # f
    BY <1>3, <2>1, JobAssumption DEF Opened, CacheInv, TypeInv, File, None, Fresh, Apart, Before
  <2>3. Resolved' /\ Copied' /\ job[j].bytes[1] \in Version
    <3>1. job[j].bytes[1] # 0
      BY <1>3
    <3>2. job[j].bytes[1] \in Version
      BY <1>1, <3>1, SizeAssumption DEF JobType, Content, Version
    <3> QED
      BY <2>1, <3>2 DEF CacheInv, Resolved, Copied, At
  <2>4. Fresh' /\ Apart'
    BY <1>3, <2>1, <2>2 DEF CacheInv, Fresh, Apart, Before
  <2>5. ExtractInv'
    <3> DEFINE others == {i \in Job \ {j} : Extracting(i)}
    <3>1. CASE others = {}
      <4>1. \A i \in Job : Extracting(i)' => i = j
        <5>1. ASSUME NEW i \in Job \ {j}, Extracting(i) PROVE FALSE
          <6>1. i \in others
            BY <5>1
          <6> QED
            BY <3>1, <6>1
        <5>2. \A i \in Job \ {j} : Extracting(i)' => Extracting(i)
          BY <2>1 DEF Extracting
        <5> QED
          BY <5>1, <5>2
      <4>3. Filled(j)'
        <5>1. job'[j].k \in 1 .. Pieces /\ 1 .. job'[j].k - 1 = {}
          BY <2>1, SizeAssumption
        <5>2. plain' = job'[j].fd /\ plain' # None /\ job'[j].bytes[1] \in Version /\ job'[j].pc = "fill"
          BY <1>3, <2>1, <2>2, <2>3, JobAssumption DEF None
        <5> QED
          BY <5>1, <5>2 DEF Filled, At
      <4>4. job'[j].fd \notin mixed'
        BY <1>3, <2>1, <3>1 DEF Mixing
      <4>5. Alone(j)'
        BY <4>1 DEF Alone
      <4> QED
        BY <4>1, <4>3, <4>4, <4>5 DEF ExtractInv
    <3>2. CASE others # {}
      <4>1. mixed' = mixed \cup {f} \cup {job[i].fd : i \in others}
        BY <1>3, <3>2 DEF Mixing
      <4>2. \A i \in Job : Extracting(i)' => job'[i].fd \in mixed'
        BY <2>1, <4>1 DEF Extracting
      <4>3. plain' \in mixed'
        BY <1>3, <4>1
      <4> QED
        BY <4>2, <4>3 DEF ExtractInv
    <3> QED
      BY <3>1, <3>2
  <2>6. HonestInv'
    <3>1. \A n \in Name : cached[n] # None => binary'[cached[n]] = binary[cached[n]]
      BY <1>3, <2>2 DEF CacheInv, TypeInv, File
    <3>2. \A n \in Name : cached[n] \notin mixed' => cached[n] \notin mixed
      BY <1>3, <2>2 DEF Mixing
    <3>3. \A i \in Job : node[i] # Empty => job'[i].name \in Name /\ job'[i].name = job[i].name
      BY <1>1, <2>1 DEF JobType, CacheInv, Copied, At
    <3>4. \A n \in Name : cached'[n] \notin mixed' \cup {None} =>
              /\ IsWhole(binary'[cached'[n]])
              /\ ~unrunnable' => n \in Version /\ binary'[cached'[n]] = Whole(n)
      BY <2>1, <3>1, <3>2 DEF CacheInv, HonestInv
    <3>5. \A i \in Job : node'[i] # Empty /\ cached'[job'[i].name] \notin mixed' => IsWhole(node'[i])
      BY <2>1, <3>2, <3>3 DEF CacheInv, HonestInv
    <3> QED
      BY <3>4, <3>5 DEF HonestInv
  <2> QED
    BY <2>3, <2>4, <2>5, <2>6 DEF CacheInv
<1> QED
  BY <1>2, <1>3 DEF ExtractCreate

\* The lone extraction fills the file at ant-node, which is not cached.
LEMMA FillStep ==
    ASSUME CacheInv, TypeInv', NEW j \in Job, ExtractFill(j)
    PROVE  CacheInv'
<1>1. job \in [Job -> JobType]
  BY DEF CacheInv, TypeInv
<1>2. CASE Fail(j) /\ UNCHANGED binary
  <2>1. \A i \in Job \ {j} : job'[i] = job[i]
    BY <1>1, <1>2 DEF Fail, Goto
  <2>2. job'[j].pc = "failed"
    BY <1>1, <1>2 DEF Fail, Goto, JobType
  <2>3. ~Extracting(j)' /\ job'[j].pc # "resolved" /\ (job'[j].pc \in Before => job[j].pc \in Before)
    BY <2>2 DEF Extracting, Before
  <2> QED
    BY <1>2, <2>1, <2>3, QuietStep DEF ExtractFill, At
<1>3. CASE /\ binary' = [binary EXCEPT ![job[j].fd][job[j].k] = job[j].bytes[1]]
           /\ job' = [job EXCEPT ![j].k = @ + 1, ![j].pc = IF job[j].k = Pieces THEN "chmod" ELSE @]
  <2>1. /\ \A i \in Job \ {j} : job'[i] = job[i]
        /\ job'[j].pc = IF job[j].k = Pieces THEN "chmod" ELSE "fill"
        /\ job'[j].fd = job[j].fd /\ job'[j].k = job[j].k + 1 /\ job'[j].bytes = job[j].bytes
        /\ job'[j].name = job[j].name
        /\ job[j].pc = "fill" /\ UNCHANGED <<plain, cached, mixed, node, unrunnable>>
    BY <1>1, <1>3 DEF JobType, ExtractFill, At
  <2>2. Resolved' /\ Copied'
    BY <2>1 DEF CacheInv, Resolved, Copied, At
  <2>3. Fresh' /\ Apart'
    BY <2>1 DEF CacheInv, Fresh, Apart, Before
  <2>4. Extracting(j)
    BY <2>1 DEF Extracting
  <2>5. CASE job[j].fd \in mixed
    <3>1. \A i \in Job : Extracting(i)' => Extracting(i) /\ job'[i].fd = job[i].fd
      BY <2>1 DEF Extracting
    <3>2. \A i \in Job : Extracting(i) => job[i].fd \in mixed
      BY <2>4, <2>5 DEF CacheInv, ExtractInv, Alone
    <3>3. ExtractInv'
      BY <2>1, <3>1, <3>2 DEF CacheInv, ExtractInv
    <3>4. \A n \in Name : cached[n] \notin mixed => binary'[cached[n]] = binary[cached[n]]
      BY <1>3, <2>5 DEF CacheInv, TypeInv
    <3>5. HonestInv'
      BY <2>1, <3>4 DEF CacheInv, HonestInv
    <3> QED
      BY <2>2, <2>3, <3>3, <3>5 DEF CacheInv
  <2>6. CASE job[j].fd \notin mixed
    <3>1. /\ plain = job[j].fd /\ plain \in Job /\ plain # None
          /\ job[j].k \in 1 .. Pieces /\ job[j].bytes[1] \in Version
          /\ \A i \in 1 .. job[j].k - 1 : binary[plain][i] = job[j].bytes[1]
          /\ Alone(j)
      BY <2>1, <2>4, <2>6 DEF CacheInv, ExtractInv, Filled, At, TypeInv, File
    <3>2. Alone(j)' /\ \A i \in Job : Extracting(i)' => i = j
      BY <2>1, <2>4, <3>1 DEF Extracting, Alone
    <3>3. binary[plain] \in Content
      BY <3>1 DEF CacheInv, TypeInv
    <3>4. binary'[plain] = [binary[plain] EXCEPT ![job[j].k] = job[j].bytes[1]]
      BY <1>3, <2>1, <3>1 DEF CacheInv, TypeInv
    <3>5. \A i \in 1 .. job[j].k : binary'[plain][i] = job[j].bytes[1]
      BY <3>1, <3>3, <3>4, SizeAssumption DEF Content
    <3>6. Filled(j)'
      <4>1. CASE job[j].k = Pieces
        <5>1. binary'[plain] = Whole(job[j].bytes[1])
          BY <3>3, <3>4, <3>5, <4>1 DEF Content, Whole
        <5> QED
          BY <2>1, <3>1, <4>1, <5>1 DEF Filled, At
      <4>2. CASE job[j].k # Pieces
        <5>1. job'[j].k \in 1 .. Pieces /\ job'[j].k - 1 = job[j].k
          BY <2>1, <3>1, <4>2, SizeAssumption
        <5> QED
          BY <2>1, <3>1, <3>5, <4>2, <5>1 DEF Filled, At
      <4> QED
        BY <4>1, <4>2
    <3>7. ExtractInv'
      BY <2>1, <2>6, <3>2, <3>6 DEF ExtractInv
    <3>8. \A n \in Name : cached[n] # None => binary'[cached[n]] = binary[cached[n]]
      BY <1>3, <2>1, <3>1 DEF CacheInv, TypeInv, File, Apart
    <3>9. HonestInv'
      BY <2>1, <3>8 DEF CacheInv, HonestInv
    <3> QED
      BY <2>2, <2>3, <3>7, <3>9 DEF CacheInv
  <2> QED
    BY <2>5, <2>6
<1> QED
  BY <1>2, <1>3 DEF ExtractFill

\* A complete binary gets its permissions, and tells its version.
LEMMA ProbeStep ==
    ASSUME CacheInv, TypeInv', NEW j \in Job, SetPermissions(j) \/ Probe(j)
    PROVE  CacheInv'
<1>1. job \in [Job -> JobType]
  BY DEF CacheInv, TypeInv
<1>2. CASE SetPermissions(j) /\ Fail(j)
  <2>1. \A i \in Job \ {j} : job'[i] = job[i]
    BY <1>1, <1>2 DEF Fail, Goto
  <2>2. job'[j].pc = "failed"
    BY <1>1, <1>2 DEF Fail, Goto, JobType
  <2>3. ~Extracting(j)' /\ job'[j].pc # "resolved" /\ (job'[j].pc \in Before => job[j].pc \in Before)
    BY <2>2 DEF Extracting, Before
  <2> QED
    BY <1>2, <2>1, <2>3, QuietStep DEF SetPermissions, install, At
<1>3. ASSUME NEW pc, NEW n, UNCHANGED <<install, node>>,
             job' = [job EXCEPT ![j] = [job[j] EXCEPT !.pc = pc, !.name = n]],
             \/ pc = "probe" /\ job[j].pc = "chmod"
             \/ pc = "name" /\ job[j].pc = "probe",
             unrunnable => unrunnable',
             job[j].fd \notin mixed /\ pc = "name" /\ ~unrunnable' => n = job[j].bytes[1]
      PROVE  CacheInv'
  <2>1. /\ \A i \in Job \ {j} : job'[i] = job[i]
        /\ job'[j].pc = pc /\ job'[j].name = n
        /\ job'[j].fd = job[j].fd /\ job'[j].k = job[j].k /\ job'[j].bytes = job[j].bytes
        /\ UNCHANGED <<binary, plain, cached, mixed, node>>
    BY <1>1, <1>3 DEF JobType, install
  <2>2. Resolved' /\ Copied'
    BY <1>3, <2>1 DEF CacheInv, Resolved, Copied, At
  <2>3. Fresh' /\ Apart'
    BY <1>3, <2>1 DEF CacheInv, Fresh, Apart, Before
  <2>4. ExtractInv'
    <3>1. Extracting(j) /\ \A i \in Job : Extracting(i)' => Extracting(i) /\ job'[i].fd = job[i].fd
      BY <1>3, <2>1 DEF Extracting
    <3>2. CASE job[j].fd \in mixed
      <4>1. \A i \in Job : Extracting(i) => job[i].fd \in mixed
        BY <3>1, <3>2 DEF CacheInv, ExtractInv, Alone
      <4> QED
        BY <2>1, <3>1, <4>1 DEF CacheInv, ExtractInv
    <3>3. CASE job[j].fd \notin mixed
      <4>1. Alone(j) /\ Filled(j)
        BY <3>1, <3>3 DEF CacheInv, ExtractInv
      <4>2. Alone(j)' /\ \A i \in Job : Extracting(i)' => i = j
        BY <3>1, <4>1 DEF Alone
      <4>3. Filled(j)'
        BY <1>3, <2>1, <3>3, <4>1 DEF Filled, At
      <4> QED
        BY <2>1, <3>3, <4>2, <4>3 DEF ExtractInv
    <3> QED
      BY <3>2, <3>3
  <2>5. HonestInv'
    BY <1>3, <2>1 DEF CacheInv, HonestInv, Copied, At
  <2> QED
    BY <2>2, <2>3, <2>4, <2>5 DEF CacheInv
<1>4. CASE SetPermissions(j) /\ Goto(j, "probe")
  <2>1. [job[j] EXCEPT !.pc = "probe"] = [job[j] EXCEPT !.pc = "probe", !.name = job[j].name]
    BY <1>1 DEF JobType
  <2>2. job' = [job EXCEPT ![j] = [job[j] EXCEPT !.pc = "probe", !.name = job[j].name]]
    BY <1>4, <2>1 DEF Goto
  <2>3. job[j].pc = "chmod" /\ UNCHANGED <<install, node, unrunnable>>
    BY <1>4 DEF SetPermissions, At
  <2> QED
    BY <1>3, <2>2, <2>3
<1>5. CASE Probe(j)
  <2> DEFINE pieces == IF plain = None THEN Empty ELSE binary[plain]
  <2>1. PICK runs \in BOOLEAN :
          /\ job' = [job EXCEPT ![j].pc = "name", ![j].name = extract_version(pieces, job[j].want, runs)]
          /\ unrunnable' = (unrunnable \/ (IsWhole(pieces) /\ ~runs))
    BY <1>5 DEF Probe
  <2>2. PICK n : n = extract_version(pieces, job[j].want, runs)
    OBVIOUS
  <2>3. job[j].pc = "probe" /\ UNCHANGED <<install, node>>
    BY <1>5 DEF Probe, At
  <2>4. ASSUME job[j].fd \notin mixed, ~unrunnable' PROVE n = job[j].bytes[1]
    <3>1. Filled(j)
      BY <2>3, <2>4 DEF CacheInv, ExtractInv, Extracting
    <3>2. pieces = Whole(job[j].bytes[1]) /\ job[j].bytes[1] \in Version
      BY <2>3, <3>1 DEF Filled, At
    <3>3. IsWhole(pieces)
      BY <3>2 DEF IsWhole
    <3>4. pieces[1] = job[j].bytes[1]
      BY <3>2, SizeAssumption DEF Whole
    <3> QED
      BY <2>1, <2>2, <2>4, <3>3, <3>4 DEF extract_version
  <2>5. job' = [job EXCEPT ![j] = [job[j] EXCEPT !.pc = "name", !.name = n]]
    BY <2>1, <2>2
  <2>6. unrunnable => unrunnable'
    BY <2>1
  <2> QED
    BY <1>3, <2>3, <2>4, <2>5, <2>6
<1> QED
  BY <1>2, <1>4, <1>5 DEF SetPermissions

\* The file at ant-node becomes the cached one, or is removed for it.
LEMMA RenameStep ==
    ASSUME CacheInv, TypeInv', NEW j \in Job, UseCached(j) \/ RenameToCached(j)
    PROVE  CacheInv'
<1>1. job \in [Job -> JobType]
  BY DEF CacheInv, TypeInv
<1>2. ASSUME NEW pc, Goto(j, pc)
      PROVE  /\ \A i \in Job \ {j} : job'[i] = job[i]
             /\ job'[j].pc = pc /\ job'[j].fd = job[j].fd /\ job'[j].k = job[j].k
             /\ job'[j].bytes = job[j].bytes /\ job'[j].name = job[j].name
  BY <1>1, <1>2 DEF Goto, JobType
<1>3. UNCHANGED <<binary, mixed, node, unrunnable>> /\ job[j].pc \in {"name", "rename"}
  BY DEF UseCached, RenameToCached, At
<1>4. /\ Extracting(j)
      /\ job[j].fd \notin mixed => Alone(j) /\ Filled(j)
      /\ job[j].fd \in mixed => \A i \in Job : Extracting(i) => job[i].fd \in mixed
      /\ job[j].fd \in mixed => plain \in mixed \cup {None}
  BY <1>3 DEF CacheInv, ExtractInv, Extracting, Alone
<1>5. job[j].name \in Name
  BY <1>1 DEF JobType
<1>6. CASE Goto(j, "failed") /\ UNCHANGED <<plain, cached>>
  <2>1. ~Extracting(j)' /\ job'[j].pc # "resolved" /\ (job'[j].pc \in Before => job[j].pc \in Before)
    BY <1>2, <1>6 DEF Extracting, Before
  <2> QED
    BY <1>2, <1>3, <1>6, <2>1, QuietStep
<1>7. CASE UseCached(j) /\ Goto(j, "rename") /\ UNCHANGED <<plain, cached>>
  <2>1. Resolved' /\ Copied'
    BY <1>2, <1>3, <1>7 DEF CacheInv, Resolved, Copied, At
  <2>2. Fresh' /\ Apart'
    BY <1>2, <1>7 DEF CacheInv, Fresh, Apart, Before
  <2>3. ExtractInv'
    <3>1. \A i \in Job : Extracting(i)' => Extracting(i) /\ job'[i].fd = job[i].fd
      BY <1>2, <1>4, <1>7 DEF Extracting
    <3>2. CASE job[j].fd \in mixed
      BY <1>3, <1>4, <1>7, <3>1, <3>2 DEF ExtractInv
    <3>3. CASE job[j].fd \notin mixed
      <4>1. Alone(j)' /\ \A i \in Job : Extracting(i)' => i = j
        BY <1>4, <3>1, <3>3 DEF Alone
      <4>2. job[j].pc = "name" /\ cached[job[j].name] = None
        BY <1>2, <1>7, <1>5 DEF UseCached, At, Goto
      <4>3. Filled(j)'
        BY <1>2, <1>3, <1>4, <1>7, <3>3, <4>2 DEF Filled, At
      <4> QED
        BY <1>2, <1>3, <1>7, <3>3, <4>1, <4>3 DEF ExtractInv
    <3> QED
      BY <3>2, <3>3
  <2>4. HonestInv'
    BY <1>2, <1>3, <1>7 DEF CacheInv, HonestInv, Copied, At
  <2> QED
    BY <2>1, <2>2, <2>3, <2>4 DEF CacheInv
<1>8. CASE /\ Goto(j, "resolved") /\ plain' = None
           /\ \/ cached' = cached /\ cached[job[j].name] # None
              \/ cached' = [cached EXCEPT ![job[j].name] = plain] /\ plain # None /\ job[j].pc = "rename"
  <2>1. Resolved' /\ Copied'
    <3>1. \A n \in Name : cached[n] # None => cached'[n] # None
      BY <1>8 DEF CacheInv, TypeInv
    <3>2. cached'[job[j].name] # None
      BY <1>5, <1>8 DEF CacheInv, TypeInv
    <3>3. \A i \in Job : job[i].name \in Name
      BY <1>1 DEF JobType
    <3> QED
      BY <1>2, <1>3, <1>8, <3>1, <3>2, <3>3 DEF CacheInv, Resolved, Copied, At
  <2>2. Fresh' /\ Apart'
    BY <1>2, <1>5, <1>8, JobAssumption DEF CacheInv, TypeInv, Fresh, Apart, Before, None
  <2>3. ExtractInv'
    <3>1. \A i \in Job : Extracting(i)' => i # j /\ Extracting(i) /\ job'[i].fd = job[i].fd
      BY <1>2, <1>8 DEF Extracting
    <3>2. \A i \in Job : Extracting(i)' => job'[i].fd \in mixed
      BY <1>4, <3>1 DEF Alone
    <3> QED
      BY <1>3, <1>8, <3>2 DEF ExtractInv
  <2>4. HonestInv'
    <3>1. CASE cached' = cached
      BY <1>2, <1>3, <1>8, <3>1 DEF CacheInv, HonestInv, Copied, At
    <3>2. CASE cached' = [cached EXCEPT ![job[j].name] = plain] /\ plain # None /\ job[j].pc = "rename"
      <4>1. cached'[job[j].name] = plain /\ \A n \in Name \ {job[j].name} : cached'[n] = cached[n]
        BY <1>5, <3>2 DEF CacheInv, TypeInv
      <4>2. CASE plain \in mixed
        BY <1>2, <1>3, <1>8, <4>1, <4>2 DEF CacheInv, HonestInv, Copied, At, TypeInv, JobType
      <4>3. CASE plain \notin mixed
        <5>1. Filled(j) /\ cached[job[j].name] = None
          BY <1>4, <3>2, <4>3 DEF Filled, At
        <5>2. IsWhole(binary[plain])
          BY <3>2, <5>1 DEF Filled, IsWhole, At
        <5>3. ~unrunnable => job[j].name \in Version /\ binary[plain] = Whole(job[j].name)
          BY <3>2, <5>1 DEF Filled, At
        <5>4. \A i \in Job : node[i] # Empty =>
                  job'[i].name = job[i].name /\ job[i].name \in Name \ {job[j].name}
          BY <1>1, <1>2, <1>3, <1>8, <5>1 DEF JobType, CacheInv, Copied, At
        <5>5. \A i \in Job : node'[i] # Empty /\ cached'[job'[i].name] \notin mixed' => IsWhole(node'[i])
          BY <1>3, <4>1, <5>4 DEF CacheInv, HonestInv
        <5>6. \A n \in Name : cached'[n] \notin mixed' \cup {None} =>
                  /\ IsWhole(binary'[cached'[n]])
                  /\ ~unrunnable' => n \in Version /\ binary'[cached'[n]] = Whole(n)
          BY <1>3, <4>1, <5>2, <5>3 DEF CacheInv, HonestInv
        <5> QED
          BY <5>5, <5>6 DEF HonestInv
      <4> QED
        BY <4>2, <4>3
    <3> QED
      BY <1>8, <3>1, <3>2
  <2> QED
    BY <2>1, <2>2, <2>3, <2>4 DEF CacheInv
<1> QED
  BY <1>6, <1>7, <1>8 DEF UseCached, RenameToCached, Fail, At

\* A node gets a copy of a cached file.
LEMMA CopyStep ==
    ASSUME CacheInv, TypeInv', NEW j \in Job, CopyToNode(j)
    PROVE  CacheInv'
<1>1. job \in [Job -> JobType]
  BY DEF CacheInv, TypeInv
<1>2. /\ \A i \in Job \ {j} : job'[i] = job[i]
      /\ job'[j].pc = "added" /\ job[j].pc = "resolved"
      /\ job'[j].name = job[j].name /\ job[j].name \in Name
      /\ UNCHANGED <<binary, plain, cached, mixed, unrunnable>>
  BY <1>1 DEF CopyToNode, Goto, JobType, install, At
<1>3. Resolved' /\ Copied'
  <2>1. cached[job[j].name] # None
    BY <1>2 DEF CacheInv, Resolved, At
  <2>2. \A i \in Job \ {j} : node'[i] = node[i]
    BY DEF CopyToNode, CacheInv, TypeInv
  <2> QED
    BY <1>2, <2>1, <2>2 DEF CacheInv, Resolved, Copied, At
<1>4. Fresh' /\ Apart'
  BY <1>2 DEF CacheInv, Fresh, Apart, Before
<1>5. ExtractInv'
  <2>1. \A i \in Job : Extracting(i)' => i # j /\ Extracting(i)
    BY <1>2 DEF Extracting
  <2>2. \A i \in Job : Extracting(i)' /\ Alone(i) => Alone(i)'
    BY <2>1 DEF Alone
  <2>3. \A i \in Job : Extracting(i)' /\ Filled(i) => Filled(i)'
    BY <1>2, <2>1 DEF Filled, At
  <2> QED
    BY <1>2, <2>1, <2>2, <2>3 DEF CacheInv, ExtractInv
<1>6. HonestInv'
  <2>1. cached[job[j].name] # None
    BY <1>2 DEF CacheInv, Resolved, At
  <2>2. node'[j] = binary[cached[job[j].name]] /\ \A i \in Job \ {j} : node'[i] = node[i]
    BY DEF CopyToNode, CacheInv, TypeInv
  <2>3. cached[job[j].name] \notin mixed => IsWhole(node'[j])
    BY <1>2, <2>1, <2>2 DEF CacheInv, HonestInv
  <2> QED
    BY <1>2, <2>2, <2>3 DEF CacheInv, HonestInv
<1> QED
  BY <1>3, <1>4, <1>5, <1>6 DEF CacheInv

LEMMA InitCache == Init => CacheInv
<1> SUFFICES ASSUME Init PROVE CacheInv
  OBVIOUS
<1>1. \A j \in Job : job[j] = Start /\ node[j] = Empty
  BY DEF Init
<1>2. Start.pc = "start"
  BY DEF Start
<1>3. plain = None /\ \A n \in Name : cached[n] = None
  BY DEF Init
<1>4. Resolved /\ Copied /\ Fresh /\ Apart
  BY <1>1, <1>2, <1>3, JobAssumption DEF Resolved, Copied, Fresh, Apart, At, None
<1>5. \A j \in Job : ~Extracting(j)
  BY <1>1, <1>2 DEF Extracting
<1>6. ExtractInv
  BY <1>5 DEF ExtractInv
<1>7. HonestInv
  BY <1>1, <1>3 DEF HonestInv
<1> QED
  BY InitType, <1>4, <1>6, <1>7 DEF CacheInv

LEMMA NextCache == CacheInv /\ [Next]_vars => CacheInv'
<1> SUFFICES ASSUME CacheInv, [Next]_vars PROVE CacheInv'
  OBVIOUS
<1>1. CASE UNCHANGED vars
  BY <1>1 DEF vars, CacheInv, TypeInv, Resolved, Copied, Fresh, Apart, ExtractInv, Alone, Filled, Extracting, At,
              HonestInv
<1>2. ASSUME NEW j \in Job, JobStep(j) \/ GivesUp(j) PROVE CacheInv'
  <2>1. TypeInv'
    BY <1>2, NextType DEF CacheInv
  <2>2. CASE resolve_latest(j) \/ \E v \in Version : resolve_version(j, v)
    <3>1. PICK v \in Version : resolve_version(j, v)
      BY <2>2, LatestExists DEF resolve_latest, fetch_latest_version
    <3> QED
      BY <2>1, <3>1, ResolveStep
  <2> QED
    BY <1>2, <2>1, <2>2, QuietActions, CreateStep, FillStep, ProbeStep, RenameStep, CopyStep DEF JobStep
<1> QED
  BY <1>1, <1>2 DEF Next

\* A cached file that no overlapping extractions wrote is a complete binary, and
\* of the version in its name while complete binaries run; so is what a node got
\* from it: for any number of requests, versions and pieces, whatever downloads
\* share the temporary file and wherever a request fails or its process ends.  Of
\* the files that overlapping extractions wrote it says nothing; one overlap
\* spoils no file but those (download_and_extract, add_nodes).
THEOREM CacheTheorem == Spec => []CacheHonest
<1>1. CacheInv => CacheHonest
  BY DEF CacheInv, HonestInv, CacheHonest
<1> QED
  BY <1>1, InitCache, NextCache, PTL DEF Spec
-----------------------------------------------------------------------------
(* ant update *)

\* What is about to replace ant is signed, and of the newest version unless a
\* binary did not tell.
CliInv ==
    /\ TypeInv /\ Resolved /\ CliIsRelease
    /\ \A j \in Job : At(j, "replace") =>
          /\ job[j].got.signed
          /\ ~unrunnable => job[j].got.ver = fetch_latest_cli_version

\* Steps that move no request to its replacement.
LEMMA CliStep ==
    ASSUME CliInv, TypeInv', Resolved', NEW j \in Job, JobStep(j) \/ GivesUp(j),
           ~VerifyUpdate(j), ~replace_binary(j)
    PROVE  CliInv'
<1>1. job \in [Job -> JobType]
  BY DEF CliInv, TypeInv
<1>2. exe' = exe /\ (unrunnable => unrunnable')
  <2>1. exe' = exe
    BY DEF JobStep, GivesUp, resolve_local, resolve_latest, resolve_version, resolve_url, CreateTemp,
             WritePiece, ReadTemp, RemoveTemp, ExtractCreate, ExtractFill, SetPermissions, Probe, UseCached,
             RenameToCached, CopyToNode, execute, download_archive
  <2>2. unrunnable => unrunnable'
    BY DEF JobStep, GivesUp, resolve_local, resolve_latest, resolve_version, resolve_url, CreateTemp,
             WritePiece, ReadTemp, RemoveTemp, ExtractCreate, ExtractFill, SetPermissions, Probe, UseCached,
             RenameToCached, CopyToNode, execute, download_archive
  <2> QED
    BY <2>1, <2>2
<1>3. \A i \in Job \ {j} : job'[i] = job[i]
  BY <1>1 DEF JobStep, GivesUp, resolve_local, resolve_latest, resolve_version, resolve_url, CreateTemp,
         WritePiece, ReadTemp, RemoveTemp, ExtractCreate, ExtractFill, SetPermissions, Probe, UseCached,
         RenameToCached, CopyToNode, execute, download_archive, Fail, Goto
<1>4. job'[j].pc # "replace"
  <2>1. ASSUME NEW pc, Goto(j, pc), pc # "replace" PROVE job'[j].pc # "replace"
    BY <1>1, <2>1 DEF Goto, JobType
  <2>2. ASSUME NEW r, job' = [job EXCEPT ![j] = r], r.pc # "replace" PROVE job'[j].pc # "replace"
    BY <1>1, <2>2
  <2>3. job[j] \in JobType
    BY <1>1
  <2>4. CASE \/ resolve_local(j) \/ RemoveTemp(j) \/ SetPermissions(j) \/ UseCached(j) \/ RenameToCached(j)
             \/ CopyToNode(j) \/ GivesUp(j)
    BY <2>1, <2>4 DEF resolve_local, RemoveTemp, SetPermissions, UseCached, RenameToCached, CopyToNode,
                      GivesUp, Fail
  <2>5. CASE \E force \in BOOLEAN : execute(j, force)
    BY <2>1, <2>5 DEF execute
  <2>6. CASE resolve_latest(j) \/ \E v \in Version : resolve_version(j, v)
    <3>1. PICK v \in Version : resolve_version(j, v)
      BY <2>6, LatestExists DEF resolve_latest, fetch_latest_version
    <3> QED
      BY <1>1, <3>1 DEF resolve_version, JobType
  <2>7. CASE resolve_url(j) \/ CreateTemp(j)
    BY <1>1, <2>7 DEF resolve_url, CreateTemp, JobType
  <2>8. CASE WritePiece(j)
    <3>1. job[j].pc = "download"
      BY <2>8 DEF WritePiece, At
    <3>2. PICK v : job' = [job EXCEPT ![j] = [job[j] EXCEPT !.sent = v, !.k = job[j].k + 1,
                                                            !.pc = IF job[j].k = Pieces THEN "read" ELSE job[j].pc]]
      BY <2>8 DEF WritePiece
    <3>3. PICK k, pc : k = job[j].k + 1 /\ pc = IF job[j].k = Pieces THEN "read" ELSE job[j].pc
      OBVIOUS
    <3>4. [job[j] EXCEPT !.sent = v, !.k = k, !.pc = pc].pc = pc
      BY <2>3 DEF JobType
    <3> QED
      BY <2>2, <3>1, <3>2, <3>3, <3>4
  <2>9. CASE ReadTemp(j)
    BY <1>1, <2>1, <2>9 DEF ReadTemp, Fail, JobType
  <2>10. CASE ExtractCreate(j)
    BY <1>1, <2>1, <2>10 DEF ExtractCreate, Fail, JobType
  <2>11. CASE ExtractFill(j)
    BY <1>1, <2>1, <2>11 DEF ExtractFill, Fail, At, JobType
  <2>12. CASE Probe(j)
    BY <1>1, <2>12 DEF Probe, JobType
  <2>13. CASE download_archive(j)
    BY <1>1, <2>13 DEF download_archive, JobType
  <2> QED
    BY <2>4, <2>5, <2>6, <2>7, <2>8, <2>9, <2>10, <2>11, <2>12, <2>13 DEF JobStep
<1> QED
  BY <1>2, <1>3, <1>4 DEF CliInv, CliIsRelease, At

LEMMA NextCli == CliInv /\ CacheInv /\ CacheInv' /\ [Next]_vars => CliInv'
<1> SUFFICES ASSUME CliInv, CacheInv, CacheInv', [Next]_vars PROVE CliInv'
  OBVIOUS
<1>1. TypeInv' /\ Resolved' /\ job \in [Job -> JobType]
  BY DEF CacheInv, CliInv, TypeInv
<1>2. CASE UNCHANGED vars
  BY <1>1, <1>2 DEF vars, CliInv, CliIsRelease, At
<1>3. ASSUME NEW j \in Job, VerifyUpdate(j) PROVE CliInv'
  <2>1. PICK runs \in BOOLEAN :
          /\ Goto(j, IF verify_signature(job[j].got) /\ VersionMatches(job[j].got, runs)
                     THEN "replace" ELSE "failed")
          /\ unrunnable' = (unrunnable \/ ~runs)
    BY <1>3 DEF VerifyUpdate
  <2>2. PICK pc : pc = IF verify_signature(job[j].got) /\ VersionMatches(job[j].got, runs)
                       THEN "replace" ELSE "failed"
    OBVIOUS
  <2>3. /\ \A i \in Job \ {j} : job'[i] = job[i]
        /\ job'[j].pc = pc /\ job'[j].got = job[j].got
    BY <1>1, <2>1, <2>2 DEF Goto, JobType
  <2>4. exe' = exe /\ (unrunnable => unrunnable')
    BY <1>3, <2>1 DEF VerifyUpdate
  <2>5. job'[j].pc = "replace" => job'[j].got.signed /\ (~unrunnable' => job'[j].got.ver = fetch_latest_cli_version)
    BY <2>1, <2>2, <2>3 DEF verify_signature, VersionMatches
  <2> QED
    BY <1>1, <2>3, <2>4, <2>5 DEF CliInv, CliIsRelease, At
<1>4. ASSUME NEW j \in Job, replace_binary(j) PROVE CliInv'
  <2>1. /\ \A i \in Job \ {j} : job'[i] = job[i]
        /\ job'[j].pc = "updated" /\ job[j].pc = "replace" /\ exe' = job[j].got /\ unrunnable' = unrunnable
    BY <1>1, <1>4 DEF replace_binary, Goto, JobType, At
  <2> QED
    BY <1>1, <2>1 DEF CliInv, CliIsRelease, At
<1> QED
  BY <1>1, <1>2, <1>3, <1>4, CliStep DEF Next

\* ant is replaced by nothing but a signed release, and while binaries tell
\* their version by none but the newest, whatever the server delivers and
\* however many updates run at once (perform_update).
THEOREM CliTheorem == Spec => []CliIsRelease
<1>1. Init => CliInv
  <2> SUFFICES ASSUME Init PROVE CliInv
    OBVIOUS
  <2>1. TypeInv /\ Resolved
    BY InitCache DEF CacheInv
  <2>2. \A j \in Job : job[j].pc = "start"
    BY DEF Init, Start
  <2>3. exe.ver = 1 /\ exe.signed
    BY DEF Init
  <2> QED
    BY <2>1, <2>2, <2>3 DEF CliInv, CliIsRelease, At
<1>2. CliInv => CliIsRelease
  BY DEF CliInv
<1> QED
  BY <1>1, <1>2, InitCache, NextCache, NextCli, PTL DEF Spec
=============================================================================
