---------------------------- MODULE FileTransfer ----------------------------
(***************************************************************************)
(* A file on its way to the network and back: a blocking task reads and    *)
(* encrypts the file as a stream, the caller spills the chunks to disk and *)
(* stores them (data/client/file.rs); a download fetches the chunks from   *)
(* the peers of their close groups (chunk.rs, cache.rs), in batches that   *)
(* complete in any order, and replaces the output file (file.rs), or       *)
(* decrypts in memory (data.rs and ant-wasm's client.rs).                  *)
(*                                                                         *)
(* Byte i of the file is the value i.  The file may grow or shrink while   *)
(* it is read.  Payment and placement are UploadClient's.                  *)
(***************************************************************************)
EXTENDS SelfEncryption, Lru

CONSTANTS
    Sizes,        \* lengths the file may have
    MaxRead,      \* bytes one read returns at most
    Channel,      \* capacity of the chunk channel
    Wave,         \* UPLOAD_WAVE_SIZE
    Batch,        \* STREAM_DECRYPT_BATCH_SIZE
    Peers,        \* peers of a close group
    CacheCap,     \* capacity of the chunk cache
    Modes,        \* ways of uploading: "file", "external", "memory"
    Kinds,        \* ways of downloading: "file", "data", "browser"
    MaxDownloads  \* bound: downloads after an upload

ASSUME TransferAssumption ==
    /\ Sizes \subseteq Nat /\ MaxRead \in Nat /\ Peers \in Nat
    /\ Wave \in Nat \ {0} /\ Batch \in Nat \ {0}
    /\ Kinds \subseteq {"file", "data", "browser"}

VARIABLES
    file,      \* the length of the file on disk
    size,      \* its length when the upload asked
    stream,    \* the encryption task: the stream and where the task is
    channel,   \* chunks sent and not received
    open,      \* whether the receiver of the channel exists
    upload,    \* the caller: where it is, its mode, the data map
    spill,     \* the chunks of the spill, in the order of their arrival
    spillDir,  \* whether the spill directory exists
    network,   \* the chunks that are stored
    down,      \* the download
    cache,     \* the chunk cache
    tmp,       \* the temporary file of the download, or NoFile
    out,       \* the output file
    faulty     \* whether something outside this code has failed since the
               \* upload or the last download began

fileVars == <<file, size, stream, channel, open, upload, spill, spillDir, network,
              down, cache, tmp, out, faulty>>
taskVars == <<stream, channel>>
callerVars == <<size, open, upload, spill, spillDir, network>>
downVars == <<down, cache, tmp, out>>

NoFile == << <<"no file", 0>> >>
Old == << <<"old", 0>> >>
NoItem == <<"none">>
Bytes(n) == [i \in 1 .. n |-> <<"byte", i>>]
-----------------------------------------------------------------------------
(* The encryption stream: bytes read, chunks processed, whether the input  *)
(* is complete, the chunks yielded after that, the data map.               *)

Total == get_num_chunks(size)
Span(i) == get_start_end_positions(size, i)
Least(a, b) == IF a < b THEN a ELSE b

\* Mutant: the last chunk takes all that is left in the buffer.
SourcesGreedy(s) ==
    [i \in 0 .. Total - 1 |->
        Slice(Bytes(s.read), <<Span(i)[1], IF i = Total - 1 THEN s.read ELSE Least(Span(i)[2], s.read)>>)]

\* The plain chunks; the last one is short when the input ended early.
Sources(s) ==
    [i \in 0 .. Total - 1 |-> Slice(Bytes(s.read), <<Span(i)[1], Least(Span(i)[2], s.read)>>)]

\* Whether try_process_chunks can take the next chunk from the buffer.
HasData(s) ==
    /\ s.processed < Total
    /\ \/ s.read >= Span(s.processed)[2]
       \/ s.input_complete /\ s.read > Span(s.processed)[1]

StreamChunk(s, i) ==
    encrypt_chunk(Sources(s)[i], get_pad_key_and_nonce(i, Sources(s), 0))

\* The chunks 0 and 1 need the hashes of all the others, so they come at the end.
StreamMap(s) ==
    shrink_data_map(DataMap([i \in 0 .. Total - 1 |-> ChunkInfo(Sources(s)[i], StreamChunk(s, i))], 0))

\* Mutant: the chunks of the shrunk maps are not yielded.
FinalizeRootOnly(s) == <<StreamChunk(s, 0), StreamChunk(s, 1)>>

finalize_encryption(s) ==
    <<StreamChunk(s, 0), StreamChunk(s, 1)>> \o InSomeOrder(StreamMap(s).chunks)
-----------------------------------------------------------------------------
(* The blocking task of spawn_file_encryption *)

TaskAt(pc) == stream.pc = pc

\* File::open, and stream_encrypt that refuses a file that is too small.
OpenFile ==
    /\ TaskAt("open")
    /\ \/ /\ stream' = [stream EXCEPT !.pc = IF Total < 3 THEN "failed" ELSE "next"]
          /\ UNCHANGED faulty
       \/ /\ stream' = [stream EXCEPT !.pc = "failed"]
          /\ faulty' = TRUE
    /\ UNCHANGED <<file, channel, callerVars, downVars>>

NeedsData == TaskAt("next") /\ ~HasData(stream) /\ ~stream.input_complete

\* Reads may be short.
ReadPiece(k) ==
    /\ NeedsData
    /\ stream.read + k <= file
    /\ stream' = [stream EXCEPT !.read = @ + k]
    /\ UNCHANGED <<file, channel, callerVars, downVars, faulty>>

ReadEnd ==
    /\ NeedsData
    /\ stream.read >= file
    /\ stream' = [stream EXCEPT !.input_complete = TRUE]
    /\ UNCHANGED <<file, channel, callerVars, downVars, faulty>>

\* The iterator ends as it does at the end of the file; the error is kept aside.
ReadFails ==
    /\ NeedsData
    /\ stream' = [stream EXCEPT !.input_complete = TRUE, !.read_error = TRUE]
    /\ faulty' = TRUE
    /\ UNCHANGED <<file, channel, callerVars, downVars>>

\* try_process_chunks: the first two chunks are set aside, the others are
\* yielded as they come; when all are processed, finalize_encryption yields
\* the rest.
ProcessChunk ==
    /\ TaskAt("next")
    /\ \/ /\ HasData(stream) /\ stream.processed < 2
          /\ stream' = [stream EXCEPT !.processed = @ + 1]
       \/ /\ HasData(stream) /\ stream.processed >= 2
          /\ stream' = [stream EXCEPT !.processed = @ + 1, !.pc = "send",
                                      !.item = StreamChunk(stream, stream.processed)]
       \/ /\ stream.input_complete /\ stream.processed = Total /\ stream.map = NoMap
          /\ stream' = [stream EXCEPT !.rest = finalize_encryption(stream), !.map = StreamMap(stream).map]
       \/ /\ stream.rest # <<>>
          /\ stream' = [stream EXCEPT !.rest = Tail(@), !.pc = "send", !.item = Head(stream.rest)]
    /\ UNCHANGED <<file, channel, callerVars, downVars, faulty>>

\* Mutant: a dropped receiver is not noticed.
SendReadyDeaf == stream.read_error \/ Len(channel) < Channel

\* Whether the task goes on with the chunk it has: blocking_send waits for room.
SendReady == stream.read_error \/ ~open \/ Len(channel) < Channel

\* The body of the loop over the chunks.
SendChunk ==
    /\ TaskAt("send") /\ SendReady
    /\ \/ /\ stream.read_error \/ ~open
          /\ stream' = [stream EXCEPT !.pc = "failed", !.item = NoItem]
          /\ UNCHANGED channel
       \/ /\ ~stream.read_error /\ open
          /\ channel' = Append(channel, stream.item)
          /\ stream' = [stream EXCEPT !.pc = "next", !.item = NoItem]
    /\ UNCHANGED <<file, callerVars, downVars, faulty>>

\* After the last chunk: the read error again, then the data map.
StreamEnds ==
    /\ TaskAt("next") /\ stream.input_complete /\ ~HasData(stream) /\ stream.rest = <<>>
    /\ stream.processed = Total => stream.map # NoMap
    /\ stream' = [stream EXCEPT !.pc = IF stream.read_error \/ stream.map = NoMap THEN "failed" ELSE "ok"]
    /\ UNCHANGED <<file, channel, callerVars, downVars, faulty>>
-----------------------------------------------------------------------------
(* The caller *)

UploadAt(pc) == upload.pc = pc
TaskEnded == stream.pc \in {"ok", "failed", "off"}

\* The ends of an upload: the receiver and the spill are dropped, and dropping
\* the spill removes its directory.
Finish(pc) ==
    /\ upload' = [upload EXCEPT !.pc = pc]
    /\ open' = FALSE
    /\ spill' = <<>>
    /\ spillDir' = FALSE

Fail == Finish("failed") /\ faulty' = TRUE

\* The spill directory and the task are there.
file_upload(mode) ==
    /\ UploadAt("idle") /\ mode # "memory"
    /\ size' = file
    /\ upload' = [upload EXCEPT !.pc = "spilling", !.mode = mode]
    /\ stream' = [stream EXCEPT !.pc = "open"]
    /\ open' = TRUE /\ spillDir' = TRUE
    /\ UNCHANGED <<file, channel, spill, network, downVars, faulty>>

\* The metadata of the file, check_disk_space_for_spill or ChunkSpill::new fails;
\* the task, if it was spawned before that, is left without a receiver.
UploadRefused ==
    /\ Modes # {"memory"}
    /\ UploadAt("idle")
    /\ size' = file
    /\ stream' \in {stream, [stream EXCEPT !.pc = "open"]}
    /\ Fail
    /\ UNCHANGED <<file, channel, network, downVars>>

\* data_upload and data_upload_with_mode, of the same content.
data_upload ==
    /\ UploadAt("idle") /\ "memory" \in Modes
    /\ size' = file
    /\ IF get_num_chunks(file) < 3
       THEN upload' = [upload EXCEPT !.pc = "failed"] /\ UNCHANGED spill
       ELSE LET enc == encrypt(Bytes(file))
            IN  /\ upload' = [upload EXCEPT !.pc = "storing", !.mode = "memory", !.map = enc.map]
                /\ spill' = InSomeOrder(enc.chunks)
    /\ UNCHANGED <<file, taskVars, open, spillDir, network, downVars, faulty>>

\* ChunkSpill::push: a chunk that was spilled before is skipped.
SpillChunk ==
    /\ UploadAt("spilling")
    /\ channel # <<>>
    /\ channel' = Tail(channel)
    /\ \/ /\ spill' = IF Head(channel) \in Entries(spill) THEN spill ELSE Append(spill, Head(channel))
          /\ UNCHANGED <<upload, open, spillDir, faulty>>
       \/ Fail
    /\ UNCHANGED <<file, size, stream, network, downVars>>

\* The channel is closed: the result of the task, then the data map.
AwaitTask ==
    /\ UploadAt("spilling")
    /\ channel = <<>> /\ TaskEnded
    /\ IF stream.pc = "ok"
       THEN /\ upload' = [upload EXCEPT !.map = stream.map,
                            !.pc = IF upload.mode = "external" THEN "quoting" ELSE "storing"]
            /\ UNCHANGED <<open, spill, spillDir>>
       ELSE Finish("failed")
    /\ UNCHANGED <<file, size, taskVars, network, downVars, faulty>>

\* One wave of upload_waves_single, upload_waves_merkle or batch_upload_chunks.
StoreWave ==
    /\ UploadAt("storing") /\ spill # <<>>
    /\ LET n == Least(Wave, Len(spill))
       IN  \/ /\ network' = network \cup {spill[i] : i \in 1 .. n}
              /\ spill' = SubSeq(spill, n + 1, Len(spill))
              /\ UNCHANGED <<open, upload, spillDir, faulty>>
           \/ /\ \E some \in SUBSET (1 .. n) : network' = network \cup {spill[i] : i \in some}
              /\ Fail
    /\ UNCHANGED <<file, size, taskVars, downVars>>

Stored ==
    /\ UploadAt("storing") /\ spill = <<>>
    /\ Finish("ok")
    /\ UNCHANGED <<file, size, taskVars, network, downVars, faulty>>

\* The chunks of chunks to pay for: prepare_chunk_payment gives none for one that
\* is stored.
PreparedChunks(chunks) ==
    LET prepared[i \in 0 .. Len(chunks)] ==
            CASE i = 0 -> <<>>
              [] i > 0 /\ chunks[i] \in network -> prepared[i - 1]
              [] OTHER -> Append(prepared[i - 1], chunks[i])
    IN  prepared[Len(chunks)]

\* file_prepare_upload: the chunks are read back into memory, the spill is
\* dropped, and the caller waits for the external signer.
PrepareUpload ==
    /\ UploadAt("quoting")
    /\ \/ /\ upload' = [upload EXCEPT !.pc = "prepared"]
          /\ open' = FALSE /\ spillDir' = FALSE
          /\ spill' = PreparedChunks(spill)
          /\ UNCHANGED faulty
       \/ Fail
    /\ UNCHANGED <<file, size, taskVars, network, downVars>>

\* finalize_upload, with the transactions of the signer.
finalize_upload ==
    /\ UploadAt("prepared")
    /\ \/ /\ upload' = [upload EXCEPT !.pc = "storing"]
          /\ UNCHANGED <<open, spill, spillDir, faulty>>
       \/ Fail
    /\ UNCHANGED <<file, size, taskVars, network, downVars>>

\* The future of the upload is dropped at one of its awaits.
CancelUpload ==
    /\ upload.pc \in {"spilling", "quoting", "prepared", "storing"}
    /\ Fail
    /\ UNCHANGED <<file, size, taskVars, network, downVars>>
-----------------------------------------------------------------------------
(* The download *)

Indices(map) == DOMAIN map.infos

\* What a close group answers to a request for a chunk, in its order; a browser
\* asks the one node it is connected to.
Answers(chunk) ==
    [1 .. (IF down.kind = "browser" THEN 1 ELSE Peers) -> {"none", "unreachable", "error"} \cup (IF chunk \in network THEN {"has"} ELSE {})]

\* Mutant: a peer that cannot be reached ends the search.
FirstReached(answers) ==
    LET final == {p \in DOMAIN answers : answers[p] # "none"}
        first == answers[CHOOSE p \in final : \A q \in final : p <= q]
    IN  IF final = {} \/ first = "unreachable" THEN "none" ELSE first

\* chunk_get: the next peer is asked after "none" and "unreachable" only.
chunk_get(answers) ==
    LET final == {p \in DOMAIN answers : answers[p] \in {"has", "error"}}
    IN  IF final = {} THEN "none"
        ELSE answers[CHOOSE p \in final : \A q \in final : p <= q]

\* A batch from start, of as many chunks as a fetch function is given at once.
BatchAt(map, start, n) == start .. (Least(start + n, MapLen(map)) - 1)

FileDown(pc, map) ==
    [down EXCEPT !.pc = pc, !.map = map, !.got = <<>>, !.start = 0,
                 !.want = IF pc = "batch" THEN BatchAt(map, 0, Batch) ELSE Indices(map)]

\* data_download asks for the chunks of the map it is given; streaming_decrypt
\* for those of a child map until it has the root.
StartDownload(kind) ==
    /\ UploadAt("ok") /\ down.pc \in {"idle", "ok", "failed", "refused"}
    /\ down.count < MaxDownloads
    /\ LET pc == CASE kind \in {"data", "browser"} -> "data"
                   [] kind = "file" /\ is_child(upload.map) -> "root"
                   [] OTHER -> "create"
       IN  down' = [FileDown(pc, upload.map) EXCEPT !.kind = kind, !.count = @ + 1, !.data = NoFile]
    /\ faulty' = FALSE
    /\ UNCHANGED <<file, taskVars, callerVars, cache, tmp, out>>

\* download_from_address asks for one chunk after the other.
InTurn(i) == down.kind = "browser" => \A j \in down.want : i <= j

cache_get(chunk) == Touch(cache, chunk)
cache_put(chunk) == Insert(cache, chunk, CacheCap)

\* Mutant: a chunk nobody has is left out.
FetchDoneSkips(i) ==
    /\ down.pc \in {"root", "batch", "data"} /\ i \in down.want
    /\ LET chunk == down.map.infos[i].dst
       IN  \E answers \in Answers(chunk) :
              /\ chunk_get(answers) # "error"
              /\ down' = [down EXCEPT !.want = @ \ {i},
                            !.got = IF chunk_get(answers) = "has" THEN Append(@, <<i, chunk>>) ELSE @]
              /\ faulty' = (faulty \/ chunk_get(answers) # "has")
    /\ UNCHANGED <<file, taskVars, callerVars, cache, tmp, out>>

\* One of the requests in flight is answered, from the cache or by the peers.
\* The first that fails ends the download; those in flight are dropped.  It is
\* "refused" if a peer erred before one was asked that has the chunk, whatever
\* the others would have answered.  That no peer that has the chunk can be
\* reached is a fault.
FetchDone(i) ==
    /\ down.pc \in {"root", "batch", "data"} /\ i \in down.want /\ InTurn(i)
    /\ LET chunk == down.map.infos[i].dst
           got == [down EXCEPT !.want = @ \ {i}, !.got = Append(@, <<i, chunk>>)]
       IN  \/ /\ chunk \in Entries(cache)
              /\ cache' = cache_get(chunk)
              /\ down' = got
              /\ UNCHANGED <<tmp, faulty>>
           \/ /\ chunk \notin Entries(cache)
              /\ \E answers \in Answers(chunk) :
                    /\ faulty' = (faulty \/ "has" \notin Entries(answers))
                    /\ IF chunk_get(answers) = "has"
                       THEN /\ cache' = cache_put(chunk)
                            /\ down' = got
                            /\ UNCHANGED tmp
                       ELSE /\ down' = [down EXCEPT !.pc =
                                    IF chunk_get(answers) = "error" THEN "refused" ELSE "failed"]
                            /\ tmp' = NoFile
                            /\ UNCHANGED cache
    /\ UNCHANGED <<file, taskVars, callerVars, out>>

Fetched == {down.got[k][2] : k \in 1 .. Len(down.got)}

\* get_root_data_map_parallel: the chunks are found by their hashes, whatever
\* the order they came in.
RootFetched ==
    /\ down.pc = "root" /\ down.want = {}
    /\ LET data == decrypt_full_set(down.map, Fetched)
           map == IF data = Failed THEN NoMap ELSE from_bytes(data)
       IN  down' = CASE map.child < 0 -> [down EXCEPT !.pc = "failed"]
                     [] map.child >= 0 /\ is_child(map) -> FileDown("root", map)
                     [] OTHER -> FileDown("create", map)
    /\ UNCHANGED <<file, taskVars, callerVars, cache, tmp, out, faulty>>

CreateTemp ==
    /\ down.pc = "create"
    /\ \/ /\ tmp' = <<>>
          /\ down' = FileDown("batch", down.map)
          /\ UNCHANGED faulty
       \/ /\ down' = [down EXCEPT !.pc = "failed"]
          /\ faulty' = TRUE
          /\ UNCHANGED tmp
    /\ UNCHANGED <<file, taskVars, callerVars, cache, out>>

\* fetch_next_batch pairs the chunks, sorted by index, with the infos of the
\* batch, and decrypts them.
InOrder(got) ==
    LET indices == {g[1] : g \in Entries(got)}
    IN  [k \in 1 .. Len(got) |->
           CHOOSE g \in Entries(got) : Cardinality({i \in indices : i < g[1]}) = k - 1]

DecryptBatch(map, start, got) ==
    LET part == [k \in 1 .. Len(got) |->
                   decrypt_chunk(start + k - 1, InOrder(got)[k][2], extract_hashes(map), map.child)]
    IN  IF Failed \in Entries(part) THEN Failed ELSE FlattenSeq(part)

\* The pieces of a batch are written; an error removes the temporary file.
WriteBatch ==
    /\ down.pc = "batch" /\ down.want = {}
    /\ LET data == DecryptBatch(down.map, down.start, down.got)
           start == down.start + Batch
       IN  \/ /\ data # Failed
              /\ tmp' = tmp \o data
              /\ down' = IF start < MapLen(down.map)
                         THEN [down EXCEPT !.start = start, !.got = <<>>,
                                           !.want = BatchAt(down.map, start, Batch)]
                         ELSE [down EXCEPT !.pc = "rename", !.got = <<>>]
              /\ UNCHANGED faulty
           \/ /\ tmp' = NoFile
              /\ down' = [down EXCEPT !.pc = "failed"]
              /\ faulty' = (faulty \/ data # Failed)
    /\ UNCHANGED <<file, taskVars, callerVars, cache, out>>

\* Mutant: a failed rename leaves the temporary file.
RenameOutputLeaves ==
    /\ down.pc = "rename"
    /\ \/ /\ out' = tmp
          /\ tmp' = NoFile
          /\ down' = [down EXCEPT !.pc = "ok", !.data = tmp]
          /\ UNCHANGED faulty
       \/ /\ down' = [down EXCEPT !.pc = "failed"]
          /\ faulty' = TRUE
          /\ UNCHANGED <<tmp, out>>
    /\ UNCHANGED <<file, taskVars, callerVars, cache>>

RenameOutput ==
    /\ down.pc = "rename"
    /\ tmp' = NoFile
    /\ \/ /\ out' = tmp
          /\ down' = [down EXCEPT !.pc = "ok", !.data = tmp]
          /\ UNCHANGED faulty
       \/ /\ down' = [down EXCEPT !.pc = "failed"]
          /\ faulty' = TRUE
          /\ UNCHANGED out
    /\ UNCHANGED <<file, taskVars, callerVars, cache>>

\* The end of data_download, and of ant-wasm's download_from_address.
data_download ==
    /\ down.pc = "data" /\ down.want = {}
    /\ LET data == decrypt(down.map, Fetched)
       IN  down' = IF data = Failed THEN [down EXCEPT !.pc = "failed"]
                   ELSE [down EXCEPT !.pc = "ok", !.data = data]
    /\ UNCHANGED <<file, taskVars, callerVars, cache, tmp, out, faulty>>
-----------------------------------------------------------------------------
(* The environment *)

\* Another program writes to the file while it is encrypted.
FileChanges ==
    /\ stream.pc \in {"open", "next", "send"} /\ ~stream.input_complete
    /\ \E n \in Sizes : n # file /\ file' = n
    /\ UNCHANGED <<taskVars, callerVars, downVars, faulty>>

\* The process dies: what is on disk stays.
Crash ==
    /\ upload.pc \notin {"idle", "crashed"}
    /\ upload' = [upload EXCEPT !.pc = "crashed"]
    /\ stream' = [stream EXCEPT !.pc = "off"]
    /\ down' = [down EXCEPT !.pc = "off"]
    /\ open' = FALSE
    /\ faulty' = TRUE
    /\ UNCHANGED <<file, size, channel, spill, spillDir, network, cache, tmp, out>>

FileInit ==
    /\ file \in Sizes
    /\ size = 0
    /\ stream = [pc |-> "off", read |-> 0, processed |-> 0, rest |-> <<>>, input_complete |-> FALSE,
                 read_error |-> FALSE, item |-> NoItem, map |-> NoMap]
    /\ channel = <<>>
    /\ open = FALSE
    /\ upload = [pc |-> "idle", mode |-> "file", map |-> NoMap]
    /\ spill = <<>>
    /\ spillDir = FALSE
    /\ network = {}
    /\ down = [pc |-> "idle", kind |-> "file", map |-> NoMap, start |-> 0, want |-> {}, got |-> <<>>,
               data |-> NoFile, count |-> 0]
    /\ cache = <<>>
    /\ tmp = NoFile
    /\ out = Old
    /\ faulty = FALSE

TaskStep ==
    \/ OpenFile \/ ReadEnd \/ ReadFails \/ ProcessChunk \/ SendChunk \/ StreamEnds
    \/ \E k \in 1 .. MaxRead : ReadPiece(k)

CallerStep ==
    \/ SpillChunk \/ AwaitTask \/ StoreWave \/ Stored \/ PrepareUpload
    \/ (\E i \in down.want : FetchDone(i)) \/ RootFetched \/ CreateTemp \/ WriteBatch \/ RenameOutput
    \/ data_download

FileNext ==
    \/ TaskStep \/ CallerStep
    \/ \E mode \in Modes : file_upload(mode)
    \/ UploadRefused \/ data_upload
    \/ finalize_upload \/ CancelUpload
    \/ \E kind \in Kinds : StartDownload(kind)
    \/ FileChanges \/ Crash

FileSpec == FileInit /\ [][FileNext]_fileVars

\* When a step of the task, or of the futures of its caller, is possible.
TaskReady ==
    \/ stream.pc \in {"open", "next"}
    \/ TaskAt("send") /\ SendReady

CallerReady ==
    \/ UploadAt("spilling") /\ (channel # <<>> \/ TaskEnded)
    \/ upload.pc \in {"quoting", "storing"}
    \/ down.pc \in {"root", "create", "batch", "rename", "data"}

\* The runtime runs the blocking task and polls the futures of its caller.  This
\* is WF_vars(TaskStep) /\ WF_vars(CallerStep) with ENABLED written out: TLC
\* would encrypt anew for every state to find out what is enabled.
FairFileSpec ==
    /\ FileSpec
    /\ []<>~TaskReady \/ []<><<TaskStep>>_fileVars
    /\ []<>~CallerReady \/ []<><<CallerStep>>_fileVars
-----------------------------------------------------------------------------
(* Properties *)

\* What was uploaded: what was read of the file, up to the length it had when
\* the upload asked for it.
Content ==
    IF upload.mode = "memory" THEN Bytes(size) ELSE Bytes(Least(size, stream.read))

\* The channel, the cache and the batches stay within their bounds, and a task
\* without a receiver has no caller.
FileTypeOK ==
    /\ file \in Sizes /\ size \in Sizes \cup {0}
    /\ stream.pc \in {"off", "open", "next", "send", "ok", "failed"}
    /\ stream.processed \in 0 .. Total
    /\ Len(channel) <= Channel /\ Len(cache) <= CacheCap
    /\ Cardinality(down.want) + Len(down.got) <= IF down.pc = "batch" THEN Batch ELSE MapLen(down.map)
    /\ upload.pc \in {"spilling", "quoting"} => open /\ spillDir

\* The data map of the file is shrunk once at most: one that is shrunk twice
\* cannot be decrypted, since shrink_data_map writes its own level over it.
ShrunkOnce == get_num_chunks(get_num_chunks(size) + 1) <= 3

\* An upload that returns Ok gives a data map from which what was read can be
\* had back with the chunks that are stored, although chunks went through the
\* stream in another order than through encrypt, reads failed, and the file
\* changed (spawn_file_encryption, encrypt_file_to_spill).
UploadIsRecoverable ==
    [][Stored => ~stream.read_error /\ (ShrunkOnce => decrypt(upload.map, network) = Content)]_fileVars

\* Every part of what was uploaded can be read alone, at chunk boundaries, across
\* them and past the end (DecryptionStream: get_range, range, range_from,
\* range_inclusive).
RangesAgree ==
    [][Stored /\ ShrunkOnce =>
         LET root == get_root_data_map(upload.map, network)
             part(a, b) == Slice(Content, <<a, Least(b, Len(Content))>>)
         IN  \A a \in 0 .. size + 1 : \A b \in a .. size + 1 :
                /\ get_range(root, network, a, b - a) = part(a, b)
                /\ range(root, network, a, b) = part(a, b)
                /\ range_from(root, network, a) = part(a, size)
                /\ range_inclusive(root, network, a, b) = part(a, b + 1)]_fileVars

\* The stream comes to the data map that encrypt computes in memory, however
\* the reads were cut and whatever the file grew to (EncryptionStream).
StreamAgrees ==
    [][StreamEnds /\ stream'.pc = "ok" /\ stream.read >= size
         => stream.map = encrypt(Bytes(size)).map]_fileVars

\* The output file is the old one, or all that was uploaded: never a part of
\* it, or chunks in a wrong order (file_download).
OutputWhole == out = Old \/ out = Content

\* An upload or a download that has ended, in whatever way, leaves no spill
\* directory and no temporary file, unless the process died (Drop of
\* ChunkSpill, the error paths of file_download).
NothingLeft ==
    /\ upload.pc \in {"ok", "failed", "prepared"} => ~spillDir
    /\ down.pc \in {"ok", "failed", "refused"} => tmp = NoFile

\* Without an I/O error, a cancellation, or a chunk that nobody who can be reached
\* has, an upload fails only when the file is too small or shrank, and a file
\* download fails in two cases only, neither of which its documentation names:
\* it is refused, by a peer that errs and is asked before one that has the chunk
\* (chunk.rs:251, against 212-215), or the map was shrunk twice (lib.rs:398).  Peers
\* that are unreachable or do not have the chunk are passed over, whatever the
\* order of the answers (chunk_get, fetch_next_batch, get_root_data_map_parallel).
\* In-memory downloads fail besides when the map was shrunk at all.
FailsOnlyOnFault ==
    ~faulty =>
        /\ UploadAt("failed") => Total < 3 \/ stream.read < size
        /\ down.pc = "failed" => IF down.kind = "file" THEN ~ShrunkOnce ELSE Total > 3

\* The documentation of data_download: it retrieves all the chunks the data map
\* refers to, then decrypts.  So it fails on a fault only.
DataDownloadWorks == ~faulty /\ down.kind = "data" => down.pc # "failed"

\* Uploads and downloads that started come to an end, and so does the encryption
\* task, also when its caller is gone (blocking_send, the channel of two).
TransfersEnd ==
    /\ TaskAt("open") ~> TaskEnded
    /\ UploadAt("spilling") ~> upload.pc \in {"ok", "failed", "prepared", "crashed"}
    /\ (down.pc \in {"root", "create", "data"}) ~> (down.pc \in {"ok", "failed", "refused", "off"})
=============================================================================
