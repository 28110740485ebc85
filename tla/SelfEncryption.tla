--------------------------- MODULE SelfEncryption ---------------------------
(***************************************************************************)
(* The algorithms of the crate self_encryption: how data is cut into       *)
(* chunks, which chunks give the key of which, how a data map that has     *)
(* become too long is itself encrypted, and the way back.                  *)
(*                                                                         *)
(* Data is a sequence of units.  Ciphers and hashes are symbolic: an       *)
(* encrypted chunk is its content together with the key material, opened   *)
(* by the same material only, and the hash of a content is the content.    *)
(* In a serialized data map, a header and every chunk info take one unit.  *)
(***************************************************************************)
EXTENDS Integers, Sequences, FiniteSets, SequencesExt

CONSTANT MaxChunk     \* MAX_CHUNK_SIZE, in units
\* In chunks of one unit a map would never become shorter.
ASSUME MaxChunkAssumption == MaxChunk \in Nat \ {0, 1}

MinChunk == 1
\* An error of a function that returns data, or a data map.
Failed == << <<"failed", 0>> >>
NoMap == [infos |-> <<>>, child |-> -1]
-----------------------------------------------------------------------------
(* Chunk boundaries *)

get_num_chunks(size) ==
    CASE size < 3 * MinChunk -> 0
      [] size >= 3 * MinChunk /\ size < 3 * MaxChunk -> 3
      [] OTHER -> (size + MaxChunk - 1) \div MaxChunk

\* The last two chunks share what does not fill a chunk.
get_chunk_size(size, i) ==
    LET n == get_num_chunks(size)
        r == size % MaxChunk
    IN  CASE n = 0 -> 0
          [] n > 0 /\ size < 3 * MaxChunk -> IF i < 2 THEN size \div 3 ELSE size - 2 * (size \div 3)
          [] n > 0 /\ size >= 3 * MaxChunk /\ (i < n - 2 \/ r = 0) -> MaxChunk
          [] OTHER -> LET penultimate == i = n - 2
                      IN  IF r < MinChunk
                          THEN IF penultimate THEN MaxChunk - MinChunk ELSE MinChunk + r
                          ELSE IF penultimate THEN MaxChunk ELSE r

get_start_position(size, i) ==
    LET n == get_num_chunks(size)
    IN  CASE n = 0 -> 0
          [] n > 0 /\ i = n - 1 -> get_chunk_size(size, 0) * (i - 1) + get_chunk_size(size, i - 1)
          [] OTHER -> get_chunk_size(size, 0) * i

\* The half-open range of a chunk.
get_start_end_positions(size, i) ==
    IF get_num_chunks(size) = 0 THEN <<0, 0>>
    ELSE LET start == get_start_position(size, i)
         IN  <<start, start + get_chunk_size(size, i)>>

Slice(data, range) == SubSeq(data, range[1] + 1, range[2])
-----------------------------------------------------------------------------
(* One chunk *)

\* The two chunks whose hashes go into the key of chunk i.
get_n_1_n_2(i, n) ==
    CASE i = 0 -> <<n - 1, n - 2>>
      [] i = 1 -> <<0, n - 1>>
      [] OTHER -> <<i - 1, i - 2>>

\* Pad, key and nonce, derived from all of these.
get_pki(src, n_1_src, n_2_src, i, level) == <<src, n_1_src, n_2_src, i, level>>

\* hashes is a function on chunk indices.
get_pad_key_and_nonce(i, hashes, level) ==
    LET n == get_n_1_n_2(i, Cardinality(DOMAIN hashes))
    IN  get_pki(hashes[i], hashes[n[1]], hashes[n[2]], i, level)

\* Chunks as a sequence, in some order.
InSomeOrder(chunks) == FoldSet(LAMBDA c, s : Append(s, c), <<>>, chunks)

encrypt_chunk(content, pki) == [body |-> content, key |-> pki]

\* The cipher is authenticated: another key is an error.
decrypt_chunk(i, chunk, hashes, level) ==
    IF i \in DOMAIN hashes /\ chunk.key = get_pad_key_and_nonce(i, hashes, level)
    THEN chunk.body ELSE Failed
-----------------------------------------------------------------------------
(* Data maps.  child is 0 for None. *)

ChunkInfo(src, chunk) == [dst |-> chunk, src |-> src, size |-> Len(src)]

DataMap(infos, child) == [infos |-> infos, child |-> child]
MapLen(map) == Cardinality(DOMAIN map.infos)
is_child(map) == map.child > 0
extract_hashes(map) == [i \in DOMAIN map.infos |-> map.infos[i].src]

to_bytes(map) ==
    << <<"head", map.child>> >>
        \o [i \in 1 .. MapLen(map) |-> <<"info", map.infos[i - 1]>>]

from_bytes(data) ==
    IF data # <<>> /\ data[1][1] = "head"
    THEN DataMap([i \in 0 .. Len(data) - 2 |-> data[i + 2][2]], data[1][2])
    ELSE NoMap
-----------------------------------------------------------------------------
(* encrypt *)

\* encrypt_with_child_level without the shrinking at its end: the data map and
\* the chunks, by index.
EncryptLevel(data, level) ==
    LET n == get_num_chunks(Len(data))
        src == [i \in 0 .. n - 1 |-> Slice(data, get_start_end_positions(Len(data), i))]
        enc == [i \in 0 .. n - 1 |-> encrypt_chunk(src[i], get_pad_key_and_nonce(i, src, level))]
    IN  [map |-> DataMap([i \in 0 .. n - 1 |-> ChunkInfo(src[i], enc[i])], 0),
         chunks |-> {enc[i] : i \in 0 .. n - 1}]

\* One level more: a map that is longer than 3 is encrypted and replaced by the
\* map of that.
ShrinkLevel(s) ==
    IF MapLen(s.map) <= 3 THEN s
    ELSE LET enc == EncryptLevel(to_bytes(s.map), s.map.child + 1)
         IN  [map |-> enc.map, chunks |-> s.chunks \cup enc.chunks]

\* shrink_data_map.  Encrypting shrinks too, so what its loop gets from
\* encrypt_with_child_level is the end of all levels, each of which began with a
\* map without a level; the loop writes its own level over it and ends.  A map
\* of n chunks has fewer than n levels over it.
shrink_data_map(map) ==
    LET start == [map |-> map, chunks |-> {}]
        level[k \in Nat] == IF k = 0 THEN start ELSE ShrinkLevel(level[k - 1])
        end == level[MapLen(map)]
    IN  IF MapLen(map) <= 3 THEN start
        ELSE [map |-> DataMap(end.map.infos, map.child + 1), chunks |-> end.chunks]

\* encrypt, of at least MIN_ENCRYPTABLE_BYTES.
encrypt(data) ==
    LET enc == EncryptLevel(data, 0)
        shrunk == shrink_data_map(enc.map)
    IN  [map |-> shrunk.map, chunks |-> enc.chunks \cup shrunk.chunks]
-----------------------------------------------------------------------------
(* decrypt *)

\* decrypt_full_set and decrypt_sorted_set: chunks are looked up by their hash
\* and opened in the order of the map.
decrypt_full_set(map, chunks) ==
    LET n == MapLen(map)
        part == [i \in 1 .. n |->
                   IF map.infos[i - 1].dst \in chunks
                   THEN decrypt_chunk(i - 1, map.infos[i - 1].dst, extract_hashes(map), map.child)
                   ELSE Failed]
    IN  IF \E i \in 1 .. n : part[i] = Failed THEN Failed ELSE FlattenSeq(part)

\* The map that a child map has been made of.
Parent(map, chunks) ==
    IF ~is_child(map) THEN map
    ELSE LET data == decrypt_full_set(map, chunks)
         IN  IF data = Failed THEN NoMap ELSE from_bytes(data)

\* get_root_data_map, over the chunks that can be had; it gives up at a depth of
\* more than MaxDepth.
MaxDepth == 100
get_root_data_map(map, chunks) ==
    LET up[d \in Nat] == IF d = 0 THEN map ELSE Parent(up[d - 1], chunks)
    IN  IF \E d \in 0 .. MaxDepth : ~is_child(up[d])
        THEN up[CHOOSE d \in 0 .. MaxDepth : ~is_child(up[d])]
        ELSE NoMap

\* decrypt: everything from the given chunks.
decrypt(map, chunks) ==
    LET root == get_root_data_map(map, chunks)
    IN  IF root.child < 0 THEN Failed ELSE decrypt_full_set(root, chunks)
-----------------------------------------------------------------------------
(* Random access: DecryptionStream over a root map *)

SumSizes(map, S) == FoldSet(LAMBDA i, n : n + map.infos[i].size, 0, S)

file_size(map) == SumSizes(map, DOMAIN map.infos)

get_chunk_start_position(map, i) == SumSizes(map, {j \in DOMAIN map.infos : j < i})

\* The last chunk, for a position after the end.
get_chunk_index_from_infos(map, position) ==
    LET within == {i \in DOMAIN map.infos :
                     LET start == get_chunk_start_position(map, i)
                     IN  start <= position /\ position < start + map.infos[i].size}
    IN  IF within = {} THEN MapLen(map) - 1 ELSE CHOOSE i \in within : \A j \in within : i <= j

\* Mutant: the offset is not taken from the first chunk that was fetched.
get_range_no_offset(map, chunks, start, len) ==
    LET end == IF start + len < file_size(map) THEN start + len ELSE file_size(map)
        first == get_chunk_index_from_infos(map, start)
        last == get_chunk_index_from_infos(map, end - 1)
        part == [k \in 1 .. last - first + 1 |->
                   decrypt_chunk(first + k - 1, map.infos[first + k - 1].dst, extract_hashes(map), map.child)]
    IN  IF start >= file_size(map) \/ end = start THEN <<>> ELSE Slice(FlattenSeq(part), <<0, end - start>>)

\* chunks are those the fetch function has; one it does not have is left out.
get_range(map, chunks, start, len) ==
    LET end == IF start + len < file_size(map) THEN start + len ELSE file_size(map)
        first == get_chunk_index_from_infos(map, start)
        last == get_chunk_index_from_infos(map, end - 1)
        part == [k \in 1 .. last - first + 1 |->
                   LET i == first + k - 1
                   IN  IF map.infos[i].dst \in chunks
                       THEN decrypt_chunk(i, map.infos[i].dst, extract_hashes(map), map.child)
                       ELSE <<>>]
        bytes == FlattenSeq(part)
        offset == start - get_chunk_start_position(map, first)
    IN  CASE start >= file_size(map) \/ end = start -> <<>>
          [] start < file_size(map) /\ end # start /\ Failed \in {part[k] : k \in DOMAIN part} -> Failed
          [] OTHER -> IF offset >= Len(bytes) THEN <<>>
                      ELSE Slice(bytes, <<offset, IF offset + end - start < Len(bytes)
                                                  THEN offset + end - start ELSE Len(bytes)>>)

\* saturating_sub
Saturating(a, b) == IF a > b THEN a - b ELSE 0

range(map, chunks, start, end) == get_range(map, chunks, start, Saturating(end, start))
range_from(map, chunks, start) == get_range(map, chunks, start, Saturating(file_size(map), start))
range_inclusive(map, chunks, start, end) == get_range(map, chunks, start, Saturating(end, start) + 1)
=============================================================================
