----------------------------- MODULE ChunkRanges -----------------------------
(***************************************************************************)
(* The range arithmetic of Ishikari's chunked store                        *)
(* (ishikari-core/src/storage/chunked_store): which chunks a byte range    *)
(* needs, which backend ranges fetch them, and how a fetched range is cut  *)
(* into chunks.  A half-open range is a record [from, to].                 *)
(***************************************************************************)
EXTENDS Integers, Sequences, FiniteSets

\* The largest value of a u64; a checked operation beyond it is an error.
CONSTANT MaxU64

ASSUME ChunkRangesAssumption == MaxU64 \in Nat

\* checked_mul returns None.
MulOverflows(a, b) == a * b > MaxU64

Indices(r) == r.from .. (r.to - 1)

Least(a, b) == IF a < b THEN a ELSE b

\* validate_byte_range
ValidByteRange(start, length, archiveLen) ==
    /\ start + length <= MaxU64
    /\ start <= archiveLen /\ start + length <= archiveLen

\* byte_range_to_chunk_range of a non-empty range, as a set of indices.
ByteRangeToChunks(start, end, chunkSize) ==
    (start \div chunkSize) .. ((end - 1) \div chunkSize)

-----------------------------------------------------------------------------
(* contiguous_chunk_ranges: one pass over the chunks in ascending order    *)
(* that extends the open range while the gap and the size limit allow it.  *)

\* The condition under which a chunk joins the open range.
Extends(open, chunk, maxFetch, gap) ==
    chunk <= open.to + gap /\ chunk + 1 - open.from <= maxFetch

\* A set of indices in the order of a BTreeSet.
Ascending(S) ==
    [i \in 1..Cardinality(S) |->
        CHOOSE x \in S : Cardinality({y \in S : y < x}) = i - 1]

ContiguousChunkRanges(chunks, maxFetchChunks, gap) ==
    LET maxFetch == IF maxFetchChunks < 1 THEN 1 ELSE maxFetchChunks
        order == Ascending(chunks)
        step(ranges, chunk) ==
            IF ranges # <<>> /\ Extends(ranges[Len(ranges)], chunk, maxFetch, gap)
            THEN [ranges EXCEPT ![Len(ranges)].to = chunk + 1]
            ELSE Append(ranges, [from |-> chunk, to |-> chunk + 1])
        planned[i \in 0..Len(order)] ==
            IF i = 0 THEN <<>> ELSE step(planned[i - 1], order[i])
    IN planned[Len(order)]

-----------------------------------------------------------------------------
(* fetch_chunk_group and cache_chunk_group                                 *)

\* fetch_chunk_group refuses a group whose bounds overflow or lie outside.
GroupInArchive(group, chunkSize, archiveLen) ==
    /\ ~MulOverflows(group.from, chunkSize) /\ ~MulOverflows(group.to, chunkSize)
    /\ group.from * chunkSize < Least(group.to * chunkSize, archiveLen)

\* The byte range that fetch_chunk_group requests.
GroupSpan(group, chunkSize, archiveLen) ==
    [from |-> group.from * chunkSize,
     to   |-> Least(group.to * chunkSize, archiveLen)]

\* The slice of a fetched range that holds one chunk, relative to its start.
ChunkSlice(group, chunk, chunkSize, archiveLen) ==
    [from |-> (chunk - group.from) * chunkSize,
     to   |-> Least((chunk + 1) * chunkSize, archiveLen) - group.from * chunkSize]

\* chunk_slices accepts a group of which bytesLen bytes were fetched.
Sliceable(group, chunkSize, archiveLen, bytesLen) ==
    \A c \in Indices(group) :
        /\ ~MulOverflows(c + 1, chunkSize)
        /\ c * chunkSize < Least((c + 1) * chunkSize, archiveLen)
        /\ ChunkSlice(group, c, chunkSize, archiveLen).to <= bytesLen

\* The bytes of a half-open slice of a sequence.
Slice(bytes, r) == SubSeq(bytes, r.from + 1, r.to)
=============================================================================
