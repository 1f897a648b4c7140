------------------------------ MODULE ChunkRead ------------------------------
(***************************************************************************)
(* One read through Ishikari's chunked store                               *)
(* (ChunkedStore::read_bytes): the byte range is checked, mapped to        *)
(* chunks, the chunks that are not cached are fetched in planned groups,   *)
(* every fetched group is cut into chunks, and the bytes of the answer are *)
(* put together from them.  Byte i of the archive is the number i, so that *)
(* an answer shows which bytes it is made of.                              *)
(***************************************************************************)
EXTENDS ChunkRanges, SequencesExt

CONSTANTS
    ChunkSizes,     \* chunk sizes to read with
    ArchiveLens,    \* archive lengths
    MaxStart,       \* largest start of a read
    MaxLength,      \* largest length of a read
    MaxFetchChunks, \* max_fetch_chunks
    MaxChunkGap     \* MAX_CHUNK_GAP

ASSUME ChunkReadAssumption ==
    /\ ChunkSizes \subseteq Nat \ {0} /\ ArchiveLens \subseteq Nat
    /\ MaxStart \in Nat /\ MaxLength \in Nat /\ MaxFetchChunks \in Nat
    /\ MaxChunkGap \in Nat

VARIABLES
    req,       \* chunk size, archive length, start and length of the read
    resolved,  \* resolved_chunks: chunk index to bytes
    missing,   \* missing_chunks
    groups,    \* the planned backend ranges
    fetched,   \* how many of them were fetched
    outcome    \* where the read is, or how it ended

vars == <<req, resolved, missing, groups, fetched, outcome>>

Archive(len) == [i \in 1..len |-> i - 1]

\* The bytes of one chunk of the archive.
ChunkBytes(c) ==
    SubSeq(Archive(req.len), c * req.size + 1, Least((c + 1) * req.size, req.len))

End == req.start + req.length

NeededChunks == ByteRangeToChunks(req.start, End, req.size)

Init ==
    /\ req \in [size : ChunkSizes, len : ArchiveLens,
                start : 0..MaxStart, length : 0..MaxLength]
    /\ resolved = <<>> /\ missing = {} /\ groups = <<>> /\ fetched = 0
    /\ outcome = "start"

\* A range outside the archive is refused, an empty one is answered at once.
Validate ==
    /\ outcome = "start"
    /\ \/ /\ ~ValidByteRange(req.start, req.length, req.len)
          /\ outcome' = "error"
       \/ /\ ValidByteRange(req.start, req.length, req.len)
          /\ outcome' = IF req.length = 0 THEN "done" ELSE "valid"
    /\ UNCHANGED <<req, resolved, missing, groups, fetched>>

\* Each needed chunk is cached or not; the missing ones are planned.
Lookup ==
    /\ outcome = "valid"
    /\ \E cached \in SUBSET NeededChunks :
         /\ resolved' = [c \in cached |-> ChunkBytes(c)]
         /\ missing' = NeededChunks \ cached
    /\ groups' = ContiguousChunkRanges(missing', MaxFetchChunks, MaxChunkGap)
    /\ outcome' = "reading"
    /\ UNCHANGED <<req, fetched>>

\* The next group is fetched whole and cut into chunks; a chunk that is in a
\* group only to bridge a gap is cut as well, but not part of this answer.
FetchGroup ==
    LET group  == groups[fetched + 1]
        bytes  == Slice(Archive(req.len), GroupSpan(group, req.size, req.len))
        wanted == Indices(group) \cap missing
    IN /\ outcome = "reading" /\ fetched < Len(groups)
       /\ IF /\ GroupInArchive(group, req.size, req.len)
             /\ Sliceable(group, req.size, req.len, Len(bytes))
          THEN /\ resolved' = [c \in DOMAIN resolved \cup wanted |->
                      IF c \in wanted
                      THEN Slice(bytes, ChunkSlice(group, c, req.size, req.len))
                      ELSE resolved[c]]
               /\ fetched' = fetched + 1
               /\ UNCHANGED outcome
          ELSE outcome' = "error" /\ UNCHANGED <<resolved, fetched>>
       /\ UNCHANGED <<req, missing, groups>>

\* What the reconstruction takes from one resolved chunk.
Take(c) ==
    LET offset == IF c = req.start \div req.size THEN req.start % req.size ELSE 0
        before == IF c = req.start \div req.size THEN 0
                  ELSE c * req.size - req.start
    IN Slice(resolved[c],
             [from |-> offset,
              to   |-> Least(Len(resolved[c]), offset + req.length - before)])

\* Mutant: every chunk is read from the offset of the first one.
AssembledShifted ==
    FlattenSeq([i \in 1..Cardinality(NeededChunks) |->
                  LET c == req.start \div req.size + i - 1
                  IN Slice(resolved[c], [from |-> req.start % req.size,
                                         to |-> Len(resolved[c])])])

\* read_resolved_bytes and slice_single_chunk
Assembled ==
    FlattenSeq([i \in 1..Cardinality(NeededChunks) |->
                  Take(req.start \div req.size + i - 1)])

\* The answer, or an error when the resolved chunks do not hold all of it.
Assemble ==
    /\ outcome = "reading" /\ fetched = Len(groups)
    /\ outcome' = IF Len(Assembled) = req.length THEN "done" ELSE "error"
    /\ UNCHANGED <<req, resolved, missing, groups, fetched>>

Next == Validate \/ Lookup \/ FetchGroup \/ Assemble

Spec == Init /\ [][Next]_vars

-----------------------------------------------------------------------------

\* read_bytes: an answer holds exactly the requested bytes of the archive,
\* however the range falls on chunk boundaries and whatever was cached.
ReadExact ==
    outcome = "done" /\ req.length > 0
    => Assembled = SubSeq(Archive(req.len), req.start + 1, End)

\* A range inside an archive whose last chunk ends within u64 is never refused.
ReadTotal ==
    /\ req.start + req.length <= req.len
    /\ req.len + req.size <= MaxU64
    => outcome # "error"

\* contiguous_chunk_ranges: the plan covers every missing chunk exactly once,
\* in ascending order, bridges no more than MAX_CHUNK_GAP chunks, stays within
\* max_fetch_chunks, starts and ends every range at a missing chunk, and keeps
\* neighbouring ranges apart only where a limit forbids their union.
PlanSound ==
    /\ \A c \in missing : \E i \in DOMAIN groups : c \in Indices(groups[i])
    /\ \A i \in DOMAIN groups :
         /\ groups[i].from \in missing /\ groups[i].to - 1 \in missing
         /\ Cardinality(Indices(groups[i])) <= IF MaxFetchChunks < 1 THEN 1
                                               ELSE MaxFetchChunks
         /\ \A c \in Indices(groups[i]) :
              \E d \in missing \cap Indices(groups[i]) : c \in d..(d + MaxChunkGap)
    /\ \A i \in 1..(Len(groups) - 1) : groups[i].to <= groups[i + 1].from
    /\ \A i \in 1..(Len(groups) - 1) :
         \/ groups[i + 1].from > groups[i].to + MaxChunkGap
         \/ groups[i + 1].from + 1 - groups[i].from > MaxFetchChunks
=============================================================================
