------------------------------ MODULE MCArchive ------------------------------
(***************************************************************************)
(* How a byte of an archive is found and read, in one run: "part" says     *)
(* whether a behaviour is one of the chunked byte reader (ChunkRead,       *)
(* "bytes"), of a directory walk (PmtilesLookup, "walk") or of the archive *)
(* readers of a small cluster (ArchiveReader, "cluster").  The others rest *)
(* in an initial state.                                                    *)
(***************************************************************************)
EXTENDS ChunkRead, TLC

CONSTANTS Nodes, Tasks, TileGens, Interval, Cooldown, NoTask, a, b, a1, b1,
          MaxLookups, WideU64, MaxU32, MaxTileId, HeaderSize, BootstrapBytes,
          MaxRangeBytes, MaxDepth

VARIABLES part,
    file, store, lookup, reads, count,
    now, gen, pub, arch, absent, tiles, leafs, flight, stack, ans, draining,
    backoff, used, sc

-----------------------------------------------------------------------------
(* Archives of up to 16 bytes with chunks of one to four, a u64 to 16.     *)
MCChunkSizes == 1..4
MCArchiveLens == {0, 1, 7, 8, 14, 16}
OneRead == [size |-> 1, len |-> 1, start |-> 0, length |-> 1]

-----------------------------------------------------------------------------
(* PMTiles archives, with a u64 that ends at 31.                           *)
E(delta, run, length, offset) ==
    [delta |-> delta, run |-> run, length |-> length, offset |-> offset]
R(offset, length) == [offset |-> offset, length |-> length]
At(root, meta, leaf, data) ==
    ("root" :> root) @@ ("metadata" :> meta) @@ ("leaf" :> leaf) @@ ("data" :> data)
A(ok, size, at, root, leaves) ==
    [wellFormed |-> ok, size |-> size, at |-> at, root |-> root, leaves |-> leaves]
Layout == At(R(1, 2), R(3, 1), R(4, 6), R(10, 6))
NoLeaves == [k \in {} |-> <<>>]

\* A run, a gap, a contiguous tile, a shared tile, the last tile id.
Flat ==
    A(TRUE, 16, Layout,
      <<E(0, 2, 2, 1), E(3, 1, 2, 0), E(1, 1, 2, 1), E(5, 1, 1, 6)>>, NoLeaves)
\* Leaves of two levels beside a tile of the root.
Tree ==
    A(TRUE, 16, Layout, <<E(0, 1, 1, 1), E(2, 0, 2, 1), E(4, 0, 2, 0)>>,
      (R(4, 2) :> <<E(2, 1, 1, 2), E(2, 1, 1, 0)>>)
        @@ (R(6, 2) :> <<E(6, 0, 2, 5), E(2, 1, 1, 0)>>)
        @@ (R(8, 2) :> <<E(6, 2, 2, 4)>>))
\* A leaf that points to itself.
Circle == A(FALSE, 16, Layout, <<E(0, 0, 2, 1)>>, R(4, 2) :> <<E(0, 0, 2, 1)>>)
\* A tile past the data section, a leaf past the leaf section but inside the
\* archive, two entries of one id, a tile over the limit.
Outside ==
    A(FALSE, 16, Layout, <<E(0, 1, 3, 5), E(1, 0, 3, 5), E(0, 1, 1, 1), E(1, 1, 6, 1)>>,
      R(4, 2) :> <<E(0, 1, 1, 0)>>)
\* Data sections at the end of u64, one of them past it, in short files.
Truncated ==
    A(FALSE, 12, At(R(1, 2), R(3, 6), R(4, 6), R(26, 6)),
      <<E(0, 1, 2, 1), E(1, 1, 2, 5), E(28, 1, 2, 0), E(1, 1, 9, 0)>>, NoLeaves)
AtTheEnd ==
    A(FALSE, 16, At(R(1, 2), R(3, 0), R(4, 6), R(26, 5)),
      <<E(0, 1, 2, 1), E(1, 1, 2, 5), E(5, 1, 2, 31)>>, NoLeaves)

Walk == INSTANCE PmtilesLookup WITH
          arch <- file, MaxU64 <- WideU64, TileIds <- 0..10,
          Archives <- {Flat, Tree, Circle, Outside, Truncated, AtTheEnd}

-----------------------------------------------------------------------------
(* Two members, b first in rendezvous order for the archive and the tile,  *)
(* a client at each, and small instances of what may happen to them.       *)
Quiet == [start |-> 1, pubs |-> 0, dels |-> 0, ticks |-> 0, calls |-> 2,
          cancels |-> 0, faults |-> 0, drains |-> 0, slow |-> FALSE]
\* The object is replaced twice; generation 2 lacks the tile.
Replaced == [Quiet EXCEPT !.pubs = 2]
\* A cached pointer comes due, with or without a replacement before.
Aging == [Quiet EXCEPT !.pubs = 1, !.ticks = 1, !.calls = 3]
\* A read, an observation or a transfer fails.
Failing == [Quiet EXCEPT !.ticks = 1, !.faults = 1]
\* A member drains, and forwards outlast their deadline.
Draining == [Quiet EXCEPT !.drains = 1, !.slow = TRUE]
\* A client goes away and another follows.
Leaving == [Quiet EXCEPT !.calls = 3, !.cancels = 1]
\* The archive appears, and disappears again.
Appearing == [Quiet EXCEPT !.start = 0, !.pubs = 1, !.dels = 1]

Cluster == INSTANCE ArchiveReader WITH
             Home <- (a1 :> a) @@ (b1 :> b), ArchiveRank <- <<b, a>>, TileRank <- <<b, a>>,
             Scenarios <- {Replaced, Aging, Failing, Draining, Leaving, Appearing}

walkVars == <<file, store, lookup, reads, count>>
clusterVars == <<now, gen, pub, arch, absent, tiles, leafs, flight, stack, ans,
                 draining, backoff, used, sc>>

MCInit ==
    /\ Init /\ Walk!Init /\ Cluster!Init
    /\ part \in {"bytes", "walk", "cluster"}
    /\ part # "bytes" => req = OneRead
    /\ part # "walk" => file = Flat
    /\ part # "cluster" => sc = Failing

MCNext ==
    /\ UNCHANGED part
    /\ \/ part = "bytes" /\ Next /\ UNCHANGED <<walkVars, clusterVars>>
       \/ part = "walk" /\ Walk!Next /\ UNCHANGED <<vars, clusterVars>>
       \/ part = "cluster" /\ Cluster!Next /\ UNCHANGED <<vars, walkVars>>

\* Requests are polled when they can go on, and forwards meet their deadlines.
MCSpec ==
    /\ MCInit /\ [][MCNext]_<<part, vars, walkVars, clusterVars>>
    /\ \A t \in Tasks :
         WF_clusterVars(part = "cluster" /\ (Cluster!Step(t) \/ Cluster!Timeout(t)))

\* read_bytes: an answer holds exactly the requested bytes, a range inside an
\* archive whose last chunk ends within u64 is never refused, and the backend
\* groups cover the missing chunks once, within the configured limits.
ReadSound == ReadExact /\ ReadTotal /\ PlanSound

\* PmtilesLookup!LookupExact: a lookup finds exactly the tile whose run covers
\* the id.
LookupExact == Walk!LookupExact

\* PmtilesLookup!ReadsInside: whatever the directories say, each read stays
\* inside the section of its own kind, the limits and the depth.
ReadsInside == Walk!ReadsInside

\* ArchiveReader!OneGeneration: bytes of two generations are never put together.
OneGeneration == Cluster!OneGeneration

\* ArchiveReader!DueReobserved: a pointer that came due is renewed only by the
\* backend.
DueReobserved == Cluster!DueReobserved

\* ArchiveReader!RequestsReturn: every request returns.
RequestsReturn == Cluster!RequestsReturn
=============================================================================
