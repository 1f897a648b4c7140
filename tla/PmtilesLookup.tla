---------------------------- MODULE PmtilesLookup ----------------------------
(***************************************************************************)
(* Lookups in one generation of a PMTiles archive (mmpf-pmtiles): the      *)
(* bootstrap is read and decoded, the directory tree is walked from the    *)
(* root through leaf directories to a tile, and the tile's bytes are read. *)
(* Decoded directories are kept in a DirectoryStore, so a later lookup     *)
(* walks what an earlier one decoded.                                      *)
(*                                                                         *)
(* A directory is stored as a sequence of encoded entries: the tile id as  *)
(* a difference from the entry before, and the offset either plus one or,  *)
(* as zero, "right after the entry before".  What compression and varints  *)
(* make of them is left out; a block that does not decode is not a         *)
(* directory of the archive.                                               *)
(***************************************************************************)
EXTENDS Integers, Sequences, FiniteSets, SequencesExt

CONSTANTS
    Archives,       \* archives to look tiles up in
    TileIds,        \* tile ids asked for
    MaxLookups,     \* lookups made one after the other
    MaxU64,         \* largest u64
    MaxU32,         \* largest u32
    MaxTileId,      \* MAX_TILE_ID
    HeaderSize,     \* HEADER_SIZE
    BootstrapBytes, \* bootstrap_bytes
    MaxRangeBytes,  \* max_range_bytes
    MaxDepth        \* max_directory_depth

VARIABLES
    arch,    \* the archive: size, the four sections, root and leaf blocks
    store,   \* DirectoryStore: decoded bootstrap, metadata flag, leaves
    lookup,  \* the request under way and how far its walk is
    reads,   \* source ranges it has asked for
    count    \* lookups begun

vars == <<arch, store, lookup, reads, count>>

Sections == {"root", "metadata", "leaf", "data"}

Idle == [pc |-> "idle"]

-----------------------------------------------------------------------------
(* The format.                                                             *)

\* One encoded entry after another; bad once any of the checks has failed.
DecodeEntry(acc, e) ==
    LET id     == acc.id + e.delta
        offset == IF e.offset = 0 THEN acc.end ELSE e.offset - 1
        end    == offset + e.length
    IN [id |-> id, end |-> end, first |-> FALSE,
        bad |-> \/ acc.bad \/ id > MaxU64 \/ e.run > MaxU32 \/ e.length > MaxU32
                \/ e.offset = 0 /\ (acc.first \/ acc.end > MaxU64),
        entries |-> Append(acc.entries, [id |-> id, run |-> e.run,
                                         length |-> e.length, offset |-> offset])]

\* Directory::parse_with_limit
Parse(block) ==
    FoldLeft(DecodeEntry,
             [id |-> 0, end |-> 0, first |-> TRUE, bad |-> FALSE, entries |-> <<>>],
             block)

IsLeaf(entry) == entry.run = 0

\* Mutant: the run's last tile id is one further.
FindTileIdLong(dir, id) ==
    LET exact  == {i \in DOMAIN dir : dir[i].id = id}
        before == Cardinality({i \in DOMAIN dir : dir[i].id < id})
    IN IF exact # {} THEN exact
       ELSE {i \in {before} \ {0} : IsLeaf(dir[i]) \/ id - dir[i].id <= dir[i].run}

\* find_tile_id: the entries the binary search may answer with.
FindTileId(dir, id) ==
    LET exact  == {i \in DOMAIN dir : dir[i].id = id}
        before == Cardinality({i \in DOMAIN dir : dir[i].id < id})
    IN IF exact # {} THEN exact
       ELSE {i \in {before} \ {0} : IsLeaf(dir[i]) \/ id - dir[i].id < dir[i].run}

SectionEnd(s) == arch.at[s].offset + arch.at[s].length

\* Header::parse and archive_len: no section ends past u64.
HeaderOk == \A s \in Sections : SectionEnd(s) <= MaxU64

\* decode_bootstrap_bytes: the header and the root lie in the bytes read.
BootstrapOk ==
    LET body == IF arch.size < BootstrapBytes THEN arch.size ELSE BootstrapBytes
    IN /\ body >= HeaderSize
       /\ HeaderOk
       /\ SectionEnd("root") <= body
       /\ ~Parse(arch.root).bad

\* Mutant: the entry is compared with the end of the archive, not of its section.
InArchive(s, entry) ==
    \E t \in Sections : arch.at[s].offset + entry.offset + entry.length <= SectionEnd(t)

\* checked_section_offset
InSection(s, entry) == entry.offset + entry.length <= arch.at[s].length

\* The absolute range of an entry.
Absolute(s, entry) ==
    [offset |-> arch.at[s].offset + entry.offset, length |-> entry.length]

\* check_range
RangeOk(range) ==
    range.length <= MaxRangeBytes /\ range.offset + range.length <= MaxU64

-----------------------------------------------------------------------------
(* The reader.                                                             *)

\* validate_limits: a reader is made only with limits that make sense.
ValidLimits ==
    MaxDepth > 0 /\ BootstrapBytes > 0 /\ MaxRangeBytes >= BootstrapBytes

Init ==
    /\ ValidLimits
    /\ arch \in Archives
    /\ store = [root |-> <<>>, booted |-> FALSE, metadata |-> FALSE, leaves |-> <<>>]
    /\ lookup = Idle /\ reads = <<>> /\ count = 0

\* lookup_with_trace and get_tile begin; an id past the last one is refused.
Begin(id) ==
    /\ lookup.pc \in {"idle", "missing", "found", "error"} /\ count < MaxLookups
    /\ lookup' = [pc |-> IF id > MaxTileId THEN "error" ELSE "bootstrap",
                  id |-> id, depth |-> 0, goal |-> "tile"]
    /\ reads' = <<>> /\ count' = count + 1
    /\ UNCHANGED <<arch, store>>

\* metadata begins
BeginMetadata ==
    /\ lookup.pc \in {"idle", "missing", "found", "error"} /\ count < MaxLookups
    /\ lookup' = [pc |-> "bootstrap", id |-> 0, depth |-> 0, goal |-> "metadata"]
    /\ reads' = <<>> /\ count' = count + 1
    /\ UNCHANGED <<arch, store>>

Fail == lookup' = [lookup EXCEPT !.pc = "error"]

\* What follows the bootstrap: the walk of the root, or the metadata.
AfterBootstrap(root) ==
    lookup' = IF lookup.goal = "metadata" THEN [lookup EXCEPT !.pc = "metadata"]
              ELSE [pc |-> "walk", id |-> lookup.id, depth |-> 0, goal |-> "tile",
                    dir |-> root]

\* load_bootstrap: from the store, or read, decoded and stored.
LoadBootstrap ==
    /\ lookup.pc = "bootstrap"
    /\ \/ /\ store.booted
          /\ AfterBootstrap(store.root)
          /\ UNCHANGED <<store, reads>>
       \/ /\ ~store.booted
          /\ reads' = Append(reads, [offset |-> 0, length |-> BootstrapBytes,
                                     kind |-> "bootstrap"])
          /\ \/ /\ BootstrapOk
                /\ store' = [store EXCEPT !.booted = TRUE,
                                          !.root = Parse(arch.root).entries]
                /\ AfterBootstrap(store'.root)
             \/ Fail /\ UNCHANGED store  \* a read that failed, or a bad archive
    /\ UNCHANGED <<arch, count>>

\* load_metadata, once the bootstrap is there.
LoadMetadata ==
    LET range == arch.at["metadata"]
    IN /\ lookup.pc = "metadata"
       /\ \/ /\ store.metadata \/ range.length = 0
             /\ lookup' = [lookup EXCEPT !.pc = "found"]
             /\ store' = [store EXCEPT !.metadata = TRUE]
             /\ UNCHANGED reads
          \/ /\ ~store.metadata /\ range.length \in 1..MaxRangeBytes
             /\ reads' = Append(reads, [offset |-> range.offset,
                                        length |-> range.length, kind |-> "metadata"])
             /\ \/ /\ SectionEnd("metadata") <= arch.size
                   /\ store' = [store EXCEPT !.metadata = TRUE]
                   /\ lookup' = [lookup EXCEPT !.pc = "found"]
                \/ Fail /\ UNCHANGED store
          \/ /\ ~store.metadata /\ range.length > MaxRangeBytes
             /\ Fail /\ UNCHANGED <<store, reads>>
       /\ UNCHANGED <<arch, count>>

\* The walker stands before entry i of the directory, a leaf pointer: it goes
\* one level down, or gives up.
Descend(i) ==
    LET entry == lookup.dir[i]
        range == Absolute("leaf", entry)
    IN /\ IsLeaf(entry)
       /\ IF lookup.depth < MaxDepth /\ InSection("leaf", entry) /\ RangeOk(range)
          THEN lookup' = [pc |-> "leaf", id |-> lookup.id, depth |-> lookup.depth + 1,
                          goal |-> "tile", range |-> range]
          ELSE Fail

\* It stands before a tile entry.
Locate(i) ==
    LET entry == lookup.dir[i]
        range == Absolute("data", entry)
    IN /\ ~IsLeaf(entry)
       /\ IF InSection("data", entry) /\ RangeOk(range)
          THEN lookup' = [pc |-> "tile", id |-> lookup.id, depth |-> lookup.depth,
                          goal |-> "tile", range |-> range]
          ELSE Fail

\* DirectoryWalker::step in resolve_tile_location
Step ==
    LET hits == FindTileId(lookup.dir, lookup.id)
    IN /\ lookup.pc = "walk"
       /\ \/ hits = {} /\ lookup' = [pc |-> "missing", id |-> lookup.id,
                                     depth |-> lookup.depth, goal |-> "tile"]
          \/ \E i \in hits : Descend(i) \/ Locate(i)
       /\ UNCHANGED <<arch, store, reads, count>>

\* load_leaf: from the store, or read, decoded and stored.
LoadLeaf ==
    LET key == lookup.range
        Walk(dir) == lookup' = [pc |-> "walk", id |-> lookup.id, goal |-> "tile",
                                depth |-> lookup.depth, dir |-> dir]
    IN /\ lookup.pc = "leaf"
       /\ \/ /\ key \in DOMAIN store.leaves
             /\ Walk(store.leaves[key])
             /\ UNCHANGED <<store, reads>>
          \/ /\ key \notin DOMAIN store.leaves
             /\ reads' = Append(reads, [offset |-> key.offset, length |-> key.length,
                                        kind |-> "leaf"])
             /\ \/ /\ key.offset + key.length <= arch.size
                   /\ key \in DOMAIN arch.leaves /\ ~Parse(arch.leaves[key]).bad
                   /\ Walk(Parse(arch.leaves[key]).entries)
                   /\ store' = [store EXCEPT !.leaves =
                                  [k \in DOMAIN @ \cup {key} |->
                                     IF k = key THEN Parse(arch.leaves[key]).entries
                                     ELSE @[k]]]
                \/ Fail /\ UNCHANGED store
       /\ UNCHANGED <<arch, count>>

\* get_tile reads the tile; a short read is an error.
ReadTile ==
    /\ lookup.pc = "tile"
    /\ reads' = Append(reads, [offset |-> lookup.range.offset,
                               length |-> lookup.range.length, kind |-> "tile"])
    /\ \/ /\ lookup.range.offset + lookup.range.length <= arch.size
          /\ lookup' = [lookup EXCEPT !.pc = "found"]
       \/ Fail
    /\ UNCHANGED <<arch, store, count>>

Next ==
    \/ \E id \in TileIds : Begin(id)
    \/ BeginMetadata
    \/ LoadBootstrap \/ LoadMetadata \/ Step \/ LoadLeaf \/ ReadTile

Spec == Init /\ [][Next]_vars

-----------------------------------------------------------------------------
(* Properties.                                                             *)

\* What an archive says, without a walk: the tile entries of all directories.
TileEntries ==
    LET blocks == {arch.root} \cup {arch.leaves[k] : k \in DOMAIN arch.leaves}
    IN UNION {{e \in ToSet(Parse(b).entries) : ~IsLeaf(e)} : b \in blocks}

Covering(id) == {e \in TileEntries : id >= e.id /\ id - e.id < e.run}

\* resolve_tile_location: in an archive that keeps the format's rules, a
\* lookup finds exactly the tile whose run covers the id, wherever the tree
\* put it, and reports a tile missing only when no directory has it.
LookupExact ==
    arch.wellFormed /\ lookup.pc \in {"missing", "tile"}
    => IF lookup.pc = "missing" THEN Covering(lookup.id) = {}
       ELSE {Absolute("data", e) : e \in Covering(lookup.id)} = {lookup.range}

\* The section a read of each kind belongs to.
SectionOf(kind) ==
    CASE kind = "leaf" -> "leaf" [] kind = "tile" -> "data" [] kind = "metadata" -> "metadata"

\* DirectoryWalker and check_range: whatever the directories of an archive
\* say, a lookup reads a leaf directory only inside the leaf section, a tile
\* only inside the data section and the metadata only inside its own, never
\* more than max_range_bytes at a time, and no more leaves than
\* max_directory_depth, also when leaves point in a circle.
ReadsInside ==
    /\ \A i \in DOMAIN reads :
         reads[i].kind # "bootstrap"
         => LET s == SectionOf(reads[i].kind)
            IN /\ arch.at[s].offset <= reads[i].offset
               /\ reads[i].offset + reads[i].length <= SectionEnd(s)
               /\ reads[i].length <= MaxRangeBytes
    /\ Cardinality({i \in DOMAIN reads : reads[i].kind = "leaf"}) <= MaxDepth
    /\ lookup.pc # "idle" => lookup.depth <= MaxDepth
=============================================================================
