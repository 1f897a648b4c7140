---------------------------- MODULE MCTileServing ----------------------------
(***************************************************************************)
(* What Ishikari shares between requests for tiles, in one run: the chunk  *)
(* fetches below a tile (ChunkCoordinator, part = "chunks") and the terrain *)
(* tiles generated above it (DerivedTiles, part = "derived").  The one that *)
(* is not in part rests in an initial state.                               *)
(***************************************************************************)
EXTENDS ChunkCoordinator, DerivedTiles, TLC

CONSTANTS c1, c2

VARIABLE part

MCChunks == {0, 1, 2, 3, 6}

\* Ranges that overlap in flight (the second bridges the first), more ranges
\* than an archive or the process may fetch, and an object that is replaced.
MCScenarios ==
    {[want |-> (c1 :> {1}) @@ (c2 :> {0, 1, 2}), known |-> {c1, c2},
      deaths |-> 1, replacements |-> 0],
     [want |-> (c1 :> {0, 3}) @@ (c2 :> {6}), known |-> {c1, c2},
      deaths |-> 0, replacements |-> 0],
     [want |-> (c1 :> {0}) @@ (c2 :> {0}), known |-> {c1},
      deaths |-> 0, replacements |-> 1]}

Pair(a, b) == (1 :> a) @@ (2 :> b)
Homes(a, b) == ("center" :> a) @@ ("neighbour" :> b)
Generations(a, b) == ("A" :> a) @@ ("B" :> b)

\* Two requests for one MLT tile while its archive is replaced; two products
\* with a neighbour in another archive, which an owner may answer; an archive
\* that appears.
SameTile ==
    [product |-> Pair("p", "p"), format |-> Pair("mlt", "mlt"), owned |-> FALSE,
     home |-> Homes("A", "A"), ptr |-> Generations(1, 2)]
TwoProducts ==
    [product |-> Pair("p", "q"), format |-> Pair("stored", "mlt"), owned |-> TRUE,
     home |-> Homes("A", "B"), ptr |-> Generations(2, 2)]
Appearing ==
    [product |-> Pair("p", "q"), format |-> Pair("stored", "stored"), owned |-> FALSE,
     home |-> Homes("A", "B"), ptr |-> Generations(0, 2)]

MCTileScenarios == {SameTile, TwoProducts, Appearing}

MCInit ==
    \/ part = "chunks" /\ Init /\ DerivedInit /\ sc = SameTile
    \/ /\ part = "derived" /\ DerivedInit
       /\ stored = CHOOSE a \in Archives : TRUE
       /\ InitWith(CHOOSE s \in Scenarios : s.deaths = 1)

MCNext ==
    /\ UNCHANGED part
    /\ \/ part = "chunks" /\ Next /\ UNCHANGED derivedVars
       \/ part = "derived" /\ DerivedNext /\ UNCHANGED vars

\* The fairness of each component, asked of the part that is about it.
MCSpec ==
    /\ MCInit /\ [][MCNext]_<<part, vars, derivedVars>>
    /\ \A c \in Callers : WF_vars(part = "chunks" /\ CallerStep(c))
    /\ \A a \in Archives : WF_vars(part = "chunks" /\ SchedulerStep(a))
    /\ WF_vars(part = "chunks" /\ GroupStep)
    /\ \A r \in Requests : WF_derivedVars(part = "derived" /\ Work(r))
    /\ WF_derivedVars(part = "derived" /\ EndOrphan)

\* Every reader that waits for chunks is answered and the coordinator's
\* per-archive states go once the readers are gone (remove_drainable_state);
\* every request for a derived tile whose client stays is answered, also when
\* the request that worked for it was dropped or failed.
TilesAnswered ==
    /\ ReadReturns /\ StatesDrain
    /\ <>[](part = "derived" => \A r \in Requests : req[r].pc \in {"done", "error", "gone"})
=============================================================================
