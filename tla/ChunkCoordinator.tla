--------------------------- MODULE ChunkCoordinator ---------------------------
(***************************************************************************)
(* Ishikari's chunk fetch coordinator (ishikari-core, storage/             *)
(* chunked_store: coordinator.rs, the cache lookups of store.rs and the    *)
(* admission and generation pinning of fetcher.rs).                        *)
(*                                                                         *)
(* Readers of one archive share backend fetches: a reader registers a      *)
(* waiter per missing chunk, a scheduler task per archive batches pending  *)
(* chunks into ranges and spawns a detached task per range, and a finished *)
(* range answers every waiter of its chunks.  Ranges bridge small gaps, so *)
(* two ranges in flight may cover the same chunk.  The archives are the    *)
(* generations of one object that may be replaced at any time.             *)
(***************************************************************************)
EXTENDS ChunkRanges

CONSTANTS
    Callers,         \* concurrent reads
    Archives,        \* archive keys: the generations of one object
    Chunks,          \* chunk indices of an archive
    NoArchive,       \* a reader that has not learned a generation
    MaxFetchChunks,  \* max_fetch_chunks
    MaxChunkGap,     \* MAX_CHUNK_GAP
    MaxConcurrent,   \* MAX_CONCURRENT_FETCHES_PER_TILESET
    GroupPermits,    \* backend_fetch_max_inflight
    FetchPermits,    \* backend_fetch_concurrency
    Scenarios        \* what the readers want and know, and how often a fetch
                     \* task dies and the object is replaced

ASSUME ChunkCoordinatorAssumption ==
    /\ IsFiniteSet(Callers) /\ IsFiniteSet(Archives) /\ IsFiniteSet(Chunks)
    /\ Chunks \subseteq Nat /\ NoArchive \notin Archives
    /\ Scenarios \subseteq [want : [Callers -> SUBSET Chunks], known : SUBSET Callers,
                            deaths : Nat, replacements : Nat]
    /\ MaxConcurrent \in Nat \ {0} /\ GroupPermits \in Nat \ {0}
    /\ FetchPermits \in Nat \ {0}
    /\ MaxFetchChunks \in Nat /\ MaxChunkGap \in Nat

VARIABLES
    stored,    \* the generation the object store holds now
    cache,     \* ChunkCache: the bytes kept for an archive's chunk
    \* TilesetFetchState of each archive
    exists,    \* whether tileset_states has an entry
    pending,   \* pending_chunks
    inflight,  \* inflight_chunks
    waiters,   \* the registered pairs of reader and chunk
    running,   \* scheduler_running
    count,     \* inflight_fetch_count
    notified,  \* the permit of capacity_available
    \* tasks
    sched,     \* where run_scheduler is
    todo,      \* ranges selected and not yet spawned or shed
    groups,    \* the detached run_fetch_chunk_group tasks
    cpc,       \* where a reader is
    archive,   \* the archive it reads
    box,       \* what it holds for each chunk
    want,      \* the chunks of the byte range a reader reads
    deaths,    \* fetch tasks that may still unwind or be aborted
    replacements \* replacements of the object still to come

stateVars == <<exists, pending, inflight, waiters, running, count, notified>>
callerVars == <<cpc, archive, box>>
bounds == <<want, deaths, replacements>>
vars == <<stored, cache, stateVars, sched, todo, groups, callerVars, bounds>>

\* Bytes are told apart by the generation they come from.
Nothing == "nothing"
Failed == "failed"
Dropped == "dropped"

ASSUME ResultAssumption == Archives \cap {Nothing, Failed, Dropped} = {}

Live(c) == cpc[c] = "waiting"

\* Group tasks that hold a backend group permit and a backend fetch permit.
GroupHolders ==
    {g \in groups : g.phase # "orphaned"}
ObserverHolders == {c \in Callers : cpc[c] \in {"queued", "observing"}}
FetchHolders == {g \in groups : g.phase \in {"active", "body"}}
ActiveObservers == {c \in Callers : cpc[c] = "observing"}

\* try_reserve_backend_group and the fetcher's own semaphore.
GroupPermitFree ==
    Cardinality(GroupHolders) + Cardinality(ObserverHolders) < GroupPermits
FetchPermitFree ==
    Cardinality(FetchHolders) + Cardinality(ActiveObservers) < FetchPermits

\* The dispatched groups of an archive that have not completed.
Outstanding(a) ==
    {g \in groups : g.archive = a /\ g.phase # "finished"}

-----------------------------------------------------------------------------
(* Readers                                                                 *)

\* A reader leaves; its receivers are closed.
Leave(c) ==
    /\ cpc' = [cpc EXCEPT ![c] = "done"]
    /\ archive' = [archive EXCEPT ![c] = NoArchive]
    /\ box' = [box EXCEPT ![c] = [k \in Chunks |-> Nothing]]

\* observe_bytes: without a group permit the read is refused.
Observe(c) ==
    /\ cpc[c] = "start"
    /\ IF GroupPermitFree
       THEN cpc' = [cpc EXCEPT ![c] = "queued"] /\ UNCHANGED <<archive, box>>
       ELSE Leave(c)
    /\ UNCHANGED <<stored, cache, stateVars, sched, todo, groups, bounds>>

\* The observation waits for a fetch permit like any other backend read.
ObserveAdmitted(c) ==
    /\ cpc[c] = "queued" /\ FetchPermitFree
    /\ cpc' = [cpc EXCEPT ![c] = "observing"]
    /\ UNCHANGED <<stored, cache, stateVars, sched, todo, groups, archive, box,
                   bounds>>

\* The response carries the generation that the object has now.
Observed(c) ==
    /\ cpc[c] = "observing"
    /\ cpc' = [cpc EXCEPT ![c] = "known"]
    /\ archive' = [archive EXCEPT ![c] = stored]
    /\ UNCHANGED <<stored, cache, stateVars, sched, todo, groups, box, bounds>>

\* The observation fails or times out.
ObserveFails(c) ==
    /\ cpc[c] \in {"queued", "observing"}
    /\ Leave(c)
    /\ UNCHANGED <<stored, cache, stateVars, sched, todo, groups, bounds>>

\* read_bytes: take what is cached, remember what is missing.
Lookup(c) ==
    LET held == [k \in Chunks |-> IF k \in want[c] THEN cache[archive[c]][k]
                                  ELSE Nothing] IN
    /\ cpc[c] = "known"
    /\ IF \A k \in want[c] : held[k] # Nothing
       THEN Leave(c)
       ELSE /\ box' = [box EXCEPT ![c] = held]
            /\ cpc' = [cpc EXCEPT ![c] = "missed"]
            /\ UNCHANGED archive
    /\ UNCHANGED <<stored, cache, stateVars, sched, todo, groups, bounds>>

Missing(c) == {k \in want[c] : box[c][k] = Nothing}

\* fetch_chunks under the lock: register the waiters, queue what is neither
\* pending nor in flight, start the scheduler if none runs.
Enqueue(c) ==
    LET a == archive[c] IN
    /\ cpc[c] = "missed"
    /\ cpc' = [cpc EXCEPT ![c] = "waiting"]
    /\ exists' = [exists EXCEPT ![a] = TRUE]
    /\ waiters' = [waiters EXCEPT ![a] = @ \cup ({c} \X Missing(c))]
    /\ pending' = [pending EXCEPT ![a] = @ \cup (Missing(c) \ inflight[a])]
    /\ IF ~running[a] /\ pending'[a] # {}
       THEN /\ running' = [running EXCEPT ![a] = TRUE]
            /\ sched' = [sched EXCEPT ![a] = "pass"]
       ELSE UNCHANGED <<running, sched>>
    /\ UNCHANGED <<stored, cache, inflight, count, notified, todo, groups,
                   archive, box, bounds>>

\* The receivers are awaited in ascending order: the read succeeds with the
\* last one and fails with the first error.
ReadSucceeds(c) ==
    /\ Live(c) /\ \A k \in want[c] : box[c][k] \in Archives
    /\ Leave(c)
    /\ UNCHANGED <<stored, cache, stateVars, sched, todo, groups, bounds>>

ReadFails(c) ==
    /\ Live(c)
    /\ \E k \in want[c] :
         /\ box[c][k] \in {Failed, Dropped}
         /\ \A j \in want[c] : j < k => box[c][j] \in Archives
    /\ Leave(c)
    /\ UNCHANGED <<stored, cache, stateVars, sched, todo, groups, bounds>>

\* The reader's future is dropped.
Cancel(c) ==
    /\ cpc[c] \in {"queued", "observing", "known", "missed", "waiting"}
    /\ Leave(c)
    /\ UNCHANGED <<stored, cache, stateVars, sched, todo, groups, bounds>>

-----------------------------------------------------------------------------
(* Completion of a dispatched range                                        *)

\* Mutant: ranges in flight do not keep the state alive.
DrainableEarly(run, pend, n) == ~run /\ pend = {}

\* is_drainable of the state a step leaves behind.
Drainable(run, pend, n) == ~run /\ pend = {} /\ n = 0

\* remove_drainable_state: the entry goes, with every sender it still holds.
RemoveState(a) ==
    /\ exists' = [exists EXCEPT ![a] = FALSE]
    /\ inflight' = [inflight EXCEPT ![a] = {}]
    /\ waiters' = [waiters EXCEPT ![a] = {}]
    /\ notified' = [notified EXCEPT ![a] = FALSE]

\* What readers hold once some waiters got a result and others were dropped.
Deliver(answered, result, lost) ==
    box' = [c \in Callers |-> [k \in Chunks |->
              IF ~Live(c) THEN box[c][k]
              ELSE IF <<c, k>> \in answered THEN result
              ELSE IF <<c, k>> \in lost THEN Dropped
              ELSE box[c][k]]]

\* The scheduler may be waiting for the slot that is being released.
NeedsCapacity(a) == count[a] >= MaxConcurrent /\ pending[a] # {}

\* complete_dispatched_group: release the slot, answer the waiters of the
\* range, drop the state if nothing is left.
CompleteGroup(a, range, result) ==
    LET answered == {w \in waiters[a] : w[2] \in Indices(range)}
        n        == IF count[a] = 0 THEN 0 ELSE count[a] - 1
        drained  == Drainable(running[a], pending[a], n) IN
    IF ~exists[a] THEN UNCHANGED <<stateVars, callerVars>>
    ELSE /\ count' = [count EXCEPT ![a] = n]
         /\ IF drained THEN RemoveState(a)
            ELSE /\ inflight' = [inflight EXCEPT ![a] = @ \ Indices(range)]
                 /\ waiters' = [waiters EXCEPT ![a] = @ \ answered]
                 /\ notified' = [notified EXCEPT ![a] = @ \/ NeedsCapacity(a)]
                 /\ UNCHANGED exists
         /\ Deliver(answered, result, IF drained THEN waiters[a] ELSE {})
         /\ UNCHANGED <<pending, running, cpc, archive>>

-----------------------------------------------------------------------------
(* run_scheduler                                                           *)

\* prune_cancelled_waiters: pending chunks that still have a live waiter.
PrunedPending(a, live) ==
    {k \in pending[a] : \E w \in live : w[2] = k}

\* The ranges that select_dispatch_groups takes.
Selected(a, pend) ==
    LET ranges == ContiguousChunkRanges(pend, MaxFetchChunks, MaxChunkGap)
    IN SubSeq(ranges, 1, Least(Len(ranges), MaxConcurrent - count[a]))

\* A plan for some chunks is a sequence of ranges of the archive's chunks, and
\* of at least one if there is a chunk to fetch.
ASSUME PlanAssumption ==
    \A S \in SUBSET Chunks :
        LET plan == ContiguousChunkRanges(S, MaxFetchChunks, MaxChunkGap)
        IN  /\ plan \in Seq([from : Int, to : Int])
            /\ \A i \in DOMAIN plan : Indices(plan[i]) \subseteq Chunks
            /\ S # {} => plan # <<>>

Covered(ranges) == UNION {Indices(ranges[i]) : i \in DOMAIN ranges}

\* One pass after the merge window: prune, then stop, wait for a slot, or
\* select ranges.
Pass(a) ==
    LET live   == {w \in waiters[a] : Live(w[1])}
        pend   == PrunedPending(a, live)
        ranges == Selected(a, pend)
    IN /\ sched[a] = "pass"
       /\ \/ /\ pend = {}
             /\ running' = [running EXCEPT ![a] = FALSE]
             /\ sched' = [sched EXCEPT ![a] = "off"]
             /\ pending' = [pending EXCEPT ![a] = {}]
             /\ IF Drainable(FALSE, {}, count[a])
                THEN RemoveState(a) /\ Deliver({}, Nothing, live)
                ELSE /\ waiters' = [waiters EXCEPT ![a] = live]
                     /\ UNCHANGED <<exists, inflight, notified, box>>
             /\ UNCHANGED <<count, todo>>
          \/ /\ pend # {} /\ count[a] >= MaxConcurrent
             /\ sched' = [sched EXCEPT ![a] = "throttled"]
             /\ pending' = [pending EXCEPT ![a] = pend]
             /\ waiters' = [waiters EXCEPT ![a] = live]
             /\ UNCHANGED <<exists, inflight, running, count, notified, todo, box>>
          \/ /\ pend # {} /\ count[a] < MaxConcurrent
             /\ sched' = [sched EXCEPT ![a] = "dispatch"]
             /\ todo' = [todo EXCEPT ![a] = ranges]
             /\ pending' = [pending EXCEPT ![a] = pend \ Covered(ranges)]
             /\ inflight' = [inflight EXCEPT ![a] = @ \cup Covered(ranges)]
             /\ count' = [count EXCEPT ![a] = @ + Len(ranges)]
             /\ waiters' = [waiters EXCEPT ![a] = live]
             /\ UNCHANGED <<exists, running, notified, box>>
       /\ UNCHANGED <<stored, cache, groups, cpc, archive, bounds>>

\* A slot was released: another pass at once.
Wake(a) ==
    /\ sched[a] = "throttled" /\ notified[a]
    /\ notified' = [notified EXCEPT ![a] = FALSE]
    /\ sched' = [sched EXCEPT ![a] = "pass"]
    /\ UNCHANGED <<stored, cache, exists, pending, inflight, waiters, running,
                   count, todo, groups, callerVars, bounds>>

\* The scheduler is done with the first selected range.
NextRange(a) ==
    /\ todo' = [todo EXCEPT ![a] = Tail(@)]
    /\ sched' = [sched EXCEPT ![a] = IF Len(todo[a]) > 1 THEN "dispatch" ELSE "pass"]

NewId == CHOOSE i \in 1..(Cardinality(groups) + 1) : \A g \in groups : g.id # i

\* Spawn the next range under a group permit, or shed it.
Dispatch(a) ==
    /\ sched[a] = "dispatch"
    /\ IF GroupPermitFree
       THEN /\ groups' = groups \cup {[id |-> NewId, archive |-> a,
                                       range |-> Head(todo[a]),
                                       phase |-> "queued", data |-> Nothing]}
            /\ NextRange(a)
       ELSE sched' = [sched EXCEPT ![a] = "shed"] /\ UNCHANGED <<groups, todo>>
    /\ UNCHANGED <<stored, cache, stateVars, callerVars, bounds>>

\* A range without a permit completes as overloaded.
Shed(a) ==
    /\ sched[a] = "shed"
    /\ CompleteGroup(a, Head(todo[a]), Failed)
    /\ NextRange(a)
    /\ UNCHANGED <<stored, cache, groups, bounds>>

-----------------------------------------------------------------------------
(* run_fetch_chunk_group and fetch_range                                   *)

\* A group moves to another phase, with the bytes it has now.
Move(g, phase, data) ==
    groups' = (groups \ {g}) \cup {[g EXCEPT !.phase = phase, !.data = data]}

GroupUnchanged == UNCHANGED <<stored, stateVars, sched, todo, callerVars>>

\* A fetch permit is granted.
Admitted(g) ==
    /\ g.phase = "queued" /\ FetchPermitFree
    /\ Move(g, "active", Nothing)
    /\ GroupUnchanged /\ UNCHANGED <<cache, bounds>>

\* Mutant: the generation of the response is not compared.
RespondsAny(g) ==
    /\ g.phase = "active"
    /\ Move(g, "body", stored)
    /\ GroupUnchanged /\ UNCHANGED <<cache, bounds>>

\* The response arrives: the pinned generation, or a changed one.
Responds(g) ==
    /\ g.phase = "active"
    /\ IF stored = g.archive THEN Move(g, "body", stored)
                             ELSE Move(g, "completing", Failed)
    /\ GroupUnchanged /\ UNCHANGED <<cache, bounds>>

\* The body is complete and cached chunk by chunk before the waiters hear.
BodyArrives(g) ==
    /\ g.phase = "body"
    /\ cache' = [cache EXCEPT ![g.archive] =
                   [k \in Chunks |-> IF k \in Indices(g.range) THEN g.data ELSE @[k]]]
    /\ Move(g, "completing", g.data)
    /\ GroupUnchanged /\ UNCHANGED bounds

\* Admission or the request times out, or the object store reports an error.
FetchFails(g) ==
    /\ g.phase \in {"queued", "active", "body"}
    /\ Move(g, "completing", Failed)
    /\ GroupUnchanged /\ UNCHANGED <<cache, bounds>>

\* The task unwinds or is aborted: its permits are released and the guard
\* spawns the completion.
TaskDies(g) ==
    /\ g.phase \in {"queued", "active", "body"} /\ deaths > 0
    /\ deaths' = deaths - 1
    /\ Move(g, "orphaned", Failed)
    /\ GroupUnchanged /\ UNCHANGED <<cache, want, replacements>>

\* The completion takes the lock; the task's permit goes a little later.
Complete(g) ==
    /\ g.phase \in {"completing", "orphaned"}
    /\ CompleteGroup(g.archive, g.range, g.data)
    /\ IF g.phase = "completing" THEN Move(g, "finished", Nothing)
                                 ELSE groups' = groups \ {g}
    /\ UNCHANGED <<stored, cache, sched, todo, bounds>>

ReleasePermit(g) ==
    /\ g.phase = "finished"
    /\ groups' = groups \ {g}
    /\ GroupUnchanged /\ UNCHANGED <<cache, bounds>>

-----------------------------------------------------------------------------
(* The object store and the cache                                          *)

\* The object is replaced, perhaps by bytes it had before.
Replace(a) ==
    /\ replacements > 0 /\ a # stored
    /\ stored' = a
    /\ replacements' = replacements - 1
    /\ UNCHANGED <<cache, stateVars, sched, todo, groups, callerVars, want, deaths>>

\* The cache evicts what it likes.
Evict(a, k) ==
    /\ cache[a][k] # Nothing
    /\ cache' = [cache EXCEPT ![a][k] = Nothing]
    /\ UNCHANGED <<stored, stateVars, sched, todo, groups, callerVars, bounds>>

-----------------------------------------------------------------------------

\* A reader that wants nothing does not take part.
InitWith(s) ==
    /\ stored \in Archives
    /\ cache = [a \in Archives |-> [k \in Chunks |-> Nothing]]
    /\ exists = [a \in Archives |-> FALSE]
    /\ pending = [a \in Archives |-> {}]
    /\ inflight = [a \in Archives |-> {}]
    /\ waiters = [a \in Archives |-> {}]
    /\ running = [a \in Archives |-> FALSE]
    /\ count = [a \in Archives |-> 0]
    /\ notified = [a \in Archives |-> FALSE]
    /\ sched = [a \in Archives |-> "off"]
    /\ todo = [a \in Archives |-> <<>>]
    /\ groups = {}
    /\ cpc = [c \in Callers |-> IF s.want[c] = {} THEN "done"
                               ELSE IF c \in s.known THEN "known" ELSE "start"]
    /\ archive = [c \in Callers |-> IF c \in s.known THEN stored ELSE NoArchive]
    /\ box = [c \in Callers |-> [k \in Chunks |-> Nothing]]
    /\ want = s.want /\ deaths = s.deaths /\ replacements = s.replacements

Init == \E s \in Scenarios : InitWith(s)

CallerStep(c) ==
    \/ Observe(c) \/ ObserveAdmitted(c) \/ Observed(c) \/ ObserveFails(c)
    \/ Lookup(c) \/ Enqueue(c) \/ ReadSucceeds(c) \/ ReadFails(c)

SchedulerStep(a) == Pass(a) \/ Wake(a) \/ Dispatch(a) \/ Shed(a)

GroupStep ==
    \E g \in groups :
        \/ Admitted(g) \/ Responds(g) \/ BodyArrives(g) \/ FetchFails(g)
        \/ Complete(g) \/ ReleasePermit(g)

Next ==
    \/ \E c \in Callers : CallerStep(c) \/ Cancel(c)
    \/ \E a \in Archives : SchedulerStep(a) \/ Replace(a)
    \/ GroupStep
    \/ \E g \in groups : TaskDies(g)
    \/ \E a \in Archives, k \in Chunks : Evict(a, k)

\* Spawned tasks are polled when ready.  A fetch ends: its admission and its
\* request are under a timeout; that the body of a response ends is assumed
\* of the object store's client.
Fairness ==
    /\ \A c \in Callers : WF_vars(CallerStep(c))
    /\ \A a \in Archives : WF_vars(SchedulerStep(a))
    /\ WF_vars(GroupStep)

Spec == Init /\ [][Next]_vars /\ Fairness

-----------------------------------------------------------------------------

Phases == {"queued", "active", "body", "completing", "orphaned", "finished"}

\* Every variable has the shape of the code's types, and select_dispatch_groups
\* never reserves more slots than MAX_CONCURRENT_FETCHES_PER_TILESET.
TypeOK ==
    /\ stored \in Archives
    /\ cache \in [Archives -> [Chunks -> Archives \cup {Nothing}]]
    /\ exists \in [Archives -> BOOLEAN] /\ running \in [Archives -> BOOLEAN]
    /\ notified \in [Archives -> BOOLEAN]
    /\ pending \in [Archives -> SUBSET Chunks]
    /\ inflight \in [Archives -> SUBSET Chunks]
    /\ waiters \in [Archives -> SUBSET (Callers \X Chunks)]
    /\ count \in [Archives -> 0..MaxConcurrent]
    /\ sched \in [Archives -> {"off", "pass", "throttled", "dispatch", "shed"}]
    /\ \A g \in groups : g.archive \in Archives /\ g.phase \in Phases
    /\ cpc \in [Callers -> {"start", "queued", "observing", "known", "missed",
                            "waiting", "done"}]
    /\ archive \in [Callers -> Archives \cup {NoArchive}]
    /\ box \in [Callers -> [Chunks -> Archives \cup {Nothing, Failed, Dropped}]]
    /\ want \in [Callers -> SUBSET Chunks]
    /\ deaths \in Nat /\ replacements \in Nat

\* Every chunk for which a live reader has no result is pending or covered by a
\* range that has yet to complete: overlapping ranges, cancelled readers and
\* remove_drainable_state never strand a waiter or drop its sender.
WaiterCovered ==
    \A c \in Callers : Live(c) =>
        \A k \in want[c] : box[c][k] \in {Nothing, Dropped} =>
            /\ <<c, k>> \in waiters[archive[c]]
            /\ \/ k \in pending[archive[c]]
               \/ k \in Covered(todo[archive[c]])
               \/ \E g \in Outstanding(archive[c]) : k \in Indices(g.range)

\* inflight_fetch_count is the number of ranges selected and not completed.
SlotsExact ==
    \A a \in Archives :
        count[a] = Cardinality(Outstanding(a)) + Len(todo[a])

\* A chunk that a reader waits for is queued or in a range that has yet to
\* complete, and the slots of an archive count those ranges exactly
\* (fetch_chunks, complete_dispatched_group, remove_drainable_state).
FetchesSound == TypeOK /\ WaiterCovered /\ SlotsExact

\* "Strong validator that pins all reads participating in one archive lookup":
\* bytes cached or delivered under an archive key come from its generation.
GenerationPinned ==
    /\ \A a \in Archives, k \in Chunks : cache[a][k] \in {Nothing, a}
    /\ \A c \in Callers, k \in Chunks :
         box[c][k] \in Archives => box[c][k] = archive[c]

\* Every reader that waits for chunks is answered.
ReadReturns == \A c \in Callers : []<>~Live(c)

\* Once all readers are gone the per-archive states go too.
StatesDrain ==
    []<>((\A c \in Callers : cpc[c] = "done") => (\A a \in Archives : ~exists[a]))
=============================================================================
