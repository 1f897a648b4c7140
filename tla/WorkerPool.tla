------------------------------ MODULE WorkerPool ------------------------------
(***************************************************************************)
(* Biei's worker pool and worker loop (biei-core/src/worker_pool.rs and    *)
(* biei-core/src/worker.rs).                                               *)
(*                                                                         *)
(* A request task picks a worker slot, reserves a place in its queue with  *)
(* a compare-and-swap, records the profile the slot is now committed to,   *)
(* and sends a command.  The worker takes commands in order and runs the   *)
(* stages of a render under two node-wide semaphores.  A response deadline *)
(* answers the caller and hides the slot while the native call goes on; a  *)
(* later hard deadline retires the renderer.  A command that finds its     *)
(* slot hidden goes back to the pool for another slot.                     *)
(*                                                                         *)
(* The code numbers the dispatches of a slot and compares numbers for      *)
(* equality only.  A task never has two outstanding commands, so the       *)
(* newest dispatch of slot w is named here by its task, latest[w].         *)
(***************************************************************************)
EXTENDS Integers, Sequences, FiniteSets

CONSTANTS
    Workers,             \* renderer slots
    Tasks,               \* render requests admitted to this node
    Profiles,            \* WorkerProfile values (style revision, mode, scale)
    Sources,             \* per-request source hashes
    None,                \* Option::None
    ProfileOf,           \* ProfileOf[t]: the profile task t needs
    ShapeOf,             \* ShapeOf[p]: render mode and scale of a profile
    PartitionOf,         \* PartitionOf[t]: credential cache partition of t
    SourceOf,            \* SourceOf[t]: source of t, or None
    Cacheable,           \* the sources whose policy is Cacheable
    HintOf,              \* HintOf[t]: worker hint of t, or None
    BLCapacity,          \* soft queue limit per slot
    QueueLimit,          \* configured hard queue limit per slot
    RenderPermits,       \* node-wide render permits
    NativePermits,       \* node-wide native render permits
    SourceCacheCapacity, \* entries of a slot's source cache
    Scenarios            \* the slots of the pool, whether the node is shut
                         \* down, and a bound on renderer deaths

\* WorkerPool::spawn: the hard limit is at least the soft limit.
QueueCapacity == IF QueueLimit > BLCapacity THEN QueueLimit ELSE BLCapacity

ASSUME WorkerPoolAssumption ==
    /\ IsFiniteSet(Workers) /\ IsFiniteSet(Tasks)
    /\ None \notin Workers \cup Tasks \cup Profiles \cup Sources
    /\ "Retire" \notin Tasks
    /\ ProfileOf \in [Tasks -> Profiles]
    /\ \A t \in Tasks : <<ProfileOf[t], PartitionOf[t]>> # None
    /\ SourceOf \in [Tasks -> Sources \cup {None}]
    /\ Cacheable \subseteq Sources
    /\ HintOf \in [Tasks -> Workers \cup {None}]
    /\ BLCapacity \in Nat \ {0} /\ QueueLimit \in Nat
    /\ NativePermits \in 1..RenderPermits
    /\ RenderPermits \in 1..Cardinality(Workers)
    /\ SourceCacheCapacity \in Nat \ {0}
    /\ Scenarios \subseteq [slots : SUBSET Workers, shutdown : BOOLEAN, deaths : Nat]

VARIABLES
    \* shared by the pool and the workers
    depth,      \* queue_depth of each slot
    available,  \* the slot's availability flag
    loaded,     \* PoolState.loaded
    counts,     \* PoolState.profile_counts
    latest,     \* the task of the slot's newest dispatch
    queue,      \* the slot's mpsc channel: tasks and at most one Retire
    \* caller side
    tpc,        \* where WorkerPool::process is
    slot,       \* the slot a task picked, reserved or was sent to
    hint,       \* worker_hint of the current attempt
    late,       \* the response deadline has passed
    started,    \* the started channel was signalled
    reply,      \* the reply channel
    \* worker side
    wpc,        \* where worker_loop is
    cmd,        \* the command being processed
    overdue,    \* response_deadline_elapsed of that command
    healthy,    \* the renderer's own answer to is_available
    current,    \* current_profile: None, or a profile and a partition
    sources,    \* the slot's SourceCache, least recently used first
    \* history
    native,     \* native render calls made for each task
    lastRun,    \* the command a slot processed last
    deaths,     \* renderer deaths still to come
    shutdown    \* whether the node is going to be shut down

poolVars == <<depth, available, loaded, counts, latest, queue>>
taskVars == <<tpc, slot, hint, late, started, reply>>
workerVars == <<wpc, cmd, overdue, healthy, current, sources>>
history == <<native, lastRun, deaths, shutdown>>
vars == <<poolVars, taskVars, workerVars, history>>

Retire == "Retire"

\* Phases of WorkerPool::process.
TaskPhases == {"select", "picked", "counted", "reserved", "marked", "waiting",
               "running", "done"}

\* Phases of worker_loop; "setup", "source" and "render" are native calls.
WorkerPhases == {"free", "permit", "setup", "source", "native", "render",
                 "retired"}

Replies == {"none", "completed", "failed", "rejected", "timeout",
            "redispatch", "disconnected"}

-----------------------------------------------------------------------------
(* Selection of a worker                                                   *)

Warm(w, t) == loaded[w] = ProfileOf[t]

ExpandThreshold ==
    IF (BLCapacity * 2) \div 3 > 1 THEN (BLCapacity * 2) \div 3 ELSE 1

\* PickTier, in the order of its variants.
PickTier(w, t) ==
    CASE Warm(w, t) /\ depth[w] < ExpandThreshold -> 0
      [] loaded[w] = None                         -> 1
      [] Warm(w, t) /\ depth[w] < BLCapacity      -> 2
      [] ~Warm(w, t) /\ loaded[w] # None /\ depth[w] = 0 -> 3
      [] Warm(w, t) /\ depth[w] < QueueCapacity   -> 4
      [] Warm(w, t)                               -> 5
      [] OTHER                                    -> 6

\* PickScore of a task without an add-layer source (source_miss is false): tier,
\* queue depth, protected singleton, shape mismatch and profile count.  Ties
\* are broken by last use and index, left nondeterministic.
PickScore(w, t) ==
    IF PickTier(w, t) = 3
    THEN <<3, depth[w], IF counts[loaded[w]] <= 1 THEN 1 ELSE 0,
           IF ShapeOf[loaded[w]] # ShapeOf[ProfileOf[t]] THEN 1 ELSE 0,
           0 - counts[loaded[w]]>>
    ELSE <<PickTier(w, t), depth[w], 0, 0, 0>>

\* Derived Ord of PickScore: lexicographic.
ScoreBelow(a, b) ==
    \E i \in 1..5 : a[i] < b[i] /\ \A j \in 1..(i - 1) : a[j] = b[j]

Candidates == {w \in Workers : available[w] /\ depth[w] < QueueCapacity}

\* best_available_worker
BestAvailable(t) ==
    {w \in Candidates :
        \A v \in Candidates : ~ScoreBelow(PickScore(v, t), PickScore(w, t))}

-----------------------------------------------------------------------------
(* PoolState                                                               *)

CountOf(c, p, d) == [c EXCEPT ![p] = @ + d]

\* PoolState::mark_loaded
MarkLoaded(w, p) ==
    /\ loaded' = [loaded EXCEPT ![w] = p]
    /\ counts' = IF loaded[w] = p THEN counts
                 ELSE IF loaded[w] = None THEN CountOf(counts, p, 1)
                 ELSE CountOf(CountOf(counts, loaded[w], 0 - 1), p, 1)

\* PoolState::clear_loaded_if_latest
ClearLoadedIfLatest(w, t) ==
    IF latest[w] = t /\ loaded[w] # None
    THEN /\ loaded' = [loaded EXCEPT ![w] = None]
         /\ counts' = CountOf(counts, loaded[w], 0 - 1)
    ELSE UNCHANGED <<loaded, counts>>

\* Mutant: a failed command leaves the dispatch-time prediction in place.
CompletionFinishKeeps(w, t, outcome) ==
    /\ UNCHANGED <<loaded, counts>>
    /\ depth' = [depth EXCEPT ![w] = @ - 1]

\* WorkerCompletion::finish followed by its drop.
CompletionFinish(w, t, outcome) ==
    /\ IF outcome \in {"failed", "rejected"}
       THEN ClearLoadedIfLatest(w, t)
       ELSE UNCHANGED <<loaded, counts>>
    /\ depth' = [depth EXCEPT ![w] = @ - 1]

\* Mutant: a command dropped without an outcome keeps its queue place.
CompletionDropLeaks(w, t) == ClearLoadedIfLatest(w, t) /\ UNCHANGED depth

\* WorkerCompletion::drop of a command that produced no outcome.
CompletionDrop(w, t) ==
    /\ ClearLoadedIfLatest(w, t)
    /\ depth' = [depth EXCEPT ![w] = @ - 1]

\* The tasks that hold a place in a slot's queue: a reservation not yet sent, a
\* queued command, or the command being processed.
Outstanding(w) ==
    {t \in Tasks :
        \/ tpc[t] \in {"counted", "reserved", "marked"} /\ slot[t] = w
        \/ \E i \in DOMAIN queue[w] : queue[w][i] = t
        \/ cmd[w] = t}

-----------------------------------------------------------------------------
(* WorkerPool::process                                                     *)

\* process returns.
Return(t) ==
    /\ tpc' = [tpc EXCEPT ![t] = "done"]
    /\ slot' = [slot EXCEPT ![t] = None]

\* Choose the hinted worker or scan for the best one.
SelectWorker(t) ==
    /\ tpc[t] = "select"
    /\ IF hint[t] = None /\ BestAvailable(t) = {}
       THEN Return(t)
       ELSE /\ \E w \in IF hint[t] # None THEN {hint[t]} ELSE BestAvailable(t) :
                 slot' = [slot EXCEPT ![t] = w]
            /\ tpc' = [tpc EXCEPT ![t] = "picked"]
    /\ UNCHANGED <<poolVars, hint, late, started, reply, workerVars,
                   history>>

\* A failed reservation ends a hinted attempt and rescans an unhinted one.
ReservationFailed(t) ==
    IF hint[t] # None
    THEN Return(t)
    ELSE /\ tpc' = [tpc EXCEPT ![t] = "select"]
         /\ slot' = [slot EXCEPT ![t] = None]

\* try_reserve up to its compare-and-swap.
TryReserve(t) ==
    LET w == slot[t] IN
    /\ tpc[t] = "picked"
    /\ IF available[w] /\ depth[w] < QueueCapacity
       THEN /\ depth' = [depth EXCEPT ![w] = @ + 1]
            /\ tpc' = [tpc EXCEPT ![t] = "counted"]
            /\ UNCHANGED slot
       ELSE ReservationFailed(t) /\ UNCHANGED depth
    /\ UNCHANGED <<available, loaded, counts, latest, queue, hint, late,
                   started, reply, workerVars, history>>

\* try_reserve after the compare-and-swap: availability is read again.
ConfirmReservation(t) ==
    LET w == slot[t] IN
    /\ tpc[t] = "counted"
    /\ IF available[w]
       THEN /\ tpc' = [tpc EXCEPT ![t] = "reserved"]
            /\ UNCHANGED <<slot, depth>>
       ELSE ReservationFailed(t) /\ depth' = [depth EXCEPT ![w] = @ - 1]
    /\ UNCHANGED <<available, loaded, counts, latest, queue, hint, late,
                   started, reply, workerVars, history>>

\* Commit the slot to the task's profile, under the state lock.
CommitProfile(t) ==
    /\ tpc[t] = "reserved"
    /\ MarkLoaded(slot[t], ProfileOf[t])
    /\ latest' = [latest EXCEPT ![slot[t]] = t]
    /\ tpc' = [tpc EXCEPT ![t] = "marked"]
    /\ UNCHANGED <<depth, available, queue, slot, hint, late, started,
                   reply, workerVars, history>>

\* Send the command; the channel of a retired worker is closed.
Send(t) ==
    LET w == slot[t] IN
    /\ tpc[t] = "marked"
    /\ started' = [started EXCEPT ![t] = FALSE]
    /\ IF wpc[w] = "retired"
       THEN CompletionDrop(w, t) /\ Return(t) /\ UNCHANGED queue
       ELSE /\ queue' = [queue EXCEPT ![w] = Append(@, t)]
            /\ tpc' = [tpc EXCEPT ![t] = "waiting"]
            /\ UNCHANGED <<depth, loaded, counts, slot>>
    /\ UNCHANGED <<available, latest, hint, late, reply, workerVars,
                   history>>

\* The started acknowledgement is the branch that select! takes.
SeeStarted(t) ==
    /\ tpc[t] = "waiting" /\ started[t]
    /\ tpc' = [tpc EXCEPT ![t] = "running"]
    /\ UNCHANGED <<poolVars, slot, hint, late, started, reply,
                   workerVars, history>>

\* The reply arrives: an outcome returns, a redispatch starts over unhinted.
ReceiveReply(t) ==
    /\ tpc[t] \in {"waiting", "running"} /\ reply[t] # "none"
    /\ IF reply[t] = "redispatch"
       THEN /\ tpc' = [tpc EXCEPT ![t] = "select"]
            /\ slot' = [slot EXCEPT ![t] = None]
            /\ hint' = [hint EXCEPT ![t] = None]
       ELSE Return(t) /\ UNCHANGED hint
    /\ reply' = [reply EXCEPT ![t] = "none"]
    /\ UNCHANGED <<poolVars, late, started, workerVars, history>>

\* The caller's own deadline, only before the command is known to have started.
QueueTimeout(t) ==
    /\ tpc[t] = "waiting" /\ late[t]
    /\ Return(t)
    /\ UNCHANGED <<poolVars, hint, late, started, reply, workerVars,
                   history>>

\* The caller's future is dropped (an HTTP disconnect); the command stays.
Disconnect(t) ==
    /\ tpc[t] \in {"waiting", "running"}
    /\ Return(t)
    /\ UNCHANGED <<poolVars, hint, late, started, reply, workerVars,
                   history>>

\* Time passes: the response deadline of a task that still matters.
PassDeadline(t) ==
    /\ tpc[t] # "done" \/ \E w \in Workers : t \in Outstanding(w)
    /\ ~late[t]
    /\ late' = [late EXCEPT ![t] = TRUE]
    /\ UNCHANGED <<poolVars, tpc, slot, hint, started, reply,
                   workerVars, history>>

-----------------------------------------------------------------------------
(* worker_loop                                                             *)

\* The style setup a task needs on its slot.
SetupOf(t) == <<ProfileOf[t], PartitionOf[t]>>

\* sync_availability: a dead renderer may or may not be repairable now.
SyncAvailability(w, h) ==
    \E ok \in IF h THEN {TRUE} ELSE BOOLEAN :
        /\ healthy' = [healthy EXCEPT ![w] = ok]
        /\ available' = [available EXCEPT ![w] = ok]

\* The periodic repair tick, only between commands.
RepairTick(w) ==
    /\ wpc[w] = "free"
    /\ SyncAvailability(w, healthy[w])
    /\ UNCHANGED <<depth, loaded, counts, latest, queue, taskVars, wpc, cmd,
                   overdue, current, sources, history>>

\* Answer a command; the caller may be gone, which the reply does not notice.
Answer(t, r) ==
    reply' = [reply EXCEPT ![t] = IF tpc[t] = "done" THEN "none" ELSE r]

\* Take a command whose slot is hidden and cannot be repaired.
Redispatch(w) ==
    LET t == Head(queue[w]) IN
    /\ wpc[w] = "free" /\ queue[w] # <<>> /\ Head(queue[w]) # Retire
    /\ IF healthy[w] THEN UNCHANGED <<healthy, available>>
                     ELSE SyncAvailability(w, FALSE)
    /\ ~available'[w]
    /\ queue' = [queue EXCEPT ![w] = Tail(@)]
    /\ started' = [started EXCEPT ![t] = TRUE]
    /\ CompletionDrop(w, t)
    /\ Answer(t, "redispatch")
    /\ lastRun' = [lastRun EXCEPT ![w] = t]
    /\ UNCHANGED <<latest, tpc, slot, hint, late, wpc, cmd, overdue, current,
                   sources, native, deaths, shutdown>>

\* Take a command and begin its stages.
Dequeue(w) ==
    LET t == Head(queue[w]) IN
    /\ wpc[w] = "free" /\ queue[w] # <<>> /\ Head(queue[w]) # Retire
    /\ IF healthy[w] THEN UNCHANGED <<healthy, available>>
                     ELSE SyncAvailability(w, FALSE)
    /\ available'[w]
    /\ queue' = [queue EXCEPT ![w] = Tail(@)]
    /\ started' = [started EXCEPT ![t] = TRUE]
    /\ wpc' = [wpc EXCEPT ![w] = "permit"]
    /\ cmd' = [cmd EXCEPT ![w] = t]
    /\ UNCHANGED <<depth, loaded, counts, latest, tpc, slot, hint, late,
                   reply, overdue, current, sources, history>>

\* Workers holding the render permit and the native render permit.
RenderHolders == {w \in Workers : wpc[w] \in {"setup", "source", "native", "render"}}
NativeHolders == {w \in Workers : wpc[w] = "render"}

\* Mutant: a failed command is handed back to the pool for another try.
FinishCommandRetries(w, outcome, profile, cached, sync, h) ==
    LET t == cmd[w] IN
    /\ IF sync \/ overdue[w] THEN SyncAvailability(w, h)
       ELSE UNCHANGED <<healthy, available>>
    /\ current' = [current EXCEPT ![w] = profile]
    /\ sources' = [sources EXCEPT ![w] = cached]
    /\ CompletionFinish(w, t, outcome)
    /\ IF overdue[w] THEN UNCHANGED reply
       ELSE Answer(t, IF outcome = "failed" THEN "redispatch" ELSE outcome)
    /\ wpc' = [wpc EXCEPT ![w] = "free"]
    /\ cmd' = [cmd EXCEPT ![w] = None]
    /\ overdue' = [overdue EXCEPT ![w] = FALSE]
    /\ lastRun' = [lastRun EXCEPT ![w] = t]
    /\ UNCHANGED <<latest, queue, tpc, slot, hint, late, started, native,
                   deaths, shutdown>>

\* The end of a command: publish availability, settle the accounting, reply.
\* A completion that is already late is answered with the timeout.
FinishCommand(w, outcome, profile, cached, sync, h) ==
    LET t == cmd[w] IN
    /\ IF sync \/ overdue[w] THEN SyncAvailability(w, h)
       ELSE UNCHANGED <<healthy, available>>
    /\ current' = [current EXCEPT ![w] = profile]
    /\ sources' = [sources EXCEPT ![w] = cached]
    /\ CompletionFinish(w, t, outcome)
    /\ IF overdue[w] THEN UNCHANGED reply
       ELSE Answer(t, IF outcome = "completed" /\ late[t] THEN "timeout"
                      ELSE outcome)
    /\ wpc' = [wpc EXCEPT ![w] = "free"]
    /\ cmd' = [cmd EXCEPT ![w] = None]
    /\ overdue' = [overdue EXCEPT ![w] = FALSE]
    /\ lastRun' = [lastRun EXCEPT ![w] = t]
    /\ UNCHANGED <<latest, queue, tpc, slot, hint, late, started,
                   native, deaths, shutdown>>

\* A stage observes the passed deadline before its next await.
StageDeadline(w) ==
    /\ wpc[w] \in {"permit", "native"} /\ late[cmd[w]]
    /\ FinishCommand(w, "rejected", current[w], sources[w], FALSE, healthy[w])

\* run_stages moves on to the next stage.
Advance(w, stage) ==
    /\ wpc' = [wpc EXCEPT ![w] = stage]
    /\ UNCHANGED <<poolVars, taskVars, cmd, overdue, healthy>>

\* The render permit is granted; a warm worker skips the style setup.
AcquireRenderPermit(w) ==
    /\ wpc[w] = "permit" /\ ~late[cmd[w]]
    /\ Cardinality(RenderHolders) < RenderPermits
    /\ Advance(w, IF current[w] = SetupOf(cmd[w]) THEN "source" ELSE "setup")
    /\ UNCHANGED <<current, sources, history>>

\* setup_profile succeeds; the deadline is checked in front of the source.
SetupProfile(w) ==
    /\ wpc[w] = "setup"
    /\ IF late[cmd[w]]
       THEN FinishCommand(w, "rejected", SetupOf(cmd[w]), <<>>, FALSE, healthy[w])
       ELSE /\ current' = [current EXCEPT ![w] = SetupOf(cmd[w])]
            /\ sources' = [sources EXCEPT ![w] = <<>>]
            /\ Advance(w, "source")
            /\ UNCHANGED history

\* The cache without an entry, which it holds once at most.
Without(seq, s) ==
    IF \E i \in DOMAIN seq : seq[i] = s
    THEN LET pos == CHOOSE i \in DOMAIN seq : seq[i] = s
         IN  SubSeq(seq, 1, pos - 1) \o SubSeq(seq, pos + 1, Len(seq))
    ELSE seq

\* SourceCache::touch
Touch(seq, s) ==
    LET moved == Append(Without(seq, s), s) IN
    IF Len(moved) > SourceCacheCapacity
    THEN SubSeq(moved, Len(moved) - SourceCacheCapacity + 1, Len(moved))
    ELSE moved

\* The source is resident, absent from the request, or loaded now.
EnsureSource(w) ==
    LET s == SourceOf[cmd[w]] IN
    /\ wpc[w] = "source"
    /\ sources' = [sources EXCEPT ![w] = IF s \in Cacheable THEN Touch(@, s) ELSE @]
    /\ Advance(w, "native")
    /\ UNCHANGED <<current, history>>

\* The native permit is granted and the render call starts.
AcquireNativePermit(w) ==
    /\ wpc[w] = "native" /\ ~late[cmd[w]]
    /\ Cardinality(NativeHolders) < NativePermits
    /\ native' = [native EXCEPT ![cmd[w]] = @ + 1]
    /\ Advance(w, "render")
    /\ UNCHANGED <<current, sources, lastRun, deaths, shutdown>>

\* The render call succeeds, in time or late.
RenderSucceeds(w) ==
    /\ wpc[w] = "render"
    /\ FinishCommand(w, "completed", current[w], sources[w], FALSE, healthy[w])

\* The worker awaits its renderer.
InNativeCall(w) ==
    \/ wpc[w] \in {"setup", "render"}
    \/ /\ wpc[w] = "source"
       /\ SourceOf[cmd[w]] # None
       /\ ~\E i \in DOMAIN sources[w] : sources[w][i] = SourceOf[cmd[w]]

\* A native call fails; some errors invalidate the slot's warm state.
NativeCallFails(w, invalidates) ==
    /\ InNativeCall(w)
    /\ IF invalidates
       THEN FinishCommand(w, "failed", None, <<>>, TRUE, healthy[w])
       ELSE FinishCommand(w, "failed", current[w], sources[w], TRUE, healthy[w])

\* Mutant: the slot is hidden but the caller is not answered.
ResponseDeadlineSilent(w) ==
    /\ InNativeCall(w)
    /\ late[cmd[w]] /\ ~overdue[w]
    /\ overdue' = [overdue EXCEPT ![w] = TRUE]
    /\ available' = [available EXCEPT ![w] = FALSE]
    /\ UNCHANGED <<depth, loaded, counts, latest, queue, taskVars, wpc, cmd,
                   healthy, current, sources, history>>

\* The response deadline passes during a native call: hide the slot, answer
\* the caller, keep waiting for the call.
ResponseDeadline(w) ==
    /\ InNativeCall(w)
    /\ late[cmd[w]] /\ ~overdue[w]
    /\ overdue' = [overdue EXCEPT ![w] = TRUE]
    /\ available' = [available EXCEPT ![w] = FALSE]
    /\ Answer(cmd[w], "timeout")
    /\ UNCHANGED <<depth, loaded, counts, latest, queue, tpc, slot, hint, late,
                   started, wpc, cmd, healthy, current, sources,
                   history>>

\* The hard deadline, some time after the response deadline: the renderer is
\* retired, and perhaps replaced at once.
HardWedge(w) ==
    /\ InNativeCall(w)
    /\ overdue[w]
    /\ \E replaced \in BOOLEAN :
         FinishCommand(w, "failed", None, <<>>, TRUE, replaced)

\* The renderer's actor thread dies.
RendererDies(w) ==
    /\ healthy[w] /\ wpc[w] # "retired" /\ deaths > 0
    /\ healthy' = [healthy EXCEPT ![w] = FALSE]
    /\ deaths' = deaths - 1
    /\ UNCHANGED <<poolVars, taskVars, wpc, cmd, overdue, current, sources,
                   native, lastRun, shutdown>>

\* shutdown sends Retire behind the commands already queued.
SendRetire(w) ==
    /\ shutdown
    /\ wpc[w] # "retired" /\ ~\E i \in DOMAIN queue[w] : queue[w][i] = Retire
    /\ queue' = [queue EXCEPT ![w] = Append(@, Retire)]
    /\ UNCHANGED <<depth, available, loaded, counts, latest, taskVars,
                   workerVars, history>>

\* The commands behind Retire, dropped one after the other with the receiver.
Dropped(w) == {queue[w][i] : i \in 2..Len(queue[w])}

\* The worker takes Retire and exits; its receiver and what it holds are gone.
WorkerRetires(w) ==
    /\ wpc[w] = "free" /\ queue[w] # <<>> /\ Head(queue[w]) = Retire
    /\ queue' = [queue EXCEPT ![w] = <<>>]
    /\ depth' = [depth EXCEPT ![w] = @ - Cardinality(Dropped(w))]
    /\ IF latest[w] \in Dropped(w) /\ loaded[w] # None
       THEN /\ loaded' = [loaded EXCEPT ![w] = None]
            /\ counts' = CountOf(counts, loaded[w], 0 - 1)
       ELSE UNCHANGED <<loaded, counts>>
    /\ reply' = [t \in Tasks |->
                   IF t \in Dropped(w) /\ tpc[t] # "done" THEN "disconnected"
                   ELSE reply[t]]
    /\ wpc' = [wpc EXCEPT ![w] = "retired"]
    /\ UNCHANGED <<available, latest, tpc, slot, hint, late, started,
                   cmd, overdue, healthy, current, sources, history>>

-----------------------------------------------------------------------------

\* A pool of s.slots; a renderer that failed to start counts as a death.  A
\* slot outside the pool looks like one that has retired.
InitWith(s) ==
    /\ depth = [w \in Workers |-> 0]
    /\ healthy \in [Workers -> BOOLEAN]
    /\ \A w \in Workers \ s.slots : ~healthy[w]
    /\ deaths = s.deaths - Cardinality({w \in s.slots : ~healthy[w]})
    /\ deaths >= 0
    /\ shutdown = s.shutdown
    /\ available = healthy
    /\ loaded = [w \in Workers |-> None]
    /\ counts = [p \in Profiles |-> 0]
    /\ latest = [w \in Workers |-> None]
    /\ queue = [w \in Workers |-> <<>>]
    /\ tpc = [t \in Tasks |-> "select"]
    /\ slot = [t \in Tasks |-> None]
    /\ hint = HintOf
    /\ late = [t \in Tasks |-> FALSE]
    /\ started = [t \in Tasks |-> FALSE]
    /\ reply = [t \in Tasks |-> "none"]
    /\ wpc = [w \in Workers |-> IF w \in s.slots THEN "free" ELSE "retired"]
    /\ cmd = [w \in Workers |-> None]
    /\ overdue = [w \in Workers |-> FALSE]
    /\ current = [w \in Workers |-> None]
    /\ sources = [w \in Workers |-> <<>>]
    /\ native = [t \in Tasks |-> 0]
    /\ lastRun = [w \in Workers |-> None]

Init == \E s \in Scenarios : InitWith(s)

CallerStep(t) ==
    \/ SelectWorker(t) \/ TryReserve(t) \/ ConfirmReservation(t)
    \/ CommitProfile(t) \/ Send(t) \/ SeeStarted(t) \/ ReceiveReply(t)
    \/ QueueTimeout(t)

\* Steps the worker's own code takes once they are enabled.
WorkerStep(w) ==
    \/ Redispatch(w) \/ Dequeue(w) \/ StageDeadline(w)
    \/ AcquireRenderPermit(w) \/ EnsureSource(w)
    \/ AcquireNativePermit(w) \/ ResponseDeadline(w) \/ HardWedge(w)
    \/ WorkerRetires(w)

\* Steps that depend on native code or on the environment.
NativeStep(w) ==
    \/ SetupProfile(w) \/ RenderSucceeds(w) \/ RendererDies(w)
    \/ \E invalidates \in BOOLEAN : NativeCallFails(w, invalidates)

Next ==
    \/ \E t \in Tasks : CallerStep(t) \/ Disconnect(t) \/ PassDeadline(t)
    \/ \E w \in Workers :
         WorkerStep(w) \/ NativeStep(w) \/ RepairTick(w) \/ SendRetire(w)

\* Tasks of the async runtime are polled when ready, and time passes.  Native
\* calls need not return.
Fairness ==
    /\ \A t \in Tasks : WF_vars(CallerStep(t)) /\ WF_vars(PassDeadline(t))
    /\ \A w \in Workers : WF_vars(WorkerStep(w)) /\ WF_vars(RepairTick(w))

Spec == Init /\ [][Next]_vars /\ Fairness

-----------------------------------------------------------------------------

\* Every variable keeps the shape the code's types give it.
TypeOK ==
    /\ depth \in [Workers -> Nat]
    /\ available \in [Workers -> BOOLEAN] /\ healthy \in [Workers -> BOOLEAN]
    /\ loaded \in [Workers -> Profiles \cup {None}]
    /\ counts \in [Profiles -> Nat]
    /\ latest \in [Workers -> Tasks \cup {None}]
    /\ queue \in [Workers -> Seq(Tasks \cup {Retire})]
    /\ tpc \in [Tasks -> TaskPhases]
    /\ slot \in [Tasks -> Workers \cup {None}]
    /\ hint \in [Tasks -> Workers \cup {None}]
    /\ late \in [Tasks -> BOOLEAN] /\ started \in [Tasks -> BOOLEAN]
    /\ reply \in [Tasks -> Replies]
    /\ wpc \in [Workers -> WorkerPhases]
    /\ cmd \in [Workers -> Tasks \cup {None}]
    /\ overdue \in [Workers -> BOOLEAN]
    /\ current \in [Workers -> {None} \cup {SetupOf(t) : t \in Tasks}]
    /\ sources \in [Workers -> Seq(Sources)]
    /\ native \in [Tasks -> Nat]
    /\ lastRun \in [Workers -> Tasks \cup {None}]
    /\ deaths \in Nat /\ shutdown \in BOOLEAN

\* "Keeping the reservation with the command makes queue depth, drain, and hard
\* admission limits describe the work that actually remains": the depth counter
\* is exact through disconnects, redispatches, wedges and retirement.
DepthExact == \A w \in Workers : depth[w] = Cardinality(Outstanding(w))

\* "the pool may safely select another worker without duplicating native work":
\* no task is handed to a native renderer twice.
NativeOnce == \A t \in Tasks : native[t] <= 1

\* A drained slot whose newest dispatch was also the last one it processed is
\* never advertised as warm for a profile its renderer does not hold.
WarmthSound ==
    \A w \in Workers :
        wpc[w] = "free" /\ Outstanding(w) = {} /\ lastRun[w] = latest[w]
        => loaded[w] = None \/ (current[w] # None /\ loaded[w] = current[w][1])

\* "A credential change forces style setup even when the semantic WorkerProfile
\* is otherwise identical": a native render only runs on a slot set up for the
\* task's own profile and credential partition.
OwnSetup ==
    \A w \in Workers : wpc[w] = "render" => current[w] = SetupOf(cmd[w])

\* "Keeping the reservation with the command makes queue depth, drain, and hard
\* admission limits describe the work that actually remains": the counters keep
\* their types and a slot's depth is the number of its outstanding commands.
AccountingExact == TypeOK /\ DepthExact

\* No native render runs on the setup of another profile or credential, in
\* whatever order tasks marked the slot and sent their commands; and a drained
\* slot whose newest mark was processed last is not advertised for a profile its
\* renderer does not hold.  Where marks and commands crossed, the advertisement
\* may be wrong until the next dispatch, against the comment on PoolState.
SetupsSound == WarmthSound /\ OwnSetup

\* process returns to every caller: a wedged native call, a dead renderer, a
\* full node or a retiring pool delays the answer but never withholds it.
TaskReturns == \A t \in Tasks : <>[](tpc[t] = "done")

\* A hidden slot whose renderer is usable is advertised again: neither a late
\* answer nor a hard wedge leaves it quarantined for ever.
HiddenSlotSettles ==
    \A w \in Workers : []<>(available[w] \/ ~healthy[w] \/ wpc[w] = "retired")
=============================================================================
