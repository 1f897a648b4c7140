----------------------------- MODULE RenderCache -----------------------------
(***************************************************************************)
(* Biei's node-local render output cache (biei-core/src/render_cache.rs)   *)
(* and the part of Node that drives it (node.rs,                           *)
(* acquire_render_output_cache and maybe_insert_render_output_cache).      *)
(*                                                                         *)
(* Callers ask for a rendered image.  A caller is answered by a resident   *)
(* entry, becomes the only renderer of its key (the leader), or waits for  *)
(* the leader's watch channel.  A refresh hint invalidates a style: it     *)
(* bumps one process-wide epoch and drops the style's entries.  A leader   *)
(* reads the epoch before it renders and its insert is refused when the    *)
(* epoch has moved.  Resident bytes carry the namespace grant of the       *)
(* caller that rendered them; another caller may only be answered by them  *)
(* if its own grant covers that requirement.                               *)
(*                                                                         *)
(* Granularity: every step that another task can observe or overtake is an *)
(* action of its own.  In particular the first cache read, the shard lock, *)
(* the epoch read after the lock is dropped, and the two halves of the     *)
(* leader's Drop (remove the flight, then signal the channel) are separate.*)
(***************************************************************************)
EXTENDS Naturals, FiniteSets

CONSTANTS
    Callers,    \* requests being served by this node
    Keys,       \* render cache keys (RenderCacheKey)
    Styles,     \* style ids
    StyleOf,    \* StyleOf[k]: the style id inside key k
    Namespaces, \* namespace labels, the wildcard excluded
    Grant,      \* Grant[c]: readable namespaces of c; {} is Option::None
    MaxEpoch    \* bound on the number of invalidations

\* The wildcard label "*"; NamespaceSet::try_new collapses any set holding it.
Wildcard == "*"

\* Option<NamespaceSet>: {} stands for None (a NamespaceSet is never empty).
Grants == SUBSET Namespaces \cup {{Wildcard}}

ASSUME RenderCacheAssumption ==
    /\ StyleOf \in [Keys -> Styles]
    /\ Grant \in [Callers -> Grants]
    /\ Wildcard \notin Namespaces
    /\ MaxEpoch \in Nat

VARIABLES
    cache,       \* resident entries, at most one per key
    flights,     \* callers whose flight is in the in_flight map (key of c: key[c])
    epoch,       \* invalidation_epoch
    gen,         \* gen[s]: number of invalidations of style s (history)
    pc,          \* control state of each caller
    key,         \* the key a caller asked for
    asked,       \* gen of the caller's style when it asked (history)
    leaderEpoch, \* RenderFlightLeader.invalidation_epoch
    renderGen,   \* gen of the style when the leader's render began (history)
    waitOn,      \* the leader whose watch channel a follower subscribed to
    answer       \* {} or the one output the caller was answered with

vars == <<cache, flights, epoch, gen, pc, key, asked, leaderEpoch, renderGen,
          waitOn, answer>>

\* An output: the key it shows, the style generation its render began in, the
\* stored requirement, and (history) the grant of the caller that rendered it.
Output == [key : Keys, gen : Nat, required : Grants, by : Grants]

Phases == {"idle", "missed", "elected", "leading", "rendering", "dropping",
           "notifying", "waiting", "woken", "served"}

\* Phases in which a caller still owes its channel a signal.
LeaderPhases == {"elected", "leading", "rendering", "dropping", "notifying"}

-----------------------------------------------------------------------------

\* NamespaceSet::allows
Allows(readable, required) ==
    \/ readable = {Wildcard}
    \/ required # {Wildcard} /\ required \subseteq readable

\* CachedRenderOutput::is_authorized_for
IsAuthorizedFor(required, readable) ==
    \/ required = {} /\ readable = {}
    \/ required # {} /\ readable # {} /\ Allows(readable, required)

\* Mutant: a hit is served without the authorization check.
HitsForAnyone(c, k) == {e \in cache : e.key = k}

\* The resident entry that answers caller c asking for k, if any.
HitsFor(c, k) ==
    {e \in cache : e.key = k /\ IsAuthorizedFor(e.required, Grant[c])}

\* The leader registered for k, if any.
FlightOf(k) == {c \in flights : key[c] = k}

Init ==
    /\ cache = {}
    /\ flights = {}
    /\ epoch = 0
    /\ gen = [s \in Styles |-> 0]
    /\ pc = [c \in Callers |-> "idle"]
    /\ key \in [Callers -> Keys]
    /\ asked = [c \in Callers |-> 0]
    /\ leaderEpoch = [c \in Callers |-> 0]
    /\ renderGen = [c \in Callers |-> 0]
    /\ waitOn = [c \in Callers |-> c]
    /\ answer = [c \in Callers |-> {}]

\* The unlocked cache read that opens lookup_or_join_key.
ReadCache(c, k) ==
    \/ \E e \in HitsFor(c, k) :
         /\ answer' = [answer EXCEPT ![c] = {e}]
         /\ pc' = [pc EXCEPT ![c] = "served"]
    \/ /\ HitsFor(c, k) = {}
       /\ pc' = [pc EXCEPT ![c] = "missed"]
       /\ UNCHANGED answer

\* A request arrives and performs the unlocked read.
Request(c, k) ==
    /\ pc[c] = "idle"
    /\ key' = [key EXCEPT ![c] = k]
    /\ asked' = [asked EXCEPT ![c] = gen[StyleOf[k]]]
    /\ ReadCache(c, k)
    /\ UNCHANGED <<cache, flights, epoch, gen, leaderEpoch, renderGen, waitOn>>

\* The critical section of the flight shard: recheck, then join or lead.
JoinOrLead(c) ==
    /\ pc[c] = "missed"
    /\ \/ \E e \in HitsFor(c, key[c]) :
            /\ answer' = [answer EXCEPT ![c] = {e}]
            /\ pc' = [pc EXCEPT ![c] = "served"]
            /\ UNCHANGED <<flights, waitOn>>
       \/ /\ HitsFor(c, key[c]) = {}
          /\ \E l \in FlightOf(key[c]) : waitOn' = [waitOn EXCEPT ![c] = l]
          /\ pc' = [pc EXCEPT ![c] = "waiting"]
          /\ UNCHANGED <<flights, answer>>
       \/ /\ HitsFor(c, key[c]) = {}
          /\ FlightOf(key[c]) = {}
          /\ flights' = flights \cup {c}
          /\ pc' = [pc EXCEPT ![c] = "elected"]
          /\ UNCHANGED <<waitOn, answer>>
    /\ UNCHANGED <<cache, epoch, gen, key, asked, leaderEpoch, renderGen>>

\* The new leader reads the epoch after it has dropped the shard lock.
LoadEpoch(c) ==
    /\ pc[c] = "elected"
    /\ leaderEpoch' = [leaderEpoch EXCEPT ![c] = epoch]
    /\ pc' = [pc EXCEPT ![c] = "leading"]
    /\ UNCHANGED <<cache, flights, epoch, gen, key, asked, renderGen, waitOn,
                   answer>>

\* The leader's render begins on this node.  A leader whose task is forwarded
\* takes the same steps around the peer's outcome, but what content the peer
\* rendered depends on the hints that the peer has seen: see StyleRefresh.
BeginRender(c) ==
    /\ pc[c] = "leading"
    /\ renderGen' = [renderGen EXCEPT ![c] = gen[StyleOf[key[c]]]]
    /\ pc' = [pc EXCEPT ![c] = "rendering"]
    /\ UNCHANGED <<cache, flights, epoch, gen, key, asked, leaderEpoch, waitOn,
                   answer>>

\* What the leader's render produced, as insert_from_outcome stores it.
Rendered(c) ==
    [key |-> key[c], gen |-> renderGen[c], required |-> Grant[c],
     by |-> Grant[c]]

\* The entries after insert_from_outcome: refused when the epoch moved or when
\* the resident entry carries a different namespace requirement.
InsertFromOutcome(c) ==
    IF \/ leaderEpoch[c] # epoch
       \/ \E e \in cache : e.key = key[c] /\ e.required # Grant[c]
    THEN cache
    ELSE {e \in cache : e.key # key[c]} \cup {Rendered(c)}

\* TaskResult::Completed: insert under the mutation gate, answer the caller.
CompleteRender(c) ==
    /\ pc[c] = "rendering"
    /\ cache' = InsertFromOutcome(c)
    /\ answer' = [answer EXCEPT ![c] = {Rendered(c)}]
    /\ pc' = [pc EXCEPT ![c] = "dropping"]
    /\ UNCHANGED <<flights, epoch, gen, key, asked, leaderEpoch, renderGen,
                   waitOn>>

\* Any other end of leadership: a degraded node sheds a forwarded miss, the
\* render fails or is rejected, or the leader's future is dropped.
Abandon(c) ==
    /\ pc[c] \in {"leading", "rendering"}
    /\ pc' = [pc EXCEPT ![c] = "dropping"]
    /\ UNCHANGED <<cache, flights, epoch, gen, key, asked, leaderEpoch,
                   renderGen, waitOn, answer>>

\* First half of RenderFlightLeader::drop, under the shard lock.
RemoveFlight(c) ==
    /\ pc[c] = "dropping"
    /\ flights' = flights \ {c}
    /\ pc' = [pc EXCEPT ![c] = "notifying"]
    /\ UNCHANGED <<cache, epoch, gen, key, asked, leaderEpoch, renderGen,
                   waitOn, answer>>

\* Where a leader goes once its guard is dropped.
AfterLeading(c) == IF answer[c] = {} THEN "idle" ELSE "served"

\* Second half of drop, outside the lock: the channel's version changes.
Notify(c) ==
    /\ pc[c] = "notifying"
    /\ pc' = [d \in Callers |->
                IF d = c THEN AfterLeading(c)
                ELSE IF pc[d] = "waiting" /\ waitOn[d] = c THEN "woken"
                ELSE pc[d]]
    /\ leaderEpoch' = [leaderEpoch EXCEPT ![c] = 0]
    /\ renderGen' = [renderGen EXCEPT ![c] = 0]
    /\ UNCHANGED <<cache, flights, epoch, gen, key, asked, waitOn, answer>>

\* RenderFlightFollower::recheck starts the lookup over with the same key.
Recheck(c) ==
    /\ pc[c] = "woken"
    /\ ReadCache(c, key[c])
    /\ waitOn' = [waitOn EXCEPT ![c] = c]
    /\ UNCHANGED <<cache, flights, epoch, gen, key, asked, leaderEpoch,
                   renderGen>>

\* The follower's deadline fires first (tokio::select! is not biased).
Deadline(c) ==
    /\ pc[c] \in {"waiting", "woken"}
    /\ pc' = [pc EXCEPT ![c] = "idle"]
    /\ waitOn' = [waitOn EXCEPT ![c] = c]
    /\ UNCHANGED <<cache, flights, epoch, gen, key, asked, leaderEpoch,
                   renderGen, answer>>

\* The outcome is returned to the requester; the caller slot is reused.
Finish(c) ==
    /\ pc[c] = "served"
    /\ pc' = [pc EXCEPT ![c] = "idle"]
    /\ answer' = [answer EXCEPT ![c] = {}]
    /\ UNCHANGED <<cache, flights, epoch, gen, key, asked, leaderEpoch,
                   renderGen, waitOn>>

\* Mutant: the epoch moves but completed renders stay resident.
InvalidateEpochOnly(s) ==
    /\ epoch < MaxEpoch
    /\ epoch' = epoch + 1
    /\ gen' = [gen EXCEPT ![s] = @ + 1]
    /\ UNCHANGED <<cache, flights, pc, key, asked, leaderEpoch, renderGen,
                   waitOn, answer>>

\* RenderOutputCache::invalidate_style, under the mutation gate.
InvalidateStyle(s) ==
    /\ epoch < MaxEpoch
    /\ epoch' = epoch + 1
    /\ gen' = [gen EXCEPT ![s] = @ + 1]
    /\ cache' = {e \in cache : StyleOf[e.key] # s}
    /\ UNCHANGED <<flights, pc, key, asked, leaderEpoch, renderGen, waitOn,
                   answer>>

\* Size or time-to-live eviction may remove an entry at any time.
Evict(e) ==
    /\ cache' = cache \ {e}
    /\ UNCHANGED <<flights, epoch, gen, pc, key, asked, leaderEpoch, renderGen,
                   waitOn, answer>>

CallerStep(c) ==
    \/ JoinOrLead(c) \/ LoadEpoch(c) \/ BeginRender(c) \/ CompleteRender(c)
    \/ Abandon(c) \/ RemoveFlight(c) \/ Notify(c) \/ Recheck(c)
    \/ Deadline(c) \/ Finish(c)

Next ==
    \/ \E c \in Callers : CallerStep(c)
    \/ \E c \in Callers, k \in Keys : Request(c, k)
    \/ \E s \in Styles : InvalidateStyle(s)
    \/ \E e \in cache : Evict(e)

\* Synchronous code runs to its next await; a render ends because its deadline
\* and the hard wedge timeout bound it.  Requests, invalidations, evictions and
\* follower deadlines are not forced to happen.
Fairness ==
    \A c \in Callers :
        WF_vars(\/ JoinOrLead(c) \/ LoadEpoch(c) \/ BeginRender(c)
                \/ CompleteRender(c) \/ Abandon(c) \/ RemoveFlight(c)
                \/ Notify(c) \/ Recheck(c))

Spec == Init /\ [][Next]_vars /\ Fairness

-----------------------------------------------------------------------------

\* Every variable keeps the shape the code's types give it.
TypeOK ==
    /\ cache \subseteq Output
    /\ flights \subseteq Callers
    /\ epoch \in Nat
    /\ gen \in [Styles -> Nat]
    /\ pc \in [Callers -> Phases]
    /\ key \in [Callers -> Keys]
    /\ asked \in [Callers -> Nat]
    /\ leaderEpoch \in [Callers -> Nat]
    /\ renderGen \in [Callers -> Nat]
    /\ waitOn \in [Callers -> Callers]
    /\ answer \in [Callers -> SUBSET Output]

\* Single flight: two callers never render (or hold the right to render) the
\* same key at the same time, whatever invalidations, aborts and evictions
\* happen between their lookups.
SingleLeader ==
    \A c, d \in Callers :
        /\ pc[c] \in LeaderPhases \ {"notifying"}
        /\ pc[d] \in LeaderPhases \ {"notifying"}
        /\ key[c] = key[d]
        => c = d

\* invalidate_style "fences renders that began before the invalidation": no
\* resident entry was rendered before the latest invalidation of its style.
NoStaleResident ==
    \A e \in cache : e.gen = gen[StyleOf[e.key]]

\* A caller is never answered, by the cache or by its own render, with output
\* whose render began before an invalidation that preceded its request.
AnswersFresh ==
    \A c \in Callers : \A a \in answer[c] :
        a.key = key[c] /\ a.gen >= asked[c]

\* Bytes rendered under one caller's namespace grant reach another caller only
\* if both are unauthenticated or the second one's grant covers the first's.
AnswersAuthorized ==
    \A c \in Callers : \A a \in answer[c] :
        /\ a.by = {} <=> Grant[c] = {}
        /\ Wildcard \notin Grant[c] => a.by \subseteq Grant[c]

\* "Do not relax or replace the resident authorization requirement": a step
\* that replaces a resident entry keeps its requirement.
RequirementKept ==
    [][\A e \in cache, f \in cache' : e.key = f.key => e.required = f.required]_vars

\* A parked follower always has a leader that still owes its channel a signal;
\* a flight removed from the map does not strand those who joined it.
NoLostWakeup ==
    \A c \in Callers :
        pc[c] = "waiting" => pc[waitOn[c]] \in LeaderPhases

\* "Dropping the guard always wakes followers, including when rendering fails
\* or the leader future is aborted": no follower needs its deadline to move on.
FollowersWoken ==
    \A c \in Callers : []<>(pc[c] # "waiting")
=============================================================================
