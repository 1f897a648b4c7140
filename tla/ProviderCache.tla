---------------------------- MODULE ProviderCache ----------------------------
(***************************************************************************)
(* Ishikari's provider representation cache (servers/ishikari, server/     *)
(* upstream/cache.rs over mmpf-common singleflight.rs): styles and other   *)
(* origin documents with freshness, one fetch per key at a time, background *)
(* revalidation of stale entries and fences against refresh hints.         *)
(*                                                                         *)
(* The maps, the counter and the flight table are separate concurrent      *)
(* structures, so every access to one of them is a step.  The steps of one *)
(* task are the code's order of accesses.  The background revalidation of  *)
(* a key is the worker named by the key: the flight it leads keeps it      *)
(* unique.  A document is told apart by its version; the result of a       *)
(* request that failed is the empty set.                                   *)
(***************************************************************************)
EXTENDS Integers, FiniteSets

CONSTANTS
    Keys,         \* ProviderFetchCacheKey
    Requests,     \* fetch_json or fetch_bytes calls
    Refreshers,   \* handlers of a style refresh hint
    KeyOf,        \* KeyOf[x]: the key a request or a refresher is about
    Absent,       \* versions at which the origin answers 404 or 410
    NoWorker,     \* a key without a flight
    MaxVersion,   \* bound on publications
    Scenarios     \* which hints arrive, and how many fence entries are lost to
                  \* expiry or capacity

ASSUME ProviderCacheAssumption ==
    /\ IsFiniteSet(Keys) /\ IsFiniteSet(Requests)
    /\ KeyOf \in [Requests \cup Refreshers -> Keys]
    /\ Requests \cap Keys = {} /\ NoWorker \notin Requests \cup Keys
    /\ MaxVersion \in Nat /\ Absent \subseteq 0..MaxVersion
    /\ Scenarios \subseteq [hints : SUBSET Refreshers, losses : Nat]

Workers == Requests \cup Keys
Versions == 0..MaxVersion
Subject(w) == IF w \in Keys THEN w ELSE KeyOf[w]

VARIABLES
    origin,     \* the version the origin serves
    hinted,     \* the newest version a finished refresh was about
    entries,    \* the cached entry of a key, at most one
    epochs,     \* invalidation_epochs: the fence of a key, at most one
    refreshes,  \* the process-wide count of refreshes
    cooldown,   \* keys with an unexpired failed_revalidations entry
    leader,     \* the flight table: the worker that leads a key's flight
    wpc,        \* where a worker is
    fence,      \* the FetchFence it captured
    result,     \* what it fetched, was sent or has returned
    sent,       \* whether a woken follower was sent an outcome
    floor,      \* hinted, when the request came in
    fpc,        \* where a refresher is
    fepoch,     \* the epoch it read
    fversion,   \* the version its hint is about
    losses,     \* fence entries that may still be lost
    lost        \* keys whose fence was lost or set back

cacheVars == <<entries, epochs, refreshes, cooldown>>
workerVars == <<wpc, fence, result, sent, floor>>
refresherVars == <<fpc, fepoch, fversion>>
lossVars == <<losses, lost>>
vars == <<origin, hinted, cacheVars, leader, workerVars, refresherVars, lossVars>>

Fences == [epoch : SUBSET Nat, count : Nat]
NoFence == [epoch |-> {}, count |-> 0]

Entries == [version : Versions, epoch : Nat, age : {"fresh", "stale", "expired"}]

Phases == {"idle", "get", "allowed", "spawn", "begin", "waiting", "woken", "woken2",
           "recheck", "fence", "fence2", "io", "failed", "put", "put2", "store",
           "discard", "publish", "done", "gone"}

AtMostOne(S) == \A x, y \in S : x = y

TypeOK ==
    /\ origin \in [Keys -> Versions] /\ hinted \in [Keys -> Versions]
    /\ entries \in [Keys -> SUBSET Entries] /\ epochs \in [Keys -> SUBSET Nat]
    /\ \A k \in Keys : AtMostOne(entries[k]) /\ AtMostOne(epochs[k])
    /\ refreshes \in Nat /\ cooldown \subseteq Keys
    /\ leader \in [Keys -> Workers \cup {NoWorker}]
    /\ \A k \in Keys : leader[k] # NoWorker => Subject(leader[k]) = k
    /\ wpc \in [Workers -> Phases]
    /\ fence \in [Workers -> Fences] /\ result \in [Workers -> SUBSET Versions]
    /\ \A w \in Workers : AtMostOne(fence[w].epoch) /\ AtMostOne(result[w])
    /\ sent \in [Workers -> BOOLEAN] /\ floor \in [Requests -> Versions]
    /\ fpc \in [Refreshers -> {"idle", "count", "epoch", "insert", "drop", "done"}]
    /\ fepoch \in [Refreshers -> Nat] /\ fversion \in [Refreshers -> Versions]
    /\ losses \in Nat /\ lost \subseteq Keys

-----------------------------------------------------------------------------
(* Lookup. *)

\* The epoch an absent fence entry stands for is zero.
EpochNumber(set) == IF set = {} THEN 0 ELSE CHOOSE n \in set : TRUE

\* ProviderFetchCache::get: an entry of another epoch or past its windows is a
\* miss.
Lookup(k) ==
    {e \in entries[k] : e.epoch = EpochNumber(epochs[k]) /\ e.age # "expired"}

Goto(w, label) == wpc' = [wpc EXCEPT ![w] = label]

\* A request returns and drops what it held.
Return(r, value) ==
    /\ wpc' = [wpc EXCEPT ![r] = "done"]
    /\ result' = [result EXCEPT ![r] = value]
    /\ fence' = [fence EXCEPT ![r] = NoFence]
    /\ sent' = [sent EXCEPT ![r] = FALSE]

Start(r) ==
    /\ wpc[r] = "idle"
    /\ Goto(r, "get")
    /\ floor' = [floor EXCEPT ![r] = hinted[KeyOf[r]]]
    /\ UNCHANGED <<origin, hinted, cacheVars, leader, fence, result, sent,
                   refresherVars, lossVars>>

\* A hit is served at once; a stale one first tries to start a revalidation.
Get(r) ==
    LET hits == Lookup(KeyOf[r]) IN
    /\ wpc[r] = "get"
    /\ \/ \E e \in hits : /\ e.age = "fresh"
                          /\ Return(r, {e.version})
       \/ \E e \in hits : /\ e.age = "stale"
                          /\ Goto(r, "allowed")
                          /\ result' = [result EXCEPT ![r] = {e.version}]
                          /\ UNCHANGED <<fence, sent>>
       \/ hits = {} /\ Goto(r, "begin") /\ UNCHANGED <<fence, result, sent>>
    /\ UNCHANGED <<origin, hinted, cacheVars, leader, floor,
                   refresherVars, lossVars>>

\* spawn_stale_revalidation: stale_revalidation_allowed, then the election of
\* the background task; the request returns the stale document either way.
Allowed(r) ==
    /\ wpc[r] = "allowed"
    /\ \/ KeyOf[r] \in cooldown /\ Return(r, result[r])
       \/ KeyOf[r] \notin cooldown /\ Goto(r, "spawn")
          /\ UNCHANGED <<result, fence, sent>>
    /\ UNCHANGED <<origin, hinted, cacheVars, leader, floor,
                   refresherVars, lossVars>>

SpawnRevalidation(r) ==
    LET k == KeyOf[r] free == leader[k] = NoWorker IN
    /\ wpc[r] = "spawn"
    /\ leader' = IF free THEN [leader EXCEPT ![k] = k] ELSE leader
    /\ wpc' = IF free THEN [wpc EXCEPT ![r] = "done", ![k] = "recheck"]
                      ELSE [wpc EXCEPT ![r] = "done"]
    /\ UNCHANGED <<origin, hinted, cacheVars, fence, result, sent, floor,
                   refresherVars, lossVars>>

\* SingleFlight::begin.
Begin(r) ==
    LET k == KeyOf[r] IN
    /\ wpc[r] = "begin"
    /\ \/ /\ leader[k] = NoWorker
          /\ leader' = [leader EXCEPT ![k] = r]
          /\ Goto(r, "recheck")
       \/ /\ leader[k] # NoWorker
          /\ Goto(r, "waiting")
          /\ UNCHANGED leader
    /\ UNCHANGED <<origin, hinted, cacheVars, fence, result, sent, floor,
                   refresherVars, lossVars>>

-----------------------------------------------------------------------------
(* The flight. *)

\* Those that joined the current flight of a key: the end of a flight wakes
\* all of them.
Followers(k) == {r \in Requests : wpc[r] = "waiting" /\ KeyOf[r] = k}

\* LeaderGuard::drop: the key is free again and every follower of the flight
\* wakes, with the outcome if one was published.
DropGuardQuietly(w, label, publishes) ==
    LET k == Subject(w)
        woken == IF publishes THEN Followers(k) ELSE {}
    IN  /\ leader' = [leader EXCEPT ![k] = NoWorker]
        /\ wpc' = [x \in Workers |-> IF x = w THEN label
                                     ELSE IF x \in woken THEN "woken"
                                     ELSE wpc[x]]
        /\ sent' = [x \in Workers |-> x \in woken \/ (x # w /\ sent[x])]
        /\ fence' = [x \in Workers |-> IF x = w THEN NoFence
                                       ELSE IF x \in woken THEN fence[w]
                                       ELSE fence[x]]
        /\ result' = [x \in Workers |->
              IF x \in woken THEN result[w]
              ELSE IF x = w /\ label # "done" THEN {}
              ELSE result[x]]

DropGuard(w, label, publishes) ==
    LET k == Subject(w)
        woken == Followers(k)
        told == IF publishes THEN woken ELSE {}
    IN  /\ leader' = [leader EXCEPT ![k] = NoWorker]
        /\ wpc' = [x \in Workers |-> IF x = w THEN label
                                     ELSE IF x \in woken THEN "woken"
                                     ELSE wpc[x]]
        /\ sent' = [x \in Workers |-> x \in told \/ (x # w /\ sent[x])]
        /\ fence' = [x \in Workers |-> IF x = w THEN NoFence
                                       ELSE IF x \in told THEN fence[w]
                                       ELSE fence[x]]
        /\ result' = [x \in Workers |->
              IF x \in told THEN result[w]
              ELSE IF x = w /\ label # "done" THEN {}
              ELSE result[x]]

\* Under flight ownership a request looks again, and a revalidation makes sure
\* that the entry is still stale and no failure is cooling down.
StillWantedTrusting(w) == w \in Keys \/ Lookup(Subject(w)) = {}

StillWanted(w) ==
    LET hits == Lookup(Subject(w)) IN
    IF w \in Keys
    THEN w \notin cooldown /\ \E e \in hits : e.age = "stale"
    ELSE hits = {}

Recheck(w) ==
    /\ wpc[w] = "recheck"
    /\ \/ StillWanted(w) /\ Goto(w, "fence")
          /\ UNCHANGED <<leader, fence, result, sent>>
       \/ ~StillWanted(w) /\ DropGuard(w, IF w \in Keys THEN "idle" ELSE "get", FALSE)
    /\ UNCHANGED <<origin, hinted, cacheVars, floor, refresherVars, lossVars>>

\* fetch_fence reads the key's epoch, then the count.
FenceEpoch(w) ==
    /\ wpc[w] = "fence"
    /\ fence' = [fence EXCEPT ![w].epoch = epochs[Subject(w)]]
    /\ Goto(w, "fence2")
    /\ UNCHANGED <<origin, hinted, cacheVars, leader, result, sent, floor,
                   refresherVars, lossVars>>

FenceCount(w) ==
    /\ wpc[w] = "fence2"
    /\ fence' = [fence EXCEPT ![w].count = refreshes]
    /\ Goto(w, "io")
    /\ UNCHANGED <<origin, hinted, cacheVars, leader, result, sent, floor,
                   refresherVars, lossVars>>

\* The origin answers with its document, a 404 or 410, or a 304 that renews the
\* stale one: each is the origin's version of that moment.
OriginAnswers(w) ==
    /\ wpc[w] = "io"
    /\ result' = [result EXCEPT ![w] = {origin[Subject(w)]}]
    /\ Goto(w, "put")
    /\ UNCHANGED <<origin, hinted, cacheVars, leader, fence, sent, floor,
                   refresherVars, lossVars>>

\* The fetch fails, times out or finds the admission queue full.
OriginFails(w) ==
    /\ wpc[w] = "io"
    /\ result' = [result EXCEPT ![w] = {}]
    /\ Goto(w, IF w \in Keys THEN "failed" ELSE "publish")
    /\ UNCHANGED <<origin, hinted, cacheVars, leader, fence, sent, floor,
                   refresherVars, lossVars>>

\* mark_stale_revalidation_failure, before the flight completes.
MarkFailure(k) ==
    LET aged(age) == \E e \in entries[k] : e.age = age IN
    /\ wpc[k] = "failed"
    /\ cooldown' = IF aged("stale") THEN cooldown \cup {k} ELSE cooldown \ {k}
    /\ entries' = [entries EXCEPT ![k] = IF aged("expired") THEN {} ELSE @]
    /\ Goto(k, "publish")
    /\ UNCHANGED <<origin, hinted, epochs, refreshes, leader, fence, result,
                   sent, floor, refresherVars, lossVars>>

\* is_superseded reads the count and, when it moved, the key's fence.
CountNeverMoved(w) == FALSE
CountMoved(w) == refreshes # fence[w].count
FenceMoved(w) ==
    epochs[Subject(w)] = {} \/ epochs[Subject(w)] # fence[w].epoch

\* put_found and put_negative: is_superseded, then the store.
PutCheckCount(w) ==
    /\ wpc[w] = "put"
    /\ cooldown' = cooldown \ {Subject(w)}
    /\ Goto(w, IF CountMoved(w) THEN "put2" ELSE "store")
    /\ UNCHANGED <<origin, hinted, entries, epochs, refreshes, leader, fence,
                   result, sent, floor, refresherVars, lossVars>>

PutCheckFence(w) ==
    /\ wpc[w] = "put2"
    /\ Goto(w, IF FenceMoved(w) THEN "discard" ELSE "store")
    /\ UNCHANGED <<origin, hinted, cacheVars, leader, fence, result, sent,
                   floor, refresherVars, lossVars>>

\* The policy may forbid the store; a 404 has no stale window.
Store(w) ==
    LET k == Subject(w) IN
    /\ wpc[w] = "store"
    /\ \/ /\ \E v \in result[w] :
                entries' = [entries EXCEPT ![k] =
                   {[version |-> v, epoch |-> EpochNumber(fence[w].epoch),
                     age |-> "fresh"]}]
          /\ UNCHANGED cooldown
       \/ /\ entries' = [entries EXCEPT ![k] = {}]
          /\ cooldown' = cooldown \ {k}
    /\ Goto(w, "publish")
    /\ UNCHANGED <<origin, hinted, epochs, refreshes, leader, fence, result,
                   sent, floor, refresherVars, lossVars>>

Discard(w) ==
    /\ wpc[w] = "discard"
    /\ entries' = [entries EXCEPT ![Subject(w)] = {}]
    /\ cooldown' = cooldown \ {Subject(w)}
    /\ Goto(w, "publish")
    /\ UNCHANGED <<origin, hinted, epochs, refreshes, leader, fence, result,
                   sent, floor, refresherVars, lossVars>>

\* complete_with: the leader's outcome goes to its followers and the request.
PublishOutcome(w) ==
    /\ wpc[w] = "publish"
    /\ DropGuard(w, IF w \in Keys THEN "idle" ELSE "done", TRUE)
    /\ UNCHANGED <<origin, hinted, cacheVars, floor, refresherVars, lossVars>>

\* A woken follower without an outcome looks again; with one it checks the
\* leader's fence first.
Woken(r) ==
    /\ wpc[r] = "woken"
    /\ \/ ~sent[r] /\ Goto(r, "get") /\ UNCHANGED <<fence, result, sent>>
       \/ sent[r] /\ ~CountMoved(r) /\ Return(r, result[r])
       \/ sent[r] /\ CountMoved(r) /\ Goto(r, "woken2")
          /\ UNCHANGED <<fence, result, sent>>
    /\ UNCHANGED <<origin, hinted, cacheVars, leader, floor,
                   refresherVars, lossVars>>

WokenFence(r) ==
    /\ wpc[r] = "woken2"
    /\ \/ ~FenceMoved(r) /\ Return(r, result[r])
       \/ /\ FenceMoved(r)
          /\ Goto(r, "get")
          /\ result' = [result EXCEPT ![r] = {}]
          /\ fence' = [fence EXCEPT ![r] = NoFence]
          /\ sent' = [sent EXCEPT ![r] = FALSE]
    /\ UNCHANGED <<origin, hinted, cacheVars, leader, floor,
                   refresherVars, lossVars>>

\* The client goes away while the request awaits: its future is dropped, and
\* the guard with it.
Cancel(r) ==
    /\ wpc[r] \in {"waiting", "woken", "io"}
    /\ IF leader[KeyOf[r]] = r
       THEN DropGuard(r, "gone", FALSE)
       ELSE /\ Goto(r, "gone")
            /\ fence' = [fence EXCEPT ![r] = NoFence]
            /\ result' = [result EXCEPT ![r] = {}]
            /\ sent' = [sent EXCEPT ![r] = FALSE]
            /\ UNCHANGED leader
    /\ UNCHANGED <<origin, hinted, cacheVars, floor, refresherVars, lossVars>>

-----------------------------------------------------------------------------
(* The world around it. *)

\* A publication at the origin; the hint about it follows.
Publish(k) ==
    /\ origin[k] < MaxVersion
    /\ origin' = [origin EXCEPT ![k] = @ + 1]
    /\ UNCHANGED <<hinted, cacheVars, leader, workerVars, refresherVars, lossVars>>

\* invalidate_for_refresh: count, epoch (a read and an insert), entry.
HintArrives(f) ==
    /\ fpc[f] = "idle"
    /\ fpc' = [fpc EXCEPT ![f] = "count"]
    /\ fversion' = [fversion EXCEPT ![f] = origin[KeyOf[f]]]
    /\ UNCHANGED <<origin, hinted, cacheVars, leader, workerVars, fepoch, lossVars>>

RaiseCount(f) ==
    /\ fpc[f] = "count"
    /\ refreshes' = refreshes + 1
    /\ fpc' = [fpc EXCEPT ![f] = "epoch"]
    /\ UNCHANGED <<origin, hinted, entries, epochs, cooldown, leader,
                   workerVars, fepoch, fversion, lossVars>>

ReadEpoch(f) ==
    /\ fpc[f] = "epoch"
    /\ fepoch' = [fepoch EXCEPT ![f] = EpochNumber(epochs[KeyOf[f]])]
    /\ fpc' = [fpc EXCEPT ![f] = "insert"]
    /\ UNCHANGED <<origin, hinted, cacheVars, leader, workerVars, fversion, lossVars>>

\* Refreshes that overlapped since the read may have gone further.
InsertEpoch(f) ==
    LET k == KeyOf[f] IN
    /\ fpc[f] = "insert"
    /\ epochs' = [epochs EXCEPT ![k] = {fepoch[f] + 1}]
    /\ lost' = IF EpochNumber(epochs[k]) > fepoch[f] + 1 THEN lost \cup {k} ELSE lost
    /\ fpc' = [fpc EXCEPT ![f] = "drop"]
    /\ UNCHANGED <<origin, hinted, entries, refreshes, cooldown, leader,
                   workerVars, fepoch, fversion, losses>>

DropEntry(f) ==
    LET k == KeyOf[f] IN
    /\ fpc[f] = "drop"
    /\ entries' = [entries EXCEPT ![k] = {}]
    /\ cooldown' = cooldown \ {k}
    /\ hinted' = [hinted EXCEPT ![k] = IF @ < fversion[f] THEN fversion[f] ELSE @]
    /\ fpc' = [fpc EXCEPT ![f] = "done"]
    /\ UNCHANGED <<origin, epochs, refreshes, leader, workerVars, fepoch,
                   fversion, lossVars>>

\* Time passes for an entry: out of its fresh window, then out of its stale
\* one, which a document may lack.
Age(k) ==
    /\ \E e \in entries[k] :
          \E age \in CASE e.age = "fresh" /\ e.version \notin Absent
                                            -> {"stale", "expired"}
                     [] e.age = "expired" -> {}
                     [] OTHER -> {"expired"} :
             entries' = [entries EXCEPT ![k] = {[e EXCEPT !.age = age]}]
    /\ UNCHANGED <<origin, hinted, epochs, refreshes, cooldown, leader,
                   workerVars, refresherVars, lossVars>>

\* The byte-bounded cache evicts an entry.
Evict(k) ==
    /\ entries[k] # {}
    /\ entries' = [entries EXCEPT ![k] = {}]
    /\ UNCHANGED <<origin, hinted, epochs, refreshes, cooldown, leader,
                   workerVars, refresherVars, lossVars>>

CooldownOver(k) ==
    /\ k \in cooldown
    /\ cooldown' = cooldown \ {k}
    /\ UNCHANGED <<origin, hinted, entries, epochs, refreshes, leader,
                   workerVars, refresherVars, lossVars>>

\* The bounded fence map drops an entry, by expiry or capacity.
LoseFence(k) ==
    /\ epochs[k] # {} /\ losses > 0
    /\ epochs' = [epochs EXCEPT ![k] = {}]
    /\ losses' = losses - 1 /\ lost' = lost \cup {k}
    /\ UNCHANGED <<origin, hinted, entries, refreshes, cooldown, leader,
                   workerVars, refresherVars>>

-----------------------------------------------------------------------------
\* The cache may already hold documents fetched before.
InitWith(s) ==
    /\ origin = [k \in Keys |-> 0] /\ hinted = [k \in Keys |-> 0]
    /\ \E held \in SUBSET (Keys \X {"fresh", "stale"}) :
          /\ \A k \in Keys : AtMostOne({h \in held : h[1] = k})
          /\ entries = [k \in Keys |->
                {[version |-> 0, epoch |-> 0, age |-> h[2]] :
                    h \in {g \in held : g[1] = k}}]
    /\ epochs = [k \in Keys |-> {}]
    /\ refreshes = 0 /\ cooldown = {}
    /\ leader = [k \in Keys |-> NoWorker]
    /\ wpc = [w \in Workers |-> "idle"]
    /\ fence = [w \in Workers |-> NoFence]
    /\ result = [w \in Workers |-> {}]
    /\ sent = [w \in Workers |-> FALSE]
    /\ floor = [r \in Requests |-> 0]
    /\ fpc = [f \in Refreshers |-> IF f \in s.hints THEN "idle" ELSE "done"]
    /\ fepoch = [f \in Refreshers |-> 0]
    /\ fversion = [f \in Refreshers |-> 0]
    /\ losses = s.losses /\ lost = {}

Init == \E s \in Scenarios : InitWith(s)

RequestStep(r) ==
    \/ Get(r) \/ Allowed(r) \/ SpawnRevalidation(r) \/ Begin(r)
    \/ Woken(r) \/ WokenFence(r)

LeaderStep(w) ==
    \/ Recheck(w) \/ FenceEpoch(w) \/ FenceCount(w)
    \/ OriginAnswers(w) \/ OriginFails(w)
    \/ PutCheckCount(w) \/ PutCheckFence(w) \/ Store(w) \/ Discard(w)
    \/ PublishOutcome(w)

RefreshStep(f) == RaiseCount(f) \/ ReadEpoch(f) \/ InsertEpoch(f) \/ DropEntry(f)

Next ==
    \/ \E r \in Requests : Start(r) \/ RequestStep(r) \/ Cancel(r)
    \/ \E w \in Workers : LeaderStep(w)
    \/ \E f \in Refreshers : HintArrives(f) \/ RefreshStep(f)
    \/ \E k \in Keys : \/ MarkFailure(k) \/ Publish(k)
                       \/ Age(k) \/ Evict(k) \/ CooldownOver(k) \/ LoseFence(k)

Spec == Init /\ [][Next]_vars

-----------------------------------------------------------------------------
(* Properties *)

\* A request that came in after a refresh finished is never answered with a
\* document older than the one the refresh was about, neither from the cache nor
\* from the flight it joined, although fetches that began before the refresh
\* complete after it: as long as the fence map keeps the key's entry and no
\* overlapping refresh sets it back.
FreshAfterHint ==
    \A r \in Requests : wpc[r] = "done" /\ KeyOf[r] \notin lost =>
       \A v \in result[r] : v >= floor[r]

\* The same whatever becomes of the fence: when the bounded map has lost the entry
\* ("Losing an entry early is safe but not free"), and when refreshes overlap
\* ("Dropping the entry last is what makes the interleaving safe either way").
AlwaysFresh ==
    \A r \in Requests : wpc[r] = "done" =>
       \A v \in result[r] : v >= floor[r]

\* Work on a key's origin: from the captured fence to the published outcome.
Fetching(w) ==
    wpc[w] \in {"fence2", "io", "failed", "put", "put2", "store", "discard", "publish"}

\* At most one worker, foreground or background, is between election and
\* publication of a key's fetch.
OneFetch ==
    \A v, w \in Workers :
       Subject(v) = Subject(w) /\ Fetching(v) /\ Fetching(w) => v = w

\* A background revalidation never replaces a fresh document: a request that
\* saw the entry stale looks again once it leads the flight.
RevalidatesStale ==
    \A k \in Keys : wpc[k] \in {"io", "put", "store"} =>
       \A e \in entries[k] : e.age # "fresh"

\* No follower waits for a flight that is over: a leader that is cancelled,
\* fails or finds the entry refilled wakes its followers when its guard drops.
FollowersLed ==
    \A r \in Requests : wpc[r] = "waiting" => leader[KeyOf[r]] # NoWorker

\* One worker at a time fetches a key, and whoever follows it has a leader that
\* will wake it (SingleFlight::begin and the guard's Drop).
FlightsSound == TypeOK /\ OneFetch /\ FollowersLed
=============================================================================
