---- MODULE FileSource ----
(***************************************************************************)
(* The Rust file sources MapLibre Native loads resources through           *)
(* (mmpf-mln-filesource): the Database source, the Network source with     *)
(* the shared-cache race, the negative cache, the refresh cooldown and the *)
(* single flights, and the process-wide resource cache both read.  The     *)
(* model follows the loads of one cacheable tile URL by several renderers. *)
(*                                                                         *)
(* MainResourceLoader, which is native code, asks Database first.  A       *)
(* usable answer is delivered to the consumer and paired with a Low        *)
(* priority Network request that carries only the answer's metadata; an    *)
(* unusable one is withheld and passed to Network as priorData; after a    *)
(* miss Network is asked with nothing.                                     *)
(*                                                                         *)
(* The provider serves version "up" of the tile and its ETag is the        *)
(* version; 0 means it has no tile, and no body or no validator elsewhere. *)
(* Time 0 is UNIX_EPOCH: no-cache stores an expiry of 0.                   *)
(***************************************************************************)
EXTENDS Integers, FiniteSets, Sequences, FiniteSetsExt, TLC

CONSTANTS
  Loads,         \* renderers' loads that may be under way at once
  Scenarios,     \* see Init
  Lane,          \* permits of each priority lane
  BodyPermits,
  MaxAttempts,   \* MAX_ATTEMPTS
  MaxDeferral,   \* MAX_REFRESH_DEFERRAL
  NegativeTtl,   \* NEGATIVE_CACHE_TTL
  CooldownTtl,   \* REFRESH_FAILURE_COOLDOWN
  FallbackTtl,   \* REVALIDATED_FALLBACK_TTL
  Horizon        \* bound: the clock stops here

VARIABLES
  sc,      \* the scenario: the provider's policy and what is left to happen
  now,
  up,      \* the provider's current version, 0 when it has none
  cache,   \* ResourceCache's entry for the tile, or NoEntry
  neg,     \* until when negative_cache has the tile, 0 when it has not
  cool,    \* until when refresh_failure_cooldown has it, 0 when it has not
  load     \* each load

vars == <<sc, now, up, cache, neg, cool, load>>

NoEntry == [body |-> 0, etag |-> 0, exp |-> 0, must |-> FALSE, life |-> 0, grant |-> 0, stale |-> 0]
NoPrior == NoEntry

(***************************************************************************)
(* A load: where it is; the Network request's priority and prior fields;   *)
(* whether its consumer holds a body; its flight (lead: it holds the       *)
(* FlightLeader, on: whose flight it waits for); its attempt's number,     *)
(* snapshot of the cache and response; its deferral; how it ended.         *)
(***************************************************************************)
Idle == [st |-> "idle", prio |-> "regular", petag |-> 0, pexp |-> 0, data |-> 0, has |-> FALSE,
         lead |-> FALSE, on |-> 0, try |-> 0, prior |-> NoPrior, got |-> 0,
         wake |-> 0, capped |-> FALSE, reply |-> "none"]

Set(t, changes) == load' = [load EXCEPT ![t] = changes @@ @]

\* How a load ends: its consumer gets the reply.
\* (data stays, so that properties can tell a withheld body.)
Ended(l, reply) ==
  [Idle EXCEPT !.reply = reply, !.has = l.has \/ reply = "body", !.data = l.data]

Init ==
  /\ sc \in Scenarios
  /\ now = 1
  /\ up = 1
  /\ cache = NoEntry
  /\ neg = 0 /\ cool = 0
  /\ load = [t \in Loads |-> Idle]

(***************************************************************************)
(* The resource cache.                                                     *)
(***************************************************************************)
Fresh(e) == e.body # 0 /\ e.exp > now
CanServeStale(e) == e.body # 0 /\ e.exp <= now /\ now < e.stale

\* freshness_for_response: the provider's lifetime and grant, from now on.
Windowed(life, grant) == IF grant = 0 THEN 0 ELSE now + life + grant

\* A 200's cache entry: with_cache_metadata without a prior.
FromResponse(version) ==
  LET p == sc.policy IN
  [body |-> version, etag |-> version, exp |-> IF p.noCache THEN 0 ELSE now + p.life,
   must |-> p.noCache, life |-> p.life, grant |-> p.grant, stale |-> Windowed(p.life, p.grant)]

\* PriorResponse: what the request brought before what the cache holds.
PriorOf(l) ==
  [cache EXCEPT !.etag = IF l.petag # 0 THEN l.petag ELSE @,
                !.exp = IF l.petag # 0 THEN l.pexp ELSE @]

PriorBody(l) == IF l.data # 0 THEN l.data ELSE l.prior.body

\* A 304's materialized entry: restated policy, or the stored one from now on.
FromNotModified(l, restated) ==
  LET p == l.prior
      kept == CASE p.must /\ p.exp = 0 -> 0
                [] p.exp > now -> p.exp
                [] OTHER -> now + (IF p.life = 0 THEN FallbackTtl ELSE p.life)
  IN IF restated
     THEN [FromResponse(up) EXCEPT !.body = PriorBody(l)]
     ELSE [p EXCEPT !.body = PriorBody(l), !.exp = kept, !.stale = Windowed(p.life, p.grant)]

(***************************************************************************)
(* MainResourceLoader and DatabaseFileSource::request.                     *)
(***************************************************************************)
Start(t) ==
  /\ load[t].st = "idle"
  /\ sc.loads > 0
  /\ sc' = [sc EXCEPT !.loads = @ - 1]
  /\ load' = [load EXCEPT ![t] = [Idle EXCEPT !.st = "database"]]
  /\ UNCHANGED <<now, up, cache, neg, cool>>

Lookup ==
  CASE cache.body = 0 -> "miss"
    [] Fresh(cache) -> "hit"
    [] CanServeStale(cache) -> "serveStale"
    [] OTHER -> "revalidate"

\* A stale entry is marked usable inside its grant and unusable outside it.
Database(t) ==
  /\ load[t].st = "database"
  /\ LET metadata == "petag" :> cache.etag @@ "pexp" :> cache.exp @@ "st" :> "network" IN
     CASE Lookup = "miss" -> Set(t, "st" :> "network")
       [] Lookup = "revalidate" -> Set(t, metadata @@ "data" :> cache.body)
       [] OTHER -> Set(t, metadata @@ "prio" :> "low" @@ "has" :> TRUE)
  /\ UNCHANGED <<sc, now, up, cache, neg, cool>>

(***************************************************************************)
(* NetworkFileSource::request.                                             *)
(***************************************************************************)
IsBackgroundRefresh(l) == l.data = 0 /\ l.petag # 0 /\ l.prio = "low"

FlightKey(l) == <<l.prio, l.petag, l.pexp, l.data # 0>>
LeaderOf(l) == {u \in Loads : load[u].lead /\ FlightKey(load[u]) = FlightKey(l)}

\* The head of fetch_coalesced's loop.
Joined(l) ==
  IF LeaderOf(l) = {}
  THEN [l EXCEPT !.st = "admission", !.lead = TRUE, !.on = 0]
  ELSE [l EXCEPT !.st = "waiting", !.on = CHOOSE u \in LeaderOf(l) : TRUE]

\* request, after the shared-cache race.
PastTheRace(l) ==
  CASE neg > now -> Ended(l, "noContent")
    [] neg <= now /\ IsBackgroundRefresh(l) /\ CanServeStale(cache) /\ cool > now ->
         Ended(l, "notModified")
    [] OTHER -> Joined([l EXCEPT !.wake = 0, !.capped = FALSE])

NegativeDropped == neg' = IF neg > now THEN neg ELSE 0

\* resolve_fresh_cache_race: only a background refresh may sleep.
Raced(l) ==
  LET wait == cache.exp - now IN
  IF IsBackgroundRefresh(l)
  THEN [l EXCEPT !.st = "parked", !.capped = wait > MaxDeferral,
                 !.wake = Min({now + wait, now + MaxDeferral, Horizon})]
  ELSE Ended(l, "body")

\* resolve_shared_cache_race and the steps that follow without a wait.
Request(t) ==
  /\ load[t].st = "network"
  /\ IF Fresh(cache)
     THEN load' = [load EXCEPT ![t] = Raced(@)] /\ UNCHANGED neg
     ELSE load' = [load EXCEPT ![t] = PastTheRace(@)] /\ NegativeDropped
  /\ UNCHANGED <<sc, now, up, cache, cool>>

\* The deferral's sleep ends: complete_deferred_refresh.
Wake(t) ==
  LET l == load[t] IN
  /\ l.st = "parked" /\ now >= l.wake
  /\ IF l.capped \/ Fresh(cache)
     THEN load' = [load EXCEPT ![t] = Ended(@, "notModified")] /\ UNCHANGED neg
     ELSE load' = [load EXCEPT ![t] = PastTheRace(l)] /\ NegativeDropped
  /\ UNCHANGED <<sc, now, up, cache, cool>>

\* flight.wait returned None: the waiter goes round fetch_coalesced's loop.
Restart(t) ==
  /\ load[t].st = "restart"
  /\ load' = [load EXCEPT ![t] = Joined(@)]
  /\ UNCHANGED <<sc, now, up, cache, neg, cool>>

(***************************************************************************)
(* The leader's fetch_with_retries.                                        *)
(***************************************************************************)
Holding(prio) == {t \in Loads : load[t].prio = prio /\ load[t].st \in {"sent", "headers", "reading"}}
Reading == {t \in Loads : load[t].st = "reading"}

\* The lane permit, then fetch_once_inner up to the request it sends.
Admit(t) ==
  /\ load[t].st = "admission"
  /\ Cardinality(Holding(load[t].prio)) < Lane
  /\ Set(t, "st" :> "sent" @@ "prior" :> PriorOf(load[t]))
  /\ UNCHANGED <<sc, now, up, cache, neg, cool>>

\* Mutant: the reply is not kept for the waiters.
CompletedAlone(t, reply) == [load EXCEPT ![t] = Ended(@, reply)]

\* FlightLeader::complete: the leader's reply is its waiters' too.
Completed(t, reply) ==
  [u \in Loads |-> IF u = t \/ (load[u].st = "waiting" /\ load[u].on = t)
                   THEN Ended(load[u], reply) ELSE load[u]]

\* update_refresh_failure_cooldown, on the cache finish_fetch has left.
Cooled(l, reply, entry) ==
  CASE IsBackgroundRefresh(l) /\ reply = "error" /\ CanServeStale(entry) -> now + CooldownTtl
    [] IsBackgroundRefresh(l) /\ reply # "error" -> 0
    [] OTHER -> cool

\* finish_fetch_sequence, then the flight.
Finish(t, reply, entry) ==
  /\ cache' = entry
  /\ cool' = Cooled(load[t], reply, entry)
  /\ load' = Completed(t, reply)

\* The provider's 200: the body permit is still to come.
Responds(t) ==
  /\ load[t].st = "sent" /\ up # 0
  /\ Set(t, "st" :> "headers" @@ "got" :> up)
  /\ UNCHANGED <<sc, now, up, cache, neg, cool>>

AdmitBody(t) ==
  /\ load[t].st = "headers"
  /\ Cardinality(Reading) < BodyPermits
  /\ Set(t, "st" :> "reading")
  /\ UNCHANGED <<sc, now, up, cache, neg, cool>>

\* read_bounded_body returned the body; no-store removes what was cached.
BodyRead(t) ==
  /\ load[t].st = "reading"
  /\ Finish(t, "body", IF sc.policy.store THEN FromResponse(load[t].got) ELSE NoEntry)
  /\ UNCHANGED <<sc, now, up, neg>>

\* Mutant: a 304 is never merged with the body native withheld.
NotModifiedUnmerged(l) == "notModified"

\* What a 304 hands to native: not_modified_attempt.
NotModifiedReply(l) == IF l.data # 0 THEN "body" ELSE "notModified"

NotModified(t) ==
  LET l == load[t] IN
  /\ l.st = "sent" /\ up # 0 /\ up = l.prior.etag
  /\ \E restated \in BOOLEAN :
       Finish(t, NotModifiedReply(l),
              CASE PriorBody(l) = 0 -> cache
                [] PriorBody(l) # 0 /\ restated /\ ~sc.policy.store -> NoEntry
                [] OTHER -> FromNotModified(l, restated))
  /\ UNCHANGED <<sc, now, up, neg>>

\* 404 or 410: the tile is empty, for NegativeTtl unless no-cache or no-store.
Missing(t) ==
  /\ load[t].st = "sent" /\ up = 0
  /\ neg' = IF sc.policy.noCache \/ ~sc.policy.store THEN neg ELSE now + NegativeTtl
  /\ Finish(t, "noContent", cache)
  /\ UNCHANGED <<sc, now, up>>

\* A transport error, a timeout or a 408, 429 or 5xx: the permits are free, and
\* there is one more attempt if the retry window allows it (a Retry-After may
\* not).  Another status, and a body over its limit, end the fetch at once.
Fails(t) ==
  LET l == load[t] IN
  /\ l.st \in {"sent", "reading"} /\ sc.faults > 0
  /\ sc' = [sc EXCEPT !.faults = @ - 1]
  /\ \/ /\ l.try + 1 < MaxAttempts
        /\ Set(t, "st" :> "admission" @@ "try" :> l.try + 1 @@ "prior" :> NoPrior @@ "got" :> 0)
        /\ UNCHANGED <<cache, cool>>
     \/ Finish(t, "error", cache)
  /\ UNCHANGED <<now, up, neg>>

(***************************************************************************)
(* Native drops a request: the future goes, with FlightLeader's Drop.      *)
(***************************************************************************)
Aborted(t) ==
  [u \in Loads |-> IF u = t THEN [Idle EXCEPT !.reply = "cancelled", !.has = load[t].has]
                   ELSE IF load[u].st = "waiting" /\ load[u].on = t
                        THEN [load[u] EXCEPT !.st = "restart", !.on = 0]
                        ELSE load[u]]

Cancel(t) ==
  /\ load[t].st # "idle"
  /\ sc.cancels > 0
  /\ sc' = [sc EXCEPT !.cancels = @ - 1]
  /\ load' = Aborted(t)
  /\ UNCHANGED <<now, up, cache, neg, cool>>

(***************************************************************************)
(* The world.                                                              *)
(***************************************************************************)
Tick ==
  /\ now < Horizon
  /\ now' = now + 1
  /\ UNCHANGED <<sc, up, cache, neg, cool, load>>

Publish ==
  /\ sc.publish # <<>>
  /\ up' = Head(sc.publish)
  /\ sc' = [sc EXCEPT !.publish = Tail(@)]
  /\ UNCHANGED <<now, cache, neg, cool, load>>

\* The cache is bounded by weight and drops entries to make room.
Evict ==
  /\ cache # NoEntry /\ sc.evictions > 0
  /\ cache' = NoEntry
  /\ sc' = [sc EXCEPT !.evictions = @ - 1]
  /\ UNCHANGED <<now, up, neg, cool, load>>

Step(t) ==
  \/ Database(t) \/ Request(t) \/ Wake(t) \/ Restart(t) \/ Admit(t)
  \/ Responds(t) \/ AdmitBody(t) \/ BodyRead(t) \/ NotModified(t) \/ Missing(t)

Next ==
  \/ \E t \in Loads : Start(t) \/ Step(t) \/ Fails(t) \/ Cancel(t)
  \/ Tick \/ Publish \/ Evict

Fairness == (\A t \in Loads : WF_vars(Step(t))) /\ WF_vars(Tick)

Spec == Init /\ [][Next]_vars /\ Fairness

(***************************************************************************)
(* Properties.                                                             *)
(***************************************************************************)
\* A waiter's flight is led, by a load that asked for the same thing: a leader
\* that ends or is dropped never leaves a waiter behind, and no waiter can be
\* handed an answer made for other prior fields (FlightLeader's complete and
\* Drop, fetch_coalesced, FlightKey).
WaitersLed ==
  \A t \in Loads : load[t].st = "waiting" =>
    load[t].on \in Loads /\ load[load[t].on].lead
      /\ FlightKey(load[load[t].on]) = FlightKey(load[t])

\* A consumer whose stale body was withheld for revalidation gets a body, an
\* empty tile or an error, never the bodyless 304 that would leave its load
\* open: not from its own fetch, not as a waiter of another's, not from the
\* cooldown and not by being parked (not_modified_attempt,
\* resolve_fresh_cache_race, resolve_refresh_failure_cooldown).
WithheldGetBytes ==
  \A t \in Loads : load[t].data # 0 => load[t].reply # "notModified" /\ load[t].st # "parked"

\* Every load ends: no order of races, deferrals, failures, cancelled leaders
\* and exhausted permits keeps a request open (NetworkFileSource::request).
LoadsEnd == \A t \in Loads : []<>(load[t].st = "idle")

\* A bodyless 304 goes only to a consumer that holds the body already
\* (not_modified_attempt; a test says "a bodyless 304 leaves the render
\* without this resource").
BodylessOnlyIfDelivered ==
  \A t \in Loads : load[t].reply = "notModified" => load[t].has
====
